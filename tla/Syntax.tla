------------------------------- MODULE Syntax -------------------------------
(***************************************************************************)
(* What the solver asks of expressions, goals and clauses before it runs   *)
(* them, and the renaming of a rule's variables each time it is used, by   *)
(* recursion on the syntax.                                                *)
(***************************************************************************)
EXTENDS Goals, Unification

\* The value of an expression, or what has to be done to get it.
RECURSIVE EvalExprValue(_, _)
EvalExprValue(e, env) ==
    IF e[1] = "cond"
    THEN LET c == DataValue(e[2], env) IN
         CASE c = Bool(TRUE) -> EvalExprValue(e[3], env)
           [] c = Bool(FALSE) -> EvalExprValue(e[4], env)
           [] OTHER -> IF c = Undefined THEN Undefined ELSE Raise
    ELSE IF e[1] \in {"call", "write", "raise"} THEN e
    ELSE DataValue(e, env)

RECURSIVE HasExpressionGoal(_)
HasExpressionGoal(body) ==
    \E i \in DOMAIN body :
        LET g == body[i] IN
        \/ g.k = "expr"
        \/ g.k \in {"for", "while", "try"} /\ HasExpressionGoal(g.body)
        \/ g.k = "try" /\ \E c \in DOMAIN g.catches : HasExpressionGoal(g.catches[c].body)
        \/ g.k = "switch" /\ \E c \in DOMAIN g.cases : HasExpressionGoal(g.cases[c].body)

(***************************************************************************)
(* Renaming apart.  names is the renaming so far; a variable first met in  *)
(* a scope is given the number of the scope.  Loop bodies and catch bodies *)
(* are scopes of their own, whose names are forgotten at their end.        *)
(***************************************************************************)
RECURSIVE Vars(_)
Vars(e) ==
    CASE e[1] = "var" -> {e[2]}
      [] e[1] = "list" -> UNION {Vars(e[2][i]) : i \in DOMAIN e[2]}
      [] e[1] = "call" -> UNION {Vars(e[3][i].v) : i \in DOMAIN e[3]}
      [] e[1] = "cond" -> Vars(e[2]) \cup Vars(e[3]) \cup Vars(e[4])
      [] OTHER -> {}

RECURSIVE RenameExpr(_, _)
RenameExpr(e, names) ==
    CASE e[1] = "var" -> <<"var", names[e[2]]>>
      [] e[1] = "list" -> List([i \in DOMAIN e[2] |-> RenameExpr(e[2][i], names)])
      [] e[1] = "call" -> CallTerm(e[2], [i \in DOMAIN e[3] |->
                                             [e[3][i] EXCEPT !.v = RenameExpr(@, names)]])
      [] e[1] = "cond" -> Conditional(RenameExpr(e[2], names), RenameExpr(e[3], names),
                                      RenameExpr(e[4], names))
      [] OTHER -> e

ArgVars(args) == UNION {Vars(args[i].v) : i \in DOMAIN args}
RenameArgs(args, names) == [i \in DOMAIN args |-> [args[i] EXCEPT !.v = RenameExpr(@, names)]]

Scope(names, number, next) == [names |-> names, number |-> number, next |-> next]
Know(s, xs) == [s EXCEPT !.names = @ @@ [x \in xs |-> <<x[1], s.number>>]]
Inner(s, x) == Know(Scope(s.names, s.next, s.next + 1), {x})
Leave(s, inner) == [s EXCEPT !.next = inner.next]

RECURSIVE RenameGoal(_, _), RenameGoals(_, _)
RenameGoal(g, s) ==
    LET Simple(xs) == Know(s, xs)
        Done(goal, scope) == [g |-> goal, s |-> scope]
    IN CASE g.k \in {"assign", "typed"} ->
              LET t == Simple({g.x} \cup Vars(g.e))
              IN Done([g EXCEPT !.x = t.names[@], !.e = RenameExpr(@, t.names)], t)
         [] g.k = "where" ->
              LET t == Simple(Vars(g.l) \cup Vars(g.r))
              IN Done([g EXCEPT !.l = RenameExpr(@, t.names), !.r = RenameExpr(@, t.names)], t)
         [] g.k = "expr" ->
              LET t == Simple(Vars(g.e)) IN Done([g EXCEPT !.e = RenameExpr(@, t.names)], t)
         [] g.k \in {"not", "call"} ->
              LET t == Simple(ArgVars(g.args)) IN Done([g EXCEPT !.args = RenameArgs(@, t.names)], t)
         [] g.k = "for" ->
              LET t == Simple(Vars(g.e))
                  body == RenameGoals(g.body, Inner(t, g.x))
              IN Done([g EXCEPT !.x = body.s.names[@], !.e = RenameExpr(@, t.names),
                                !.body = body.gs], Leave(t, body.s))
         [] g.k = "while" ->
              LET body == RenameGoals(g.body, s)
                  t == Know(body.s, Vars(g.e))
              IN Done([g EXCEPT !.e = RenameExpr(@, t.names), !.body = body.gs], t)
         [] g.k = "switch" ->
              LET One(acc, c) ==
                      LET t == Know(acc.s, Vars(c.v))
                          body == RenameGoals(c.body, t)
                      IN [cases |-> Append(acc.cases, Case(RenameExpr(c.v, t.names), body.gs)), s |-> body.s]
                  all == FoldLeft(One, [cases |-> <<>>, s |-> s], g.cases)
                  t == Know(all.s, Vars(g.e))
              IN Done([g EXCEPT !.e = RenameExpr(@, t.names), !.cases = all.cases], t)
         [] g.k = "try" ->
              LET tried == RenameGoals(g.body, s)
                  One(acc, c) ==
                      LET body == RenameGoals(c.body, Inner(acc.s, c.x))
                      IN [catches |-> Append(acc.catches, [x |-> body.s.names[c.x], body |-> body.gs]),
                          s |-> Leave(acc.s, body.s)]
                  all == FoldLeft(One, [catches |-> <<>>, s |-> tried.s], g.catches)
              IN Done([g EXCEPT !.body = tried.gs, !.catches = all.catches], all.s)
         [] OTHER -> Done(g, s)
RenameGoals(gs, s) ==
    FoldLeft(LAMBDA acc, g : LET r == RenameGoal(g, acc.s)
                             IN [gs |-> Append(acc.gs, r.g), s |-> r.s],
             [gs |-> <<>>, s |-> s], gs)

\* The clause with variables nobody else has, and the next free number.
RenamedApart(clause, number) ==
    LET s == Know(Scope(NoBindings, number, number + 1), ArgVars(clause.head))
        body == RenameGoals(clause.body, s)
    IN [clause |-> [clause EXCEPT !.head = RenameArgs(@, s.names), !.body = body.gs],
        next |-> body.s.next]
=============================================================================
