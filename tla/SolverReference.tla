-------------------------- MODULE SolverReference --------------------------
(***************************************************************************)
(* What a program means, without stacks, frames or modes to restore: the   *)
(* first answer of a conjunction, defined by recursion on its goals.  An   *)
(* outcome is an answer ("yes"), none ("no"), or what is being thrown; s   *)
(* holds the effects so far and the next number for a rule's variables.    *)
(* c is the context a goal runs in, which nothing below it can change.     *)
(***************************************************************************)
EXTENDS GoalSolver

Yes(env, s) == [k |-> "yes", env |-> env, s |-> s]
No(s) == [k |-> "no", env |-> NoBindings, s |-> s]
Err(s) == [k |-> "error", env |-> NoBindings, s |-> s]
ValueOf(v, s) == [k |-> "value", v |-> v, s |-> s]
Plain == {"yes", "no"}

RECURSIVE Meaning(_, _, _, _, _), Do(_, _, _, _, _), Ways(_, _, _, _, _), FirstOf(_, _, _),
          MethodMeaning(_, _, _, _, _, _), CallValue(_, _, _, _, _, _), Rounds(_, _, _, _, _, _, _),
          Repeat(_, _, _, _, _, _), Handlers(_, _, _, _, _, _), FirstBody(_, _, _, _, _)

Meaning(gs, env, d, c, s) ==
    IF d > MaxFrameDepth THEN Err(s)
    ELSE IF gs = <<>> THEN Yes(env, s)
    ELSE IF Head(gs).k = "call" THEN Ways(gs, env, d, c, s)
    ELSE LET r == Do(Head(gs), env, d, c, s)
         IN IF r.k = "yes" THEN Meaning(Tail(gs), r.env, d, c, r.s) ELSE r

\* break and continue end with the solve that starts at depth 0.
Whole(gs, env, c, s) ==
    LET r == Meaning(gs, env, 0, c, s) IN IF r.k \in {"break", "continue"} THEN Err(r.s) ELSE r

ExprValue(e, env, c, s) ==
    LET r == Reduce(e, env) IN
    CASE r[1] = "raise" -> Err(s)
      [] r[1] = "write" -> ValueOf(Num(r[2]), [s EXCEPT !.log = Append(@, r[2])])
      [] r[1] = "call" -> CallValue(r[2], r[3], env, c, s, c)
      [] r[1] = "undefined" -> No(s)
      [] OTHER -> ValueOf(r, s)

Do(g, env, d, c, s) ==
    LET v == ExprValue(g.e, env, c, s)
        left == ExprValue(g.l, env, c, s)
        Keep(found) == IF found.k = "value" THEN Bind(env, Ret, found.v) ELSE env
        NoValue == IF c.strict THEN Err(v.s) ELSE No(v.s)
        InTail == /\ g.e[1] = "call" /\ c.tramp /\ c.methods = c.trampAt + 1
                  /\ g = c.tail /\ Clauses(g.e[2]) # <<>>
    IN CASE g.k = "assign" /\ g.x \in DOMAIN env -> Err(s)
         [] g.k = "assign" /\ g.x \notin DOMAIN env ->
              IF v.k = "value" THEN Yes(Bind(Keep(v), g.x, v.v), v.s) ELSE IF v.k = "no" THEN NoValue ELSE v
         [] g.k = "typed" ->
              IF v.k = "no" THEN NoValue
              ELSE IF v.k # "value" THEN v
              ELSE IF g.x \in DOMAIN env \/ (g.type # "any" /\ g.type # v.v[1]) THEN Err(v.s)
              ELSE Yes(Bind(Keep(v), g.x, v.v), v.s)
         [] g.k = "expr" ->
              IF InTail THEN [k |-> "tail", env |-> env, s |-> s, f |-> g.e[2], args |-> g.e[3]]
              ELSE IF v.k = "value" THEN Yes(Keep(v), v.s) ELSE IF v.k = "no" THEN NoValue ELSE v
         [] g.k = "where" ->
              LET lv == IF g.op = "less" \/ left.k # "value" THEN Undefined ELSE left.v
                  t == IF g.op = "less" THEN s ELSE left.s
                  w == WhereHolds(g, env, lv, Value(g.r, env))
              IN IF g.op # "less" /\ left.k \notin {"value", "no"} THEN left
                 ELSE IF w.ok THEN Yes(w.env, t) ELSE No(t)
         [] g.k = "not" ->
              LET r == Meaning(<<CallGoal(g.p, g.args)>>, env, d + 2,
                               [c EXCEPT !.negated = @ \cup {g.p}], s)
              IN IF \/ \E i \in DOMAIN g.args : IsVar(Resolve(g.args[i].v, env))
                    \/ \E i \in DOMAIN Clauses(g.p) : IsMethodClause(Clauses(g.p)[i])
                    \/ Clauses(g.p) = <<>> /\ g.p \notin DOMAIN Stored
                    \/ g.p \in c.negated
                 THEN Err(s)
                 ELSE IF r.k = "yes" THEN No(r.s) ELSE IF r.k = "no" THEN Yes(env, r.s) ELSE r
         [] g.k = "for" ->
              IF v.k = "value" /\ v.v[1] = "list" THEN Rounds(g, v.v[2], 0, env, d, c, v.s)
              ELSE IF v.k \in {"value", "no"} THEN Err(v.s) ELSE v
         [] g.k = "while" -> Repeat(g, 0, env, d, c, s)
         [] g.k = "switch" ->
              LET i == Selected(g, v.v, env)
                  bodies == FlattenSeq([j \in 1 .. Len(g.cases) - i + 1 |-> g.cases[i + j - 1].body])
                  r == Meaning(bodies, env, d + 1, c, v.s)
              IN IF v.k # "value" THEN (IF v.k = "no" THEN Err(v.s) ELSE v)
                 ELSE IF i = 0 THEN Yes(env, v.s)
                 ELSE IF r.k = "break" THEN Yes(r.env, r.s) ELSE r
         [] g.k = "try" ->
              LET r == Meaning(g.body, env, d + 1, c, s)
              IN IF r.k = "error" THEN Handlers(g, 1, env, d, c, r.s) ELSE r
         [] OTHER -> [k |-> g.k, env |-> env, s |-> s]

\* A loop leaves the bindings of its rounds behind, but for the last result.
Rounds(g, items, n, env, d, c, s) ==
    LET r == Meaning(g.body, Bind(env, g.x, Head(items)), d + 1, c, s)
    IN IF items = <<>> THEN Yes(env, s)
       ELSE IF n = MaxIterations \/ g.x \in DOMAIN env THEN Err(s)
       ELSE IF r.k \in {"yes", "no", "continue"} THEN Rounds(g, Tail(items), n + 1, env, d, c, r.s)
       ELSE IF r.k = "break" THEN Yes(KeepReturn(env, r.env), r.s) ELSE r

Repeat(g, n, env, d, c, s) ==
    LET test == Reduce(g.e, env)
        r == Meaning(g.body, env, d + 1, c, s)
    IN IF n = MaxIterations \/ test \notin {Bool(TRUE), Bool(FALSE)} THEN Err(s)
       ELSE IF test = Bool(FALSE) THEN Yes(env, s)
       ELSE IF r.k \in {"yes", "continue"} THEN Repeat(g, n + 1, env, d, c, r.s)
       ELSE IF r.k = "no" THEN Yes(env, r.s)
       ELSE IF r.k = "break" THEN Yes(KeepReturn(env, r.env), r.s) ELSE r

Handlers(g, j, env, d, c, s) ==
    LET x == g.catches[j].x
        r == IF x \in DOMAIN env THEN Err(s)
             ELSE Meaning(g.catches[j].body, Bind(env, x, ErrorValue), d + 1, c, s)
    IN IF r.k = "yes" THEN Yes(Unbind(r.env, x), r.s)
       ELSE IF r.k = "error" /\ x \notin DOMAIN env /\ j < Len(g.catches)
       THEN Handlers(g, j + 1, env, d, c, r.s) ELSE r

FirstOf(branches, c, s) ==
    IF branches = <<>> THEN No(s)
    ELSE LET b == Head(branches)
             r == Meaning(b.gs, b.env, b.d, c, s)
         IN IF r.k = "no" THEN FirstOf(Tail(branches), c, r.s) ELSE r

\* The ways to go on after a call: the answers of methods and the bodies of
\* rules in the order of the clauses, then the rows of the store.
Ways(gs, env, d, c, s) ==
    LET g == Head(gs)
        rest == Tail(gs)
        args == EffectiveArgs(g, env)
        Branch(goals, e, depth) == [gs |-> goals, env |-> e, d |-> depth]
        One(acc, clause) ==
            LET m == MethodMeaning(clause, args, env, d + 1, c, acc.s)
                apart == StandardizeApart(clause, acc.s.next)
                found == UnifyCallAlternatives(args, apart.clause.head, env)
            IN IF acc.thrown # <<>> THEN acc
               ELSE IF IsMethodClause(clause)
               THEN [branches |-> IF m.k = "yes" THEN Append(acc.branches, Branch(rest, m.env, d + 1))
                                  ELSE acc.branches,
                     thrown |-> IF m.k \in Plain THEN <<>> ELSE <<m>>, s |-> m.s]
               ELSE [acc EXCEPT !.s.next = apart.next, !.branches = @ \o
                        [a \in DOMAIN found |-> Branch(apart.clause.body \o rest, found[a], d + 1)]]
        all == FoldLeft(One, [branches |-> <<>>, thrown |-> <<>>, s |-> s], Clauses(g.p))
        fits == SelectSeq(Rows(g.p), LAMBDA row : UnifyCallAlternatives(args, row, env) # <<>>)
        rows == [i \in DOMAIN fits |-> Branch(rest, UnifyCallAlternatives(args, fits[i], env)[1], d + 2)]
        r == FirstOf(all.branches, c, all.s)
    IN IF all.thrown # <<>> THEN all.thrown[1]
       ELSE IF r.k # "no" THEN r
       ELSE IF d + 1 > MaxFrameDepth THEN Err(r.s) ELSE FirstOf(rows, c, r.s)

FirstBody(bodies, env, d, c, s) ==
    LET r == Meaning(Head(bodies), env, d, c, s)
    IN IF bodies = <<>> THEN No(s)
       ELSE IF r.k = "no" \/ (r.k = "yes" /\ Ret \notin DOMAIN r.env)
       THEN FirstBody(Tail(bodies), env, d, c, r.s) ELSE r

MethodMeaning(clause, args, env, d, c, s) ==
    LET body == clause.body
        inside == [c EXCEPT !.methods = @ + 1, !.tail = IF body = <<>> THEN NoGoal ELSE Last(body)]
        frame == BindParams(clause, args, env)[1]
        cut == SelectInSeq(body, LAMBDA g : g.k = "where")
        prelude == IF cut = 0 THEN body ELSE SubSeq(body, 1, cut - 1)
        guards == IF cut = 0 THEN <<>> ELSE <<SubSeq(body, cut, Len(body))>>
        Returns(r) ==
            LET e == AppendReturned([clause |-> clause, args |-> args, env |-> env], r.env)
            IN IF r.k # "yes" THEN r ELSE IF e = <<>> THEN No(r.s) ELSE Yes(e[1], r.s)
        WithResult(r, v) == IF r.k = "yes" /\ Ret \notin DOMAIN r.env THEN Yes(Bind(r.env, Ret, v), r.s) ELSE r
        before == Meaning(prelude, frame, d + 1, inside, s)
        guarded == FirstBody(guards \o clause.fallback, before.env, d + 1, inside, before.s)
        One(acc, g) ==
            LET r == Whole(<<g>>, acc.env, [inside EXCEPT !.value = FALSE], acc.s)
            IN IF acc.k # "yes" THEN acc
               ELSE IF r.k \notin Plain THEN [k |-> r.k, env |-> r.env, s |-> r.s, truths |-> <<>>]
               ELSE [k |-> "yes", env |-> IF r.k = "yes" THEN r.env ELSE acc.env, s |-> r.s,
                     truths |-> Append(acc.truths, Bool(r.k = "yes"))]
        truth == FoldLeft(One, [k |-> "yes", env |-> frame, s |-> s, truths |-> <<>>], body)
        whole == Meaning(body, frame, d + 1, inside, s)
    IN IF c.methods >= MaxMethodDepth THEN Err(s)
       ELSE IF ~ShapeFits(clause, args, env) \/ BindParams(clause, args, env) = <<>> THEN No(s)
       ELSE IF clause.fallback # <<>> THEN
              IF before.k # "yes" THEN before
              ELSE IF cut = 0 /\ Ret \in DOMAIN before.env THEN Returns(before)
              ELSE Returns(guarded)
       ELSE IF c.value /\ ~IsMain(clause) /\ ~BodyHasExpressionGoal(body) THEN
              IF truth.k # "yes" THEN truth
              ELSE Returns(Yes(Bind(truth.env, Ret,
                       IF \A i \in DOMAIN truth.truths : truth.truths[i] = Bool(TRUE) THEN Bool(TRUE)
                       ELSE List(truth.truths)), truth.s))
       ELSE IF whole.k = "no" /\ c.value /\ ~IsMain(clause)
            THEN Returns(Yes(Bind(frame, Ret, Bool(FALSE)), whole.s))
       ELSE Returns(WithResult(whole, IF IsMain(clause) THEN Atom("empty") ELSE Bool(TRUE)))

\* The value of a call: an output argument the rules find, else the result of
\* the first method that has one, else whether the call holds.  A tail call of
\* the method starts over with the call.
CallValue(f, args, env, c, s, outer) ==
    LET inside == [outer EXCEPT !.tramp = TRUE, !.trampAt = outer.methods]
        clauses == Clauses(f)
        values == [i \in DOMAIN args |-> [args[i] EXCEPT !.v = Value(@, env)]]
        none(t) == [k |-> "no", env |-> NoBindings, s |-> t]
        Infer(acc, clause) ==
            LET goal == CallGoal(f, Append(args, Arg(Missing(clause, args)[1].n, <<"var", Output>>)))
                r == Whole(<<goal>>, env, inside, acc.s)
            IN IF acc.k # "no" \/ ~Infers(clause, args) THEN acc
               ELSE IF r.k = "yes" /\ Output \in DOMAIN r.env
               THEN ValueOf(Value(<<"var", Output>>, r.env), r.s)
               ELSE IF r.k \in Plain THEN none(r.s) ELSE r
        inferred == FoldLeft(Infer, none(s), clauses)
        Run(acc, clause) ==
            LET r == MethodMeaning(clause, values, env, 0, [inside EXCEPT !.value = TRUE], acc.s)
            IN IF acc.k # "no" \/ ~Callable(clause) THEN acc
               ELSE IF r.k = "yes" THEN ValueOf(r.env[Ret], r.s) ELSE r
        run == FoldLeft(Run, none(inferred.s), clauses)
        held == Whole(<<CallGoal(f, values)>>, env, [inside EXCEPT !.value = outer.value], run.s)
    IN IF inferred.k # "no" THEN inferred
       ELSE IF (\E i \in DOMAIN values : values[i].v = Undefined) \/ \A i \in DOMAIN clauses : ~Callable(clauses[i])
       THEN none(inferred.s)
       ELSE IF run.k = "tail" THEN CallValue(run.f, run.args, run.env, c, run.s, outer)
       ELSE IF run.k # "no" THEN run
       ELSE IF held.k = "yes" THEN ValueOf(Atom("true"), held.s) ELSE held

Outermost ==
    [value |-> FALSE, strict |-> program.main, methods |-> 0, tail |-> NoGoal,
     tramp |-> FALSE, trampAt |-> 0, negated |-> {}]
Nothing == [log |-> <<>>, next |-> 1]

Meant ==
    LET r == IF program.main
             THEN MethodMeaning(Last(Clauses("main")), <<>>, NoBindings, 0, Outermost, Nothing)
             ELSE CallValue(program.entry[2], program.entry[3], NoBindings, Outermost, Nothing, Outermost)
    IN [log |-> r.s.log,
        result |-> CASE r.k = "value" -> r.v
                     [] r.k = "yes" -> r.env[Ret]
                     [] r.k = "no" /\ ~program.main -> Failed
                     [] OTHER -> Stopped]

\* A program ends with the value and the effects its text means: what the frames,
\* the activations and the exceptions of the solver compute is the first answer in
\* depth-first order, each effect happens once and in that order, and a goal runs in
\* the context of the call it belongs to, whichever goals ran or failed before it.
AsMeant ==
    [][ machine'.result # Pending => [log |-> machine'.log, result |-> machine'.result] = Meant ]_vars
=============================================================================
