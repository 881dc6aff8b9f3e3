-------------------------- MODULE RelationalRules --------------------------
(***************************************************************************)
(* Relational rules: their goals, which predicates may be evaluated by     *)
(* tables, which programs are stratified, and what a program means.        *)
(*                                                                         *)
(* A clause is [head, args, body, method, relational].  A term is a        *)
(* variable or a value; facts and answers are <<predicate, values>>.  The  *)
(* arguments of a predicate stand for fields that every call of it names.  *)
(* Not relational are clauses that are methods or have fallback branches,  *)
(* whose goals are among those of the body; one goal kind, "other", stands *)
(* for the goals that tables do not take.                                  *)
(***************************************************************************)
EXTENDS Naturals, FiniteSets, Sequences

Var(x) == <<"var", x>>
Val(v) == <<"val", v>>

Call(p, args) == [kind |-> "call", of |-> p, args |-> args]
NotCall(p, args) == [kind |-> "not", of |-> p, args |-> args]
\* The values differ.
Where(a, b) == [kind |-> "where", args |-> <<a, b>>]
\* effect: what evaluating the expression does to the database, and how.
Assign(x, a, effect) == [kind |-> "assign", args |-> <<Var(x), a>>, effect |-> effect]
Other == [kind |-> "other", args |-> <<>>]

Rule(p, args, body) ==
    [head |-> p, args |-> args, body |-> body, method |-> FALSE, relational |-> TRUE]
WithFallback(p, args, body) == [Rule(p, args, body) EXCEPT !.relational = FALSE]
Method(p, body) == [WithFallback(p, <<>>, body) EXCEPT !.method = TRUE]

GoalsOf(c) == {c.body[i] : i \in DOMAIN c.body}

\* A term is a variable or a value.
AreTerms(args, values) ==
    \A i \in DOMAIN args :
        args[i] = Var(args[i][2]) \/ (args[i] = Val(args[i][2]) /\ args[i][2] \in values)

Targets(c) == {g.of : g \in {h \in GoalsOf(c) : h.kind \in {"call", "not"}}}

------------------------------------------------------------------------------
(* The predicates a predicate depends on, in the clauses cs *)

\* What the clauses of a predicate in ps need is in ps.
Closed(cs, ps) == \A c \in cs : c.head \in ps => Targets(c) \subseteq ps

\* The least closed set with ps in it.
Reached(cs, ps) ==
    LET all == ps \cup UNION {Targets(c) : c \in cs}
    IN {p \in all : \A qs \in SUBSET all : ps \subseteq qs /\ Closed(cs, qs) => p \in qs}

\* The names buildTableEvaluation collects from p.
NamesOf(cs, p) == Reached({c \in cs : c.relational}, {p})

DependsOn(cs, p) == Reached(cs, UNION {Targets(c) : c \in {d \in cs : d.head = p}})

------------------------------------------------------------------------------
(* Which predicates have tables *)

\* exprMayHaveSideEffects: it knows builtins and native functions, and takes
\* a method for pure.
MayHaveSideEffects(g) == g.effect = "builtin"

IsTableEligibleGoal(g) ==
    \/ g.kind \in {"call", "not", "where"}
    \/ g.kind = "assign" /\ ~MayHaveSideEffects(g)

\* isTableEligiblePredicate
IsTableEligible(cs, p) ==
    \A c \in cs : c.head \in Reached(cs, {p}) =>
        c.relational /\ \A g \in GoalsOf(c) : IsTableEligibleGoal(g)

\* The walk of isTableEligiblePredicate meets a predicate it is visiting.
IsRecursive(cs, p) == \E q \in Reached(cs, {p}) : q \in DependsOn(cs, q)

------------------------------------------------------------------------------
(* validateNegationStratification *)

Relational(cs) == {c \in cs : c.relational}

\* The clauses it looks at, whether or not tables take them.
Rules(cs) == {c \in cs : ~c.method}

NegativeEdges(cs) ==
    UNION {{<<c.head, g.of>> : g \in {h \in GoalsOf(c) : h.kind = "not"}} : c \in cs}

\* Faulty variant: only the statements of the new program are looked at.
IsStratifiedAlone(old, new) ==
    \A e \in NegativeEdges(Rules(new)) : e[1] \notin Reached(Rules(new), {e[2]})

IsStratified(old, new) ==
    LET cs == Rules(old \cup new)
    IN \A e \in NegativeEdges(cs) : e[1] \notin Reached(cs, {e[2]})

------------------------------------------------------------------------------
(* Matching: an environment binds variables to values *)

Valued(t, env) == IF t[1] = "val" THEN t[2] ELSE env[t[2]]
Unbound(args, env) == {args[i][2] : i \in {j \in DOMAIN args : args[j][1] = "var"}} \ DOMAIN env

\* env with what the values bind; whether they match is another question.
Extended(env, args, values) ==
    [x \in DOMAIN env \cup Unbound(args, env) |->
        IF x \in DOMAIN env THEN env[x]
        ELSE values[CHOOSE i \in DOMAIN args : args[i] = Var(x)]]

Matches(env, args, values) ==
    LET full == Extended(env, args, values)
    IN \A i \in DOMAIN args : Valued(args[i], full) = values[i]

\* The variables of the first n goals of a clause.
VarsUpTo(c, n) == UNION {Unbound(c.body[i].args, <<>>) : i \in 1 .. n}

Instance(args, env) == [i \in DOMAIN args |-> Valued(args[i], env)]

------------------------------------------------------------------------------
(* What a program means: the well-founded model of its rules and facts, by *)
(* alternating fixpoints, with no strata and no tables.                    *)

VarsOf(c) ==
    (UNION {Unbound(g.args, <<>>) : g \in GoalsOf(c)}) \cup Unbound(c.args, <<>>)

\* Goal g holds of the atoms S, where the atoms in I are not false.
Holds(g, env, S, I) ==
    CASE g.kind = "call" -> <<g.of, Instance(g.args, env)>> \in S
      [] g.kind = "not" -> <<g.of, Instance(g.args, env)>> \notin I
      [] g.kind = "where" -> Valued(g.args[1], env) # Valued(g.args[2], env)
      [] g.kind = "assign" -> Valued(g.args[1], env) = Valued(g.args[2], env)
      [] OTHER -> FALSE

Consequences(cs, values, S, I) ==
    UNION {{<<c.head, Instance(c.args, env)>> :
                env \in {e \in [VarsOf(c) -> values] : \A g \in GoalsOf(c) : Holds(g, e, S, I)}}
             : c \in cs}

\* S and what heads may become; the constants of the clauses are among values.
Atoms(cs, values, S) == S \cup UNION {{c.head} \X [DOMAIN c.args -> values] : c \in cs}

\* From S, the consequences of consequences.
Least(cs, values, S, I) ==
    LET least[T \in SUBSET Atoms(cs, values, S)] ==
            LET more == T \cup Consequences(cs, values, T, I)
            IN IF more = T THEN T ELSE least[more]
    IN least[S]

\* What is true in the well-founded model of the clauses cs and the atoms S:
\* as much as grows from nothing when what may still be true is found from
\* what is true, and the reverse.
WellFoundedModel(cs, values, S) ==
    LET truth[under \in SUBSET Atoms(cs, values, S)] ==
            LET more == under \cup Least(cs, values, S, Least(cs, values, S, under))
            IN IF more = under THEN under ELSE truth[more]
    IN truth[{}]
=============================================================================
