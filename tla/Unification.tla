----------------------------- MODULE Unification -----------------------------
(***************************************************************************)
(* The values of terms and their unification, by recursion on the terms.   *)
(* BindingTrail: what a rollback has to put back.                          *)
(***************************************************************************)
EXTENDS Terms

Recorded(env, trail) == [env |-> env, trail |-> trail]

Assign(s, x, t) ==
    Recorded(Bind(s.env, x, t),
             Append(s.trail, [x |-> x, previous |-> IF x \in DOMAIN s.env THEN <<s.env[x]>> ELSE <<>>]))

RECURSIVE RollbackTo(_, _)
RollbackTo(s, checkpoint) ==
    IF Len(s.trail) <= checkpoint THEN s
    ELSE LET entry == Last(s.trail)
         IN RollbackTo(Recorded(IF entry.previous = <<>> THEN Unbind(s.env, entry.x)
                              ELSE Bind(s.env, entry.x, entry.previous[1]),
                              Front(s.trail)), checkpoint)

RECURSIVE ResolveExpr(_, _)
ResolveExpr(t, env) ==
    IF IsVar(t) /\ t[2] \in DOMAIN env THEN ResolveExpr(env[t[2]], env) ELSE t

\* evalExprValue on data: a variable nothing binds becomes a symbol.
RECURSIVE DataValue(_, _)
DataValue(t, env) ==
    LET r == ResolveExpr(t, env) IN
    CASE IsVar(r) -> Atom(r[2][1])
      [] r[1] = "list" ->
           LET items == [i \in DOMAIN r[2] |-> DataValue(r[2][i], env)]
           IN IF \E i \in DOMAIN items : items[i] = Undefined THEN Undefined ELSE List(items)
      [] OTHER -> r

(***************************************************************************)
(* Unification                                                             *)
(***************************************************************************)
Bound(t, env) == IF IsVar(t) \/ DataValue(t, env) = Undefined THEN t ELSE DataValue(t, env)

RECURSIVE Unify(_, _, _)
Unify(a, b, s) ==
    LET ra == ResolveExpr(a, s.env)
        rb == ResolveExpr(b, s.env)
        Items[i \in 0 .. Len(ra[2])] ==
            IF i = 0 THEN [ok |-> TRUE, s |-> s]
            ELSE IF Items[i - 1].ok THEN Unify(ra[2][i], rb[2][i], Items[i - 1].s)
            ELSE Items[i - 1]
    IN CASE ra = rb /\ IsVar(ra) -> [ok |-> TRUE, s |-> s]
         [] IsVar(ra) /\ ra # rb -> [ok |-> TRUE, s |-> Assign(s, ra[2], Bound(rb, s.env))]
         [] IsVar(rb) /\ ~IsVar(ra) -> [ok |-> TRUE, s |-> Assign(s, rb[2], Bound(ra, s.env))]
         [] ra[1] = "list" /\ rb[1] = "list" ->
              IF Len(ra[2]) = Len(rb[2]) THEN Items[Len(ra[2])] ELSE [ok |-> FALSE, s |-> s]
         [] ra[1] # "list" /\ ra = rb -> [ok |-> ra # Undefined, s |-> s]
         [] OTHER -> [ok |-> FALSE, s |-> s]

(***************************************************************************)
(* Calls.  An argument is [n |-> name, v |-> term]; several arguments of a *)
(* head may have one name, and a goal's argument then matches any of them. *)
(***************************************************************************)
Candidates(arg, i, head) ==
    LET named == SelectSeq(head, LAMBDA h : h.n = arg.n)
    IN IF arg.n # "" /\ named # <<>> THEN named
       ELSE IF i <= Len(head) /\ (arg.n = "" \/ head[i].n = "") THEN <<head[i]>>
       ELSE <<>>

HasNames(args) == \E i \in DOMAIN args : args[i].n # ""

ShapesMatch(goal, head) ==
    /\ ~(Len(goal) = 1 /\ goal[1].n = "" /\ HasNames(head))
    /\ HasNames(goal) \/ HasNames(head) \/ Len(goal) = Len(head)
    /\ \A i \in DOMAIN goal : Candidates(goal[i], i, head) # <<>>

\* The environments under which the arguments from the i-th on match, tried one
\* after the other in one working environment.
RECURSIVE Enumerate(_, _, _, _)
Enumerate(goal, head, i, s) ==
    IF i > Len(goal) THEN [found |-> <<s.env>>, s |-> s]
    ELSE LET Try(acc, h) ==
                 LET u == Unify(goal[i].v, h.v, RollbackTo(acc.s, Len(s.trail)))
                     deeper == Enumerate(goal, head, i + 1, u.s)
                 IN IF u.ok THEN [found |-> acc.found \o deeper.found, s |-> deeper.s]
                    ELSE [acc EXCEPT !.s = u.s]
             all == FoldLeft(Try, [found |-> <<>>, s |-> s], Candidates(goal[i], i, head))
         IN [all EXCEPT !.s = RollbackTo(@, Len(s.trail))]

CallAlternatives(goal, head, env) ==
    IF ShapesMatch(goal, head) THEN Enumerate(goal, head, 1, Recorded(env, <<>>)).found ELSE <<>>

UnifyExpr(a, b, env) == Unify(a, b, Recorded(env, <<>>))

\* One pair after the other, until one of them does not unify.
UnifyPairs(pairs, env) ==
    LET One(found, pair) ==
            LET u == UnifyExpr(pair[1], pair[2], found[1])
            IN IF found # <<>> /\ u.ok THEN <<u.s.env>> ELSE <<>>
    IN FoldLeft(One, <<env>>, pairs)
=============================================================================
