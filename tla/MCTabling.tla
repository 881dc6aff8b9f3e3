------------------------------ MODULE MCTabling ------------------------------
(* Tabling for TLC: paths over edges and roads, with two strata above them.  *)
EXTENDS Tabling

x == Var("x")
y == Var("y")
z == Var("z")

Direct == Rule("path", <<x, y>>, <<Call("edge", <<x, y>>)>>)
Transitive == Rule("path", <<x, z>>, <<Call("path", <<x, y>>), Call("path", <<y, z>>)>>)
Open == Rule("open", <<x, y>>,
             <<Call("path", <<x, y>>), NotCall("closed", <<y>>), Where(x, y)>>)
Sealed == Rule("sealed", <<x, y>>, <<Call("path", <<x, y>>), NotCall("open", <<x, y>>)>>)
\* Closes a negative cycle with Open.
Closing == Rule("closed", <<y>>, <<Call("open", <<x, y>>)>>)
Home == Rule("path", <<x, z>>, <<Call("closed", <<x>>), Assign("z", Val(1), "none")>>)
\* No table takes it, but it closes a negative cycle with Open and Sealed.
Otherwise == WithFallback("closed", <<y>>, <<Call("sealed", <<x, y>>)>>)
\* A method of the name of a predicate.
Instead == Method("open", <<Other>>)

PathClauses == {Direct, Transitive, Open, Sealed, Closing, Home, Otherwise, Instead}
PathPrograms == {{Direct, Transitive}, {Direct, Transitive, Open, Sealed}}

Edges == {<<"edge", <<1, 2>>>>, <<"edge", <<2, 3>>>>}
Road == <<"road", <<3, 1>>>>
PathFacts == {Edges \cup {Road}, Edges \cup {Road, <<"closed", <<2>>>>}}
ExtraFacts == {Road, <<"closed", <<1>>>>}
Roads == {<<"road", "edge">>}
Contraries == {<<"open", "sealed">>}
Queries == {<<"open", <<Val(2), Val(1)>>>>, <<"path", <<x, Val(1)>>>>}

Arities == [p \in {"path", "edge", "road", "open", "sealed", "closed"} |->
               IF p = "closed" THEN 1 ELSE 2]

\* References for Reached and Compatible: walks along the calls of clauses and
\* along pairs, as long as there are steps to take.
RECURSIVE Walked(_, _, _)
Walked(cs, ps, n) ==
    IF n = 0 THEN ps
    ELSE Walked(cs, ps \cup UNION {Targets(c) : c \in {d \in cs : d.head \in ps}}, n - 1)

RECURSIVE Extends(_, _, _, _)
Extends(pairs, t, p, n) ==
    \/ t = p
    \/ n > 0 /\ \E e \in pairs : e[1] = t /\ Extends(pairs, e[2], p, n - 1)

Chains == {{}, Roads, {<<"a", "b">>, <<"b", "c">>}, {<<"a", "b">>, <<"b", "a">>, <<"b", "c">>, <<"a", "d">>}}

ASSUME ReachedIsWalked ==
    \A cs \in SUBSET PathClauses, p \in Predicate :
        Reached(cs, {p}) = Walked(cs, {p}, Cardinality(PathClauses))

ASSUME CompatibleIsExtends ==
    \A pairs \in Chains : \A t, p \in UNION {{e[1], e[2]} : e \in pairs \cup Roads} :
        Compatible(pairs, t, p) <=> Extends(pairs, t, p, Cardinality(pairs))
==============================================================================
