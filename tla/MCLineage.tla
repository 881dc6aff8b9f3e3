------------------------------ MODULE MCLineage ------------------------------
(* Lineage for TLC: two types that may share two parents, so that the common *)
(* ancestors have no lowest one, or one of the parents extends the other.    *)
EXTENDS Lineage

CONSTANTS a, b, x, y

TwoParents == {<<x, a>>, <<x, b>>, <<y, a>>, <<y, b>>, <<b, a>>, <<a, x>>}
Opposite == {<<a, b>>, <<b, a>>}
Siblings == {<<x, y>>}


\* Reference for Ancestors: the types within so many edges, in every lineage
\* that the declared edges can make, cyclic ones included.
RECURSIVE Within(_, _, _)
Within(h, t, n) ==
    IF n = 0 THEN {t} ELSE {t} \cup UNION {Within(h, p, n - 1) : p \in ParentsOf(h, t)}

Lineages == {LineageOf(edges) : edges \in SUBSET Declarable}

ASSUME AncestorsAreWithinReach ==
    \A h \in Lineages, t \in Type : Ancestors(h, t) = Within(h, t, Cardinality(Type))
==============================================================================
