------------------------------ MODULE Lineage ------------------------------
(***************************************************************************)
(* The lineage of the types: what each session has of it in memory         *)
(* (TypeHierarchy.cpp), the parent edges in the database it comes from,    *)
(* the answers about it a session caches by the generation of its lineage, *)
(* and the analysis of common ancestors                                    *)
(* (Interpreter::evalAncestorAnalysis).                                    *)
(*                                                                         *)
(* A load of a module holds the mutex of the store from its first to its   *)
(* last statement; meanwhile the others read what was committed before it, *)
(* which is as if they had read before it.  A rollback gives the lineage   *)
(* back with its generation, so that two lineages of one session may have  *)
(* one generation.                                                         *)
(***************************************************************************)
EXTENDS Naturals, FiniteSets, SequencesExt

CONSTANTS Session,
          Declaring,     \* bound: the sessions whose modules declare parents
          Asking,        \* bound: the sessions that ask about the lineage
          Type,
          FactType,      \* "Fact", what every type is
          Declarable,    \* the edges <<child, parent>> the modules declare
          MaxEdges,      \* bound: edges a session has
          CaughtInLoad,  \* loaded modules may catch errors (try ... catch)
          Asked,         \* the pairs of types whose ancestors are asked for
          NotLoading,    \* no session loads a module
          NotAsked       \* the last step was no analysis

ASSUME EdgeAssumption == /\ FactType \notin Type
                         /\ Declarable \cup Asked \subseteq Type \X Type
ASSUME TypeAssumption == IsFiniteSet(Type)
ASSUME SessionAssumption == /\ Declaring \cup Asking \subseteq Session
                            /\ NotLoading \notin Session
                            /\ CaughtInLoad \in BOOLEAN

VARIABLES parents,       \* of each session: the parents of a type, in order
          generation,    \* hierarchyGeneration_
          cache,         \* the three ancestry caches and their generation
          open,          \* sessions with an open database
          stored,        \* T rows: edges in the database
          loading,       \* [by |-> session, ...]: what a rollback restores
          analysis       \* what the last step returned, if it analysed

vars == <<parents, generation, cache, open, stored, loading, analysis>>

------------------------------------------------------------------------------
(* The lineage h of one session *)

NoParents == [t \in Type |-> <<>>]
ParentsOf(h, t) == IF t = FactType THEN {} ELSE Range(h[t])
Edges(h) == {e \in Type \X Type : e[2] \in ParentsOf(h, e[1])}

\* What the walk of isCompatibleType from t reaches: t, and with a type its
\* parents, and nothing that a set with these can do without.
ClosedUp(h, ts) == \A t \in ts : ParentsOf(h, t) \subseteq ts

Ancestors(h, t) ==
    LET closed == {ts \in SUBSET Type : t \in ts /\ ClosedUp(h, ts)}
    IN  {x \in Type : \A ts \in closed : x \in ts}

IsCompatibleType(h, actual, expected) ==
    expected = FactType \/ expected \in Ancestors(h, actual)

\* Faulty variant: looks at the parents only.
ClosesCycleDirectly(h, child, parent) == child = parent \/ child \in ParentsOf(h, parent)

ClosesCycle(h, child, parent) == child = parent \/ IsCompatibleType(h, parent, child)

\* setParent: an edge that is there changes nothing.
WithParent(h, child, parent) ==
    IF parent \in ParentsOf(h, child) THEN h
    ELSE [h EXCEPT ![child] = Append(@, parent)]

Grown(h, child, parent) == IF parent \in ParentsOf(h, child) THEN 0 ELSE 1

(* What is cached about a type *)

\* typeAncestry: itself, then breadth first, each once; Fact comes last.
TypeAncestry(h, t) ==
    LET walk[pending \in Seq(Type), seen \in Seq(Type)] ==
            CASE pending = <<>> -> seen
              [] pending # <<>> /\ Head(pending) \in Range(seen) ->
                    walk[Tail(pending), seen]
              [] OTHER -> walk[Tail(pending) \o h[Head(pending)],
                               Append(seen, Head(pending))]
    IN  Append(walk[<<t>>, <<>>], FactType)

\* A type without parents leads to Fact.
Above(h, t) ==
    IF t # FactType /\ ParentsOf(h, t) = {} THEN {FactType} ELSE ParentsOf(h, t)

\* typeAncestorDistances: the length of a shortest walk.
TypeAncestorDistances(h, t) ==
    LET ring[n \in Nat] == IF n = 0 THEN {t} ELSE UNION {Above(h, x) : x \in ring[n - 1]}
        rings == [n \in 0 .. Cardinality(Type) |-> ring[n]]
    IN  [x \in UNION Range(rings) |->
            CHOOSE n \in DOMAIN rings : x \in rings[n] /\ \A k \in 0 .. n - 1 : x \notin rings[k]]

\* typeHierarchyDepth: the length of a longest walk to a type without parents.
Depths(h) ==
    LET depth[t \in Type] == 1 + Max({0} \cup {depth[p] : p \in ParentsOf(h, t)})
    IN  depth
Depth(h, t) == IF t = FactType THEN 0 ELSE Depths(h)[t]

------------------------------------------------------------------------------
(* The caches of one session: partial functions from types *)

NoCache == [generation |-> 0, ancestry |-> <<>>, distances |-> <<>>, depth |-> <<>>]

\* refreshAncestryCaches
Refreshed(c, g) == IF c.generation = g THEN c ELSE [NoCache EXCEPT !.generation = g]

\* emplace: an entry that is there stays.
Emplaced(entries, more) ==
    [t \in (DOMAIN entries) \cup (DOMAIN more) |->
        IF t \in DOMAIN entries THEN entries[t] ELSE more[t]]

\* The depth of a type is cached with the depths of all it inherits from.
WithDepths(c, h, ts) ==
    LET all == UNION {Ancestors(h, t) : t \in ts}
    IN  [c EXCEPT !.depth = Emplaced(@, [t \in all |-> Depth(h, t)])]

WithAncestry(c, h, t) ==
    [c EXCEPT !.ancestry = Emplaced(@, [u \in {t} |-> TypeAncestry(h, u)])]

WithDistances(c, h, ts) ==
    [c EXCEPT !.distances = Emplaced(@, [t \in ts |-> TypeAncestorDistances(h, t)])]

------------------------------------------------------------------------------
(* evalAncestorAnalysis, from the caches c *)

Common(c, left, right) ==
    {t \in Type : t \in DOMAIN c.distances[left] /\ t \in DOMAIN c.distances[right]}

Distance(c, left, right, t) == c.distances[left][t] + c.distances[right][t]

\* Deepest first, nearest first among these.
Precedes(c, left, right, s, t) ==
    \/ c.depth[s] > c.depth[t]
    \/ /\ c.depth[s] = c.depth[t]
       /\ Distance(c, left, right, s) < Distance(c, left, right, t)

\* The name decides the rest.
Sorted(c, left, right) ==
    LET common == Common(c, left, right)
    IN  {order \in [1 .. Cardinality(common) -> common] :
            /\ Range(order) = common
            /\ \A i, j \in DOMAIN order :
                  i < j => ~Precedes(c, left, right, order[j], order[i])}

\* Faulty variant: the descendants and the ancestors are swapped.
LowestReversed(h, common) ==
    {t \in common : ~\E u \in common \ {t} : IsCompatibleType(h, t, u)}

Lowest(h, common) == {t \in common : ~\E u \in common \ {t} : IsCompatibleType(h, u, t)}
Highest(h, common) == {t \in common : ~\E u \in common \ {t} : IsCompatibleType(h, t, u)}

Status(ts) == CASE ts = {} -> "none"
                [] Cardinality(ts) = 1 -> "unique"
                [] OTHER -> "ambiguous"

AncestorAnalysis(h, left, right, order) ==
    LET common == Range(order)
    IN  [left |-> left, right |-> right, in |-> h, common |-> order,
         lowest |-> Lowest(h, common), highest |-> Highest(h, common),
         status |-> Status(Lowest(h, common))]

------------------------------------------------------------------------------
(* Sessions *)

NothingAsked == analysis' = NotAsked
Idle == loading = NotLoading
Loads(s) == ~Idle /\ loading.by = s

Init ==
    /\ parents = [s \in Session |-> NoParents]
    /\ generation = [s \in Session |-> 1]
    /\ cache = [s \in Session |-> NoCache]
    /\ open = Session
    /\ stored = {}
    /\ loading = NotLoading
    /\ analysis = NotAsked

BeginModule(s) ==
    /\ Idle /\ s \in open \cap Declaring
    /\ loading' = [by |-> s, parents |-> parents[s], generation |-> generation[s],
                   stored |-> stored]
    /\ UNCHANGED <<parents, generation, cache, open, stored>> /\ NothingAsked

CommitModule(s) ==
    /\ Loads(s)
    /\ loading' = NotLoading
    /\ UNCHANGED <<parents, generation, cache, open, stored>> /\ NothingAsked

Restored(s) ==
    /\ parents' = [parents EXCEPT ![s] = loading.parents]
    /\ generation' = [generation EXCEPT ![s] = loading.generation]
    /\ stored' = loading.stored
    /\ loading' = NotLoading
    /\ UNCHANGED <<open>> /\ NothingAsked

\* Faulty variant: the caches outlive the lineage they were computed from.
RollbackModuleKeepingCaches(s) == Loads(s) /\ Restored(s) /\ UNCHANGED cache

RollbackModule(s) ==
    /\ Loads(s)
    /\ Restored(s)
    /\ cache' = [cache EXCEPT ![s] = NoCache]

\* The lineage of the session takes the edge (setParent).
AcceptParent(s, child, parent) ==
    /\ ~ClosesCycle(parents[s], child, parent)
    /\ Cardinality(Edges(parents[s])) < MaxEdges
    /\ parents' = [parents EXCEPT ![s] = WithParent(@, child, parent)]
    /\ generation' = [generation EXCEPT ![s] = @ + Grown(parents[s], child, parent)]

\* invalidateCaches: at once, or not before the batch of statements ends.
InvalidateCaches(s) ==
    \/ cache' = [cache EXCEPT ![s] = NoCache]
    \/ UNCHANGED cache

EndBatch(s) ==
    /\ s \in open /\ (Idle \/ Loads(s))
    /\ cache' = [cache EXCEPT ![s] = NoCache]
    /\ UNCHANGED <<parents, generation, open, stored, loading>> /\ NothingAsked

\* A parent of a class statement, or a further parent of a fact statement: the
\* edge is stored when the lineage has taken it.
DeclareParent(s, child, parent) ==
    /\ Loads(s)
    /\ AcceptParent(s, child, parent)
    /\ stored' = stored \cup {<<child, parent>>}
    /\ UNCHANGED <<cache, open, loading>> /\ NothingAsked

\* A fact statement with a parent: publishFact stores the edge with the fact,
\* and the lineage is asked when it has returned.  An edge that closes a
\* cycle, or an index entry that is refused before, is an error.  If the
\* program of the load catches it the edge stays stored; otherwise it ends the
\* load (RollbackModule).
PublishFact(s, child, parent) ==
    /\ Loads(s)
    /\ stored' = stored \cup {<<child, parent>>}
    /\ \/ AcceptParent(s, child, parent) /\ InvalidateCaches(s)
       \/ /\ CaughtInLoad
          /\ UNCHANGED <<parents, generation>>
          /\ \/ ClosesCycle(parents[s], child, parent) /\ InvalidateCaches(s)
             \/ UNCHANGED cache
    /\ UNCHANGED <<open, loading>> /\ NothingAsked

\* A selection meets a fact whose type has a parent: the session learns the
\* edge, which another session may have stored.
LearnParent(s, child, parent) ==
    /\ s \in open /\ (Idle \/ Loads(s))
    /\ <<child, parent>> \in stored \ Edges(parents[s])
    /\ ~ClosesCycle(parents[s], child, parent)
    /\ parents' = [parents EXCEPT ![s] = WithParent(@, child, parent)]
    /\ generation' = [generation EXCEPT ![s] = @ + 1]
    /\ UNCHANGED <<cache, open, stored, loading>> /\ NothingAsked

\* A method or a field is looked for along the lineage of a type.
FindAncestry(s, t) ==
    /\ s \in open \cap Asking
    /\ cache' = [cache EXCEPT ![s] =
                     WithAncestry(Refreshed(@, generation[s]), parents[s], t)]
    /\ UNCHANGED <<parents, generation, open, stored, loading>> /\ NothingAsked

Analyse(s, left, right) ==
    /\ s \in open \cap Asking
    /\ LET known == WithDistances(Refreshed(cache[s], generation[s]), parents[s], {left, right})
           full == WithDepths(known, parents[s], Common(known, left, right))
       IN /\ cache' = [cache EXCEPT ![s] = full]
          /\ \E order \in Sorted(full, left, right) :
                analysis' = AncestorAnalysis(parents[s], left, right, order)
    /\ UNCHANGED <<parents, generation, open, stored, loading>>

\* A session ends; nothing of its memory remains.
Close(s) ==
    /\ Idle /\ s \in open
    /\ open' = open \ {s}
    /\ parents' = [parents EXCEPT ![s] = NoParents]
    /\ generation' = [generation EXCEPT ![s] = 1]
    /\ cache' = [cache EXCEPT ![s] = NoCache]
    /\ NothingAsked
    /\ UNCHANGED <<stored, loading>>

\* openDatabase: the edges in the order of their keys; a cycle is an error.
LineageOf(edges) == [t \in Type |-> SetToSeq({p \in Type : <<t, p>> \in edges})]
StoredLineage == LineageOf(stored)

Cyclic(h) == \E e \in Edges(h) : IsCompatibleType(h, e[2], e[1])

OpenDatabase(s) ==
    /\ Idle /\ s \notin open
    /\ ~Cyclic(StoredLineage)
    /\ open' = open \cup {s}
    /\ parents' = [parents EXCEPT ![s] = StoredLineage]
    /\ generation' = [generation EXCEPT ![s] = 1 + Cardinality(stored)]
    /\ UNCHANGED <<cache, stored, loading>> /\ NothingAsked

Next ==
    \E s \in Session :
        \/ BeginModule(s) \/ CommitModule(s) \/ RollbackModule(s)
        \/ Close(s) \/ OpenDatabase(s) \/ EndBatch(s)
        \/ \E e \in Declarable :
              \/ DeclareParent(s, e[1], e[2]) \/ PublishFact(s, e[1], e[2])
              \/ LearnParent(s, e[1], e[2])
        \/ \E pair \in Asked : FindAncestry(s, pair[1]) \/ Analyse(s, pair[1], pair[2])

Spec == Init /\ [][Next]_vars

------------------------------------------------------------------------------
(* Properties *)

\* Every variable has its type; a session that has no database open has no
\* lineage and nothing cached.
TypeOK ==
    /\ parents \in [Session -> [Type -> Seq(Type)]]
    /\ generation \in [Session -> Nat \ {0}]
    /\ DOMAIN cache = Session
    /\ open \subseteq Session
    /\ stored \subseteq Type \X Type
    /\ \A s \in Session \ open : parents[s] = NoParents /\ cache[s] = NoCache
    /\ ~Idle => /\ loading.by \in open
                /\ loading.parents \in [Type -> Seq(Type)]
                /\ loading.generation \in Nat \ {0}
                /\ loading.stored \subseteq Type \X Type

\* What a session has cached for its present generation is what it would
\* compute now, although a rollback brings back an old generation and the
\* next edge the new one (Interpreter.cpp, refreshAncestryCaches and
\* rollbackModuleTransaction).
CachesCurrent ==
    \A s \in Session : cache[s].generation = generation[s] =>
        /\ \A t \in DOMAIN cache[s].ancestry :
              cache[s].ancestry[t] = TypeAncestry(parents[s], t)
        /\ \A t \in DOMAIN cache[s].distances :
              cache[s].distances[t] = TypeAncestorDistances(parents[s], t)
        /\ \A t \in DOMAIN cache[s].depth : cache[s].depth[t] = Depth(parents[s], t)

\* An analysis that names one lowest ancestor names the least one: every
\* common ancestor is an ancestor of it.  The first of the common ancestors,
\* the deepest, is always a lowest one.
LeastAncestor ==
    analysis # NotAsked =>
        /\ analysis.status = "unique" =>
              \A low \in analysis.lowest, c \in Range(analysis.common) :
                  IsCompatibleType(analysis.in, low, c)
        /\ analysis.common # <<>> => analysis.common[1] \in analysis.lowest
        /\ analysis.status = "none" <=> analysis.common = <<>>

\* A database whose edges sessions have accepted one by one can be opened:
\* what no session would close as a cycle is no cycle (TypeHierarchy.h, the
\* comments on the class and on setParent).
OpensAgain == Idle => ~Cyclic(StoredLineage)
=============================================================================
