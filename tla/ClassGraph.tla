------------------------------ MODULE ClassGraph ------------------------------
(***************************************************************************)
(* The class graph: edges between classes, added by Graph.add and          *)
(* Graph(A.class, B.class) and never removed.  Every edge is stored under  *)
(* its id, under its source and under its target, and gets its id from a   *)
(* sequence whose next value a session also remembers by itself            *)
(* (src/src/RocksFactStore.cpp, stagedSequences_).                         *)
(*                                                                         *)
(* Unlike facts and links, edges may be added outside a transaction: the   *)
(* interpreter opens none for them.  The call then holds writeMutex while  *)
(* it stores first the advanced sequence and then the edge.  As in         *)
(* FactStore one variable holds what the open transaction reads.           *)
(***************************************************************************)
EXTENDS Integers

CONSTANTS Session,
          Standalone,   \* the sessions that add edges outside transactions
          Class,
          Label,        \* direction and properties of an edge
          MaxEdge,      \* last id of the sequence
          Free,         \* nobody holds writeMutex
          NotCached,    \* the session remembers no next id
          NoEdge        \* no edge waits for its rows

ASSUME SessionAssumption == Free \notin Session /\ Standalone \subseteq Session
ASSUME SequenceAssumption == MaxEdge \in Nat /\ NotCached \notin Nat

EdgeId == 1 .. MaxEdge
NextId == 1 .. MaxEdge + 1
Edge == [id : EdgeId, src : Class, dst : Class, label : Label]
Tables == [edge : SUBSET Edge,   \* G  id -> edge
           out : SUBSET Edge,    \* U  source, id -> edge
           in : SUBSET Edge,     \* V  target, id -> edge
           next : NextId]        \* M  the sequence

ASSUME NoEdgeAssumption == NoEdge \notin Edge

VARIABLES committed,    \* the tables in the database
          working,      \* the tables the holder of the lock reads
          owner,        \* who holds writeMutex
          pending,      \* the edge of a call outside a transaction that has
                        \* stored the sequence
          cached        \* stagedSequences_ of each session

vars == <<committed, working, owner, pending, cached>>

InTransaction(s) == owner = s /\ pending = NoEdge

\* Faulty variant: an id too low when the session remembers it.
AllocatedIdLast(s, t) ==
    IF cached[s] = NotCached THEN t.next ELSE cached[s] - 1

\* allocateId: what the session remembers goes before what the tables say.
AllocatedId(s, t) == IF cached[s] = NotCached THEN t.next ELSE cached[s]

\* Faulty variant: the search looks under the target.
IsStoredUnderTarget(t, src, dst, label) ==
    \E e \in t.in : e.dst = src /\ e.dst = dst /\ e.label = label

\* insertClassEdge returns a stored edge that says the same.
IsStored(t, src, dst, label) ==
    \E e \in t.out : e.src = src /\ e.dst = dst /\ e.label = label

\* Faulty variant: no row under the target.
PutEdgeUnderSource(t, e) ==
    [t EXCEPT !.edge = {x \in @ : x.id # e.id} \cup {e},
              !.out = {x \in @ : <<x.src, x.id>> # <<e.src, e.id>>} \cup {e}]

\* The three rows of an edge; each replaces a row under the same key.
PutEdge(t, e) ==
    [t EXCEPT !.edge = {x \in @ : x.id # e.id} \cup {e},
              !.out = {x \in @ : <<x.src, x.id>> # <<e.src, e.id>>} \cup {e},
              !.in = {x \in @ : <<x.dst, x.id>> # <<e.dst, e.id>>} \cup {e}]

Init ==
    /\ committed = [edge |-> {}, out |-> {}, in |-> {}, next |-> 1]
    /\ working = committed
    /\ owner = Free
    /\ pending = NoEdge
    /\ cached = [s \in Session |-> NotCached]

------------------------------------------------------------------------------
(* Transactions: module loads and statements that write facts *)

BeginTransaction(s) ==
    /\ owner = Free
    /\ owner' = s
    /\ cached' = [cached EXCEPT ![s] = NotCached]
    /\ UNCHANGED <<committed, working, pending>>

\* Faulty variant: the sequence row is not part of the batch.
CommitTransactionWithoutSequence(s) ==
    /\ InTransaction(s)
    /\ working' = [working EXCEPT !.next = committed.next]
    /\ committed' = working'
    /\ owner' = Free
    /\ cached' = [cached EXCEPT ![s] = NotCached]
    /\ UNCHANGED pending

CommitTransaction(s) ==
    /\ InTransaction(s)
    /\ committed' = working
    /\ owner' = Free
    /\ cached' = [cached EXCEPT ![s] = NotCached]
    /\ UNCHANGED <<working, pending>>

RollbackTransaction(s) ==
    /\ InTransaction(s)
    /\ working' = committed
    /\ owner' = Free
    /\ cached' = [cached EXCEPT ![s] = NotCached]
    /\ UNCHANGED <<committed, pending>>

\* insertClassEdge inside a transaction.
AddEdge(s, src, dst, label) ==
    LET id == AllocatedId(s, working)
        e == [id |-> id, src |-> src, dst |-> dst, label |-> label]
    IN  /\ InTransaction(s)
        /\ ~IsStored(working, src, dst, label)
        /\ id <= MaxEdge
        /\ working' = PutEdge([working EXCEPT !.next = id + 1], e)
        /\ cached' = [cached EXCEPT ![s] = id + 1]
        /\ UNCHANGED <<committed, owner, pending>>

------------------------------------------------------------------------------
(* insertClassEdge outside a transaction *)

\* The search and the allocation; the advanced sequence is stored at once.
\* RocksDB may refuse it, when the session has already remembered the next id.
AllocateEdge(s, src, dst, label) ==
    LET id == AllocatedId(s, committed)
    IN  /\ s \in Standalone
        /\ owner = Free
        /\ ~IsStored(committed, src, dst, label)
        /\ id <= MaxEdge
        /\ cached' = [cached EXCEPT ![s] = id + 1]
        /\ \/ /\ committed' = [committed EXCEPT !.next = id + 1]
              /\ working' = committed'
              /\ owner' = s
              /\ pending' = [id |-> id, src |-> src, dst |-> dst, label |-> label]
           \/ UNCHANGED <<committed, working, owner, pending>>

\* The batch with the rows of the edge, which RocksDB may refuse.
InsertEdge(s) ==
    /\ owner = s
    /\ pending # NoEdge
    /\ committed' \in {PutEdge(committed, pending), committed}
    /\ working' = committed'
    /\ owner' = Free
    /\ pending' = NoEdge
    /\ UNCHANGED cached

------------------------------------------------------------------------------

\* The process dies; its sessions start again on the database.
Crash ==
    /\ working' = committed
    /\ owner' = Free
    /\ pending' = NoEdge
    /\ cached' = [s \in Session |-> NotCached]
    /\ UNCHANGED committed

Next ==
    \/ \E s \in Session :
          \/ BeginTransaction(s)
          \/ CommitTransaction(s)
          \/ RollbackTransaction(s)
          \/ InsertEdge(s)
          \/ \E src, dst \in Class, label \in Label :
                AddEdge(s, src, dst, label) \/ AllocateEdge(s, src, dst, label)
    \/ Crash

Spec == Init /\ [][Next]_vars

------------------------------------------------------------------------------
(* Properties *)

\* Every variable has its type.
TypeOK ==
    /\ committed \in Tables
    /\ working \in Tables
    /\ owner \in Session \cup {Free}
    /\ pending \in Edge \cup {NoEdge}
    /\ cached \in [Session -> NextId \cup {NotCached}]

Agree(t) ==
    /\ t.out = t.edge
    /\ t.in = t.edge
    /\ \A e, f \in t.edge : e.id = f.id => e = f

\* An edge found by a scan of the graph, from its source or from its target is
\* the same edge, and its id names no other.  Code: the G, U and V rows of
\* insertClassEdge, read by scanAllClassEdges and scanClassEdges.
CopiesAgree == Agree(committed) /\ Agree(working)

\* No two edges say the same, whether they were added inside a transaction or
\* outside.  Code: the search of insertClassEdge before it allocates an id.
EdgesDistinct ==
    \A e, f \in committed.edge :
        <<e.src, e.dst, e.label>> = <<f.src, f.dst, f.label>> => e = f

\* An edge stays in the graph under its id once it is committed.  Code:
\* allocateId hands out every id once, from the session's own copy of the
\* sequence or from the stored one, whatever was refused, rolled back or lost
\* in a crash between.
EdgesPersist == [][committed.edge \subseteq committed'.edge]_vars
==============================================================================
