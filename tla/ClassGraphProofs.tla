--------------------------- MODULE ClassGraphProofs ---------------------------
(***************************************************************************)
(* ClassGraph is right when edges are added inside transactions only, or   *)
(* by a single session.  The argument: what a session remembers of the     *)
(* sequence is not behind what the tables it reads say, so a fresh id      *)
(* names no stored edge and the rows of the new edge replace none.         *)
(***************************************************************************)
EXTENDS ClassGraph, TLAPS

OneWriter == Standalone = {} \/ \A r, s \in Session : r = s

Distinct(t) ==
    \A e, f \in t.edge :
        <<e.src, e.dst, e.label>> = <<f.src, f.dst, f.label>> => e = f

Allocated(t) == \A e \in t.edge : e.id < t.next

Good(t) == Agree(t) /\ Distinct(t) /\ Allocated(t)

\* No stored edge has the id of e or says the same.
New(t, e) == \A f \in t.edge : /\ f.id # e.id
                               /\ <<f.src, f.dst, f.label>>
                                     # <<e.src, e.dst, e.label>>

\* A session's own copy of the sequence is not behind the tables it reads, and
\* one that adds edges in transactions only keeps it no longer than those.
Remembered ==
    \A s \in Session : cached[s] # NotCached =>
        /\ cached[s] >= working.next
        /\ s \in Standalone \/ owner = s

\* Without a transaction the tables read are those in the database; the edge
\* that waits for its rows is new there, and a standalone call put it there.
Settled ==
    /\ pending # NoEdge => owner \in Standalone
    /\ owner = Free \/ pending # NoEdge => working = committed
    /\ pending # NoEdge => New(committed, pending) /\ pending.id < committed.next

IInv ==
    /\ TypeOK
    /\ Good(committed) /\ Good(working)
    /\ committed.edge \subseteq working.edge
    /\ Remembered
    /\ Settled

------------------------------------------------------------------------------

\* Storing the three rows of a new edge whose id is allocated keeps the tables
\* good and every edge that was there.
LEMMA PutEdgeNew ==
    ASSUME NEW t \in Tables, Good(t), NEW e \in Edge, New(t, e), e.id < t.next
    PROVE  /\ PutEdge(t, e) \in Tables
           /\ Good(PutEdge(t, e))
           /\ PutEdge(t, e).edge = t.edge \cup {e}
           /\ PutEdge(t, e).next = t.next
<1> DEFINE u == PutEdge(t, e)
<1>1. t.out = t.edge /\ t.in = t.edge /\ t.edge \subseteq Edge
  BY DEF Good, Agree, Tables
<1>2. u = [edge |-> t.edge \cup {e}, out |-> t.edge \cup {e},
           in |-> t.edge \cup {e}, next |-> t.next]
  <2>1. \A x \in t.edge : x.id # e.id
    BY DEF New
  <2>2. /\ {x \in t.edge : x.id # e.id} = t.edge
        /\ {x \in t.edge : <<x.src, x.id>> # <<e.src, e.id>>} = t.edge
        /\ {x \in t.edge : <<x.dst, x.id>> # <<e.dst, e.id>>} = t.edge
    BY <2>1
  <2>3. u = [t EXCEPT !.edge = t.edge \cup {e}, !.out = t.edge \cup {e},
                      !.in = t.edge \cup {e}]
    BY <1>1, <2>2 DEF PutEdge, Tables
  <2> QED
    BY <2>3 DEF Tables
<1>3. u \in Tables
  BY <1>1, <1>2 DEF Tables
<1>4. Agree(u)
  BY <1>1, <1>2 DEF Good, Agree, New
<1>5. Distinct(u)
  BY <1>2 DEF Good, Distinct, New
<1>6. Allocated(u)
  BY <1>2 DEF Good, Allocated
<1> QED
  BY <1>2, <1>3, <1>4, <1>5, <1>6 DEF Good

\* Advancing the sequence keeps the tables good and makes room for an edge.
LEMMA Advance ==
    ASSUME NEW t \in Tables, Good(t), NEW n \in NextId, t.next <= n
    PROVE  /\ [t EXCEPT !.next = n] \in Tables
           /\ Good([t EXCEPT !.next = n])
           /\ [t EXCEPT !.next = n].edge = t.edge
           /\ [t EXCEPT !.next = n].next = n
<1> DEFINE u == [t EXCEPT !.next = n]
<1>1. u \in Tables /\ u.edge = t.edge /\ u.out = t.out /\ u.in = t.in /\ u.next = n
  BY DEF Tables
<1>2. Allocated(u)
  <2> SUFFICES ASSUME NEW e \in t.edge PROVE e.id < n
    BY <1>1 DEF Allocated
  <2>1. e.id \in Int /\ t.next \in Int /\ n \in Int
    BY SequenceAssumption DEF Tables, Edge, EdgeId, NextId
  <2> QED
    BY <2>1 DEF Good, Allocated
<1> QED
  BY <1>1, <1>2 DEF Good, Agree, Distinct

\* The id that is allocated is the next one of the tables or a later one, so an
\* edge that is not stored is new under it.
LEMMA AllocatedIdIsNew ==
    ASSUME NEW s \in Session, NEW t \in Tables, Good(t),
           cached[s] # NotCached =>
              cached[s] \in NextId /\ cached[s] >= t.next,
           NEW src \in Class, NEW dst \in Class, NEW label \in Label,
           ~IsStored(t, src, dst, label),
           NEW id, id = AllocatedId(s, t), id <= MaxEdge,
           NEW e, e = [id |-> id, src |-> src, dst |-> dst, label |-> label]
    PROVE  /\ id \in NextId /\ id >= t.next
           /\ e \in Edge /\ id + 1 \in NextId
           /\ New(t, e)
<1>2. /\ id \in NextId /\ id >= t.next
      /\ id \in EdgeId /\ id + 1 \in NextId
  <2>1. t.next \in NextId /\ t.next \in Int
    BY SequenceAssumption DEF Tables, NextId
  <2>2. id \in NextId /\ id >= t.next
    BY <2>1 DEF AllocatedId
  <2> QED
    BY <2>2, SequenceAssumption DEF NextId, EdgeId
<1>3. New(t, e)
  <2> SUFFICES ASSUME NEW f \in t.edge
               PROVE  /\ f.id # id
                      /\ <<f.src, f.dst, f.label>> # <<src, dst, label>>
    BY DEF New
  <2>1. f.id < t.next /\ f.id \in Int /\ t.next \in Int /\ id \in Int
    BY <1>2, SequenceAssumption DEF Good, Allocated, Tables, Edge, EdgeId, NextId
  <2>2. f \in t.out
    BY DEF Good, Agree
  <2> QED
    BY <1>2, <2>1, <2>2 DEF IsStored
<1>4. e \in Edge
  BY <1>2 DEF Edge
<1> QED
  BY <1>2, <1>3, <1>4

------------------------------------------------------------------------------

LEMMA InitIInv == Init => IInv
BY SessionAssumption, SequenceAssumption
DEF Init, IInv, TypeOK, Tables, NextId, Good, Agree, Distinct, Allocated,
    Remembered, Settled

LEMMA StepIInv == OneWriter /\ IInv /\ [Next]_vars => IInv'
<1> SUFFICES ASSUME OneWriter, IInv, [Next]_vars
             PROVE  IInv'
  OBVIOUS
<1> USE SessionAssumption, NoEdgeAssumption DEF IInv, TypeOK
<1>1. CASE UNCHANGED vars
  BY <1>1 DEF vars, Remembered, Settled
<1>2. ASSUME NEW s \in Session, BeginTransaction(s)
      PROVE  IInv'
  <2>1. Remembered'
    BY <1>2 DEF BeginTransaction, Remembered
  <2>2. Settled' /\ TypeOK'
    BY <1>2 DEF BeginTransaction, Settled
  <2> QED
    BY <1>2, <2>1, <2>2 DEF BeginTransaction
<1>3. ASSUME NEW s \in Session, CommitTransaction(s)
      PROVE  IInv'
  <2>1. Remembered'
    BY <1>3 DEF CommitTransaction, InTransaction, Remembered
  <2>2. Settled' /\ TypeOK'
    BY <1>3 DEF CommitTransaction, InTransaction, Settled
  <2> QED
    BY <1>3, <2>1, <2>2 DEF CommitTransaction
<1>4. ASSUME NEW s \in Session, RollbackTransaction(s)
      PROVE  IInv'
  <2>1. Remembered'
    \* Another session that remembers an id would be a second writer.
    BY <1>4 DEF RollbackTransaction, InTransaction, Remembered, OneWriter
  <2>2. Settled' /\ TypeOK'
    BY <1>4 DEF RollbackTransaction, InTransaction, Settled
  <2> QED
    BY <1>4, <2>1, <2>2 DEF RollbackTransaction
<1>5. ASSUME NEW s \in Session, NEW src \in Class, NEW dst \in Class,
             NEW label \in Label, AddEdge(s, src, dst, label)
      PROVE  IInv'
  <2> DEFINE id == AllocatedId(s, working)
             e == [id |-> id, src |-> src, dst |-> dst, label |-> label]
             advanced == [working EXCEPT !.next = id + 1]
  <2>1. /\ owner = s /\ pending = NoEdge /\ id <= MaxEdge
        /\ ~IsStored(working, src, dst, label)
        /\ working' = PutEdge(advanced, e)
        /\ cached' = [cached EXCEPT ![s] = id + 1]
        /\ UNCHANGED <<committed, owner, pending>>
    BY <1>5 DEF AddEdge, InTransaction
  <2>2. /\ id \in NextId /\ id >= working.next
        /\ e \in Edge /\ id + 1 \in NextId /\ New(working, e)
    <3>1. cached[s] # NotCached =>
             cached[s] \in NextId /\ cached[s] >= working.next
      BY DEF Remembered
    <3> HIDE DEF IInv, TypeOK
    <3>2. working \in Tables /\ Good(working)
      BY DEF IInv, TypeOK
    <3> QED
      BY <2>1, <3>1, <3>2, AllocatedIdIsNew
  <2>3. working.next <= id + 1 /\ id \in Int
    <3> HIDE DEF id
    <3>1. working.next \in Int /\ id \in Int
      BY <2>2, SequenceAssumption DEF Tables, NextId
    <3> QED
      BY <2>2, <3>1
  <2>4. /\ advanced \in Tables /\ Good(advanced)
        /\ advanced.edge = working.edge /\ advanced.next = id + 1
    BY <2>2, <2>3, Advance
  <2>5. New(advanced, e) /\ e.id < advanced.next
    BY <2>2, <2>3, <2>4 DEF New
  <2>6. /\ working' \in Tables /\ Good(working')
        /\ working'.edge = working.edge \cup {e}
        /\ working'.next = id + 1
    <3> HIDE DEF id, e, advanced
    <3> QED
      BY <2>1, <2>2, <2>4, <2>5, PutEdgeNew
  <2>7. Remembered'
    <3> HIDE DEF id
    <3>1. cached'[s] = id + 1 /\ id + 1 >= id + 1
      BY <2>1, <2>3
    <3> QED
      BY <2>1, <2>6, <3>1 DEF Remembered, OneWriter
  <2>8. Settled'
    BY <2>1 DEF Settled
  <2>9. TypeOK'
    BY <2>1, <2>2, <2>6
  <2> QED
    BY <2>1, <2>6, <2>7, <2>8, <2>9
<1>6. ASSUME NEW s \in Session, NEW src \in Class, NEW dst \in Class,
             NEW label \in Label, AllocateEdge(s, src, dst, label)
      PROVE  IInv'
  <2> DEFINE id == AllocatedId(s, committed)
             e == [id |-> id, src |-> src, dst |-> dst, label |-> label]
  <2>1. /\ s \in Standalone /\ owner = Free /\ id <= MaxEdge
        /\ ~IsStored(committed, src, dst, label)
        /\ cached' = [cached EXCEPT ![s] = id + 1]
    BY <1>6 DEF AllocateEdge
  <2>2. working = committed
    BY <2>1 DEF Settled
  <2>3. /\ id \in NextId /\ id >= committed.next
        /\ e \in Edge /\ id + 1 \in NextId /\ New(committed, e)
    <3>1. cached[s] # NotCached =>
             cached[s] \in NextId /\ cached[s] >= committed.next
      BY <2>2 DEF Remembered
    <3> HIDE DEF IInv, TypeOK
    <3>2. committed \in Tables /\ Good(committed)
      BY DEF IInv, TypeOK
    <3> QED
      BY <2>1, <3>1, <3>2, AllocatedIdIsNew
  <2>4. committed.next <= id + 1 /\ id \in Int /\ committed.next \in Int
    <3> HIDE DEF id
    <3>1. committed.next \in Int /\ id \in Int
      BY <2>3, SequenceAssumption DEF Tables, NextId
    <3> QED
      BY <2>3, <3>1
  <2>5. CASE /\ committed' = [committed EXCEPT !.next = id + 1]
             /\ working' = committed'
             /\ owner' = s
             /\ pending' = e
    <3>1. /\ committed' \in Tables /\ Good(committed')
          /\ committed'.edge = committed.edge /\ committed'.next = id + 1
      BY <2>3, <2>4, <2>5, Advance
    <3>2. Remembered'
      <4> HIDE DEF id
      <4>1. cached'[s] = id + 1 /\ id + 1 >= id + 1
        BY <2>1, <2>4
      <4> QED
        BY <2>1, <2>5, <3>1, <4>1 DEF Remembered, OneWriter
    <3>3. Settled'
      BY <2>1, <2>3, <2>4, <2>5, <3>1 DEF Settled, New
    <3>4. TypeOK'
      BY <2>1, <2>3, <2>5, <3>1
    <3> QED
      BY <2>5, <3>1, <3>2, <3>3, <3>4
  <2>6. CASE UNCHANGED <<committed, working, owner, pending>>
    <3>1. Remembered'
      <4> HIDE DEF id
      <4>1. cached'[s] = id + 1 /\ id + 1 >= working.next
        BY <2>1, <2>2, <2>4
      <4> QED
        BY <2>1, <2>6, <4>1 DEF Remembered
    <3>2. Settled' /\ TypeOK'
      BY <2>1, <2>3, <2>6 DEF Settled
    <3> QED
      BY <2>6, <3>1, <3>2
  <2> QED
    BY <1>6, <2>5, <2>6 DEF AllocateEdge
<1>7. ASSUME NEW s \in Session, InsertEdge(s)
      PROVE  IInv'
  <2>1. /\ pending \in Edge /\ working = committed
        /\ New(committed, pending) /\ pending.id < committed.next
    BY <1>7 DEF InsertEdge, Settled
  <2>2. /\ PutEdge(committed, pending) \in Tables
        /\ Good(PutEdge(committed, pending))
        /\ PutEdge(committed, pending).next = committed.next
    BY <2>1, PutEdgeNew
  <2>3. /\ committed' \in Tables /\ Good(committed')
        /\ committed'.next = committed.next
    <3>1. CASE committed' = committed
      BY <3>1
    <3>2. CASE committed' = PutEdge(committed, pending)
      BY <2>2, <3>2
    <3> QED
      BY <1>7, <3>1, <3>2 DEF InsertEdge
  <2>4. Remembered'
    <3>1. /\ s \in Standalone /\ owner = s /\ cached' = cached
          /\ working'.next = working.next
      BY <1>7, <2>1, <2>3 DEF InsertEdge, Settled
    <3>2. \A r \in Session : r \in Standalone \/ owner # r
      BY <3>1
    <3> QED
      BY <3>1, <3>2 DEF Remembered
  <2>5. Settled' /\ TypeOK'
    BY <1>7, <2>3 DEF InsertEdge, Settled
  <2> QED
    BY <1>7, <2>1, <2>3, <2>4, <2>5 DEF InsertEdge
<1>8. CASE Crash
  <2>1. Remembered'
    BY <1>8 DEF Crash, Remembered
  <2>2. Settled' /\ TypeOK'
    BY <1>8 DEF Crash, Settled
  <2> QED
    BY <1>8, <2>1, <2>2 DEF Crash
<1> QED
  BY <1>1, <1>2, <1>3, <1>4, <1>5, <1>6, <1>7, <1>8 DEF Next

\* The inductive invariant, with a single writer outside transactions.
LEMMA Invariance == ASSUME OneWriter PROVE Spec => []IInv
<1>1. IInv /\ [Next]_vars => IInv'
  BY StepIInv
<1> QED
  BY InitIInv, <1>1, PTL DEF Spec

------------------------------------------------------------------------------

\* The variables keep their types.
THEOREM TypeCorrect == ASSUME OneWriter PROVE Spec => []TypeOK
<1>1. IInv => TypeOK
  BY DEF IInv
<1> QED
  BY Invariance, <1>1, PTL

\* The three rows of every edge agree and its id names no other edge: the G, U
\* and V rows of insertClassEdge.
THEOREM CopiesAgreeHolds == ASSUME OneWriter PROVE Spec => []CopiesAgree
<1>1. IInv => CopiesAgree
  BY DEF IInv, Good, CopiesAgree
<1> QED
  BY Invariance, <1>1, PTL

\* No two edges say the same: the search of insertClassEdge.
THEOREM EdgesDistinctHolds == ASSUME OneWriter PROVE Spec => []EdgesDistinct
<1>1. IInv => EdgesDistinct
  BY DEF IInv, Good, Distinct, EdgesDistinct
<1> QED
  BY Invariance, <1>1, PTL

\* A committed edge stays: allocateId hands out every id once.
THEOREM EdgesPersistHolds == ASSUME OneWriter PROVE Spec => EdgesPersist
<1>1. ASSUME IInv, [Next]_vars
      PROVE  [committed.edge \subseteq committed'.edge]_vars
  <2> USE <1>1 DEF IInv
  <2>1. ASSUME NEW s \in Session, CommitTransaction(s)
        PROVE  committed.edge \subseteq committed'.edge
    BY <2>1 DEF CommitTransaction
  <2>2. ASSUME NEW s \in Session, NEW src \in Class, NEW dst \in Class,
               NEW label \in Label, AllocateEdge(s, src, dst, label)
        PROVE  committed.edge \subseteq committed'.edge
    BY <2>2 DEF AllocateEdge, TypeOK, Tables
  <2>3. ASSUME NEW s \in Session, InsertEdge(s)
        PROVE  committed.edge \subseteq committed'.edge
    <3>1. /\ pending \in Edge /\ New(committed, pending)
          /\ pending.id < committed.next
      BY <2>3 DEF InsertEdge, TypeOK, Settled
    <3>2. PutEdge(committed, pending).edge = committed.edge \cup {pending}
      BY <3>1, PutEdgeNew DEF TypeOK
    <3> QED
      BY <2>3, <3>2 DEF InsertEdge
  <2> QED
    BY <2>1, <2>2, <2>3
    DEF Next, vars, BeginTransaction, RollbackTransaction, AddEdge, Crash
<1> QED
  BY Invariance, <1>1, PTL DEF Spec, EdgesPersist
==============================================================================
