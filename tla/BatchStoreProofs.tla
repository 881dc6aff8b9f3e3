-------------------------- MODULE BatchStoreProofs ---------------------------
(***************************************************************************)
(* What BatchStore's runs check on a small instance, for every set of      *)
(* sessions, keys and values.                                              *)
(***************************************************************************)
EXTENDS BatchStore, FiniteSetTheorems, TLAPS

\* Writing a batch over a database gives a database: every marker of the
\* staging map is resolved.
LEMMA ApplyType ==
    ASSUME NEW batch \in Overlay, NEW contents \in Contents
    PROVE  Apply(batch, contents) \in Contents
  BY DEF Apply, Overlay, Contents

\* An empty staging map reads the database through.
LEMMA NothingStagedReadsThrough ==
    ASSUME NEW contents \in Contents
    PROVE  /\ NothingStaged \in Overlay
           /\ Apply(NothingStaged, contents) = contents
  BY DEF Apply, NothingStaged, Overlay, Contents

\* Staging one key changes what the session reads in that key only.
LEMMA StagingWritesTheView ==
    ASSUME NEW contents \in Contents, NEW batch \in Overlay,
           NEW k \in Key, NEW v \in Value \cup {Absent}
    PROVE  /\ [batch EXCEPT ![k] = v] \in Overlay
           /\ Apply([batch EXCEPT ![k] = v], contents)
                = [Apply(batch, contents) EXCEPT ![k] = v]
  BY SentinelAssumption DEF Apply, Overlay, Contents

\* The two passes of a scan never hand over the same record, and together
\* they hand over the records of the session's view (scanFacts and the scans
\* built like it, without a limit).
THEOREM ScanPassesPartitionTheView ==
    ASSUME TypeOK, NEW s \in Session, NEW prefix \in SUBSET Key
    PROVE  /\ PersistedPass(s, prefix) \cap StagedPass(s, prefix) = {}
           /\ PersistedPass(s, prefix) \cup StagedPass(s, prefix)
                = {k \in prefix : ReadValue(s, k) # Absent}
  <1>1. /\ db \in Contents
        /\ staged[s] \in Overlay
    BY DEF TypeOK
  <1>2. ASSUME NEW k \in prefix
        PROVE  ReadValue(s, k) # Absent
                 <=> k \in PersistedPass(s, prefix) \cup StagedPass(s, prefix)
    <2>1. /\ db[k] \in Value \cup {Absent}
          /\ staged[s][k] \in Value \cup {Absent, Unstaged}
          /\ k \in Key
      BY <1>1 DEF Contents, Overlay
    <2>. QED
      BY <2>1, SentinelAssumption
      DEF ReadValue, Apply, PersistedPass, StagedPass
  <1>. QED
    BY <1>2 DEF PersistedPass, StagedPass

\* What the staged pass of a scan takes when the walk has taken first.
StagedTaken(limit, first, pending) ==
    IF limit # 0 /\ first = limit THEN 0
    ELSE Taken(IF limit = 0 THEN 0 ELSE limit - first, pending)

\* Taking records out of one set, and what the limit leaves out of a set apart
\* from it, takes as many as the limit allows out of both.
LEMMA TakenOfTwoPasses ==
    ASSUME NEW limit \in Nat, NEW walked \in Nat, NEW pending \in Nat
    PROVE  Taken(limit, walked) + StagedTaken(limit, Taken(limit, walked), pending)
             = Taken(limit, walked + pending)
  <1> USE DEF StagedTaken
  <1>1. CASE limit = 0
    BY <1>1 DEF Taken
  <1>2. CASE limit # 0 /\ walked >= limit
    BY <1>2 DEF Taken
  <1>3. CASE limit # 0 /\ walked < limit
    <2>1. Taken(limit, walked) = walked /\ limit - walked \in Nat \ {0}
      BY <1>3 DEF Taken
    <2>. QED
      BY <1>3, <2>1 DEF Taken
  <1>. QED
    BY <1>1, <1>2, <1>3

\* Sets apart from each other count together.
LEMMA DisjointUnion ==
    ASSUME NEW A, NEW B, IsFiniteSet(A), IsFiniteSet(B), A \cap B = {}
    PROVE  /\ Cardinality(A) \in Nat /\ Cardinality(B) \in Nat
           /\ Cardinality(A \cup B) = Cardinality(A) + Cardinality(B)
  <1>1. Cardinality(A \cup B) = Cardinality(A) + Cardinality(B) - Cardinality(A \cap B)
    BY FS_Union
  <1>2. Cardinality(A \cap B) = 0
    BY FS_EmptySet
  <1>3. Cardinality(A) \in Nat /\ Cardinality(B) \in Nat
    BY FS_CardinalityType
  <1>. QED
    BY <1>1, <1>2, <1>3

\* A scan with any limit hands over records of the view only, and as many as
\* the view has under the prefix, up to the limit: the staged pass gets
\* exactly what the walk of the database has left of it.
LEMMA ScanTakesFromTheView ==
    ASSUME TypeOK, NEW s \in Session, NEW prefix \in SUBSET Key,
           NEW limit \in Nat, NEW seen \in ScanOutcomes(s, prefix, limit)
    PROVE  LET live == {k \in prefix : ReadValue(s, k) # Absent}
           IN  /\ seen \subseteq live
               /\ Cardinality(seen) = Taken(limit, Cardinality(live))
  <1>1. PICK walked, pending :
           walked = PersistedPass(s, prefix) /\ pending = StagedPass(s, prefix)
    OBVIOUS
  <1>2. /\ walked \cap pending = {}
        /\ walked \cup pending = {k \in prefix : ReadValue(s, k) # Absent}
    BY <1>1, ScanPassesPartitionTheView
  <1> DEFINE first == Taken(limit, Cardinality(walked))
             second == StagedTaken(limit, first, Cardinality(pending))
  <1>3. PICK a \in SUBSET walked, b \in SUBSET pending :
           seen = a \cup b /\ Cardinality(a) = first /\ Cardinality(b) = second
    BY <1>1 DEF ScanOutcomes, kSubset, StagedTaken
  <1>4. IsFiniteSet(walked) /\ IsFiniteSet(pending)
    <2>1. walked \in SUBSET Key /\ pending \in SUBSET Key
      BY <1>1 DEF PersistedPass, StagedPass
    <2>. QED
      BY <2>1, KeyAssumption, FS_Subset
  <1>5. IsFiniteSet(a) /\ IsFiniteSet(b) /\ a \cap b = {}
    BY <1>2, <1>3, <1>4, FS_Subset
  <1>6. /\ Cardinality(walked) \in Nat /\ Cardinality(pending) \in Nat
        /\ Cardinality(walked \cup pending) = Cardinality(walked) + Cardinality(pending)
    BY <1>2, <1>4, DisjointUnion
  <1>7. first + second = Taken(limit, Cardinality(walked) + Cardinality(pending))
    BY <1>6, TakenOfTwoPasses
  <1>8. Cardinality(seen) = first + second
    BY <1>3, <1>5, DisjointUnion
  <1>9. Cardinality(seen) = Taken(limit, Cardinality(walked \cup pending))
    BY <1>6, <1>7, <1>8
  <1>. QED
    BY <1>2, <1>3, <1>9

------------------------------------------------------------------------------

\* Every variable keeps its type.
THEOREM TypeCorrect == Spec => []TypeOK
  <1>1. Init => TypeOK
    BY DEF Init, TypeOK, NothingStaged, Overlay
  <1>2. TypeOK /\ [Next]_vars => TypeOK'
    <2> SUFFICES ASSUME TypeOK, [Next]_vars
                 PROVE  TypeOK'
      OBVIOUS
    <2> USE DEF TypeOK
    <2>e. NothingStaged \in Overlay
      BY DEF NothingStaged, Overlay
    <2>1. ASSUME NEW s \in Session, BeginTransaction(s)
          PROVE  TypeOK'
      BY <2>1, <2>e DEF BeginTransaction
    <2>2. ASSUME NEW s \in Session, CommitTransaction(s)
          PROVE  TypeOK'
      <3>1. db' \in Contents
        BY <2>2, ApplyType DEF CommitTransaction
      <3>. QED
        BY <2>2, <2>e, <3>1 DEF CommitTransaction, EndTransaction
    <2>3. ASSUME NEW s \in Session, RollbackTransaction(s)
          PROVE  TypeOK'
      BY <2>3, <2>e DEF RollbackTransaction, EndTransaction
    <2>4. ASSUME NEW s \in Session, StandaloneWriteLock(s)
          PROVE  TypeOK'
      BY <2>4 DEF StandaloneWriteLock
    <2>5. ASSUME NEW s \in Session, StandaloneUnlock(s)
          PROVE  TypeOK'
      BY <2>5 DEF StandaloneUnlock
    <2>6. ASSUME NEW s \in Session, NEW k \in Key,
                 NEW v \in Value \cup {Absent}, StageValue(s, k, v)
          PROVE  TypeOK'
      <3>1. [staged[s] EXCEPT ![k] = v] \in Overlay
        BY DEF Overlay
      <3>. QED
        BY <2>6, <3>1 DEF StageValue
    <2>7. ASSUME NEW s \in Session, NEW batch \in Overlay,
                 StandaloneWrite(s, batch)
          PROVE  TypeOK'
      BY <2>7, ApplyType DEF StandaloneWrite
    <2>8. CASE Crash
      BY <2>8, <2>e DEF Crash
    <2>9. CASE UNCHANGED vars
      BY <2>9 DEF vars
    <2>. QED
      BY <2>1, <2>2, <2>3, <2>4, <2>5, <2>6, <2>7, <2>8, <2>9 DEF Next
  <1>. QED
    BY <1>1, <1>2, PTL DEF Spec

\* Whatever the staging map and the database hold, a scan shows the session
\* its own view, up to the limit.
THEOREM ScansAreExact == Spec => []ScanExact
  <1>1. TypeOK => ScanExact
    <2> SUFFICES ASSUME TypeOK, NEW s \in Session, NEW prefix \in SUBSET Key,
                        NEW limit \in 0 .. Cardinality(Key),
                        NEW seen \in ScanOutcomes(s, prefix, limit)
                 PROVE  LET live == {k \in prefix : ReadValue(s, k) # Absent}
                        IN  /\ seen \subseteq live
                            /\ Cardinality(seen) = Taken(limit, Cardinality(live))
      BY DEF ScanExact
    <2>1. limit \in Nat
      BY KeyAssumption, FS_CardinalityType
    <2>. QED
      BY <2>1, ScanTakesFromTheView
  <1>. QED
    BY <1>1, TypeCorrect, PTL

\* The holder of an open transaction is the owner of writeMutex, and nobody
\* else has staged anything.
THEOREM LockDisciplineHolds == Spec => []LockDiscipline
  <1>1. Init => LockDiscipline
    BY DEF Init, LockDiscipline
  <1>2. TypeOK /\ LockDiscipline /\ [Next]_vars => LockDiscipline'
    <2> SUFFICES ASSUME TypeOK, LockDiscipline, [Next]_vars
                 PROVE  LockDiscipline'
      OBVIOUS
    <2> USE SentinelAssumption DEF TypeOK, LockDiscipline
    <2>1. ASSUME NEW s \in Session, BeginTransaction(s)
          PROVE  LockDiscipline'
      BY <2>1 DEF BeginTransaction
    <2>2. ASSUME NEW s \in Session, s \in txn, EndTransaction(s)
          PROVE  LockDiscipline'
      BY <2>2 DEF EndTransaction
    <2>3. ASSUME NEW s \in Session,
                 StandaloneWriteLock(s) \/ StandaloneUnlock(s)
          PROVE  LockDiscipline'
      BY <2>3 DEF StandaloneWriteLock, StandaloneUnlock
    <2>4. ASSUME NEW s \in Session, NEW k \in Key,
                 NEW v \in Value \cup {Absent}, StageValue(s, k, v)
          PROVE  LockDiscipline'
      BY <2>4 DEF StageValue
    <2>5. ASSUME NEW s \in Session, NEW batch \in Overlay,
                 StandaloneWrite(s, batch)
          PROVE  LockDiscipline'
      BY <2>5 DEF StandaloneWrite
    <2>6. CASE Crash
      BY <2>6 DEF Crash
    <2>7. CASE UNCHANGED vars
      BY <2>7 DEF vars
    <2>. QED
      BY <2>1, <2>2, <2>3, <2>4, <2>5, <2>6, <2>7
      DEF Next, CommitTransaction, RollbackTransaction
  <1>. QED
    BY <1>1, <1>2, TypeCorrect, PTL DEF Spec

\* No write reaches the database while a transaction stays open.
THEOREM TransactionsAreAlone == Spec => OpenTransactionIsAlone
  <1>1. TypeOK /\ LockDiscipline /\ [Next]_vars
          => [\A s \in Session : s \in txn /\ s \in txn' => db' = db]_vars
    <2> SUFFICES ASSUME TypeOK, LockDiscipline, Next,
                        NEW s \in Session, s \in txn, s \in txn'
                 PROVE  db' = db
      OBVIOUS
    <2> USE SentinelAssumption DEF TypeOK, LockDiscipline
    <2>1. ASSUME NEW t \in Session, CommitTransaction(t)
          PROVE  FALSE
      BY <2>1 DEF CommitTransaction, EndTransaction
    <2>2. ASSUME NEW t \in Session, NEW batch \in Overlay,
                 StandaloneWrite(t, batch)
          PROVE  FALSE
      BY <2>2 DEF StandaloneWrite
    <2>. QED
      BY <2>1, <2>2
      DEF Next, BeginTransaction, RollbackTransaction, StandaloneWriteLock,
          StandaloneUnlock, StageValue, Crash
  <1>. QED
    BY <1>1, TypeCorrect, LockDisciplineHolds, PTL
    DEF Spec, OpenTransactionIsAlone

------------------------------------------------------------------------------
(* The layer implements AtomicStore. *)

\* While nothing is staged by anyone every session reads the database.
LEMMA EveryoneReadsTheDatabase ==
    ASSUME NEW contents \in Contents,
           NEW overlays, overlays = [s \in Session |-> NothingStaged]
    PROVE  [s \in Session |-> Apply(overlays[s], contents)]
             = Abstract!EveryoneReads(contents)
  BY NothingStagedReadsThrough DEF Abstract!EveryoneReads

\* If only s may be inside a transaction and s ends it, all staging maps are
\* empty.
LEMMA EndingClearsEverything ==
    ASSUME TypeOK, LockDiscipline, NEW s \in Session, s \in txn,
           EndTransaction(s)
    PROVE  /\ txn' = {}
           /\ staged' = [t \in Session |-> NothingStaged]
           /\ \A t \in Session : t # s => View(t) = db
  <1>1. \A t \in Session : t # s => t \notin txn /\ staged[t] = NothingStaged
    BY SentinelAssumption DEF TypeOK, LockDiscipline
  <1>2. \A t \in Session : t # s => View(t) = db
    BY <1>1, NothingStagedReadsThrough DEF View, TypeOK
  <1>. QED
    BY <1>1, <1>2 DEF EndTransaction, TypeOK

\* A store in which nobody has a transaction is read alike by everyone.
LEMMA NoTransactionNothingStaged ==
    ASSUME TypeOK, LockDiscipline, \A s \in Session : s \notin txn
    PROVE  /\ txn = {}
           /\ staged = [s \in Session |-> NothingStaged]
  BY DEF TypeOK, LockDiscipline

\* Every behaviour of the staged, locked store is a behaviour of the atomic
\* one: sessions read either the committed database or their own copy.
THEOREM Refinement == Spec => ImplementsAtomicStore
  <1>1. Init => Abstract!Init
    <2> SUFFICES ASSUME Init
                 PROVE  Abstract!Init
      OBVIOUS
    <2>1. [s \in Session |-> View(s)] = Abstract!EveryoneReads(db)
      BY EveryoneReadsTheDatabase DEF Init, View
    <2>. QED
      BY <2>1 DEF Init, Abstract!Init, Contents, Abstract!Contents
  <1>2. TypeOK /\ TypeOK' /\ LockDiscipline /\ [Next]_vars
          => [Abstract!Next]_(Abstract!vars)
    <2> SUFFICES ASSUME TypeOK, TypeOK', LockDiscipline, [Next]_vars
                 PROVE  Abstract!Next \/ UNCHANGED Abstract!vars
      BY DEF Abstract!vars
    <2>1. ASSUME NEW s \in Session, BeginTransaction(s)
          PROVE  Abstract!Begin(s)
      <3>1. \A t \in Session : t \notin txn
        BY <2>1, SentinelAssumption DEF BeginTransaction, LockDiscipline
      <3>2. staged' = staged /\ db' = db /\ txn = {} /\ txn' = {s}
        BY <2>1, <3>1, NoTransactionNothingStaged DEF BeginTransaction
      <3>. QED
        BY <3>2 DEF Abstract!Begin, View
    <2>2. ASSUME NEW s \in Session, CommitTransaction(s)
          PROVE  Abstract!Commit(s)
      <3>1. s \in txn /\ db' = View(s) /\ EndTransaction(s)
        BY <2>2 DEF CommitTransaction, View
      <3>2. txn' = {} /\ staged' = [t \in Session |-> NothingStaged]
        BY <3>1, EndingClearsEverything
      <3>3. [t \in Session |-> Apply(staged'[t], db')]
              = Abstract!EveryoneReads(db')
        BY <3>2, EveryoneReadsTheDatabase DEF TypeOK
      <3>4. [t \in Session |-> View(t)][s] = View(s)
        OBVIOUS
      <3>. QED
        BY <3>1, <3>2, <3>3, <3>4 DEF Abstract!Commit, View
    <2>3. ASSUME NEW s \in Session, RollbackTransaction(s)
          PROVE  Abstract!Abort(s)
      <3>1. s \in txn /\ db' = db /\ EndTransaction(s)
        BY <2>3 DEF RollbackTransaction
      <3>2. /\ txn' = {}
            /\ staged' = [t \in Session |-> NothingStaged]
            /\ \A t \in Session : t # s => View(t) = db
        BY <3>1, EndingClearsEverything
      <3>3. \A t \in Session : Apply(staged'[t], db') = db
        BY <3>1, <3>2, NothingStagedReadsThrough DEF TypeOK
      <3>4. [t \in Session |-> Apply(staged'[t], db')]
              = [[t \in Session |-> View(t)] EXCEPT ![s] = db]
        BY <3>2, <3>3
      <3>. QED
        BY <3>1, <3>2, <3>4 DEF Abstract!Abort, View
    <2>4. ASSUME NEW s \in Session,
                 StandaloneWriteLock(s) \/ StandaloneUnlock(s)
          PROVE  UNCHANGED Abstract!vars
      BY <2>4 DEF StandaloneWriteLock, StandaloneUnlock, Abstract!vars, View
    <2>5. ASSUME NEW s \in Session, NEW k \in Key,
                 NEW v \in Value \cup {Absent}, StageValue(s, k, v)
          PROVE  Abstract!Write(s, k, v)
      <3>1. /\ s \in txn /\ txn' = txn /\ db' = db
            /\ staged' = [staged EXCEPT ![s] = [@ EXCEPT ![k] = v]]
        BY <2>5 DEF StageValue
      <3>2. Apply(staged'[s], db) = [View(s) EXCEPT ![k] = v]
        <4>1. staged'[s] = [staged[s] EXCEPT ![k] = v]
          BY <3>1 DEF TypeOK
        <4>2. Apply([staged[s] EXCEPT ![k] = v], db)
                = [Apply(staged[s], db) EXCEPT ![k] = v]
          <5>1. staged[s] \in Overlay /\ db \in Contents
            BY DEF TypeOK
          <5>. QED
            BY <5>1, StagingWritesTheView
        <4>. QED
          BY <4>1, <4>2 DEF View
      <3>3. \A t \in Session : t # s => staged'[t] = staged[t]
        BY <3>1 DEF TypeOK
      <3>4. [t \in Session |-> Apply(staged'[t], db')]
              = [[t \in Session |-> View(t)] EXCEPT ![s] = [@ EXCEPT ![k] = v]]
        <4>1. [[t \in Session |-> View(t)] EXCEPT ![s] = [@ EXCEPT ![k] = v]]
                = [t \in Session |->
                      IF t = s THEN [View(s) EXCEPT ![k] = v] ELSE View(t)]
          OBVIOUS
        <4>2. \A t \in Session :
                 t # s => Apply(staged'[t], db') = View(t)
          BY <3>1, <3>3 DEF View
        <4>3. Apply(staged'[s], db') = [View(s) EXCEPT ![k] = v]
          BY <3>1, <3>2
        <4>. QED
          BY <4>1, <4>2, <4>3
      <3>. QED
        BY <3>1, <3>4 DEF Abstract!Write, View
    <2>6. ASSUME NEW s \in Session, NEW batch \in Overlay,
                 StandaloneWrite(s, batch)
          PROVE  Abstract!WriteThrough(db') /\ db' \in Abstract!Contents
      <3>1. \A t \in Session : t \notin txn
        BY <2>6, SentinelAssumption DEF StandaloneWrite, LockDiscipline
      <3>2. /\ txn = {} /\ txn' = txn /\ staged' = staged
            /\ staged = [t \in Session |-> NothingStaged]
        BY <2>6, <3>1, NoTransactionNothingStaged DEF StandaloneWrite
      <3>3. db' \in Contents
        BY DEF TypeOK
      <3>4. [t \in Session |-> Apply(staged'[t], db')]
              = Abstract!EveryoneReads(db')
        BY <3>2, <3>3, EveryoneReadsTheDatabase
      <3>. QED
        BY <3>2, <3>3, <3>4
        DEF Abstract!WriteThrough, View, Contents, Abstract!Contents
    <2>7. CASE Crash
      <3>1. [t \in Session |-> Apply(staged'[t], db')]
              = Abstract!EveryoneReads(db)
        BY <2>7, EveryoneReadsTheDatabase DEF Crash, TypeOK
      <3>. QED
        BY <2>7, <3>1 DEF Crash, Abstract!Next, Abstract!Crash, View
    <2>8. CASE UNCHANGED vars
      BY <2>8 DEF vars, Abstract!vars, View
    <2>. QED
      BY <2>1, <2>2, <2>3, <2>4, <2>5, <2>6, <2>7, <2>8
      DEF Next, Abstract!Next
  <1>. QED
    BY <1>1, <1>2, TypeCorrect, LockDisciplineHolds, PTL
    DEF Spec, ImplementsAtomicStore, Abstract!Spec
==============================================================================
