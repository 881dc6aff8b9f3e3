----------------------------- MODULE BatchStore ------------------------------
(***************************************************************************)
(* The transaction layer of RocksFactStore (src/src/RocksFactStore.cpp):   *)
(* several sessions of one process share one RocksDB handle and one        *)
(* writeMutex.  A transaction holds the mutex from begin to commit or      *)
(* rollback and keeps its writes in a private batch, mirrored in           *)
(* stagedValues_ so that its own reads see them.  A write outside a        *)
(* transaction takes the mutex for the one call.                           *)
(*                                                                         *)
(* stagedValues_ and the WriteBatch receive the same puts and deletes in   *)
(* the same order, so one overlay stands for both: for every key the last  *)
(* staged value, Absent for a staged delete, Unstaged for neither.         *)
(***************************************************************************)
EXTENDS FiniteSets, FiniteSetsExt, Integers

CONSTANTS Session, Key, Value,
          Absent,       \* no record under the key
          Unstaged,     \* the session has staged nothing for the key
          Free          \* nobody holds writeMutex

ASSUME SentinelAssumption ==
    /\ Absent \notin Value
    /\ Unstaged \notin Value \cup {Absent}
    /\ Free \notin Session
ASSUME KeyAssumption == IsFiniteSet(Key)

VARIABLES db,           \* the RocksDB database (RocksFactStoreSharedState)
          owner,        \* who holds writeMutex
          txn,          \* the sessions whose transaction_ is not null
          staged        \* stagedValues_ of each session

vars == <<db, owner, txn, staged>>

Contents == [Key -> Value \cup {Absent}]
Overlay == [Key -> Value \cup {Absent, Unstaged}]

NothingStaged == [k \in Key |-> Unstaged]

------------------------------------------------------------------------------
(* Reading *)

\* The database as it is once a batch is written over it.
Apply(batch, contents) ==
    [k \in Key |-> IF batch[k] = Unstaged THEN contents[k] ELSE batch[k]]

\* readValue: a staged value or delete first, then the database.
ReadValue(s, k) == Apply(staged[s], db)[k]

\* What session s reads, key by key.
View(s) == Apply(staged[s], db)

\* Faulty variant: the walk ignores staged deletes.
PersistedPassIgnoringDeletes(s, prefix) == {k \in prefix : db[k] # Absent}

\* The records under a prefix that a scan meets while it walks the RocksDB
\* iterator: those the session has not deleted, whoever wrote the value.
PersistedPass(s, prefix) ==
    {k \in prefix : db[k] # Absent /\ staged[s][k] # Absent}

\* The records that only the staged writes hold, visited afterwards.
StagedPass(s, prefix) ==
    {k \in prefix : staged[s][k] \in Value /\ db[k] = Absent}

\* How many records a scan with this limit takes out of so many.
Taken(limit, available) ==
    IF limit = 0 \/ available <= limit THEN available ELSE limit

\* Every set of keys that a scan under a prefix may hand to its visitor.  The
\* staged pass walks an unordered map, so under a limit any choice is possible.
ScanOutcomes(s, prefix, limit) ==
    LET walked == PersistedPass(s, prefix)
        pending == StagedPass(s, prefix)
        first == Taken(limit, Cardinality(walked))
    IN  {a \cup b :
            a \in kSubset(first, walked),
            b \in kSubset(IF limit # 0 /\ first = limit THEN 0
                          ELSE Taken(IF limit = 0 THEN 0 ELSE limit - first,
                                     Cardinality(pending)),
                          pending)}

------------------------------------------------------------------------------
(* Transactions *)

Init ==
    /\ db \in Contents
    /\ owner = Free
    /\ txn = {}
    /\ staged = [s \in Session |-> NothingStaged]

\* beginTransaction refuses a second transaction of the same session (it
\* throws) and waits for the mutex of any other writer.
BeginTransaction(s) ==
    /\ s \notin txn
    /\ owner = Free
    /\ owner' = s
    /\ txn' = txn \cup {s}
    /\ staged' = [staged EXCEPT ![s] = NothingStaged]
    /\ UNCHANGED db

\* putValue, and deleteValue with v = Absent, inside a transaction.
StageValue(s, k, v) ==
    /\ s \in txn
    /\ staged' = [staged EXCEPT ![s] = [@ EXCEPT ![k] = v]]
    /\ UNCHANGED <<db, owner, txn>>

\* Faulty variant: the staging map outlives the transaction.
EndTransactionKeepingStaged(s) ==
    /\ txn' = txn \ {s}
    /\ owner' = IF owner = s THEN Free ELSE owner
    /\ UNCHANGED staged

\* Faulty variant: the lock is released but transaction_ survives.
EndTransactionKeepingBatch(s) ==
    /\ staged' = [staged EXCEPT ![s] = NothingStaged]
    /\ owner' = IF owner = s THEN Free ELSE owner
    /\ UNCHANGED txn

\* transaction_ reset, staging maps cleared, lock released.
EndTransaction(s) ==
    /\ txn' = txn \ {s}
    /\ staged' = [staged EXCEPT ![s] = NothingStaged]
    /\ owner' = IF owner = s THEN Free ELSE owner

\* Faulty variant: the batch is written without looking at what is unstaged.
CommitTransactionRaw(s) ==
    /\ s \in txn
    /\ db' = staged[s]
    /\ EndTransaction(s)

CommitTransaction(s) ==
    /\ s \in txn
    /\ db' = Apply(staged[s], db)
    /\ EndTransaction(s)

\* rollbackTransaction, and commitTransaction when RocksDB refuses the batch.
RollbackTransaction(s) ==
    /\ s \in txn
    /\ EndTransaction(s)
    /\ UNCHANGED db

------------------------------------------------------------------------------
(* Writes outside a transaction *)

\* Faulty variant: the call does not wait for the mutex.
StandaloneWriteLockBarging(s) ==
    /\ s \notin txn
    /\ owner' = s
    /\ UNCHANGED <<db, txn, staged>>

\* standaloneWriteLock of a session without a transaction.
StandaloneWriteLock(s) ==
    /\ s \notin txn
    /\ owner = Free
    /\ owner' = s
    /\ UNCHANGED <<db, txn, staged>>

\* A synchronous Put, Delete or WriteBatch: putValue and deleteValue write one
\* key, commitBatch several.  One call may do several of them: insertFact
\* stores the advanced id sequence before the batch of the record.
StandaloneWrite(s, batch) ==
    /\ owner = s
    /\ s \notin txn
    /\ db' = Apply(batch, db)
    /\ UNCHANGED <<owner, txn, staged>>

StandaloneUnlock(s) ==
    /\ owner = s
    /\ s \notin txn
    /\ owner' = Free
    /\ UNCHANGED <<db, txn, staged>>

\* The owning process dies; the database directory is opened again by
\* sessions with no state.  RocksDB applies a synced WriteBatch whole or not.
Crash ==
    /\ owner' = Free
    /\ txn' = {}
    /\ staged' = [s \in Session |-> NothingStaged]
    /\ UNCHANGED db

Next ==
    \/ \E s \in Session :
          \/ BeginTransaction(s)
          \/ CommitTransaction(s)
          \/ RollbackTransaction(s)
          \/ StandaloneWriteLock(s)
          \/ StandaloneUnlock(s)
          \/ \E k \in Key, v \in Value \cup {Absent} : StageValue(s, k, v)
          \/ \E batch \in Overlay : StandaloneWrite(s, batch)
    \/ Crash

Spec == Init /\ [][Next]_vars

------------------------------------------------------------------------------
(* Properties *)

\* Every variable has its type; in particular a database key never holds the
\* marker of a staging map.
TypeOK ==
    /\ db \in Contents
    /\ owner \in Session \cup {Free}
    /\ txn \in SUBSET Session
    /\ staged \in [Session -> Overlay]

\* A session with an open transaction holds writeMutex (so there is one at
\* most), and a session without one has nothing staged: its reads come from
\* the database.  Code: beginTransaction, commitTransaction,
\* rollbackTransaction with the failing commit, standaloneWriteLock.
LockDiscipline ==
    \A s \in Session :
        /\ s \in txn => owner = s
        /\ s \notin txn => staged[s] = NothingStaged

\* Nothing another session does reaches what an open transaction reads: from
\* begin to end no write arrives in the database, so the reads of the
\* transaction are repeatable.  Code: every writing call of RocksFactStore
\* takes standaloneWriteLock or belongs to the transaction.
OpenTransactionIsAlone ==
    [][\A s \in Session : s \in txn /\ s \in txn' => db' = db]_vars

\* A scan under a prefix hands its visitor exactly the live records of the
\* session's view, staged inserts, replacements and deletes included, and
\* with a limit exactly as many as there are up to the limit.  Code: the two
\* passes of scanFacts, scanAllFacts, scanLinks and scanClassEdges.
ScanExact ==
    \A s \in Session, prefix \in SUBSET Key :
        LET live == {k \in prefix : ReadValue(s, k) # Absent}
        IN  \A limit \in 0 .. Cardinality(Key) :
                \A seen \in ScanOutcomes(s, prefix, limit) :
                    /\ seen \subseteq live
                    /\ Cardinality(seen) = Taken(limit, Cardinality(live))

\* The layer implements AtomicStore: what a session reads is View(s).
Abstract == INSTANCE AtomicStore WITH
                open <- txn,
                view <- [s \in Session |-> View(s)]

\* Begin, commit, rollback, failing commits, calls outside a transaction and
\* crashes are steps of the abstract store or invisible in it.
ImplementsAtomicStore == Abstract!Spec
==============================================================================
