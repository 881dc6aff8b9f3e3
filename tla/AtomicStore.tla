----------------------------- MODULE AtomicStore -----------------------------
(***************************************************************************)
(* What Felidae's durable store promises to the sessions (interpreters)    *)
(* that share it, with no word about locks, batches or staging maps.       *)
(*                                                                         *)
(* The database is a map from encoded keys to values.  A session outside   *)
(* a transaction reads the committed database.  A session inside one reads *)
(* a private copy that only its own writes change; commit installs that    *)
(* copy whole, abort or a crash drops it whole.  At most one transaction   *)
(* is open, and no other write reaches the database while one is.          *)
(***************************************************************************)
CONSTANTS Session,      \* the interpreters of the owning process
          Key,          \* encoded record keys
          Value,        \* encoded record values
          Absent        \* the value of a key that has no record

VARIABLES db,           \* the committed database
          open,         \* the sessions inside a transaction
          view          \* what each session reads

vars == <<db, open, view>>

Contents == [Key -> Value \cup {Absent}]

EveryoneReads(contents) == [s \in Session |-> contents]

Init ==
    /\ db \in Contents
    /\ open = {}
    /\ view = EveryoneReads(db)

Begin(s) ==
    /\ open = {}
    /\ open' = {s}
    /\ UNCHANGED <<db, view>>

\* Put or delete (v = Absent) one key inside the transaction.
Write(s, k, v) ==
    /\ s \in open
    /\ view' = [view EXCEPT ![s] = [@ EXCEPT ![k] = v]]
    /\ UNCHANGED <<db, open>>

Commit(s) ==
    /\ s \in open
    /\ db' = view[s]
    /\ view' = EveryoneReads(view[s])
    /\ open' = {}

Abort(s) ==
    /\ s \in open
    /\ view' = [view EXCEPT ![s] = db]
    /\ open' = {}
    /\ UNCHANGED db

\* A write outside any transaction is visible to everyone at once.
WriteThrough(contents) ==
    /\ open = {}
    /\ db' = contents
    /\ view' = EveryoneReads(contents)
    /\ UNCHANGED open

Crash ==
    /\ open' = {}
    /\ view' = EveryoneReads(db)
    /\ UNCHANGED db

Next ==
    \/ \E s \in Session :
          \/ Begin(s) \/ Commit(s) \/ Abort(s)
          \/ \E k \in Key, v \in Value \cup {Absent} : Write(s, k, v)
    \/ \E contents \in Contents : WriteThrough(contents)
    \/ Crash

Spec == Init /\ [][Next]_vars
==============================================================================
