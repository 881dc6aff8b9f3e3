------------------------------- MODULE FactStore -------------------------------
(***************************************************************************)
(* The sessions of one process working on FactTables: loading modules,     *)
(* inserting, updating and deleting facts, linking them                    *)
(* (src/src/Interpreter.cpp on src/src/RocksFactStore.cpp).                *)
(*                                                                         *)
(* A module load is one transaction.  Outside a load every statement that  *)
(* writes is a transaction of its own.  BatchStore shows what a            *)
(* transaction is to the rest of the process: only its session reads its   *)
(* writes and nothing is committed meanwhile.  So one variable holds what  *)
(* the transaction's session reads, and it equals the committed tables     *)
(* while there is no transaction.                                          *)
(*                                                                         *)
(* An update, a delete and a Link read before they enter their             *)
(* transaction: the selected rows and the endpoints are captured first.    *)
(***************************************************************************)
EXTENDS FactTables

CONSTANTS Session,
          Free,            \* no transaction is open
          Idle,            \* the session executes no statement
          CaughtInLoad     \* loaded modules may catch errors (try ... catch)

ASSUME SessionAssumption ==
    /\ Free \notin Session
    /\ CaughtInLoad \in BOOLEAN

VARIABLES committed,    \* the tables in the database
          working,      \* the tables the open transaction's session reads
          owner,        \* the session with the open transaction
          loading,      \* that transaction is a module load
          job           \* the statement each session executes

vars == <<committed, working, owner, loading, job>>

\* A delete or an update with the rows it has still to process: ids, and for
\* an update the values to store; "running" once its transaction is entered.
Delete == [op : {"delete"}, running : BOOLEAN, rows : SUBSET Id]
Update == [op : {"update"}, running : BOOLEAN, field : Field,
           rows : SUBSET (Id \X Value)]
\* A Link whose endpoints are resolved.
LinkFact == [op : {"link"}, running : {FALSE}, src : Id, dst : Id]

ASSUME IdleAssumption == Idle \notin Delete \cup Update \cup LinkFact

View(s) == IF owner = s THEN working ELSE committed

\* withStoreTransaction and the ownsTransaction branches: a statement joins
\* the module load of its session or opens a transaction.
MayEnter(s) == owner \in {Free, s}

Executing(s, op) ==
    /\ job[s] # Idle
    /\ job[s].op = op
    /\ job[s].running

Init ==
    /\ committed = EmptyTables
    /\ working = EmptyTables
    /\ owner = Free
    /\ loading = FALSE
    /\ job = [s \in Session |-> Idle]

------------------------------------------------------------------------------
(* How a statement ends *)

\* The session's statement has turned its tables into t.  Inside a load they
\* wait for the load's commit.
Complete(s, t) ==
    /\ working' = t
    /\ IF loading
       THEN UNCHANGED <<committed, owner>>
       ELSE committed' = t /\ owner' = Free
    /\ job' = [job EXCEPT ![s] = Idle]
    /\ UNCHANGED loading

\* The open transaction, if any, is rolled back.
Rollback ==
    /\ working' = committed
    /\ owner' = Free
    /\ loading' = FALSE
    /\ UNCHANGED committed

\* The statement throws with the tables turned into t so far.  A transaction
\* of its own is rolled back.  An error that leaves a load rolls the load
\* back; one that the load's program catches leaves what was written.
Fail(s, t) ==
    /\ job' = [job EXCEPT ![s] = Idle]
    /\ \/ Rollback
       \/ /\ loading /\ CaughtInLoad
          /\ working' = t
          /\ UNCHANGED <<committed, owner, loading>>

------------------------------------------------------------------------------
(* Module loads *)

BeginModule(s) ==
    /\ owner = Free
    /\ job[s] = Idle
    /\ owner' = s
    /\ loading' = TRUE
    /\ UNCHANGED <<committed, working, job>>

CommitModule(s) ==
    /\ owner = s
    /\ job[s] = Idle
    /\ committed' = working
    /\ owner' = Free
    /\ loading' = FALSE
    /\ UNCHANGED <<working, job>>

\* A syntax error, a rejected declaration, a refused batch.
RollbackModule(s) ==
    /\ owner = s
    /\ job[s] = Idle
    /\ Rollback
    /\ UNCHANGED job

------------------------------------------------------------------------------
(* Facts *)

\* publishFact with the insertFact it calls.  A declaration in a module (seed)
\* may carry designations and may repeat a stored fact, to which it then adds
\* them; Type.insert may not.
PublishFact(s, val, tags, seed) ==
    LET t == View(s)
        key == val[KeyField]
        inserted == InsertFact(t, val, tags)
    IN  /\ job[s] = Idle
        /\ MayEnter(s)
        /\ IF seed THEN owner = s ELSE tags = {}
        /\ \/ /\ key \in Structured
              /\ Fail(s, t)
           \/ /\ key \in Key
              /\ t.node[key] = NoRow
              /\ IF t.nextNode > MaxNode THEN Fail(s, t)
                 ELSE IF Indexable(val)
                      THEN Complete(s, AddIndexes(inserted, val, t.nextNode))
                      ELSE Fail(s, inserted)
           \/ /\ key \in Key
              /\ t.node[key] # NoRow
              /\ LET row == t.node[key]
                 IN  IF seed /\ row.val = val
                     THEN Complete(s,
                            IF tags \subseteq row.tags THEN t
                            ELSE ReplaceFact(t, key, val, row.tags \cup tags))
                     ELSE Fail(s, t)

\* materializeFactSelection: the rows that the Type.where(...) of a statement
\* selects are read before the statement enters its transaction.
Select(s, statement) ==
    /\ job[s] = Idle
    /\ job' = [job EXCEPT ![s] = statement]
    /\ UNCHANGED <<committed, working, owner, loading>>

SelectForDelete(s) ==
    \E ids \in (SUBSET Live(View(s))) \ {{}} :
        Select(s, [op |-> "delete", running |-> FALSE, rows |-> ids])

\* The patch is applied to the selected rows as they were read.
SelectForUpdate(s) ==
    \E ids \in (SUBSET Live(View(s))) \ {{}}, f \in Field, d \in Datum :
        Select(s, [op |-> "update", running |-> FALSE, field |-> f,
                   rows |-> {<<i, [RowOf(View(s), i).val EXCEPT ![f] = d]>> :
                                i \in ids}])

EnterStatement(s) ==
    /\ job[s] # Idle
    /\ job[s].op \in {"delete", "update"}
    /\ ~job[s].running
    /\ MayEnter(s)
    /\ owner' = s
    /\ job' = [job EXCEPT ![s].running = TRUE]
    /\ UNCHANGED <<committed, working, loading>>

\* The row is done; its statement goes on with the others.
RowDone(s, row, t) ==
    /\ working' = t
    /\ job' = [job EXCEPT ![s].rows = @ \ {row}]
    /\ UNCHANGED <<committed, owner, loading>>

\* One row of Fact.delete: a record already gone is counted and skipped, a
\* record with incoming links stops the statement after its index entries went.
DeleteRow(s, i) ==
    LET row == RowOf(working, i)
        unindexed == RemoveIndexes(working, row.val, i)
    IN  /\ Executing(s, "delete")
        /\ i \in job[s].rows
        /\ IF i \notin Live(working) THEN RowDone(s, i, working)
           ELSE IF ~Indexable(row.val) THEN Fail(s, working)
           ELSE IF Incoming(unindexed, i) # {} THEN Fail(s, unindexed)
           ELSE RowDone(s, i, DeleteFact(unindexed, row.val[KeyField]))

\* Moving a record to another key: not while it is referenced, and not onto a
\* key that is taken.
MayMove(t, row, key) ==
    \/ key = row.val[KeyField]
    \/ Incoming(t, row.id) = {} /\ t.node[key] = NoRow

\* Faulty variant: the replacement starts from the row as it was read, which
\* carries no designations.
UpdateRowAsRead(s, i, next) ==
    LET row == RowOf(working, i)
        unindexed == RemoveIndexes(working, row.val, i)
        replaced == ReplaceFact(unindexed, row.val[KeyField], next, {})
    IN  /\ Executing(s, "update")
        /\ <<i, next>> \in job[s].rows
        /\ IF i \notin Live(working) \/ ~Indexable(row.val)
           THEN Fail(s, working)
           ELSE IF next[KeyField] \in Structured THEN Fail(s, unindexed)
           ELSE IF ~MayMove(unindexed, row, next[KeyField])
                THEN Fail(s, unindexed)
           ELSE IF Indexable(next)
                THEN RowDone(s, <<i, next>>, AddIndexes(replaced, next, i))
                ELSE Fail(s, replaced)

\* One row of Fact.update.
UpdateRow(s, i, next) ==
    LET row == RowOf(working, i)
        unindexed == RemoveIndexes(working, row.val, i)
        replaced == ReplaceFact(unindexed, row.val[KeyField], next, row.tags)
    IN  /\ Executing(s, "update")
        /\ <<i, next>> \in job[s].rows
        /\ IF i \notin Live(working) \/ ~Indexable(row.val)
           THEN Fail(s, working)
           ELSE IF next[KeyField] \in Structured THEN Fail(s, unindexed)
           ELSE IF ~MayMove(unindexed, row, next[KeyField])
                THEN Fail(s, unindexed)
           ELSE IF Indexable(next)
                THEN RowDone(s, <<i, next>>, AddIndexes(replaced, next, i))
                ELSE Fail(s, replaced)

\* The last row is done; RocksDB may refuse the batch of the transaction.
FinishStatement(s) ==
    /\ Executing(s, "delete") \/ Executing(s, "update")
    /\ job[s].rows = {}
    /\ Complete(s, working) \/ (~loading /\ Fail(s, working))

------------------------------------------------------------------------------
(* Links *)

\* publishLink resolves both endpoints, by key or by identity, before it
\* enters a transaction.
ResolveEndpoints(s) ==
    \E src, dst \in Live(View(s)) :
        Select(s, [op |-> "link", running |-> FALSE, src |-> src, dst |-> dst])

\* The rest of publishLink with the insertLink it calls: an equal link is kept
\* in a module (seed) and an error elsewhere.
PublishLink(s, props, seed) ==
    LET t == View(s)
    IN  /\ job[s] # Idle
        /\ job[s].op = "link"
        /\ MayEnter(s)
        /\ seed => owner = s
        /\ IF SameLink(t, job[s].src, job[s].dst, props) # {}
           THEN IF seed THEN Complete(s, t) ELSE Fail(s, t)
           ELSE IF t.nextLink > MaxLink THEN Fail(s, t)
           ELSE Complete(s, InsertLink(t, job[s].src, job[s].dst, props))

------------------------------------------------------------------------------

\* The process dies and its sessions start again on the database.
Crash ==
    /\ Rollback
    /\ job' = [s \in Session |-> Idle]

Load(s) == BeginModule(s) \/ CommitModule(s) \/ RollbackModule(s)

Mutate(s) ==
    \/ \E val \in Value, tags \in SUBSET Tag, seed \in BOOLEAN :
          PublishFact(s, val, tags, seed)
    \/ SelectForDelete(s)
    \/ SelectForUpdate(s)
    \/ EnterStatement(s)
    \/ \E i \in Id : DeleteRow(s, i)
    \/ \E i \in Id, next \in Value : UpdateRow(s, i, next)
    \/ FinishStatement(s)

Connect(s) ==
    \/ ResolveEndpoints(s)
    \/ \E props \in Property, seed \in BOOLEAN : PublishLink(s, props, seed)

Next ==
    \/ \E s \in Session : Load(s) \/ Mutate(s) \/ Connect(s)
    \/ Crash

Spec == Init /\ [][Next]_vars

------------------------------------------------------------------------------
(* Properties *)

\* Every variable has its type.
TypeOK ==
    /\ committed \in Tables
    /\ working \in Tables
    /\ owner \in Session \cup {Free}
    /\ loading \in BOOLEAN
    /\ job \in [Session -> Delete \cup Update \cup LinkFact \cup {Idle}]

\* In the database, and in what an open transaction reads, primary keys and
\* ids name the same records.  Code: the N and D rows written by insertFact,
\* replaceFact and deleteFact.
Identities == IdentitiesAgree(committed) /\ IdentitiesAgree(working)

\* No record is without metadata and no metadata without its record.  Code:
\* the P and T rows of insertFact, updateFact, replaceFact, deleteFact.
Metadata == MetadataExact(committed) /\ MetadataExact(working)

\* The designation table never lists a record that lost the designation or is
\* gone, nor misses one ("Dangling Felidae designation index entry").  Code:
\* the Q rows of the same functions.
Designations == DesignationsExact(committed) /\ DesignationsExact(working)

\* A look-up by an indexed value finds exactly the records with that value
\* ("Dangling Felidae RocksDB index entry").  Code: the X rows, which
\* publishFact, Fact.update and Fact.delete keep in step with the N rows by
\* calls of their own.
Indexes == IndexExact(committed)

\* The outgoing, the incoming and the primary copy of every link agree.  Code:
\* the R, O and I rows of insertLink and deleteFact.
Adjacency == AdjacencyExact(committed) /\ AdjacencyExact(working)

\* A stored link never points to a deleted record.  Code: resolveLinkEndpoint
\* when the link is made, the restrict check and the removal of outgoing links
\* in deleteFact, the check of replaceFact.
Attached == LinksAttached(committed)

\* The id of a deleted record never names another one: only ids the sequence
\* has not yet handed out come to life, whatever was rolled back between.
\* Code: allocateId inside the transactions.
IdsAreNotReused ==
    [][\A i \in Live(committed') \ Live(committed) :
          i >= committed.nextNode]_vars

\* An update stores whole rows that were read before its transaction, but a
\* record keeps the designations that another session has given it since: a
\* designation goes with its record only.  Code: replaceFact, whose
\* replacement starts from the row as stored (Interpreter.cpp:6335), and
\* publishFact, which unites designations.
DesignationsStay ==
    [][\A i \in Live(committed) \cap Live(committed') :
          RowOf(committed, i).tags \subseteq RowOf(committed', i).tags]_vars

\* An update of one field leaves the other fields of the record as they are
\* when its transaction writes them.  It does not hold with two sessions: the
\* copy another session has changed meanwhile is stored over.  No run checks
\* it.  Code: Fact.update.
UpdatesOneField ==
    [][\A s \in Session : Executing(s, "update") /\ owner' = owner =>
          \A i \in Live(working) \cap Live(working') :
             \A f \in Field \ {job[s].field} :
                RowOf(working', i).val[f] = RowOf(working, i).val[f]]_vars
==============================================================================
