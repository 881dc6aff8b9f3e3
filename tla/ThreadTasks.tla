------------------------------ MODULE ThreadTasks ------------------------------
(***************************************************************************)
(* The threads of a Felidae program (thread.createThread, start, result,   *)
(* status) and writeMutex of the store they share                          *)
(* (src/src/Interpreter.cpp).  Every thread runs a function on an          *)
(* interpreter of its own, which opens the database of its parent and may  *)
(* create threads itself; the destructor of an interpreter joins the       *)
(* threads it started.                                                     *)
(*                                                                         *)
(* A module load keeps the mutex from begin to commit or rollback, and     *)
(* runs the entry calls of the module meanwhile.  A statement that writes  *)
(* takes and gives back the mutex without a thread call in between, so it  *)
(* is one step; what it writes is the subject of FactStore.                *)
(***************************************************************************)
EXTENDS Integers

CONSTANTS Root,             \* the interpreter of the program
          Task,             \* threads and their interpreters
          MaxStatements,    \* writes, loads and joins of one interpreter
          JoinsInLoad,      \* entry calls may wait for threads
          Free,             \* nobody holds writeMutex
          NoParent          \* the thread is not created

Interp == Task \cup {Root}

ASSUME InterpAssumption == /\ Root \notin Task
                           /\ Free \notin Interp
                           /\ NoParent \notin Interp
ASSUME BoundAssumption == MaxStatements \in Nat /\ JoinsInLoad \in BOOLEAN

VARIABLES at,           \* what each interpreter is doing
          awaited,      \* the thread an interpreter last asked the result of
          parent,       \* who created the thread
          status,       \* ThreadTask.status
          owner,        \* who holds writeMutex
          loading,      \* for a module load
          left          \* statements each interpreter may still execute

store == <<owner, loading>>
tasks == <<parent, status>>
threadVars == <<at, awaited, store, tasks, left>>

Loading(i) == owner = i /\ loading

ThreadsInit ==
    /\ at = [i \in Interp |-> IF i = Root THEN "running" ELSE "absent"]
    /\ awaited = [i \in Interp |-> i]
    /\ parent = [t \in Task |-> NoParent]
    /\ status = [t \in Task |-> "none"]
    /\ owner = Free
    /\ loading = FALSE
    /\ left = [i \in Interp |-> MaxStatements]

Move(i, where) == at' = [at EXCEPT ![i] = where]

\* The interpreter begins a statement of its bounded program.
Execute(i) ==
    /\ at[i] = "running"
    /\ left[i] > 0
    /\ left' = [left EXCEPT ![i] = @ - 1]

------------------------------------------------------------------------------
(* The store *)

\* Fact.insert or a load is next; either may have to wait for the mutex.
RequestWrite(i) ==
    /\ Execute(i)
    /\ Move(i, "inserting")
    /\ UNCHANGED <<awaited, store, tasks>>

RequestLoad(i) ==
    /\ Execute(i)
    /\ ~Loading(i)
    /\ Move(i, "entering")
    /\ UNCHANGED <<awaited, store, tasks>>

\* Faulty variant: every statement begins a transaction of its own.
MayWriteAlone(i) == owner = Free

\* withStoreTransaction: a statement joins the transaction of the load or begins
\* one of its own.
MayWrite(i) == owner = Free \/ Loading(i)

\* The whole statement with its transaction; RocksDB may refuse it, which is an
\* error of the program after it.
Insert(i) ==
    /\ at[i] = "inserting"
    /\ MayWrite(i)
    /\ Move(i, "running")
    /\ UNCHANGED <<awaited, store, tasks, left>>

BeginModule(i) ==
    /\ at[i] = "entering"
    /\ owner = Free
    /\ owner' = i
    /\ loading' = TRUE
    /\ Move(i, "running")
    /\ UNCHANGED <<awaited, tasks, left>>

CommitModule(i) ==
    /\ at[i] = "running"
    /\ Loading(i)
    /\ owner' = Free
    /\ loading' = FALSE
    /\ UNCHANGED <<at, awaited, tasks, left>>

\* Faulty variant: the transaction of the load stays open.
AbandonLoadOpen(i) == UNCHANGED store

\* An error that leaves a load rolls its transaction back.
AbandonLoad(i) ==
    IF Loading(i)
    THEN owner' = Free /\ loading' = FALSE
    ELSE UNCHANGED store

------------------------------------------------------------------------------
(* Threads *)

CreateThreadTask(i, t) ==
    /\ at[i] = "running"
    /\ status[t] = "none"
    /\ status' = [status EXCEPT ![t] = "created"]
    /\ parent' = [parent EXCEPT ![t] = i]
    /\ UNCHANGED <<at, awaited, store, left>>

\* A second start only returns the status.
StartThreadTask(i, t) ==
    /\ at[i] = "running"
    /\ parent[t] = i
    /\ status[t] = "created"
    /\ status' = [status EXCEPT ![t] = "running"]
    /\ Move(t, "opening")
    /\ UNCHANGED <<awaited, store, parent, left>>

\* The thread opens the database of its parent.
OpenDatabase(t) ==
    /\ at[t] = "opening"
    /\ Move(t, "running")
    /\ UNCHANGED <<awaited, store, tasks, left>>

\* thread.result joins the worker.  A thread never started is an error, which
\* the program catches or fails with.
ThreadTaskResult(i, t) ==
    /\ Execute(i)
    /\ parent[t] = i
    /\ Loading(i) => JoinsInLoad
    /\ awaited' = [awaited EXCEPT ![i] = t]
    /\ IF at[t] = "absent" THEN UNCHANGED at ELSE Move(i, "joining")
    /\ UNCHANGED <<store, tasks>>

\* The worker has ended; its error is thrown like any other.
Joined(i) ==
    /\ at[i] = "joining"
    /\ at[awaited[i]] = "gone"
    /\ Move(i, "running")
    /\ UNCHANGED <<awaited, store, tasks, left>>

------------------------------------------------------------------------------
(* How a program ends *)

\* The function of a thread has returned: its status says so before its
\* interpreter is destroyed.
Finish(i) ==
    /\ at[i] = "running"
    /\ ~Loading(i)
    /\ Move(i, "closing")
    /\ status' = [t \in Task |-> IF t = i THEN "finished" ELSE status[t]]
    /\ UNCHANGED <<awaited, store, parent, left>>

\* An error nobody caught, also one of openDatabase.
Fail(i) ==
    /\ at[i] \in {"running", "opening"}
    /\ AbandonLoad(i)
    /\ Move(i, "closing")
    /\ UNCHANGED <<awaited, tasks, left>>

\* Faulty variant: a thread that reported its end is not joined.
JoinedThreadsByStatus(i) ==
    \A t \in Task : parent[t] = i => status[t] # "running"

\* joinThreads: no thread the interpreter has started still runs.
JoinedThreads(i) ==
    \A t \in Task : parent[t] = i => at[t] \in {"absent", "gone"}

\* ~Interpreter; the thread of a failed program reports the error after it.
Close(i) ==
    /\ at[i] = "closing"
    /\ JoinedThreads(i)
    /\ Move(i, "gone")
    /\ status' = [t \in Task |->
          IF t = i /\ status[t] = "running" THEN "error" ELSE status[t]]
    /\ UNCHANGED <<awaited, store, parent, left>>

------------------------------------------------------------------------------

Step(i) ==
    \/ RequestWrite(i) \/ RequestLoad(i) \/ Insert(i)
    \/ BeginModule(i) \/ CommitModule(i)
    \/ \E t \in Task : \/ CreateThreadTask(i, t)
                       \/ StartThreadTask(i, t)
                       \/ ThreadTaskResult(i, t)
    \/ Joined(i) \/ Finish(i) \/ Fail(i) \/ Close(i)

ThreadsNext ==
    \/ \E i \in Interp : Step(i)
    \/ \E t \in Task : OpenDatabase(t)

\* The operating system runs every thread that can run.  Programs are finite
\* by MaxStatements, so nothing more is asked of the mutex.
Fairness ==
    /\ \A i \in Interp : WF_threadVars(Step(i))
    /\ \A t \in Task : WF_threadVars(OpenDatabase(t))

ThreadsSpec == ThreadsInit /\ [][ThreadsNext]_threadVars /\ Fairness

------------------------------------------------------------------------------
(* Properties *)

\* Every variable has its type.
TypeOK ==
    /\ at \in [Interp -> {"absent", "opening", "running", "inserting",
                          "entering", "joining", "closing", "gone"}]
    /\ awaited \in [Interp -> Interp]
    /\ parent \in [Task -> Interp \cup {NoParent}]
    /\ status \in [Task -> {"none", "created", "running", "finished", "error"}]
    /\ owner \in Interp \cup {Free}
    /\ loading \in BOOLEAN
    /\ left \in [Interp -> 0 .. MaxStatements]

\* A thread never outlives the interpreter that started it, whose mutex and
\* task it uses.  Code: joinThreads in ~Interpreter, [this] in startThreadTask.
ThreadsEndFirst ==
    \A t \in Task :
        parent[t] # NoParent /\ at[parent[t]] = "gone" =>
            at[t] \in {"absent", "gone"}

\* No interpreter waits for its threads in its destructor while it holds the
\* mutex those may wait for.  Code: the rollbacks of loadProgramFile and
\* withStoreTransaction.
ClosesUnlocked ==
    \A i \in Interp : at[i] \in {"closing", "gone"} => owner # i

\* A program that has no endless statement ends, and with it every
\* thread.result and every wait for the mutex on the way.  Code:
\* threadTaskResult, joinThreads, beginModuleTransaction.
ProgramEnds == <>(at[Root] = "gone")
==============================================================================
