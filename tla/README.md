# Felidae in TLA+

Felidae is a query and reasoning language over a persistent fact and graph
store.  A program declares facts, rules and functions; facts, links between
facts and edges between classes live in RocksDB; an interpreter evaluates the
program directly.  Several interpreters ("sessions" here: the program and its
threads) share one database in one process.

These modules model the store, the way sessions use it, and the interpreter on
top of it: the solver, the lineage of types, the evaluation of relational rules
by tables, and the loading of programs.  Paths are relative to the repository,
with its implementation in `src/src/`.

## 1. Inventory

| Component | State | Operations | Works with | What is hard, what must hold |
|---|---|---|---|---|
| Store transactions (`RocksFactStore.cpp` 713-788, scans) | database, `writeMutex`, per session a `WriteBatch` with the staged values that mirror it | begin, commit, rollback, put, delete, standalone write, prefix scans | every component that stores something | interleaved sessions, refused batches, crashes: atomic, isolated, and a scan sees the session's own view |
| Fact and link tables (`RocksFactStore.cpp` 790-1468) | ten key prefixes: record, identity, provenance, time, designation, index, link, two adjacency copies, sequences | insert, update, replace, delete, index maintenance, link | transactions below, interpreter above | a record is repeated in many rows and only the operations keep them in step |
| Fact statements and module transactions (`Interpreter.cpp` 1171-1252, 5102-5317, 6264-6357) | the statement being executed, the open module transaction | load, commit, roll back, `Type.insert`, `update`, `delete`, `Link` | tables | rows read before a transaction and used in it; a statement that fails part-way; errors that are caught |
| Class graph (`RocksFactStore.cpp` 1470-1573, `Interpreter.cpp` 5332-5484) | edges between classes in three copies, their id sequence | `Graph.add`, `Graph(A.class, B.class)` | tables, type hierarchy | two writes per call outside transactions, a sequence remembered by the session |
| Threads (`Interpreter.cpp` 1254-1405) | task status, worker, its interpreter | create, start, status, result, destructor | store mutex, module loads | everyone waiting for everyone; who outlives whom |
| Session start, schema contracts (`Interpreter.cpp` 1074-1151, 4892-5045) | class definitions and fact contracts, registered schemas | open, register, promote, validate | store, loads | contracts that are stale when they are used; order of registration |
| File synchronisation (`Interpreter.cpp` 11115-11269) | source locator, stored rows | `db.sync` | tables | rows read before the transaction |
| Readers without the lock (`RocksFactStore.cpp` 802-815, 1144-1241) | none | index, designation and identity look-ups | tables | a snapshot of the index, then single reads |
| Query caches (`Interpreter.cpp` 10430-10470, 10585-10618, `ReasoningRuntime.cpp` 100-160) | tables of answers, looked-up clause lists, generations of predicates and of the lineage | look up, validate, clear at once or at the end of a batch | reasoning, loading | what is remembered must be what the program means now |
| Type hierarchy (`TypeHierarchy.cpp`, `Interpreter.cpp` 3420-3507, 3640-3760) | parents, a generation, three caches of ancestries | set parent, compatible, analysis of common ancestors | classes, store, module rollback | cycles made by two sessions; generations that come back after a rollback |
| Rules and reasoning (`Interpreter.cpp` 1628-1717, `ReasoningRuntime.cpp`) | rules, tables with proofs, contraries | stratify, semi-naive rounds, prove | facts, lineage, caches | completeness, limits, negation, proofs that explain |
| Solver (`Interpreter.cpp` 2064-3010, `Env.cpp`) | frames of goals, the trail, flags of a call (negation, tail call, depth) | solve, call, try, loop, break, compare | everything | what every exit must give back; whose variables a goal sees |
| Module loading (`FelidaeRuntime.cpp`, `Interpreter.cpp` 1171-1252, 1407-1626, 10620-10700, `IntegerParser.cpp`) | loaded files, attempted packages, the stack of loads, the clause table, globals, classes, syntax | load, import, take in a text, discover a package, roll back | parser, operator registry, store, threads | cycles, errors at any depth that are caught or not, parsing that depends on what was loaded |
| Operator registry (`Operator.h`) | mixfix operators | register, match | parser, module transactions | operators that appear while their module is parsed |
| Shared database registry (`RocksFactStore.cpp` 49-154) | weak pointers to open databases | open, upgrade, close | sessions | last close against first open |
| Debugger, notebook, command line, native libraries, parser | | | | in `PROJECT.json` with the reason why they are not modelled |

`PROJECT.json` lists the hazards of this code line by line with the properties
that cover them.  One consequence of the model is not a property of its own: a
thread started during a load reads the database without the facts of the load,
because the load is one transaction that the thread's session is not in
(`OpenTransactionIsAlone`), although the comment at `Interpreter.cpp` 1342 says
that it sees the same facts.

Errors inside a load deserve a word of their own.  A package that is found
during a load has no transaction of its own (`Interpreter.cpp` 10653), and a
statement inside a load joins the load's (3057), so when a `try` of the program
catches the error (2467) whatever the failing step had already changed stays, in
memory and staged, and the load commits it.  Every module whose component can
meet this has the behaviour: `CaughtInLoad` (`FactStore`, `SchemaContract`,
`Lineage`, `Tabling`) or the `try` of `ModuleLoading`.  What does not survive it
is listed in section 4.

## 2. Plan

Written, in this order:

1. `AtomicStore`, `BatchStore`: what a transaction promises and how it is kept.
2. `FactTables`, `FactStore`: the tables, their operations, and the sessions'
   statements over them.  They build on the result of 1: a transaction is alone
   and only its session reads its writes, so one variable holds what it reads.
3. `ClassGraph`: the one part of the store that writes outside transactions.
4. `ThreadTasks`: the sessions of a program as threads, and the mutex of 1.
5. `SchemaContract`: how the facts of a type are keyed and shaped, over loads,
   declarations and restarts of one session.

6. `Terms`, `Goals`, `Unification`, `Syntax`, `GoalSolver`: the solver as a machine, and
   `SolverReference`, what a program means without one.
7. `Lineage`: two sessions on one stored lineage, with the caches of each.
8. `RelationalRules`, `Tabling`: tables, proofs and their validity, against the
   well-founded model.
9. `ModuleLoading`: the roots in memory over nested, failing and repeated loads.

Not written, the most important first:

10. `GoalSolver` with `ModuleLoading`: a call that loads a package under loops
    that hold pointers to clause lists (`Interpreter.cpp` 2726).
11. A second session in `SchemaContract`: contracts of one session against
    schemas another has registered, two sessions on one undeclared type.
12. `FactReaders`: look-ups in several reads while another session commits.
    Composes with `FactTables`.
13. `FactSync`: the rows of `db.sync` over `FactTables`.
14. `DatabaseRegistry`, `DebugSession`, `NotebookRunner`.

A proof to add: that `FactStore` with one statement per transaction implements
a store of whole records.

## 3. Modules

| Module | What it is |
|---|---|
| `AtomicStore` | abstract: a map from keys to values, transactions that take effect at once or not at all, reads of an open transaction that nobody else changes |
| `BatchStore` | the transaction layer; `ImplementsAtomicStore` is the refinement |
| `FactTables` | the tables as a record of functions and sets, the operations of `RocksFactStore` as functions on it, and what it means for tables to agree |
| `FactStore` | sessions, loads, statements row by row, links, crashes |
| `ClassGraph` | class edges, in transactions and outside |
| `ThreadTasks` | interpreters, threads, loads and the mutex |
| `SchemaContract` | contracts, classes, registered schemas and the keys of stored facts |
| `Terms`, `Goals` | what terms, environments, goals and clauses are |
| `Unification`, `Syntax` | what is computed by recursion on them: values, unification with its trail; the renaming of clauses |
| `GoalSolver` | the solver: activations of `solveIterative`, frames, calls, loops, handlers; what `Unification` and `Syntax` define is a parameter of it |
| `SolverReference` | the first answer of a program by recursion on its goals; `AsMeant` compares the two |
| `Lineage` | parents, stored edges, ancestry caches, common ancestors |
| `RelationalRules` | which rules have tables, stratification, the well-founded model |
| `Tabling` | evaluations in rounds, proofs, the table cache, contraries, a program that changes |
| `ModuleLoading` | files, imports, packages, texts of the prompt, errors, the roots a rollback restores |
| `MC*` | the same for TLC (symmetry sets, small programs and files) |
| `*Proofs` | theorems, checked by TLAPS |

### How state and actions correspond to the code

*BatchStore.*  `db` is the RocksDB database, `owner` the holder of
`writeMutex`, `txn` the sessions whose `transaction_` is set, `staged` each
session's `stagedValues_`, which receives the same puts and deletes as the
batch.  `BeginTransaction`, `CommitTransaction`, `RollbackTransaction`,
`StageValue` and the three `Standalone...` actions are the functions of these
names.  `ScanOutcomes` is every set of records a scan may visit: it walks the
database, then the staged map in no particular order, and counts against its
limit.

*FactTables.*  Each field of `Tables` is one key prefix; `P` and `T` are always
written together and are one set.  A value has a key field; composite keys and
types are folded into it, as every operation treats the encoded key as a whole.

*FactStore.*  `committed` is the database, `working` what the open
transaction's session reads (equal while there is none).  A statement that
selects rows first reads them (`Select...`), then enters its transaction
(`EnterStatement`), then processes row after row (`DeleteRow`, `UpdateRow`),
then ends (`FinishStatement`).  `Fail` is an exception out of any of these:
the transaction of the statement is rolled back; inside a module load the error
either leaves the load, which is rolled back, or is caught by a `try` in an
entry call and leaves the writes made so far.  `CaughtInLoad` says whether
programs do the latter.  `PublishFact` and `PublishLink` are the whole
functions, with the insertion they call; they run without a pause because the
mutex is held throughout.

*ClassGraph.*  `cached` is `stagedSequences_`; `pending` is the edge of a call
outside a transaction between its two writes.  `Standalone` names the sessions
that make such calls.

*ThreadTasks.*  An interpreter is where its program is (`at`).  A program is any sequence
of at most `MaxStatements` writes, loads and joins with any creations and
starts of threads between them.

*SchemaContract.*  `schema` is the S rows of the database, `contract`,
`classes` and `unclaimed` the session's `factTypeContracts_`,
`classDefinitions_` and `persistedClassSchemas_`, `before` the roots
`beginModuleTransaction` keeps, with what the database holds until the load
commits.  `Insert` is every way to write a new fact (seed, `Type.insert`), with
the contract and schema `validateFactWrite` registers on the way.  A fact is its
fields and the field it is keyed by; its value is left out, so facts that agree
in both are one.  `DeclareClass` is a declaration that succeeds; `RefuseClass` is
one that throws inside a load that catches the error, with what it had changed
by then: a class that differs from the restored one has used up its turn (1514),
one without a contract is in `classDefinitions_` (1525), one the stored facts do
not fit has class and contract (1527) but no schema (1540).

*GoalSolver.*  One record holds the machine.  An activation is one call of
`solveIterative` with its stack of work frames; `why` says what its caller does
with the result, so that a C++ stack of `solveRecursive`, `solveMethodCall`,
`evalValueCall` and the loops is a sequence of activations.  `now` is what
happens next, an exception included.  `Push` and `Pop` are the guards that save
and restore `valueCallMode_`, `methodCallDepth_`, `tailGoal_`,
`activeNegatedPredicates_` and the binding trail.  Environments are values; what
the code shares and rolls back is computed by `Rollback` over the trail.  Of the
goals the parser can build, those of classes, tables, fields and native calls
are left out.  `If`, `Or`, `Group` and `strictBoolean` goals have no builder in
the parser, and `Interpreter::solve` with its `solveCache_` no caller outside
tests; they are left out too.

What the machine shows of the code without a property being about it: an
unbound variable evaluates to an atom of its name; the inference of a predicate
with an output (6537-6590) runs the effects of a rule body once more than its
answers need; the methods of a call run before its rules; a tail call commits to
the alternative it is in.

*Lineage.*  `parents` is the session's `TypeHierarchy`, `stored` the T rows,
`cache` the three maps under `ancestryCacheGeneration_`.  A session that opens
the database sets the stored parents one by one (`OpenDatabase`).
`DeclareParent` is a class statement, which asks the lineage first;
`PublishFact` a fact statement, which stores the edge first, so that an error
that is caught leaves it stored; `EndBatch` clears the caches at the end of a
batch of statements that has written.  `Ancestors`
is the least set closed under parents; `MCLineage` compares it, for every
lineage of its types, with the walk the code makes.

*RelationalRules, Tabling.*  `LoadFacts`, `PassStrata` and `Round` are the
loops of `buildTableEvaluation`: over the names, over the dependencies of all
rules, over the rules of a stratum with their pivots.  Numbers of answers and of proofs are positions.  `tables`
is `tableCache_`, whose entries are valid while the generations noted in them
are.  `InvalidateOrFail` is the end of a statement that writes facts: it clears
the tables when the statement has succeeded, and an error that a load catches
leaves them.  A contrary that has neither clauses nor facts may have a contract
or not; without one it is not looked up (`IsEmpty`).  `WellFoundedModel` is an alternating fixpoint, independent of strata,
rounds and deltas.  What a predicate depends on (`Reached`) and what extends a
type (`Compatible`) are least closed sets; `MCTabling` compares them, for every
set of its clauses, with walks along calls and pairs.

*ModuleLoading.*  A statement is a record of what loading depends on: what it
declares, what it evaluates, the syntax its text needs.  A file is streamed:
`ParseNext` with what is known by then, then `AddImport`, `AddStatement` or
`Evaluate`, which may open another file.  `roots` is what
`beginModuleTransaction` keeps, `saved` the kept copy.  `Fail` is an exception
out of any step, which ends every load up to a `try`, or all of them.
`signatures` is not among the roots, in the code neither.  A thread started
earlier shares the clause table (`shared`), so the next clause copies it.

## 4. Runs

| Run | Result | Shows |
|---|---|---|
| `transactions` | pass | the layer implements the atomic store; scans are exact |
| `fact_sessions` | pass | two sessions: indexes and links in step, ids never reused, designations given by another session stay |
| `fact_statements` | pass | one session, with designations, unusable values and caught errors: only the indexes are disturbed |
| `class_graph` | pass | one session that adds edges in and outside transactions, with refused writes and crashes |
| `threads` | pass | programs end when loads do not wait for threads |
| `schema` | pass | facts stay under the key of their type and have the fields of its schemas, also after declarations that failed; the next session restores the same contracts |
| `solver` | pass | programs end as their text means, every variable is bound once, nothing is left behind |
| `break_crosses_calls` | violated | a break in a called method ends a loop of its caller |
| `lineage` | pass | cached ancestries are those of the present lineage; common ancestors are the lowest; what one session declares can be opened again, if its loads catch no errors |
| `opposite_parents` | violated | two sessions store a cycle and the database cannot be opened |
| `reasoning` | pass | tables are the well-founded model, proofs explain, and answers from old and new tables are true when given, if loads catch no errors of statements |
| `loading` | pass | every unit is in effect whole or not at all; loads end; lookups are current |

The violated runs are behaviours of the code that a document, a comment or a
message of the code speaks against; `findings` in `PROJECT.json` quotes the line.

### Behaviours behind constants

The passing runs leave out behaviours of the code that break a property, each
behind a constant or an instance.  TLC shows each of them when the run is
changed as said here.

| Change | Then fails | What the code does |
|---|---|---|
| `fact_statements` with `Indexes` | `Indexes` | a statement caught in a load by a `try` leaves half its work; the load commits it |
| `fact_sessions` with `UpdatesOneField` | itself | an update writes back the other fields it read before its transaction |
| `fact_sessions` with `Attached` | `Attached` | `publishLink` resolves its endpoints before its transaction, another session deletes one |
| `class_graph` with two sessions, both `Standalone` | `EdgesPersist` | outside transactions two sessions allocate one edge id; the theorems assume `OneWriter` |
| `threads` with `JoinsInLoad = TRUE` | `ProgramEnds` | a load waits for a thread that waits for the mutex of the load |
| `schema` with `LateParents = TRUE` | `Reopenable`, `KeyedAsContracted`, `StoredFieldsPresent` | a class is promoted or keyed after another extends it; the next session computes another contract, or none |
| `schema` with `RejectedSync = TRUE` | `KeyedAsContracted` | a rejected `db.sync` takes back the contract but not the schema |
| `solver` with a method whose body is a break, called as a goal in a `switch` | `SingleAssignment` | the goals after the `switch` go on with the variables of the method (`Interpreter.cpp` 2655); the theorem assumes `BreakStaysInMethod` |
| `schema` with `\A t \in Type : \A f \in facts[t] : contract[t] # None => contract[t].fields \subseteq f.fields` | itself | a declaration that the stored facts do not fit is caught; its contract stays in memory, ahead of the schema and of the facts (1527 before 1540) |
| `lineage` with `CaughtInLoad = TRUE` | `OpensAgain` | a fact statement stores the edge to its parent with the fact (5137), before the lineage refuses it as a cycle (1964); a load that catches the error commits the edge, and the database cannot be opened again, although one session has declared everything |
| `reasoning` with `CaughtInLoad = TRUE` | `AnswersTrue` | `Fact.update` and `Fact.delete` clear the tables only when all rows have succeeded (6309, 6353); in a load that catches the error the rows before it stay, and the tables from before them are used |
| `reasoning` with `AskAfterWrite = TRUE` | `AnswersTrue` | inside a batch a call is answered from the table before the write |
| `loading` with `NothingHalfLoaded` | itself | a `try` catches the error of a package's load; the file counts as loaded with half its statements, although the comment at `Interpreter.cpp` 1621 says an error restores all roots |
| `loading` with `BoundOnce` | itself | `def g := pkg:q().` where the package binds the global `g`: the name is checked before the value loads the package |

What `ModuleLoading` shows besides: the arities a failed load has noted stay,
and may make a later call ambiguous (`IntegerParser.cpp` 1684); a package whose
load failed is not looked for again, as the attempt is noted before the
transaction; a fact under the name of a global goes to the clause table instead
of the store.

### Bounds, and why they are enough

* Two sessions: every interference is between the owner of the mutex and one
  other session; a third waits like the second.  One session where the property
  fails between two for a reason shown by a run of its own.
* Three keys in `transactions` let one scan meet a persisted, a replaced, a
  deleted and a staged record.  Two values tell old from new.
* Two records (`MaxNode`) and one link (`MaxLink`) give links between records,
  to the record itself and two-row statements; ids run out, so the error of an
  exhausted sequence occurs, and an id can be tried again after a deletion or a
  rollback.  Two field values make keys collide and records move; the third,
  structured one cannot be a key or be indexed.
* Three edge ids for two classes and two labels (eight different edges).
* `solver`: all programs of one or two goals out of sixteen, alone, under a
  pattern with two answers, in each loop, switch and handler, and as two rules,
  or a rule and a method, of one name.  Frames are limited at 7 for 256, nested
  methods at 2 for 8 and iterations at 3 for a million, so that each limit is
  met by some program.
* `schema`: one stored fact of each type (`MaxFacts`) is enough to be missing a
  field or to be under another key; the theorems are of any number.
* `lineage`: two types with the same two parents, of which one may extend the
  other, and an edge that would close a cycle; one session declares, the other
  opens the database at any time.
* `reasoning`: paths over three nodes with a cycle, two negations above them, a
  rule that would close a negative cycle, a method in the place of a predicate;
  two changes; two proofs kept for sixteen.
* `loading`: three or four contents for each of four units, chosen to meet a
  cycle of imports, a missing file, a directory, a package found by a call, a
  second arity, syntax used before and after its import, a name used twice, a
  malformed end.  One edit is a failed load that is corrected.
* Two threads, so that they are siblings or nested; three statements for each
  interpreter suffice to load, write in the load and wait for a thread.
* One type that extends nothing and one that may extend it, two fields: enough
  for a field inherited twice, a key that is inherited, declared or taken from
  the first field, open and closed shapes.  Restarts and loads are unbounded.

Deadlock is checked everywhere but in the run of `ThreadTasks`, where the
program ends.

### Fairness

`ThreadTasks`: weak fairness of each interpreter's next step and of
each thread's start.  The operating system runs every thread that can run.
`std::mutex` promises no order among waiting threads and none is assumed;
programs are finite, so a thread that waits for the mutex finds it free in the
end if it is always given back.  `GoalSolver`: weak fairness of the next step
of the computation, which is a loop on one thread that nothing else delays.
`ModuleLoading`: weak fairness of the step of a load, for the same
reason; nothing obliges a user to load, ask or edit.  The other modules state
safety only.

## 5. Proofs

Checked by TLAPS, for all values of the constants under the named assumptions.

* `BatchStoreProofs`.  The invariant is types and `LockDiscipline`: a session in
  a transaction owns the mutex, one without has nothing staged.  With it a step
  of one session cannot change what another open transaction reads, which gives
  the action property and each step of the refinement.  `ScanExact` holds for any
  finite set of keys: the two passes visit disjoint sets
  (`ScanPassesPartitionTheView`), so their counts add up to the view's, and a
  limit that stops the second pass has been reached exactly.
* `FactStoreProofs`.  First, without sessions: every operation on tables that
  agree has a result that agrees.  `Identities` is not inductive alone: `DeleteFact` finds a
  record's entries through its key and id, and an insertion is right only if the
  next id has never been used.  The invariant is that both tables are sound
  (identities, metadata, designations and adjacency together), that the working
  tables have grown from the committed ones as far as ids go, that without a
  transaction they are equal, and that a running statement owns the transaction.
  `IndexesHold` assumes that no load catches errors (`~CaughtInLoad`): the
  indexes of the working tables are off between the steps of one row, and the
  argument is that no such state is ever committed.
  `DesignationsStayHold` is of any number of sessions: a replacement starts from
  the row as stored and not as it was read, and the tables a transaction works on
  have grown from the committed ones in this respect too.
  `AttachedHolds` assumes `OneSession`, as two sessions break it (section 4).
  Its invariant is that what a statement or a link in progress has read still
  holds in the tables its session reads, for the rows it has yet to process, none
  of which is listed twice: only the statement itself can disturb what a lone
  session has read.
* `ClassGraphProofs`.  Assumes that edges are added in transactions only, or by
  a single session (`OneWriter`).  The invariant adds to the agreement of the
  copies that what a session remembers of the sequence is not behind what the
  tables it reads say (it is ahead when RocksDB has refused the advanced
  sequence), that all stored ids are below it, and that an edge waiting for its
  rows is new.
* `SchemaContractProofs`.  Assumes `OrderedProgram`: no type becomes something
  after its subclass, and no rejected source holds the first facts of a type
  (section 4 says what happens otherwise).  Loads may catch errors.  The invariant
  is about the contracts that `openDatabase` would compute from the stored
  schemas: they exist, the facts agree with them, and the contract in memory
  covers them, with the same key and at least their fields.  It is not equal to
  them after a declaration that failed and was caught.  The classes of stored
  schemas are the session's, a base class has no parents, and the same holds of
  what a load goes back to.
  `RestoredUnique` is the lemma it rests on: the contracts of a database are the
  one assignment that agrees with itself, so a change of one type is right if it
  leaves the contracts of all parents alone.
* `ModuleLoadingProofs`.  For finitely many files.  The invariant is that the
  units of the stack differ, that a text is the first of them, that every file
  in it is marked as loaded, and that what was looked up is what the clause
  table says.  A file is opened only when it is not marked, and marked with the
  same step; a statement changes the clauses of its own name only.
  `WholeFiles` needs an account of every unit: the statements of a load that are
  done are in effect in one place each, those to come are nowhere, an import done
  has its file loaded and an import in progress has it loaded or on the stack; a
  unit that is taken in and not on the stack is complete, unless an error has
  abandoned it.  The same holds of the roots a rollback goes back to, with an
  empty stack.  `ContentAssumption` says what the contents of files are:
  sequences of declarations, of which only callables, globals and entries
  evaluate anything, as a class is checked and registered in one step.
* `LineageProofs`.  Assumes `TypeAssumption`, that types are finitely many, and
  for what relates the session to the database `OneDeclarer` and, for
  `OpensAgain`, that loads catch no errors; the run `opposite_parents` and the
  table of section 4 show that both are needed.  The invariant is that the parents
  have no cycle, that a cached ancestry noted under the present generation is the
  ancestry now, that the named common ancestor is a least one, and that the
  declaring session has every stored edge.  The cache needs the generation to
  change with every edge and the caches to be dropped by a rollback, which brings
  generations back.  `OpensAgain` needs that the one that declares has seen
  all that is stored, so that its own check for a cycle covers it.
* `TablingProofs`.  Assumes that clauses are finitely many with bodies of finitely
  many goals, that values, facts and pairs of types are finitely many, that a
  session starts with a program that has been validated, and that clauses and
  facts name every field of a predicate, with every variable bound before it is
  negated, compared, read or answered (`ClauseAssumption`, `DataAssumption`,
  `ProgramAssumption`, `SafetyAssumption`).  The invariant is that the program, and the one a
  rollback brings back, is stratified, and of an evaluation under way: its rules
  are over its names, its tables hold answers with proofs it has, its strata are
  below the least solution `l` of what the goals require, after `k` passes with
  `k` of them at their value in `l`, and its rounds are at most the answers
  derived by a rule first and the strata done.  There is an `l` because the
  number of predicates each one reaches is a solution, which is where
  `validateNegationStratification` comes in: across a negation the number falls,
  among all rules, of which tables take some.
  A pass that changes anything brings one more predicate to its value
  in `l`.  An answer keeps its first proof, so an
  answer derived once is counted for good, though facts and rules may prove the
  same answer.

  `TablesExactHolds` goes from the model's two loops to the two fixpoints of
  `WellFoundedModel`.  A function that grows a set until nothing follows returns
  the least closed set (`GrowsToClosure`), so the model is what may be derived
  when what may not be false is derived from it (`MeaningIs`); in strata these
  two agree (`DecidedInStrata`).  The bindings of a rule are the environments
  that meet its goals (`BindingsEnvs`), so a round proves what its rules yield
  with a new answer at some pivot (`RuleProves`, `RoundProves`).  The invariant
  (`Rising`) is that the answers are all that is meant of the strata below the
  current one and nothing that is not meant, that in the first round of a stratum
  all its answers are new, and that in a later round the rules yield nothing
  from answers that are not new which is not an answer: this is what makes pivots
  enough.  A round without a new answer leaves a closed stratum, which has all
  that is meant of it (`StratumMeant`).

  `ExplainedHolds` rests on the order of proofs.  A proof names parents with lower
  numbers only, and it is by a stored fact, or by a rule that yields its atom from
  what the parents are of when what is not true is denied (`ProofsFollow`, which
  `BindingsSupported` gives for a round); the proofs of an answer are of its atom
  (`Proven`).  What a proof says never changes: an answer that is given more
  proofs only lists more numbers (`WithProofsProven`).  `FactsUnder` takes all that
  is below a proof (`UnderIs`), so by going through the proofs in order each atom
  is derived from the facts under it (`FollowsFromFacts`).

  `AnswersTrueHolds` assumes that nothing is asked inside a batch that has
  written (`AskAfterWrite = FALSE`) and that loads catch no errors of statements
  (`CaughtInLoad = FALSE`); section 4 says what happens otherwise.  Its
  invariant is that outside such a batch every kept table whose generations are
  the present ones is exact and in strata (`CacheGood`), that no kept generation
  is later than the present one, which is why a change makes a table stale for
  good until a rollback clears it, that an evaluation is of the present, and that
  what was found for the positive side is still true while the contrary is
  looked up (`AnswerGood`).  A clause that leaves a table valid has its head
  outside the table's names, and the meaning of those depends on their own
  clauses and facts only (`MeaningLocal`).
* `InterpreterProofs`, first of `ThreadTasks`.  The invariant adds that the mutex
  is held from one step to the next by module loads only.
  Then of `GoalSolver`.  `RestoredHolds` is of any programs and records, whatever
  unification, renaming and the values of terms are: these are parameters of
  `GoalSolver`, about which nothing is assumed (of the stored records, that they
  are sequences).  The machine has no types in the usual sense, as goals are whatever a program holds; the invariant (`Good`) says
  instead what waits for what.  An activation is in the stack for a reason, and the
  reason fits the goal its caller has on top (`Placed`); a method, a call or a loop
  that goes on finds the activation it belongs to on top again (`Fits`), or the
  empty stack when the program's entry called it.  Trails belong to
  activations that are in the stack, the inner ones first (`Ordered`), and a
  comparison that waits for a value has its own (`Waits`), so it never gives up
  that of another, and leaving an activation leaves the trails of outer ones only.
  An activation notes what was being negated when it was entered, and the
  outermost one has noted nothing (`FoundOutside`).  A program ends with an empty
  stack, on which nothing of either kind is possible.
  `SingleAssignmentHolds` is of any programs as well, under two assumptions it
  states.  `UnificationExtends`: what is unified in the next step, a comparison, a
  head, a row, or what a method answers, binds the unbound and changes nothing
  else, and a failed comparison takes back what it bound.  Unification is recursive
  on terms, out of the prover's reach; `MCGoalSolver` has TLC evaluate the same
  (`TermExtends`, `EachExtends`, `CallExtends`) for small terms, calls and
  environments with chains of variables (`UnifyExtends`, `AlternativesExtend`).
  `BreakStaysInMethod`, which the finding of run `break_crosses_calls` violates:
  a break that leaves a method and ends a switch of its caller has the goals after
  that switch go on with the method's variables, so the assumption is needed.  The
  inductive invariant (`Firm`, with `Good`) says what each activation may do with
  the environment it works on: one of a switch, try, handler or negation, and what
  a scan opens in it, extends that of the frame below it (`Above`); what a call has
  found so far, and what a loop or a clause goes on with, extends that of the goal
  (`Suits`, `Calls`); and an assignment that waits for its value has a variable
  nothing binds (`Assignable`).

### Only model-checked

`Halts`, `ProgramEnds` and `Completes`: liveness is out of the prover's reach.
`GoalSolver`: `AsMeant` compares with a reference that is recursive on its data.
All other properties of the passing runs are theorems.

## 6. Not modelled

The components without a module in `PROJECT.json` give the reason.  Within the
modelled ones: values are members of small sets, so encodings of keys and
records, comparison of data and validation against a class are left out (in
`FactStore` the contract of a class is a parameter: `KeyField`, `Indexed`); record versions and
statistics are left out, as no operation reads them.  `Lineage` leaves out the
facts that are propagated along the lineage, `Tabling` aggregates over proofs,
the text of explanations, rules with a variable that is negated, compared or
answered before it is bound (the code drops their answers that are not ground), and the writes of other sessions, which do not
reach the generations its caches are checked by.  `ModuleLoading` leaves out
class methods, native declarations, the check of facts against a schema and the
visibility of operators; a method's purity is given, so the walk that decides it
(`isMethodTransitivelyPure`) and `exprMayHaveSideEffects` are not checked.  The
id sequence is 64 bits wide; its end is the bound `MaxNode`.  The grammar
(`IntegerParser.cpp`, `Tokenizer.cpp`) is a function of a text, and large; only
what it reads of the session's state is modelled.  The file system, RocksDB
and the C++ library are taken to do what their interfaces promise, and a
refused write is a possible outcome of every commit.
