---------------------------- MODULE SchemaContract ----------------------------
(***************************************************************************)
(* How the facts of a type are keyed and shaped: the contract a session    *)
(* has in memory, the schema in the database it comes from and goes to,    *)
(* and the stored facts (src/src/Interpreter.cpp).                         *)
(*                                                                         *)
(* A type without a class gets its contract from its first fact, a class   *)
(* from its declaration and from the contracts its parents have at that    *)
(* time; declaring a class for stored facts promotes them.  The schema of  *)
(* a class is its declaration, so a session that opens the database        *)
(* computes its contract anew.                                             *)
(*                                                                         *)
(* One session.  A fact is the set of its fields and the field it is keyed *)
(* by; facts that agree in both are one, so a delete may leave another.    *)
(* A class inherits at most from classes or types that inherit nothing.    *)
(* No write is refused by the disk: what an error takes back is the        *)
(* subject of FactStore.  A package that a load loads has no transaction   *)
(* of its own, so a try around it keeps what a failing declaration has     *)
(* already changed (RefuseClass).                                          *)
(***************************************************************************)
EXTENDS Integers, FiniteSets

CONSTANTS Base,           \* types that extend nothing
          Derived,        \* types whose class may extend base types
          Field,
          None,           \* no contract, no class, no schema
          NoField,        \* no key
          NoLoad,         \* no module is being loaded
          LateParents,    \* a type may become something after its subclass
          RejectedSync,   \* db.sync may reject the first facts of a type
          CaughtInLoad,   \* a load may catch the error of a declaration
          MaxFacts        \* bound: stored facts of a type

Type == Base \cup Derived
Shape == (SUBSET Field) \ {{}}

\* A stored fact.
Fact == {f \in [fields : Shape, by : Field] : f.by \in f.fields}

\* A class: its own fields, the first of them or the field in its key clause.
ClassStmt ==
    {d \in [own : SUBSET Field, lead : Field \cup {NoField},
            keyed : BOOLEAN, parents : SUBSET Base] :
        IF d.own = {} THEN d.lead = NoField /\ ~d.keyed ELSE d.lead \in d.own}

FactTypeContract == [declaredClass : BOOLEAN, openShape : BOOLEAN,
                     fields : SUBSET Field, key : Field \cup {NoField}]

ASSUME TypeAssumption == Base \cap Derived = {}
ASSUME FieldAssumption == NoField \notin Field
ASSUME SentinelAssumption ==
    /\ None \notin Field \cup ClassStmt \cup FactTypeContract
    /\ Field \cap ClassStmt = {}
ASSUME ProgramAssumption ==
    /\ LateParents \in BOOLEAN
    /\ RejectedSync \in BOOLEAN
    /\ CaughtInLoad \in BOOLEAN
ASSUME BoundAssumption == MaxFacts \in Nat

VARIABLES schema,       \* S rows: nothing, the key of a schemaless type, a class
          facts,        \* N rows of each type
          contract,     \* factTypeContracts_
          classes,      \* classDefinitions_
          unclaimed,    \* persistedClassSchemas_: restored, not yet declared
          before        \* what a rollback of the module load returns to

vars == <<schema, facts, contract, classes, unclaimed, before>>

Roots == [schema |-> schema, facts |-> facts, contract |-> contract,
          classes |-> classes, unclaimed |-> unclaimed]

\* What the database holds: a load has committed nothing yet.
Stored == IF before = NoLoad THEN Roots ELSE before

------------------------------------------------------------------------------
(* Contracts *)

Schemaless(key) == [declaredClass |-> FALSE, openShape |-> FALSE,
                    fields |-> {}, key |-> key]

\* The contracts among con that class d inherits.
Inherited(d, con) == {con[p] : p \in d.parents} \ {None}
InheritedFields(d, con) == UNION {c.fields : c \in Inherited(d, con)}
InheritedKeys(d, con) == {c.key : c \in Inherited(d, con)} \ {NoField}

\* A key clause goes before the key of the parents, which goes before the
\* first field.
Keys(d, con) ==
    IF d.keyed \/ InheritedKeys(d, con) = {} THEN {d.lead}
    ELSE InheritedKeys(d, con)

\* No field twice, no two keys.
WellFormed(d, con) ==
    /\ d.own \cap InheritedFields(d, con) = {}
    /\ \A p, q \in d.parents : p # q /\ None \notin {con[p], con[q]} =>
          con[p].fields \cap con[q].fields = {}
    /\ Cardinality(Keys(d, con)) = 1

ContractOf(d, con) ==
    [declaredClass |-> TRUE,
     openShape |-> \E c \in Inherited(d, con) : ~c.declaredClass \/ c.openShape,
     fields |-> InheritedFields(d, con) \cup d.own,
     key |-> CHOOSE k \in Keys(d, con) : TRUE]

\* Faulty variant: a class may key its stored facts anew.
CompatibleShape(old, new) ==
    old # None => (old.declaredClass => old.fields = new.fields)

\* registerClassContract: a class keeps the shape it had and the key its type
\* had.
Compatible(old, new) ==
    old # None => /\ old.declaredClass => old.fields = new.fields
                  /\ old.key # NoField => old.key = new.key

\* The contract under which validateFactWrite takes a fact of type t: a type
\* without one gets it from the first field of the fact.
Contracts(t) ==
    IF contract[t] = None THEN {Schemaless(x) : x \in Field} ELSE {contract[t]}

\* A contract that is no class is registered as the schema of its type.
RegisterSchema(t, con) ==
    IF ~con.declaredClass /\ schema[t] = None
    THEN [schema EXCEPT ![t] = con.key] ELSE schema

\* validateFactWrite and factKey accept a fact with these fields.
Fits(fields, con) ==
    /\ con.key \in fields
    /\ con.fields \subseteq fields
    /\ con.declaredClass /\ ~con.openShape => fields = con.fields

\* The programs considered do not give a base type a contract, or another one,
\* once a class extends it.
MayBecome(t, con) ==
    \/ LateParents
    \/ con = contract[t]
    \/ \A d \in {classes[u] : u \in Derived} \ {None} : t \notin d.parents

------------------------------------------------------------------------------
(* Opening the database *)

NoContracts == [t \in Type |-> None]

RestoredFrom(s, con) ==
    IF s = None THEN None
    ELSE IF s \in Field THEN Schemaless(s) ELSE ContractOf(s, con)

RestoredBase(sch) == [t \in Base |-> RestoredFrom(sch[t], NoContracts)]

\* The contracts that openDatabase computes, the parents' first.
Restored(sch) ==
    [t \in Type |-> IF t \in Base THEN RestoredBase(sch)[t]
                    ELSE RestoredFrom(sch[t], RestoredBase(sch))]

\* openDatabase throws nothing.
Restorable(sch) ==
    \A t \in Type : sch[t] \in ClassStmt => WellFormed(sch[t], RestoredBase(sch))

Init ==
    /\ schema = [t \in Type |-> None]
    /\ facts = [t \in Type |-> {}]
    /\ contract = [t \in Type |-> None]
    /\ classes = [t \in Type |-> None]
    /\ unclaimed = {}
    /\ before = NoLoad

\* The process ends, in good order or not, and the database is opened again.
OpenDatabase ==
    LET sch == Stored.schema
        declared == {t \in Type : sch[t] \in ClassStmt}
    IN  /\ Restorable(sch)
        /\ schema' = sch
        /\ facts' = Stored.facts
        /\ contract' = Restored(sch)
        /\ classes' = [t \in Type |-> IF t \in declared THEN sch[t] ELSE None]
        /\ unclaimed' = declared
        /\ before' = NoLoad

------------------------------------------------------------------------------
(* Module loads *)

BeginModule ==
    /\ before = NoLoad
    /\ before' = Roots
    /\ UNCHANGED <<schema, facts, contract, classes, unclaimed>>

CommitModule ==
    /\ before # NoLoad
    /\ before' = NoLoad
    /\ UNCHANGED <<schema, facts, contract, classes, unclaimed>>

\* Faulty variant: the contracts of the load stay.
RollbackModuleKeepingContracts ==
    /\ before # NoLoad
    /\ schema' = before.schema
    /\ facts' = before.facts
    /\ classes' = before.classes
    /\ unclaimed' = before.unclaimed
    /\ before' = NoLoad
    /\ UNCHANGED contract

\* An error that leaves the load, one of a declaration included.
RollbackModule ==
    /\ before # NoLoad
    /\ schema' = before.schema
    /\ facts' = before.facts
    /\ contract' = before.contract
    /\ classes' = before.classes
    /\ unclaimed' = before.unclaimed
    /\ before' = NoLoad

------------------------------------------------------------------------------
(* Classes *)

\* Faulty variant: the stored facts are not looked at.
PromotableUnread(t, d) == TRUE

\* The stored facts of a type have every field of the class declared for it.
Promotable(t, d) ==
    LET declared == d.own \cup UNION {classes[p].own :
                        p \in {q \in d.parents : classes[q] # None}}
    IN  \A f \in facts[t] : declared \subseteq f.fields

\* A class that was restored from the database may be declared once, as it was.
MayRedeclare(t, d) == classes[t] # None => t \in unclaimed /\ classes[t] = d

\* Faulty variant: the shape the class inherits is not looked at.
MayContractAnyShape(t, d) == Compatible(contract[t], ContractOf(d, contract))

\* registerClassContract throws nothing.
MayContract(t, d) ==
    WellFormed(d, contract) /\ Compatible(contract[t], ContractOf(d, contract))

\* The schema of the class goes where there is none, where it is already, or
\* where the stored facts let their type become the class.
MayPromote(t, d) ==
    /\ schema[t] \in Field => Promotable(t, d)
    /\ schema[t] \in ClassStmt => schema[t] = d

DeclareClass(t, d) ==
    LET con == ContractOf(d, contract)
    IN  /\ before # NoLoad
        /\ t \in Base => d.parents = {}
        /\ MayRedeclare(t, d) /\ MayContract(t, d) /\ MayPromote(t, d)
        /\ MayBecome(t, con)
        /\ schema' = [schema EXCEPT ![t] = d]
        /\ contract' = [contract EXCEPT ![t] = con]
        /\ classes' = [classes EXCEPT ![t] = d]
        /\ unclaimed' = unclaimed \ {t}
        /\ UNCHANGED <<facts, before>>

\* A declaration that throws, and the load goes on.  One that differs from the
\* restored class uses up its turn; otherwise the class is noted before its
\* contract is computed, and both are before the stored facts are looked at.
RefuseClass(t, d) ==
    LET con == ContractOf(d, contract)
    IN  /\ CaughtInLoad
        /\ before # NoLoad
        /\ t \in Base => d.parents = {}
        /\ unclaimed' = unclaimed \ {t}
        /\ \/ /\ t \in unclaimed /\ classes[t] # d
              /\ UNCHANGED <<classes, contract>>
           \/ /\ MayRedeclare(t, d) /\ ~MayContract(t, d)
              /\ classes' = [classes EXCEPT ![t] = d]
              /\ UNCHANGED contract
           \/ /\ MayRedeclare(t, d) /\ MayContract(t, d) /\ ~MayPromote(t, d)
              /\ MayBecome(t, con)
              /\ classes' = [classes EXCEPT ![t] = d]
              /\ contract' = [contract EXCEPT ![t] = con]
        /\ UNCHANGED <<schema, facts, before>>

------------------------------------------------------------------------------
(* Facts *)

Keyed(shapes, con) == {[fields |-> s, by |-> con.key] : s \in shapes}

\* validateFactWrite and publishFact.  Whatever becomes of the fact, contract
\* and schema stay.
Insert(t, con, fields) ==
    /\ MayBecome(t, con)
    /\ contract' = [contract EXCEPT ![t] = con]
    /\ schema' = RegisterSchema(t, con)
    /\ \/ UNCHANGED facts
       \/ /\ Fits(fields, con)
          /\ facts' = [facts EXCEPT ![t] = @ \cup Keyed({fields}, con)]
    /\ UNCHANGED <<classes, unclaimed, before>>

\* Fact.update adds field x to a fact and stores it under its key of now.
Update(t, f, x) ==
    LET next == f.fields \cup {x}
        con == contract[t]
    IN  /\ f \in facts[t]
        /\ con # None
        /\ Fits(next, con)
        /\ \E others \in {facts[t], facts[t] \ {f}} :
              facts' = [facts EXCEPT ![t] =
                          others \cup {[fields |-> next, by |-> con.key]}]
        /\ UNCHANGED <<schema, contract, classes, unclaimed, before>>

Delete(t, f) ==
    /\ f \in facts[t]
    /\ facts' = [facts EXCEPT ![t] = @ \ {f}]
    /\ UNCHANGED <<schema, contract, classes, unclaimed, before>>

\* db.sync of a source whose facts have these shapes: they replace the facts
\* that came from it before (gone).
SyncFactSource(t, con, shapes, gone) ==
    /\ \A s \in shapes : Fits(s, con)
    /\ MayBecome(t, con)
    /\ contract' = [contract EXCEPT ![t] = con]
    /\ schema' = RegisterSchema(t, con)
    /\ facts' = [facts EXCEPT ![t] = (@ \ gone) \cup Keyed(shapes, con)]
    /\ UNCHANGED <<classes, unclaimed, before>>

\* A source that is rejected: the contracts return to what they were, the
\* schema its first fact has registered does not.  Nor do the facts written
\* before the error (shapes) in a load that catches it.
RejectFactSource(t, con, shapes, gone) ==
    /\ RejectedSync \/ contract[t] # None
    /\ MayBecome(t, con)
    /\ schema' = RegisterSchema(t, con)
    /\ \/ UNCHANGED facts
       \/ /\ before # NoLoad
          /\ \A s \in shapes : Fits(s, con)
          /\ facts' = [facts EXCEPT ![t] = (@ \ gone) \cup Keyed(shapes, con)]
    /\ UNCHANGED <<contract, classes, unclaimed, before>>

------------------------------------------------------------------------------

Write(t) ==
    /\ \/ \E con \in Contracts(t), fields \in Shape : Insert(t, con, fields)
       \/ \E f \in facts[t] : Delete(t, f) \/ \E x \in Field : Update(t, f, x)
       \/ \E con \in Contracts(t), shapes \in SUBSET Shape, gone \in SUBSET facts[t] :
             \/ shapes # {} /\ SyncFactSource(t, con, shapes, gone)
             \/ RejectFactSource(t, con, shapes, gone)
    /\ Cardinality(facts'[t]) <= MaxFacts

Next ==
    \/ OpenDatabase
    \/ BeginModule \/ CommitModule \/ RollbackModule
    \/ \E t \in Type :
          Write(t) \/ \E d \in ClassStmt : DeclareClass(t, d) \/ RefuseClass(t, d)

Spec == Init /\ [][Next]_vars

------------------------------------------------------------------------------
(* Properties *)

\* Every variable has its type.
TypeOK ==
    LET OptionalContract == FactTypeContract \cup {None}
        Root == [schema : [Type -> Field \cup ClassStmt \cup {None}],
                 facts : [Type -> SUBSET Fact],
                 contract : [Type -> OptionalContract],
                 classes : [Type -> ClassStmt \cup {None}],
                 unclaimed : SUBSET Type]
    IN  Roots \in Root /\ Stored \in Root

\* A stored fact is found under the field its session's contract calls the
\* key, also after the database is opened again.  Code: factKey, on which
\* inserts, updates, seeds and Link endpoints rely, and registerClassContract,
\* "changes its already persisted primary key".
KeyedAsContracted ==
    \A t \in Type : \A f \in facts[t] :
        contract[t] # None /\ f.by = contract[t].key

\* A fact has every field that the schemas written so far give its type, those
\* of its parents included, however many declarations have failed and been
\* caught on the way.  The contract in memory is ahead of these schemas after
\* such a failure.  Code: the promotion in addProgram, validateFactWrite.
StoredFieldsPresent ==
    \A t \in Type : Restored(schema)[t] # None =>
        \A f \in facts[t] : Restored(schema)[t].fields \subseteq f.fields

\* The schemas in the database can be restored by the next session: no class in
\* it inherits a field twice or two keys.  Code: openDatabase, "restores classes,
\* contracts and the type hierarchy", and the errors of registerClassContract.
Reopenable == Restorable(Stored.schema)

\* The key a session would restore for a type never changes.  Code:
\* registerSchema ("immutable database schema"), promoteSchemalessSchema.
KeysAreFinal ==
    [][LET old == Restored(Stored.schema)
           new == Restored(Stored'.schema)
       IN  Stored'.schema # Stored.schema =>
              \A t \in Type : old[t] # None => new[t] # None /\
                 (old[t].key # NoField => new[t].key = old[t].key)]_vars
==============================================================================
