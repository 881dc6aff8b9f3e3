------------------------- MODULE SchemaContractProofs -------------------------
(***************************************************************************)
(* Results about SchemaContract for any types and fields, as long as no    *)
(* type becomes something after its subclass and no first fact of a type   *)
(* comes from a rejected source: a stored fact is keyed and shaped as the  *)
(* stored schemas say, and what is stored can be opened again.  What the   *)
(* session has in memory may be ahead of the stored schemas, where a load  *)
(* has caught the error of a declaration, but has the same keys.           *)
(***************************************************************************)
EXTENDS SchemaContract, FiniteSetTheorems, TLAPS

OrderedProgram == LateParents = FALSE /\ RejectedSync = FALSE

Schema == Field \cup ClassStmt \cup {None}

BaseClasses(sch) ==
    \A t \in Base : sch[t] \in ClassStmt => sch[t].parents = {}

\* A contract in memory and the one that is restored: the same key, and no
\* restored field is missing.
Covers(c, r) ==
    /\ c = None <=> r = None
    /\ c # None => c.key = r.key /\ r.fields \subseteq c.fields

\* What a session has in memory covers what it would restore from the schemas.
SoundRoots(sch, con, cls, unc) ==
    /\ sch \in [Type -> Schema]
    /\ con \in [Type -> FactTypeContract \cup {None}]
    /\ cls \in [Type -> ClassStmt \cup {None}]
    /\ \A t \in Type : /\ Covers(con[t], Restored(sch)[t])
                       /\ sch[t] \in ClassStmt => cls[t] = sch[t]
                       /\ con[t] # None /\ con[t].declaredClass => cls[t] # None
    /\ \A t \in unc : t \in Type => sch[t] \in ClassStmt
    /\ BaseClasses(sch)
    /\ Restorable(sch)

\* The facts are as the stored schemas say.
SoundFacts(fs, sch) ==
    /\ fs \in [Type -> SUBSET Fact]
    /\ \A t \in Type : \A f \in fs[t] :
          LET r == Restored(sch)[t]
          IN  r # None /\ f.by = r.key /\ r.fields \subseteq f.fields

\* A contract stays, and so does its key.
KeyKept(old, new) ==
    old # None => new # None /\ (old.key # NoField => new.key = old.key)

\* No step changes a key that the next session would restore.
KeysStep ==
    \A t \in Type : KeyKept(Restored(Stored.schema)[t], Restored(Stored'.schema)[t])

IInv ==
    /\ SoundRoots(schema, contract, classes, unclaimed) /\ SoundFacts(facts, schema)
    /\ before # NoLoad =>
          /\ SoundRoots(before.schema, before.contract, before.classes, before.unclaimed)
          /\ SoundFacts(before.facts, before.schema)
          /\ \A t \in Type :
                KeyKept(Restored(before.schema)[t], Restored(schema)[t])
-----------------------------------------------------------------------------
(* Contracts are computed from those of the parents.                       *)

LEMMA ContractAgrees ==
  ASSUME NEW d \in ClassStmt, NEW c1, NEW c2, \A p \in d.parents : c1[p] = c2[p]
  PROVE  ContractOf(d, c1) = ContractOf(d, c2) /\ (WellFormed(d, c1) <=> WellFormed(d, c2))
<1>1. Inherited(d, c1) = Inherited(d, c2)
  BY DEF Inherited
<1>2. /\ InheritedFields(d, c1) = InheritedFields(d, c2)
      /\ InheritedKeys(d, c1) = InheritedKeys(d, c2)
  BY <1>1, Zenon DEF InheritedFields, InheritedKeys
<1>3. Keys(d, c1) = Keys(d, c2)
  BY <1>2, Zenon DEF Keys
<1>4. ContractOf(d, c1) = ContractOf(d, c2)
  BY <1>1, <1>2, <1>3, Zenon DEF ContractOf
<1>5. WellFormed(d, c1) <=> WellFormed(d, c2)
  BY <1>2, <1>3 DEF WellFormed
<1> QED
  BY <1>4, <1>5

LEMMA ContractTyped ==
  ASSUME NEW d \in ClassStmt, NEW con,
         \A p \in d.parents : con[p] \in FactTypeContract \cup {None}
  PROVE  ContractOf(d, con) \in FactTypeContract
<1>1. d.own \subseteq Field /\ d.lead \in Field \cup {NoField}
  BY DEF ClassStmt
<1>2. Inherited(d, con) \subseteq FactTypeContract
  BY DEF Inherited
<1>3. \A c \in FactTypeContract : c.fields \subseteq Field /\ c.key \in Field \cup {NoField}
  BY DEF FactTypeContract
<1>4. InheritedFields(d, con) \subseteq Field /\ InheritedKeys(d, con) \subseteq Field
  BY <1>2, <1>3 DEF InheritedFields, InheritedKeys
<1>5. Keys(d, con) # {} /\ Keys(d, con) \subseteq Field \cup {NoField}
  BY <1>1, <1>4 DEF Keys
<1> DEFINE key == CHOOSE k \in Keys(d, con) : TRUE
           open == \E c \in Inherited(d, con) : ~c.declaredClass \/ c.openShape
           fields == InheritedFields(d, con) \cup d.own
<1>6. key \in Field \cup {NoField}
  BY <1>5
<1>7. fields \in SUBSET Field
  BY <1>1, <1>4
<1>8. open \in BOOLEAN
  OBVIOUS
<1>9. ContractOf(d, con) =
        [declaredClass |-> TRUE, openShape |-> open, fields |-> fields, key |-> key]
  BY Zenon DEF ContractOf
<1> HIDE DEF key, open, fields
<1> QED
  BY <1>6, <1>7, <1>8, <1>9 DEF FactTypeContract

\* Parents that are covered give a class that is covered.
LEMMA ContractCovers ==
  ASSUME NEW d \in ClassStmt, NEW c1, NEW c2,
         \A p \in d.parents : /\ c1[p] \in FactTypeContract \cup {None}
                             /\ c2[p] \in FactTypeContract \cup {None}
                             /\ Covers(c1[p], c2[p])
  PROVE  /\ Covers(ContractOf(d, c1), ContractOf(d, c2))
         /\ WellFormed(d, c1) => WellFormed(d, c2)
<1>1. InheritedFields(d, c2) \subseteq InheritedFields(d, c1)
  BY DEF InheritedFields, Inherited, Covers
<1>2. InheritedKeys(d, c1) = InheritedKeys(d, c2)
  <2>1. \A k : k \in InheritedKeys(d, c1) <=> k \in InheritedKeys(d, c2)
    BY DEF InheritedKeys, Inherited, Covers
  <2> QED
    BY <2>1
<1>3. Keys(d, c1) = Keys(d, c2)
  BY <1>2, Zenon DEF Keys
<1>4. ContractOf(d, c1) # None /\ ContractOf(d, c2) # None
  BY ContractTyped, SentinelAssumption
<1>5. ContractOf(d, c1).key = ContractOf(d, c2).key
  <2>1. /\ ContractOf(d, c1).key = CHOOSE k \in Keys(d, c1) : TRUE
        /\ ContractOf(d, c2).key = CHOOSE k \in Keys(d, c2) : TRUE
    BY DEF ContractOf
  <2> QED
    BY <1>3, <2>1, Zenon
<1>6. ContractOf(d, c2).fields \subseteq ContractOf(d, c1).fields
  BY <1>1 DEF ContractOf
<1>7. WellFormed(d, c1) => WellFormed(d, c2)
  <2> SUFFICES ASSUME WellFormed(d, c1) PROVE WellFormed(d, c2)
    OBVIOUS
  <2>1. d.own \cap InheritedFields(d, c2) = {}
    BY <1>1 DEF WellFormed
  <2>2. ASSUME NEW p \in d.parents, NEW q \in d.parents, p # q, None \notin {c2[p], c2[q]}
        PROVE  c2[p].fields \cap c2[q].fields = {}
    <3>1. /\ c1[p] # None /\ c2[p].fields \subseteq c1[p].fields
          /\ c1[q] # None /\ c2[q].fields \subseteq c1[q].fields
      BY <2>2 DEF Covers
    <3>2. c1[p].fields \cap c1[q].fields = {}
      BY <2>2, <3>1 DEF WellFormed
    <3> QED
      BY <3>1, <3>2
  <2>3. Cardinality(Keys(d, c2)) = 1
    BY <1>3 DEF WellFormed
  <2> QED
    BY <2>1, <2>2, <2>3 DEF WellFormed
<1> QED
  BY <1>4, <1>5, <1>6, <1>7 DEF Covers

LEMMA FromAgrees ==
  ASSUME NEW s \in Schema, NEW c1, NEW c2,
         s \in ClassStmt => \A p \in s.parents : c1[p] = c2[p]
  PROVE  RestoredFrom(s, c1) = RestoredFrom(s, c2)
<1>1. CASE s \in ClassStmt
  <2>1. ContractOf(s, c1) = ContractOf(s, c2)
    BY <1>1, ContractAgrees
  <2> QED
    BY <2>1, Zenon DEF RestoredFrom
<1>2. CASE s \notin ClassStmt
  BY <1>2 DEF RestoredFrom, Schema
<1> QED
  BY <1>1, <1>2

LEMMA FromCases ==
  ASSUME NEW s \in Schema, NEW con
  PROVE  /\ s = None => RestoredFrom(s, con) = None
         /\ s \in Field => RestoredFrom(s, con) = Schemaless(s)
         /\ s \in ClassStmt => RestoredFrom(s, con) = ContractOf(s, con)
BY SentinelAssumption, Zenon DEF RestoredFrom

LEMMA SchemalessTyped ==
  ASSUME NEW x \in Field
  PROVE  /\ Schemaless(x) \in FactTypeContract /\ Schemaless(x).key = x
         /\ Schemaless(x).fields = {} /\ Schemaless(x).declaredClass = FALSE
BY DEF Schemaless, FactTypeContract

LEMMA FromTyped ==
  ASSUME NEW s \in Schema, NEW con,
         \A p \in Base : con[p] \in FactTypeContract \cup {None}
  PROVE  RestoredFrom(s, con) \in FactTypeContract \cup {None}
<1>1. CASE s \in ClassStmt
  <2>1. s.parents \subseteq Base
    BY <1>1 DEF ClassStmt
  <2> QED
    BY <1>1, <2>1, FromCases, ContractTyped
<1>2. CASE s \in Field \cup {None}
  BY <1>2, FromCases, SchemalessTyped
<1> QED
  BY <1>1, <1>2 DEF Schema

LEMMA RestoredTyped ==
  ASSUME NEW sch \in [Type -> Schema]
  PROVE  /\ \A t \in Base : Restored(sch)[t] = RestoredBase(sch)[t]
         /\ Restored(sch) \in [Type -> FactTypeContract \cup {None}]
<1>1. \A t \in Base : RestoredBase(sch)[t] \in FactTypeContract \cup {None}
  <2>1. \A p \in Base : NoContracts[p] \in FactTypeContract \cup {None}
    BY DEF NoContracts, Type
  <2>2. \A t \in Base : RestoredFrom(sch[t], NoContracts) \in FactTypeContract \cup {None}
    BY <2>1, FromTyped DEF Type
  <2> QED
    BY <2>2 DEF RestoredBase
<1>2. \A t \in Type : RestoredFrom(sch[t], RestoredBase(sch)) \in FactTypeContract \cup {None}
  BY <1>1, FromTyped
<1> QED
  BY <1>1, <1>2 DEF Restored, Type

\* What is restored is the one assignment of contracts that agrees with itself.
LEMMA RestoredFixed ==
  ASSUME NEW sch \in [Type -> Schema], BaseClasses(sch), NEW t \in Type
  PROVE  Restored(sch)[t] = RestoredFrom(sch[t], Restored(sch))
<1> DEFINE con == Restored(sch)
           base == RestoredBase(sch)
<1>1. sch[t] \in Schema
  OBVIOUS
<1>2. CASE t \in Base
  <2>1. con[t] = RestoredFrom(sch[t], NoContracts)
    BY <1>2 DEF Restored, RestoredBase
  <2>2. sch[t] \in ClassStmt => sch[t].parents = {}
    BY <1>2 DEF BaseClasses
  <2> HIDE DEF con
  <2> QED
    BY <1>1, <2>1, <2>2, FromAgrees DEF con
<1>3. CASE t \notin Base
  <2>1. con[t] = RestoredFrom(sch[t], base)
    BY <1>3 DEF Restored
  <2>2. \A p \in Base : con[p] = base[p]
    BY RestoredTyped
  <2>3. sch[t] \in ClassStmt => sch[t].parents \subseteq Base
    BY DEF ClassStmt
  <2> HIDE DEF con, base
  <2> QED
    BY <1>1, <2>1, <2>2, <2>3, FromAgrees DEF con
<1> QED
  BY <1>2, <1>3

LEMMA RestoredUnique ==
  ASSUME NEW sch \in [Type -> Schema], BaseClasses(sch), NEW D, NEW con \in [Type -> D],
         \A t \in Type : con[t] = RestoredFrom(sch[t], con)
  PROVE  con = Restored(sch)
<1> DEFINE base == RestoredBase(sch)
<1>1. \A t \in Base : con[t] = base[t]
  <2> SUFFICES ASSUME NEW t \in Base PROVE con[t] = base[t]
    OBVIOUS
  <2>1. t \in Type /\ sch[t] \in Schema
    BY DEF Type
  <2>2. sch[t] \in ClassStmt => sch[t].parents = {}
    BY DEF BaseClasses
  <2>3. con[t] = RestoredFrom(sch[t], NoContracts)
    BY <2>1, <2>2, FromAgrees
  <2> QED
    BY <2>3 DEF RestoredBase
<1>2. \A t \in Type : t \notin Base => con[t] = RestoredFrom(sch[t], base)
  <2> SUFFICES ASSUME NEW t \in Type PROVE con[t] = RestoredFrom(sch[t], base)
    OBVIOUS
  <2>1. sch[t] \in Schema /\ (sch[t] \in ClassStmt => sch[t].parents \subseteq Base)
    BY DEF ClassStmt
  <2> HIDE DEF base
  <2> QED
    BY <1>1, <2>1, FromAgrees
<1> QED
  BY <1>1, <1>2 DEF Restored
-----------------------------------------------------------------------------
(* What is restored, and one change of the schemas.                        *)

LEMMA RestoredGives ==
  ASSUME NEW sch \in [Type -> Schema], BaseClasses(sch), Restorable(sch)
  PROVE  /\ Restored(sch) \in [Type -> FactTypeContract \cup {None}]
         /\ \A t \in Type : Restored(sch)[t] = RestoredFrom(sch[t], Restored(sch))
         /\ \A t \in Type : sch[t] \in ClassStmt => WellFormed(sch[t], Restored(sch))
<1>1. ASSUME NEW t \in Type, sch[t] \in ClassStmt
      PROVE  WellFormed(sch[t], Restored(sch))
  <2>1. WellFormed(sch[t], RestoredBase(sch))
    BY <1>1 DEF Restorable
  <2>2. \A p \in sch[t].parents : RestoredBase(sch)[p] = Restored(sch)[p]
    BY <1>1, RestoredTyped DEF ClassStmt
  <2> QED
    BY <1>1, <2>1, <2>2, ContractAgrees
<1> QED
  BY <1>1, RestoredTyped, RestoredFixed

\* What is restored tells whether a type has a class, a key only, or nothing.
LEMMA RestoredTells ==
  ASSUME NEW sch \in [Type -> Schema], BaseClasses(sch), Restorable(sch), NEW t \in Type
  PROVE  /\ Restored(sch)[t] = None <=> sch[t] = None
         /\ sch[t] \in Field => Restored(sch)[t] = Schemaless(sch[t])
         /\ sch[t] \in ClassStmt => Restored(sch)[t] = ContractOf(sch[t], Restored(sch))
<1> DEFINE res == Restored(sch)
<1>1. sch[t] \in Schema /\ res[t] = RestoredFrom(sch[t], res)
  BY RestoredGives
<1>2. res \in [Type -> FactTypeContract \cup {None}]
  BY RestoredGives
<1> HIDE DEF res
<1>3. CASE sch[t] = None
  <2>1. res[t] = None
    BY <1>1, <1>3, FromCases
  <2> QED
    BY <1>3, <2>1, SentinelAssumption DEF res
<1>4. CASE sch[t] \in Field
  <2>1. res[t] = Schemaless(sch[t])
    BY <1>1, <1>4, FromCases
  <2>2. Schemaless(sch[t]) \in FactTypeContract
    BY <1>4, SchemalessTyped
  <2> QED
    BY <1>4, <2>1, <2>2, SentinelAssumption DEF res
<1>5. CASE sch[t] \in ClassStmt
  <2>1. res[t] = ContractOf(sch[t], res)
    BY <1>1, <1>5, FromCases
  <2>2. ContractOf(sch[t], res) \in FactTypeContract
    <3>1. sch[t].parents \subseteq Type
      BY <1>5 DEF ClassStmt, Type
    <3> QED
      BY <1>2, <1>5, <3>1, ContractTyped
  <2> QED
    BY <1>5, <2>1, <2>2, SentinelAssumption DEF res
<1> QED
  BY <1>1, <1>3, <1>4, <1>5 DEF Schema

\* The schemas are new after schema s is given to a type t that no stored class
\* extends.
Changed(sch, t, s, new) ==
    /\ sch \in [Type -> Schema] /\ BaseClasses(sch) /\ Restorable(sch)
    /\ t \in Type /\ s \in Field \cup ClassStmt
    /\ t \in Base /\ s \in ClassStmt => s.parents = {}
    /\ s \in ClassStmt => WellFormed(s, Restored(sch))
    /\ \A u \in Type : sch[u] \in ClassStmt => t \notin sch[u].parents
    /\ new = [sch EXCEPT ![t] = s]

LEMMA SchemaChange ==
  ASSUME NEW sch, NEW t, NEW s, NEW new, Changed(sch, t, s, new)
  PROVE  /\ new \in [Type -> Schema] /\ BaseClasses(new) /\ Restorable(new)
         /\ Restored(new)[t] = RestoredFrom(s, Restored(sch))
         /\ \A u \in Type : u # t => Restored(new)[u] = Restored(sch)[u]
<1> USE DEF Changed
<1> DEFINE res == Restored(sch)
           c == RestoredFrom(s, res)
           con == [res EXCEPT ![t] = c]
<1>1. /\ res \in [Type -> FactTypeContract \cup {None}]
      /\ \A u \in Type : res[u] = RestoredFrom(sch[u], res)
      /\ \A u \in Type : sch[u] \in ClassStmt => WellFormed(sch[u], res)
  BY RestoredGives, Zenon
<1>2. /\ new \in [Type -> Schema] /\ new[t] = s
      /\ \A u \in Type : u # t => new[u] = sch[u]
  BY DEF Schema
<1>3. /\ con \in [Type -> FactTypeContract \cup {None, c}] /\ con[t] = c
      /\ \A u \in Type : u # t => con[u] = res[u]
  BY <1>1
<1> HIDE DEF con
<1>4. BaseClasses(new)
  BY <1>2 DEF BaseClasses, Type
<1>5. ASSUME NEW u \in Type, new[u] \in ClassStmt, NEW p \in new[u].parents
      PROVE  con[p] = res[p]
  <2>1. p \in Base /\ p \in Type
    BY <1>5 DEF ClassStmt, Type
  <2>2. p # t
    <3>1. CASE u = t
      \* A base type extends nothing, and p is one.
      BY <1>2, <1>4, <1>5, <2>1, <3>1 DEF BaseClasses
    <3>2. CASE u # t
      BY <1>2, <1>5, <3>2
    <3> QED
      BY <3>1, <3>2
  <2> QED
    BY <1>3, <2>1, <2>2
<1>6. ASSUME NEW u \in Type
      PROVE  con[u] = RestoredFrom(new[u], con)
  <2>1. con[u] = RestoredFrom(new[u], res)
    BY <1>1, <1>2, <1>3 DEF c
  <2>2. new[u] \in Schema
    BY <1>2
  <2> HIDE DEF res
  <2> QED
    BY <1>5, <2>1, <2>2, FromAgrees
<1>7. con = Restored(new)
  <2> HIDE DEF c, res
  <2> QED
    BY <1>2, <1>3, <1>4, <1>6, RestoredUnique
<1>8. ASSUME NEW u \in Type, new[u] \in ClassStmt
      PROVE  WellFormed(new[u], RestoredBase(new))
  <2>1. WellFormed(new[u], res)
    BY <1>1, <1>2, <1>8
  <2>2. \A p \in new[u].parents : RestoredBase(new)[p] = res[p]
    <3>1. \A p \in Base : RestoredBase(new)[p] = con[p]
      BY <1>2, <1>7, RestoredTyped
    <3>2. new[u].parents \subseteq Base
      BY <1>8 DEF ClassStmt
    <3> QED
      BY <1>5, <1>8, <3>1, <3>2
  <2> HIDE DEF res
  <2> QED
    BY <1>8, <2>1, <2>2, ContractAgrees
<1>9. \A u \in Type : Restored(new)[u] = con[u]
  BY <1>7
<1> QED
  BY <1>2, <1>3, <1>4, <1>8, <1>9 DEF Restorable
-----------------------------------------------------------------------------
(* What the invariant gives.                                               *)

LEMMA SoundGives ==
  ASSUME SoundRoots(schema, contract, classes, unclaimed)
  PROVE  /\ schema \in [Type -> Schema] /\ BaseClasses(schema) /\ Restorable(schema)
         /\ contract \in [Type -> FactTypeContract \cup {None}]
         /\ classes \in [Type -> ClassStmt \cup {None}]
         /\ Restored(schema) \in [Type -> FactTypeContract \cup {None}]
         /\ \A t \in Type : Covers(contract[t], Restored(schema)[t])
         /\ \A t \in Type : schema[t] = None <=> contract[t] = None
BY RestoredGives, RestoredTells DEF SoundRoots, Covers

\* A type that may become something else is extended by no stored class.
LEMMA NotExtended ==
  ASSUME OrderedProgram, SoundRoots(schema, contract, classes, unclaimed),
         NEW t \in Type, NEW c, MayBecome(t, c), c # contract[t],
         NEW u \in Type, schema[u] \in ClassStmt
  PROVE  t \notin schema[u].parents
<1> SUFFICES ASSUME t \in schema[u].parents PROVE FALSE
  OBVIOUS
<1>1. u \notin Base /\ u \in Derived
  BY DEF SoundRoots, BaseClasses, Type
<1>2. classes[u] = schema[u] /\ classes[u] # None
  BY SentinelAssumption DEF SoundRoots
<1> QED
  BY <1>1, <1>2 DEF MayBecome, OrderedProgram

\* A class that may be declared again is the stored one, if one is stored.
LEMMA RedeclaredIsStored ==
  ASSUME SoundRoots(schema, contract, classes, unclaimed),
         NEW t \in Type, NEW d \in ClassStmt, MayRedeclare(t, d)
  PROVE  /\ schema[t] \in ClassStmt => schema[t] = d
         /\ classes[t] # None => schema[t] = d
         /\ classes[t] = None => schema[t] \in Field \cup {None}
BY SentinelAssumption DEF SoundRoots, MayRedeclare, Schema
-----------------------------------------------------------------------------
(* The facts of a type, and what a step has to show.                       *)

\* The facts of type t are some of those there were and new ones keyed by con.
LEMMA FactsGiven ==
  ASSUME SoundFacts(facts, schema), NEW t \in Type, NEW con \in FactTypeContract,
         Covers(con, Restored(schema')[t]),
         Restored(schema)[t] \in {None, Restored(schema')[t]},
         \A u \in Type : u # t => Restored(schema')[u] = Restored(schema)[u],
         NEW kept \in SUBSET facts[t], NEW shapes \in SUBSET Shape,
         \A s \in shapes : Fits(s, con),
         facts' = [facts EXCEPT ![t] = kept \cup Keyed(shapes, con)]
  PROVE  SoundFacts(facts', schema')
<1> DEFINE r == Restored(schema')[t]
           new == kept \cup Keyed(shapes, con)
<1>1. facts \in [Type -> SUBSET Fact]
  BY DEF SoundFacts
<1>2. r # None /\ con.key = r.key /\ r.fields \subseteq con.fields
  BY SentinelAssumption DEF Covers
<1>3. \A f \in Keyed(shapes, con) :
         f \in Fact /\ f.by = con.key /\ con.fields \subseteq f.fields
  <2> SUFFICES ASSUME NEW s \in shapes, NEW f, f = [fields |-> s, by |-> con.key]
               PROVE  f \in Fact /\ f.by = con.key /\ con.fields \subseteq f.fields
    BY DEF Keyed
  <2>1. con.key \in s /\ con.fields \subseteq s /\ s \in Shape /\ s \subseteq Field
    BY DEF Fits, Shape
  <2> QED
    BY <2>1 DEF Fact
<1>4. \A f \in kept : f \in Fact /\ f.by = r.key /\ r.fields \subseteq f.fields
  BY <1>1 DEF SoundFacts
<1> HIDE DEF r
<1>5. \A f \in new : f \in Fact /\ f.by = r.key /\ r.fields \subseteq f.fields
  BY <1>2, <1>3, <1>4
<1> HIDE DEF new
<1>6. /\ facts' \in [Type -> SUBSET Fact] /\ facts'[t] = new
      /\ \A u \in Type : u # t => facts'[u] = facts[u]
  BY <1>1, <1>5 DEF new
<1> QED
  BY <1>2, <1>5, <1>6 DEF SoundFacts, r

\* A type takes the contract of its first fact, or has one.
LEMMA ContractGiven ==
  ASSUME OrderedProgram, SoundRoots(schema, contract, classes, unclaimed),
         NEW t \in Type, NEW con \in Contracts(t), MayBecome(t, con),
         schema' = RegisterSchema(t, con),
         contract' = [contract EXCEPT ![t] = con],
         classes' = classes, unclaimed' = unclaimed
  PROVE  /\ SoundRoots(schema', contract', classes', unclaimed')
         /\ con \in FactTypeContract /\ Covers(con, Restored(schema')[t])
         /\ Restored(schema)[t] \in {None, Restored(schema')[t]}
         /\ \A u \in Type : u # t => Restored(schema')[u] = Restored(schema)[u]
<1> DEFINE res == Restored(schema)
<1>1. /\ schema \in [Type -> Schema] /\ BaseClasses(schema) /\ Restorable(schema)
      /\ contract \in [Type -> FactTypeContract \cup {None}]
      /\ \A u \in Type : Covers(contract[u], res[u])
      /\ \A u \in Type : schema[u] = None <=> contract[u] = None
  BY SoundGives
<1>2. /\ contract'[t] = con
      /\ \A u \in Type : u # t => contract'[u] = contract[u]
  BY <1>1
<1>3. CASE contract[t] = None
  <2>1. PICK x \in Field : con = Schemaless(x)
    BY <1>3 DEF Contracts
  <2>2. /\ con \in FactTypeContract /\ con.key = x
        /\ con.declaredClass = FALSE /\ con # None /\ con # contract[t]
    BY <1>3, <2>1, SchemalessTyped, SentinelAssumption
  <2>3. schema[t] = None /\ res[t] = None
    BY <1>1, <1>3 DEF Covers
  <2>4. schema' = [schema EXCEPT ![t] = x]
    BY <2>2, <2>3 DEF RegisterSchema
  <2>5. con = RestoredFrom(x, res) /\ x \notin ClassStmt
    <3>1. x \in Schema
      BY DEF Schema
    <3> QED
      BY <2>1, <3>1, FromCases, SentinelAssumption
  <2>6. \A u \in Type : schema[u] \in ClassStmt => t \notin schema[u].parents
    BY <2>2, NotExtended
  <2>7. /\ schema' \in [Type -> Schema] /\ BaseClasses(schema') /\ Restorable(schema')
        /\ Restored(schema')[t] = con
        /\ \A u \in Type : u # t => Restored(schema')[u] = res[u]
    <3>1. PICK new : new = schema'
      OBVIOUS
    <3>2. /\ x \in Field \cup ClassStmt
          /\ t \in Base /\ x \in ClassStmt => x.parents = {}
          /\ x \in ClassStmt => WellFormed(x, Restored(schema))
      BY <2>5
    <3>3. new = [schema EXCEPT ![t] = x]
      BY <2>4, <3>1
    <3>4. /\ new \in [Type -> Schema] /\ BaseClasses(new) /\ Restorable(new)
          /\ Restored(new)[t] = RestoredFrom(x, Restored(schema))
          /\ \A u \in Type : u # t => Restored(new)[u] = Restored(schema)[u]
      <4>1. Changed(schema, t, x, new)
        BY <1>1, <2>6, <3>2, <3>3 DEF Changed
      <4> QED
        BY <4>1, SchemaChange
    <3> QED
      BY <2>5, <3>1, <3>4
  <2> HIDE DEF res
  <2>8. contract' \in [Type -> FactTypeContract \cup {None}]
    BY <1>1, <2>2
  <2>9. ASSUME NEW u \in Type
        PROVE  /\ Covers(contract'[u], Restored(schema')[u])
               /\ schema'[u] \in ClassStmt => classes'[u] = schema'[u]
               /\ contract'[u] # None /\ contract'[u].declaredClass => classes'[u] # None
               /\ u \in unclaimed' => schema'[u] \in ClassStmt
    <3>1. CASE u = t
      <4>1. contract'[u] = con /\ Restored(schema')[u] = con /\ schema'[u] = x
        BY <1>1, <1>2, <2>4, <2>7, <3>1
      <4>2. u \notin unclaimed'
        BY <2>3, <3>1, SentinelAssumption DEF SoundRoots
      <4> QED
        BY <2>2, <2>5, <4>1, <4>2 DEF Covers
    <3>2. CASE u # t
      BY <1>1, <1>2, <2>4, <2>7, <3>2 DEF SoundRoots
    <3> QED
      BY <3>1, <3>2
  <2>10. SoundRoots(schema', contract', classes', unclaimed')
    BY <2>7, <2>8, <2>9 DEF SoundRoots
  <2> QED
    BY <2>2, <2>3, <2>7, <2>10 DEF Covers, res
<1>4. CASE contract[t] # None
  <2>1. con = contract[t] /\ con \in FactTypeContract
    BY <1>1, <1>4 DEF Contracts
  <2>2. schema[t] # None
    BY <1>1, <1>4
  <2>3. schema' = schema /\ contract' = contract
    BY <1>1, <2>1, <2>2 DEF RegisterSchema
  <2> QED
    BY <1>1, <2>1, <2>3
<1> QED
  BY <1>3, <1>4
-----------------------------------------------------------------------------
(* The steps.                                                              *)

\* A step inside or outside a load.
LEMMA StepKeeps ==
  ASSUME IInv, SoundRoots(schema', contract', classes', unclaimed'),
         SoundFacts(facts', schema'), before' = before,
         \A u \in Type : KeyKept(Restored(schema)[u], Restored(schema')[u])
  PROVE  IInv' /\ KeysStep
<1>1. IInv'
  BY DEF IInv, KeyKept
<1>2. CASE before = NoLoad
  <2>1. Stored.schema = schema /\ Stored'.schema = schema'
    BY <1>2 DEF Stored, Roots
  <2> QED
    BY <1>1, <2>1 DEF KeysStep
<1>3. CASE before # NoLoad
  <2>1. Stored' = Stored
    BY <1>3 DEF Stored
  <2> QED
    BY <1>1, <2>1 DEF KeysStep, KeyKept
<1> QED
  BY <1>2, <1>3

LEMMA InsertKeeps ==
  ASSUME IInv, OrderedProgram, NEW t \in Type, NEW con \in Contracts(t),
         NEW fields \in Shape, Insert(t, con, fields)
  PROVE  IInv' /\ KeysStep
<1>1. /\ SoundRoots(schema', contract', classes', unclaimed')
      /\ con \in FactTypeContract /\ Covers(con, Restored(schema')[t])
      /\ Restored(schema)[t] \in {None, Restored(schema')[t]}
      /\ \A u \in Type : u # t => Restored(schema')[u] = Restored(schema)[u]
  BY ContractGiven DEF Insert, IInv
<1>2. facts \in [Type -> SUBSET Fact]
  BY DEF IInv, SoundFacts
<1>3. \A v : [facts EXCEPT ![t] = @ \cup v] = [facts EXCEPT ![t] = facts[t] \cup v]
  BY <1>2
<1>4. PICK shapes \in {{}, {fields}} :
         /\ \A s \in shapes : Fits(s, con)
         /\ facts' = [facts EXCEPT ![t] = facts[t] \cup Keyed(shapes, con)]
  <2>1. CASE facts' = facts
    <3>1. Keyed({}, con) = {}
      BY DEF Keyed
    <3>2. facts' = [facts EXCEPT ![t] = facts[t] \cup Keyed({}, con)]
      BY <1>2, <2>1, <3>1
    <3> QED
      BY <3>2
  <2>2. CASE Fits(fields, con) /\ facts' = [facts EXCEPT ![t] = @ \cup Keyed({fields}, con)]
    BY <1>3, <2>2
  <2> QED
    BY <2>1, <2>2 DEF Insert
<1>5. SoundFacts(facts', schema')
  <2>1. SoundFacts(facts, schema) /\ facts[t] \in SUBSET facts[t] /\ shapes \in SUBSET Shape
    BY DEF IInv
  <2> QED
    BY <1>1, <1>4, <2>1, FactsGiven
<1> QED
  BY <1>1, <1>5, StepKeeps DEF Insert, KeyKept

\* A step that gives no contract.
LEMMA FactsKeep ==
  ASSUME IInv, NEW t \in Type, NEW kept \in SUBSET facts[t], NEW shapes \in SUBSET Shape,
         contract[t] # None, \A s \in shapes : Fits(s, contract[t]),
         facts' = [facts EXCEPT ![t] = kept \cup Keyed(shapes, contract[t])],
         UNCHANGED <<schema, contract, classes, unclaimed, before>>
  PROVE  IInv' /\ KeysStep
<1>1. contract[t] \in FactTypeContract /\ Covers(contract[t], Restored(schema')[t])
  BY SoundGives DEF IInv
<1>2. SoundFacts(facts', schema')
  BY <1>1, FactsGiven DEF IInv
<1> QED
  BY <1>2, StepKeeps DEF IInv, KeyKept

LEMMA UpdateKeeps ==
  ASSUME IInv, NEW t \in Type, NEW f \in facts[t], NEW x \in Field, Update(t, f, x)
  PROVE  IInv' /\ KeysStep
<1> DEFINE next == f.fields \cup {x}
<1>1. next \in Shape
  <2>1. f \in Fact
    BY DEF IInv, SoundFacts
  <2> QED
    BY <2>1 DEF Fact, Shape
<1>2. /\ contract[t] # None /\ Fits(next, contract[t])
      /\ UNCHANGED <<schema, contract, classes, unclaimed, before>>
  BY DEF Update
<1>3. PICK kept \in {facts[t], facts[t] \ {f}} :
         facts' = [facts EXCEPT ![t] = kept \cup {[fields |-> next, by |-> contract[t].key]}]
  BY DEF Update
<1>4. Keyed({next}, contract[t]) = {[fields |-> next, by |-> contract[t].key]}
  BY DEF Keyed
<1> HIDE DEF next
<1>5. facts' = [facts EXCEPT ![t] = kept \cup Keyed({next}, contract[t])]
  BY <1>3, <1>4
<1>6. /\ kept \in SUBSET facts[t] /\ {next} \in SUBSET Shape
      /\ \A s \in {next} : Fits(s, contract[t])
  BY <1>1, <1>2
<1> QED
  BY <1>2, <1>5, <1>6, FactsKeep

LEMMA DeleteKeeps ==
  ASSUME IInv, NEW t \in Type, NEW f \in facts[t], Delete(t, f)
  PROVE  IInv' /\ KeysStep
<1> DEFINE kept == facts[t] \ {f}
<1>1. contract[t] # None
  BY DEF IInv, SoundRoots, SoundFacts, Covers
<1>2. kept \cup Keyed({}, contract[t]) = kept
  BY DEF Keyed
<1>3. facts' = [facts EXCEPT ![t] = kept \cup Keyed({}, contract[t])]
  <2>1. facts' = [facts EXCEPT ![t] = kept]
    BY DEF Delete
  <2> QED
    BY <1>2, <2>1, Zenon
<1>4. UNCHANGED <<schema, contract, classes, unclaimed, before>>
  BY DEF Delete
<1> HIDE DEF kept
<1>5. /\ kept \in SUBSET facts[t] /\ {} \in SUBSET Shape
      /\ \A s \in {} : Fits(s, contract[t])
  BY DEF kept
<1> QED
  BY <1>1, <1>3, <1>4, <1>5, FactsKeep

LEMMA SyncFactSourceKeeps ==
  ASSUME IInv, OrderedProgram, NEW t \in Type, NEW con \in Contracts(t),
         NEW shapes \in SUBSET Shape, NEW gone \in SUBSET facts[t],
         SyncFactSource(t, con, shapes, gone)
  PROVE  IInv' /\ KeysStep
<1>1. /\ SoundRoots(schema', contract', classes', unclaimed')
      /\ con \in FactTypeContract /\ Covers(con, Restored(schema')[t])
      /\ Restored(schema)[t] \in {None, Restored(schema')[t]}
      /\ \A u \in Type : u # t => Restored(schema')[u] = Restored(schema)[u]
  BY ContractGiven DEF SyncFactSource, IInv
<1>2. SoundFacts(facts', schema')
  <2> DEFINE kept == facts[t] \ gone
  <2>1. /\ facts' = [facts EXCEPT ![t] = kept \cup Keyed(shapes, con)]
        /\ kept \in SUBSET facts[t] /\ \A s \in shapes : Fits(s, con)
    BY DEF SyncFactSource
  <2> HIDE DEF kept
  <2> QED
    BY <1>1, <2>1, FactsGiven DEF IInv
<1> QED
  BY <1>1, <1>2, StepKeeps DEF SyncFactSource, KeyKept

\* A rejected source finds the contract that its facts are given.
LEMMA RejectFactSourceKeeps ==
  ASSUME IInv, OrderedProgram, NEW t \in Type, NEW con \in Contracts(t),
         NEW shapes \in SUBSET Shape, NEW gone \in SUBSET facts[t],
         RejectFactSource(t, con, shapes, gone)
  PROVE  IInv' /\ KeysStep
<1>1. contract[t] # None /\ con = contract[t]
  BY DEF RejectFactSource, OrderedProgram, Contracts
<1>2. schema[t] # None
  BY <1>1, SoundGives DEF IInv
<1>3. UNCHANGED <<schema, contract, classes, unclaimed, before>>
  BY <1>2 DEF RejectFactSource, RegisterSchema
<1>4. CASE facts' = facts
  BY <1>3, <1>4, StepKeeps DEF IInv, KeyKept
<1>5. CASE /\ \A s \in shapes : Fits(s, con)
           /\ facts' = [facts EXCEPT ![t] = (@ \ gone) \cup Keyed(shapes, con)]
  <2> DEFINE kept == facts[t] \ gone
  <2>1. /\ facts' = [facts EXCEPT ![t] = kept \cup Keyed(shapes, contract[t])]
        /\ kept \in SUBSET facts[t] /\ \A s \in shapes : Fits(s, contract[t])
    BY <1>1, <1>5
  <2> HIDE DEF kept
  <2> QED
    BY <1>1, <1>3, <2>1, FactsKeep
<1> QED
  BY <1>4, <1>5 DEF RejectFactSource

\* A stored class inherits fields from the classes of its parents only, and
\* these have no others than their own.
LEMMA InheritedFieldsAreOwn ==
  ASSUME SoundRoots(schema, contract, classes, unclaimed), NEW d \in ClassStmt,
         NEW x \in InheritedFields(d, Restored(schema))
  PROVE  \E p \in d.parents : classes[p] # None /\ x \in classes[p].own
<1> DEFINE res == Restored(schema)
<1>1. PICK p \in d.parents : res[p] # None /\ x \in res[p].fields
  BY DEF InheritedFields, Inherited
<1>2. p \in Base /\ p \in Type
  BY DEF ClassStmt, Type
<1>3. schema \in [Type -> Schema] /\ BaseClasses(schema) /\ Restorable(schema)
  BY SoundGives
<1> HIDE DEF res
<1>4. schema[p] \in ClassStmt
  <2>1. schema[p] # None /\ schema[p] \in Schema
    BY <1>1, <1>2, <1>3, RestoredTells DEF res
  <2>2. schema[p] \notin Field
    <3> SUFFICES ASSUME schema[p] \in Field PROVE FALSE
      OBVIOUS
    <3>1. res[p] = Schemaless(schema[p])
      BY <1>2, <1>3, RestoredTells DEF res
    <3>2. Schemaless(schema[p]).fields = {}
      BY SchemalessTyped
    <3> QED
      BY <1>1, <3>1, <3>2
  <2> QED
    BY <2>1, <2>2 DEF Schema
<1>5. res[p] = ContractOf(schema[p], res)
  BY <1>2, <1>3, <1>4, RestoredTells DEF res
<1>6. schema[p].parents = {}
  BY <1>2, <1>3, <1>4 DEF BaseClasses
<1>7. InheritedFields(schema[p], res) = {}
  BY <1>6 DEF InheritedFields, Inherited
<1>8. ContractOf(schema[p], res).fields = schema[p].own
  BY <1>7 DEF ContractOf
<1>9. classes[p] = schema[p] /\ schema[p] # None
  BY <1>2, <1>4, SentinelAssumption DEF SoundRoots
<1> QED
  BY <1>1, <1>5, <1>8, <1>9

\* The contract that a declaration computes in memory covers the one that is
\* computed from the stored schemas.
LEMMA DeclaredCovers ==
  ASSUME SoundRoots(schema, contract, classes, unclaimed), NEW d \in ClassStmt
  PROVE  /\ ContractOf(d, contract) \in FactTypeContract
         /\ ContractOf(d, contract).declaredClass
         /\ ContractOf(d, Restored(schema)) \in FactTypeContract
         /\ Covers(ContractOf(d, contract), ContractOf(d, Restored(schema)))
         /\ WellFormed(d, contract) => WellFormed(d, Restored(schema))
<1> DEFINE res == Restored(schema)
<1>1. /\ contract \in [Type -> FactTypeContract \cup {None}]
      /\ res \in [Type -> FactTypeContract \cup {None}]
      /\ \A t \in Type : Covers(contract[t], res[t])
  BY SoundGives
<1>2. d.parents \subseteq Type
  BY DEF ClassStmt, Type
<1> HIDE DEF res
<1>3. /\ Covers(ContractOf(d, contract), ContractOf(d, res))
      /\ WellFormed(d, contract) => WellFormed(d, res)
  BY <1>1, <1>2, ContractCovers
<1>4. /\ ContractOf(d, contract) \in FactTypeContract
      /\ ContractOf(d, res) \in FactTypeContract
  BY <1>1, <1>2, ContractTyped
<1>5. ContractOf(d, contract).declaredClass
  BY DEF ContractOf
<1> QED
  BY <1>3, <1>4, <1>5 DEF res

\* Class d is noted for type t, under the contract c.
LEMMA ClassNoted ==
  ASSUME SoundRoots(schema, contract, classes, unclaimed),
         NEW t \in Type, NEW d \in ClassStmt, NEW c \in FactTypeContract \cup {None},
         schema' \in [Type -> Schema], BaseClasses(schema'), Restorable(schema'),
         \A u \in Type : u # t => /\ schema'[u] = schema[u]
                                 /\ Restored(schema')[u] = Restored(schema)[u],
         schema'[t] \in ClassStmt => schema'[t] = d,
         Covers(c, Restored(schema')[t]),
         contract' = [contract EXCEPT ![t] = c],
         classes' = [classes EXCEPT ![t] = d],
         unclaimed' = unclaimed \ {t}
  PROVE  SoundRoots(schema', contract', classes', unclaimed')
<1>1. /\ contract \in [Type -> FactTypeContract \cup {None}]
      /\ classes \in [Type -> ClassStmt \cup {None}]
  BY DEF SoundRoots
<1>2. /\ contract' \in [Type -> FactTypeContract \cup {None}]
      /\ classes' \in [Type -> ClassStmt \cup {None}]
      /\ contract'[t] = c /\ classes'[t] = d
      /\ \A u \in Type : u # t => contract'[u] = contract[u] /\ classes'[u] = classes[u]
  BY <1>1
<1>3. ASSUME NEW u \in Type
      PROVE  /\ Covers(contract'[u], Restored(schema')[u])
             /\ schema'[u] \in ClassStmt => classes'[u] = schema'[u]
             /\ contract'[u] # None /\ contract'[u].declaredClass => classes'[u] # None
             /\ u \in unclaimed' => schema'[u] \in ClassStmt
  <2>1. CASE u = t
    BY <1>2, <2>1, SentinelAssumption
  <2>2. CASE u # t
    BY <1>2, <2>2 DEF SoundRoots
  <2> QED
    BY <2>1, <2>2
<1> QED
  BY <1>2, <1>3 DEF SoundRoots

LEMMA DeclareClassKeeps ==
  ASSUME IInv, OrderedProgram, NEW t \in Type, NEW d \in ClassStmt, DeclareClass(t, d)
  PROVE  IInv' /\ KeysStep
<1> DEFINE con == ContractOf(d, contract)
           res == Restored(schema)
           new == ContractOf(d, res)
<1>1. /\ t \in Base => d.parents = {}
      /\ MayRedeclare(t, d) /\ WellFormed(d, contract) /\ Compatible(contract[t], con)
      /\ schema[t] \in Field => Promotable(t, d)
      /\ MayBecome(t, con)
      /\ schema' = [schema EXCEPT ![t] = d] /\ contract' = [contract EXCEPT ![t] = con]
      /\ classes' = [classes EXCEPT ![t] = d] /\ unclaimed' = unclaimed \ {t}
      /\ facts' = facts /\ before' = before
  BY DEF DeclareClass, MayContract, MayPromote
<1>2. SoundRoots(schema, contract, classes, unclaimed) /\ SoundFacts(facts, schema)
  BY DEF IInv
<1>3. /\ schema \in [Type -> Schema] /\ BaseClasses(schema) /\ Restorable(schema)
      /\ contract \in [Type -> FactTypeContract \cup {None}]
      /\ \A u \in Type : Covers(contract[u], res[u])
  BY <1>2, SoundGives
<1>4. /\ con \in FactTypeContract /\ con # None /\ con.declaredClass
      /\ new \in FactTypeContract /\ new # None
      /\ con.key = new.key /\ Covers(con, new) /\ WellFormed(d, res)
  BY <1>1, <1>2, DeclaredCovers, SentinelAssumption DEF Covers
<1>5. new.fields = InheritedFields(d, res) \cup d.own
  BY DEF ContractOf
<1>6. new = RestoredFrom(d, res)
  BY FromCases DEF Schema
<1> HIDE DEF con, new, res
\* The schemas say the same of every other type, and of t that it has class d.
<1>7. /\ schema' \in [Type -> Schema] /\ BaseClasses(schema') /\ Restorable(schema')
      /\ Restored(schema')[t] = new
      /\ \A u \in Type : u # t => /\ schema'[u] = schema[u]
                                  /\ Restored(schema')[u] = res[u]
  <2>1. CASE classes[t] # None
    <3>1. schema[t] = d
      BY <1>1, <1>2, <2>1, RedeclaredIsStored
    <3>2. schema' = schema
      BY <1>1, <1>3, <3>1
    <3>3. res[t] = new
      BY <1>3, <3>1, RestoredTells DEF res, new
    <3> QED
      BY <1>3, <3>2, <3>3 DEF res
  <2>2. CASE classes[t] = None
    <3>1. con # contract[t]
      BY <1>2, <1>4, <2>2 DEF SoundRoots
    <3>2. \A u \in Type : schema[u] \in ClassStmt => t \notin schema[u].parents
      BY <1>1, <1>2, <3>1, NotExtended
    <3>3. /\ schema' \in [Type -> Schema] /\ BaseClasses(schema') /\ Restorable(schema')
          /\ Restored(schema')[t] = new
          /\ \A u \in Type : u # t => Restored(schema')[u] = res[u]
      <4>1. PICK next : next = schema'
        OBVIOUS
      <4>2. /\ d \in Field \cup ClassStmt
            /\ t \in Base /\ d \in ClassStmt => d.parents = {}
            /\ d \in ClassStmt => WellFormed(d, Restored(schema))
        BY <1>1, <1>4 DEF res
      <4>3. next = [schema EXCEPT ![t] = d]
        BY <1>1, <4>1
      <4>4. /\ next \in [Type -> Schema] /\ BaseClasses(next) /\ Restorable(next)
            /\ Restored(next)[t] = RestoredFrom(d, Restored(schema))
            /\ \A u \in Type : u # t => Restored(next)[u] = Restored(schema)[u]
        <5>1. Changed(schema, t, d, next)
          BY <1>3, <3>2, <4>2, <4>3 DEF Changed
        <5> QED
          BY <5>1, SchemaChange
      <4> QED
        BY <1>6, <4>1, <4>4 DEF res
    <3>4. \A u \in Type : u # t => schema'[u] = schema[u]
      BY <1>1, <1>3
    <3> QED
      BY <3>3, <3>4
  <2> QED
    BY <2>1, <2>2
<1>8. SoundRoots(schema', contract', classes', unclaimed')
  <2>1. schema'[t] = d
    BY <1>1, <1>3
  <2>2. Covers(con, Restored(schema')[t])
    BY <1>4, <1>7
  <2>3. con \in FactTypeContract \cup {None}
    BY <1>4
  <2>4. \A u \in Type : u # t => /\ schema'[u] = schema[u]
                                /\ Restored(schema')[u] = Restored(schema)[u]
    BY <1>7 DEF res
  <2> QED
    BY <1>1, <1>2, <1>7, <2>1, <2>2, <2>3, <2>4, ClassNoted
<1>9. ASSUME NEW f \in facts[t]
      PROVE  f.by = new.key /\ new.fields \subseteq f.fields
  <2>1. /\ f \in Fact /\ res[t] # None /\ f.by = res[t].key
        /\ res[t].fields \subseteq f.fields
    BY <1>2 DEF SoundFacts, res
  <2>2. f.by # NoField
    BY <2>1, FieldAssumption DEF Fact
  <2>3. contract[t] # None /\ contract[t].key = res[t].key
    BY <1>3, <2>1 DEF Covers
  <2>4. f.by = new.key
    BY <1>1, <1>4, <2>1, <2>2, <2>3 DEF Compatible
  <2>5. CASE classes[t] # None
    <3>1. schema[t] = d
      BY <1>1, <1>2, <2>5, RedeclaredIsStored
    <3>2. res[t] = new
      BY <1>3, <3>1, RestoredTells DEF res, new
    <3> QED
      BY <2>1, <2>4, <3>2
  <2>6. CASE classes[t] = None
    <3>1. schema[t] \in Field
      <4>1. schema[t] # None
        BY <1>3, <2>1, RestoredTells DEF res
      <4> QED
        BY <1>1, <1>2, <2>6, <4>1, RedeclaredIsStored
    <3>2. /\ d.own \subseteq f.fields
          /\ \A p \in d.parents : classes[p] # None => classes[p].own \subseteq f.fields
      BY <1>1, <3>1 DEF Promotable
    <3>3. InheritedFields(d, res) \subseteq f.fields
      BY <1>2, <3>2, InheritedFieldsAreOwn DEF res
    <3> QED
      BY <1>5, <2>4, <3>2, <3>3
  <2> QED
    BY <2>5, <2>6
<1>10. SoundFacts(facts', schema')
  <2>1. facts' \in [Type -> SUBSET Fact]
    BY <1>1, <1>2 DEF SoundFacts
  <2>2. ASSUME NEW u \in Type, NEW f \in facts[u]
        PROVE  LET r == Restored(schema')[u]
               IN  r # None /\ f.by = r.key /\ r.fields \subseteq f.fields
    <3>1. CASE u = t
      BY <1>4, <1>7, <1>9, <2>2, <3>1
    <3>2. CASE u # t
      BY <1>2, <1>7, <2>2, <3>2 DEF SoundFacts, res
    <3> QED
      BY <3>1, <3>2
  <2> QED
    BY <1>1, <2>1, <2>2 DEF SoundFacts
<1>11. KeyKept(res[t], new)
  BY <1>1, <1>3, <1>4 DEF KeyKept, Compatible, Covers
<1>12. \A u \in Type : KeyKept(Restored(schema)[u], Restored(schema')[u])
  BY <1>7, <1>11 DEF KeyKept, res
<1> QED
  BY <1>1, <1>8, <1>10, <1>12, StepKeeps

\* A declaration that fails leaves the schemas and the facts; a contract that
\* stays in memory has the key of the schema it was not written to.
LEMMA RefuseClassKeeps ==
  ASSUME IInv, NEW t \in Type, NEW d \in ClassStmt, RefuseClass(t, d)
  PROVE  IInv' /\ KeysStep
<1> DEFINE con == ContractOf(d, contract)
           res == Restored(schema)
<1>1. /\ unclaimed' = unclaimed \ {t}
      /\ schema' = schema /\ facts' = facts /\ before' = before
  BY DEF RefuseClass
<1>2. SoundRoots(schema, contract, classes, unclaimed) /\ SoundFacts(facts, schema)
  BY DEF IInv
<1>3. /\ schema \in [Type -> Schema] /\ BaseClasses(schema) /\ Restorable(schema)
      /\ contract \in [Type -> FactTypeContract \cup {None}]
      /\ \A u \in Type : Covers(contract[u], res[u])
  BY <1>2, SoundGives
<1>4. con \in FactTypeContract /\ con # None
  BY <1>2, DeclaredCovers, SentinelAssumption
<1> HIDE DEF con, res
<1>5. SoundRoots(schema', contract', classes', unclaimed')
  <2>1. CASE UNCHANGED <<classes, contract>>
    BY <1>1, <1>2, <2>1 DEF SoundRoots
  <2>2. CASE /\ MayRedeclare(t, d)
             /\ classes' = [classes EXCEPT ![t] = d]
             /\ UNCHANGED contract
    <3>1. schema'[t] \in ClassStmt => schema'[t] = d
      BY <1>1, <1>2, <2>2, RedeclaredIsStored
    <3>2. contract' = [contract EXCEPT ![t] = contract[t]]
      BY <1>3, <2>2
    <3>3. /\ contract[t] \in FactTypeContract \cup {None}
          /\ Covers(contract[t], Restored(schema')[t])
      BY <1>1, <1>3 DEF res
    <3> QED
      BY <1>1, <1>2, <1>3, <2>2, <3>1, <3>2, <3>3, ClassNoted
  <2>3. CASE /\ MayRedeclare(t, d) /\ MayContract(t, d) /\ ~MayPromote(t, d)
             /\ classes' = [classes EXCEPT ![t] = d]
             /\ contract' = [contract EXCEPT ![t] = con]
    <3>1. schema[t] \in ClassStmt => schema[t] = d
      BY <1>2, <2>3, RedeclaredIsStored
    <3>2. schema[t] \in Field
      BY <2>3, <3>1 DEF MayPromote
    <3>3. res[t] = Schemaless(schema[t])
      BY <1>3, <3>2, RestoredTells DEF res
    <3>4. res[t] # None /\ res[t].key = schema[t] /\ res[t].fields = {}
      BY <3>2, <3>3, SchemalessTyped, SentinelAssumption
    <3>5. contract[t] # None /\ contract[t].key = schema[t] /\ schema[t] # NoField
      BY <1>3, <3>2, <3>4, FieldAssumption DEF Covers
    <3>6. con.key = schema[t]
      BY <2>3, <3>5 DEF MayContract, Compatible, con
    <3>7. Covers(con, Restored(schema')[t])
      BY <1>1, <1>4, <3>4, <3>6 DEF Covers, res
    <3>8. con \in FactTypeContract \cup {None}
      BY <1>4
    <3> QED
      BY <1>1, <1>2, <1>3, <2>3, <3>1, <3>7, <3>8, ClassNoted
  <2> QED
    BY <2>1, <2>2, <2>3 DEF RefuseClass, con
<1>6. SoundFacts(facts', schema')
  BY <1>1, <1>2
<1>7. \A u \in Type : KeyKept(Restored(schema)[u], Restored(schema')[u])
  BY <1>1 DEF KeyKept
<1> QED
  BY <1>1, <1>5, <1>6, <1>7, StepKeeps

LEMMA WriteKeeps ==
  ASSUME IInv, OrderedProgram, NEW t \in Type, Write(t)
  PROVE  IInv' /\ KeysStep
BY InsertKeeps, UpdateKeeps, DeleteKeeps, SyncFactSourceKeeps, RejectFactSourceKeeps
DEF Write

LEMMA OpenDatabaseKeeps ==
  ASSUME IInv, OpenDatabase
  PROVE  IInv' /\ KeysStep
<1> DEFINE sch == Stored.schema
           cls == [t \in Type |-> IF sch[t] \in ClassStmt THEN sch[t] ELSE None]
<1>1. /\ sch \in [Type -> Schema] /\ BaseClasses(sch) /\ Restorable(sch)
      /\ SoundFacts(Stored.facts, sch)
  <2>1. CASE before = NoLoad
    BY <2>1 DEF IInv, Stored, Roots, SoundRoots
  <2>2. CASE before # NoLoad
    BY <2>2 DEF IInv, Stored, SoundRoots
  <2> QED
    BY <2>1, <2>2
<1>2. /\ schema' = sch /\ facts' = Stored.facts /\ contract' = Restored(sch)
      /\ unclaimed' = {t \in Type : sch[t] \in ClassStmt} /\ before' = NoLoad
  BY DEF OpenDatabase
<1>3. classes' = cls
  <2>1. \A t \in Type : t \in {u \in Type : sch[u] \in ClassStmt} <=> sch[t] \in ClassStmt
    OBVIOUS
  <2>2. classes' = [t \in Type |-> IF t \in {u \in Type : sch[u] \in ClassStmt}
                                  THEN sch[t] ELSE None]
    BY Zenon DEF OpenDatabase
  <2> HIDE DEF sch
  <2> QED
    BY <2>1, <2>2
<1> HIDE DEF sch, cls
<1>4. Restored(sch) \in [Type -> FactTypeContract \cup {None}]
  BY <1>1, RestoredGives
<1>5. cls \in [Type -> ClassStmt \cup {None}]
  BY DEF cls
<1>6. ASSUME NEW t \in Type
      PROVE  /\ Covers(contract'[t], Restored(schema')[t])
             /\ schema'[t] \in ClassStmt => classes'[t] = schema'[t]
             /\ contract'[t] # None /\ contract'[t].declaredClass => classes'[t] # None
             /\ t \in unclaimed' => schema'[t] \in ClassStmt
  <2>1. classes'[t] = IF sch[t] \in ClassStmt THEN sch[t] ELSE None
    BY <1>3 DEF cls
  <2>2. contract'[t] # None /\ contract'[t].declaredClass => sch[t] \in ClassStmt
    <3>1. sch[t] \in Field => contract'[t] = Schemaless(sch[t])
      BY <1>1, <1>2, RestoredTells
    <3>2. sch[t] = None => contract'[t] = None
      BY <1>1, <1>2, RestoredTells
    <3>3. sch[t] \in Field => contract'[t].declaredClass = FALSE
      BY <3>1, SchemalessTyped
    <3> QED
      BY <1>1, <3>2, <3>3 DEF Schema
  <2>3. Covers(contract'[t], Restored(schema')[t])
    BY <1>2 DEF Covers
  <2> QED
    BY <1>2, <2>1, <2>2, <2>3, SentinelAssumption
<1>7. SoundRoots(schema', contract', classes', unclaimed')
  BY <1>1, <1>2, <1>3, <1>4, <1>5, <1>6 DEF SoundRoots
<1>8. IInv'
  BY <1>1, <1>2, <1>7 DEF IInv
<1>9. Stored'.schema = schema'
  BY <1>2 DEF Stored, Roots
<1> QED
  BY <1>2, <1>8, <1>9 DEF KeysStep, KeyKept, sch

LEMMA BeginModuleKeeps ==
  ASSUME IInv, BeginModule
  PROVE  IInv' /\ KeysStep
<1>1. /\ before = NoLoad /\ before' = Roots
      /\ UNCHANGED <<schema, facts, contract, classes, unclaimed>>
  BY DEF BeginModule
<1>2. /\ Roots.schema = schema /\ Roots.facts = facts /\ Roots.contract = contract
      /\ Roots.classes = classes /\ Roots.unclaimed = unclaimed
  BY DEF Roots
<1>3. /\ before'.schema = schema /\ before'.facts = facts /\ before'.contract = contract
      /\ before'.classes = classes /\ before'.unclaimed = unclaimed
  BY <1>1, <1>2
<1>4. IInv'
  BY <1>1, <1>3 DEF IInv, KeyKept
<1>5. Stored.schema = schema /\ Stored'.schema = schema
  <2>1. Stored = Roots
    BY <1>1 DEF Stored
  <2>2. Roots'.schema = schema
    BY <1>1 DEF Roots
  <2>3. Stored'.schema = schema
    BY <1>3, <2>2 DEF Stored
  <2> QED
    BY <1>2, <2>1, <2>3
<1> QED
  BY <1>4, <1>5 DEF KeysStep, KeyKept

LEMMA CommitModuleKeeps ==
  ASSUME IInv, CommitModule
  PROVE  IInv' /\ KeysStep
<1>1. /\ before # NoLoad /\ before' = NoLoad
      /\ UNCHANGED <<schema, facts, contract, classes, unclaimed>>
  BY DEF CommitModule
<1>2. IInv'
  BY <1>1 DEF IInv
<1>3. \A t \in Type : KeyKept(Restored(before.schema)[t], Restored(schema)[t])
  BY <1>1 DEF IInv
<1>4. Stored.schema = before.schema /\ Stored'.schema = schema
  BY <1>1 DEF Stored, Roots
<1> QED
  BY <1>2, <1>3, <1>4 DEF KeysStep

LEMMA RollbackModuleKeeps ==
  ASSUME IInv, RollbackModule
  PROVE  IInv' /\ KeysStep
<1>1. /\ before # NoLoad /\ before' = NoLoad
      /\ schema' = before.schema /\ facts' = before.facts
      /\ contract' = before.contract /\ classes' = before.classes
      /\ unclaimed' = before.unclaimed
  BY DEF RollbackModule
<1>2. IInv'
  BY <1>1 DEF IInv
<1>3. Stored.schema = before.schema /\ Stored'.schema = before.schema
  BY <1>1 DEF Stored, Roots
<1> QED
  BY <1>2, <1>3 DEF KeysStep, KeyKept
-----------------------------------------------------------------------------
(* The theorems.                                                           *)

LEMMA InitIInv == Init => IInv
<1> SUFFICES ASSUME Init PROVE IInv
  OBVIOUS
<1>1. /\ schema = [t \in Type |-> None] /\ facts = [t \in Type |-> {}]
      /\ contract = [t \in Type |-> None] /\ classes = [t \in Type |-> None]
      /\ unclaimed = {} /\ before = NoLoad
  BY DEF Init
<1>2. schema \in [Type -> Schema] /\ \A t \in Type : schema[t] = None /\ contract[t] = None
  BY <1>1 DEF Schema
<1>3. None \notin ClassStmt
  BY SentinelAssumption
<1>4. BaseClasses(schema) /\ Restorable(schema)
  BY <1>2, <1>3 DEF BaseClasses, Restorable, Type
<1>5. \A t \in Type : Covers(contract[t], Restored(schema)[t])
  BY <1>2, <1>4, RestoredTells DEF Covers
<1>6. SoundRoots(schema, contract, classes, unclaimed)
  BY <1>1, <1>2, <1>3, <1>4, <1>5 DEF SoundRoots
<1>7. SoundFacts(facts, schema)
  BY <1>1 DEF SoundFacts
<1> QED
  BY <1>1, <1>6, <1>7 DEF IInv

LEMMA NextIInv == OrderedProgram /\ IInv /\ [Next]_vars => IInv' /\ KeysStep
<1> SUFFICES ASSUME OrderedProgram, IInv, [Next]_vars PROVE IInv' /\ KeysStep
  OBVIOUS
<1>1. CASE OpenDatabase
  BY <1>1, OpenDatabaseKeeps
<1>2. CASE BeginModule
  BY <1>2, BeginModuleKeeps
<1>3. CASE CommitModule
  BY <1>3, CommitModuleKeeps
<1>4. CASE RollbackModule
  BY <1>4, RollbackModuleKeeps
<1>5. CASE \E t \in Type : Write(t)
  BY <1>5, WriteKeeps
<1>6. CASE \E t \in Type, d \in ClassStmt : DeclareClass(t, d)
  BY <1>6, DeclareClassKeeps
<1>7. CASE \E t \in Type, d \in ClassStmt : RefuseClass(t, d)
  BY <1>7, RefuseClassKeeps
<1>8. CASE UNCHANGED vars
  BY <1>8, StepKeeps DEF vars, IInv, KeyKept
<1> QED
  BY <1>1, <1>2, <1>3, <1>4, <1>5, <1>6, <1>7, <1>8 DEF Next

LEMMA Invariance == ASSUME OrderedProgram PROVE Spec => []IInv
<1>1. IInv /\ [Next]_vars => IInv'
  BY NextIInv
<1> QED
  BY <1>1, InitIInv, PTL DEF Spec

\* Every stored fact is under the key that factKey computes from the contract
\* of its type, in this session and after any number of openings, loads that
\* fail, declarations that fail and are caught, and classes declared for stored
\* facts, for any types and fields: as long as no type gets a contract after
\* its subclass and no source is rejected that holds the first facts of a type
\* (OrderedProgram).
THEOREM KeyedAsContractedHolds == ASSUME OrderedProgram PROVE Spec => []KeyedAsContracted
<1>1. IInv => KeyedAsContracted
  BY DEF IInv, SoundRoots, SoundFacts, Covers, KeyedAsContracted
<1> QED
  BY <1>1, Invariance, PTL

\* Every stored fact has all fields that the stored schemas give its type,
\* inherited ones included, whatever declarations a load has caught: the
\* promotion in addProgram looks at the own fields of the class and of its
\* parents, and under OrderedProgram these are all there are.
THEOREM StoredFieldsPresentHolds == ASSUME OrderedProgram PROVE Spec => []StoredFieldsPresent
<1>1. IInv => StoredFieldsPresent
  BY DEF IInv, SoundFacts, StoredFieldsPresent
<1> QED
  BY <1>1, Invariance, PTL

\* openDatabase never meets, in a database written by these programs, a class
\* that it cannot restore.
THEOREM ReopenableHolds == ASSUME OrderedProgram PROVE Spec => []Reopenable
<1>1. IInv => Reopenable
  <2>1. CASE before = NoLoad
    BY <2>1 DEF IInv, SoundRoots, Reopenable, Stored, Roots
  <2>2. CASE before # NoLoad
    BY <2>2 DEF IInv, SoundRoots, Reopenable, Stored
  <2> QED
    BY <2>1, <2>2
<1> QED
  BY <1>1, Invariance, PTL

\* The key under which the next session looks for the facts of a type is never
\* another one, once it is stored.
THEOREM KeysAreFinalHolds == ASSUME OrderedProgram PROVE Spec => KeysAreFinal
<1>1. IInv /\ [Next]_vars =>
        [LET old == Restored(Stored.schema)
             new == Restored(Stored'.schema)
         IN  Stored'.schema # Stored.schema =>
                \A t \in Type : old[t] # None => new[t] # None /\
                   (old[t].key # NoField => new[t].key = old[t].key)]_vars
  BY NextIInv DEF KeysStep, KeyKept
<1> QED
  BY <1>1, Invariance, PTL DEF Spec, KeysAreFinal
===============================================================================
