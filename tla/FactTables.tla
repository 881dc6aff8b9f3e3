------------------------------ MODULE FactTables -------------------------------
(***************************************************************************)
(* The record tables of Felidae's store and the operations of              *)
(* RocksFactStore on them (src/src/RocksFactStore.cpp).  Every fact is a   *)
(* row of the node table under its primary key, and is repeated, key by    *)
(* key, in the tables derived from it:                                     *)
(*                                                                         *)
(*   node      N  primary key -> id, value, designations                   *)
(*   byId      D  id -> primary key                                        *)
(*   meta      P  and T, provenance and temporal metadata, by id           *)
(*   tagged    Q  (designation, id)                                        *)
(*   index     X  (field, datum, id), written by the interpreter           *)
(*   link      R  id -> source, target, properties                         *)
(*   out, in   O  and I, the same row under its source and its target      *)
(*   nextNode, nextLink   M  the two id sequences                          *)
(*                                                                         *)
(* The tables are one value here, so that the operators apply alike to the *)
(* committed database and to what a transaction reads.  Nothing in the     *)
(* store keeps the derived tables in step but the operations themselves.   *)
(***************************************************************************)
EXTENDS Integers

CONSTANTS Field,        \* the fields of a fact
          KeyField,     \* the field its class names as the key
          Indexed,      \* the fields with a declared index
          Datum,        \* field values
          Structured,   \* those that cannot be keys or be indexed: maps, arrays
          Tag,          \* designations
          Property,     \* property maps of links
          MaxNode,      \* last id of the node sequence
          MaxLink,      \* last id of the link sequence
          NoRow,        \* no row under the key
          NoKey         \* no primary key under the id

ASSUME FieldAssumption ==
    /\ KeyField \in Field
    /\ Indexed \subseteq Field
    /\ Structured \subseteq Datum

\* The sequences end where the code throws "Felidae id space exhausted".
ASSUME SequenceAssumption == MaxNode \in Nat /\ MaxLink \in Nat

Key == Datum \ Structured
Id == 1 .. MaxNode
LinkId == 1 .. MaxLink
Value == [Field -> Datum]
Row == [id : Id, val : Value, tags : SUBSET Tag]
Link == [id : LinkId, src : Id, dst : Id, props : Property]

ASSUME SentinelAssumption == NoRow \notin Row /\ NoKey \notin Key

Tables ==
    [node : [Key -> Row \cup {NoRow}],
     byId : [Id -> Key \cup {NoKey}],
     meta : SUBSET Id,
     tagged : SUBSET (Tag \X Id),
     index : SUBSET (Indexed \X Datum \X Id),
     link : SUBSET Link,
     out : SUBSET Link,
     in : SUBSET Link,
     nextNode : 1 .. MaxNode + 1,
     nextLink : 1 .. MaxLink + 1]

EmptyTables ==
    [node |-> [k \in Key |-> NoRow],
     byId |-> [i \in Id |-> NoKey],
     meta |-> {}, tagged |-> {}, index |-> {},
     link |-> {}, out |-> {}, in |-> {},
     nextNode |-> 1, nextLink |-> 1]

------------------------------------------------------------------------------
(* Reading *)

\* The ids of the stored facts (findFactById).
Live(t) == {i \in Id : t.byId[i] # NoKey}

\* The row findFactById returns: the id's key, then the row under that key.
RowOf(t, i) == t.node[t.byId[i]]

\* Faulty variant: the wrong end of the link is compared.
IncomingBySource(t, i) == {l \in t.in : l.src = i}

Incoming(t, i) == {l \in t.in : l.dst = i}
Outgoing(t, i) == {l \in t.out : l.src = i}

\* insertLink's search among the outgoing links of the source.
SameLink(t, src, dst, props) ==
    {l \in Outgoing(t, src) : l.dst = dst /\ l.props = props}

TagEntries(tags, i) == tags \X {i}

\* factIndexes: one entry per declared index.  It throws when an indexed value
\* is not a scalar.
IndexEntries(val, i) == {<<f, val[f], i>> : f \in Indexed}
Indexable(val) == \A f \in Indexed : val[f] \notin Structured

------------------------------------------------------------------------------
(* Writing.  What the callers check first is in the guards above the call. *)

\* Faulty variant: the id of a deleted record is handed out again.
InsertFactReusingIds(t, val, tags) ==
    LET i == CHOOSE j \in Id : t.byId[j] = NoKey /\ j <= t.nextNode
    IN  [t EXCEPT !.node[val[KeyField]] = [id |-> i, val |-> val, tags |-> tags],
                  !.byId[i] = val[KeyField],
                  !.meta = @ \cup {i},
                  !.tagged = @ \cup TagEntries(tags, i),
                  !.nextNode = IF i = @ THEN i + 1 ELSE @]

\* insertFact on a key without a row: the id comes from the sequence.
InsertFact(t, val, tags) ==
    LET i == t.nextNode
    IN  [t EXCEPT !.node[val[KeyField]] = [id |-> i, val |-> val, tags |-> tags],
                  !.byId[i] = val[KeyField],
                  !.meta = @ \cup {i},
                  !.tagged = @ \cup TagEntries(tags, i),
                  !.nextNode = i + 1]

\* Faulty variant: a record that moves leaves its D row at the old key.
ReplaceFactKeepingOldKey(t, key, val, tags) ==
    LET row == [id |-> t.node[key].id, val |-> val, tags |-> tags]
    IN  [t EXCEPT !.node = [[@ EXCEPT ![key] = NoRow]
                               EXCEPT ![val[KeyField]] = row]]

\* updateFact and replaceFact: the row moves from one key to the next one,
\* which may be the same, and keeps its id.
ReplaceFact(t, key, val, tags) ==
    LET old == t.node[key]
        vacated == [t.node EXCEPT ![key] = NoRow]
    IN  [t EXCEPT !.node = [vacated EXCEPT ![val[KeyField]] =
                               [id |-> old.id, val |-> val, tags |-> tags]],
                  !.byId[old.id] = val[KeyField],
                  !.meta = @ \cup {old.id},
                  !.tagged = (@ \ TagEntries(old.tags, old.id))
                                \cup TagEntries(tags, old.id)]

\* Faulty variant: the rows under the targets stay.
RemoveLinksKeepingIncoming(t, links) ==
    [t EXCEPT !.link = @ \ links, !.out = @ \ links]

RemoveLinks(t, links) ==
    [t EXCEPT !.link = @ \ links, !.out = @ \ links, !.in = @ \ links]

\* Faulty variants: the Q rows stay; P and T stay.
DeleteFactKeepingTags(t, key) ==
    LET row == t.node[key]
    IN  [RemoveLinks(t, Outgoing(t, row.id)) EXCEPT
            !.node[key] = NoRow, !.byId[row.id] = NoKey,
            !.meta = @ \ {row.id}]

DeleteFactKeepingMetadata(t, key) ==
    LET row == t.node[key]
    IN  [RemoveLinks(t, Outgoing(t, row.id)) EXCEPT
            !.node[key] = NoRow, !.byId[row.id] = NoKey,
            !.tagged = @ \ TagEntries(row.tags, row.id)]

\* deleteFact: the row, its derived entries and its outgoing links.
DeleteFact(t, key) ==
    LET row == t.node[key]
        unlinked == RemoveLinks(t, Outgoing(t, row.id))
    IN  [unlinked EXCEPT !.node[key] = NoRow,
                         !.byId[row.id] = NoKey,
                         !.meta = @ \ {row.id},
                         !.tagged = @ \ TagEntries(row.tags, row.id)]

\* Faulty variant: the old entries are left for the new ones to replace.
RemoveIndexesNever(t, val, i) == t

AddIndexes(t, val, i) == [t EXCEPT !.index = @ \cup IndexEntries(val, i)]
RemoveIndexes(t, val, i) == [t EXCEPT !.index = @ \ IndexEntries(val, i)]

\* Faulty variant: an id is allocated for the row and another for its copies.
InsertLinkAllocatingTwice(t, src, dst, props) ==
    LET l == [id |-> t.nextLink, src |-> src, dst |-> dst, props |-> props]
    IN  [t EXCEPT !.link = @ \cup {l},
                  !.out = @ \cup {[l EXCEPT !.id = t.nextLink + 1]},
                  !.in = @ \cup {[l EXCEPT !.id = t.nextLink + 1]},
                  !.nextLink = @ + 2]

\* insertLink when no equal link is stored.
InsertLink(t, src, dst, props) ==
    LET l == [id |-> t.nextLink, src |-> src, dst |-> dst, props |-> props]
    IN  [t EXCEPT !.link = @ \cup {l}, !.out = @ \cup {l}, !.in = @ \cup {l},
                  !.nextLink = @ + 1]

------------------------------------------------------------------------------
(* What it means for the tables to agree *)

\* Primary keys and ids are two names of one record: the D entry of every row
\* leads back to it, every D entry leads to a row with that id, the row's key
\* field says under which key it lies, and no id has yet to be allocated.
IdentitiesAgree(t) ==
    /\ \A k \in Key : t.node[k] # NoRow =>
          /\ t.byId[t.node[k].id] = k
          /\ t.node[k].val[KeyField] = k
    /\ \A i \in Live(t) : /\ RowOf(t, i) # NoRow
                          /\ RowOf(t, i).id = i
                          /\ i < t.nextNode

\* Every live record has its metadata rows and no dead one has.
MetadataExact(t) == t.meta = Live(t)

\* The designation table lists exactly the designations of the live records.
DesignationsExact(t) ==
    t.tagged = {e \in Tag \X Id : /\ e[2] \in Live(t)
                                  /\ e[1] \in RowOf(t, e[2]).tags}

\* The index table lists exactly the indexed values of the live records.
IndexExact(t) ==
    t.index = {e \in Indexed \X Datum \X Id :
                  /\ e[3] \in Live(t)
                  /\ RowOf(t, e[3]).val[e[1]] = e[2]}

\* The three copies of every link agree, link ids are unique and allocated,
\* and no two links say the same.
AdjacencyExact(t) ==
    /\ t.out = t.link
    /\ t.in = t.link
    /\ \A l \in t.link : l.id < t.nextLink
    /\ \A l, m \in t.link :
          \/ l.id = m.id
          \/ <<l.src, l.dst, l.props>> = <<m.src, m.dst, m.props>>
          => l = m

\* A link joins two records that exist.
LinksAttached(t) == \A l \in t.link : {l.src, l.dst} \subseteq Live(t)
==============================================================================
