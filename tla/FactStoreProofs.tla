---------------------------- MODULE FactStoreProofs ----------------------------
(***************************************************************************)
(* The invariants of FactStore for every set of sessions, keys, values,    *)
(* designations and ids.  One inductive invariant carries them all: both   *)
(* copies of the tables are sound, the working copy has only grown out of  *)
(* the committed one, and only a transaction can be a module load.         *)
(***************************************************************************)
EXTENDS FactStore, TLAPS

------------------------------------------------------------------------------
(* Every operation of FactTables keeps the tables in agreement, whatever   *)
(* the keys, values, designations and ids.                                 *)

\* What every table operation preserves by itself.  The index table is apart:
\* its entries are written by calls of their own (IndexExact below).
Sound(t) ==
    /\ t \in Tables
    /\ IdentitiesAgree(t)
    /\ MetadataExact(t)
    /\ DesignationsExact(t)
    /\ AdjacencyExact(t)

\* From tables a to tables b the sequence only advanced, what came to life
\* since has an id from it, and what lived on has kept its designations.
Grown(a, b) ==
    /\ a.nextNode <= b.nextNode
    /\ \A i \in Live(b) \ Live(a) : a.nextNode <= i
    /\ \A i \in Live(a) \cap Live(b) : RowOf(a, i).tags \subseteq RowOf(b, i).tags

------------------------------------------------------------------------------
(* What each operation does, table by table *)

\* A live id leads to the row that carries it, under the key the row names.
LEMMA LiveRow ==
    ASSUME NEW t \in Tables, IdentitiesAgree(t), NEW i \in Live(t)
    PROVE  /\ t.byId[i] \in Key
           /\ RowOf(t, i) \in Row
           /\ RowOf(t, i).id = i
           /\ RowOf(t, i).val \in Value
           /\ RowOf(t, i).tags \in SUBSET Tag
           /\ RowOf(t, i).val[KeyField] = t.byId[i]
           /\ RowOf(t, i) = t.node[t.byId[i]]
           /\ RowOf(t, i) # NoRow
           /\ i \in Id
  <1>1. i \in Id /\ t.byId[i] \in Key
    BY DEF Live, Tables
  <1>2. RowOf(t, i) \in Row
    BY <1>1 DEF IdentitiesAgree, RowOf, Tables
  <1>3. RowOf(t, i).id = i /\ t.node[t.byId[i]] # NoRow
    BY DEF IdentitiesAgree, RowOf
  <1>4. RowOf(t, i).val[KeyField] = t.byId[i]
    BY <1>1, <1>3 DEF IdentitiesAgree, RowOf
  <1>5. RowOf(t, i).val \in Value /\ RowOf(t, i).tags \in SUBSET Tag
    BY <1>2 DEF Row
  <1>. QED
    BY <1>1, <1>2, <1>3, <1>4, <1>5 DEF RowOf

\* A stored row's id is live and names it.
LEMMA StoredRow ==
    ASSUME NEW t \in Tables, IdentitiesAgree(t),
           NEW k \in Key, t.node[k] # NoRow
    PROVE  /\ t.node[k] \in Row
           /\ t.node[k].id \in Id
           /\ t.node[k].val \in Value
           /\ t.node[k].tags \in SUBSET Tag
           /\ t.node[k].id \in Live(t)
           /\ t.byId[t.node[k].id] = k
           /\ RowOf(t, t.node[k].id) = t.node[k]
  <1>1. t.node[k] \in Row
    BY DEF Tables
  <1>2. t.node[k].id \in Id /\ t.node[k].val \in Value
        /\ t.node[k].tags \in SUBSET Tag
    BY <1>1 DEF Row
  <1>3. t.byId[t.node[k].id] = k
    BY DEF IdentitiesAgree
  <1>. QED
    BY <1>1, <1>2, <1>3, SentinelAssumption DEF Live, RowOf

LEMMA InsertFactTables ==
    ASSUME NEW t \in Tables, NEW val \in Value, val[KeyField] \in Key,
           NEW tags \in SUBSET Tag, t.nextNode \in Id,
           NEW u, u = InsertFact(t, val, tags)
    PROVE  /\ u \in Tables
           /\ u.node = [t.node EXCEPT ![val[KeyField]] =
                           [id |-> t.nextNode, val |-> val, tags |-> tags]]
           /\ u.byId = [t.byId EXCEPT ![t.nextNode] = val[KeyField]]
           /\ u.meta = t.meta \cup {t.nextNode}
           /\ u.tagged = t.tagged \cup TagEntries(tags, t.nextNode)
           /\ u.nextNode = t.nextNode + 1
           /\ u.link = t.link /\ u.out = t.out /\ u.in = t.in
           /\ u.index = t.index /\ u.nextLink = t.nextLink
  <1>1. t.nextNode + 1 \in 1 .. MaxNode + 1
    BY SequenceAssumption DEF Id
  <1>2. [id |-> t.nextNode, val |-> val, tags |-> tags] \in Row
    BY DEF Row
  <1>3. TagEntries(tags, t.nextNode) \in SUBSET (Tag \X Id)
    BY DEF TagEntries
  <1>. QED
    BY <1>1, <1>2, <1>3 DEF InsertFact, Tables

LEMMA ReplaceFactTables ==
    ASSUME NEW t \in Tables, NEW key \in Key, t.node[key] \in Row,
           NEW val \in Value, val[KeyField] \in Key, NEW tags \in SUBSET Tag,
           NEW u, u = ReplaceFact(t, key, val, tags),
           NEW i, i = t.node[key].id
    PROVE  /\ u \in Tables
           /\ u.node = [[t.node EXCEPT ![key] = NoRow]
                           EXCEPT ![val[KeyField]] =
                              [id |-> i, val |-> val, tags |-> tags]]
           /\ u.byId = [t.byId EXCEPT ![i] = val[KeyField]]
           /\ u.meta = t.meta \cup {i}
           /\ u.tagged = (t.tagged \ TagEntries(t.node[key].tags, i))
                            \cup TagEntries(tags, i)
           /\ u.nextNode = t.nextNode
           /\ u.link = t.link /\ u.out = t.out /\ u.in = t.in
           /\ u.index = t.index /\ u.nextLink = t.nextLink
  BY DEF ReplaceFact, Tables, Row, TagEntries

LEMMA DeleteFactTables ==
    ASSUME NEW t \in Tables, NEW key \in Key, t.node[key] \in Row,
           NEW u, u = DeleteFact(t, key),
           NEW i, i = t.node[key].id
    PROVE  /\ u \in Tables
           /\ u.node = [t.node EXCEPT ![key] = NoRow]
           /\ u.byId = [t.byId EXCEPT ![i] = NoKey]
           /\ u.meta = t.meta \ {i}
           /\ u.tagged = t.tagged \ TagEntries(t.node[key].tags, i)
           /\ u.nextNode = t.nextNode
           /\ u.link = t.link \ Outgoing(t, i)
           /\ u.out = t.out \ Outgoing(t, i)
           /\ u.in = t.in \ Outgoing(t, i)
           /\ u.index = t.index /\ u.nextLink = t.nextLink
  <1> DEFINE gone == Outgoing(t, i)
             w == RemoveLinks(t, gone)
             tagged == t.tagged \ TagEntries(t.node[key].tags, i)
  <1>1. /\ w \in Tables
        /\ w.link = t.link \ gone /\ w.out = t.out \ gone /\ w.in = t.in \ gone
        /\ w.node = t.node /\ w.byId = t.byId /\ w.meta = t.meta
        /\ w.tagged = t.tagged /\ w.index = t.index
        /\ w.nextNode = t.nextNode /\ w.nextLink = t.nextLink
    BY DEF RemoveLinks, Tables
  <1>2. /\ [t.node EXCEPT ![key] = NoRow] \in [Key -> Row \cup {NoRow}]
        /\ [t.byId EXCEPT ![i] = NoKey] \in [Id -> Key \cup {NoKey}]
        /\ t.meta \ {i} \in SUBSET Id
        /\ tagged \in SUBSET (Tag \X Id)
    BY DEF Tables, Row
  <1>3. u = [w EXCEPT !.node[key] = NoRow, !.byId[i] = NoKey,
                      !.meta = @ \ {i},
                      !.tagged = @ \ TagEntries(t.node[key].tags, i)]
    BY Zenon DEF DeleteFact
  <1> HIDE DEF gone, w
  <1>4. u = [node |-> [t.node EXCEPT ![key] = NoRow],
             byId |-> [t.byId EXCEPT ![i] = NoKey],
             meta |-> t.meta \ {i}, tagged |-> tagged, index |-> t.index,
             link |-> t.link \ gone, out |-> t.out \ gone, in |-> t.in \ gone,
             nextNode |-> t.nextNode, nextLink |-> t.nextLink]
    <2>1. w = [node |-> t.node, byId |-> t.byId, meta |-> t.meta,
               tagged |-> t.tagged, index |-> t.index, link |-> t.link \ gone,
               out |-> t.out \ gone, in |-> t.in \ gone,
               nextNode |-> t.nextNode, nextLink |-> t.nextLink]
      BY <1>1 DEF Tables
    <2>. QED
      BY <1>3, <2>1, ZenonT(60)
  <1>5. /\ t.link \ gone \in SUBSET Link /\ t.out \ gone \in SUBSET Link
        /\ t.in \ gone \in SUBSET Link /\ t.index \in SUBSET (Indexed \X Datum \X Id)
        /\ t.nextNode \in 1 .. MaxNode + 1 /\ t.nextLink \in 1 .. MaxLink + 1
    BY DEF Tables
  <1>6. u \in Tables
    BY <1>2, <1>4, <1>5 DEF Tables
  <1>. QED
    BY <1>4, <1>6 DEF gone

LEMMA InsertLinkTables ==
    ASSUME NEW t \in Tables, NEW src \in Id, NEW dst \in Id,
           NEW props \in Property, t.nextLink \in LinkId,
           NEW u, u = InsertLink(t, src, dst, props),
           NEW l, l = [id |-> t.nextLink, src |-> src,
                       dst |-> dst, props |-> props]
    PROVE  /\ u \in Tables
           /\ u.link = t.link \cup {l}
           /\ u.out = t.out \cup {l}
           /\ u.in = t.in \cup {l}
           /\ u.nextLink = t.nextLink + 1
           /\ u.node = t.node /\ u.byId = t.byId /\ u.meta = t.meta
           /\ u.tagged = t.tagged /\ u.index = t.index
           /\ u.nextNode = t.nextNode
  <1>1. t.nextLink + 1 \in 1 .. MaxLink + 1
    BY SequenceAssumption DEF LinkId
  <1>2. l \in Link
    BY DEF Link
  <1>. QED
    BY <1>1, <1>2 DEF InsertLink, Tables

LEMMA IndexTables ==
    ASSUME NEW t \in Tables, NEW val \in Value, NEW i \in Id,
           NEW u, \/ u = AddIndexes(t, val, i)
                  \/ u = RemoveIndexes(t, val, i)
    PROVE  /\ u \in Tables
           /\ u.node = t.node /\ u.byId = t.byId /\ u.meta = t.meta
           /\ u.tagged = t.tagged /\ u.nextNode = t.nextNode
           /\ u.link = t.link /\ u.out = t.out /\ u.in = t.in
           /\ u.nextLink = t.nextLink
  <1>1. IndexEntries(val, i) \in SUBSET (Indexed \X Datum \X Id)
    BY FieldAssumption DEF IndexEntries, Value
  <1>. QED
    BY <1>1 DEF AddIndexes, RemoveIndexes, Tables

------------------------------------------------------------------------------
(* Soundness is preserved *)

\* The empty database is sound.
LEMMA EmptySound == Sound(EmptyTables) /\ IndexExact(EmptyTables)
  <1>1. EmptyTables \in Tables
    BY SequenceAssumption DEF EmptyTables, Tables, Id, LinkId
  <1>2. Live(EmptyTables) = {}
    BY DEF EmptyTables, Live
  <1>3. \A k \in Key : EmptyTables.node[k] = NoRow
    BY DEF EmptyTables
  <1>. QED
    BY <1>1, <1>2, <1>3
    DEF Sound, IdentitiesAgree, MetadataExact, DesignationsExact,
        AdjacencyExact, IndexExact, EmptyTables

\* Index entries come and go without touching the other tables.
LEMMA IndexesKeepSound ==
    ASSUME NEW t, Sound(t), NEW val \in Value, NEW i \in Id,
           NEW u, \/ u = AddIndexes(t, val, i)
                  \/ u = RemoveIndexes(t, val, i)
    PROVE  /\ Sound(u)
           /\ Live(u) = Live(t)
           /\ \A j : RowOf(u, j) = RowOf(t, j)
           /\ u.node = t.node /\ u.nextNode = t.nextNode
           /\ u.in = t.in
  <1>1. /\ u \in Tables
        /\ u.node = t.node /\ u.byId = t.byId /\ u.meta = t.meta
        /\ u.tagged = t.tagged /\ u.nextNode = t.nextNode
        /\ u.link = t.link /\ u.out = t.out /\ u.in = t.in
        /\ u.nextLink = t.nextLink
    BY IndexTables DEF Sound
  <1>2. Live(u) = Live(t) /\ \A j : RowOf(u, j) = RowOf(t, j)
    BY <1>1 DEF Live, RowOf
  <1>. QED
    BY <1>1, <1>2
    DEF Sound, IdentitiesAgree, MetadataExact, DesignationsExact,
        AdjacencyExact

\* The designation table entry by entry.
LEMMA DesignationsByEntry ==
    ASSUME NEW t \in Tables
    PROVE  DesignationsExact(t)
             <=> \A g \in Tag, i \in Id :
                    <<g, i>> \in t.tagged
                      <=> i \in Live(t) /\ g \in RowOf(t, i).tags
  <1>1. \A e \in t.tagged : e \in Tag \X Id
    BY DEF Tables
  <1>2. \A e \in Tag \X Id : \E g \in Tag, i \in Id : e = <<g, i>>
    OBVIOUS
  <1>. QED
    BY <1>1, <1>2 DEF DesignationsExact

\* The index table entry by entry.
LEMMA IndexByEntry ==
    ASSUME NEW t \in Tables
    PROVE  IndexExact(t)
             <=> \A f \in Indexed, d \in Datum, i \in Id :
                    <<f, d, i>> \in t.index
                      <=> i \in Live(t) /\ RowOf(t, i).val[f] = d
  <1>1. \A e \in t.index : e \in Indexed \X Datum \X Id
    BY DEF Tables
  <1>2. \A e \in Indexed \X Datum \X Id :
           \E f \in Indexed, d \in Datum, i \in Id : e = <<f, d, i>>
    OBVIOUS
  <1>. QED
    BY <1>1, <1>2 DEF IndexExact

\* insertFact on a free key with an id from the sequence.
LEMMA InsertFactSound ==
    ASSUME NEW t, Sound(t), NEW val \in Value, val[KeyField] \in Key,
           NEW tags \in SUBSET Tag, t.nextNode \in Id,
           t.node[val[KeyField]] = NoRow,
           NEW u, u = InsertFact(t, val, tags),
           NEW i, i = t.nextNode
    PROVE  /\ Sound(u)
           /\ Live(u) = Live(t) \cup {i}
           /\ i \notin Live(t)
           /\ RowOf(u, i) = [id |-> i, val |-> val, tags |-> tags]
           /\ \A j \in Live(t) : RowOf(u, j) = RowOf(t, j)
           /\ u.index = t.index /\ u.link = t.link /\ u.nextNode = i + 1
  <1> DEFINE key == val[KeyField]
             row == [id |-> i, val |-> val, tags |-> tags]
  <1>1. t \in Tables /\ IdentitiesAgree(t)
    BY DEF Sound
  <1>2. /\ u \in Tables
        /\ u.node = [t.node EXCEPT ![key] = row]
        /\ u.byId = [t.byId EXCEPT ![i] = key]
        /\ u.meta = t.meta \cup {i}
        /\ u.tagged = t.tagged \cup TagEntries(tags, i)
        /\ u.nextNode = i + 1
        /\ u.link = t.link /\ u.out = t.out /\ u.in = t.in
        /\ u.index = t.index /\ u.nextLink = t.nextLink
    BY <1>1, InsertFactTables
  <1>3. row \in Row
    BY DEF Row
  <1>4. i \notin Live(t)
    BY <1>1 DEF IdentitiesAgree, Id
  <1>5. \A k \in Key : u.node[k] = IF k = key THEN row ELSE t.node[k]
    BY <1>1, <1>2 DEF Tables
  <1>6. \A j \in Id : u.byId[j] = IF j = i THEN key ELSE t.byId[j]
    BY <1>1, <1>2 DEF Tables
  <1>7. Live(u) = Live(t) \cup {i}
    BY <1>6, SentinelAssumption DEF Live
  <1>8. RowOf(u, i) = row
    BY <1>5, <1>6 DEF RowOf
  <1>9. \A j \in Live(t) : u.byId[j] = t.byId[j] /\ RowOf(u, j) = RowOf(t, j)
    <2> TAKE j \in Live(t)
    <2>1. j \in Id /\ t.byId[j] \in Key /\ RowOf(t, j) # NoRow
      BY <1>1, LiveRow DEF IdentitiesAgree
    <2>2. t.byId[j] # key
      BY <2>1 DEF RowOf
    <2>. QED
      BY <2>1, <2>2, <1>4, <1>5, <1>6 DEF RowOf
  <1>10. IdentitiesAgree(u)
    <2>1. \A k \in Key : u.node[k] # NoRow =>
             u.byId[u.node[k].id] = k /\ u.node[k].val[KeyField] = k
      <3> SUFFICES ASSUME NEW k \in Key, u.node[k] # NoRow
                   PROVE  /\ u.byId[u.node[k].id] = k
                          /\ u.node[k].val[KeyField] = k
        OBVIOUS
      <3>1. CASE k = key
        BY <3>1, <1>5, <1>6
      <3>2. CASE k # key
        <4>1. u.node[k] = t.node[k] /\ t.node[k] # NoRow
          BY <3>2, <1>5
        <4>2. t.node[k].id \in Live(t) /\ t.byId[t.node[k].id] = k
          BY <4>1, <1>1, StoredRow
        <4>. QED
          BY <4>1, <4>2, <1>1, <1>9 DEF IdentitiesAgree
      <3>. QED
        BY <3>1, <3>2
    <2>2. ASSUME NEW j \in Live(u)
          PROVE  /\ RowOf(u, j) # NoRow
                 /\ RowOf(u, j).id = j
                 /\ j < u.nextNode
      <3>1. CASE j = i
        BY <3>1, <1>2, <1>3, <1>8, SentinelAssumption DEF Id
      <3>2. CASE j # i
        <4>1. j \in Live(t)
          BY <3>2, <1>7
        <4>2. j < t.nextNode /\ j \in Id
          BY <4>1, <1>1 DEF IdentitiesAgree, Live
        <4>3. j < u.nextNode
          BY <4>2, <1>2 DEF Id
        <4>. QED
          BY <4>1, <4>3, <1>1, <1>9 DEF IdentitiesAgree
      <3>. QED
        BY <3>1, <3>2
    <2>. QED
      BY <2>1, <2>2 DEF IdentitiesAgree
  <1>11. MetadataExact(u)
    BY <1>2, <1>7 DEF Sound, MetadataExact
  <1>12. DesignationsExact(u)
    <2>1. ASSUME NEW g \in Tag, NEW j \in Id
          PROVE  <<g, j>> \in u.tagged
                   <=> j \in Live(u) /\ g \in RowOf(u, j).tags
      <3>1. <<g, j>> \in t.tagged
              <=> j \in Live(t) /\ g \in RowOf(t, j).tags
        BY <1>1, DesignationsByEntry DEF Sound
      <3>2. <<g, j>> \in TagEntries(tags, i) <=> j = i /\ g \in tags
        BY DEF TagEntries
      <3>3. CASE j = i
        BY <3>1, <3>2, <3>3, <1>2, <1>4, <1>7, <1>8
      <3>4. CASE j # i
        BY <3>1, <3>2, <3>4, <1>2, <1>7, <1>9
      <3>. QED
        BY <3>3, <3>4
    <2>. QED
      BY <2>1, <1>2, DesignationsByEntry
  <1>13. AdjacencyExact(u)
    BY <1>2 DEF Sound, AdjacencyExact
  <1>. QED
    BY <1>2, <1>4, <1>7, <1>8, <1>9, <1>10, <1>11, <1>12, <1>13 DEF Sound

\* updateFact, and replaceFact on its own key or a free one.
LEMMA ReplaceFactSound ==
    ASSUME NEW t, Sound(t), NEW old \in Key, t.node[old] # NoRow,
           NEW val \in Value, val[KeyField] \in Key,
           NEW tags \in SUBSET Tag,
           val[KeyField] = old \/ t.node[val[KeyField]] = NoRow,
           NEW u, u = ReplaceFact(t, old, val, tags),
           NEW i, i = t.node[old].id
    PROVE  /\ Sound(u)
           /\ Live(u) = Live(t)
           /\ i \in Live(t)
           /\ RowOf(t, i) = t.node[old]
           /\ RowOf(u, i) = [id |-> i, val |-> val, tags |-> tags]
           /\ \A j \in Live(t) : j # i => RowOf(u, j) = RowOf(t, j)
           /\ u.index = t.index /\ u.link = t.link /\ u.nextNode = t.nextNode
  <1> DEFINE key == val[KeyField]
             row == [id |-> i, val |-> val, tags |-> tags]
  <1>1. t \in Tables /\ IdentitiesAgree(t)
    BY DEF Sound
  <1>2. /\ t.node[old] \in Row
        /\ i \in Id /\ i \in Live(t)
        /\ t.byId[i] = old
        /\ RowOf(t, i) = t.node[old]
    BY <1>1, StoredRow
  <1>3. /\ u \in Tables
        /\ u.node = [[t.node EXCEPT ![old] = NoRow] EXCEPT ![key] = row]
        /\ u.byId = [t.byId EXCEPT ![i] = key]
        /\ u.meta = t.meta \cup {i}
        /\ u.tagged = (t.tagged \ TagEntries(t.node[old].tags, i))
                         \cup TagEntries(tags, i)
        /\ u.nextNode = t.nextNode
        /\ u.link = t.link /\ u.out = t.out /\ u.in = t.in
        /\ u.index = t.index /\ u.nextLink = t.nextLink
    BY <1>1, <1>2, ReplaceFactTables
  <1>4. row \in Row
    BY <1>2 DEF Row
  <1>5. \A k \in Key : u.node[k] = IF k = key THEN row
                                   ELSE IF k = old THEN NoRow ELSE t.node[k]
    BY <1>1, <1>3 DEF Tables
  <1>6. \A j \in Id : u.byId[j] = IF j = i THEN key ELSE t.byId[j]
    BY <1>1, <1>3 DEF Tables
  <1>7. Live(u) = Live(t)
    BY <1>2, <1>6, SentinelAssumption DEF Live
  <1>8. RowOf(u, i) = row
    BY <1>2, <1>5, <1>6 DEF RowOf
  <1>9. \A j \in Live(t) : j # i =>
           u.byId[j] = t.byId[j] /\ RowOf(u, j) = RowOf(t, j)
    <2> SUFFICES ASSUME NEW j \in Live(t), j # i
                 PROVE  u.byId[j] = t.byId[j] /\ RowOf(u, j) = RowOf(t, j)
      OBVIOUS
    <2>1. /\ j \in Id /\ t.byId[j] \in Key
          /\ RowOf(t, j) # NoRow /\ RowOf(t, j).id = j
      BY <1>1, LiveRow DEF IdentitiesAgree
    <2>2. t.byId[j] # old
      BY <2>1 DEF RowOf
    <2>3. t.byId[j] # key
      BY <2>1, <2>2 DEF RowOf
    <2>. QED
      BY <2>1, <2>2, <2>3, <1>5, <1>6 DEF RowOf
  <1>10. IdentitiesAgree(u)
    <2>1. \A k \in Key : u.node[k] # NoRow =>
             u.byId[u.node[k].id] = k /\ u.node[k].val[KeyField] = k
      <3> SUFFICES ASSUME NEW k \in Key, u.node[k] # NoRow
                   PROVE  /\ u.byId[u.node[k].id] = k
                          /\ u.node[k].val[KeyField] = k
        OBVIOUS
      <3>1. CASE k = key
        BY <3>1, <1>2, <1>5, <1>6
      <3>2. CASE k # key
        <4>1. u.node[k] = t.node[k] /\ t.node[k] # NoRow /\ k # old
          BY <3>2, <1>5
        <4>2. t.node[k].id \in Live(t) /\ t.byId[t.node[k].id] = k
          BY <4>1, <1>1, StoredRow
        <4>3. t.node[k].id # i
          BY <4>1, <4>2, <1>2
        <4>. QED
          BY <4>1, <4>2, <4>3, <1>1, <1>9 DEF IdentitiesAgree
      <3>. QED
        BY <3>1, <3>2
    <2>2. ASSUME NEW j \in Live(u)
          PROVE  /\ RowOf(u, j) # NoRow
                 /\ RowOf(u, j).id = j
                 /\ j < u.nextNode
      <3>1. j < t.nextNode
        BY <1>1, <1>7 DEF IdentitiesAgree
      <3>2. CASE j = i
        BY <3>1, <3>2, <1>3, <1>4, <1>8, SentinelAssumption
      <3>3. CASE j # i
        BY <3>1, <3>3, <1>1, <1>3, <1>7, <1>9 DEF IdentitiesAgree
      <3>. QED
        BY <3>2, <3>3
    <2>. QED
      BY <2>1, <2>2 DEF IdentitiesAgree
  <1>11. MetadataExact(u)
    BY <1>2, <1>3, <1>7 DEF Sound, MetadataExact
  <1>12. DesignationsExact(u)
    <2>1. ASSUME NEW g \in Tag, NEW j \in Id
          PROVE  <<g, j>> \in u.tagged
                   <=> j \in Live(u) /\ g \in RowOf(u, j).tags
      <3>1. <<g, j>> \in t.tagged
              <=> j \in Live(t) /\ g \in RowOf(t, j).tags
        BY <1>1, DesignationsByEntry DEF Sound
      <3>2. <<g, j>> \in TagEntries(tags, i) <=> j = i /\ g \in tags
        BY DEF TagEntries
      <3>3. <<g, j>> \in TagEntries(t.node[old].tags, i)
              <=> j = i /\ g \in t.node[old].tags
        BY DEF TagEntries
      <3>4. CASE j = i
        BY <3>1, <3>2, <3>3, <3>4, <1>2, <1>3, <1>7, <1>8
      <3>5. CASE j # i
        BY <3>1, <3>2, <3>3, <3>5, <1>3, <1>7, <1>9
      <3>. QED
        BY <3>4, <3>5
    <2>. QED
      BY <2>1, <1>3, DesignationsByEntry
  <1>13. AdjacencyExact(u)
    BY <1>3 DEF Sound, AdjacencyExact
  <1>. QED
    BY <1>2, <1>3, <1>7, <1>8, <1>9, <1>10, <1>11, <1>12, <1>13 DEF Sound

\* deleteFact on a stored record.
LEMMA DeleteFactSound ==
    ASSUME NEW t, Sound(t), NEW key \in Key, t.node[key] # NoRow,
           NEW u, u = DeleteFact(t, key),
           NEW i, i = t.node[key].id
    PROVE  /\ Sound(u)
           /\ Live(u) = Live(t) \ {i}
           /\ i \in Live(t)
           /\ RowOf(t, i) = t.node[key]
           /\ \A j \in Live(u) : RowOf(u, j) = RowOf(t, j)
           /\ u.link = t.link \ Outgoing(t, i)
           /\ u.index = t.index /\ u.nextNode = t.nextNode
  <1>1. t \in Tables /\ IdentitiesAgree(t)
    BY DEF Sound
  <1>2. /\ t.node[key] \in Row
        /\ i \in Id /\ i \in Live(t)
        /\ t.byId[i] = key
        /\ RowOf(t, i) = t.node[key]
    BY <1>1, StoredRow
  <1>3. /\ u \in Tables
        /\ u.node = [t.node EXCEPT ![key] = NoRow]
        /\ u.byId = [t.byId EXCEPT ![i] = NoKey]
        /\ u.meta = t.meta \ {i}
        /\ u.tagged = t.tagged \ TagEntries(t.node[key].tags, i)
        /\ u.nextNode = t.nextNode
        /\ u.link = t.link \ Outgoing(t, i)
        /\ u.out = t.out \ Outgoing(t, i)
        /\ u.in = t.in \ Outgoing(t, i)
        /\ u.index = t.index /\ u.nextLink = t.nextLink
    BY <1>1, <1>2, DeleteFactTables
  <1>4. \A k \in Key : u.node[k] = IF k = key THEN NoRow ELSE t.node[k]
    BY <1>1, <1>3 DEF Tables
  <1>5. \A j \in Id : u.byId[j] = IF j = i THEN NoKey ELSE t.byId[j]
    BY <1>1, <1>3 DEF Tables
  <1>6. Live(u) = Live(t) \ {i}
    BY <1>5 DEF Live
  <1>7. \A j \in Live(u) : u.byId[j] = t.byId[j] /\ RowOf(u, j) = RowOf(t, j)
    <2> TAKE j \in Live(u)
    <2>1. /\ j \in Id /\ j # i /\ t.byId[j] \in Key
          /\ RowOf(t, j).id = j
      BY <1>1, <1>6, LiveRow
    <2>2. t.byId[j] # key
      BY <2>1, <1>2 DEF RowOf
    <2>. QED
      BY <2>1, <2>2, <1>4, <1>5 DEF RowOf
  <1>8. IdentitiesAgree(u)
    <2>1. \A k \in Key : u.node[k] # NoRow =>
             u.byId[u.node[k].id] = k /\ u.node[k].val[KeyField] = k
      <3> SUFFICES ASSUME NEW k \in Key, u.node[k] # NoRow
                   PROVE  /\ u.byId[u.node[k].id] = k
                          /\ u.node[k].val[KeyField] = k
        OBVIOUS
      <3>1. u.node[k] = t.node[k] /\ t.node[k] # NoRow /\ k # key
        BY <1>4
      <3>2. t.node[k].id \in Live(t) /\ t.byId[t.node[k].id] = k
        BY <3>1, <1>1, StoredRow
      <3>3. t.node[k].id \in Live(u)
        BY <3>1, <3>2, <1>2, <1>6
      <3>. QED
        BY <3>1, <3>2, <3>3, <1>1, <1>7 DEF IdentitiesAgree
    <2>2. \A j \in Live(u) : RowOf(u, j) # NoRow /\ RowOf(u, j).id = j
                             /\ j < u.nextNode
      BY <1>1, <1>3, <1>6, <1>7 DEF IdentitiesAgree
    <2>. QED
      BY <2>1, <2>2 DEF IdentitiesAgree
  <1>9. MetadataExact(u)
    BY <1>3, <1>6 DEF Sound, MetadataExact
  <1>10. DesignationsExact(u)
    <2>1. ASSUME NEW g \in Tag, NEW j \in Id
          PROVE  <<g, j>> \in u.tagged
                   <=> j \in Live(u) /\ g \in RowOf(u, j).tags
      <3>1. <<g, j>> \in t.tagged
              <=> j \in Live(t) /\ g \in RowOf(t, j).tags
        BY <1>1, DesignationsByEntry DEF Sound
      <3>2. <<g, j>> \in TagEntries(t.node[key].tags, i)
              <=> j = i /\ g \in t.node[key].tags
        BY DEF TagEntries
      <3>. QED
        BY <3>1, <3>2, <1>2, <1>3, <1>6, <1>7
    <2>. QED
      BY <2>1, <1>3, DesignationsByEntry
  <1>11. AdjacencyExact(u)
    BY <1>3 DEF Sound, AdjacencyExact
  <1>. QED
    BY <1>2, <1>3, <1>6, <1>7, <1>8, <1>9, <1>10, <1>11 DEF Sound

\* insertLink after its search for an equal link found none.
LEMMA InsertLinkSound ==
    ASSUME NEW t, Sound(t), NEW src \in Id, NEW dst \in Id,
           NEW props \in Property, t.nextLink \in LinkId,
           SameLink(t, src, dst, props) = {},
           NEW u, u = InsertLink(t, src, dst, props)
    PROVE  /\ Sound(u)
           /\ Live(u) = Live(t)
           /\ \A j : RowOf(u, j) = RowOf(t, j)
           /\ u.index = t.index /\ u.nextNode = t.nextNode
  <1>0. PICK l : l = [id |-> t.nextLink, src |-> src,
                      dst |-> dst, props |-> props]
    OBVIOUS
  <1>1. t \in Tables
    BY DEF Sound
  <1>2. /\ u \in Tables
        /\ u.link = t.link \cup {l}
        /\ u.out = t.out \cup {l}
        /\ u.in = t.in \cup {l}
        /\ u.nextLink = t.nextLink + 1
        /\ u.node = t.node /\ u.byId = t.byId /\ u.meta = t.meta
        /\ u.tagged = t.tagged /\ u.index = t.index
        /\ u.nextNode = t.nextNode
    BY <1>0, <1>1, InsertLinkTables
  <1>3. Live(u) = Live(t) /\ \A j : RowOf(u, j) = RowOf(t, j)
    BY <1>2 DEF Live, RowOf
  <1>4. AdjacencyExact(u)
    <2>1. AdjacencyExact(t)
      BY DEF Sound
    <2>2. \A m \in t.link : m \in Link /\ m.id \in Int
      BY <1>1 DEF Tables, Link, LinkId
    <2>3. \A m \in t.link : m.id < t.nextLink
      BY <2>1 DEF AdjacencyExact
    <2>4. t.nextLink \in Int
      BY DEF LinkId
    <2>5. \A m \in t.link : <<m.src, m.dst, m.props>> # <<src, dst, props>>
      BY <2>1 DEF AdjacencyExact, SameLink, Outgoing
    <2>6. \A m \in u.link : m.id < u.nextLink
      BY <1>0, <1>2, <2>2, <2>3, <2>4
    <2>7. ASSUME NEW m \in u.link, NEW n \in u.link,
                 \/ m.id = n.id
                 \/ <<m.src, m.dst, m.props>> = <<n.src, n.dst, n.props>>
          PROVE  m = n
      <3>1. \A x \in t.link : x.id # t.nextLink
        BY <2>2, <2>3, <2>4
      <3>2. CASE m \in t.link /\ n \in t.link
        BY <2>1, <2>7, <3>2 DEF AdjacencyExact
      <3>3. CASE m = l \/ n = l
        BY <1>0, <1>2, <2>5, <2>7, <3>1, <3>3
      <3>. QED
        BY <1>2, <3>2, <3>3
    <2>. QED
      BY <1>2, <2>1, <2>6, <2>7 DEF AdjacencyExact
  <1>. QED
    BY <1>2, <1>3, <1>4
    DEF Sound, IdentitiesAgree, MetadataExact, DesignationsExact

------------------------------------------------------------------------------
(* Ids come from the sequence *)

LEMMA GrownReflexive ==
    ASSUME NEW t \in Tables
    PROVE  Grown(t, t)
  BY SequenceAssumption DEF Grown, Tables

LEMMA GrownTransitive ==
    ASSUME NEW a, Sound(a), NEW b \in Tables, NEW c \in Tables,
           Grown(a, b), Grown(b, c)
    PROVE  Grown(a, c)
  <1>1. a.nextNode \in Int /\ b.nextNode \in Int /\ c.nextNode \in Int
    BY SequenceAssumption DEF Tables, Sound
  <1>2. ASSUME NEW i \in Live(c) \ Live(a)
        PROVE  a.nextNode <= i
    <2>1. i \in Int
      BY DEF Live, Id
    <2>. QED
      BY <1>1, <1>2, <2>1 DEF Grown
  <1>3. ASSUME NEW i \in Live(a) \cap Live(c)
        PROVE  RowOf(a, i).tags \subseteq RowOf(c, i).tags
    <2>1. i \in Int /\ i < a.nextNode
      BY DEF Live, Id, Sound, IdentitiesAgree
    <2>2. i \in Live(b)
      BY <1>1, <2>1 DEF Grown
    <2>. QED
      BY <2>2 DEF Grown
  <1>. QED
    BY <1>1, <1>2, <1>3 DEF Grown

LEMMA InsertFactGrows ==
    ASSUME NEW t, Sound(t), NEW val \in Value, val[KeyField] \in Key,
           NEW tags \in SUBSET Tag, t.nextNode \in Id,
           t.node[val[KeyField]] = NoRow,
           NEW u, u = InsertFact(t, val, tags)
    PROVE  Grown(t, u)
  BY InsertFactSound, SequenceAssumption DEF Grown, Id

\* No id comes to life when the sequence stays.
LEMMA FewerLiveGrows ==
    ASSUME NEW t \in Tables, NEW u,
           Live(u) \subseteq Live(t), u.nextNode = t.nextNode,
           \A j \in Live(u) : RowOf(t, j).tags \subseteq RowOf(u, j).tags
    PROVE  Grown(t, u)
  BY SequenceAssumption DEF Grown, Tables

------------------------------------------------------------------------------
(* The index table follows the rows *)

\* publishFact of a new record: insertFact, then its index entries.
LEMMA PublishedIndexed ==
    ASSUME NEW t, Sound(t), IndexExact(t),
           NEW val \in Value, val[KeyField] \in Key,
           NEW tags \in SUBSET Tag, t.nextNode \in Id,
           t.node[val[KeyField]] = NoRow,
           NEW i, i = t.nextNode,
           NEW u, u = InsertFact(t, val, tags),
           NEW w, w = AddIndexes(u, val, i)
    PROVE  Sound(w) /\ IndexExact(w)
  <1>1. /\ Sound(u)
        /\ Live(u) = Live(t) \cup {i}
        /\ i \notin Live(t)
        /\ RowOf(u, i).val = val
        /\ \A j \in Live(t) : RowOf(u, j) = RowOf(t, j)
        /\ u.index = t.index
    <2>1. RowOf(u, i) = [id |-> i, val |-> val, tags |-> tags]
      BY InsertFactSound
    <2>. QED
      BY <2>1, InsertFactSound
  <1>2. /\ Sound(w)
        /\ Live(w) = Live(u)
        /\ \A j : RowOf(w, j) = RowOf(u, j)
    BY <1>1, IndexesKeepSound
  <1>3. w.index = t.index \cup IndexEntries(val, i)
    BY <1>1 DEF AddIndexes, Sound, Tables
  <1>4. ASSUME NEW f \in Indexed, NEW d \in Datum, NEW j \in Id
        PROVE  <<f, d, j>> \in w.index
                 <=> j \in Live(w) /\ RowOf(w, j).val[f] = d
    <2>1. <<f, d, j>> \in t.index <=> j \in Live(t) /\ RowOf(t, j).val[f] = d
      BY IndexByEntry DEF Sound
    <2>2. <<f, d, j>> \in IndexEntries(val, i) <=> j = i /\ val[f] = d
      BY DEF IndexEntries
    <2>3. CASE j = i
      BY <2>1, <2>2, <2>3, <1>1, <1>2, <1>3
    <2>4. CASE j # i
      BY <2>1, <2>2, <2>4, <1>1, <1>2, <1>3
    <2>. QED
      BY <2>3, <2>4
  <1>. QED
    BY <1>2, <1>4, IndexByEntry DEF Sound

\* One row of Fact.update: entries of the stored value out, record replaced,
\* entries of the new value in.
LEMMA UpdatedIndexed ==
    ASSUME NEW t, Sound(t), IndexExact(t), NEW i \in Live(t),
           NEW val \in Value, val[KeyField] \in Key,
           NEW tags \in SUBSET Tag,
           \/ val[KeyField] = RowOf(t, i).val[KeyField]
           \/ t.node[val[KeyField]] = NoRow,
           NEW v, v = RemoveIndexes(t, RowOf(t, i).val, i),
           NEW u, u = ReplaceFact(v, RowOf(t, i).val[KeyField], val, tags),
           NEW w, w = AddIndexes(u, val, i)
    PROVE  /\ Sound(u)
           /\ Live(u) = Live(t)
           /\ Sound(w) /\ IndexExact(w)
           /\ Live(w) = Live(t)
  <1> DEFINE old == RowOf(t, i).val
             key == RowOf(t, i).val[KeyField]
  <1>1. /\ i \in Id /\ old \in Value /\ key \in Key
        /\ t.byId[i] = key
        /\ RowOf(t, i) = t.node[key] /\ t.node[key] # NoRow
        /\ t.node[key].id = i
    BY LiveRow DEF Sound
  <1>2. /\ Sound(v)
        /\ Live(v) = Live(t)
        /\ \A j : RowOf(v, j) = RowOf(t, j)
        /\ v.node = t.node
    BY <1>1, IndexesKeepSound, IndexTables DEF Sound
  <1>3. /\ Sound(u)
        /\ Live(u) = Live(v)
        /\ RowOf(u, i).val = val
        /\ \A j \in Live(v) : j # i => RowOf(u, j) = RowOf(v, j)
    <2>1. RowOf(u, i) = [id |-> i, val |-> val, tags |-> tags]
      BY <1>1, <1>2, ReplaceFactSound
    <2>. QED
      BY <2>1, <1>1, <1>2, ReplaceFactSound
  <1>4. u.index = v.index
    BY <1>1, <1>2, ReplaceFactSound
  <1>5. /\ Sound(w)
        /\ Live(w) = Live(u)
        /\ \A j : RowOf(w, j) = RowOf(u, j)
    BY <1>1, <1>3, IndexesKeepSound
  <1>6. w.index = (t.index \ IndexEntries(old, i)) \cup IndexEntries(val, i)
    BY <1>2, <1>3, <1>4 DEF AddIndexes, RemoveIndexes, Sound, Tables
  <1>7. ASSUME NEW f \in Indexed, NEW d \in Datum, NEW j \in Id
        PROVE  <<f, d, j>> \in w.index
                 <=> j \in Live(w) /\ RowOf(w, j).val[f] = d
    <2>1. <<f, d, j>> \in t.index <=> j \in Live(t) /\ RowOf(t, j).val[f] = d
      BY IndexByEntry DEF Sound
    <2>2. <<f, d, j>> \in IndexEntries(val, i) <=> j = i /\ val[f] = d
      BY DEF IndexEntries
    <2>3. <<f, d, j>> \in IndexEntries(old, i) <=> j = i /\ old[f] = d
      BY DEF IndexEntries
    <2>4. CASE j = i
      BY <2>1, <2>2, <2>3, <2>4, <1>2, <1>3, <1>5, <1>6
    <2>5. CASE j # i
      BY <2>1, <2>2, <2>3, <2>5, <1>2, <1>3, <1>5, <1>6
    <2>. QED
      BY <2>4, <2>5
  <1>. QED
    BY <1>2, <1>3, <1>5, <1>7, IndexByEntry DEF Sound

\* One row of Fact.delete: entries of the stored value out, record deleted.
LEMMA DeletedIndexed ==
    ASSUME NEW t, Sound(t), IndexExact(t), NEW i \in Live(t),
           NEW v, v = RemoveIndexes(t, RowOf(t, i).val, i),
           NEW u, u = DeleteFact(v, RowOf(t, i).val[KeyField])
    PROVE  /\ Sound(u) /\ IndexExact(u)
           /\ Live(u) = Live(t) \ {i}
  <1> DEFINE old == RowOf(t, i).val
             key == RowOf(t, i).val[KeyField]
  <1>1. /\ i \in Id /\ old \in Value /\ key \in Key
        /\ t.byId[i] = key
        /\ RowOf(t, i) = t.node[key] /\ t.node[key] # NoRow
        /\ t.node[key].id = i
    BY LiveRow DEF Sound
  <1>2. /\ Sound(v)
        /\ Live(v) = Live(t)
        /\ \A j : RowOf(v, j) = RowOf(t, j)
        /\ v.node = t.node
    BY <1>1, IndexesKeepSound, IndexTables DEF Sound
  <1>3. /\ Sound(u)
        /\ Live(u) = Live(v) \ {i}
        /\ \A j \in Live(u) : RowOf(u, j) = RowOf(v, j)
    BY <1>1, <1>2, DeleteFactSound
  <1>4. u.index = v.index
    BY <1>1, <1>2, DeleteFactSound
  <1>5. u.index = t.index \ IndexEntries(old, i)
    BY <1>4 DEF RemoveIndexes, Sound, Tables
  <1>6. ASSUME NEW f \in Indexed, NEW d \in Datum, NEW j \in Id
        PROVE  <<f, d, j>> \in u.index
                 <=> j \in Live(u) /\ RowOf(u, j).val[f] = d
    <2>1. <<f, d, j>> \in t.index <=> j \in Live(t) /\ RowOf(t, j).val[f] = d
      BY IndexByEntry DEF Sound
    <2>2. <<f, d, j>> \in IndexEntries(old, i) <=> j = i /\ old[f] = d
      BY DEF IndexEntries
    <2>. QED
      BY <2>1, <2>2, <1>2, <1>3, <1>5
  <1>. QED
    BY <1>2, <1>3, <1>6, IndexByEntry DEF Sound

\* updateFact with the stored value and other designations: the index entries
\* stay right.
LEMMA EnrichedIndexed ==
    ASSUME NEW t, Sound(t), NEW key \in Key, t.node[key] # NoRow,
           NEW val, val = t.node[key].val, NEW tags \in SUBSET Tag,
           t.node[key].tags \subseteq tags,
           NEW u, u = ReplaceFact(t, key, val, tags)
    PROVE  /\ Sound(u)
           /\ Live(u) = Live(t)
           /\ u.nextNode = t.nextNode
           /\ \A j \in Live(t) : RowOf(t, j).tags \subseteq RowOf(u, j).tags
           /\ IndexExact(t) => IndexExact(u)
  <1>1. PICK i : i = t.node[key].id
    OBVIOUS
  <1>2. PICK row : row = [id |-> i, val |-> val, tags |-> tags]
    OBVIOUS
  <1>3. /\ val \in Value /\ val[KeyField] = key
        /\ RowOf(t, i) = t.node[key]
    BY <1>1, StoredRow DEF Sound, IdentitiesAgree
  <1>4. /\ Sound(u)
        /\ Live(u) = Live(t)
        /\ RowOf(u, i) = row
        /\ \A j \in Live(t) : j # i => RowOf(u, j) = RowOf(t, j)
        /\ u.index = t.index /\ u.nextNode = t.nextNode
    BY <1>1, <1>2, <1>3, ReplaceFactSound
  <1>5. \A j \in Live(t) : RowOf(u, j).val = RowOf(t, j).val
    BY <1>2, <1>3, <1>4
  <1>6. IndexExact(t) => IndexExact(u)
    BY <1>4, <1>5 DEF IndexExact
  <1>7. \A j \in Live(t) : RowOf(t, j).tags \subseteq RowOf(u, j).tags
    BY <1>2, <1>3, <1>4
  <1>. QED
    BY <1>4, <1>6, <1>7

------------------------------------------------------------------------------
(* Links stay attached *)

\* No operation but deleteFact takes a live record away, and none but
\* insertLink brings a link.
LEMMA AttachedByTables ==
    ASSUME NEW t, NEW u, LinksAttached(t),
           u.link \subseteq t.link, Live(t) \subseteq Live(u)
    PROVE  LinksAttached(u)
  BY DEF LinksAttached

LEMMA IndexesKeepAttached ==
    ASSUME NEW t, Sound(t), LinksAttached(t), NEW val \in Value, NEW i \in Id,
           NEW u, \/ u = AddIndexes(t, val, i)
                  \/ u = RemoveIndexes(t, val, i)
    PROVE  LinksAttached(u)
  <1>1. u.link = t.link
    BY IndexTables DEF Sound
  <1>2. Live(u) = Live(t)
    BY IndexesKeepSound
  <1>. QED
    BY <1>1, <1>2, AttachedByTables

LEMMA InsertFactAttached ==
    ASSUME NEW t, Sound(t), LinksAttached(t),
           NEW val \in Value, val[KeyField] \in Key,
           NEW tags \in SUBSET Tag, t.nextNode \in Id,
           t.node[val[KeyField]] = NoRow,
           NEW u, u = InsertFact(t, val, tags)
    PROVE  LinksAttached(u)
  <1>1. u.link = t.link /\ Live(t) \subseteq Live(u)
    BY InsertFactSound
  <1>. QED
    BY <1>1, AttachedByTables

LEMMA ReplaceFactAttached ==
    ASSUME NEW t, Sound(t), LinksAttached(t),
           NEW old \in Key, t.node[old] # NoRow,
           NEW val \in Value, val[KeyField] \in Key,
           NEW tags \in SUBSET Tag,
           val[KeyField] = old \/ t.node[val[KeyField]] = NoRow,
           NEW u, u = ReplaceFact(t, old, val, tags)
    PROVE  LinksAttached(u)
  <1>1. u.link = t.link /\ Live(u) = Live(t)
    BY ReplaceFactSound
  <1>. QED
    BY <1>1, AttachedByTables

\* deleteFact: no link comes in, and those that go out go with the record.
LEMMA DeleteFactAttached ==
    ASSUME NEW t, Sound(t), LinksAttached(t),
           NEW key \in Key, t.node[key] # NoRow,
           Incoming(t, t.node[key].id) = {},
           NEW u, u = DeleteFact(t, key)
    PROVE  LinksAttached(u)
  <1>1. PICK i : i = t.node[key].id
    OBVIOUS
  <1>3. u.link = t.link \ Outgoing(t, i)
    BY <1>1, DeleteFactSound
  <1>4. Live(u) = Live(t) \ {i}
    BY <1>1, DeleteFactSound
  <1>5. t.in = t.link /\ t.out = t.link
    BY DEF Sound, AdjacencyExact
  <1>6. \A l \in u.link : l \in t.link /\ l.src # i /\ l.dst # i
    BY <1>1, <1>3, <1>5 DEF Outgoing, Incoming
  <1>. QED
    BY <1>4, <1>6 DEF LinksAttached

\* insertLink between records that live.
LEMMA InsertLinkAttached ==
    ASSUME NEW t, Sound(t), LinksAttached(t),
           NEW src \in Live(t), NEW dst \in Live(t),
           NEW props \in Property, t.nextLink \in LinkId,
           SameLink(t, src, dst, props) = {},
           NEW u, u = InsertLink(t, src, dst, props)
    PROVE  LinksAttached(u)
  <1>1. PICK l : l = [id |-> t.nextLink, src |-> src,
                      dst |-> dst, props |-> props]
    OBVIOUS
  <1>2. src \in Id /\ dst \in Id
    BY DEF Live
  <1>3. u.link = t.link \cup {l}
    BY <1>1, <1>2, InsertLinkTables DEF Sound
  <1>4. Live(u) = Live(t)
    BY <1>2, InsertLinkSound
  <1>5. l.src = src /\ l.dst = dst
    BY <1>1
  <1>. QED
    BY <1>3, <1>4, <1>5 DEF LinksAttached

------------------------------------------------------------------------------
(* The invariant *)

\* Without caught errors in loads the index table is exact too.
Good(t) == Sound(t) /\ (~CaughtInLoad => IndexExact(t))

IInv ==
    /\ job \in [Session -> Delete \cup Update \cup LinkFact \cup {Idle}]
    /\ owner \in Session \cup {Free}
    /\ loading \in BOOLEAN
    /\ Good(committed)
    /\ Good(working)
    /\ Grown(committed, working)
    /\ loading => owner # Free

\* What a step has to establish.
StepGoal == IInv' /\ Grown(committed, committed')

------------------------------------------------------------------------------
(* The pieces the actions share *)

LEMMA ViewIsGood ==
    ASSUME IInv, NEW s \in Session
    PROVE  /\ Good(View(s))
           /\ Sound(View(s))
           /\ View(s) \in Tables
           /\ Grown(committed, View(s))
  BY GrownReflexive DEF IInv, View, Good, Sound

LEMMA TablesOfIInv ==
    ASSUME IInv
    PROVE  /\ committed \in Tables /\ working \in Tables
           /\ Sound(committed) /\ Sound(working)
  BY DEF IInv, Good, Sound

\* A statement that completes with good tables.
LEMMA CompleteKeeps ==
    ASSUME IInv, NEW s \in Session, NEW t, Good(t), Grown(committed, t),
           Complete(s, t)
    PROVE  StepGoal
  <1>1. t \in Tables /\ committed \in Tables
    BY TablesOfIInv DEF Good, Sound
  <1>2. job' \in [Session -> Delete \cup Update \cup LinkFact \cup {Idle}]
    BY DEF Complete, IInv
  <1>3. Grown(t, t) /\ Grown(committed, committed)
    BY <1>1, GrownReflexive
  <1>. QED
    BY <1>2, <1>3 DEF Complete, IInv, StepGoal, Good

\* A statement or a load that is rolled back.
LEMMA RollbackKeeps ==
    ASSUME IInv, Rollback,
           job' \in [Session -> Delete \cup Update \cup LinkFact \cup {Idle}]
    PROVE  StepGoal
  <1>1. Grown(committed, committed)
    BY TablesOfIInv, GrownReflexive
  <1>. QED
    BY <1>1 DEF Rollback, IInv, StepGoal, Good

\* A statement that throws with tables sound but for the index.
LEMMA FailKeeps ==
    ASSUME IInv, NEW s \in Session, NEW t, Sound(t), Grown(committed, t),
           Fail(s, t)
    PROVE  StepGoal
  <1>1. job' \in [Session -> Delete \cup Update \cup LinkFact \cup {Idle}]
    BY DEF Fail, IInv
  <1>2. Grown(committed, committed)
    BY TablesOfIInv, GrownReflexive
  <1>3. CASE Rollback
    BY <1>1, <1>3, RollbackKeeps
  <1>4. CASE /\ loading /\ CaughtInLoad
             /\ working' = t
             /\ UNCHANGED <<committed, owner, loading>>
    BY <1>1, <1>2, <1>4 DEF IInv, StepGoal, Good
  <1>. QED
    BY <1>3, <1>4 DEF Fail

\* One row of a statement done.
LEMMA RowDoneKeeps ==
    ASSUME IInv, NEW s \in Session, NEW row, NEW t,
           job[s] \in Delete \cup Update, Good(t), Grown(committed, t),
           RowDone(s, row, t)
    PROVE  StepGoal
  <1>1. [job[s] EXCEPT !.rows = @ \ {row}] \in Delete \cup Update
    BY DEF Delete, Update
  <1>2. job' \in [Session -> Delete \cup Update \cup LinkFact \cup {Idle}]
    BY <1>1 DEF RowDone, IInv
  <1>3. Grown(committed, committed)
    BY TablesOfIInv, GrownReflexive
  <1>. QED
    BY <1>2, <1>3 DEF RowDone, IInv, StepGoal, Good

\* Of which kind a job is shows in its op.
LEMMA JobKinds ==
    ASSUME IInv, NEW s \in Session, job[s] # Idle
    PROVE  /\ job[s].op \in {"delete", "update"}
                 => job[s] \in Delete \cup Update
           /\ job[s].op = "update" => job[s] \in Update
           /\ job[s].op = "link" => job[s] \in LinkFact
  BY DEF IInv, Delete, Update, LinkFact

------------------------------------------------------------------------------
(* The actions *)

LEMMA PublishFactKeeps ==
    ASSUME IInv, NEW s \in Session, NEW val \in Value,
           NEW tags \in SUBSET Tag, NEW seed \in BOOLEAN,
           PublishFact(s, val, tags, seed)
    PROVE  StepGoal
  <1> DEFINE t == View(s)
             key == val[KeyField]
             inserted == InsertFact(t, val, tags)
             indexed == AddIndexes(inserted, val, t.nextNode)
  <1> HIDE DEF t
  <1>1. Good(t) /\ Sound(t) /\ t \in Tables /\ Grown(committed, t)
    BY ViewIsGood DEF t
  <1>2. CASE Fail(s, t)
    BY <1>1, <1>2, FailKeeps
  <1>3. CASE key \in Key /\ t.node[key] = NoRow /\ t.nextNode <= MaxNode
    <2>1. t.nextNode \in Id
      BY <1>1, <1>3, SequenceAssumption DEF Tables, Id
    <2>2. Sound(inserted) /\ Grown(t, inserted)
      BY <1>1, <1>3, <2>1, InsertFactSound, InsertFactGrows
    <2>3. /\ Sound(indexed)
          /\ Live(indexed) = Live(inserted)
          /\ \A j : RowOf(indexed, j) = RowOf(inserted, j)
          /\ indexed.nextNode = inserted.nextNode
      BY <2>1, <2>2, IndexesKeepSound
    <2>4. IndexExact(t) => IndexExact(indexed)
      BY <1>1, <1>3, <2>1, PublishedIndexed
    <2>5. Good(indexed)
      BY <1>1, <2>3, <2>4 DEF Good
    <2>6. Grown(committed, inserted)
      BY <1>1, <2>2, TablesOfIInv, GrownTransitive DEF Sound
    <2>7. Grown(committed, indexed)
      <3>1. Grown(inserted, indexed)
        BY <2>2, <2>3, FewerLiveGrows DEF Sound
      <3>. QED
        BY <2>2, <2>3, <2>6, <3>1, TablesOfIInv, GrownTransitive DEF Sound
    <2>8. Complete(s, indexed) \/ Fail(s, inserted) \/ Fail(s, t)
      BY <1>3, <2>1 DEF PublishFact, t
    <2>. QED
      BY <1>2, <2>2, <2>5, <2>6, <2>7, <2>8, CompleteKeeps, FailKeeps
  <1>4. CASE key \in Key /\ t.node[key] # NoRow
    <2> DEFINE row == t.node[key]
               enriched == ReplaceFact(t, key, val, row.tags \cup tags)
    <2>1. row.tags \cup tags \in SUBSET Tag /\ row.tags \subseteq row.tags \cup tags
      BY <1>1, <1>4, StoredRow DEF Sound
    <2>2. row.val = val =>
            /\ Sound(enriched)
            /\ Live(enriched) = Live(t)
            /\ enriched.nextNode = t.nextNode
            /\ \A j \in Live(t) :
                  RowOf(t, j).tags \subseteq RowOf(enriched, j).tags
            /\ IndexExact(t) => IndexExact(enriched)
      <3> SUFFICES ASSUME row.val = val
                   PROVE  /\ Sound(enriched)
                          /\ Live(enriched) = Live(t)
                          /\ enriched.nextNode = t.nextNode
                          /\ \A j \in Live(t) : RowOf(t, j).tags
                                \subseteq RowOf(enriched, j).tags
                          /\ IndexExact(t) => IndexExact(enriched)
        OBVIOUS
      <3>1. PICK all : all = row.tags \cup tags
        OBVIOUS
      <3>2. all \in SUBSET Tag /\ t.node[key].tags \subseteq all
        BY <2>1, <3>1
      <3>3. PICK u : u = ReplaceFact(t, key, val, all)
        OBVIOUS
      <3>4. /\ Sound(u)
            /\ Live(u) = Live(t)
            /\ u.nextNode = t.nextNode
            /\ \A j \in Live(t) : RowOf(t, j).tags \subseteq RowOf(u, j).tags
            /\ IndexExact(t) => IndexExact(u)
        BY <1>1, <1>4, <3>2, <3>3, EnrichedIndexed
      <3>5. enriched = u
        BY <3>1, <3>3
      <3>. QED
        BY <3>4, <3>5
    <2>3. row.val = val => Good(enriched)
      BY <1>1, <2>2 DEF Good
    <2>4. row.val = val => Grown(committed, enriched)
      <3> SUFFICES ASSUME row.val = val PROVE Grown(committed, enriched)
        OBVIOUS
      <3>1. Grown(t, enriched)
        BY <1>1, <2>2, FewerLiveGrows
      <3>. QED
        BY <1>1, <2>2, <3>1, TablesOfIInv, GrownTransitive DEF Sound
    <2>7. \/ row.val = val /\ Complete(s, t)
          \/ row.val = val /\ Complete(s, enriched)
          \/ Fail(s, t)
      <3> HIDE DEF enriched
      <3>. QED
        BY <1>4 DEF PublishFact, t, enriched
    <2>. QED
      BY <1>1, <1>2, <2>3, <2>4, <2>7, CompleteKeeps
  <1>. QED
    <2>1. \/ Fail(s, t)
          \/ key \in Key /\ t.node[key] = NoRow
          \/ key \in Key /\ t.node[key] # NoRow
      BY DEF PublishFact, t
    <2>2. key \in Key /\ t.node[key] = NoRow /\ ~(t.nextNode <= MaxNode)
            => Fail(s, t)
      BY <1>1, SequenceAssumption DEF PublishFact, t, Tables
    <2>. QED
      BY <2>1, <2>2, <1>2, <1>3, <1>4

\* Reading the rows or the endpoints of a statement changes no table.
LEMMA SelectKeeps ==
    ASSUME IInv, NEW s \in Session,
           NEW statement \in Delete \cup Update \cup LinkFact,
           Select(s, statement)
    PROVE  StepGoal
  <1>1. Grown(committed, committed)
    BY TablesOfIInv, GrownReflexive
  <1>. QED
    BY <1>1 DEF Select, IInv, StepGoal, Good

LEMMA SelectionKeeps ==
    ASSUME IInv, NEW s \in Session,
           SelectForDelete(s) \/ SelectForUpdate(s) \/ ResolveEndpoints(s)
    PROVE  StepGoal
  <1> DEFINE t == View(s)
  <1>1. Sound(t) /\ t \in Tables
    BY ViewIsGood
  <1>2. \A i \in Live(t) : i \in Id /\ RowOf(t, i).val \in Value
    BY <1>1, LiveRow DEF Sound
  <1>3. CASE SelectForDelete(s)
    <2>1. PICK ids \in (SUBSET Live(t)) \ {{}} :
             Select(s, [op |-> "delete", running |-> FALSE, rows |-> ids])
      BY <1>3 DEF SelectForDelete
    <2>2. [op |-> "delete", running |-> FALSE, rows |-> ids] \in Delete
      BY <1>2 DEF Delete
    <2>. QED
      BY <2>1, <2>2, SelectKeeps
  <1>4. CASE SelectForUpdate(s)
    <2>1. PICK ids \in (SUBSET Live(t)) \ {{}}, f \in Field, d \in Datum :
             Select(s, [op |-> "update", running |-> FALSE, field |-> f,
                        rows |-> {<<i, [RowOf(t, i).val EXCEPT ![f] = d]>> :
                                     i \in ids}])
      BY <1>4 DEF SelectForUpdate
    <2> DEFINE next == {<<i, [RowOf(t, i).val EXCEPT ![f] = d]>> : i \in ids}
    <2>2. next \in SUBSET (Id \X Value)
      <3>1. \A i \in ids : [RowOf(t, i).val EXCEPT ![f] = d] \in Value
        BY <1>2 DEF Value
      <3>. QED
        BY <1>2, <3>1
    <2>3. [op |-> "update", running |-> FALSE, field |-> f, rows |-> next]
             \in Update
      BY <2>2 DEF Update
    <2>. QED
      BY <2>1, <2>3, SelectKeeps
  <1>5. CASE ResolveEndpoints(s)
    <2>1. PICK src \in Live(t), dst \in Live(t) :
             Select(s, [op |-> "link", running |-> FALSE,
                        src |-> src, dst |-> dst])
      BY <1>5 DEF ResolveEndpoints
    <2>2. [op |-> "link", running |-> FALSE, src |-> src, dst |-> dst]
             \in LinkFact
      BY <1>2 DEF LinkFact
    <2>. QED
      BY <2>1, <2>2, SelectKeeps
  <1>. QED
    BY <1>3, <1>4, <1>5

LEMMA EnterStatementKeeps ==
    ASSUME IInv, NEW s \in Session, EnterStatement(s)
    PROVE  StepGoal
  <1>1. job[s] \in Delete \cup Update
    BY JobKinds DEF EnterStatement
  <1>2. [job[s] EXCEPT !.running = TRUE] \in Delete \cup Update
    BY <1>1 DEF Delete, Update
  <1>3. job' \in [Session -> Delete \cup Update \cup LinkFact \cup {Idle}]
    BY <1>2 DEF EnterStatement, IInv
  <1>4. Grown(committed, committed)
    BY TablesOfIInv, GrownReflexive
  <1>. QED
    BY <1>3, <1>4, SessionAssumption
    DEF EnterStatement, IInv, StepGoal, Good

LEMMA DeleteRowKeeps ==
    ASSUME IInv, NEW s \in Session, NEW i \in Id, DeleteRow(s, i)
    PROVE  StepGoal
  <1> DEFINE row == RowOf(working, i)
             unindexed == RemoveIndexes(working, row.val, i)
             deleted == DeleteFact(unindexed, row.val[KeyField])
  <1>1. job[s] \in Delete \cup Update
    BY JobKinds DEF DeleteRow, Executing
  <1>2. Good(working) /\ Sound(working) /\ Grown(committed, working)
        /\ working \in Tables /\ Sound(committed)
    BY TablesOfIInv DEF IInv
  <1>3. CASE RowDone(s, i, working) \/ Fail(s, working)
    BY <1>1, <1>2, <1>3, RowDoneKeeps, FailKeeps
  <1>4. CASE i \in Live(working)
    <2>1. row.val \in Value
      BY <1>2, <1>4, LiveRow DEF Sound
    <2>2. /\ Sound(unindexed)
          /\ Live(unindexed) = Live(working)
          /\ \A j : RowOf(unindexed, j) = RowOf(working, j)
          /\ unindexed.node = working.node
          /\ unindexed.nextNode = working.nextNode
      BY <1>2, <2>1, IndexesKeepSound
    <2>3. Grown(committed, unindexed)
      <3>1. Grown(working, unindexed)
        BY <1>2, <2>2, FewerLiveGrows
      <3>. QED
        BY <1>2, <2>2, <3>1, GrownTransitive DEF Sound
    <2>4. /\ Sound(deleted)
          /\ Live(deleted) \subseteq Live(unindexed)
          /\ \A j \in Live(deleted) : RowOf(deleted, j) = RowOf(unindexed, j)
          /\ deleted.nextNode = unindexed.nextNode
      <3>1. /\ row.val[KeyField] \in Key
            /\ unindexed.node[row.val[KeyField]] # NoRow
        BY <1>2, <1>4, <2>2, LiveRow DEF Sound
      <3>. QED
        BY <2>2, <3>1, DeleteFactSound
    <2>5. IndexExact(working) => IndexExact(deleted)
      BY <1>2, <1>4, DeletedIndexed
    <2>6. Good(deleted)
      BY <1>2, <2>4, <2>5 DEF Good
    <2>7. Grown(committed, deleted)
      <3>1. Grown(unindexed, deleted)
        BY <2>2, <2>4, FewerLiveGrows DEF Sound
      <3>. QED
        BY <1>2, <2>2, <2>3, <2>4, <3>1, GrownTransitive DEF Sound
    <2>8. \/ Fail(s, working)
          \/ Fail(s, unindexed)
          \/ RowDone(s, i, deleted)
      BY <1>4 DEF DeleteRow
    <2>. QED
      BY <1>1, <1>3, <2>2, <2>3, <2>6, <2>7, <2>8, FailKeeps, RowDoneKeeps
  <1>. QED
    BY <1>3, <1>4 DEF DeleteRow

LEMMA UpdateRowKeeps ==
    ASSUME IInv, NEW s \in Session, NEW i \in Id, NEW next \in Value,
           UpdateRow(s, i, next)
    PROVE  StepGoal
  <1> DEFINE row == RowOf(working, i)
             unindexed == RemoveIndexes(working, row.val, i)
             replaced == ReplaceFact(unindexed, row.val[KeyField], next,
                                     row.tags)
             indexed == AddIndexes(replaced, next, i)
  <1>1. job[s] \in Delete \cup Update
    BY JobKinds DEF UpdateRow, Executing
  <1>2. Good(working) /\ Sound(working) /\ Grown(committed, working)
        /\ working \in Tables /\ Sound(committed)
    BY TablesOfIInv DEF IInv
  <1>3. CASE Fail(s, working)
    BY <1>2, <1>3, FailKeeps
  <1>4. CASE i \in Live(working)
    <2>1. /\ row.val \in Value /\ row.tags \in SUBSET Tag
          /\ row.val[KeyField] \in Key
          /\ row.id = i /\ i \in Id
          /\ working.node[row.val[KeyField]] = row /\ row # NoRow
      BY <1>2, <1>4, LiveRow DEF Sound
    <2>2. /\ Sound(unindexed)
          /\ Live(unindexed) = Live(working)
          /\ \A j : RowOf(unindexed, j) = RowOf(working, j)
          /\ unindexed.node = working.node
          /\ unindexed.nextNode = working.nextNode
      BY <1>2, <2>1, IndexesKeepSound
    <2>3. Grown(committed, unindexed)
      <3>1. Grown(working, unindexed)
        BY <1>2, <2>2, FewerLiveGrows
      <3>. QED
        BY <1>2, <2>2, <3>1, GrownTransitive DEF Sound
    <2>4. CASE Fail(s, unindexed)
      BY <2>2, <2>3, <2>4, FailKeeps
    <2>5. CASE /\ next[KeyField] \in Key
               /\ MayMove(unindexed, row, next[KeyField])
               /\ \/ RowDone(s, <<i, next>>, indexed)
                  \/ Fail(s, replaced)
      <3>1. \/ next[KeyField] = row.val[KeyField]
            \/ working.node[next[KeyField]] = NoRow
        BY <2>2, <2>5 DEF MayMove
      <3>2. /\ Sound(replaced)
            /\ Live(replaced) = Live(unindexed)
            /\ RowOf(replaced, i) = [id |-> i, val |-> next, tags |-> row.tags]
            /\ \A j \in Live(unindexed) :
                  j # i => RowOf(replaced, j) = RowOf(unindexed, j)
            /\ replaced.nextNode = unindexed.nextNode
        BY <2>1, <2>2, <2>5, <3>1, ReplaceFactSound
      <3>3. /\ Sound(indexed)
            /\ Live(indexed) = Live(replaced)
            /\ \A j : RowOf(indexed, j) = RowOf(replaced, j)
            /\ indexed.nextNode = replaced.nextNode
        BY <2>1, <3>2, IndexesKeepSound
      <3>4. IndexExact(working) => IndexExact(indexed)
        BY <1>2, <1>4, <2>1, <2>5, <3>1, UpdatedIndexed
      <3>5. Good(indexed)
        BY <1>2, <3>3, <3>4 DEF Good
      <3>6. Grown(working, replaced) /\ Grown(working, indexed)
        <4>1. \A j \in Live(working) : RowOf(replaced, j).tags = RowOf(working, j).tags
          BY <2>2, <3>2
        <4>. QED
          BY <1>2, <2>2, <3>2, <3>3, <4>1, FewerLiveGrows
      <3>7. Grown(committed, replaced) /\ Grown(committed, indexed)
        BY <1>2, <3>2, <3>3, <3>6, GrownTransitive DEF Sound
      <3>. QED
        BY <1>1, <2>5, <3>2, <3>5, <3>7, FailKeeps, RowDoneKeeps
    <2>6. next[KeyField] \in Key \/ next[KeyField] \in Structured
      BY FieldAssumption DEF Value, Key
    <2>. QED
      BY <1>3, <1>4, <2>4, <2>5, <2>6 DEF UpdateRow
  <1>. QED
    BY <1>3, <1>4 DEF UpdateRow

LEMMA PublishLinkKeeps ==
    ASSUME IInv, NEW s \in Session, NEW props \in Property,
           NEW seed \in BOOLEAN, PublishLink(s, props, seed)
    PROVE  StepGoal
  <1> DEFINE t == View(s)
             linked == InsertLink(t, job[s].src, job[s].dst, props)
  <1> HIDE DEF t
  <1>1. Good(t) /\ Sound(t) /\ t \in Tables /\ Grown(committed, t)
    BY ViewIsGood DEF t
  <1>2. job[s].src \in Id /\ job[s].dst \in Id
    BY JobKinds DEF PublishLink, LinkFact
  <1>3. CASE Complete(s, t) \/ Fail(s, t)
    BY <1>1, <1>3, CompleteKeeps, FailKeeps
  <1>4. CASE /\ SameLink(t, job[s].src, job[s].dst, props) = {}
             /\ t.nextLink <= MaxLink
             /\ Complete(s, linked)
    <2>1. t.nextLink \in LinkId
      BY <1>1, <1>4, SequenceAssumption DEF Tables, LinkId
    <2>2. /\ Sound(linked)
          /\ Live(linked) = Live(t)
          /\ linked.nextNode = t.nextNode
          /\ \A j : RowOf(linked, j) = RowOf(t, j)
          /\ linked.index = t.index
      BY <1>1, <1>2, <1>4, <2>1, InsertLinkSound
    <2>3. Good(linked)
      BY <1>1, <2>2 DEF Good, IndexExact
    <2>4. Grown(committed, linked)
      <3>1. Grown(t, linked)
        BY <1>1, <2>2, FewerLiveGrows
      <3>. QED
        BY <1>1, <2>2, <3>1, TablesOfIInv, GrownTransitive DEF Sound
    <2>. QED
      BY <1>4, <2>3, <2>4, CompleteKeeps
  <1>5. t.nextLink \in Int /\ MaxLink \in Int
    BY <1>1, SequenceAssumption DEF Tables
  <1>. QED
    BY <1>3, <1>4, <1>5 DEF PublishLink, t

LEMMA LoadKeeps ==
    ASSUME IInv, NEW s \in Session, Load(s)
    PROVE  StepGoal
  <1>1. /\ Grown(committed, committed) /\ Grown(working, working)
        /\ Grown(committed, working)
    BY TablesOfIInv, GrownReflexive DEF IInv
  <1>2. CASE BeginModule(s)
    BY <1>1, <1>2, SessionAssumption DEF BeginModule, IInv, StepGoal, Good
  <1>3. CASE CommitModule(s)
    BY <1>1, <1>3 DEF CommitModule, IInv, StepGoal, Good
  <1>4. CASE RollbackModule(s)
    BY <1>4, RollbackKeeps DEF RollbackModule, IInv
  <1>. QED
    BY <1>2, <1>3, <1>4 DEF Load

------------------------------------------------------------------------------
(* The inductive invariant *)

LEMMA StepKeeps == IInv /\ [Next]_vars => StepGoal
  <1> SUFFICES ASSUME IInv, [Next]_vars
               PROVE  StepGoal
    OBVIOUS
  <1>1. ASSUME NEW s \in Session, Load(s)
        PROVE  StepGoal
    BY <1>1, LoadKeeps
  <1>2. ASSUME NEW s \in Session, Mutate(s)
        PROVE  StepGoal
    <2>1. CASE \E val \in Value, tags \in SUBSET Tag, seed \in BOOLEAN :
                  PublishFact(s, val, tags, seed)
      BY <2>1, PublishFactKeeps
    <2>2. CASE SelectForDelete(s) \/ SelectForUpdate(s)
      BY <2>2, SelectionKeeps
    <2>3. CASE EnterStatement(s)
      BY <2>3, EnterStatementKeeps
    <2>4. CASE \E i \in Id : DeleteRow(s, i)
      BY <2>4, DeleteRowKeeps
    <2>5. CASE \E i \in Id, next \in Value : UpdateRow(s, i, next)
      BY <2>5, UpdateRowKeeps
    <2>6. CASE FinishStatement(s)
      <3>1. Good(working) /\ Sound(working) /\ Grown(committed, working)
        BY TablesOfIInv DEF IInv
      <3>. QED
        BY <2>6, <3>1, CompleteKeeps, FailKeeps DEF FinishStatement
    <2>. QED
      BY <1>2, <2>1, <2>2, <2>3, <2>4, <2>5, <2>6 DEF Mutate
  <1>3. ASSUME NEW s \in Session, Connect(s)
        PROVE  StepGoal
    BY <1>3, SelectionKeeps, PublishLinkKeeps DEF Connect
  <1>4. CASE Crash
    BY <1>4, RollbackKeeps DEF Crash
  <1>5. CASE UNCHANGED vars
    <2>1. Grown(committed, committed)
      BY TablesOfIInv, GrownReflexive
    <2>. QED
      BY <1>5, <2>1 DEF vars, IInv, StepGoal, Good
  <1>. QED
    BY <1>1, <1>2, <1>3, <1>4, <1>5 DEF Next

LEMMA InitKeeps == Init => IInv
  <1>1. Good(EmptyTables)
    BY EmptySound DEF Good
  <1>2. Grown(EmptyTables, EmptyTables)
    BY <1>1, GrownReflexive DEF Good, Sound
  <1>. QED
    BY <1>1, <1>2 DEF Init, IInv

LEMMA Inductive == Spec => []IInv
  BY InitKeeps, StepKeeps, PTL DEF Spec, StepGoal

------------------------------------------------------------------------------
(* The theorems *)

\* Every variable keeps its type.
THEOREM TypeCorrect == Spec => []TypeOK
  <1>1. IInv => TypeOK
    BY TablesOfIInv DEF IInv, TypeOK
  <1>. QED
    BY <1>1, Inductive, PTL

\* In every reachable database, and in every transaction, primary keys and ids
\* agree, whatever errors statements run into and programs catch.
THEOREM IdentitiesHold == Spec => []Identities
  <1>1. IInv => Identities
    BY TablesOfIInv DEF Sound, Identities
  <1>. QED
    BY <1>1, Inductive, PTL

\* Metadata rows are those of the live records.
THEOREM MetadataHolds == Spec => []Metadata
  <1>1. IInv => Metadata
    BY TablesOfIInv DEF Sound, Metadata
  <1>. QED
    BY <1>1, Inductive, PTL

\* The designation table is that of the live records.
THEOREM DesignationsHold == Spec => []Designations
  <1>1. IInv => Designations
    BY TablesOfIInv DEF Sound, Designations
  <1>. QED
    BY <1>1, Inductive, PTL

\* The three copies of every link agree.
THEOREM AdjacencyHolds == Spec => []Adjacency
  <1>1. IInv => Adjacency
    BY TablesOfIInv DEF Sound, Adjacency
  <1>. QED
    BY <1>1, Inductive, PTL

\* The index table is exact as long as no load catches an error: then every
\* statement that throws half way is rolled back.
THEOREM IndexesHold ==
    ASSUME ~CaughtInLoad
    PROVE  Spec => []Indexes
  <1>1. IInv => Indexes
    BY DEF IInv, Good, Indexes
  <1>. QED
    BY <1>1, Inductive, PTL

\* A deleted record's id never comes back.
THEOREM IdsHold == Spec => IdsAreNotReused
  <1>1. IInv /\ [Next]_vars
          => [\A i \in Live(committed') \ Live(committed) :
                 i >= committed.nextNode]_vars
    <2> SUFFICES ASSUME IInv, [Next]_vars,
                        NEW i \in Live(committed') \ Live(committed)
                 PROVE  i >= committed.nextNode
      OBVIOUS
    <2>1. Grown(committed, committed')
      BY StepKeeps DEF StepGoal
    <2>. QED
      BY <2>1 DEF Grown
  <1>. QED
    BY <1>1, Inductive, PTL DEF Spec, IdsAreNotReused

\* No designation is lost while its record lives, however long ago the update
\* that stores the record has read it and whichever session it belongs to.
THEOREM DesignationsStayHold == Spec => DesignationsStay
  <1>1. IInv /\ [Next]_vars
          => [\A i \in Live(committed) \cap Live(committed') :
                 RowOf(committed, i).tags \subseteq RowOf(committed', i).tags]_vars
    <2> SUFFICES ASSUME IInv, [Next]_vars,
                        NEW i \in Live(committed) \cap Live(committed')
                 PROVE  RowOf(committed, i).tags
                           \subseteq RowOf(committed', i).tags
      OBVIOUS
    <2>1. Grown(committed, committed')
      BY StepKeeps DEF StepGoal
    <2>. QED
      BY <2>1 DEF Grown
  <1>. QED
    BY <1>1, Inductive, PTL DEF Spec, DesignationsStay

------------------------------------------------------------------------------
(* One session                                                             *)
(*                                                                         *)
(* The endpoints of a Link are resolved before its transaction.  With      *)
(* several sessions another one may delete one in between; with one        *)
(* session both still live when the link is stored.                        *)

OneSession == \A r, s \in Session : r = s

\* The endpoints of a Link still live in the tables t its session reads.
StillHolds(statement, t) ==
    statement.op = "link" => {statement.src, statement.dst} \subseteq Live(t)

SoloInv ==
    /\ owner = Free => working = committed
    /\ LinksAttached(committed) /\ LinksAttached(working)
    /\ \A s \in Session : job[s] # Idle =>
          /\ job[s].running => owner = s
          /\ StillHolds(job[s], View(s))

LEMMA SoloView ==
    ASSUME SoloInv, NEW s \in Session
    PROVE  LinksAttached(View(s))
  BY DEF SoloInv, View

\* After a statement has ended nothing that was read is used any more.
LEMMA SoloComplete ==
    ASSUME OneSession, IInv, SoloInv, NEW s \in Session, NEW t, LinksAttached(t),
           Complete(s, t)
    PROVE  SoloInv'
  <1>1. \A r \in Session : job'[r] = Idle
    BY DEF OneSession, Complete, IInv
  <1>. QED
    BY <1>1 DEF Complete, SoloInv, IInv

LEMMA SoloRollback ==
    ASSUME SoloInv, Rollback, \A r \in Session : job'[r] = Idle
    PROVE  SoloInv'
  BY DEF Rollback, SoloInv

LEMMA SoloFail ==
    ASSUME OneSession, IInv, SoloInv, NEW s \in Session, NEW t, LinksAttached(t),
           Fail(s, t)
    PROVE  SoloInv'
  <1>1. \A r \in Session : job'[r] = Idle
    BY DEF OneSession, Fail, IInv
  <1>2. CASE Rollback
    BY <1>1, <1>2, SoloRollback
  <1>3. CASE /\ loading /\ CaughtInLoad
             /\ working' = t
             /\ UNCHANGED <<committed, owner, loading>>
    BY <1>1, <1>3 DEF SoloInv, IInv
  <1>. QED
    BY <1>2, <1>3 DEF Fail

LEMMA SoloPublishFact ==
    ASSUME OneSession, IInv, SoloInv, NEW s \in Session, NEW val \in Value,
           NEW tags \in SUBSET Tag, NEW seed \in BOOLEAN,
           PublishFact(s, val, tags, seed)
    PROVE  SoloInv'
  <1> DEFINE t == View(s)
             key == val[KeyField]
             inserted == InsertFact(t, val, tags)
             indexed == AddIndexes(inserted, val, t.nextNode)
  <1> HIDE DEF t
  <1>1. Sound(t) /\ t \in Tables /\ LinksAttached(t)
    BY ViewIsGood, SoloView DEF t
  <1>2. CASE Fail(s, t)
    BY <1>1, <1>2, SoloFail
  <1>3. CASE key \in Key /\ t.node[key] = NoRow /\ t.nextNode <= MaxNode
    <2>1. t.nextNode \in Id
      BY <1>1, <1>3, SequenceAssumption DEF Tables, Id
    <2>2. Sound(inserted) /\ LinksAttached(inserted)
      BY <1>1, <1>3, <2>1, InsertFactSound, InsertFactAttached
    <2>3. LinksAttached(indexed)
      BY <2>1, <2>2, IndexesKeepAttached
    <2>4. Complete(s, indexed) \/ Fail(s, inserted) \/ Fail(s, t)
      BY <1>3, <2>1 DEF PublishFact, t
    <2>. QED
      BY <1>2, <2>2, <2>3, <2>4, SoloComplete, SoloFail
  <1>4. CASE key \in Key /\ t.node[key] # NoRow
    <2> DEFINE row == t.node[key]
               enriched == ReplaceFact(t, key, val, row.tags \cup tags)
    <2>1. row.tags \cup tags \in SUBSET Tag
      BY <1>1, <1>4, StoredRow DEF Sound
    <2>2. LinksAttached(enriched)
      BY <1>1, <1>4, <2>1, ReplaceFactAttached
    <2>3. Complete(s, t) \/ Complete(s, enriched) \/ Fail(s, t)
      <3> HIDE DEF enriched
      <3>. QED
        BY <1>4 DEF PublishFact, t, enriched
    <2>. QED
      BY <1>1, <1>2, <2>2, <2>3, SoloComplete
  <1>. QED
    <2>1. \/ Fail(s, t)
          \/ key \in Key /\ t.node[key] = NoRow
          \/ key \in Key /\ t.node[key] # NoRow
      BY DEF PublishFact, t
    <2>2. key \in Key /\ t.node[key] = NoRow /\ ~(t.nextNode <= MaxNode)
            => Fail(s, t)
      BY <1>1, SequenceAssumption DEF PublishFact, t, Tables
    <2>. QED
      BY <2>1, <2>2, <1>2, <1>3, <1>4

LEMMA SoloSelect ==
    ASSUME OneSession, IInv, SoloInv, NEW s \in Session, NEW statement,
           Select(s, statement), ~statement.running,
           StillHolds(statement, View(s))
    PROVE  SoloInv'
  <1>1. job'[s] = statement
    BY DEF Select, IInv
  <1>2. View(s)' = View(s)
    BY DEF Select, View
  <1>. QED
    BY <1>1, <1>2 DEF Select, SoloInv, OneSession

\* What a selection has read holds where it was read.
LEMMA SoloSelection ==
    ASSUME OneSession, IInv, SoloInv, NEW s \in Session,
           SelectForDelete(s) \/ SelectForUpdate(s) \/ ResolveEndpoints(s)
    PROVE  SoloInv'
  <1> DEFINE t == View(s)
  <1>3. CASE SelectForDelete(s)
    <2>1. PICK ids \in (SUBSET Live(t)) \ {{}} :
             Select(s, [op |-> "delete", running |-> FALSE, rows |-> ids])
      BY <1>3 DEF SelectForDelete
    <2>2. StillHolds([op |-> "delete", running |-> FALSE, rows |-> ids], t)
      BY DEF StillHolds
    <2>. QED
      BY <2>1, <2>2, SoloSelect
  <1>4. CASE SelectForUpdate(s)
    <2>1. PICK ids \in (SUBSET Live(t)) \ {{}}, f \in Field, d \in Datum :
             Select(s, [op |-> "update", running |-> FALSE, field |-> f,
                        rows |-> {<<i, [RowOf(t, i).val EXCEPT ![f] = d]>> :
                                     i \in ids}])
      BY <1>4 DEF SelectForUpdate
    <2> DEFINE next == {<<i, [RowOf(t, i).val EXCEPT ![f] = d]>> : i \in ids}
               statement == [op |-> "update", running |-> FALSE, field |-> f,
                             rows |-> next]
    <2>2. ~statement.running /\ StillHolds(statement, t)
      BY DEF StillHolds
    <2>. QED
      BY <2>1, <2>2, SoloSelect
  <1>5. CASE ResolveEndpoints(s)
    <2>1. PICK src \in Live(t), dst \in Live(t) :
             Select(s, [op |-> "link", running |-> FALSE,
                        src |-> src, dst |-> dst])
      BY <1>5 DEF ResolveEndpoints
    <2>2. StillHolds([op |-> "link", running |-> FALSE,
                      src |-> src, dst |-> dst], t)
      BY DEF StillHolds
    <2>. QED
      BY <2>1, <2>2, SoloSelect
  <1>. QED
    BY <1>3, <1>4, <1>5

\* The transaction a statement enters shows it the tables it has read.
LEMMA SoloEnter ==
    ASSUME OneSession, IInv, SoloInv, NEW s \in Session, EnterStatement(s)
    PROVE  SoloInv'
  <1>1. View(s)' = View(s)
    BY DEF EnterStatement, MayEnter, View, SoloInv
  <1>2. job[s] \in Delete \cup Update
    BY JobKinds DEF EnterStatement
  <1>3. job'[s] = [job[s] EXCEPT !.running = TRUE]
    BY DEF EnterStatement, IInv
  <1>4. job'[s].op # "link"
    BY <1>2, <1>3 DEF Delete, Update
  <1>6. StillHolds(job'[s], View(s))
    BY <1>4 DEF StillHolds
  <1>. QED
    BY <1>1, <1>6, SessionAssumption DEF EnterStatement, SoloInv, OneSession

LEMMA SoloRowDone ==
    ASSUME OneSession, IInv, SoloInv, NEW s \in Session, NEW row, NEW t,
           LinksAttached(t), job[s] \in Delete \cup Update, job[s].running,
           job[s] # Idle, RowDone(s, row, t)
    PROVE  SoloInv'
  <1>1. owner = s /\ owner # Free
    BY SessionAssumption DEF SoloInv
  <1>2. View(s)' = t
    BY <1>1 DEF RowDone, View
  <1>3. job'[s] = [job[s] EXCEPT !.rows = @ \ {row}]
    BY DEF RowDone, IInv
  <1>4. job'[s].op # "link"
    BY <1>3 DEF Delete, Update
  <1>5. StillHolds(job'[s], t)
    BY <1>4 DEF StillHolds
  <1>. QED
    BY <1>1, <1>2, <1>5 DEF RowDone, SoloInv, OneSession

LEMMA SoloDeleteRow ==
    ASSUME OneSession, IInv, SoloInv, NEW s \in Session, NEW i \in Id,
           DeleteRow(s, i)
    PROVE  SoloInv'
  <1> DEFINE row == RowOf(working, i)
             unindexed == RemoveIndexes(working, row.val, i)
             deleted == DeleteFact(unindexed, row.val[KeyField])
  <1>1. job[s] \in Delete \cup Update /\ job[s].running /\ job[s] # Idle
    BY JobKinds DEF DeleteRow, Executing
  <1>2. Sound(working) /\ working \in Tables /\ LinksAttached(working)
    BY TablesOfIInv DEF SoloInv
  <1>3. CASE RowDone(s, i, working) \/ Fail(s, working)
    BY <1>1, <1>2, <1>3, SoloRowDone, SoloFail
  <1>4. CASE i \in Live(working)
    <2>1. /\ row.val \in Value /\ row.val[KeyField] \in Key
          /\ working.node[row.val[KeyField]] = row
          /\ row.id = i /\ row # NoRow
      BY <1>2, <1>4, LiveRow DEF Sound
    <2>2. /\ Sound(unindexed) /\ LinksAttached(unindexed)
          /\ unindexed.node = working.node
      BY <1>2, <2>1, IndexesKeepSound, IndexesKeepAttached
    <2>3. Incoming(unindexed, i) = {} => LinksAttached(deleted)
      <3>1. /\ unindexed.node[row.val[KeyField]] # NoRow
            /\ unindexed.node[row.val[KeyField]].id = i
        BY <2>1, <2>2
      <3>. QED
        BY <2>1, <2>2, <3>1, DeleteFactAttached
    <2>4. \/ Fail(s, working)
          \/ Fail(s, unindexed)
          \/ Incoming(unindexed, i) = {} /\ RowDone(s, i, deleted)
      BY <1>4 DEF DeleteRow
    <2>. QED
      BY <1>1, <1>3, <2>2, <2>3, <2>4, SoloFail, SoloRowDone
  <1>. QED
    BY <1>3, <1>4 DEF DeleteRow

LEMMA SoloUpdateRow ==
    ASSUME OneSession, IInv, SoloInv, NEW s \in Session, NEW i \in Id,
           NEW next \in Value, UpdateRow(s, i, next)
    PROVE  SoloInv'
  <1> DEFINE row == RowOf(working, i)
             unindexed == RemoveIndexes(working, row.val, i)
             replaced == ReplaceFact(unindexed, row.val[KeyField], next,
                                     row.tags)
             indexed == AddIndexes(replaced, next, i)
  <1>1. job[s] \in Delete \cup Update /\ job[s].running /\ job[s] # Idle
    BY JobKinds DEF UpdateRow, Executing
  <1>2. Sound(working) /\ working \in Tables /\ LinksAttached(working)
    BY TablesOfIInv DEF SoloInv
  <1>3. CASE Fail(s, working)
    BY <1>2, <1>3, SoloFail
  <1>4. CASE i \in Live(working)
    <2>1. /\ row.val \in Value /\ row.tags \in SUBSET Tag
          /\ row.val[KeyField] \in Key
          /\ working.node[row.val[KeyField]] = row /\ row # NoRow
      BY <1>2, <1>4, LiveRow DEF Sound
    <2>2. /\ Sound(unindexed) /\ LinksAttached(unindexed)
          /\ unindexed.node = working.node
      BY <1>2, <2>1, IndexesKeepSound, IndexesKeepAttached
    <2>3. CASE Fail(s, unindexed)
      BY <2>2, <2>3, SoloFail
    <2>4. CASE /\ next[KeyField] \in Key
               /\ MayMove(unindexed, row, next[KeyField])
               /\ \/ RowDone(s, <<i, next>>, indexed)
                  \/ Fail(s, replaced)
      <3>1. /\ unindexed.node[row.val[KeyField]] # NoRow
            /\ \/ next[KeyField] = row.val[KeyField]
               \/ unindexed.node[next[KeyField]] = NoRow
        BY <2>1, <2>2, <2>4 DEF MayMove
      <3>2. Sound(replaced) /\ LinksAttached(replaced)
        BY <2>1, <2>2, <2>4, <3>1, ReplaceFactSound, ReplaceFactAttached
      <3>3. LinksAttached(indexed)
        BY <3>2, IndexesKeepAttached
      <3>. QED
        BY <1>1, <2>4, <3>2, <3>3, SoloFail, SoloRowDone
    <2>5. next[KeyField] \in Key \/ next[KeyField] \in Structured
      BY FieldAssumption DEF Value, Key
    <2>. QED
      BY <1>3, <1>4, <2>3, <2>4, <2>5 DEF UpdateRow
  <1>. QED
    BY <1>3, <1>4 DEF UpdateRow

LEMMA SoloPublishLink ==
    ASSUME OneSession, IInv, SoloInv, NEW s \in Session,
           NEW props \in Property, NEW seed \in BOOLEAN,
           PublishLink(s, props, seed)
    PROVE  SoloInv'
  <1> DEFINE t == View(s)
             linked == InsertLink(t, job[s].src, job[s].dst, props)
  <1> HIDE DEF t
  <1>1. Sound(t) /\ t \in Tables /\ LinksAttached(t)
    BY ViewIsGood, SoloView DEF t
  <1>2. job[s].src \in Live(t) /\ job[s].dst \in Live(t)
    BY DEF PublishLink, SoloInv, StillHolds, t
  <1>3. CASE Complete(s, t) \/ Fail(s, t)
    BY <1>1, <1>3, SoloComplete, SoloFail
  <1>4. CASE /\ SameLink(t, job[s].src, job[s].dst, props) = {}
             /\ t.nextLink <= MaxLink
             /\ Complete(s, linked)
    <2>1. t.nextLink \in LinkId
      BY <1>1, <1>4, SequenceAssumption DEF Tables, LinkId
    <2>2. LinksAttached(linked)
      BY <1>1, <1>2, <1>4, <2>1, InsertLinkAttached
    <2>. QED
      BY <1>4, <2>2, SoloComplete
  <1>5. t.nextLink \in Int /\ MaxLink \in Int
    BY <1>1, SequenceAssumption DEF Tables
  <1>. QED
    BY <1>3, <1>4, <1>5 DEF PublishLink, t

LEMMA SoloLoad ==
    ASSUME OneSession, IInv, SoloInv, NEW s \in Session, Load(s)
    PROVE  SoloInv'
  <1>1. \A r \in Session : job[r] = Idle
    BY DEF Load, BeginModule, CommitModule, RollbackModule, OneSession
  <1>2. job' = job
    BY DEF Load, BeginModule, CommitModule, RollbackModule
  <1>3. CASE BeginModule(s)
    BY <1>1, <1>2, <1>3, SessionAssumption DEF BeginModule, SoloInv
  <1>4. CASE CommitModule(s)
    BY <1>1, <1>2, <1>4 DEF CommitModule, SoloInv
  <1>5. CASE RollbackModule(s)
    BY <1>1, <1>2, <1>5, SoloRollback DEF RollbackModule
  <1>. QED
    BY <1>3, <1>4, <1>5 DEF Load

LEMMA SoloStep ==
    ASSUME OneSession, IInv, SoloInv, [Next]_vars
    PROVE  SoloInv'
  <1>1. ASSUME NEW s \in Session, Load(s)
        PROVE  SoloInv'
    BY <1>1, SoloLoad
  <1>2. ASSUME NEW s \in Session, Mutate(s)
        PROVE  SoloInv'
    <2>1. CASE \E val \in Value, tags \in SUBSET Tag, seed \in BOOLEAN :
                  PublishFact(s, val, tags, seed)
      BY <2>1, SoloPublishFact
    <2>2. CASE SelectForDelete(s) \/ SelectForUpdate(s)
      BY <2>2, SoloSelection
    <2>3. CASE EnterStatement(s)
      BY <2>3, SoloEnter
    <2>4. CASE \E i \in Id : DeleteRow(s, i)
      BY <2>4, SoloDeleteRow
    <2>5. CASE \E i \in Id, next \in Value : UpdateRow(s, i, next)
      BY <2>5, SoloUpdateRow
    <2>6. CASE FinishStatement(s)
      BY <2>6, SoloComplete, SoloFail DEF FinishStatement, SoloInv
    <2>. QED
      BY <1>2, <2>1, <2>2, <2>3, <2>4, <2>5, <2>6 DEF Mutate
  <1>3. ASSUME NEW s \in Session, Connect(s)
        PROVE  SoloInv'
    BY <1>3, SoloSelection, SoloPublishLink DEF Connect
  <1>4. CASE Crash
    BY <1>4, SoloRollback DEF Crash
  <1>5. CASE UNCHANGED vars
    BY <1>5 DEF vars, SoloInv, View
  <1>. QED
    BY <1>1, <1>2, <1>3, <1>4, <1>5 DEF Next

LEMMA SoloInvariance ==
    ASSUME OneSession
    PROVE  Spec => []SoloInv
  <1>1. Init => SoloInv
    BY DEF Init, SoloInv, EmptyTables, LinksAttached
  <1>2. IInv /\ SoloInv /\ [Next]_vars => SoloInv'
    BY SoloStep
  <1>. QED
    BY <1>1, <1>2, Inductive, PTL DEF Spec

\* In a store that one session writes no link dangles, whatever statements
\* fail half way and whatever errors loads catch.
THEOREM AttachedHolds ==
    ASSUME OneSession
    PROVE  Spec => []Attached
  <1>1. SoloInv => Attached
    BY DEF SoloInv, Attached
  <1>. QED
    BY <1>1, SoloInvariance, PTL
==============================================================================
