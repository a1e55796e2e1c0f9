--------------------------- MODULE RelationProofs ---------------------------
(***************************************************************************)
(* What the replication stream brings to a shape, for any values of the    *)
(* constants: every committed change of every table that the shape reads   *)
(* (RelationSync).                                                         *)
(***************************************************************************)
EXTENDS RelationSync, TLAPS

(***************************************************************************)
(* The relations of the stream: types.                                     *)
(***************************************************************************)
\* The columns that the tuples of some tables were written with.
Writes == UNION {[T -> Layout] : T \in SUBSET Table}

\* A transaction, a TRUNCATE or an ALTER TABLE that is not confirmed.
Entry == [kind : {"change", "truncate", "alter"}, id : Nat, tables : SUBSET Table, written : Writes]

\* A message that changes rows.
IsRow(e) == e.kind \in {"change", "truncate"}

\* The columns that occur.
Column == UNION {Range(layout) : layout \in Layout}
\* A change of a table, as a shape may miss it.
Change == [id : Nat, relation : Table, written : Layout]
\* The shape that is followed.
Shape == [active : BOOLEAN, schema : SUBSET Column, read : SUBSET (SUBSET Column), missing : SUBSET Change]

\* The types, inductive: RelationTypeOK and the types of what is not confirmed.
StreamInv ==
  /\ RelationTypeOK /\ shape \in Shape
  /\ def \in Definition /\ events \in Nat
  /\ wal \in Seq(Entry)
  /\ \A i \in 1 .. Len(wal) : IsRow(wal[i]) => wal[i].written \in [wal[i].tables -> Layout]

-----------------------------------------------------------------------------
\* A topmost table is a table and its own topmost table.
LEMMA RootsKnown ==
  /\ \A t \in Table : Root[t] \in Roots /\ Root[t] \in Table /\ Root[Root[t]] = Root[t]
  /\ Roots \subseteq Table
BY RelationSyncAssumption DEF Roots

\* The columns of a table are a layout.
LEMMA ColumnsType ==
  ASSUME catalog \in [Roots -> Layout], NEW t \in Table
  PROVE  Columns(t) \in Layout
BY RootsKnown DEF Columns

\* The stream after one more message.
LEMMA WalAppended ==
  ASSUME NEW w \in Seq(Entry), NEW e \in Entry, NEW v, v = Append(w, e)
  PROVE  /\ v \in Seq(Entry) /\ Len(w) \in Nat /\ Len(v) = Len(w) + 1 /\ v # <<>>
         /\ \A i \in 1 .. Len(w) : v[i] = w[i]
         /\ v[Len(w) + 1] = e
         /\ w # <<>> => Head(v) = Head(w)
OBVIOUS

\* The stream after its first message was confirmed.
LEMMA WalTail ==
  ASSUME NEW w \in Seq(Entry), w # <<>>, NEW v, v = Tail(w)
  PROVE  /\ v \in Seq(Entry) /\ Len(w) \in Nat \ {0} /\ Len(v) = Len(w) - 1
         /\ \A i \in 1 .. Len(v) : v[i] = w[i + 1]
         /\ Head(w) = w[1] /\ Head(w) \in Entry
OBVIOUS

\* The message of a transaction or a TRUNCATE.
LEMMA NewRow ==
  ASSUME StreamInv, NEW kind \in {"change", "truncate"}, NEW tables \in SUBSET Table, NEW e,
         e = [kind |-> kind, id |-> events, tables |-> tables,
              written |-> [t \in tables |-> Columns(t)]]
  PROVE  /\ e \in Entry /\ IsRow(e) /\ e.id = events /\ e.tables = tables
         /\ e.written \in [tables -> Layout]
         /\ \A t \in tables : e.written[t] = Columns(t)
<1>1. [t \in tables |-> Columns(t)] \in [tables -> Layout]
  BY ColumnsType DEF StreamInv, RelationTypeOK
<1>2. [t \in tables |-> Columns(t)] \in Writes
  BY <1>1, Zenon DEF Writes
<1>3. events \in Nat
  BY DEF StreamInv
<1> DEFINE w == [t \in tables |-> Columns(t)]
<1>4. \A t \in tables : w[t] = Columns(t)
  OBVIOUS
<1> HIDE DEF w
<1>5. e = [kind |-> kind, id |-> events, tables |-> tables, written |-> w]
  BY DEF w
<1>6. QED
  BY <1>1, <1>2, <1>3, <1>4, <1>5 DEF Entry, IsRow, w

\* The message of an ALTER TABLE.
LEMMA NewAlter ==
  ASSUME StreamInv, NEW tables \in SUBSET Table, NEW e,
         e = [kind |-> "alter", id |-> events, tables |-> tables, written |-> <<>>]
  PROVE  e \in Entry /\ ~IsRow(e) /\ e.id = events /\ e.tables = tables /\ e.kind = "alter"
<1>1. <<>> \in [{} -> Layout]
  OBVIOUS
<1>2. <<>> \in Writes
  BY <1>1, Zenon DEF Writes
<1>3. events \in Nat
  BY DEF StreamInv
<1>4. QED
  BY <1>2, <1>3 DEF Entry, IsRow

-----------------------------------------------------------------------------
\* The types at the start.
LEMMA StreamInitInv ==
  ASSUME RelationInit
  PROVE  StreamInv
<1>1. catalog \in [Roots -> Layout]
  BY DEF RelationInit
<1>2. /\ described = {} /\ cache = <<>> /\ applying = FALSE /\ refreshed = FALSE /\ todo = {}
      /\ shape = NoShape /\ wal = <<>> /\ events = 0 /\ def \in Definition
  BY DEF RelationInit
<1>3. DOMAIN cache = described
  BY <1>2
<1>4. shape.active = FALSE
  BY <1>2 DEF NoShape
<1>8. shape \in Shape
  BY <1>2 DEF NoShape, Shape
<1>5. RelationTypeOK
  BY <1>1, <1>2, <1>3, <1>4, Zenon DEF RelationTypeOK
<1>6. wal \in Seq(Entry) /\ Len(wal) = 0
  BY <1>2
<1>7. QED
  BY <1>2, <1>5, <1>6, <1>8 DEF StreamInv

\* A new message keeps the types.
LEMMA StreamAppend ==
  ASSUME StreamInv, NEW e \in Entry, wal' = Append(wal, e),
         IsRow(e) => e.written \in [e.tables -> Layout],
         UNCHANGED <<def, session>>, events' = events + 1, catalog' \in [Roots -> Layout],
         shape' \in Shape, ~shape'.active => shape' = NoShape
  PROVE  StreamInv'
<1>1. /\ wal' \in Seq(Entry) /\ Len(wal) \in Nat /\ Len(wal') = Len(wal) + 1 /\ wal' # <<>>
      /\ \A i \in 1 .. Len(wal) : wal'[i] = wal[i]
      /\ wal'[Len(wal) + 1] = e
      /\ wal # <<>> => Message' = Message
  BY WalAppended DEF StreamInv, Message
<1>2. /\ described' = described /\ cache' = cache /\ applying' = applying /\ todo' = todo
      /\ refreshed' = refreshed /\ def' = def
  BY Zenon DEF session
<1>0. shape'.active \in BOOLEAN
  BY DEF Shape
<1>3. RelationTypeOK'
  BY <1>0, <1>1, <1>2, Zenon DEF StreamInv, RelationTypeOK, Roots
<1>4. ASSUME NEW i \in 1 .. Len(wal'), IsRow(wal'[i])
      PROVE  wal'[i].written \in [wal'[i].tables -> Layout]
  <2>1. CASE i = Len(wal) + 1
    BY <1>1, <1>4, <2>1
  <2>2. CASE i # Len(wal) + 1
    <3>1. i \in 1 .. Len(wal)
      BY <1>1, <2>2
    <3>2. QED
      BY <1>1, <1>4, <3>1, Zenon DEF StreamInv
  <2>3. QED
    BY <2>1, <2>2
<1>5. def' \in Definition /\ events' \in Nat
  BY <1>2 DEF StreamInv
<1>6. QED
  BY <1>1, <1>3, <1>4, <1>5, Zenon DEF StreamInv, IsRow

\* A step that leaves the stream alone keeps its types.
LEMMA StreamSame ==
  ASSUME StreamInv, wal' = wal, def' = def, events' \in Nat, shape' \in Shape, RelationTypeOK'
  PROVE  StreamInv'
BY Zenon DEF StreamInv, IsRow

\* Confirming a message keeps the types.
LEMMA StreamTail ==
  ASSUME StreamInv, wal # <<>>, wal' = Tail(wal), def' = def, events' \in Nat, shape' \in Shape, RelationTypeOK'
  PROVE  StreamInv'
<1>1. /\ wal' \in Seq(Entry) /\ Len(wal) \in Nat \ {0} /\ Len(wal') = Len(wal) - 1
      /\ \A i \in 1 .. Len(wal') : wal'[i] = wal[i + 1]
  BY WalTail DEF StreamInv
<1>2. ASSUME NEW i \in 1 .. Len(wal'), IsRow(wal'[i])
      PROVE  wal'[i].written \in [wal'[i].tables -> Layout]
  <2>1. i + 1 \in 1 .. Len(wal) /\ wal'[i] = wal[i + 1]
    BY <1>1
  <2>2. QED
    BY <1>2, <2>1, Zenon DEF StreamInv
<1>3. def' \in Definition
  BY DEF StreamInv
<1>4. QED
  BY <1>1, <1>2, <1>3, Zenon DEF StreamInv, IsRow

\* A new connection starts with an empty cache and no batch.
LEMMA ReconnectedTypes ==
  ASSUME StreamInv, Reconnected, catalog' \in [Roots -> Layout],
         shape' \in Shape, ~shape'.active => shape' = NoShape
  PROVE  RelationTypeOK'
<1>1. described' = {} /\ cache' = <<>> /\ applying' = FALSE /\ todo' = {} /\ refreshed' = FALSE
  BY DEF Reconnected
<1>2. DOMAIN cache' = described'
  BY <1>1
<1>3. shape'.active \in BOOLEAN
  BY DEF Shape
<1>4. QED
  BY <1>1, <1>2, <1>3, Zenon DEF RelationTypeOK, Roots

\* The columns of a shape are columns.
LEMMA ProjectedType ==
  ASSUME NEW layout \in Layout, NEW explicit
  PROVE  projectedColumns(layout, explicit) \in SUBSET Column
BY Zenon DEF projectedColumns, Column

\* A shape that was queried in full misses nothing.
LEMMA QueriedType ==
  ASSUME StreamInv
  PROVE  Queried \in Shape /\ Queried.active = TRUE /\ Queried.missing = {}
<1>1. def.relation \in Table
  BY RelationSyncAssumption DEF StreamInv
<1>2. Columns(def.relation) \in Layout
  BY <1>1, ColumnsType DEF StreamInv, RelationTypeOK
<1>3. projectedColumns(Columns(def.relation), def.columns) \in SUBSET Column
  BY <1>2, ProjectedType, Zenon
<1>4. QED
  BY <1>3 DEF Queried, Shape

\* The shape that is not registered.
LEMMA NoShapeType ==
  NoShape \in Shape /\ NoShape.active = FALSE
BY DEF NoShape, Shape

\* The changes of a transaction are changes.
LEMMA NewChanges ==
  ASSUME StreamInv, NEW tables \in SUBSET Table
  PROVE  {[id |-> events, relation |-> t, written |-> Columns(t)] :
            t \in {u \in tables : Reads(u)}} \subseteq Change
BY ColumnsType DEF StreamInv, RelationTypeOK, Change

\* What a transaction adds to the changes that a registered shape misses.
LEMMA ChangedType ==
  ASSUME StreamInv, NEW tables \in SUBSET Table, Changed(tables)
  PROVE  /\ shape' \in Shape /\ (~shape'.active => shape' = NoShape)
         /\ shape'.active = shape.active
         /\ shape.active => shape'.missing = shape.missing \cup
              {[id |-> events, relation |-> t, written |-> Columns(t)] :
                 t \in {u \in tables : Reads(u)}}
<1>1. CASE shape.active
  <2> DEFINE new == {[id |-> events, relation |-> t, written |-> Columns(t)] :
                       t \in {u \in tables : Reads(u)}}
  <2>1. new \subseteq Change
    BY NewChanges, Zenon
  <2>2. shape' = [shape EXCEPT !.missing = @ \cup new]
    BY <1>1, Zenon DEF Changed
  <2> HIDE DEF new
  <2>3. shape' \in Shape /\ shape'.active = shape.active /\ shape'.missing = shape.missing \cup new
    BY <2>1, <2>2, Zenon DEF StreamInv, Shape
  <2>4. QED
    BY <1>1, <2>3, Zenon DEF new
<1>2. CASE ~shape.active
  BY <1>2, Zenon DEF StreamInv, RelationTypeOK, Changed
<1>3. QED
  BY <1>1, <1>2

\* A transaction keeps the types.
LEMMA CommitStream ==
  ASSUME StreamInv, NEW tables \in SUBSET Table, Commit(tables)
  PROVE  StreamInv'
<1> DEFINE e == [kind |-> "change", id |-> events, tables |-> tables,
                 written |-> [t \in tables |-> Columns(t)]]
<1>1. /\ wal' = Append(wal, e) /\ events' = events + 1 /\ UNCHANGED <<def, session>>
      /\ catalog' = catalog /\ Changed(tables)
  BY Zenon DEF Commit
<1>2. e \in Entry /\ e.written \in [e.tables -> Layout]
  BY NewRow
<1>3. shape' \in Shape /\ (~shape'.active => shape' = NoShape)
  BY <1>1, ChangedType, Zenon
<1>4. catalog' \in [Roots -> Layout]
  BY <1>1 DEF StreamInv, RelationTypeOK
<1> HIDE DEF e
<1>5. QED
  BY <1>1, <1>2, <1>3, <1>4, StreamAppend, Zenon

\* TRUNCATE keeps the types.
LEMMA TruncateStream ==
  ASSUME StreamInv, NEW t \in Table, Truncate(t)
  PROVE  StreamInv'
<1> DEFINE tables == (IF t \in Leaf THEN {t} ELSE Family(t)) \ dropped
           e == [kind |-> "truncate", id |-> events, tables |-> tables,
                 written |-> [u \in tables |-> Columns(u)]]
<1>1. /\ wal' = Append(wal, e) /\ events' = events + 1 /\ UNCHANGED <<def, session>>
      /\ catalog' = catalog /\ Changed(tables \cap Leaf)
  BY Zenon DEF Truncate
<1>2. tables \in SUBSET Table /\ tables \cap Leaf \in SUBSET Table
  BY DEF Family
<1> HIDE DEF tables
<1>3. e \in Entry /\ e.written \in [e.tables -> Layout]
  BY <1>2, NewRow
<1>4. shape' \in Shape /\ (~shape'.active => shape' = NoShape)
  BY <1>1, <1>2, ChangedType, Zenon
<1>5. catalog' \in [Roots -> Layout]
  BY <1>1 DEF StreamInv, RelationTypeOK
<1> HIDE DEF e
<1>6. QED
  BY <1>1, <1>3, <1>4, <1>5, StreamAppend, Zenon

\* ALTER TABLE keeps the types.
LEMMA AlterStream ==
  ASSUME StreamInv, NEW t \in Roots, Alter(t)
  PROVE  StreamInv'
<1> DEFINE e == [kind |-> "alter", id |-> events, tables |-> Family(t), written |-> <<>>]
<1>1. /\ wal' = Append(wal, e) /\ events' = events + 1 /\ UNCHANGED <<def, session>>
      /\ shape' = shape
  BY Zenon DEF Alter
<1>2. catalog' \in [Roots -> Layout]
  BY DEF Alter, StreamInv, RelationTypeOK
<1>3. e \in Entry /\ ~IsRow(e)
  BY NewAlter DEF Family
<1>4. shape' \in Shape /\ (~shape'.active => shape' = NoShape)
  BY <1>1, Zenon DEF StreamInv, RelationTypeOK
<1> HIDE DEF e
<1>5. QED
  BY <1>1, <1>2, <1>3, <1>4, StreamAppend, Zenon

\* DROP TABLE and the registration of the shape keep the types.
LEMMA OutsideStream ==
  ASSUME StreamInv, (\E t \in Table : Drop(t)) \/ Register
  PROVE  StreamInv'
<1>1. /\ wal' = wal /\ def' = def /\ catalog' = catalog /\ events' \in {events, events + 1}
      /\ described' = described /\ cache' = cache /\ applying' = applying /\ todo' = todo
      /\ refreshed' \in {refreshed, FALSE} /\ shape' \in {shape, Queried}
  BY Zenon DEF Drop, Register, session, postgres
<1>2. shape' \in Shape /\ (~shape'.active => shape' = NoShape)
  BY <1>1, QueriedType, Zenon DEF StreamInv, RelationTypeOK
<1>3. shape'.active \in BOOLEAN
  BY <1>2 DEF Shape
<1>4. RelationTypeOK'
  BY <1>1, <1>2, <1>3, Zenon DEF StreamInv, RelationTypeOK, Roots, Message
<1>5. events' \in Nat
  BY <1>1 DEF StreamInv
<1>6. QED
  BY <1>1, <1>2, <1>4, <1>5, StreamSame, Zenon

\* A new connection keeps the types.
LEMMA ReconnectedStream ==
  ASSUME StreamInv, Reconnected, UNCHANGED <<def, catalog, shape>>, events' \in Nat
  PROVE  StreamInv'
<1>1. shape' \in Shape /\ (~shape'.active => shape' = NoShape) /\ catalog' \in [Roots -> Layout]
  BY Zenon DEF StreamInv, RelationTypeOK
<1>2. RelationTypeOK'
  BY <1>1, ReconnectedTypes, Zenon
<1>3. wal' = wal /\ def' = def
  BY Zenon DEF Reconnected
<1>4. QED
  BY <1>1, <1>2, <1>3, StreamSame, Zenon

\* Losing the connection keeps the types.
LEMMA LostStream ==
  ASSUME StreamInv, ConnectionLost
  PROVE  StreamInv'
<1>1. Reconnected /\ UNCHANGED <<def, catalog, shape>> /\ events' \in Nat
  BY DEF StreamInv, ConnectionLost
<1>2. QED
  BY <1>1, ReconnectedStream, Zenon

\* A Relation message keeps the types.
LEMMA CacheStream ==
  ASSUME StreamInv, NEW t \in Table, cacheRelationMetadata(t)
  PROVE  StreamInv'
<1>1. /\ wal # <<>> /\ ~applying /\ def' = def /\ catalog' = catalog /\ events' = events
      /\ events \in Nat
  BY Zenon DEF cacheRelationMetadata, postgres, StreamInv
<1>2. CASE Reconnected /\ UNCHANGED shape
  BY <1>1, <1>2, ReconnectedStream, Zenon
<1>3. CASE /\ described' = described \cup {t}
           /\ cache' = [u \in described' |-> IF u = t THEN Columns(t) ELSE cache[u]]
           /\ shape' = invalidateShapesForSchemaChange(t, Columns(t))
           /\ UNCHANGED <<wal, applying, todo, refreshed>>
  <2>1. shape' \in Shape /\ (~shape'.active => shape' = NoShape)
    BY <1>3, NoShapeType, Zenon DEF invalidateShapesForSchemaChange, StreamInv, RelationTypeOK
  <2>2. shape'.active \in BOOLEAN
    BY <2>1 DEF Shape
  <2>3. Columns(t) \in Layout
    BY ColumnsType DEF StreamInv, RelationTypeOK
  <2>4. /\ DOMAIN cache' = described' /\ described' \subseteq Table
        /\ \A u \in described' : cache'[u] \in Layout
    BY <1>3, <2>3, Zenon DEF StreamInv, RelationTypeOK
  <2>5. wal' = wal /\ applying' = applying /\ todo' = todo /\ refreshed' = refreshed
    BY <1>3, Zenon
  <2>6. {c.relation : c \in todo'} \subseteq described'
    BY <1>3, <2>5, Zenon DEF StreamInv, RelationTypeOK
  <2>7. RelationTypeOK'
    BY <1>1, <2>1, <2>2, <2>4, <2>5, <2>6, Zenon DEF StreamInv, RelationTypeOK, Roots, Message
  <2>8. QED
    BY <1>1, <2>1, <2>5, <2>7, StreamSame, Zenon
<1>4. QED
  BY <1>2, <1>3, Zenon DEF cacheRelationMetadata

\* The Commit message, which starts the apply, keeps the types.
LEMMA BeginStream ==
  ASSUME StreamInv, BeginApply
  PROVE  StreamInv'
<1>1. /\ wal # <<>> /\ Message.kind = "change" /\ Message.tables \subseteq described
      /\ applying' = TRUE /\ todo' = Recorded(Message) /\ refreshed' = FALSE
      /\ def' = def /\ catalog' = catalog /\ events' = events /\ wal' = wal
      /\ described' = described /\ cache' = cache /\ shape' = shape
  BY Zenon DEF BeginApply, postgres
<1>2. \A c \in todo' : c.relation \in described
  BY <1>1 DEF Recorded
<1>3. shape' \in Shape /\ events' \in Nat
  BY <1>1 DEF StreamInv
<1>4. RelationTypeOK'
  BY <1>1, <1>2, Zenon DEF StreamInv, RelationTypeOK, Roots, Message
<1>5. QED
  BY <1>1, <1>3, <1>4, StreamSame, Zenon

\* The shape after RefreshKeysWithMetadata for one relation of the batch.
Refreshed(c) ==
  LET selected == projectedColumns(cache[c.relation], def.columns)
  IN  [shape EXCEPT !.schema = selected, !.read = @ \cup {selected},
                    !.missing = {m \in @ : ~(c.decoded /\ m.id = Message.id
                                                        /\ m.relation = c.relation)}]

\* The shape after RefreshKeysWithMetadata misses the same changes except those of
\* the relation, if their keys were decoded.
LEMMA RefreshedType ==
  ASSUME StreamInv, NEW c \in todo
  PROVE  /\ Refreshed(c) \in Shape /\ Refreshed(c).active = shape.active
         /\ Refreshed(c).missing =
              {m \in shape.missing : ~(c.decoded /\ m.id = Message.id /\ m.relation = c.relation)}
<1> DEFINE selected == projectedColumns(cache[c.relation], def.columns)
           left == {m \in shape.missing :
                      ~(c.decoded /\ m.id = Message.id /\ m.relation = c.relation)}
<1>1. cache[c.relation] \in Layout
  BY Zenon DEF StreamInv, RelationTypeOK
<1>2. selected \in SUBSET Column
  BY <1>1, ProjectedType, Zenon
<1>3. Refreshed(c) = [shape EXCEPT !.schema = selected, !.read = @ \cup {selected}, !.missing = left]
  BY DEF Refreshed
<1>4. left \subseteq shape.missing
  BY Zenon
<1> HIDE DEF selected, left
<1>5. shape \in Shape
  BY DEF StreamInv
<1>6. Refreshed(c) = [active |-> shape.active, schema |-> selected,
                      read |-> shape.read \cup {selected}, missing |-> left]
  BY <1>3, <1>5, Zenon DEF Shape
<1>7. /\ shape.active \in BOOLEAN /\ left \in SUBSET Change
      /\ shape.read \cup {selected} \in SUBSET (SUBSET Column)
  <2>1. shape.active \in BOOLEAN /\ shape.read \in SUBSET (SUBSET Column) /\ shape.missing \in SUBSET Change
    BY <1>5 DEF Shape
  <2>2. QED
    BY <1>2, <1>4, <2>1, Zenon
<1>8. /\ Refreshed(c) \in Shape /\ Refreshed(c).active = shape.active
      /\ Refreshed(c).missing = left
  BY <1>2, <1>6, <1>7 DEF Shape
<1>9. QED
  BY <1>8 DEF left

\* What applying one relation of the batch does: a new connection after an error,
\* or the relation is done and the shape is dropped, refreshed for the changed
\* keys, already refreshed, not concerned, or queried anew.
LEMMA ApplyCases ==
  ASSUME NEW c \in todo, applyRelation(c)
  PROVE  /\ applying /\ def' = def /\ catalog' = catalog /\ events' = events /\ dropped' = dropped
         /\ \/ Reconnected /\ shape' = shape
            \/ /\ todo' = todo \ {c} /\ wal' = wal /\ described' = described /\ cache' = cache
               /\ applying' = applying
               /\ \/ refreshed' = refreshed /\ shape' = NoShape
                  \/ /\ refreshed' = refreshed /\ shape' = Refreshed(c)
                     /\ def.targeted /\ candidate(c.relation)
                  \/ /\ refreshed' = refreshed /\ shape' = shape
                     /\ refreshed /\ dependent(c.relation)
                  \/ /\ refreshed' = refreshed /\ shape' = shape
                     /\ ~(def.targeted /\ candidate(c.relation)) /\ ~dependent(c.relation)
                  \/ refreshed' = TRUE /\ shape' \in {Queried, NoShape}
<1>1. applying /\ def' = def /\ catalog' = catalog /\ events' = events /\ dropped' = dropped
  BY Zenon DEF applyRelation, postgres
<1>2. CASE def.targeted /\ candidate(c.relation) /\ refreshKeys(c)
  BY <1>1, <1>2, Zenon DEF refreshKeys, Refreshed
<1>3. CASE dependent(c.relation) /\ refreshDependent(c)
  BY <1>1, <1>3, Zenon DEF refreshDependent
<1>4. CASE /\ ~(def.targeted /\ candidate(c.relation)) /\ ~dependent(c.relation)
           /\ todo' = todo \ {c}
           /\ UNCHANGED <<wal, described, cache, applying, refreshed, shape>>
  BY <1>1, <1>4, Zenon
<1>5. QED
  BY <1>2, <1>3, <1>4, Zenon DEF applyRelation

\* Applying a relation keeps the types.
LEMMA ApplyStream ==
  ASSUME StreamInv, NEW c \in todo, applyRelation(c)
  PROVE  StreamInv'
<1>1. applying /\ def' = def /\ catalog' = catalog /\ events' = events /\ events \in Nat
  BY ApplyCases, Zenon DEF StreamInv
<1>2. CASE Reconnected /\ shape' = shape
  BY <1>1, <1>2, ReconnectedStream, Zenon
<1>3. CASE /\ todo' = todo \ {c} /\ wal' = wal /\ described' = described /\ cache' = cache
           /\ applying' = applying /\ refreshed' \in {refreshed, TRUE}
           /\ \/ shape' \in {NoShape, shape, Queried}
              \/ shape' = Refreshed(c) /\ candidate(c.relation)
  <2>1. shape' \in Shape /\ (~shape'.active => shape' = NoShape)
    <3>1. CASE shape' = Refreshed(c) /\ candidate(c.relation)
      BY <3>1, RefreshedType, Zenon DEF candidate
    <3>2. CASE shape' \in {NoShape, shape, Queried}
      BY <3>2, QueriedType, NoShapeType, Zenon DEF StreamInv, RelationTypeOK
    <3>3. QED
      BY <1>3, <3>1, <3>2, Zenon
  <2>2. shape'.active \in BOOLEAN
    BY <2>1 DEF Shape
  <2>3. RelationTypeOK'
    BY <1>1, <1>3, <2>1, <2>2, Zenon DEF StreamInv, RelationTypeOK, Roots, Message
  <2>4. QED
    BY <1>1, <1>3, <2>1, <2>3, StreamSame, Zenon
<1>4. QED
  BY <1>2, <1>3, ApplyCases, Zenon

\* Confirming a transaction keeps the types.
LEMMA FinishStream ==
  ASSUME StreamInv, FinishApply
  PROVE  StreamInv'
<1>1. /\ applying /\ todo = {} /\ applying' = FALSE /\ wal' = Tail(wal) /\ def' = def
      /\ catalog' = catalog /\ events' = events /\ described' = described /\ cache' = cache
      /\ todo' = todo /\ refreshed' = refreshed /\ shape' = shape
  BY Zenon DEF FinishApply, postgres
<1>2. wal # <<>> /\ shape' \in Shape /\ events' \in Nat
  BY <1>1, Zenon DEF StreamInv, RelationTypeOK
<1>3. RelationTypeOK'
  BY <1>1, Zenon DEF StreamInv, RelationTypeOK, Roots
<1>4. QED
  BY <1>1, <1>2, <1>3, StreamTail, Zenon

\* A Truncate message keeps the types; no batch is open then.
LEMMA HandleStream ==
  ASSUME StreamInv, HandleTruncate
  PROVE  StreamInv' /\ ~applying
<1>1. /\ wal # <<>> /\ Message.kind = "truncate" /\ wal' = Tail(wal) /\ def' = def
      /\ catalog' = catalog /\ events' = events /\ described' = described /\ cache' = cache
      /\ applying' = applying /\ todo' = todo /\ refreshed' = refreshed
      /\ shape' \in {shape, NoShape}
  BY Zenon DEF HandleTruncate, postgres, session
<1>2. "change" # "truncate"
  OBVIOUS
<1>3. ~applying
  BY <1>1, <1>2, Zenon DEF StreamInv, RelationTypeOK
<1>4. shape' \in Shape /\ (~shape'.active => shape' = NoShape) /\ events' \in Nat
  BY <1>1, NoShapeType, Zenon DEF StreamInv, RelationTypeOK
<1>5. shape'.active \in BOOLEAN
  BY <1>4 DEF Shape
<1>6. RelationTypeOK'
  BY <1>1, <1>3, <1>4, <1>5, Zenon DEF StreamInv, RelationTypeOK, Roots
<1>7. QED
  BY <1>1, <1>3, <1>4, <1>6, StreamTail, Zenon

\* Decoding an ALTER TABLE keeps the types; no batch is open then.
LEMMA DecodeStream ==
  ASSUME StreamInv, DecodeAlter
  PROVE  StreamInv' /\ ~applying
<1>1. /\ wal # <<>> /\ Message.kind = "alter" /\ wal' = Tail(wal) /\ def' = def
      /\ catalog' = catalog /\ events' = events
      /\ described' = described \ Message.tables /\ cache' = [t \in described' |-> cache[t]]
      /\ applying' = applying /\ todo' = todo /\ refreshed' = refreshed /\ shape' = shape
  BY Zenon DEF DecodeAlter, postgres
<1>2. "change" # "alter"
  OBVIOUS
<1>3. ~applying /\ todo = {}
  BY <1>1, <1>2, Zenon DEF StreamInv, RelationTypeOK
<1>4. shape' \in Shape /\ events' \in Nat
  BY <1>1 DEF StreamInv
<1>5. DOMAIN cache' = described' /\ \A t \in described' : cache'[t] = cache[t] /\ t \in described
  BY <1>1, Zenon
<1>6. RelationTypeOK'
  BY <1>1, <1>3, <1>5, Zenon DEF StreamInv, RelationTypeOK, Roots
<1>7. QED
  BY <1>1, <1>3, <1>4, <1>6, StreamTail, Zenon

\* The actions, with bound variables of their types.
LEMMA NextActions ==
  ASSUME RelationNext
  PROVE  \/ \E tables \in SUBSET Table : Commit(tables)
         \/ \E t \in Table : Truncate(t)
         \/ \E t \in Table : Drop(t)
         \/ \E t \in Roots : Alter(t)
         \/ Register
         \/ ConnectionLost
         \/ \E t \in Table : cacheRelationMetadata(t)
         \/ BeginApply
         \/ \E c \in todo : applyRelation(c)
         \/ FinishApply
         \/ HandleTruncate
         \/ DecodeAlter
<1>1. Busy \subseteq Table /\ Leaf \subseteq Table
  BY RelationSyncAssumption, Zenon DEF Busy, Leaf
<1>2. ASSUME Database
      PROVE  \/ \E tables \in SUBSET Table : Commit(tables)
             \/ \E t \in Table : Truncate(t)
             \/ \E t \in Table : Drop(t)
             \/ \E t \in Roots : Alter(t)
  BY <1>1, <1>2, Zenon DEF Database
<1>3. QED
  BY <1>2, Zenon DEF RelationNext, Replicate

\* Every step keeps the types.
LEMMA StreamNext ==
  ASSUME StreamInv, [RelationNext]_rvars
  PROVE  StreamInv'
<1>1. CASE UNCHANGED rvars
  <2>1. RelationTypeOK'
    BY <1>1, Zenon DEF rvars, StreamInv, RelationTypeOK, Roots, Message
  <2>2. wal' = wal /\ def' = def /\ events' \in Nat /\ shape' \in Shape
    BY <1>1, Zenon DEF rvars, StreamInv
  <2>3. QED
    BY <2>1, <2>2, StreamSame, Zenon
<1>2. CASE RelationNext
  BY <1>2, NextActions, CommitStream, TruncateStream, AlterStream, OutsideStream, LostStream,
     CacheStream, BeginStream, ApplyStream, FinishStream, HandleStream, DecodeStream, Zenon
<1>3. QED
  BY <1>1, <1>2

\* The types hold at all times.
THEOREM StreamInvariant == RelationSpec => []StreamInv
BY StreamInitInv, StreamNext, PTL DEF RelationSpec

\* The relation cache has exactly the tables that the session has described, and a
\* batch that is being applied is of the first unconfirmed transaction, with
\* relations of the cache: for any tables, partitions, layouts, definitions and
\* number of events.
THEOREM RelationTypes == RelationSpec => []RelationTypeOK
<1>1. StreamInv => RelationTypeOK
  BY DEF StreamInv
<1>2. QED
  BY <1>1, StreamInvariant, PTL

-----------------------------------------------------------------------------
(***************************************************************************)
(* The changes that a shape misses.                                        *)
(***************************************************************************)
\* An ALTER of the table is in the stream before its i-th message.
AlterPending(t, i) == \E j \in 1 .. i - 1 : wal[j].kind = "alter" /\ t \in wal[j].tables

\* Messages are in the order of their numbers, and their tuples were written with
\* columns that the table had then or before.
WalInv(E) ==
  /\ \A i \in 1 .. Len(wal) :
       /\ wal[i].id < events
       /\ IsRow(wal[i]) => \A t \in wal[i].tables : <<wal[i].written[t], Columns(t)>> \in E
  /\ \A i, j \in 1 .. Len(wal) : i < j => wal[i].id < wal[j].id

\* The cache lags behind the catalog only where an ALTER is still to be decoded,
\* and is not behind the tuples that come before that ALTER.
CacheInv(E) ==
  \A t \in described :
    /\ <<cache[t], Columns(t)>> \in E
    /\ ~AlterPending(t, Len(wal) + 1) => cache[t] = Columns(t)
    /\ \A i \in 1 .. Len(wal) :
         IsRow(wal[i]) /\ t \in wal[i].tables /\ ~AlterPending(t, i)
           => <<wal[i].written[t], cache[t]>> \in E

\* The batch has relations recorded from the first message, and a shape that was
\* refreshed as a dependent misses nothing of that message.
BatchInv ==
  applying =>
    /\ Message.tables \subseteq described
    /\ todo \subseteq Recorded(Message)
    /\ refreshed => \A m \in shape.missing : m.id # Message.id

\* The stream still brings the change to the shape: its message is not confirmed,
\* and its relation is not done yet if the message is being applied.
Due(m) ==
  \E i \in 1 .. Len(wal) :
    /\ IsRow(wal[i]) /\ wal[i].id = m.id
    /\ m.relation \in wal[i].tables /\ wal[i].written[m.relation] = m.written
    /\ (applying /\ i = 1) => \E c \in todo : c.relation = m.relation

\* What a registered shape misses is of a table it reads, and is exempt or due.
ShapeInv(E) ==
  \A m \in shape.missing :
    /\ m.id < events /\ Reads(m.relation)
    /\ <<m.written, Columns(m.relation)>> \in E
    /\ Exempt(Columns(m.relation), m.written) \/ Due(m)

\* The inductive invariant behind CaughtUp, for an order E in which layouts evolve.
RelationInv(E) == StreamInv /\ WalInv(E) /\ CacheInv(E) /\ BatchInv /\ ShapeInv(E)

-----------------------------------------------------------------------------
\* The messages of the stream have their types.
LEMMA WalElement ==
  ASSUME StreamInv
  PROVE  /\ Len(wal) \in Nat
         /\ \A i \in 1 .. Len(wal) : wal[i] \in Entry /\ wal[i].id \in Nat /\ wal[i].tables \subseteq Table
<1>1. wal \in Seq(Entry)
  BY DEF StreamInv
<1>2. Len(wal) \in Nat /\ \A i \in 1 .. Len(wal) : wal[i] \in Entry
  BY <1>1
<1>3. \A e \in Entry : e.id \in Nat /\ e.tables \subseteq Table
  BY DEF Entry
<1>4. QED
  BY <1>2, <1>3, Zenon

\* The columns that a tuple was written with are a layout.
LEMMA RowType ==
  ASSUME StreamInv, NEW i \in 1 .. Len(wal), IsRow(wal[i]), NEW t \in wal[i].tables
  PROVE  wal[i].written[t] \in Layout /\ t \in Table
<1>1. wal[i].written \in [wal[i].tables -> Layout]
  BY DEF StreamInv
<1>2. t \in Table
  BY WalElement, Zenon
<1>3. QED
  BY <1>1, <1>2, Zenon

\* WalInv, when the stream and the catalog stay.
LEMMA WalKept ==
  ASSUME NEW E, StreamInv, WalInv(E), wal' = wal, catalog' = catalog, events' \in {events, events + 1}
  PROVE  WalInv(E)'
<1>1. \A i \in 1 .. Len(wal) : wal[i].id < events'
  BY WalElement DEF StreamInv, WalInv
<1>2. \A t : Columns(t)' = Columns(t)
  BY Zenon DEF Columns
<1>3. QED
  BY <1>1, <1>2, Zenon DEF WalInv, IsRow

\* WalInv, when a message is added and tables have evolved.
LEMMA WalGrows ==
  ASSUME NEW E, Orders(E), StreamInv, StreamInv', WalInv(E), NEW e \in Entry, wal' = Append(wal, e),
         e.id = events, events' = events + 1,
         \A t \in Table : <<Columns(t), Columns(t)'>> \in E,
         IsRow(e) => \A t \in e.tables : <<e.written[t], Columns(t)'>> \in E
  PROVE  WalInv(E)'
<1>1. /\ Len(wal) \in Nat /\ Len(wal') = Len(wal) + 1
      /\ \A i \in 1 .. Len(wal) : wal'[i] = wal[i]
      /\ wal'[Len(wal) + 1] = e
  BY WalAppended DEF StreamInv
<1>2. \A i \in 1 .. Len(wal') : i \in 1 .. Len(wal) \/ i = Len(wal) + 1
  BY <1>1
<1>3. events \in Nat
  BY DEF StreamInv
<1>4. ASSUME NEW i \in 1 .. Len(wal')
      PROVE  /\ wal'[i].id < events'
             /\ IsRow(wal'[i]) => \A t \in wal'[i].tables : <<wal'[i].written[t], Columns(t)'>> \in E
  <2>1. CASE i = Len(wal) + 1
    <3>1. wal'[i] = e
      BY <1>1, <2>1
    <3>2. e.id < events'
      BY <1>3
    <3>3. QED
      BY <3>1, <3>2, Zenon
  <2>2. CASE i \in 1 .. Len(wal)
    <3>1. wal'[i] = wal[i] /\ wal[i].id < events /\ wal[i].id \in Nat
      BY <1>1, <2>2, WalElement, Zenon DEF WalInv
    <3>2. wal[i].id < events'
      BY <1>3, <3>1
    <3>3. ASSUME IsRow(wal[i]), NEW t \in wal[i].tables
          PROVE  <<wal[i].written[t], Columns(t)'>> \in E
      <4>1. wal[i].written[t] \in Layout /\ t \in Table
        BY <2>2, <3>3, RowType, Zenon
      <4>2. Columns(t) \in Layout /\ Columns(t)' \in Layout
        <5>1. Columns(t) \in Layout
          BY <4>1, ColumnsType DEF StreamInv, RelationTypeOK
        <5>2. Root[t] \in Roots /\ catalog' \in [Roots -> Layout]
          BY <4>1, RootsKnown, Zenon DEF StreamInv, RelationTypeOK, Roots
        <5>3. QED
          BY <5>1, <5>2, Zenon DEF Columns
      <4>3. <<wal[i].written[t], Columns(t)>> \in E /\ <<Columns(t), Columns(t)'>> \in E
        BY <2>2, <3>3, <4>1, Zenon DEF WalInv
      <4>4. QED
        BY <4>1, <4>2, <4>3, Zenon DEF Orders
    <3>4. QED
      BY <3>1, <3>2, <3>3, Zenon
  <2>3. QED
    BY <1>2, <2>1, <2>2, Zenon
<1>5. ASSUME NEW i \in 1 .. Len(wal'), NEW j \in 1 .. Len(wal'), i < j
      PROVE  wal'[i].id < wal'[j].id
  <2>1. i \in 1 .. Len(wal)
    BY <1>1, <1>5
  <2>2. wal'[i] = wal[i] /\ wal[i].id < events
    BY <1>1, <2>1, Zenon DEF WalInv
  <2>3. CASE j = Len(wal) + 1
    BY <1>1, <2>2, <2>3, Zenon
  <2>4. CASE j \in 1 .. Len(wal)
    BY <1>1, <1>5, <2>1, <2>4, Zenon DEF WalInv
  <2>5. QED
    BY <1>2, <2>3, <2>4, Zenon
<1>6. QED
  BY <1>4, <1>5, Zenon DEF WalInv, IsRow

\* WalInv, when the first message is confirmed.
LEMMA WalShrinks ==
  ASSUME NEW E, StreamInv, WalInv(E), wal # <<>>, wal' = Tail(wal), catalog' = catalog,
         events' = events
  PROVE  WalInv(E)'
<1>1. /\ Len(wal) \in Nat \ {0} /\ Len(wal') = Len(wal) - 1
      /\ \A i \in 1 .. Len(wal') : wal'[i] = wal[i + 1]
  BY WalTail DEF StreamInv
<1>2. \A i \in 1 .. Len(wal') : i + 1 \in 1 .. Len(wal)
  BY <1>1
<1>3. \A t : Columns(t)' = Columns(t)
  BY Zenon DEF Columns
<1>4. ASSUME NEW i \in 1 .. Len(wal')
      PROVE  /\ wal'[i].id < events'
             /\ IsRow(wal'[i]) => \A t \in wal'[i].tables : <<wal'[i].written[t], Columns(t)'>> \in E
  BY <1>1, <1>2, <1>3, Zenon DEF WalInv
<1>5. ASSUME NEW i \in 1 .. Len(wal'), NEW j \in 1 .. Len(wal'), i < j
      PROVE  wal'[i].id < wal'[j].id
  <2>1. i + 1 < j + 1
    BY <1>5
  <2>2. QED
    BY <1>1, <1>2, <2>1, Zenon DEF WalInv
<1>6. QED
  BY <1>4, <1>5, Zenon DEF WalInv, IsRow

-----------------------------------------------------------------------------
\* The columns stay if the catalog does.
LEMMA ColumnsKept ==
  ASSUME catalog' = catalog
  PROVE  \A t : Columns(t)' = Columns(t)
BY Zenon DEF Columns

\* CacheInv, when nothing it speaks of changes.
LEMMA CacheKept ==
  ASSUME NEW E, CacheInv(E), wal' = wal, catalog' = catalog, described' = described, cache' = cache
  PROVE  CacheInv(E)'
BY ColumnsKept, Zenon DEF CacheInv, AlterPending, IsRow

\* CacheInv holds for the empty cache of a new connection.
LEMMA CacheEmptied ==
  ASSUME NEW E, Reconnected
  PROVE  CacheInv(E)'
BY Zenon DEF Reconnected, CacheInv

\* CacheInv, when a message is added: an ALTER is pending then for the tables it
\* altered.
LEMMA CacheGrows ==
  ASSUME NEW E, Orders(E), StreamInv, StreamInv', CacheInv(E), NEW e \in Entry,
         wal' = Append(wal, e), described' = described, cache' = cache,
         \A t \in Table : <<Columns(t), Columns(t)'>> \in E,
         \A t \in Table : (e.kind = "alter" /\ t \in e.tables) \/ Columns(t)' = Columns(t),
         IsRow(e) => \A t \in e.tables : e.written[t] = Columns(t)
  PROVE  CacheInv(E)'
<1>1. /\ Len(wal) \in Nat /\ Len(wal') = Len(wal) + 1
      /\ \A i \in 1 .. Len(wal) : wal'[i] = wal[i]
      /\ wal'[Len(wal) + 1] = e
  BY WalAppended DEF StreamInv
<1>2. \A i \in 1 .. Len(wal') : i \in 1 .. Len(wal) \/ i = Len(wal) + 1
  BY <1>1
<1>3. ASSUME NEW t, NEW i \in 1 .. Len(wal) + 1, AlterPending(t, i)
      PROVE  AlterPending(t, i)'
  <2>1. PICK j \in 1 .. i - 1 : wal[j].kind = "alter" /\ t \in wal[j].tables
    BY <1>3 DEF AlterPending
  <2>2. j \in 1 .. Len(wal)
    BY <1>1, <2>1
  <2>3. QED
    BY <1>1, <2>1, <2>2, Zenon DEF AlterPending
<1>4. ASSUME NEW n, n = Len(wal) + 2, NEW t,
             AlterPending(t, Len(wal) + 1) \/ (e.kind = "alter" /\ t \in e.tables)
      PROVE  AlterPending(t, n)'
  <2>1. CASE AlterPending(t, Len(wal) + 1)
    <3>1. PICK j \in 1 .. Len(wal) : wal[j].kind = "alter" /\ t \in wal[j].tables
      BY <1>1, <2>1 DEF AlterPending
    <3>2. j \in 1 .. n - 1
      BY <1>1, <1>4, <3>1
    <3>3. QED
      BY <1>1, <3>1, <3>2, Zenon DEF AlterPending
  <2>2. CASE e.kind = "alter" /\ t \in e.tables
    <3>1. Len(wal) + 1 \in 1 .. n - 1
      BY <1>1, <1>4
    <3>2. QED
      BY <1>1, <2>2, <3>1, Zenon DEF AlterPending
  <2>3. QED
    BY <1>4, <2>1, <2>2
<1>5. PICK n : n = Len(wal) + 2 /\ n = Len(wal') + 1
  BY <1>1
<1>6. ASSUME NEW t \in described
      PROVE  /\ <<cache[t], Columns(t)'>> \in E
             /\ ~AlterPending(t, n)' => cache[t] = Columns(t)'
             /\ \A i \in 1 .. Len(wal') :
                  IsRow(wal'[i]) /\ t \in wal'[i].tables /\ ~AlterPending(t, i)'
                    => <<wal'[i].written[t], cache[t]>> \in E
  <2>1. t \in Table /\ cache[t] \in Layout
    BY Zenon DEF StreamInv, RelationTypeOK
  <2>2. Columns(t) \in Layout
    BY <2>1, ColumnsType DEF StreamInv, RelationTypeOK
  <2>3. Root[t] \in Roots /\ catalog' \in [Roots -> Layout]
    BY <2>1, RootsKnown, Zenon DEF StreamInv, RelationTypeOK, Roots
  <2>4. Columns(t)' \in Layout
    BY <2>3, Zenon DEF Columns
  <2>5. <<cache[t], Columns(t)>> \in E
    BY Zenon DEF CacheInv
  <2>6. <<cache[t], Columns(t)'>> \in E
    BY <2>1, <2>2, <2>4, <2>5, Zenon DEF Orders
  <2>7. ASSUME ~AlterPending(t, n)'
        PROVE  cache[t] = Columns(t)'
    <3>1. ~AlterPending(t, Len(wal) + 1) /\ ~(e.kind = "alter" /\ t \in e.tables)
      BY <1>4, <1>5, <2>7, Zenon
    <3>2. QED
      BY <2>1, <3>1, Zenon DEF CacheInv
  <2>8. ASSUME NEW i \in 1 .. Len(wal'), IsRow(wal'[i]), t \in wal'[i].tables, ~AlterPending(t, i)'
        PROVE  <<wal'[i].written[t], cache[t]>> \in E
    <3>1. CASE i \in 1 .. Len(wal)
      <4>1. i \in 1 .. Len(wal) + 1
        BY <1>1, <3>1
      <4>2. ~AlterPending(t, i)
        BY <1>3, <2>8, <4>1, Zenon
      <4>3. QED
        BY <1>1, <2>8, <3>1, <4>2, Zenon DEF CacheInv
    <3>2. CASE i = Len(wal) + 1
      <4>1. i \in 1 .. Len(wal) + 1
        BY <1>1, <3>2
      <4>2. ~AlterPending(t, Len(wal) + 1)
        BY <1>3, <2>8, <3>2, <4>1, Zenon
      <4>3. cache[t] = Columns(t)
        BY <4>2, Zenon DEF CacheInv
      <4>4. wal'[i] = e /\ e.written[t] = Columns(t)
        BY <1>1, <2>8, <3>2, Zenon
      <4>5. QED
        BY <2>2, <4>3, <4>4, Zenon DEF Orders
    <3>3. QED
      BY <1>2, <3>1, <3>2, Zenon
  <2>9. QED
    BY <2>6, <2>7, <2>8, Zenon
<1>7. \A t : AlterPending(t, n)' <=> AlterPending(t, Len(wal) + 1)'
  BY <1>5 DEF AlterPending
<1>8. QED
  BY <1>6, <1>7, Zenon DEF CacheInv, IsRow

\* CacheInv, when the first message is confirmed: the tables of an ALTER leave the
\* cache.
LEMMA CacheShrinks ==
  ASSUME NEW E, StreamInv, CacheInv(E), wal # <<>>, wal' = Tail(wal), catalog' = catalog,
         described' \subseteq described, \A t \in described' : cache'[t] = cache[t],
         \A t \in described' : ~(Message.kind = "alter" /\ t \in Message.tables)
  PROVE  CacheInv(E)'
<1>1. /\ Len(wal) \in Nat \ {0} /\ Len(wal') = Len(wal) - 1
      /\ \A i \in 1 .. Len(wal') : wal'[i] = wal[i + 1]
      /\ Message = wal[1]
  BY WalTail DEF StreamInv, Message
<1>2. \A i \in 1 .. Len(wal') : i + 1 \in 1 .. Len(wal)
  BY <1>1
<1>3. ASSUME NEW t \in described', NEW i \in 1 .. Len(wal'), AlterPending(t, i + 1)
      PROVE  AlterPending(t, i)'
  <2>1. PICK j \in 1 .. i : wal[j].kind = "alter" /\ t \in wal[j].tables
    BY <1>3 DEF AlterPending
  <2>2. j # 1
    BY <1>1, <2>1, Zenon
  <2>3. j - 1 \in 1 .. i - 1 /\ j - 1 \in 1 .. Len(wal') /\ (j - 1) + 1 = j
    BY <1>1, <2>1, <2>2
  <2>4. wal'[j - 1] = wal[j]
    BY <1>1, <2>3, Zenon
  <2>5. QED
    BY <2>1, <2>3, <2>4, Zenon DEF AlterPending
<1>4. ASSUME NEW n, n = Len(wal), NEW t \in described', AlterPending(t, Len(wal) + 1)
      PROVE  AlterPending(t, n)'
  <2>1. PICK j \in 1 .. Len(wal) : wal[j].kind = "alter" /\ t \in wal[j].tables
    BY <1>1, <1>4 DEF AlterPending
  <2>2. j # 1
    BY <1>1, <2>1, Zenon
  <2>3. j - 1 \in 1 .. n - 1 /\ j - 1 \in 1 .. Len(wal') /\ (j - 1) + 1 = j
    BY <1>1, <1>4, <2>1, <2>2
  <2>4. wal'[j - 1] = wal[j]
    BY <1>1, <2>3, Zenon
  <2>5. QED
    BY <2>1, <2>3, <2>4, Zenon DEF AlterPending
<1>7. PICK n : n = Len(wal) /\ n = Len(wal') + 1
  BY <1>1
<1>5. ASSUME NEW t \in described'
      PROVE  /\ <<cache'[t], Columns(t)'>> \in E
             /\ ~AlterPending(t, n)' => cache'[t] = Columns(t)'
             /\ \A i \in 1 .. Len(wal') :
                  IsRow(wal'[i]) /\ t \in wal'[i].tables /\ ~AlterPending(t, i)'
                    => <<wal'[i].written[t], cache'[t]>> \in E
  <2>1. t \in described /\ cache'[t] = cache[t] /\ Columns(t)' = Columns(t)
    BY ColumnsKept, Zenon
  <2>2. <<cache[t], Columns(t)>> \in E /\ (~AlterPending(t, Len(wal) + 1) => cache[t] = Columns(t))
    BY <2>1, Zenon DEF CacheInv
  <2>3. ASSUME NEW i \in 1 .. Len(wal'), IsRow(wal'[i]), t \in wal'[i].tables, ~AlterPending(t, i)'
        PROVE  <<wal'[i].written[t], cache[t]>> \in E
    <3>1. ~AlterPending(t, i + 1) /\ wal'[i] = wal[i + 1] /\ i + 1 \in 1 .. Len(wal)
      BY <1>1, <1>2, <1>3, <2>3, Zenon
    <3>2. QED
      BY <2>1, <2>3, <3>1, Zenon DEF CacheInv
  <2>4. QED
    BY <1>4, <1>7, <2>1, <2>2, <2>3, Zenon
<1>6. \A t : AlterPending(t, n)' <=> AlterPending(t, Len(wal) + 1)'
  BY <1>7 DEF AlterPending
<1>8. QED
  BY <1>5, <1>6, Zenon DEF CacheInv, IsRow

\* CacheInv, when a Relation message puts the present columns of a table into the
\* cache, although tuples of older columns may follow.
LEMMA CacheDescribes ==
  ASSUME NEW E, Orders(E), StreamInv, WalInv(E), CacheInv(E), NEW t \in Table,
         described' = described \cup {t},
         cache' = [u \in described' |-> IF u = t THEN Columns(t) ELSE cache[u]],
         wal' = wal, catalog' = catalog
  PROVE  CacheInv(E)'
<1>1. Columns(t) \in Layout
  BY ColumnsType DEF StreamInv, RelationTypeOK
<1>2. cache'[t] = Columns(t) /\ \A u \in described' : u # t => cache'[u] = cache[u] /\ u \in described
  BY Zenon
<1>3. \A u, i : AlterPending(u, i)' <=> AlterPending(u, i)
  BY Zenon DEF AlterPending
<1>4. ASSUME NEW u \in described'
      PROVE  /\ <<cache'[u], Columns(u)>> \in E
             /\ ~AlterPending(u, Len(wal) + 1) => cache'[u] = Columns(u)
             /\ \A i \in 1 .. Len(wal) :
                  IsRow(wal[i]) /\ u \in wal[i].tables /\ ~AlterPending(u, i)
                    => <<wal[i].written[u], cache'[u]>> \in E
  <2>1. CASE u = t
    BY <1>1, <1>2, <2>1, Zenon DEF Orders, WalInv
  <2>2. CASE u # t
    BY <1>2, <2>2, Zenon DEF CacheInv
  <2>3. QED
    BY <2>1, <2>2
<1>5. QED
  BY <1>3, <1>4, ColumnsKept, Zenon DEF CacheInv, IsRow

-----------------------------------------------------------------------------
\* BatchInv, when no batch is open.
LEMMA BatchIdle ==
  ASSUME applying' = FALSE
  PROVE  BatchInv'
BY Zenon DEF BatchInv

\* BatchInv, when the shape misses no more of the message than before.
LEMMA BatchKept ==
  ASSUME BatchInv, Message' = Message, described' = described, cache' = cache,
         applying' = applying, todo' \subseteq todo,
         refreshed' => shape'.missing = {} \/ (refreshed /\ \A m \in shape'.missing :
                                                m \in shape.missing \/ m.id # Message.id)
  PROVE  BatchInv'
<1>1. Recorded(Message)' = Recorded(Message)
  BY Zenon DEF Recorded
<1>2. QED
  BY <1>1, Zenon DEF BatchInv

\* The message that is handled is the first of the stream.
LEMMA FirstMessage ==
  ASSUME StreamInv, wal # <<>>
  PROVE  /\ Len(wal) \in Nat \ {0} /\ 1 \in 1 .. Len(wal) /\ Message = wal[1]
<1>1. /\ Len(wal) \in Nat \ {0} /\ Message = wal[1]
  BY WalTail DEF StreamInv, Message
<1>2. QED
  BY <1>1

\* BatchInv, when a message is added: it has another number than the one that is
\* handled.
LEMMA BatchGrows ==
  ASSUME NEW E, StreamInv, WalInv(E), BatchInv, NEW e \in Entry, wal' = Append(wal, e),
         UNCHANGED session,
         \A m \in shape'.missing : m \in shape.missing \/ m.id = events
  PROVE  BatchInv'
<1>1. /\ described' = described /\ cache' = cache /\ applying' = applying /\ todo' = todo
      /\ refreshed' = refreshed
  BY Zenon DEF session
<1>2. CASE ~applying
  BY <1>1, <1>2, BatchIdle, Zenon DEF BatchInv
<1>3. CASE applying
  <2>1. wal # <<>>
    BY <1>3, Zenon DEF StreamInv, RelationTypeOK
  <2>2. Message' = Message
    BY <2>1, WalAppended DEF StreamInv, Message
  <2>3. Message.id < events /\ Message.id \in Nat
    BY <2>1, FirstMessage, WalElement, Zenon DEF WalInv
  <2>4. events # Message.id
    BY <2>3 DEF StreamInv
  <2>5. \A m \in shape'.missing : m \in shape.missing \/ m.id # Message.id
    BY <2>4, Zenon
  <2>6. QED
    BY <1>1, <2>2, <2>5, BatchKept, Zenon
<1>4. QED
  BY <1>2, <1>3

-----------------------------------------------------------------------------
\* An exempt change stays exempt when the table evolves.
LEMMA ExemptStays ==
  ASSUME NEW E, Orders(E), NEW a \in Layout, NEW b \in Layout, NEW c \in Layout,
         <<a, b>> \in E, <<b, c>> \in E, Exempt(b, a)
  PROVE  Exempt(c, a)
BY Zenon DEF Orders

\* The types of a change that the shape misses.
LEMMA MissingType ==
  ASSUME StreamInv, NEW m \in shape.missing
  PROVE  /\ m.id \in Nat /\ m.relation \in Table /\ m.written \in Layout
         /\ Columns(m.relation) \in Layout /\ m = [id |-> m.id, relation |-> m.relation, written |-> m.written]
<1>1. m \in Change
  BY Zenon DEF StreamInv, Shape
<1>2. /\ m.id \in Nat /\ m.relation \in Table /\ m.written \in Layout
      /\ m = [id |-> m.id, relation |-> m.relation, written |-> m.written]
  BY <1>1 DEF Change
<1>3. Columns(m.relation) \in Layout
  BY <1>2, ColumnsType DEF StreamInv, RelationTypeOK
<1>4. QED
  BY <1>2, <1>3

\* Only a shape that is registered misses changes.
LEMMA MissingActive ==
  ASSUME StreamInv, NEW m \in shape.missing
  PROVE  shape.active
<1>1. ~shape.active => shape = NoShape
  BY Zenon DEF StreamInv, RelationTypeOK
<1>2. NoShape.missing = {}
  BY DEF NoShape
<1>3. QED
  BY <1>1, <1>2, Zenon

\* A change of a table that the shape reads reaches it: its keys are refreshed or
\* it is a dependent. This is where collectDefinitionDependencies must cover every
\* table that the clause reads.
LEMMA MissingReads ==
  ASSUME StreamInv, \A d \in Definition : Covers(d), NEW t \in Table, Reads(t), shape.active
  PROVE  (def.targeted /\ candidate(t)) \/ dependent(t)
<1>1. Covers(def)
  BY Zenon DEF StreamInv
<1>2. CASE def.targeted
  BY <1>1, <1>2, Zenon DEF Covers, Reads, candidate
<1>3. CASE ~def.targeted
  BY <1>1, <1>3, Zenon DEF Covers, Reads, dependent, definitionRequiresInvalidationForRelation
<1>4. QED
  BY <1>2, <1>3

\* ShapeInv, when nothing is missing.
LEMMA ShapeFresh ==
  ASSUME NEW E, shape'.missing = {}
  PROVE  ShapeInv(E)'
BY Zenon DEF ShapeInv

\* ShapeInv, when the changes that are left are as due as before or exempt.
LEMMA ShapeKept ==
  ASSUME NEW E, StreamInv, ShapeInv(E), shape'.missing \subseteq shape.missing, catalog' = catalog,
         def' = def, events' \in {events, events + 1},
         \A m \in shape'.missing :
           Due(m) => Due(m)' \/ Exempt(Columns(m.relation), m.written)
  PROVE  ShapeInv(E)'
<1>1. ASSUME NEW m \in shape'.missing
      PROVE  /\ m.id < events' /\ Reads(m.relation)'
             /\ <<m.written, Columns(m.relation)'>> \in E
             /\ Exempt(Columns(m.relation)', m.written) \/ Due(m)'
  <2>1. m \in shape.missing
    OBVIOUS
  <2>2. m.id \in Nat /\ m.id < events /\ events \in Nat
    BY <2>1, MissingType, Zenon DEF ShapeInv, StreamInv
  <2>3. m.id < events'
    BY <2>2
  <2>4. Columns(m.relation)' = Columns(m.relation) /\ Reads(m.relation)' = Reads(m.relation)
    BY Zenon DEF Columns, Reads
  <2>5. QED
    BY <2>1, <2>3, <2>4, Zenon DEF ShapeInv
<1>2. QED
  BY <1>1, Zenon DEF ShapeInv, Exempt

\* ShapeInv, when a message is added: its changes are due.
LEMMA ShapeGrows ==
  ASSUME NEW E, Orders(E), StreamInv, StreamInv', ShapeInv(E), NEW e \in Entry,
         wal' = Append(wal, e), UNCHANGED session, def' = def, e.id = events, events' = events + 1,
         \A t \in Table : <<Columns(t), Columns(t)'>> \in E,
         \A m \in shape'.missing :
           \/ m \in shape.missing
           \/ /\ IsRow(e) /\ m.id = events /\ m.relation \in e.tables /\ Reads(m.relation)
              /\ m.written = Columns(m.relation) /\ e.written[m.relation] = Columns(m.relation)
  PROVE  ShapeInv(E)'
<1>1. /\ Len(wal) \in Nat /\ Len(wal') = Len(wal) + 1
      /\ \A i \in 1 .. Len(wal) : wal'[i] = wal[i]
      /\ wal'[Len(wal) + 1] = e
      /\ wal # <<>> => Len(wal) # 0
  BY WalAppended DEF StreamInv
<1>2. Len(wal) + 1 \in 1 .. Len(wal') /\ \A i \in 1 .. Len(wal) : i \in 1 .. Len(wal')
  BY <1>1
<1>3. applying' = applying /\ todo' = todo
  BY Zenon DEF session
<1>4. applying => Len(wal) + 1 # 1
  <2>1. applying => wal # <<>>
    BY Zenon DEF StreamInv, RelationTypeOK
  <2>2. QED
    BY <1>1, <2>1
<1>5. \A t : Reads(t)' = Reads(t)
  BY Zenon DEF Reads
<1>6. ASSUME NEW m, Due(m)
      PROVE  Due(m)'
  <2>1. PICK i \in 1 .. Len(wal) :
          /\ IsRow(wal[i]) /\ wal[i].id = m.id
          /\ m.relation \in wal[i].tables /\ wal[i].written[m.relation] = m.written
          /\ (applying /\ i = 1) => \E c \in todo : c.relation = m.relation
    BY <1>6, Zenon DEF Due
  <2>2. i \in 1 .. Len(wal') /\ wal'[i] = wal[i]
    BY <1>1, <1>2, <2>1, Zenon
  <2>3. QED
    BY <1>3, <2>1, <2>2, Zenon DEF Due, IsRow
<1>7. ASSUME NEW m \in shape'.missing
      PROVE  /\ m.id < events' /\ Reads(m.relation)
             /\ <<m.written, Columns(m.relation)'>> \in E
             /\ Exempt(Columns(m.relation)', m.written) \/ Due(m)'
  <2>0. events \in Nat
    BY DEF StreamInv
  <2>1. CASE m \in shape.missing
    <3>1. /\ m.id \in Nat /\ m.relation \in Table /\ m.written \in Layout
          /\ Columns(m.relation) \in Layout
      BY <2>1, MissingType, Zenon
    <3>2. Root[m.relation] \in Roots /\ catalog' \in [Roots -> Layout]
      BY <3>1, RootsKnown, Zenon DEF StreamInv, RelationTypeOK, Roots
    <3>3. Columns(m.relation)' \in Layout
      BY <3>2, Zenon DEF Columns
    <3>4. /\ m.id < events /\ Reads(m.relation) /\ <<m.written, Columns(m.relation)>> \in E
          /\ Exempt(Columns(m.relation), m.written) \/ Due(m)
      BY <2>1, Zenon DEF ShapeInv
    <3>5. <<Columns(m.relation), Columns(m.relation)'>> \in E
      BY <3>1, Zenon
    <3>6. <<m.written, Columns(m.relation)'>> \in E
      BY <3>1, <3>3, <3>4, <3>5, Zenon DEF Orders
    <3>7. Exempt(Columns(m.relation), m.written) => Exempt(Columns(m.relation)', m.written)
      BY <3>1, <3>3, <3>4, <3>5, ExemptStays, ZenonT(60)
    <3>8. m.id < events'
      BY <2>0, <3>1, <3>4
    <3>9. QED
      BY <1>6, <3>4, <3>6, <3>7, <3>8, Zenon
  <2>2. CASE /\ IsRow(e) /\ m.id = events /\ m.relation \in e.tables /\ Reads(m.relation)
             /\ m.written = Columns(m.relation) /\ e.written[m.relation] = Columns(m.relation)
    <3>1. m.id < events'
      BY <2>0, <2>2
    <3>2. m.relation \in Table
      BY <2>2 DEF Entry
    <3>3. <<m.written, Columns(m.relation)'>> \in E
      BY <2>2, <3>2, Zenon
    <3>4. Due(m)'
      BY <1>1, <1>2, <1>3, <1>4, <2>2, Zenon DEF Due, IsRow
    <3>5. QED
      BY <2>2, <3>1, <3>3, <3>4, Zenon
  <2>3. QED
    BY <2>1, <2>2, ZenonT(60)
<1>8. QED
  BY <1>5, <1>7, Zenon DEF ShapeInv, Exempt

\* ShapeInv, when the first message is confirmed and nothing of it was due.
LEMMA ShapeShrinks ==
  ASSUME NEW E, StreamInv, ShapeInv(E), shape' = shape, catalog' = catalog, def' = def,
         events' = events, wal # <<>>, wal' = Tail(wal), applying' = FALSE,
         IsRow(Message) => \A m \in shape.missing : m.relation \in Message.tables =>
                              applying /\ todo = {}
  PROVE  ShapeInv(E)'
<1>1. /\ Len(wal) \in Nat \ {0} /\ Len(wal') = Len(wal) - 1
      /\ \A i \in 1 .. Len(wal') : wal'[i] = wal[i + 1]
      /\ Message = wal[1]
  BY WalTail DEF StreamInv, Message
<1>2. ASSUME NEW m \in shape.missing, Due(m)
      PROVE  Due(m)'
  <2>1. PICK i \in 1 .. Len(wal) :
          /\ IsRow(wal[i]) /\ wal[i].id = m.id
          /\ m.relation \in wal[i].tables /\ wal[i].written[m.relation] = m.written
          /\ (applying /\ i = 1) => \E c \in todo : c.relation = m.relation
    BY <1>2, Zenon DEF Due
  <2>2. i # 1
    BY <1>1, <2>1, Zenon
  <2>3. i - 1 \in 1 .. Len(wal') /\ (i - 1) + 1 = i
    BY <1>1, <2>1, <2>2
  <2>4. wal'[i - 1] = wal[i]
    BY <1>1, <2>3, Zenon
  <2>5. QED
    BY <2>1, <2>3, <2>4, Zenon DEF Due, IsRow
<1>3. QED
  BY <1>2, ShapeKept, Zenon

\* A tuple of the first message that cannot be read with the columns of the cache
\* cannot be read with those of the catalog.
LEMMA FirstDecoded ==
  ASSUME NEW E, Orders(E), StreamInv, CacheInv(E), wal # <<>>, Message.kind = "change",
         NEW t \in Message.tables, t \in described, Exempt(cache[t], Message.written[t])
  PROVE  Exempt(Columns(t), Message.written[t])
<1>1. Len(wal) \in Nat \ {0} /\ 1 \in 1 .. Len(wal) /\ Message = wal[1]
  BY FirstMessage, Zenon
<1>2. IsRow(wal[1])
  BY <1>1 DEF IsRow
<1>3. wal[1].written[t] \in Layout /\ t \in Table
  BY <1>1, <1>2, RowType, Zenon
<1>4. cache[t] \in Layout
  BY Zenon DEF StreamInv, RelationTypeOK
<1>5. Columns(t) \in Layout
  BY <1>3, ColumnsType, Zenon DEF StreamInv, RelationTypeOK
<1>6. ~AlterPending(t, 1)
  BY DEF AlterPending
<1>7. <<wal[1].written[t], cache[t]>> \in E /\ <<cache[t], Columns(t)>> \in E
  BY <1>1, <1>2, <1>6, Zenon DEF CacheInv
<1>8. QED
  BY <1>1, <1>3, <1>4, <1>5, <1>7, ExemptStays, Zenon

\* ChangeBatch has one entry for each table of the message with a primary key.
LEMMA RecordedOf ==
  ASSUME NEW tx
  PROVE  /\ \A t \in tx.tables : Keyed(cache[t]) => \E c \in Recorded(tx) : c.relation = t
         /\ \A c \in Recorded(tx) :
              /\ c.relation \in tx.tables
              /\ c.decoded = decodeTupleRow(cache[c.relation], tx.written[c.relation])
<1> DEFINE Row(t) == [relation |-> t, decoded |-> decodeTupleRow(cache[t], tx.written[t])]
<1>1. Recorded(tx) = {Row(t) : t \in {u \in tx.tables : Keyed(cache[u])}}
  BY DEF Recorded
<1>2. \A t : Row(t).relation = t /\ Row(t).decoded = decodeTupleRow(cache[t], tx.written[t])
  OBVIOUS
<1> HIDE DEF Row
<1>3. ASSUME NEW t \in tx.tables, Keyed(cache[t])
      PROVE  Row(t) \in Recorded(tx)
  BY <1>1, <1>3, Zenon
<1>4. ASSUME NEW c \in Recorded(tx)
      PROVE  \E t \in tx.tables : c = Row(t)
  BY <1>1, Zenon
<1>5. ASSUME NEW t \in tx.tables, Keyed(cache[t])
      PROVE  \E c \in Recorded(tx) : c.relation = t
  <2>1. Row(t) \in Recorded(tx) /\ Row(t).relation = t
    BY <1>2, <1>3, <1>5
  <2>2. QED
    BY <2>1, Zenon
<1>6. ASSUME NEW c \in Recorded(tx)
      PROVE  /\ c.relation \in tx.tables
             /\ c.decoded = decodeTupleRow(cache[c.relation], tx.written[c.relation])
  <2>1. PICK t \in tx.tables : c = Row(t)
    BY <1>4
  <2>2. c.relation = t /\ c.decoded = decodeTupleRow(cache[t], tx.written[t])
    BY <1>2, <2>1
  <2>3. QED
    BY <2>2
<1>7. QED
  BY <1>5, <1>6, Zenon

\* ShapeInv, when the apply starts: what ChangeBatch.Add ignored is exempt.
LEMMA ShapeBegins ==
  ASSUME NEW E, Orders(E), StreamInv, CacheInv(E), ShapeInv(E), BeginApply
  PROVE  ShapeInv(E)'
<1>1. /\ wal # <<>> /\ Message.kind = "change" /\ Message.tables \subseteq described
      /\ todo' = Recorded(Message)
      /\ def' = def /\ catalog' = catalog /\ events' = events /\ wal' = wal /\ shape' = shape
  BY Zenon DEF BeginApply, postgres
<1>2. Message = wal[1]
  BY <1>1, FirstMessage, Zenon
<1>3. ASSUME NEW m \in shape.missing, Due(m)
      PROVE  Due(m)' \/ Exempt(Columns(m.relation), m.written)
  <2>1. PICK i \in 1 .. Len(wal) :
          /\ IsRow(wal[i]) /\ wal[i].id = m.id
          /\ m.relation \in wal[i].tables /\ wal[i].written[m.relation] = m.written
    BY <1>3, Zenon DEF Due
  <2>2. CASE i # 1
    BY <1>1, <2>1, <2>2, Zenon DEF Due, IsRow
  <2>3. CASE i = 1 /\ Keyed(cache[m.relation])
    <3>1. PICK c \in todo' : c.relation = m.relation
      BY <1>1, <1>2, <2>1, <2>3, RecordedOf, Zenon
    <3>2. QED
      BY <1>1, <2>1, <3>1, Zenon DEF Due, IsRow
  <2>4. CASE i = 1 /\ ~Keyed(cache[m.relation])
    BY <1>1, <1>2, <2>1, <2>4, FirstDecoded, Zenon DEF Exempt
  <2>5. QED
    BY <2>2, <2>3, <2>4, Zenon
<1>4. QED
  BY <1>1, <1>3, ShapeKept, Zenon

\* Applying one relation of the batch keeps BatchInv and ShapeInv: what was due for
\* the relation is shown, exempt, or of a shape that is gone.
LEMMA ApplyInv ==
  ASSUME NEW E, Orders(E), \A d \in Definition : Covers(d), StreamInv, CacheInv(E), BatchInv,
         ShapeInv(E), NEW c \in todo, applyRelation(c)
  PROVE  BatchInv' /\ ShapeInv(E)'
<1>1. applying /\ def' = def /\ catalog' = catalog /\ events' = events
  BY ApplyCases, Zenon
<1>2. wal # <<>> /\ Message.kind = "change"
  BY <1>1, Zenon DEF StreamInv, RelationTypeOK
<1>3. Message = wal[1]
  BY <1>2, FirstMessage, Zenon
<1>4. CASE Reconnected /\ shape' = shape
  <2>1. applying' = FALSE /\ wal' = wal
    BY <1>4, Zenon DEF Reconnected
  <2>2. \A m : Due(m) => Due(m)'
    BY <2>1, Zenon DEF Due, IsRow
  <2>3. QED
    BY <1>1, <1>4, <2>1, <2>2, BatchIdle, ShapeKept, Zenon
<1>5. CASE /\ todo' = todo \ {c} /\ wal' = wal /\ described' = described /\ cache' = cache
           /\ applying' = applying
  <2>1. Message' = Message /\ todo' \subseteq todo
    BY <1>5, Zenon DEF Message
  <2>2. ASSUME NEW m, Due(m), ~Due(m)'
        PROVE  /\ m.relation = c.relation /\ m.id = Message.id
               /\ c.relation \in Message.tables /\ Message.written[c.relation] = m.written
    BY <1>3, <1>5, <2>2, Zenon DEF Due, IsRow
  <2>3. CASE shape' = NoShape \/ (refreshed' = TRUE /\ shape' \in {Queried, NoShape})
    <3>1. shape'.missing = {}
      BY <2>3, QueriedType DEF NoShape
    <3>2. QED
      BY <1>5, <2>1, <3>1, BatchKept, ShapeFresh, Zenon
  <2>4. CASE refreshed' = refreshed /\ shape' = Refreshed(c) /\ def.targeted /\ candidate(c.relation)
    <3>1. shape'.missing =
            {m \in shape.missing : ~(c.decoded /\ m.id = Message.id /\ m.relation = c.relation)}
      BY <2>4, RefreshedType, Zenon
    <3>2. /\ c.relation \in Message.tables /\ c.relation \in described
          /\ c.decoded = decodeTupleRow(cache[c.relation], Message.written[c.relation])
      BY <1>1, RecordedOf, Zenon DEF BatchInv
    <3>3. ASSUME NEW m \in shape'.missing, Due(m), ~Due(m)'
          PROVE  Exempt(Columns(m.relation), m.written)
      <4>1. /\ m.relation = c.relation /\ m.id = Message.id
            /\ Message.written[c.relation] = m.written
        BY <2>2, <3>3, Zenon
      <4>2. ~decodeTupleRow(cache[c.relation], Message.written[c.relation])
        BY <3>1, <3>2, <3>3, <4>1, Zenon
      <4>3. QED
        BY <1>2, <3>2, <4>1, <4>2, FirstDecoded, Zenon DEF Exempt
    <3>4. shape'.missing \subseteq shape.missing
      BY <3>1, Zenon
    <3>5. BatchInv'
      BY <1>5, <2>1, <2>4, <3>4, BatchKept, Zenon
    <3>6. QED
      BY <1>1, <3>3, <3>4, <3>5, ShapeKept, Zenon
  <2>5. CASE refreshed' = refreshed /\ shape' = shape /\ refreshed
    <3>1. \A m \in shape.missing : m.id # Message.id
      BY <1>1, <2>5, Zenon DEF BatchInv
    <3>2. \A m \in shape.missing : Due(m) => Due(m)'
      BY <2>2, <3>1, Zenon
    <3>3. QED
      BY <1>1, <1>5, <2>1, <2>5, <3>2, BatchKept, ShapeKept, Zenon
  <2>6. CASE /\ refreshed' = refreshed /\ shape' = shape
             /\ ~(def.targeted /\ candidate(c.relation)) /\ ~dependent(c.relation)
    <3>1. ASSUME NEW m \in shape.missing, Due(m), ~Due(m)'
          PROVE  FALSE
      <4>1. m.relation = c.relation
        BY <2>2, <3>1, Zenon
      <4>2. Reads(c.relation) /\ c.relation \in Table
        BY <4>1, MissingType, Zenon DEF ShapeInv
      <4>3. shape.active
        BY <3>1, MissingActive, Zenon
      <4>4. QED
        BY <2>6, <4>2, <4>3, MissingReads, Zenon
    <3>2. QED
      BY <1>1, <1>5, <2>1, <2>6, <3>1, BatchKept, ShapeKept, Zenon
  <2>7. QED
    BY <2>3, <2>4, <2>5, <2>6, <1>4, ApplyCases, Zenon
<1>6. QED
  BY <1>4, <1>5, ApplyCases, Zenon

-----------------------------------------------------------------------------
\* The invariant holds at the start.
LEMMA RelationInitInv ==
  ASSUME NEW E, RelationInit
  PROVE  RelationInv(E)
<1>1. /\ described = {} /\ applying = FALSE /\ shape = NoShape /\ wal = <<>>
  BY DEF RelationInit
<1>2. Len(wal) = 0 /\ shape.missing = {}
  BY <1>1, Zenon DEF NoShape
<1>3. WalInv(E)
  BY <1>2 DEF WalInv
<1>4. QED
  BY <1>1, <1>2, <1>3, StreamInitInv, Zenon DEF RelationInv, CacheInv, BatchInv, ShapeInv

\* A table that was not altered is as evolved as before.
LEMMA ColumnsReflexive ==
  ASSUME NEW E, Orders(E), StreamInv, catalog' = catalog
  PROVE  \A t \in Table : Columns(t)' = Columns(t) /\ <<Columns(t), Columns(t)'>> \in E
<1>1. \A t \in Table : Columns(t) \in Layout
  BY ColumnsType DEF StreamInv, RelationTypeOK
<1>2. QED
  BY <1>1, ColumnsKept, Zenon DEF Orders

\* A transaction or a TRUNCATE keeps the invariant.
LEMMA RowInv ==
  ASSUME NEW E, Orders(E), RelationInv(E), StreamInv', NEW tables \in SUBSET Table, NEW e \in Entry,
         IsRow(e), e.kind # "alter", e.id = events, e.tables = tables,
         \A t \in tables : e.written[t] = Columns(t),
         wal' = Append(wal, e), NEW rows \in SUBSET tables, Changed(rows), events' = events + 1,
         catalog' = catalog, def' = def, UNCHANGED session
  PROVE  RelationInv(E)'
<1>1. StreamInv /\ WalInv(E) /\ CacheInv(E) /\ BatchInv /\ ShapeInv(E)
  BY DEF RelationInv
<1>2. \A t \in Table : Columns(t)' = Columns(t) /\ <<Columns(t), Columns(t)'>> \in E
  BY <1>1, ColumnsReflexive, Zenon
<1>3. \A t \in e.tables : e.written[t] = Columns(t) /\ <<e.written[t], Columns(t)'>> \in E
  BY <1>2, Zenon
<1>4. described' = described /\ cache' = cache
  BY Zenon DEF session
<1>5. WalInv(E)'
  BY <1>1, <1>2, <1>3, WalGrows, Zenon
<1>6. CacheInv(E)'
  BY <1>1, <1>2, <1>3, <1>4, CacheGrows, Zenon
<1>7. ASSUME NEW m \in shape'.missing, m \notin shape.missing
      PROVE  /\ m.id = events /\ m.relation \in e.tables /\ Reads(m.relation)
             /\ m.written = Columns(m.relation)
  <2> DEFINE New(t) == [id |-> events, relation |-> t, written |-> Columns(t)]
  <2>1. /\ shape'.active = shape.active
        /\ shape.active => shape'.missing = shape.missing \cup {New(t) : t \in {u \in rows : Reads(u)}}
    BY <1>1, ChangedType, Zenon
  <2>2. shape.active
    BY <1>1, <1>7, Zenon DEF Changed
  <2>3. m \in {New(t) : t \in {u \in rows : Reads(u)}}
    BY <1>7, <2>1, <2>2, Zenon
  <2>4. PICK t \in rows : Reads(t) /\ m = New(t)
    BY <2>3, Zenon
  <2>5. QED
    BY <2>4
<1>8. BatchInv'
  BY <1>1, <1>7, BatchGrows, Zenon
<1>9. ShapeInv(E)'
  BY <1>1, <1>2, <1>3, <1>7, ShapeGrows, Zenon
<1>10. QED
  BY <1>5, <1>6, <1>8, <1>9, Zenon DEF RelationInv

\* A transaction keeps the invariant.
LEMMA CommitInv ==
  ASSUME NEW E, Orders(E), RelationInv(E), NEW tables \in SUBSET Table, Commit(tables)
  PROVE  RelationInv(E)'
<1> DEFINE e == [kind |-> "change", id |-> events, tables |-> tables,
                 written |-> [t \in tables |-> Columns(t)]]
<1>1. /\ wal' = Append(wal, e) /\ events' = events + 1 /\ def' = def /\ UNCHANGED session
      /\ catalog' = catalog /\ Changed(tables)
  BY Zenon DEF Commit
<1>2. StreamInv
  BY DEF RelationInv
<1>3. /\ e \in Entry /\ IsRow(e) /\ e.id = events /\ e.tables = tables
      /\ \A t \in tables : e.written[t] = Columns(t)
  BY <1>2, NewRow
<1>4. e.kind # "alter"
  OBVIOUS
<1>5. StreamInv'
  BY <1>2, CommitStream, Zenon
<1> HIDE DEF e
<1>6. QED
  BY <1>1, <1>3, <1>4, <1>5, RowInv, Zenon

\* TRUNCATE keeps the invariant.
LEMMA TruncateInv ==
  ASSUME NEW E, Orders(E), RelationInv(E), NEW t \in Table, Truncate(t)
  PROVE  RelationInv(E)'
<1> DEFINE tables == (IF t \in Leaf THEN {t} ELSE Family(t)) \ dropped
           e == [kind |-> "truncate", id |-> events, tables |-> tables,
                 written |-> [u \in tables |-> Columns(u)]]
<1>1. /\ wal' = Append(wal, e) /\ events' = events + 1 /\ def' = def /\ UNCHANGED session
      /\ catalog' = catalog /\ Changed(tables \cap Leaf)
  BY Zenon DEF Truncate
<1>2. tables \in SUBSET Table /\ tables \cap Leaf \in SUBSET tables
  BY DEF Family
<1>3. StreamInv
  BY DEF RelationInv
<1>4. StreamInv'
  BY <1>3, TruncateStream, Zenon
<1> HIDE DEF tables
<1>5. /\ e \in Entry /\ IsRow(e) /\ e.id = events /\ e.tables = tables
      /\ \A u \in tables : e.written[u] = Columns(u)
  BY <1>2, <1>3, NewRow
<1>6. e.kind # "alter"
  OBVIOUS
<1> HIDE DEF e
<1>7. QED
  BY <1>1, <1>2, <1>4, <1>5, <1>6, RowInv, Zenon

\* ALTER TABLE keeps the invariant.
LEMMA AlterInv ==
  ASSUME NEW E, Orders(E), RelationInv(E), NEW t \in Roots, Alter(t)
  PROVE  RelationInv(E)'
<1> DEFINE e == [kind |-> "alter", id |-> events, tables |-> Family(t), written |-> <<>>]
<1>1. StreamInv /\ WalInv(E) /\ CacheInv(E) /\ BatchInv /\ ShapeInv(E)
  BY DEF RelationInv
<1>2. /\ wal' = Append(wal, e) /\ events' = events + 1 /\ def' = def /\ UNCHANGED session
      /\ shape' = shape /\ described' = described /\ cache' = cache
  BY Zenon DEF Alter, session
<1>3. StreamInv'
  BY <1>1, AlterStream, Zenon
<1>4. /\ e \in Entry /\ ~IsRow(e) /\ e.id = events /\ e.tables = Family(t) /\ e.kind = "alter"
  BY <1>1, NewAlter DEF Family
<1>5. PICK new \in Layout : <<catalog[t], new>> \in Alteration /\ catalog' = [catalog EXCEPT ![t] = new]
  BY Zenon DEF Alter
<1>6. Root[t] = t /\ t \in Table
  BY RootsKnown, Zenon DEF Roots
<1>7. catalog \in [Roots -> Layout]
  BY <1>1, Zenon DEF StreamInv, RelationTypeOK
<1>8. ASSUME NEW u \in Table
      PROVE  /\ <<Columns(u), Columns(u)'>> \in E
             /\ (e.kind = "alter" /\ u \in e.tables) \/ Columns(u)' = Columns(u)
  <2>1. Root[u] \in Roots /\ Columns(u) \in Layout
    BY <1>7, RootsKnown, ColumnsType, Zenon
  <2>2. CASE Root[u] = t
    <3>1. Columns(u) = catalog[t] /\ Columns(u)' = new
      BY <1>5, <1>7, <2>1, <2>2, ZenonT(60) DEF Columns
    <3>2. u \in e.tables
      BY <1>4, <1>6, <2>2 DEF Family
    <3>3. QED
      BY <1>4, <1>5, <3>1, <3>2, Zenon DEF Orders
  <2>3. CASE Root[u] # t
    <3>1. Columns(u)' = Columns(u)
      BY <1>5, <1>7, <2>1, <2>3 DEF Columns
    <3>2. QED
      BY <2>1, <3>1, Zenon DEF Orders
  <2>4. QED
    BY <2>2, <2>3
<1> HIDE DEF e
<1>9. WalInv(E)'
  BY <1>1, <1>2, <1>3, <1>4, <1>8, WalGrows, Zenon
<1>10. CacheInv(E)'
  BY <1>1, <1>2, <1>3, <1>4, <1>8, CacheGrows, Zenon
<1>11. BatchInv'
  BY <1>1, <1>2, <1>4, BatchGrows, Zenon
<1>12. ShapeInv(E)'
  BY <1>1, <1>2, <1>3, <1>4, <1>8, ShapeGrows, Zenon
<1>13. QED
  BY <1>3, <1>9, <1>10, <1>11, <1>12, Zenon DEF RelationInv

\* A step that leaves the stream, the catalog and the session alone keeps the
\* invariant.
LEMMA KeptInv ==
  ASSUME NEW E, RelationInv(E), StreamInv', wal' = wal, catalog' = catalog, def' = def,
         described' = described, cache' = cache, applying' = applying, todo' = todo,
         (refreshed' = refreshed /\ shape' = shape) \/ (~refreshed' /\ shape'.missing = {}),
         events' \in {events, events + 1}
  PROVE  RelationInv(E)'
<1>1. StreamInv /\ WalInv(E) /\ CacheInv(E) /\ BatchInv /\ ShapeInv(E)
  BY DEF RelationInv
<1>2. WalInv(E)' /\ CacheInv(E)'
  BY <1>1, WalKept, CacheKept, Zenon
<1>3. Message' = Message
  BY Zenon DEF Message
<1>9. refreshed' => refreshed /\ shape' = shape
  BY Zenon
<1>10. todo' \subseteq todo
  OBVIOUS
<1>4. BatchInv'
  BY <1>1, <1>3, <1>9, <1>10, BatchKept, Zenon
<1>5. \A m : Due(m) => Due(m)'
  BY ZenonT(60) DEF Due, IsRow
<1>6. shape'.missing \subseteq shape.missing
  BY Zenon
<1>7. ShapeInv(E)'
  BY <1>1, <1>5, <1>6, ShapeKept, Zenon
<1>8. QED
  BY <1>2, <1>4, <1>7, ZenonT(60) DEF RelationInv

\* DROP TABLE and the registration of the shape keep the invariant.
LEMMA OutsideInv ==
  ASSUME NEW E, RelationInv(E), (\E t \in Table : Drop(t)) \/ Register
  PROVE  RelationInv(E)'
<1>1. StreamInv
  BY DEF RelationInv
<1>2. StreamInv'
  BY <1>1, OutsideStream, Zenon
<1>3. /\ wal' = wal /\ def' = def /\ catalog' = catalog /\ events' \in {events, events + 1}
      /\ described' = described /\ cache' = cache /\ applying' = applying /\ todo' = todo
      /\ \/ refreshed' = refreshed /\ shape' = shape
         \/ refreshed' = FALSE /\ shape' = Queried
  BY Zenon DEF Drop, Register, session, postgres
<1>4. Queried.missing = {}
  BY <1>1, QueriedType, Zenon
<1>5. QED
  BY <1>2, <1>3, <1>4, KeptInv, Zenon

\* A new connection keeps the invariant: the transaction that was being applied is
\* due again.
LEMMA ReconnectedInv ==
  ASSUME NEW E, RelationInv(E), StreamInv', Reconnected, catalog' = catalog, def' = def,
         shape' = shape, events' \in {events, events + 1}
  PROVE  RelationInv(E)'
<1>1. StreamInv /\ WalInv(E) /\ ShapeInv(E)
  BY DEF RelationInv
<1>2. wal' = wal /\ applying' = FALSE
  BY Zenon DEF Reconnected
<1>3. WalInv(E)' /\ CacheInv(E)' /\ BatchInv'
  BY <1>1, <1>2, WalKept, CacheEmptied, BatchIdle, Zenon
<1>4. \A m : Due(m) => Due(m)'
  BY <1>2, Zenon DEF Due, IsRow
<1>5. ShapeInv(E)'
  BY <1>1, <1>4, ShapeKept, Zenon
<1>6. QED
  BY <1>3, <1>5, Zenon DEF RelationInv

\* Losing the connection keeps the invariant.
LEMMA LostInv ==
  ASSUME NEW E, RelationInv(E), ConnectionLost
  PROVE  RelationInv(E)'
<1>1. StreamInv'
  BY LostStream, Zenon DEF RelationInv
<1>2. QED
  BY <1>1, ReconnectedInv, Zenon DEF ConnectionLost

\* A Relation message keeps the invariant.
LEMMA CacheRelationInv ==
  ASSUME NEW E, Orders(E), RelationInv(E), NEW t \in Table, cacheRelationMetadata(t)
  PROVE  RelationInv(E)'
<1>1. StreamInv /\ WalInv(E) /\ CacheInv(E) /\ BatchInv /\ ShapeInv(E)
  BY DEF RelationInv
<1>2. StreamInv'
  BY <1>1, CacheStream, Zenon
<1>3. wal # <<>> /\ ~applying /\ def' = def /\ catalog' = catalog /\ events' = events
  BY Zenon DEF cacheRelationMetadata, postgres
<1>4. CASE Reconnected /\ UNCHANGED shape
  BY <1>2, <1>3, <1>4, ReconnectedInv, Zenon
<1>5. CASE /\ described' = described \cup {t}
           /\ cache' = [u \in described' |-> IF u = t THEN Columns(t) ELSE cache[u]]
           /\ shape' = invalidateShapesForSchemaChange(t, Columns(t))
           /\ UNCHANGED <<wal, applying, todo, refreshed>>
  <2>1. wal' = wal /\ applying' = applying /\ todo' = todo
    BY <1>5, Zenon
  <2>2. WalInv(E)' /\ CacheInv(E)'
    BY <1>1, <1>3, <1>5, <2>1, WalKept, CacheDescribes, Zenon
  <2>3. BatchInv'
    BY <1>3, <2>1, Zenon DEF BatchInv
  <2>4. \A m : Due(m) => Due(m)'
    BY <2>1, Zenon DEF Due, IsRow
  <2>5. shape' = shape \/ shape'.missing = {}
    BY <1>5 DEF invalidateShapesForSchemaChange, NoShape
  <2>6. ShapeInv(E)'
    BY <1>1, <1>3, <2>4, <2>5, ShapeKept, ShapeFresh, Zenon
  <2>7. QED
    BY <1>2, <2>2, <2>3, <2>6, Zenon DEF RelationInv
<1>6. QED
  BY <1>4, <1>5, Zenon DEF cacheRelationMetadata

\* Starting the apply keeps the invariant.
LEMMA BeginInv ==
  ASSUME NEW E, Orders(E), RelationInv(E), BeginApply
  PROVE  RelationInv(E)'
<1>1. StreamInv /\ WalInv(E) /\ CacheInv(E) /\ BatchInv /\ ShapeInv(E)
  BY DEF RelationInv
<1>2. StreamInv'
  BY <1>1, BeginStream, Zenon
<1>3. /\ Message.tables \subseteq described /\ todo' = Recorded(Message) /\ refreshed' = FALSE
      /\ catalog' = catalog /\ events' = events /\ wal' = wal
      /\ described' = described /\ cache' = cache
  BY Zenon DEF BeginApply, postgres
<1>4. Message' = Message /\ Recorded(Message)' = Recorded(Message)
  BY <1>3, Zenon DEF Message, Recorded
<1>5. BatchInv'
  BY <1>3, <1>4, Zenon DEF BatchInv
<1>6. WalInv(E)' /\ CacheInv(E)'
  BY <1>1, <1>3, WalKept, CacheKept, Zenon
<1>7. ShapeInv(E)'
  BY <1>1, ShapeBegins, Zenon
<1>8. QED
  BY <1>2, <1>5, <1>6, <1>7, Zenon DEF RelationInv

\* Applying one relation keeps the invariant.
LEMMA ApplyRelationInv ==
  ASSUME NEW E, Orders(E), \A d \in Definition : Covers(d), RelationInv(E), NEW c \in todo,
         applyRelation(c)
  PROVE  RelationInv(E)'
<1>1. StreamInv /\ WalInv(E) /\ CacheInv(E) /\ BatchInv /\ ShapeInv(E)
  BY DEF RelationInv
<1>2. StreamInv' /\ BatchInv' /\ ShapeInv(E)'
  BY <1>1, ApplyStream, ApplyInv, Zenon
<1>3. wal' = wal /\ catalog' = catalog /\ events' = events
  BY ApplyCases, Zenon DEF Reconnected
<1>4. CacheInv(E)'
  BY <1>1, <1>3, ApplyCases, CacheEmptied, CacheKept, Zenon
<1>5. WalInv(E)'
  BY <1>1, <1>3, WalKept, Zenon
<1>6. QED
  BY <1>2, <1>4, <1>5, Zenon DEF RelationInv

\* Confirming a transaction keeps the invariant.
LEMMA FinishInv ==
  ASSUME NEW E, RelationInv(E), FinishApply
  PROVE  RelationInv(E)'
<1>1. StreamInv /\ WalInv(E) /\ CacheInv(E) /\ BatchInv /\ ShapeInv(E)
  BY DEF RelationInv
<1>2. StreamInv'
  BY <1>1, FinishStream, Zenon
<1>3. /\ applying /\ todo = {} /\ applying' = FALSE /\ wal' = Tail(wal) /\ def' = def
      /\ catalog' = catalog /\ events' = events /\ described' = described /\ cache' = cache
      /\ shape' = shape
  BY Zenon DEF FinishApply, postgres
<1>4. wal # <<>> /\ Message.kind = "change"
  BY <1>1, <1>3, Zenon DEF StreamInv, RelationTypeOK
<1>5. Message.kind # "alter"
  BY <1>4
<1>6. WalInv(E)' /\ BatchInv'
  BY <1>1, <1>3, <1>4, WalShrinks, BatchIdle, Zenon
<1>7. CacheInv(E)'
  BY <1>1, <1>3, <1>4, <1>5, CacheShrinks, Zenon
<1>8. ShapeInv(E)'
  BY <1>1, <1>3, <1>4, ShapeShrinks, Zenon
<1>9. QED
  BY <1>2, <1>6, <1>7, <1>8, Zenon DEF RelationInv

\* A Truncate message keeps the invariant: a shape that misses one of its changes
\* is deleted.
LEMMA HandleInv ==
  ASSUME NEW E, \A d \in Definition : Covers(d), RelationInv(E), HandleTruncate
  PROVE  RelationInv(E)'
<1>1. StreamInv /\ WalInv(E) /\ CacheInv(E) /\ BatchInv /\ ShapeInv(E)
  BY DEF RelationInv
<1>2. StreamInv' /\ ~applying
  BY <1>1, HandleStream, Zenon
<1>3. /\ wal # <<>> /\ Message.kind = "truncate" /\ wal' = Tail(wal) /\ def' = def
      /\ catalog' = catalog /\ events' = events /\ described' = described /\ cache' = cache
      /\ applying' = applying
      /\ shape' = IF \E t \in Message.tables : truncates(t) THEN NoShape ELSE shape
  BY Zenon DEF HandleTruncate, postgres, session
<1>4. Message.kind # "alter"
  BY <1>3
<1>5. WalInv(E)' /\ BatchInv'
  BY <1>1, <1>2, <1>3, WalShrinks, Zenon DEF BatchInv
<1>6. CacheInv(E)'
  BY <1>1, <1>3, <1>4, CacheShrinks, Zenon
<1>7. applying' = FALSE
  BY <1>1, <1>2, <1>3, Zenon DEF StreamInv, RelationTypeOK
<1>8. CASE \E t \in Message.tables : truncates(t)
  <2>1. shape'.missing = {}
    BY <1>3, <1>8 DEF NoShape
  <2>2. QED
    BY <1>2, <1>5, <1>6, <2>1, ShapeFresh, ZenonT(60) DEF RelationInv
<1>9. CASE ~ \E t \in Message.tables : truncates(t)
  <2>1. ASSUME NEW m \in shape.missing
        PROVE  m.relation \notin Message.tables
    <3>1. Reads(m.relation) /\ m.relation \in Table
      BY <1>1, MissingType, Zenon DEF ShapeInv
    <3>2. shape.active
      BY <1>1, MissingActive, Zenon
    <3>3. truncates(m.relation)
      BY <1>1, <3>1, <3>2, MissingReads, Zenon DEF truncates
    <3>4. QED
      BY <1>9, <3>3, Zenon
  <2>2. shape' = shape
    BY <1>3, <1>9, Zenon
  <2>3. ShapeInv(E)'
    BY <1>1, <1>3, <1>7, <2>1, <2>2, ShapeShrinks, Zenon
  <2>4. QED
    BY <1>2, <1>5, <1>6, <2>3, Zenon DEF RelationInv
<1>10. QED
  BY <1>8, <1>9

\* Decoding an ALTER TABLE keeps the invariant.
LEMMA DecodeInv ==
  ASSUME NEW E, RelationInv(E), DecodeAlter
  PROVE  RelationInv(E)'
<1>1. StreamInv /\ WalInv(E) /\ CacheInv(E) /\ BatchInv /\ ShapeInv(E)
  BY DEF RelationInv
<1>2. StreamInv' /\ ~applying
  BY <1>1, DecodeStream, Zenon
<1>3. /\ wal # <<>> /\ Message.kind = "alter" /\ wal' = Tail(wal) /\ def' = def
      /\ catalog' = catalog /\ events' = events
      /\ described' = described \ Message.tables /\ cache' = [t \in described' |-> cache[t]]
      /\ applying' = applying /\ shape' = shape
  BY Zenon DEF DecodeAlter, postgres
<1>4. /\ described' \subseteq described /\ \A t \in described' : cache'[t] = cache[t]
      /\ \A t \in described' : t \notin Message.tables
  BY <1>3, Zenon
<1>5. WalInv(E)' /\ BatchInv'
  BY <1>1, <1>2, <1>3, WalShrinks, Zenon DEF BatchInv
<1>6. CacheInv(E)'
  BY <1>1, <1>3, <1>4, CacheShrinks, Zenon
<1>7. applying' = FALSE
  BY <1>1, <1>2, <1>3, Zenon DEF StreamInv, RelationTypeOK
<1>8. ~IsRow(Message)
  BY <1>3 DEF IsRow
<1>9. ShapeInv(E)'
  BY <1>1, <1>3, <1>7, <1>8, ShapeShrinks, Zenon
<1>10. QED
  BY <1>2, <1>5, <1>6, <1>9, Zenon DEF RelationInv

\* Every step keeps the invariant.
LEMMA RelationNextInv ==
  ASSUME NEW E, Orders(E), \A d \in Definition : Covers(d), RelationInv(E), [RelationNext]_rvars
  PROVE  RelationInv(E)'
<1>1. CASE UNCHANGED rvars
  <2>1. StreamInv'
    BY StreamNext, Zenon DEF RelationInv
  <2>2. QED
    BY <1>1, <2>1, KeptInv, Zenon DEF rvars
<1>2. CASE RelationNext
  BY <1>2, NextActions, CommitInv, TruncateInv, AlterInv, OutsideInv, LostInv, CacheRelationInv,
     BeginInv, ApplyRelationInv, FinishInv, HandleInv, DecodeInv, Zenon
<1>3. QED
  BY <1>1, <1>2

\* With nothing in the stream nothing is due.
LEMMA InvCaughtUp ==
  ASSUME NEW E, RelationInv(E)
  PROVE  CaughtUp
<1>1. SUFFICES ASSUME wal = <<>>, NEW m \in shape.missing
               PROVE  Exempt(Columns(m.relation), m.written)
  BY Zenon DEF CaughtUp
<1>2. Len(wal) = 0
  BY <1>1
<1>3. ~Due(m)
  BY <1>2 DEF Due
<1>4. QED
  BY <1>3, Zenon DEF RelationInv, ShapeInv

\* The invariant holds at all times, for definitions whose dependencies cover what
\* they read and layouts that evolve in an order E.
THEOREM RelationInvariant ==
  ASSUME NEW CONSTANT E, Orders(E), \A d \in Definition : Covers(d)
  PROVE  RelationSpec => []RelationInv(E)
<1>1. RelationInit => RelationInv(E)
  BY RelationInitInv
<1>2. RelationInv(E) /\ [RelationNext]_rvars => RelationInv(E)'
  BY RelationNextInv
<1>3. QED
  BY <1>1, <1>2, PTL DEF RelationSpec

\* Once the stream is drained, a registered shape shows every change of every table
\* that its clause reads, for any tables, partitions, layouts, definitions,
\* alterations and lost connections. The scan of the clause must cover the tables
\* that it reads (DependenciesCovered), and a tuple that has become unreadable must
\* not become readable again by a later ALTER TABLE.
THEOREM AlwaysCaughtUp ==
  ASSUME \A d \in Definition : Covers(d), \E evolves : Orders(evolves)
  PROVE  RelationSpec => []CaughtUp
<1>1. PICK E : Orders(E)
  OBVIOUS
<1>2. RelationSpec => []RelationInv(E)
  BY <1>1, RelationInvariant
<1>3. RelationInv(E) => CaughtUp
  BY InvCaughtUp
<1>4. QED
  BY <1>2, <1>3, PTL

=============================================================================
