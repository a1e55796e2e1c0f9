---------------------------- MODULE RelationSync ----------------------------
(***************************************************************************)
(* How the replication stream reaches a shape when the shape reads several *)
(* tables, some of them partitioned, and when tables are altered, truncated*)
(* or dropped: the handling of the messages of pgoutput                    *)
(* (internal/pg/replication.go), the relation metadata cache               *)
(* (internal/pg/relation_cache.go) and the change batch                    *)
(* (internal/pg/change_batch.go).                                          *)
(*                                                                         *)
(* One shape is followed.  Its rows are abstracted to the changes that they*)
(* do not show yet (shape.missing).  A query and the update of the shape   *)
(* from its result are one step here: LiveSync interleaves them.  The slot *)
(* is the persistent one of the disk store, so that a new connection       *)
(* starts at the first transaction that was not confirmed.                 *)
(***************************************************************************)
EXTENDS Naturals, Sequences, FiniteSets, Functions

CONSTANTS
  Table,          \* tables, as pairs of a schema and a name
  Root,           \* the topmost partitioned table of each table, or the table itself
  Layout,         \* possible columns of a table: sequences of [name, type, key]
  InitialLayout,  \* the layouts each table may start with
  Alteration,     \* pairs of layouts: what ALTER TABLE may do
  Definition,     \* shape definitions, with what DependencyScan derives from their clauses:
                  \* [relation, columns, filter, reads, targeted, deps, refresh]
  Bystander,      \* the tables that change although the shape does not read them
  MaxEvents       \* bound on transactions, ALTER TABLE, DROP TABLE and lost connections

ASSUME RelationSyncAssumption ==
  /\ Root \in [Table -> Table]
  /\ \A t \in Table : Root[Root[t]] = Root[t]
  /\ InitialLayout \in [Table -> (SUBSET Layout) \ {{}}]
  /\ Alteration \subseteq Layout \X Layout
  /\ \A d \in Definition : d.relation \in Table /\ d.reads \subseteq Table
  /\ Bystander \subseteq Table
  /\ MaxEvents \in Nat

VARIABLES
  def,       \* the definition of the shape, with what the code derives from it
  catalog,   \* Postgres: the columns of each topmost table and its partitions
  dropped,   \* Postgres: the tables that are gone
  wal,       \* Postgres: the transactions that are not confirmed, oldest first
  described, \* pgoutput: the tables whose Relation message the session has sent
  cache,     \* relationCache: the columns of the tables in described
  applying,  \* the batch is being applied
  todo,      \* its relations that are still to do, and how their keys were decoded
  refreshed, \* the shape is in refreshedDependentShapes
  shape,     \* [active, schema, read, missing]: read has the schemas its rows were read with
  events     \* transactions, alterations, drops and lost connections so far

rvars == <<def, catalog, dropped, wal, described, cache, applying, todo, refreshed, shape, events>>
postgres == <<catalog, dropped, events>>
session  == <<described, cache, applying, todo, refreshed>>

-----------------------------------------------------------------------------
\* What lookupPartitionRoot finds.
Roots == {Root[t] : t \in Table}
Family(t) == {u \in Table : Root[u] = Root[t]}
\* Rows are in tables without partitions.
Leaf == {t \in Table : \A u \in Table : Root[u] = t => u = t}
Columns(t) == catalog[Root[t]]
Names(columns) == {c.name : c \in columns}

Keyed(layout) == \E i \in DOMAIN layout : layout[i].key

\* The columns of a shape: the explicit ones that exist and the primary key.
projectedColumns(layout, explicit) ==
  {c \in Range(layout) : explicit = {} \/ c.name \in explicit \/ c.key}

\* A tuple is decoded by position, with the columns of the cache: whether that
\* finds the primary key in a tuple that was written with other columns.
decodeTupleRow(cached, written) ==
  \A i \in DOMAIN cached :
    cached[i].key => i \in DOMAIN written /\ written[i].name = cached[i].name

NoShape == [active |-> FALSE, schema |-> {}, read |-> {}, missing |-> {}]

\* A table the shape reads, itself or as a partition of one it reads.
Reads(t) == t \in def.reads \/ Root[t] \in def.reads

\* deps: [unsupported, wildcard, relations]
definitionRequiresInvalidationForRelation(deps, relation, root) ==
  /\ deps.unsupported
  /\ deps.wildcard \/ relation \in deps.relations \/ root \in deps.relations

-----------------------------------------------------------------------------
(***************************************************************************)
(* Postgres.                                                               *)
(***************************************************************************)
Changed(tables) ==
  shape' = IF shape.active
           THEN [shape EXCEPT !.missing = @ \cup
                   {[id |-> events, relation |-> t, written |-> Columns(t)] :
                      t \in {u \in tables : Reads(u)}}]
           ELSE shape

Commit(tables) ==
  /\ events < MaxEvents
  /\ tables \cap dropped = {}
  /\ wal' = Append(wal, [kind |-> "change", id |-> events, tables |-> tables,
                         written |-> [t \in tables |-> Columns(t)]])
  /\ Changed(tables)
  /\ events' = events + 1
  /\ UNCHANGED <<def, catalog, dropped, session>>

\* TRUNCATE of a partitioned table lists its partitions.
Truncate(t) ==
  /\ events < MaxEvents
  /\ t \notin dropped
  /\ LET tables == (IF t \in Leaf THEN {t} ELSE Family(t)) \ dropped
     IN  /\ wal' = Append(wal, [kind |-> "truncate", id |-> events, tables |-> tables,
                                written |-> [u \in tables |-> Columns(u)]])
         /\ Changed(tables \cap Leaf)
  /\ events' = events + 1
  /\ UNCHANGED <<def, catalog, dropped, session>>

Alter(t) ==
  /\ events < MaxEvents
  /\ t \notin dropped
  /\ \E new \in Layout :
       /\ <<catalog[t], new>> \in Alteration
       /\ catalog' = [catalog EXCEPT ![t] = new]
  /\ wal' = Append(wal, [kind |-> "alter", id |-> events, tables |-> Family(t),
                         written |-> <<>>])
  /\ events' = events + 1
  /\ UNCHANGED <<def, dropped, session, shape>>

Drop(t) ==
  /\ events < MaxEvents
  /\ dropped' = dropped \cup (IF t \in Roots THEN Family(t) ELSE {t})
  /\ dropped' # dropped
  /\ events' = events + 1
  /\ UNCHANGED <<def, catalog, wal, session, shape>>

-----------------------------------------------------------------------------
(***************************************************************************)
(* A client asks for the shape: it is queried and registered.              *)
(***************************************************************************)
\* What a query of the definition does now.
QueryOutcome ==
  CASE def.reads \cap dropped # {} -> "missing"
    [] def.filter \ Names(Range(Columns(def.relation))) # {} -> "error"
    [] OTHER -> "rows"

\* The shape after all its rows are queried.
Queried ==
  LET schema == projectedColumns(Columns(def.relation), def.columns)
  IN  [active |-> TRUE, schema |-> schema, read |-> {schema}, missing |-> {}]

Register ==
  /\ ~shape.active
  /\ QueryOutcome = "rows"
  /\ shape' = Queried
  /\ refreshed' = FALSE
  /\ UNCHANGED <<def, postgres, wal, described, cache, applying, todo>>

-----------------------------------------------------------------------------
(***************************************************************************)
(* The replication loop.                                                   *)
(***************************************************************************)
\* Mutant: the batch of the lost connection is kept.
ReconnectedMidBatch ==
  /\ described' = {}
  /\ cache' = <<>>
  /\ UNCHANGED <<wal, applying, todo, refreshed>>

\* Mutant: the cache of the lost connection is kept.
ReconnectedCached ==
  /\ applying' = FALSE
  /\ todo' = {}
  /\ refreshed' = FALSE
  /\ UNCHANGED <<wal, described, cache>>

\* handleReplicationError and the next connection: the cache is empty, and the
\* transaction that was being handled is sent again.
Reconnected ==
  /\ described' = {}
  /\ cache' = <<>>
  /\ applying' = FALSE
  /\ todo' = {}
  /\ refreshed' = FALSE
  /\ UNCHANGED wal

ConnectionLost ==
  /\ events < MaxEvents
  /\ Reconnected
  /\ events' = events + 1
  /\ UNCHANGED <<def, catalog, dropped, shape>>

Message == Head(wal)

\* Mutant: a change of a partition does not reach the shapes of its topmost table.
candidateNoRoot(t) == shape.active /\ def.relation = t

\* The shape is one of candidateShapes of a relation.
candidate(t) == shape.active /\ def.relation \in {t, Root[t]}

\* Mutant: shapes with another schema are kept.
invalidateNothing(t, columns) == shape

\* invalidateShapesForSchemaChange
invalidateShapesForSchemaChange(t, columns) ==
  IF candidate(t) /\ shape.schema # projectedColumns(columns, def.columns) THEN NoShape
  ELSE shape

\* A Relation message, before the first change of a table in a session and again
\* after the table was altered.
cacheRelationMetadata(t) ==
  /\ wal # <<>> /\ Message.kind \in {"change", "truncate"} /\ ~applying
  /\ t \in Message.tables \ described
  /\ \/ /\ t \in dropped
        /\ Reconnected
        /\ UNCHANGED shape
     \/ /\ t \notin dropped
        /\ described' = described \cup {t}
        /\ cache' = [u \in described' |-> IF u = t THEN Columns(t) ELSE cache[u]]
        /\ shape' = invalidateShapesForSchemaChange(t, Columns(t))
        /\ UNCHANGED <<wal, applying, todo, refreshed>>
  /\ UNCHANGED <<def, postgres>>

\* The rows of a table without a primary key are not recorded.
Recorded(tx) ==
  {[relation |-> t, decoded |-> decodeTupleRow(cache[t], tx.written[t])] :
     t \in {u \in tx.tables : Keyed(cache[u])}}

\* The changes were recorded as they came; the Commit message starts the apply.
BeginApply ==
  /\ wal # <<>> /\ Message.kind = "change" /\ ~applying
  /\ Message.tables \subseteq described
  /\ applying' = TRUE
  /\ todo' = Recorded(Message)
  /\ refreshed' = FALSE
  /\ UNCHANGED <<def, postgres, wal, described, cache, shape>>

\* The shape is not targeted and depends on a relation.
dependent(t) ==
  /\ shape.active
  /\ ~def.targeted
  /\ definitionRequiresInvalidationForRelation(def.deps, t, Root[t])

\* The columns that the query of the changed keys names.
buildTargetedSnapshotQuery(selected) == Names(selected) \cup def.filter

\* snapshotChangedKeys, with the columns of the cache, and RefreshKeysWithMetadata.
refreshKeys(c) ==
  LET t        == c.relation
      selected == projectedColumns(cache[t], def.columns)
      gone     == buildTargetedSnapshotQuery(selected) \ Names(Range(Columns(def.relation)))
  IN  \/ /\ def.relation \in dropped
         /\ shape' = NoShape
         /\ todo' = todo \ {c}
         /\ UNCHANGED <<wal, described, cache, applying, refreshed>>
      \/ /\ def.relation \notin dropped /\ gone # {}
         /\ Reconnected
         /\ UNCHANGED shape
      \/ /\ def.relation \notin dropped /\ gone = {}
         /\ shape' = [shape EXCEPT !.schema = selected,
                                   !.read = @ \cup {selected},
                                   !.missing = {m \in @ : ~(c.decoded /\ m.id = Message.id
                                                                      /\ m.relation = t)}]
         /\ todo' = todo \ {c}
         /\ UNCHANGED <<wal, described, cache, applying, refreshed>>

\* refreshDependentShapesForRelation
refreshDependent(c) ==
  \/ /\ refreshed
     /\ todo' = todo \ {c}
     /\ UNCHANGED <<wal, described, cache, applying, refreshed, shape>>
  \/ /\ ~refreshed /\ def.refresh /\ QueryOutcome = "error"
     /\ Reconnected
     /\ UNCHANGED shape
  \/ /\ ~refreshed /\ ~(def.refresh /\ QueryOutcome = "error")
     /\ shape' = IF def.refresh /\ QueryOutcome = "rows" THEN Queried ELSE NoShape
     /\ refreshed' = TRUE
     /\ todo' = todo \ {c}
     /\ UNCHANGED <<wal, described, cache, applying>>

\* applyChangeBatch, for one relation of the batch.
applyRelation(c) ==
  /\ applying /\ c \in todo
  /\ \/ /\ def.targeted /\ candidate(c.relation)
        /\ refreshKeys(c)
     \/ /\ dependent(c.relation)
        /\ refreshDependent(c)
     \/ /\ ~(def.targeted /\ candidate(c.relation)) /\ ~dependent(c.relation)
        /\ todo' = todo \ {c}
        /\ UNCHANGED <<wal, described, cache, applying, refreshed, shape>>
  /\ UNCHANGED <<def, postgres>>

\* The checkpoint is saved and the transaction confirmed.
FinishApply ==
  /\ applying /\ todo = {}
  /\ applying' = FALSE
  /\ wal' = Tail(wal)
  /\ UNCHANGED <<def, postgres, described, cache, todo, refreshed, shape>>

\* A Truncate message reaches the shape: as a dependency or as its own table.
truncates(t) == dependent(t) \/ candidate(t)

HandleTruncate ==
  /\ wal # <<>> /\ Message.kind = "truncate"
  /\ Message.tables \subseteq described
  /\ shape' = IF \E t \in Message.tables : truncates(t) THEN NoShape ELSE shape
  /\ wal' = Tail(wal)
  /\ UNCHANGED <<def, postgres, session>>

\* pgoutput decodes an ALTER: it will describe the table again.
DecodeAlter ==
  /\ wal # <<>> /\ Message.kind = "alter"
  /\ described' = described \ Message.tables
  /\ cache' = [t \in described' |-> cache[t]]
  /\ wal' = Tail(wal)
  /\ UNCHANGED <<def, postgres, applying, todo, refreshed, shape>>

-----------------------------------------------------------------------------
RelationInit ==
  /\ def \in Definition
  /\ catalog \in {f \in [Roots -> Layout] : \A t \in Roots : f[t] \in InitialLayout[t]}
  /\ dropped = {}
  /\ wal = <<>>
  /\ described = {}
  /\ cache = <<>>
  /\ applying = FALSE
  /\ todo = {}
  /\ refreshed = FALSE
  /\ shape = NoShape
  /\ events = 0

Busy == {t \in Table : Reads(t)} \cup Bystander

Database ==
  \/ \E tables \in (SUBSET (Leaf \cap Busy)) \ {{}} : Commit(tables)
  \/ \E t \in Busy : Truncate(t) \/ Drop(t)
  \/ \E t \in Roots \cap Busy : Alter(t)

Replicate ==
  \/ \E t \in Table : cacheRelationMetadata(t)
  \/ BeginApply
  \/ \E c \in todo : applyRelation(c)
  \/ FinishApply
  \/ HandleTruncate
  \/ DecodeAlter

RelationNext == Database \/ Register \/ ConnectionLost \/ Replicate

RelationSpec == RelationInit /\ [][RelationNext]_rvars /\ WF_rvars(Replicate)

-----------------------------------------------------------------------------
(***************************************************************************)
(* Properties.                                                             *)
(***************************************************************************)
\* The cache holds exactly the relations the session has described; a batch that
\* is being applied is of the first transaction, with relations of the cache.
RelationTypeOK ==
  /\ DOMAIN cache = described /\ described \subseteq Table
  /\ \A t \in described : cache[t] \in Layout
  /\ catalog \in [Roots -> Layout]
  /\ applying \in BOOLEAN /\ refreshed \in BOOLEAN
  /\ {c.relation : c \in todo} \subseteq described
  /\ applying => wal # <<>> /\ Message.kind = "change"
  /\ ~applying => todo = {}
  /\ shape.active \in BOOLEAN
  /\ ~shape.active => shape = NoShape

\* A change that the stream cannot bring to a shape: the table has no primary key,
\* and ChangeBatch.Add ignores it, or its tuple was written before an ALTER TABLE
\* that moved the key column, and decodeTupleRow misreads it.
Exempt(columns, written) ==
  ~Keyed(written) \/ ~Keyed(columns) \/ ~decodeTupleRow(columns, written)

\* Once the stream is drained, a shape that is still registered shows every change
\* of every table that its WHERE clause reads, in whatever form the clause names
\* the table and whichever partition holds the row, unless the change is exempt.
CaughtUp ==
  wal = <<>> /\ shape.active =>
    \A m \in shape.missing : Exempt(Columns(m.relation), m.written)

\* The classification of the definition covers the tables that its clause reads:
\* a targeted shape reads its own table only, and the dependencies of any other
\* have every table the clause reads, or are the wildcard.
Covers(d) ==
  IF d.targeted THEN d.reads \subseteq {d.relation}
  ELSE d.deps.unsupported /\ (d.deps.wildcard \/ d.reads \subseteq d.deps.relations)

\* Whatever the form of its clause, the definition of the shape is classified so
\* that no table it reads escapes collectDefinitionDependencies.
DependenciesCovered == Covers(def)

\* An order in which the layout of a table evolves: every ALTER TABLE goes forward in
\* it, and a tuple that has become exempt is exempt for all later layouts too.
Orders(evolves) ==
  /\ evolves \subseteq Layout \X Layout
  /\ Alteration \subseteq evolves
  /\ \A a \in Layout : <<a, a>> \in evolves
  /\ \A a, b, c \in Layout : <<a, b>> \in evolves /\ <<b, c>> \in evolves => <<a, c>> \in evolves
  /\ \A a, b, c \in Layout :
       <<a, b>> \in evolves /\ <<b, c>> \in evolves /\ Exempt(b, a) => Exempt(c, a)

\* Once the stream is drained, and if a change of its table came after the last
\* ALTER TABLE, a registered shape has the schema of the table as Postgres has it
\* now and every one of its rows was read with it: cacheRelationMetadata deletes
\* the shapes with another schema before RefreshKeysWithMetadata would mix rows of
\* two schemas.
SchemaCurrent ==
  (wal = <<>> /\ shape.active /\ \E t \in described : def.relation \in {t, Root[t]})
    => shape.read \cup {shape.schema} = {projectedColumns(Columns(def.relation), def.columns)}

\* A dropped table has changes that were not confirmed, or the clause of the shape
\* uses a column that is gone: then every connection fails at the same message.
Blocked ==
  \/ \E i \in DOMAIN wal : wal[i].kind # "alter" /\ wal[i].tables \cap dropped # {}
  \/ def.filter \ Names(Range(Columns(def.relation))) # {}

\* Whatever is committed is confirmed in the end, through lost connections and
\* errors, unless the stream is blocked.
ReplicationDrains == (wal # <<>>) ~> (wal = <<>> \/ Blocked)

=============================================================================
