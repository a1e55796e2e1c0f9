------------------------------ MODULE LiveSync ------------------------------
(***************************************************************************)
(* Live synchronisation: the shape manager composed with Postgres, with    *)
(* the replication client that refreshes the shapes (internal/pg), and     *)
(* with clients that fetch a shape and follow it (internal/protocol).      *)
(*                                                                         *)
(* All shapes here select from one table, which may be partitioned.  A     *)
(* transaction is the set of keys it touched.  Commit LSNs are counted:    *)
(* the n-th commit has LSN n and ends at n + 1, and a position p of the    *)
(* stream means that every commit with an LSN of at least p is still to be *)
(* sent.  The replication client does not use the row data of the stream:  *)
(* it looks the touched keys up in the database, as they are by then.      *)
(*                                                                         *)
(* The replication slot and the walsender are external; what is modelled   *)
(* of them is what the client relies on: a slot remembers the highest      *)
(* confirmed position, and a stream starts at the requested position or at *)
(* the confirmed one, whichever is later.                                  *)
(***************************************************************************)
EXTENDS ShapeManager

CONSTANTS
  Table,        \* the table, or the root of the partitioned table
  PartitionOf,  \* the relation id of the partition each key is in
  Client,       \* clients that fetch and follow shapes
  MaxCommits    \* bound: transactions

ASSUME LiveAssumption ==
  /\ Table \in Relation
  /\ \A x \in Hash : RelationOf[x] = Table
  /\ PartitionOf \in [Key -> Nat]
  /\ MaxCommits \in Nat
  /\ 0 .. MaxCommits \subseteq CommitLSNs

VARIABLES
  db,           \* the rows in the database
  wal,          \* the keys each commit touched
  slot,         \* the position the slot has confirmed, 0 if there is no slot
  checkpoint,   \* LastConfirmedLSN of the stored checkpoint, 0 if there is none
  incompatible, \* that checkpoint names another system, timeline or database
  stream,       \* the replication connection and the loop that reads it
  job,          \* applyChangeBatch
  client,       \* what each client knows
  begun,        \* history: the last commit that was received or skipped
  registered    \* history: begun when the snapshot of a shape was stored

liveVars == <<vars, db, wal, slot, checkpoint, incompatible, stream, job, client, begun,
              registered>>
external == <<db, wal>>
stored   == <<checkpoint, incompatible>>
history  == <<begun, registered>>

NoJob  == [pc |-> "idle", lsn |-> 0, parts |-> {}, todo |-> {}, rows |-> NoRows]
Down   == [up |-> FALSE, invalidated |-> FALSE, next |-> 0, confirmed |-> 0, start |-> 0]
Nobody == [pc |-> "idle", handle |-> NoHandle, offset |-> InvalidOffset, rows |-> NoRows]

Later(a, b) == IF a > b THEN a ELSE b

\* The position a new slot starts from.
WalEnd == Len(wal) + 1

-----------------------------------------------------------------------------
(***************************************************************************)
(* Postgres.                                                               *)
(***************************************************************************)
Commit(touched) ==
  /\ Len(wal) < MaxCommits
  /\ touched # {}
  /\ \E new \in [touched -> Row \cup {NoRow}] :
       db' = [k \in Key |-> IF k \in touched THEN new[k] ELSE db[k]]
  /\ wal' = Append(wal, touched)
  /\ UNCHANGED <<vars, slot, stored, stream, job, client, history>>

\* The slot is dropped, by an operator or by max_slot_wal_keep_size.
SlotLost ==
  /\ Durable
  /\ ~stream.up
  /\ slot # 0
  /\ faults < MaxFaults
  /\ faults' = faults + 1
  /\ slot' = 0
  /\ UNCHANGED <<registry, waiters, disk, clock, wait, external, stored, stream,
                 job, client, history>>

\* Another server takes over: it has the commits, but neither the timeline nor
\* the slot.
Failover ==
  /\ Durable
  /\ ~stream.up /\ stream.start = 0
  /\ checkpoint # 0
  /\ faults < MaxFaults
  /\ faults' = faults + 1
  /\ slot' = 0
  /\ incompatible' = TRUE
  /\ UNCHANGED <<registry, waiters, disk, clock, wait, external, checkpoint, stream,
                 job, client, history>>

-----------------------------------------------------------------------------
(***************************************************************************)
(* Connecting: ensureReplication and prepareReplicationStart.  A slot of   *)
(* the memory store has a new name every time, so it never exists.         *)
(***************************************************************************)
\* The checkpoint was written for this server, its timeline and this database.
checkpointCompatible == checkpoint # 0 /\ ~incompatible

\* A stored checkpoint that is not of this server, or whose slot is gone: all
\* shapes are invalidated.  If that fails the attempt is over.
InvalidateForSlot ==
  /\ Durable
  /\ ~stream.up /\ stream.start = 0 /\ ~stream.invalidated
  /\ checkpoint # 0
  /\ ~checkpointCompatible \/ slot = 0
  /\ InvalidateAll
  /\ stream' = [stream EXCEPT !.invalidated = (faults' = faults)]
  /\ UNCHANGED <<external, slot, stored, job, client, history>>

Streaming(position) ==
  [up |-> TRUE, invalidated |-> FALSE, next |-> position, confirmed |-> position,
   start |-> position]

CreateSlot ==
  /\ ~stream.up /\ stream.start = 0
  /\ slot = 0
  /\ Durable /\ checkpoint # 0 => stream.invalidated
  /\ slot' = WalEnd
  /\ stream' = Streaming(WalEnd)
  /\ begun' = WalEnd - 1
  /\ UNCHANGED <<vars, external, stored, job, client, registered>>

\* Mutant: the stream resumes from the end of the log.
ResumeSlotAtEnd ==
  /\ ~stream.up /\ stream.start = 0
  /\ slot # 0
  /\ stream' = Streaming(WalEnd)
  /\ begun' = Later(begun, WalEnd - 1)
  /\ UNCHANGED <<vars, external, slot, stored, job, client, registered>>

\* The slot exists: the stream resumes from the checkpoint, if that is valid.
ResumeSlot ==
  LET start == IF checkpointCompatible THEN checkpoint ELSE WalEnd
  IN  /\ ~stream.up /\ stream.start = 0
      /\ slot # 0
      /\ incompatible => stream.invalidated
      /\ stream' = [Streaming(start) EXCEPT !.next = Later(start, slot)]
      /\ begun' = Later(begun, Later(start, slot) - 1)
      /\ UNCHANGED <<vars, external, slot, stored, job, client, registered>>

\* The checkpoint of the start position is saved after the loop was started, and
\* whether or not the loop still runs.
SaveStart ==
  /\ stream.start # 0
  /\ checkpoint' = stream.start
  /\ incompatible' = FALSE
  /\ stream' = [stream EXCEPT !.start = 0]
  /\ UNCHANGED <<vars, external, slot, job, client, history>>

\* The connection, a query or a status update fails: the loop ends, and what it
\* was applying is dropped.  A temporary slot goes with its connection.
Drop ==
  /\ job' = NoJob
  /\ stream' = [Down EXCEPT !.start = stream.start]
  /\ slot' = IF Durable THEN slot ELSE 0

handleReplicationError ==
  /\ stream.up
  /\ faults < MaxFaults
  /\ faults' = faults + 1
  /\ Drop
  /\ UNCHANGED <<registry, waiters, disk, clock, wait, external, stored, client, history>>

-----------------------------------------------------------------------------
(***************************************************************************)
(* The replication loop.                                                   *)
(***************************************************************************)
\* sendStandbyStatus with the position of the client, which a commit and a
\* keepalive of the server have moved past everything that was received.
StandbyStatus ==
  /\ stream.up
  /\ job.pc = "idle"
  /\ slot' = Later(slot, stream.next)
  /\ stream' = [stream EXCEPT !.confirmed = Later(@, stream.next)]
  /\ UNCHANGED <<vars, external, stored, job, client, history>>

\* Mutant: the position that was received is confirmed.
ApplyKeepaliveReceived ==
  /\ stream.up
  /\ job.pc # "idle"
  /\ slot' = Later(slot, job.lsn + 1)
  /\ UNCHANGED <<vars, external, stored, stream, job, client, history>>

\* While a commit is applied only the last confirmed position is repeated.
ApplyKeepalive ==
  /\ stream.up
  /\ job.pc # "idle"
  /\ slot' = Later(slot, stream.confirmed)
  /\ UNCHANGED <<vars, external, stored, stream, job, client, history>>

\* recordInsert, recordUpdate and recordDelete add the keys of the changed rows to
\* the batch, by the relation id of their partition.
Recorded(lsn) == {PartitionOf[k] : k \in wal[lsn]}

ReceiveCommit ==
  /\ stream.up
  /\ job.pc = "idle"
  /\ stream.next <= Len(wal)
  /\ job' = [NoJob EXCEPT !.pc = "relations", !.lsn = stream.next,
                          !.parts = Recorded(stream.next)]
  /\ begun' = Later(begun, stream.next)
  /\ UNCHANGED <<vars, external, slot, stored, stream, client, registered>>

\* The partition whose changes are applied: relation ids are taken in order.
CurrentPart == CHOOSE p \in job.parts : \A q \in job.parts : p <= q

CurrentKeys == {k \in wal[job.lsn] : PartitionOf[k] = CurrentPart}

candidateShapes ==
  /\ job.pc = "relations"
  /\ job.parts # {}
  /\ job' = [job EXCEPT !.pc = "shapes", !.todo = ActiveByRelation(Table)]
  /\ UNCHANGED <<vars, external, slot, stored, stream, client, history>>

snapshotChangedKeys ==
  /\ job.pc = "shapes"
  /\ job.todo # {}
  /\ job' = [job EXCEPT !.pc = "refresh", !.rows = db]
  /\ UNCHANGED <<vars, external, slot, stored, stream, client, history>>

\* A shape that was deleted meanwhile is passed over.
RefreshShape(h) ==
  /\ job.pc = "refresh"
  /\ h \in job.todo
  /\ \/ /\ RefreshKeysWithMetadata(h, CurrentKeys, job.rows, job.lsn)
        /\ IF faults' = faults
           THEN /\ job' = [job EXCEPT !.pc = "shapes", !.todo = @ \ {h}]
                /\ UNCHANGED <<slot, stream>>
           ELSE Drop
     \/ /\ ~Active(h)
        /\ job' = [job EXCEPT !.pc = "shapes", !.todo = @ \ {h}]
        /\ UNCHANGED <<vars, slot, stream>>
  /\ UNCHANGED <<external, stored, client, history>>

RelationDone ==
  /\ job.pc = "shapes"
  /\ job.todo = {}
  /\ job' = [job EXCEPT !.pc = "relations", !.parts = @ \ {CurrentPart}]
  /\ UNCHANGED <<vars, external, slot, stored, stream, client, history>>

SaveCheckpoint ==
  /\ job.pc = "relations"
  /\ job.parts = {}
  /\ checkpoint' = job.lsn
  /\ incompatible' = FALSE
  /\ job' = [job EXCEPT !.pc = "confirm"]
  /\ UNCHANGED <<vars, external, slot, stream, client, history>>

\* The commit is confirmed at its commit LSN, which does not include it.
ConfirmCommit ==
  /\ job.pc = "confirm"
  /\ slot' = Later(slot, job.lsn)
  /\ stream' = [stream EXCEPT !.confirmed = Later(@, job.lsn), !.next = job.lsn + 1]
  /\ job' = NoJob
  /\ UNCHANGED <<vars, external, stored, client, history>>

-----------------------------------------------------------------------------
(***************************************************************************)
(* Requests.                                                               *)
(***************************************************************************)
\* Replication follows what is registered from now on.
Established == slot # 0 /\ (Durable => checkpointCompatible)

Registered(h) ==
  registered' = [registered EXCEPT ![h] = IF Established THEN begun ELSE MaxCommits]

\* Mutant: the error of the query is not looked at.
SnapshotUnchecked(c) ==
  /\ client[c].pc = "idle"
  /\ client' = [client EXCEPT ![c] = [Nobody EXCEPT !.pc = "snapshot", !.rows = NoRow]]
  /\ UNCHANGED <<vars, external, slot, stored, stream, job, history>>

\* serveInitialSnapshot: the query, and then the registration.
Snapshot(c) ==
  /\ client[c].pc = "idle"
  /\ client' = [client EXCEPT ![c] = [Nobody EXCEPT !.pc = "snapshot", !.rows = db]]
  /\ UNCHANGED <<vars, external, slot, stored, stream, job, history>>

serveInitialSnapshot(c, x) ==
  /\ client[c].pc = "snapshot"
  /\ UpsertSnapshotAtOffset(x, client[c].rows, InitialOffset)
  /\ \/ /\ faults' = faults
        /\ client' = [client EXCEPT ![c] = [@ EXCEPT !.pc = "live", !.handle = byHash'[x],
                                                     !.offset = InitialOffset]]
        /\ Registered(byHash'[x])
     \/ /\ faults' # faults
        /\ client' = [client EXCEPT ![c] = Nobody]
        /\ UNCHANGED registered
  /\ UNCHANGED <<external, slot, stored, stream, job, begun>>

\* The rows of a client after the messages it is sent.
Applied(rows, s, I) ==
  [k \in Key |->
     LET K == {i \in I : s.changes[i].key = k}
     IN  IF K = {} THEN rows[k]
         ELSE s.changes[CHOOSE i \in K : \A j \in K : j <= i].row]

\* serveContinuation.  The answer carries the current offset of the shape.
serveContinuation(c) ==
  LET me == client[c]
      s  == byHandle[me.handle]
  IN  /\ me.pc = "live"
      /\ ~ReadFails(me.handle, me.offset)
      /\ client' = [client EXCEPT ![c].offset = s.offset,
                                  ![c].rows = Applied(@, s, ReadMessages(me.handle, me.offset))]
      /\ UNCHANGED <<vars, external, slot, stored, stream, job, history>>

\* An offset the shape has not reached is a client error; the client gives up.
OffsetOutOfRange(c) ==
  LET me == client[c]
  IN  /\ me.pc = "live"
      /\ Active(me.handle)
      /\ After(me.offset, byHandle[me.handle].offset)
      /\ client' = [client EXCEPT ![c] = [Nobody EXCEPT !.pc = "rejected"]]
      /\ UNCHANGED <<vars, external, slot, stored, stream, job, history>>

\* The shape is gone: mustRefetch registers the definition without its rows and
\* tells the client to start over; a failed write is a 503, and the client asks again.
mustRefetch(c) ==
  LET x == client[c].handle.hash
  IN  /\ client[c].pc = "live"
      /\ ~Active(client[c].handle)
      /\ UpsertSnapshotAtOffset(x, NoRows, InitialOffset)
      /\ \/ /\ faults' = faults
            /\ client' = [client EXCEPT ![c] = Nobody]
            /\ Registered(byHash'[x])
         \/ /\ faults' # faults
            /\ UNCHANGED <<client, registered>>
      /\ UNCHANGED <<external, slot, stored, stream, job, begun>>

deleteShape(h) ==
  /\ Delete(h)
  /\ UNCHANGED <<external, slot, stored, stream, job, client, history>>

\* The process ends and is started again; clients survive it, unless their
\* request was being served.
Restart ==
  /\ loadPersisted
  /\ job' = NoJob
  /\ stream' = Down
  /\ slot' = IF Durable THEN slot ELSE 0
  /\ client' = [c \in Client |-> IF client[c].pc = "snapshot" THEN Nobody ELSE client[c]]
  /\ checkpoint' = IF Durable THEN checkpoint ELSE 0
  /\ UNCHANGED <<external, incompatible, history>>

-----------------------------------------------------------------------------
LiveInit ==
  /\ Init
  /\ db \in Rows
  /\ wal = <<>>
  /\ slot = 0
  /\ checkpoint = 0
  /\ incompatible = FALSE
  /\ stream = Down
  /\ job = NoJob
  /\ client = [c \in Client |-> Nobody]
  /\ begun = 0
  /\ registered = [h \in Handle |-> MaxCommits]

Replication ==
  \/ InvalidateForSlot \/ CreateSlot \/ ResumeSlot \/ SaveStart
  \/ ReceiveCommit \/ candidateShapes \/ snapshotChangedKeys
  \/ \E h \in Handle : RefreshShape(h)
  \/ RelationDone \/ SaveCheckpoint \/ ConfirmCommit

LiveNext ==
  \/ \E touched \in SUBSET Key : Commit(touched)
  \/ SlotLost
  \/ Failover
  \/ Replication
  \/ StandbyStatus
  \/ ApplyKeepalive
  \/ handleReplicationError
  \/ \E c \in Client :
       \/ Snapshot(c)
       \/ \E x \in Hash : serveInitialSnapshot(c, x)
       \/ serveContinuation(c)
       \/ OffsetOutOfRange(c)
       \/ mustRefetch(c)
  \/ \E h \in Handle : deleteShape(h)
  \/ Restart

LiveSpec == LiveInit /\ [][LiveNext]_liveVars

\* The supervisor retries every two seconds, and the loop and the apply goroutine
\* run whenever they can.
FairLiveSpec == LiveSpec /\ WF_liveVars(Replication)

-----------------------------------------------------------------------------
(***************************************************************************)
(* Properties.                                                             *)
(***************************************************************************)
Position == 0 .. MaxCommits + 1

StreamState == [up : BOOLEAN, invalidated : BOOLEAN, next : Position, confirmed : Position,
                start : Position]

JobState == [pc : {"idle", "relations", "shapes", "refresh", "confirm"},
             lsn : 0 .. MaxCommits, parts : SUBSET Nat, todo : SUBSET Handle, rows : Rows]

ClientState == [pc : {"idle", "snapshot", "live", "rejected"},
                handle : Handle \cup {NoHandle}, offset : Offset, rows : Rows]

LiveTypeOK ==
  /\ TypeOK
  /\ db \in Rows
  /\ wal \in Seq(SUBSET Key)
  /\ slot \in Position
  /\ checkpoint \in Position
  /\ incompatible \in BOOLEAN
  /\ stream \in StreamState
  /\ job \in JobState
  /\ client \in [Client -> ClientState]
  /\ begun \in 0 .. MaxCommits
  /\ registered \in [Handle -> 0 .. MaxCommits]

\* The last commit that touched a key, 0 if none did.
LastTouch(k) ==
  IF \A i \in DOMAIN wal : k \notin wal[i] THEN 0
  ELSE CHOOSE i \in DOMAIN wal : k \in wal[i] /\ \A j \in DOMAIN wal : j > i => k \notin wal[j]

\* The commits a shape owes its clients: those that were received after it was
\* registered.
Owes(h, k) == Active(h) /\ LastTouch(k) > registered[h]

\* A commit that Postgres will not send again, because the slot confirmed it or
\* the checkpoint is past it, has reached every shape that owes it, in memory and
\* in the store: handleLogicalMessage confirms only what applyChangeBatch saved.
AppliedBeforeConfirmed ==
  \A h \in Handle, k \in Key :
    Owes(h, k) /\ LastTouch(k) < Later(slot, checkpoint) =>
      /\ byHandle[h].materialized[k] = db[k]
      /\ store[h] = Tombstone \/ store[h].materialized[k] = db[k]

\* Whatever failed and was retried, in the end every shape has every row it owes.
ShapesConverge ==
  <>[](\A h \in Handle, k \in Key : Owes(h, k) => byHandle[h].materialized[k] = db[k])

\* A client that is at the current offset of its shape has the rows of the shape:
\* "when postgres-sync-go cannot prove a live Shape update is correct, it prefers
\* invalidation and must-refetch over stale results" (README.md).
ClientCaughtUp ==
  \A c \in Client :
    LET me == client[c]
    IN  me.pc = "live" /\ Active(me.handle) /\ me.offset = byHandle[me.handle].offset
          => me.rows = byHandle[me.handle].materialized

\* When every commit has been applied, every shape a client follows has the rows of
\* the database.
FollowedShapesCaughtUp ==
  stream.up /\ job.pc = "idle" /\ stream.next > Len(wal) =>
    \A c \in Client : client[c].pc = "live" /\ Active(client[c].handle) =>
      byHandle[client[c].handle].materialized = db

-----------------------------------------------------------------------------
(***************************************************************************)
(* The inductive invariants: LiveBase for either store, and LiveInv for    *)
(* the disk store.  Every position from which Postgres may be asked to go  *)
(* on is at most one past begun, so a shape that is registered now owes    *)
(* nothing before any of them.  While there is no checkpoint, or after an  *)
(* invalidation, no shape owes anything.                                   *)
(***************************************************************************)
LiveBase ==
  /\ ManagerInv /\ LiveTypeOK
  /\ Len(wal) <= MaxCommits
  /\ stream.up => stream.next > 0
  /\ job.pc # "idle" => stream.up /\ job.lsn \in DOMAIN wal
  /\ \A c \in Client : client[c].pc = "live" => client[c].handle \in Handle

\* A shape has the row of a key, if it owes it.
UpToDate(h, k) == Owes(h, k) => byHandle[h].materialized[k] = db[k]

\* The commits before a position have reached the shapes.
Reached(position) ==
  \A h \in Handle, k \in Key : LastTouch(k) < position => UpToDate(h, k)

\* So has the commit that is being applied, for one shape and key.
HasCurrent(h, k) == LastTouch(k) = job.lsn => UpToDate(h, k)

\* A commit is begun after it is written, and of the commits of a key one is the last.
WalInv ==
  /\ begun <= Len(wal)
  /\ \A k \in Key :
       \/ \A i \in DOMAIN wal : k \notin wal[i]
       \/ \E i \in DOMAIN wal : k \in wal[i] /\ \A j \in DOMAIN wal : j > i => k \notin wal[j]

\* The positions against what was received, and against where the connection is.
PositionInv ==
  /\ slot <= begun + 1 /\ checkpoint <= begun + 1
  /\ stream.next <= begun + 1 /\ stream.start <= begun + 1 /\ stream.confirmed <= begun + 1
  /\ IF stream.up
     THEN /\ slot <= stream.next /\ checkpoint <= stream.next
          /\ stream.start <= stream.next /\ stream.confirmed <= stream.next
     ELSE stream.next = 0
  /\ stream.invalidated => ~stream.up /\ stream.start = 0 /\ (incompatible \/ slot = 0)

\* Without a checkpoint, and once all is invalidated, no shape is owed a commit.
OwesNothing ==
  checkpoint = 0 \/ stream.invalidated =>
    \A h \in Handle : Active(h) => registered[h] = MaxCommits

\* What is recorded, looked up and left to do of the commit that is being applied.
JobInv ==
  /\ job.pc # "idle" =>
       /\ job.lsn = stream.next /\ job.lsn <= begun
       /\ \A h \in Handle, k \in Key : PartitionOf[k] \notin job.parts => HasCurrent(h, k)
  /\ job.pc \in {"shapes", "refresh"} =>
       \A h \in Handle \ job.todo, k \in Key : k \in CurrentKeys => HasCurrent(h, k)
  /\ job.pc = "refresh" => \A k \in Key : LastTouch(k) <= job.lsn => job.rows[k] = db[k]
  /\ job.pc = "confirm" => job.parts = {}

LiveInv ==
  /\ LiveBase
  /\ WalInv /\ PositionInv /\ OwesNothing /\ JobInv
  /\ Reached(slot) /\ Reached(checkpoint) /\ Reached(stream.start) /\ Reached(stream.next)

=============================================================================
