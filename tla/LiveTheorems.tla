---------------------------- MODULE LiveTheorems ----------------------------
(***************************************************************************)
(* Live synchronisation, for any definitions on one table, keys, rows,     *)
(* clients, commits and faults.  Its steps are steps of the manager or     *)
(* leave the registry and the store alone, so what ShapeManagerProofs      *)
(* proves of the operations holds here too.                                *)
(***************************************************************************)
EXTENDS LiveSyncProofs, ShapeManagerProofs

\* What a step of live synchronisation does to the manager.  The refreshes need not
\* come in LSN order here, because a commit may be sent again.
LiveManagerStep ==
  \/ [Next]_vars
  \/ \E h \in Handle, targeted \in SUBSET Key, rows \in Rows, lsn \in Nat :
       RefreshKeysWithMetadata(h, targeted, rows, lsn)
  \/ UNCHANGED <<registry, waiters, disk, clock, wait>> /\ faults' = faults + 1

\* Every step is such a step.
LEMMA LiveNext_Manager ==
  ASSUME LiveBase, [LiveNext]_liveVars
  PROVE  LiveManagerStep
<1>1. CASE UNCHANGED vars
  BY <1>1 DEF LiveManagerStep
<1>2. CASE SlotLost \/ Failover \/ handleReplicationError
  BY <1>2 DEF LiveManagerStep, SlotLost, Failover, handleReplicationError
<1>3. CASE InvalidateForSlot
  BY <1>3 DEF LiveManagerStep, InvalidateForSlot, Next
<1>4. ASSUME NEW h \in Handle, RefreshShape(h)
      PROVE  LiveManagerStep
  <2>1. CurrentKeys \in SUBSET Key /\ job.rows \in Rows /\ job.lsn \in Nat
    BY <1>4, CurrentKeysType DEF RefreshShape, LiveBase, LiveTypeOK, JobState
  <2>2. QED
    BY <1>1, <1>4, <2>1, ZenonT(60) DEF LiveManagerStep, RefreshShape
<1>5. ASSUME NEW c \in Client, NEW x \in Hash, serveInitialSnapshot(c, x)
      PROVE  LiveManagerStep
  <2>1. client[c].rows \in Rows
    BY Zenon DEF LiveBase, LiveTypeOK, ClientState
  <2>2. QED
    BY <1>5, <2>1, Zenon DEF LiveManagerStep, serveInitialSnapshot, Next
<1>6. ASSUME NEW c \in Client, mustRefetch(c)
      PROVE  LiveManagerStep
  <2>1. client[c].handle.hash \in Hash
    BY <1>6 DEF mustRefetch, LiveBase, Handle
  <2>2. NoRows \in Rows
    BY DEF NoRows, Rows
  <2>3. QED
    BY <1>6, <2>1, <2>2, ZenonT(60) DEF LiveManagerStep, mustRefetch, Next
<1>7. ASSUME NEW h \in Handle, deleteShape(h)
      PROVE  LiveManagerStep
  BY <1>7, Zenon DEF LiveManagerStep, deleteShape, Next
<1>8. CASE Restart
  BY <1>8, Zenon DEF LiveManagerStep, Restart, Next
<1>9. CASE \/ CreateSlot \/ ResumeSlot \/ SaveStart
           \/ ReceiveCommit \/ candidateShapes \/ snapshotChangedKeys
           \/ RelationDone \/ SaveCheckpoint \/ ConfirmCommit \/ StandbyStatus \/ ApplyKeepalive
  BY <1>1, <1>9, Zenon DEF CreateSlot, ResumeSlot, SaveStart, ReceiveCommit, candidateShapes,
     snapshotChangedKeys, RelationDone, SaveCheckpoint, ConfirmCommit, StandbyStatus, ApplyKeepalive
<1>10. ASSUME NEW touched, Commit(touched)
       PROVE  LiveManagerStep
  BY <1>1, <1>10, Zenon DEF Commit
<1>11. ASSUME NEW c \in Client, Snapshot(c) \/ serveContinuation(c) \/ OffsetOutOfRange(c)
       PROVE  LiveManagerStep
  BY <1>1, <1>11 DEF Snapshot, serveContinuation, OffsetOutOfRange
<1>12. CASE UNCHANGED liveVars
  BY <1>1, <1>12, Zenon DEF liveVars
<1>13. QED
  BY <1>2, <1>3, <1>4, <1>5, <1>6, <1>7, <1>8, <1>9, <1>10, <1>11, <1>12, ZenonT(60) DEF LiveNext, Replication

\* Such a step keeps the invariant of the manager.
LEMMA LiveManager_Inv ==
  ASSUME ManagerInv, LiveManagerStep
  PROVE  ManagerInv'
<1>1. CASE UNCHANGED <<registry, waiters, disk, clock, wait>> /\ faults' = faults + 1
  <2>1. TypeOK'
    BY <1>1 DEF registry, disk, ManagerInv, TypeOK
  <2>2. IndexesConsistent' /\ StoreAgrees' /\ SlotInv' /\ DiskInv'
    BY <1>1, ZenonT(60) DEF registry, disk, ManagerInv, IndexesConsistent, StoreAgrees, SlotInv, DiskInv, Active
  <2>3. QED
    BY <2>1, <2>2, Zenon DEF ManagerInv
<1>2. QED
  BY <1>1, Next_Inv, RefreshKeysStep, Zenon DEF LiveManagerStep

\* Such a step keeps the logs complete.
LEMMA LiveManager_Log ==
  ASSUME ManagerInv, LogInv, LiveManagerStep
  PROVE  LogInv'
<1>1. CASE UNCHANGED <<registry, waiters, disk, clock, wait>> /\ faults' = faults + 1
  BY <1>1, FewerShapesStep, Zenon DEF registry
<1>2. QED
  BY <1>1, Next_Log, RefreshKeysLog, Zenon DEF LiveManagerStep

\* Such a step brings no handle back.
LEMMA LiveManager_StaysDead ==
  ASSUME ManagerInv, LiveManagerStep
  PROVE  StaysDead
<1>1. CASE UNCHANGED byHandle
  BY <1>1 DEF StaysDead
<1>2. ASSUME NEW h \in Handle, NEW targeted, NEW rows, NEW lsn,
             RefreshKeysWithMetadata(h, targeted, rows, lsn)
      PROVE  StaysDead
  <2>1. byHandle[h].status # "deleted"
    BY <1>2, Zenon DEF RefreshKeysWithMetadata, Active
  <2>2. PICK new : byHandle' = byHandle \/ byHandle' = [byHandle EXCEPT ![h] = new]
    BY <1>2, Zenon DEF RefreshKeysWithMetadata, Replace
  <2>3. QED
    BY <2>1, <2>2, ReplaceKeepsDead, Zenon
<1>3. QED
  BY <1>1, <1>2, Next_StaysDead, Zenon DEF LiveManagerStep, vars, registry

-----------------------------------------------------------------------------
(***************************************************************************)
(* Types.                                                                  *)
(***************************************************************************)
\* A transaction commits.
LEMMA CommitTypes ==
  ASSUME LinkTypes, NEW touched \in SUBSET Key, Commit(touched)
  PROVE  LinkTypes'
<1>1. PICK new \in [touched -> Row \cup {NoRow}] :
        db' = [k \in Key |-> IF k \in touched THEN new[k] ELSE db[k]]
  BY DEF Commit
<1>2. db' \in Rows
  BY <1>1, Zenon DEF LinkTypes, Rows
<1>3. wal' \in Seq(SUBSET Key) /\ Len(wal') = Len(wal) + 1 /\ Len(wal') <= MaxCommits
  BY LiveAssumption DEF Commit, LinkTypes
<1>4. DOMAIN wal \subseteq DOMAIN wal'
  BY <1>3 DEF LinkTypes
<1>5. QED
  BY <1>2, <1>3, <1>4, Zenon DEF Commit, LinkTypes, stored, history

\* The connection is made, or fails.
LEMMA ConnectTypes ==
  ASSUME LinkTypes,
         \/ SlotLost \/ Failover \/ InvalidateForSlot \/ CreateSlot \/ ResumeSlot \/ SaveStart
         \/ handleReplicationError
  PROVE  LinkTypes'
<1> USE DEF external, stored, history
<1>0. /\ Len(wal) \in Nat /\ MaxCommits \in Nat /\ WalEnd \in Position /\ WalEnd > 0
      /\ WalEnd - 1 \in 0 .. MaxCommits /\ 0 \in Position
  BY LiveAssumption DEF LinkTypes, WalEnd, Position
<1>1. CASE SlotLost \/ Failover
  BY <1>0, <1>1, Zenon DEF SlotLost, Failover, LinkTypes
<1>2. CASE InvalidateForSlot
  <2>1. stream' \in StreamState /\ stream'.up = stream.up /\ stream'.next = stream.next
    BY <1>2, Zenon DEF InvalidateForSlot, LinkTypes, StreamState
  <2>2. QED
    BY <1>2, <2>1 DEF InvalidateForSlot, LinkTypes
<1>3. CASE CreateSlot
  BY <1>0, <1>3, StreamingType, Zenon DEF CreateSlot, LinkTypes
<1>4. CASE ResumeSlot
  <2> DEFINE start == IF checkpointCompatible THEN checkpoint ELSE WalEnd
  <2>1. /\ stream' = [Streaming(start) EXCEPT !.next = Later(start, slot)]
        /\ begun' = Later(begun, Later(start, slot) - 1)
        /\ start \in Position /\ slot \in Position \ {0}
    BY <1>0, <1>4, Zenon DEF ResumeSlot, LinkTypes
  <2> HIDE DEF start
  <2>2. Later(start, slot) \in Position \ {0}
    BY <1>0, <2>1 DEF Later, Position
  <2>3. begun' \in 0 .. MaxCommits
    BY <1>0, <2>1, <2>2 DEF Later, Position, LinkTypes
  <2>4. stream' \in StreamState /\ stream'.next = Later(start, slot)
    BY <2>1, <2>2, StreamingType, ZenonT(60) DEF StreamState
  <2>5. QED
    BY <1>0, <1>4, <2>2, <2>3, <2>4 DEF ResumeSlot, LinkTypes, Position
<1>5. CASE SaveStart
  BY <1>0, <1>5, Zenon DEF SaveStart, LinkTypes, StreamState
<1>6. CASE handleReplicationError
  BY <1>6, DropType, LiveStarts, Zenon DEF handleReplicationError, LinkTypes
<1>7. QED
  BY <1>1, <1>2, <1>3, <1>4, <1>5, <1>6, ZenonT(60)

\* The loop confirms, receives a commit and applies it.
LEMMA LoopTypes ==
  ASSUME ManagerInv, LinkTypes,
         \/ StandbyStatus \/ ApplyKeepalive \/ ReceiveCommit \/ candidateShapes
         \/ snapshotChangedKeys \/ (\E h \in Handle : RefreshShape(h)) \/ RelationDone
         \/ SaveCheckpoint \/ ConfirmCommit
  PROVE  LinkTypes'
<1> USE DEF external, stored, history
<1>0. /\ MaxCommits \in Nat
      /\ \A m, n \in Position : Later(m, n) \in Position /\ Later(m, n) \in {m, n}
      /\ \A m \in 0 .. MaxCommits : m \in Position /\ m + 1 \in Position /\ m + 1 > 0
  BY LiveAssumption DEF Position, Later
<1>1. /\ stream.next \in Position /\ stream.confirmed \in Position
      /\ job.lsn \in 0 .. MaxCommits /\ Len(wal) \in Nat /\ DOMAIN wal = 1 .. Len(wal)
  BY DEF LinkTypes, StreamState, JobState
<1>2. CASE StandbyStatus
  BY <1>0, <1>1, <1>2, Zenon DEF StandbyStatus, LinkTypes, StreamState
<1>3. CASE ApplyKeepalive
  BY <1>0, <1>1, <1>3, ZenonT(60) DEF ApplyKeepalive, LinkTypes
<1>4. CASE ReceiveCommit
  <2>1. stream.next \in 0 .. MaxCommits /\ stream.next \in DOMAIN wal /\ begun' \in 0 .. MaxCommits
    <3>1. /\ stream.next > 0 /\ stream.next <= Len(wal) /\ Len(wal) <= MaxCommits
          /\ begun \in 0 .. MaxCommits /\ begun' = Later(begun, stream.next)
      BY <1>4, ZenonT(60) DEF ReceiveCommit, LinkTypes
    <3>2. QED
      BY <1>0, <1>1, <3>1 DEF Position, Later
  <2>2. Recorded(stream.next) \in SUBSET Nat
    BY <2>1, LiveAssumption DEF Recorded, LinkTypes
  <2>3. job' \in JobState /\ job'.lsn = stream.next /\ job'.pc = "relations"
    BY <1>4, <2>1, <2>2, LiveStarts, Zenon DEF ReceiveCommit, JobState
  <2>4. QED
    BY <1>4, <2>1, <2>3, ZenonT(60) DEF ReceiveCommit, LinkTypes
<1>5. CASE candidateShapes
  <2>1. ActiveByRelation(Table) \in SUBSET Handle
    BY LiveAssumption, Zenon DEF ActiveByRelation, ManagerInv, TypeOK
  <2>2. QED
    BY <1>5, <2>1, Zenon DEF candidateShapes, LinkTypes, JobState
<1>6. CASE snapshotChangedKeys
  BY <1>6, Zenon DEF snapshotChangedKeys, LinkTypes, JobState
<1>7. ASSUME NEW h \in Handle, RefreshShape(h)
      PROVE  LinkTypes'
  <2>1. CASE Drop
    BY <1>7, <2>1, DropType, LiveStarts, ZenonT(60) DEF RefreshShape, LinkTypes
  <2>2. CASE job' = [job EXCEPT !.pc = "shapes", !.todo = @ \ {h}] /\ UNCHANGED <<slot, stream>>
    BY <1>7, <2>2, Zenon DEF RefreshShape, LinkTypes, JobState
  <2>3. QED
    BY <1>7, <2>1, <2>2, Zenon DEF RefreshShape
<1>8. CASE RelationDone
  BY <1>8, Zenon DEF RelationDone, LinkTypes, JobState
<1>9. CASE SaveCheckpoint
  BY <1>0, <1>1, <1>9, ZenonT(60) DEF SaveCheckpoint, LinkTypes, JobState
<1>10. CASE ConfirmCommit
  <2>1. job.lsn \in Position /\ job.lsn + 1 \in Position /\ job.lsn + 1 > 0
    BY <1>0, <1>1, Zenon
  <2>2. stream' \in StreamState /\ stream'.next = job.lsn + 1
    BY <1>0, <1>1, <1>10, <2>1, ZenonT(60) DEF ConfirmCommit, LinkTypes, StreamState
  <2>3. QED
    BY <1>0, <1>10, <2>1, <2>2, LiveStarts, ZenonT(60) DEF ConfirmCommit, LinkTypes
<1>11. QED
  BY <1>2, <1>3, <1>4, <1>5, <1>6, <1>7, <1>8, <1>9, <1>10, ZenonT(60)

\* A registration is recorded.
LEMMA RegisteredType ==
  ASSUME LinkTypes, ClientTypes, NEW h \in Handle, Registered(h)
  PROVE  registered' \in [Handle -> 0 .. MaxCommits]
BY LiveAssumption DEF Registered, LinkTypes, ClientTypes

\* The rows of a client after an answer.
LEMMA AppliedType ==
  ASSUME HasGreatest, NEW rows \in Rows, NEW s \in ShapeState, NEW I \in SUBSET DOMAIN s.changes
  PROVE  Applied(rows, s, I) \in Rows
<1>1. /\ s.changes \in Seq(Message) /\ Len(s.changes) \in Nat
      /\ DOMAIN s.changes = 1 .. Len(s.changes)
  BY DEF ShapeState
<1>2. ASSUME NEW k \in Key, NEW K, K = {i \in I : s.changes[i].key = k}
      PROVE  (IF K = {} THEN rows[k]
              ELSE s.changes[CHOOSE i \in K : \A j \in K : j <= i].row) \in Row \cup {NoRow}
  <2>1. CASE K = {}
    BY <2>1, Zenon DEF Rows
  <2>2. CASE K # {}
    <3>1. \E i \in K : \A j \in K : j <= i
      BY <1>1, <1>2, <2>2, Zenon DEF HasGreatest
    <3>2. PICK i \in K : i = CHOOSE m \in K : \A j \in K : j <= m
      BY <3>1, Zenon
    <3>3. s.changes[i] \in Message
      BY <1>1, <1>2
    <3>4. QED
      BY <2>2, <3>2, <3>3, Zenon DEF Message
  <2>3. QED
    BY <2>1, <2>2, Zenon
<1>3. QED
  BY <1>2, Zenon DEF Applied, Rows

\* What a client does changes neither the connection nor the database.
LEMMA ClientLink ==
  ASSUME LinkTypes, NEW c \in Client,
         \/ Snapshot(c) \/ (\E x \in Hash : serveInitialSnapshot(c, x)) \/ serveContinuation(c)
         \/ OffsetOutOfRange(c) \/ mustRefetch(c)
  PROVE  LinkTypes'
<1>1. UNCHANGED <<db, wal, slot, checkpoint, incompatible, stream, job, begun>>
  BY ZenonT(60) DEF Snapshot, serveInitialSnapshot, serveContinuation, OffsetOutOfRange, mustRefetch,
     external, stored, history
<1>2. QED
  BY <1>1 DEF LinkTypes

\* What a client does to its own state.
LEMMA ClientSteps ==
  ASSUME HasGreatest, ManagerInv, LinkTypes, ClientTypes, NEW c \in Client,
         \/ Snapshot(c) \/ (\E x \in Hash : serveInitialSnapshot(c, x)) \/ serveContinuation(c)
         \/ OffsetOutOfRange(c) \/ mustRefetch(c)
  PROVE  ClientTypes'
<1> USE DEF history
<1>0. client[c] \in ClientState /\ InitialOffset \in Offset
  BY LiveConstants DEF ClientTypes
<1>1. ASSUME NEW me \in ClientState, me.pc = "live" => me.handle \in Handle,
             client' = [client EXCEPT ![c] = me], registered' \in [Handle -> 0 .. MaxCommits]
      PROVE  ClientTypes'
  BY <1>1, Zenon DEF ClientTypes
<1>2. CASE Snapshot(c)
  <2>1. [Nobody EXCEPT !.pc = "snapshot", !.rows = db] \in ClientState
    BY LiveStarts, Zenon DEF ClientState, LinkTypes
  <2>2. QED
    BY <1>1, <1>2, <2>1 DEF Snapshot, ClientTypes
<1>3. ASSUME NEW x \in Hash, serveInitialSnapshot(c, x)
      PROVE  ClientTypes'
  <2>1. CASE faults' = faults
    <3>1. byHash'[x] \in Handle
      BY <1>3, <2>1, UpsertSaved, ZenonT(60) DEF serveInitialSnapshot
    <3>2. registered' \in [Handle -> 0 .. MaxCommits]
      BY <1>3, <2>1, <3>1, RegisteredType, ZenonT(60) DEF serveInitialSnapshot
    <3>3. PICK me : /\ me = [client[c] EXCEPT !.pc = "live", !.handle = byHash'[x],
                                              !.offset = InitialOffset]
                    /\ client' = [client EXCEPT ![c] = me]
      BY <1>3, <2>1, Zenon DEF serveInitialSnapshot
    <3>4. me \in ClientState /\ me.handle \in Handle
      BY <1>0, <3>1, <3>3, Zenon DEF ClientState
    <3>5. QED
      BY <1>1, <3>2, <3>3, <3>4, ZenonT(60)
  <2>2. CASE faults' # faults
    BY <1>1, <1>3, <2>2, LiveStarts, ZenonT(60) DEF serveInitialSnapshot, ClientTypes
  <2>3. QED
    BY <2>1, <2>2
<1>4. CASE serveContinuation(c)
  <2>1. PICK s \in ShapeState, rows \in Rows, I \in SUBSET Nat :
          /\ I \subseteq DOMAIN s.changes
          /\ client' = [client EXCEPT ![c].offset = s.offset, ![c].rows = Applied(@, s, I)]
          /\ rows = client[c].rows /\ client[c].handle \in Handle
    <3>1. client[c].handle \in Handle /\ client[c].rows \in Rows
      BY <1>0, <1>4, ZenonT(60) DEF serveContinuation, ClientTypes, ClientState
    <3>2. byHandle[client[c].handle] \in ShapeState
      BY <3>1, Zenon DEF ManagerInv, TypeOK
    <3>3. ReadMessages(client[c].handle, client[c].offset)
            \in SUBSET DOMAIN byHandle[client[c].handle].changes
      BY Zenon DEF ReadMessages
    <3>4. DOMAIN byHandle[client[c].handle].changes \subseteq Nat
      BY <3>2 DEF ShapeState
    <3>5. QED
      BY <1>4, <3>1, <3>2, <3>3, <3>4, ZenonT(60) DEF serveContinuation
  <2>2. Applied(rows, s, I) \in Rows /\ s.offset \in Offset
    BY <2>1, AppliedType, Zenon DEF ShapeState
  <2>3. PICK me : me = [client[c] EXCEPT !.offset = s.offset, !.rows = Applied(rows, s, I)]
    OBVIOUS
  <2>4. me \in ClientState /\ me.handle = client[c].handle
    BY <1>0, <2>2, <2>3, Zenon DEF ClientState
  <2>5. client' = [client EXCEPT ![c] = me]
    BY <1>0, <2>1, <2>3, ZenonT(60) DEF ClientState, ClientTypes
  <2>6. QED
    BY <1>1, <1>4, <2>1, <2>4, <2>5, ZenonT(60) DEF serveContinuation, ClientTypes
<1>5. CASE OffsetOutOfRange(c)
  <2>1. [Nobody EXCEPT !.pc = "rejected"] \in ClientState
    BY LiveStarts, Zenon DEF ClientState
  <2>2. [Nobody EXCEPT !.pc = "rejected"].pc # "live"
    BY LiveStarts DEF ClientState
  <2>3. QED
    BY <1>1, <1>5, <2>1, <2>2, ZenonT(60) DEF OffsetOutOfRange, ClientTypes
<1>6. CASE mustRefetch(c)
  <2>1. CASE faults' = faults
    <3>1. client[c].handle.hash \in Hash
      BY <1>6, Zenon DEF mustRefetch, ClientTypes, Handle
    <3>2. byHash'[client[c].handle.hash] \in Handle
      BY <1>6, <2>1, <3>1, UpsertSaved, Zenon DEF mustRefetch
    <3>3. registered' \in [Handle -> 0 .. MaxCommits]
      BY <1>6, <2>1, <3>2, RegisteredType, Zenon DEF mustRefetch
    <3>4. QED
      BY <1>1, <1>6, <2>1, <3>3, LiveStarts, ZenonT(60) DEF mustRefetch
  <2>2. CASE faults' # faults
    BY <1>6, <2>2, Zenon DEF mustRefetch, ClientTypes
  <2>3. QED
    BY <2>1, <2>2, Zenon
<1>7. QED
  BY <1>2, <1>3, <1>4, <1>5, <1>6, ZenonT(60)

\* The process starts again.
LEMMA RestartTypes ==
  ASSUME LinkTypes, ClientTypes, Restart
  PROVE  LinkTypes' /\ ClientTypes'
<1>1. 0 \in Position
  BY LiveAssumption DEF Position
<1>2. LinkTypes'
  BY <1>1, LiveStarts, Zenon DEF Restart, external, history, LinkTypes
<1>3. ASSUME NEW c \in Client
      PROVE  /\ client'[c] \in ClientState
             /\ client'[c].pc = "live" => client'[c].handle \in Handle
  BY LiveStarts, Zenon DEF Restart, ClientTypes
<1>4. client' = [c \in Client |-> client'[c]] /\ registered' = registered
  BY DEF Restart, history
<1>5. QED
  BY <1>2, <1>3, <1>4, Zenon DEF ClientTypes

\* Every step keeps the types.
LEMMA LiveNext_Base ==
  ASSUME HasGreatest, LiveBase, [LiveNext]_liveVars
  PROVE  LiveBase'
<1>1. ManagerInv /\ LinkTypes /\ ClientTypes
  BY LiveBaseParts
<1>2. ManagerInv'
  BY <1>1, LiveNext_Manager, LiveManager_Inv, ZenonT(60)
<1>3. CASE UNCHANGED liveVars
  <2>1. LinkTypes' /\ ClientTypes'
    BY <1>1, <1>3, Zenon DEF liveVars, LinkTypes, ClientTypes
  <2>2. QED
    BY <1>2, <2>1, ZenonT(60) DEF LiveBase, LiveTypeOK, LinkTypes, ClientTypes, ManagerInv
<1>4. CASE \/ \E touched \in SUBSET Key : Commit(touched)
           \/ SlotLost \/ Failover \/ Replication
           \/ StandbyStatus \/ ApplyKeepalive \/ handleReplicationError
  <2>1. LinkTypes'
    BY <1>1, <1>4, CommitTypes, ConnectTypes, LoopTypes, ZenonT(60) DEF Replication
  <2>2. UNCHANGED <<client, registered>>
    BY <1>4, ZenonT(60) DEF Commit, SlotLost, Failover, Replication, StandbyStatus, ApplyKeepalive,
       handleReplicationError, InvalidateForSlot, CreateSlot, ResumeSlot, SaveStart, ReceiveCommit,
       candidateShapes, snapshotChangedKeys, RefreshShape, RelationDone, SaveCheckpoint,
       ConfirmCommit, history
  <2>3. QED
    BY <1>1, <1>2, <2>1, <2>2, ZenonT(60) DEF LiveBase, LiveTypeOK, LinkTypes, ClientTypes, ManagerInv
<1>5. ASSUME NEW c \in Client,
             \/ Snapshot(c) \/ (\E x \in Hash : serveInitialSnapshot(c, x)) \/ serveContinuation(c)
             \/ OffsetOutOfRange(c) \/ mustRefetch(c)
      PROVE  LiveBase'
  <2>1. LinkTypes' /\ ClientTypes'
    BY <1>1, <1>5, ClientLink, ClientSteps, ZenonT(60)
  <2>2. QED
    BY <1>2, <2>1, ZenonT(60) DEF LiveBase, LiveTypeOK, LinkTypes, ClientTypes, ManagerInv
<1>6. ASSUME NEW h \in Handle, deleteShape(h)
      PROVE  LiveBase'
  <2>1. LinkTypes' /\ ClientTypes'
    BY <1>1, <1>6, ZenonT(60) DEF deleteShape, external, stored, history, LinkTypes, ClientTypes
  <2>2. QED
    BY <1>2, <2>1, ZenonT(60) DEF LiveBase, LiveTypeOK, LinkTypes, ClientTypes, ManagerInv
<1>7. CASE Restart
  <2>1. LinkTypes' /\ ClientTypes'
    BY <1>1, <1>7, RestartTypes, Zenon
  <2>2. QED
    BY <1>2, <2>1 DEF LiveBase, LiveTypeOK, LinkTypes, ClientTypes, ManagerInv
<1>8. QED
  BY <1>3, <1>4, <1>5, <1>6, <1>7, ZenonT(60) DEF LiveNext

\* Live synchronisation starts with no shape, no slot and no client.
LEMMA LiveInit_Base == LiveInit => LiveBase
<1> SUFFICES ASSUME LiveInit
             PROVE  LiveBase
  OBVIOUS
<1>1. ManagerInv
  BY Init_Inv DEF LiveInit
<1>2. LinkTypes
  <2>1. /\ 0 \in Position /\ 0 \in 0 .. MaxCommits
        /\ <<>> \in Seq(SUBSET Key) /\ Len(<<>>) <= MaxCommits
    BY LiveAssumption DEF Position
  <2>2. QED
    BY <2>1, LiveStarts, ZenonT(60) DEF LiveInit, LinkTypes
<1>3. ClientTypes
  BY LiveStarts, LiveAssumption DEF LiveInit, ClientTypes
<1>4. QED
  BY <1>1, <1>2, <1>3, LiveBaseParts, ZenonT(60)

-----------------------------------------------------------------------------
(***************************************************************************)
(* The theorems, and the fact about places in a log that the lemmas above  *)
(* assume.                                                                 *)
(***************************************************************************)
LOCAL INSTANCE WellFoundedInduction

\* Of some places in a log one is the last: the one with the least distance from the end.
LEMMA Greatest == HasGreatest
<1> SUFFICES ASSUME NEW n \in Nat, NEW S \in SUBSET (1 .. n), S # {}
             PROVE  \E i \in S : \A j \in S : j <= i
  BY Zenon DEF HasGreatest
<1> DEFINE T == {n - i : i \in S}
<1>1. T \subseteq Nat /\ T # {}
  <2>1. \A i \in S : n - i \in Nat
    OBVIOUS
  <2>2. QED
    BY <2>1, Zenon
<1>2. PICK d \in T : \A e \in T : <<e, d>> \notin OpToRel(<, Nat)
  <2> HIDE DEF T
  <2>1. QED
    BY <1>1, NatLessThanWellFounded, WFMin, ZenonT(60)
<1>3. \A e \in T : ~(e < d)
  BY <1>1, <1>2, ZenonT(60) DEF OpToRel
<1>4. PICK i \in S : d = n - i
  BY Zenon
<1>5. ASSUME NEW j \in S
      PROVE  j <= i
  <2>1. n - j \in T
    BY Zenon
  <2>2. ~(n - j < n - i)
    BY <1>3, <1>4, <2>1, ZenonT(60)
  <2>3. QED
    BY <2>2
<1>6. QED
  BY <1>5, Zenon

\* Every variable has its type, and every position is one that Postgres can have,
\* whatever is sent again, lost or restarted, with either store.
THEOREM LiveTypes == LiveSpec => []LiveTypeOK
<1>1. LiveBase => LiveTypeOK
  BY DEF LiveBase
<1>2. LiveBase /\ [LiveNext]_liveVars => LiveBase'
  BY Greatest, LiveNext_Base, ZenonT(60)
<1>3. QED
  BY LiveInit_Base, <1>1, <1>2, PTL DEF LiveSpec

\* A client that has the snapshot of a shape and its whole log has its rows, also when
\* replication sends commits again and refreshes come out of LSN order.
THEOREM LiveLogsComplete == LiveSpec => []LogComplete
<1>1. LiveInit => LogInv
  BY DEF LiveInit, Init, LogInv, Active, Absent
<1>2. LiveBase /\ LogInv /\ [LiveNext]_liveVars => LogInv'
  BY LiveNext_Manager, LiveManager_Log, ZenonT(60) DEF LiveBase
<1>3. LiveBase /\ [LiveNext]_liveVars => LiveBase'
  BY Greatest, LiveNext_Base
<1>4. QED
  BY LiveInit_Base, LogCompleteEquiv, <1>1, <1>2, <1>3, PTL DEF LiveSpec

\* Replication, however often it reconnects, leaves the indexes, the store and memory
\* in agreement.
THEOREM LiveKeepsManager == LiveSpec => [](IndexesConsistent /\ StoreAgrees)
<1>1. LiveBase => IndexesConsistent /\ StoreAgrees
  BY ZenonT(60) DEF LiveBase, ManagerInv
<1>2. LiveBase /\ [LiveNext]_liveVars => LiveBase'
  BY Greatest, LiveNext_Base
<1>3. QED
  BY LiveInit_Base, <1>1, <1>2, PTL DEF LiveSpec

\* A handle that was invalidated for a lost slot or deleted never becomes active again.
THEOREM LiveDeletesForGood == LiveSpec => NoResurrection
<1>1. LiveBase /\ [LiveNext]_liveVars
        => [\A h \in Handle : byHandle[h].status = "deleted"
                               => byHandle'[h].status # "active"]_vars
  BY LiveNext_Manager, LiveManager_StaysDead, ZenonT(60) DEF LiveBase, StaysDead
<1>2. LiveBase /\ [LiveNext]_liveVars => LiveBase'
  BY Greatest, LiveNext_Base
<1>3. QED
  BY LiveInit_Base, <1>1, <1>2, PTL DEF LiveSpec, NoResurrection

\* With the disk store, a commit that the slot or the checkpoint is past has reached
\* every shape that was registered before it was received, in memory and in the store:
\* whatever connections, queries and writes fail, whatever Postgres sends again, over
\* lost slots, failovers and restarts.
THEOREM ConfirmedIsApplied ==
  ASSUME Durable
  PROVE  LiveSpec => []AppliedBeforeConfirmed
<1>1. LiveInit => LiveInv
  BY LiveInit_Base, LiveInit_Inv, ZenonT(60)
<1>2. LiveInv /\ [LiveNext]_liveVars => LiveInv'
  BY Greatest, LiveNext_Base, LiveNext_Inv, ZenonT(60) DEF LiveInv
<1>3. QED
  BY <1>1, <1>2, LiveInvApplied, PTL DEF LiveSpec

=============================================================================
