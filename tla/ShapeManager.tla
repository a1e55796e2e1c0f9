---------------------------- MODULE ShapeManager ----------------------------
(***************************************************************************)
(* shapes.Manager (internal/shapes/manager.go): the registry of shapes.    *)
(*                                                                         *)
(* A shape is created for a canonical definition (a hash) and is known to  *)
(* clients by a handle.  The manager keeps the shapes by handle, an index  *)
(* from hash to the handle new clients are given, an index from relation   *)
(* to the handles that replication has to refresh, and the requests that   *)
(* wait for a shape to change.  Every operation runs under one mutex, so   *)
(* it is one action here, except WaitForChange, which releases the mutex   *)
(* between its steps.  Every operation writes the shape to the store       *)
(* before it changes memory; the write may fail, and the process may be    *)
(* restarted from the store between any two operations.                    *)
(*                                                                         *)
(* Abstractions.  A row is a value or NoRow; whether a message says        *)
(* insert, update or delete follows from the row before and after it.  The *)
(* contents of a tombstone are dropped: nothing reads them.  Schema,       *)
(* LastAccess and Generation are not kept: no operation branches on them.  *)
(* A handle is a hash and the microsecond it was created in; the clock is  *)
(* taken to advance between two creations.                                 *)
(***************************************************************************)
EXTENDS Offsets, Sequences, FiniteSets

CONSTANTS
  Hash,         \* canonical definitions
  Dependent,    \* the definitions whose WHERE clause has a subquery
  Relation,     \* tables
  RelationOf,   \* the table each definition selects from
  Key,          \* primary keys, in their sort order
  Row,          \* row contents
  NoRow,        \* no row with this key
  NoHandle,     \* no handle
  Waiter,       \* requests inside WaitForChange
  Durable,      \* TRUE for the disk store, FALSE for the memory store
  CommitLSNs,   \* the commit LSNs of refreshes
  MaxStamp,     \* bound: shapes created
  MaxLog,       \* bound: messages in one log
  MaxFaults,    \* bound: failed writes and restarts
  WaitOffsets   \* the offsets requests wait from

ASSUME ManagerAssumption ==
  /\ Dependent \subseteq Hash
  /\ RelationOf \in [Hash -> Relation]
  /\ Key \subseteq Nat \ {0} /\ IsFiniteSet(Key)
  /\ NoRow \notin Row
  /\ CommitLSNs \subseteq Nat
  /\ MaxStamp \in Nat
  /\ Durable \in BOOLEAN
  /\ WaitOffsets \subseteq Offset

Handle == [hash : Hash, stamp : 1 .. MaxStamp]

ASSUME NoHandleAssumption == NoHandle \notin Handle

Rows   == [Key -> Row \cup {NoRow}]
NoRows == [k \in Key |-> NoRow]

\* A message of the log: the row its key has from then on.  Key 0 is the
\* snapshot-end control message that closes a move-in.
Message == [key : Key \cup {0}, row : Row \cup {NoRow}, offset : Offset]

ShapeState == [status       : {"absent", "active", "deleted"},
               snapshot     : Rows,
               changes      : Seq(Message),
               materialized : Rows,
               offset       : Offset]

Absent == [status |-> "absent", snapshot |-> NoRows, changes |-> <<>>,
           materialized |-> NoRows, offset |-> InvalidOffset]

Tombstone == [Absent EXCEPT !.status = "deleted"]

VARIABLES
  byHandle,     \* Manager.byHandle
  byHash,       \* Manager.byHash
  byRelation,   \* Manager.byRelation
  waiters,      \* Manager.waiters: the requests registered for a handle
  store,        \* the shapes in the store
  damaged,      \* stored shapes whose chunk files were lost by a failed write
  clock,        \* the microsecond clock, counted in shapes created
  wait,         \* the state of each request inside WaitForChange
  faults        \* failed writes and restarts so far

registry == <<byHandle, byHash, byRelation>>
disk     == <<store, damaged>>
vars     == <<byHandle, byHash, byRelation, waiters, store, damaged, clock, wait, faults>>

Idle == [pc |-> "idle", handle |-> NoHandle, offset |-> InvalidOffset]

Active(h) == byHandle[h].status = "active"

-----------------------------------------------------------------------------
(***************************************************************************)
(* The store.  A write replaces the stored shape.  If it fails the stored  *)
(* shape is the old one, but a write that had to drop messages (a reset or *)
(* a deletion) may already have removed the chunk files of the old log; it *)
(* then cannot be loaded until a write drops messages again.               *)
(***************************************************************************)
DropsMessages(h, new) == Len(new.changes) < Len(store[h].changes)

SaveShape(h, new) ==
  /\ store' = [store EXCEPT ![h] = new]
  /\ damaged' = IF DropsMessages(h, new) THEN damaged \ {h} ELSE damaged
  /\ UNCHANGED faults

SaveShapeFails(h, new) ==
  /\ Durable
  /\ faults < MaxFaults
  /\ faults' = faults + 1
  /\ UNCHANGED store
  /\ \/ UNCHANGED damaged
     \/ DropsMessages(h, new) /\ damaged' = damaged \cup {h}

\* Writing the tombstones of a set of handles.
SaveTombstones(H) ==
  /\ store' = [h \in Handle |-> IF h \in H THEN Tombstone ELSE store[h]]
  /\ damaged' = damaged \ H
  /\ UNCHANGED faults

\* Of the rest, the one whose write fails may lose its chunk files.
SaveTombstonesFails(H, rest) ==
  /\ Durable
  /\ faults < MaxFaults
  /\ faults' = faults + 1
  /\ store' = [h \in Handle |-> IF h \in H THEN Tombstone ELSE store[h]]
  /\ \/ damaged' = damaged \ H
     \/ \E h \in rest : DropsMessages(h, Tombstone) /\ damaged' = (damaged \ H) \cup {h}

\* notifyLocked for every handle of a set: the channels of the requests that
\* wait for them are closed and forgotten.
Notify(H) == waiters' = [h \in Handle |-> IF h \in H THEN {} ELSE waiters[h]]

AddRelation(h)    == [byRelation EXCEPT ![RelationOf[h.hash]] = @ \cup {h}]
RemoveRelation(h) == [byRelation EXCEPT ![RelationOf[h.hash]] = @ \ {h}]


-----------------------------------------------------------------------------
(***************************************************************************)
(* Creating, resetting and reading shapes.                                 *)
(***************************************************************************)
\* Mutant: the materialized rows are left nil.
FreshStateNil(rows, offset) ==
  [status |-> "active", snapshot |-> rows, changes |-> <<>>,
   materialized |-> NoRow, offset |-> offset]

FreshState(rows, offset) ==
  [status |-> "active", snapshot |-> rows, changes |-> <<>>,
   materialized |-> rows, offset |-> offset]

\* A shape for a hash the index does not know.
CreateShape(x, state) ==
  LET h == [hash |-> x, stamp |-> clock + 1]
  IN  /\ byHash[x] = NoHandle
      /\ clock < MaxStamp
      /\ \/ /\ SaveShape(h, state)
            /\ byHandle' = [byHandle EXCEPT ![h] = state]
            /\ byHash' = [byHash EXCEPT ![x] = h]
            /\ byRelation' = AddRelation(h)
            /\ clock' = clock + 1
         \/ SaveShapeFails(h, state) /\ UNCHANGED <<registry, clock>>
      /\ UNCHANGED <<waiters, wait>>

\* The index knows the hash: the shape keeps its handle and everything else
\* starts over.
ResetShape(x, state) ==
  LET h == byHash[x]
  IN  /\ h # NoHandle
      /\ \/ /\ SaveShape(h, state)
            /\ byHandle' = [byHandle EXCEPT ![h] = state]
            /\ byRelation' = AddRelation(h)
            /\ Notify({h})
         \/ SaveShapeFails(h, state) /\ UNCHANGED <<byHandle, byRelation, waiters>>
      /\ UNCHANGED <<byHash, clock, wait>>

UpsertSnapshotAtOffset(x, rows, offset) ==
  \/ CreateShape(x, FreshState(rows, offset))
  \/ ResetShape(x, FreshState(rows, offset))

\* readLocked: an error, or the messages after an offset, here by their places
\* in the log.
ReadFails(h, o) ==
  \/ ~Active(h)
  \/ o.rank = RankInvalid
  \/ After(o, byHandle[h].offset)

\* Mutant: the positions within the commits are compared alone.
ReadMessagesByPos(h, o) ==
  {i \in DOMAIN byHandle[h].changes : byHandle[h].changes[i].offset.pos > o.pos}

ReadMessages(h, o) ==
  IF CompareOffsets(o, byHandle[h].offset) = 0 THEN {}
  ELSE {i \in DOMAIN byHandle[h].changes : After(byHandle[h].changes[i].offset, o)}

\* Nothing to return to a request that waits.
Quiet(h, o) == ~ReadFails(h, o) /\ ReadMessages(h, o) = {}

-----------------------------------------------------------------------------
(***************************************************************************)
(* Changing shapes.                                                        *)
(***************************************************************************)
\* The keys of a set in sort order, as the only member of a set.  Keys are numbers
\* from 1, so a set has no more of them than its largest.
Sorted(S) ==
  UNION {{s \in [1 .. n -> S] : /\ \A i, j \in 1 .. n : i < j => s[i] < s[j]
                                /\ \A k \in S : \E i \in 1 .. n : s[i] = k} :
         n \in {0} \cup UNION {1 .. k : k \in S}}

\* applyChangeOffsets: the offset of the message at an index of a batch.
BatchOffset(current, lsn, index) ==
  IF lsn > 0 THEN LSNOffset(lsn, index) ELSE NextGeneratedOffset(current, index)

\* diffRows (and decorateDependentRefreshMessages, which may close the batch with
\* a control message): one message for each changed key, in key order.
DiffMessages(ks, rows, control, current, lsn) ==
  [i \in 1 .. Len(ks) + (IF control THEN 1 ELSE 0) |->
     [key    |-> IF i <= Len(ks) THEN ks[i] ELSE 0,
      row    |-> IF i <= Len(ks) THEN rows[ks[i]] ELSE NoRow,
      offset |-> BatchOffset(current, lsn, i - 1)]]

\* Mutant: the materialized rows are not updated.
ExtendedLogOnly(s, rows, msgs) ==
  [s EXCEPT !.changes = s.changes \o msgs,
            !.offset = IF msgs = <<>> THEN s.offset ELSE msgs[Len(msgs)].offset]

\* The shape after the messages of a batch.
Extended(s, rows, msgs) ==
  [s EXCEPT !.materialized = rows,
            !.changes = s.changes \o msgs,
            !.offset = IF msgs = <<>> THEN s.offset ELSE msgs[Len(msgs)].offset]

\* Mutant: memory is changed before the write and not changed back.
ReplaceMemoryFirst(h, new, news) ==
  /\ SaveShape(h, new) \/ SaveShapeFails(h, new)
  /\ byHandle' = [byHandle EXCEPT ![h] = new]
  /\ IF news THEN Notify({h}) ELSE UNCHANGED waiters
  /\ UNCHANGED <<byHash, byRelation, clock, wait>>

\* Replaces an active shape, waking its waiters if it has news.
Replace(h, new, news) ==
  /\ \/ /\ SaveShape(h, new)
        /\ byHandle' = [byHandle EXCEPT ![h] = new]
        /\ IF news THEN Notify({h}) ELSE UNCHANGED waiters
     \/ SaveShapeFails(h, new) /\ UNCHANGED <<byHandle, waiters>>
  /\ UNCHANGED <<byHash, byRelation, clock, wait>>

\* A known definition is only written again, with a new LastAccess; that undoes
\* a tombstone which a failed invalidation left in the store.
LookupOrCreateDefinition(x) ==
  \/ CreateShape(x, FreshState(NoRows, InitialOffset))
  \/ byHash[x] # NoHandle /\ Replace(byHash[x], byHandle[byHash[x]], FALSE)

\* The current rows of the keys a transaction touched.
RefreshKeysWithMetadata(h, targeted, current, lsn) ==
  LET s       == byHandle[h]
      rows    == [k \in Key |-> IF k \in targeted THEN current[k] ELSE s.materialized[k]]
      changed == {k \in targeted : s.materialized[k] # current[k]}
  IN  /\ Active(h)
      /\ targeted # {}
      /\ \E ks \in Sorted(changed) :
           LET msgs == DiffMessages(ks, rows, FALSE, s.offset, lsn)
           IN  /\ Len(s.changes) + Len(msgs) <= MaxLog
               /\ Replace(h, Extended(s, rows, msgs), msgs # <<>>)

\* The current rows of the whole shape, because a table of its subquery changed
\* (related) or its own table did.  Rows that a related table brought in end with
\* a control message.
RefreshWithMetadata(h, rows, related, lsn) ==
  LET s       == byHandle[h]
      changed == {k \in Key : s.materialized[k] # rows[k]}
      moveIn  == /\ related
                 /\ h.hash \in Dependent
                 /\ \E k \in changed : s.materialized[k] = NoRow
  IN  /\ Active(h)
      /\ \E ks \in Sorted(changed) :
           LET msgs == DiffMessages(ks, rows, moveIn, s.offset, lsn)
           IN  /\ Len(s.changes) + Len(msgs) <= MaxLog
               /\ Replace(h, Extended(s, rows, msgs), msgs # <<>>)

\* Append of one message without an offset.
AppendMessage(h, k, row) ==
  LET s    == byHandle[h]
      msgs == <<[key |-> k, row |-> row, offset |-> NextGeneratedOffset(s.offset, 0)]>>
  IN  /\ Active(h)
      /\ Len(s.changes) < MaxLog
      /\ Replace(h, Extended(s, [s.materialized EXCEPT ![k] = row], msgs), TRUE)

-----------------------------------------------------------------------------
(***************************************************************************)
(* Deleting shapes.  A deletion by handle also accepts a handle that is    *)
(* already deleted.                                                        *)
(***************************************************************************)
\* Mutant: the tombstone is not written.
DeleteUnsaved(h) ==
  /\ byHandle[h].status # "absent"
  /\ byHandle' = [byHandle EXCEPT ![h] = Tombstone]
  /\ byHash' = [byHash EXCEPT ![h.hash] = NoHandle]
  /\ byRelation' = RemoveRelation(h)
  /\ Notify({h})
  /\ UNCHANGED <<disk, faults, clock, wait>>

Delete(h) ==
  /\ byHandle[h].status # "absent"
  /\ \/ /\ SaveShape(h, Tombstone)
        /\ byHandle' = [byHandle EXCEPT ![h] = Tombstone]
        /\ byHash' = [byHash EXCEPT ![h.hash] = NoHandle]
        /\ byRelation' = RemoveRelation(h)
        /\ Notify({h})
     \/ SaveShapeFails(h, Tombstone) /\ UNCHANGED <<registry, waiters>>
  /\ UNCHANGED <<clock, wait>>

Buried(H) == [h \in Handle |-> IF h \in H THEN Tombstone ELSE byHandle[h]]

\* Mutant: the hash index keeps the deleted handles.
UnindexedNothing(H) == byHash

Unindexed(H) == [x \in Hash |-> IF \E h \in H : h.hash = x THEN NoHandle ELSE byHash[x]]

ActiveByRelation(r) == {h \in byRelation[r] : Active(h)}

\* Every tombstone is written before memory changes.
InvalidateByRelation(r) ==
  LET H == ActiveByRelation(r)
  IN  /\ byRelation[r] # {}
      /\ SaveTombstones(H)
      /\ byHandle' = Buried(H)
      /\ byHash' = Unindexed(H)
      /\ byRelation' = [byRelation EXCEPT ![r] = {}]
      /\ Notify(H)
      /\ UNCHANGED <<clock, wait>>

\* A write fails after some tombstones were written: memory keeps them all.
\* The handles come in sort order, which is arbitrary across definitions.
InvalidateByRelationFails(r) ==
  \E H \in SUBSET ActiveByRelation(r) :
    /\ H # ActiveByRelation(r)
    /\ SaveTombstonesFails(H, ActiveByRelation(r) \ H)
    /\ UNCHANGED <<registry, waiters, clock, wait>>

\* Here memory follows each write, so a failed write leaves a part of the active
\* shapes invalidated.
InvalidateAll ==
  LET all == {h \in Handle : Active(h)}
  IN  \E H \in SUBSET all :
        /\ \/ H = all /\ SaveTombstones(H)
           \/ H # all /\ SaveTombstonesFails(H, all \ H)
        /\ byHandle' = Buried(H)
        /\ byHash' = Unindexed(H)
        /\ byRelation' = [r \in Relation |-> byRelation[r] \ H]
        /\ Notify(H)
        /\ UNCHANGED <<clock, wait>>

-----------------------------------------------------------------------------
(***************************************************************************)
(* WaitForChange.  Requests that find news or an error return without a    *)
(* trace.                                                                  *)
(***************************************************************************)
WaitRead(w, h, o) ==
  /\ wait[w].pc = "idle"
  /\ Quiet(h, o)
  /\ wait' = [wait EXCEPT ![w] = [pc |-> "unregistered", handle |-> h, offset |-> o]]
  /\ UNCHANGED <<registry, waiters, disk, clock, faults>>

\* Mutant: the log is not read again under the lock.
WaitRegisterUnread(w) ==
  /\ wait[w].pc = "unregistered"
  /\ waiters' = [waiters EXCEPT ![wait[w].handle] = @ \cup {w}]
  /\ wait' = [wait EXCEPT ![w].pc = "registered"]
  /\ UNCHANGED <<registry, disk, clock, faults>>

WaitRegister(w) ==
  LET h == wait[w].handle
  IN  /\ wait[w].pc = "unregistered"
      /\ \/ /\ Quiet(h, wait[w].offset)
            /\ waiters' = [waiters EXCEPT ![h] = @ \cup {w}]
            /\ wait' = [wait EXCEPT ![w].pc = "registered"]
         \/ /\ ~Quiet(h, wait[w].offset)
            /\ wait' = [wait EXCEPT ![w] = Idle]
            /\ UNCHANGED waiters
      /\ UNCHANGED <<registry, disk, clock, faults>>

\* The channel was closed: read again and return.
WaitWoken(w) ==
  /\ wait[w].pc = "registered"
  /\ w \notin waiters[wait[w].handle]
  /\ wait' = [wait EXCEPT ![w] = Idle]
  /\ UNCHANGED <<registry, waiters, disk, clock, faults>>

\* The context is done; select may choose this even if the channel is closed.
WaitCancel(w) ==
  /\ wait[w].pc = "registered"
  /\ wait' = [wait EXCEPT ![w].pc = "cancelled"]
  /\ UNCHANGED <<registry, waiters, disk, clock, faults>>

RemoveWaiter(w) ==
  /\ wait[w].pc = "cancelled"
  /\ waiters' = [waiters EXCEPT ![wait[w].handle] = @ \ {w}]
  /\ wait' = [wait EXCEPT ![w] = Idle]
  /\ UNCHANGED <<registry, disk, clock, faults>>

-----------------------------------------------------------------------------
(***************************************************************************)
(* A restart: NewManager and loadPersisted on what the store has.  A shape *)
(* that cannot be loaded becomes a tombstone, in the store too.  Of two    *)
(* active shapes of one definition the later handle is indexed.            *)
(***************************************************************************)
Loaded(h) ==
  IF ~Durable THEN Absent
  ELSE IF store[h].status = "active" /\ h \in damaged THEN Tombstone
  ELSE store[h]

IndexesNewest(index, states) ==
  \A x \in Hash :
    LET live == {h \in Handle : h.hash = x /\ states[h].status = "active"}
    IN  IF live = {} THEN index[x] = NoHandle
        ELSE index[x] \in live /\ \A h \in live : h.stamp <= index[x].stamp

loadPersisted ==
  /\ faults < MaxFaults
  /\ faults' = faults + 1
  /\ byHandle' = [h \in Handle |-> Loaded(h)]
  /\ store' = [h \in Handle |-> Loaded(h)]
  /\ damaged' = {}
  /\ \E index \in [Hash -> Handle \cup {NoHandle}] :
       /\ IndexesNewest(index, [h \in Handle |-> Loaded(h)])
       /\ byHash' = index
  /\ byRelation' = [r \in Relation |->
                      {h \in Handle : RelationOf[h.hash] = r /\ Loaded(h).status = "active"}]
  /\ waiters' = [h \in Handle |-> {}]
  /\ wait' = [w \in Waiter |-> Idle]
  /\ UNCHANGED clock

-----------------------------------------------------------------------------
Init ==
  /\ byHandle = [h \in Handle |-> Absent]
  /\ byHash = [x \in Hash |-> NoHandle]
  /\ byRelation = [r \in Relation |-> {}]
  /\ waiters = [h \in Handle |-> {}]
  /\ store = [h \in Handle |-> Absent]
  /\ damaged = {}
  /\ clock = 0
  /\ wait = [w \in Waiter |-> Idle]
  /\ faults = 0

\* The commits that reach a shape come in LSN order, but one commit may reach it
\* more than once.
CommitOrder(h, lsn) == lsn = 0 \/ lsn >= byHandle[h].offset.lsn

Next ==
  \/ \E x \in Hash, rows \in Rows, offset \in {InitialOffset, NowOffset} :
       UpsertSnapshotAtOffset(x, rows, offset)
  \/ \E x \in Hash : LookupOrCreateDefinition(x)
  \/ \E h \in Handle, rows \in Rows, lsn \in CommitLSNs :
       /\ CommitOrder(h, lsn)
       /\ \/ \E targeted \in SUBSET Key : RefreshKeysWithMetadata(h, targeted, rows, lsn)
          \/ \E related \in BOOLEAN : RefreshWithMetadata(h, rows, related, lsn)
  \/ \E h \in Handle, k \in Key, row \in Row \cup {NoRow} : AppendMessage(h, k, row)
  \/ \E h \in Handle : Delete(h)
  \/ \E r \in Relation : InvalidateByRelation(r) \/ InvalidateByRelationFails(r)
  \/ InvalidateAll
  \/ \E w \in Waiter :
       \/ \E h \in Handle, o \in WaitOffsets : WaitRead(w, h, o)
       \/ WaitRegister(w)
       \/ WaitWoken(w)
       \/ WaitCancel(w)
       \/ RemoveWaiter(w)
  \/ loadPersisted

Spec == Init /\ [][Next]_vars

-----------------------------------------------------------------------------
(***************************************************************************)
(* Properties.                                                             *)
(***************************************************************************)
WaitState == [pc     : {"idle", "unregistered", "registered", "cancelled"},
              handle : Handle \cup {NoHandle},
              offset : Offset]

TypeOK ==
  /\ byHandle \in [Handle -> ShapeState]
  /\ byHash \in [Hash -> Handle \cup {NoHandle}]
  /\ byRelation \in [Relation -> SUBSET Handle]
  /\ waiters \in [Handle -> SUBSET Waiter]
  /\ store \in [Handle -> ShapeState]
  /\ damaged \in SUBSET Handle
  /\ clock \in 0 .. MaxStamp
  /\ wait \in [Waiter -> WaitState]
  /\ faults \in Nat

\* The hash index only hands out active shapes of its definition, and the
\* relation index holds exactly the active shapes of each table.  Replication
\* finds the shapes to refresh through the relation index (candidateShapes), so
\* an active shape missing there would never be refreshed again.
IndexesConsistent ==
  /\ \A x \in Hash : byHash[x] # NoHandle =>
       byHash[x].hash = x /\ Active(byHash[x])
  /\ \A r \in Relation, h \in Handle :
       h \in byRelation[r] <=> Active(h) /\ RelationOf[h.hash] = r

\* The store holds what memory holds, except that an invalidation that failed
\* half way may have buried an active shape in the store.  So a restart loses no
\* message of a log it brings back, and brings back nothing that was deleted.
StoreAgrees ==
  /\ \A h \in Handle : \/ store[h] = byHandle[h]
                       \/ store[h] = Tombstone /\ Active(h)
  /\ \A h \in damaged : store[h].status = "active"

\* A deleted handle never serves again, restarts included: a client that was told
\* must-refetch for a handle cannot find it alive with another log.
NoResurrection ==
  [][\A h \in Handle : byHandle[h].status = "deleted" => byHandle'[h].status # "active"]_vars

\* The place of the last message for a key, if there is one.
LastWrite(s, k, i) ==
  /\ i \in DOMAIN s.changes
  /\ s.changes[i].key = k
  /\ \A j \in DOMAIN s.changes : j > i => s.changes[j].key # k

\* A client that has the snapshot of a shape and its whole log has the rows that
\* the next diff is computed against: no change reaches Materialized without a
\* message, and no message without the change.
LogComplete ==
  \A h \in Handle : Active(h) =>
    LET s == byHandle[h]
    IN  \A k \in Key :
          \/ /\ \A i \in DOMAIN s.changes : s.changes[i].key # k
             /\ s.materialized[k] = s.snapshot[k]
          \/ \E i \in DOMAIN s.changes :
               LastWrite(s, k, i) /\ s.materialized[k] = s.changes[i].row

\* A registered request has nothing to return: whatever gives it news, or takes
\* its shape away, also closes its channel.  And the registry holds no request
\* that has gone.
NoLostWakeup ==
  \A h \in Handle : \A w \in waiters[h] :
    /\ wait[w].pc \in {"registered", "cancelled"}
    /\ wait[w].handle = h
    /\ Quiet(h, wait[w].offset)

\* "Identical definitions map to the same Shape handle" (README.md): at most one
\* handle of a definition is alive.
OneHandlePerDefinition ==
  \A g, h \in Handle : Active(g) /\ Active(h) /\ g.hash = h.hash => g = h

-----------------------------------------------------------------------------
(***************************************************************************)
(* The inductive invariant.  A shape that is not active is empty, a handle *)
(* that the clock has not reached is unused, and a shape whose chunk files *)
(* were lost still has messages in its metadata: so every write that would *)
(* replace its log drops messages, which repairs it.                       *)
(***************************************************************************)
DiskInv == \A h \in damaged : store[h].status = "active" /\ Len(store[h].changes) > 0

SlotInv ==
  \A h \in Handle :
    /\ byHandle[h].status = "absent" => byHandle[h] = Absent
    /\ byHandle[h].status = "deleted" => byHandle[h] = Tombstone
    /\ h.stamp > clock => byHandle[h] = Absent

ManagerInv == TypeOK /\ IndexesConsistent /\ StoreAgrees /\ SlotInv /\ DiskInv

=============================================================================
