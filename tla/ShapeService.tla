---------------------------- MODULE ShapeService ----------------------------
(***************************************************************************)
(* protocol.Service (internal/protocol/service.go) and its admission       *)
(* controller (admission.go), over the shapes of ShapeManager.             *)
(*                                                                         *)
(* Each waiter of ShapeManager is a client here.  It has at most one       *)
(* request at a time, served by one goroutine of the HTTP server: initial  *)
(* snapshots, offset=now, reads of the log (plain, long poll or SSE        *)
(* stream), subset snapshots and deletions.  A request takes a slot of its *)
(* admission kind, calls the manager and the database, and gives the slot  *)
(* back when it returns.  A step of a request is what it does between two  *)
(* acquisitions of the manager's mutex.                                    *)
(*                                                                         *)
(* The database returns any rows or an error: what it returns between the  *)
(* query and the registration of its result is the subject of LiveSync.    *)
(* Requests that fail authorization, parsing or validation, or are refused *)
(* a slot, leave no trace, and neither does the choice between a body and  *)
(* a 304.  A client adopts what it is sent: it is the reader for which the *)
(* log is kept, and is external to the program.                            *)
(***************************************************************************)
EXTENDS ShapeManager

CONSTANTS
  Follower,            \* the clients that keep what they get and read on from it
  Limit,               \* MaxConcurrentRequests: the slots of each kind
  AllowShapeDeletion   \* the configuration flag

Kind == {"initial", "existing"}

ASSUME ServiceAssumption ==
  /\ Limit \in [Kind -> Nat]
  /\ AllowShapeDeletion \in BOOLEAN
  /\ Follower \subseteq Waiter
  /\ IsFiniteSet(Waiter)

VARIABLES
  req,      \* the request each client has in service
  slots,    \* the slots taken, of each kind
  client    \* what each client holds of a shape

service == <<req, slots, client>>
svars   == <<vars, req, slots, client>>

\* The program counter of a request says which call it makes next.
NoRequest == [pc |-> "idle", hash |-> NoHandle, handle |-> NoHandle,
              offset |-> InvalidOffset, live |-> "no", kind |-> "none", gone |-> FALSE]

\* The shape a client follows: its rows and the offset it reads on from.  "same"
\* is history: the shape has not been reset since the client got its rows.  After
\* that its rows are not recorded: they promise nothing.
NoShape == [handle |-> NoHandle, offset |-> InvalidOffset, rows |-> NoRows, same |-> FALSE]

Holding(h, o, rows) == [handle |-> h, offset |-> o, rows |-> rows, same |-> TRUE]

Zero == [k \in Kind |-> 0]

-----------------------------------------------------------------------------
(***************************************************************************)
(* Requests come and go.                                                   *)
(***************************************************************************)
\* The requests a client can make that pass validation: to read a log it needs
\* the handle and offset it was given, and only such a request can be live.
Requests(q) ==
  LET me == client[q]
      to(pc, handles, offsets, live) ==
        [pc : {pc}, hash : Hash, handle : handles, offset : offsets, live : live,
         kind : {"none"}, gone : {FALSE}]
  IN  to("snapshot", {NoHandle}, {InitialOffset}, {"no"})
      \cup to("now", {NoHandle}, {NowOffset}, {"no"})
      \cup to("read", {me.handle} \ {NoHandle}, {me.offset}, {"no", "poll", "sse"})
      \cup to("subset", {NoHandle, me.handle}, {InvalidOffset}, {"no"})
      \cup (IF AllowShapeDeletion
            THEN to("delete", {NoHandle, me.handle}, {InvalidOffset}, {"no"}) ELSE {})

\* Subset snapshots and deletions are not counted.  The two lookups of the code
\* are one here: each only changes which of the two pools is charged.
admissionKind(r) ==
  IF r.pc \in {"subset", "delete"} THEN "none"
  ELSE IF r.handle # NoHandle /\ Active(r.handle) /\ r.handle.hash = r.hash THEN "existing"
  ELSE IF byHash[r.hash] # NoHandle THEN "existing"
  ELSE "initial"

Acquired(kind) == IF kind = "none" THEN slots ELSE [slots EXCEPT ![kind] = @ + 1]

\* Mutant: the slot is released by the handler and by the deferred call.
ReleasedTwice(kind) == IF kind = "none" THEN slots ELSE [slots EXCEPT ![kind] = @ - 2]

Released(kind) == IF kind = "none" THEN slots ELSE [slots EXCEPT ![kind] = @ - 1]

\* A request that finds no free slot is told so (503) and is not served.
HandleShape(q) ==
  /\ req[q].pc = "idle"
  /\ \E r \in Requests(q) :
       LET kind == admissionKind(r)
       IN  /\ kind \in Kind => slots[kind] < Limit[kind]
           /\ slots' = Acquired(kind)
           /\ req' = [req EXCEPT ![q] = [r EXCEPT !.kind = kind]]
  /\ UNCHANGED <<vars, client>>

\* The client of a live request closes the connection.
ClientGone(q) ==
  /\ req[q].pc \in {"poll", "stream"}
  /\ ~req[q].gone
  /\ req' = [req EXCEPT ![q].gone = TRUE]
  /\ UNCHANGED <<vars, slots, client>>

Goto(q, pc) ==
  /\ req' = [req EXCEPT ![q].pc = pc]
  /\ UNCHANGED slots

\* Mutant: a long poll that runs into its deadline keeps its slot.
LeaveKeepingSlot(q) ==
  /\ req' = [req EXCEPT ![q] = NoRequest]
  /\ slots' = IF req[q].pc = "expired" THEN slots ELSE Released(req[q].kind)

\* HandleShape returns: the deferred release receives from the channel.
Leave(q) ==
  /\ req' = [req EXCEPT ![q] = NoRequest]
  /\ slots' = Released(req[q].kind)

-----------------------------------------------------------------------------
(***************************************************************************)
(* What clients are sent.                                                  *)
(***************************************************************************)
\* The answer reaches the client or is lost on the way.
Receives(q, state) ==
  \/ client' = client
  \/ q \in Follower /\ ~req[q].gone /\ client' = [client EXCEPT ![q] = state]

\* The clients that follow a shape which is reset.
Outdated(h) ==
  [p \in Waiter |-> IF client[p].handle # h THEN client[p]
                    ELSE [client[p] EXCEPT !.same = FALSE, !.rows = NoRows]]

ReceivesAfterReset(q, h, state) ==
  \/ client' = Outdated(h)
  \/ q \in Follower /\ ~req[q].gone /\ client' = [Outdated(h) EXCEPT ![q] = state]

\* The rows of a client after the messages a read returned.
Applied(rows, h, o) ==
  LET log == byHandle[h].changes
      new == ReadMessages(h, o)
  IN  [k \in Key |->
         LET mine == {i \in new : log[i].key = k}
         IN  IF mine = {} THEN rows[k]
             ELSE log[CHOOSE i \in mine : \A j \in mine : j <= i].row]

\* The messages after the offset of the request, and the shape's offset.
Delivered(q) ==
  LET h == req[q].handle
  IN  [client[q] EXCEPT !.rows = IF client[q].same THEN Applied(@, h, req[q].offset) ELSE @,
                        !.offset = byHandle[h].offset]

Delivers(q) == Receives(q, Delivered(q))

\* A stream sends the messages and goes on from the shape's offset.  If the client
\* does not get them its connection is broken.
Streams(q) ==
  LET next == [req[q] EXCEPT !.pc = "stream", !.offset = byHandle[req[q].handle].offset]
  IN  /\ \/ /\ q \in Follower /\ ~req[q].gone
            /\ req' = [req EXCEPT ![q] = next]
            /\ client' = [client EXCEPT ![q] = Delivered(q)]
         \/ /\ req' = [req EXCEPT ![q] = [next EXCEPT !.gone = TRUE]]
            /\ UNCHANGED client
      /\ UNCHANGED slots

\* The write of the state succeeded.
Saved == faults' = faults

-----------------------------------------------------------------------------
(***************************************************************************)
(* Snapshots.                                                              *)
(***************************************************************************)
\* serveInitialSnapshot, and serveNow once it has found no shape: the rows of the
\* query are registered at the offset of the request.
serveInitialSnapshot(q) ==
  LET x == req[q].hash
  IN  /\ req[q].pc = "snapshot"
      /\ Leave(q)
      /\ \/ UNCHANGED <<vars, client>>
         \/ \E rows \in Rows :
              /\ UpsertSnapshotAtOffset(x, rows, req[q].offset)
              /\ IF Saved
                 THEN ReceivesAfterReset(q, byHash'[x], Holding(byHash'[x], req[q].offset, rows))
                 ELSE UNCHANGED client

\* A client that starts at offset=now on a known shape is sent no rows.  It is
\* taken to know the rows of that moment, to ask whether it gets every change
\* from then on.
serveNow(q) ==
  LET h == byHash[req[q].hash]
  IN  /\ req[q].pc = "now"
      /\ \/ /\ h = NoHandle
            /\ Goto(q, "snapshot")
            /\ UNCHANGED client
         \/ /\ h # NoHandle
            /\ Leave(q)
            /\ Receives(q, Holding(h, byHandle[h].offset, byHandle[h].materialized))
      /\ UNCHANGED vars

\* Mutant: the index is not asked which handle the definition has now.
mustRefetchInPlace(q) ==
  LET h == req[q].handle
  IN  /\ req[q].pc = "refetch"
      /\ Leave(q)
      /\ byHandle' = [byHandle EXCEPT ![h] = FreshState(NoRows, InitialOffset)]
      /\ byHash' = [byHash EXCEPT ![req[q].hash] = h]
      /\ UNCHANGED <<byRelation, waiters, disk, clock, wait, faults, client>>

\* The query validates the definition and returns no rows, and what it returns
\* is registered.  The client starts over.
mustRefetch(q) ==
  LET x == req[q].hash
  IN  /\ req[q].pc = "refetch"
      /\ Leave(q)
      /\ \/ UNCHANGED <<vars, client>>
         \/ /\ UpsertSnapshotAtOffset(x, NoRows, InitialOffset)
            /\ IF Saved THEN ReceivesAfterReset(q, byHash'[x], NoShape) ELSE UNCHANGED client

\* serveSubsetSnapshot: the shape the handle or the definition names, or a new
\* one.  The rows of the subset itself are queried but not kept.
resolveSubsetShape(q) ==
  LET h == req[q].handle
      x == req[q].hash
  IN  /\ req[q].pc = "subset"
      /\ \/ /\ h # NoHandle /\ ~(Active(h) /\ h.hash = x)
            /\ Goto(q, "refetch")
         \/ /\ \/ h # NoHandle /\ Active(h) /\ h.hash = x
               \/ h = NoHandle /\ byHash[x] # NoHandle
            /\ Leave(q)
         \/ /\ h = NoHandle /\ byHash[x] = NoHandle
            /\ Goto(q, "subsetSnapshot")
      /\ UNCHANGED <<vars, client>>

subsetSnapshot(q) ==
  LET x == req[q].hash
  IN  /\ req[q].pc = "subsetSnapshot"
      /\ Leave(q)
      /\ \/ UNCHANGED <<vars, client>>
         \/ \E rows \in Rows :
              /\ UpsertSnapshotAtOffset(x, rows, InitialOffset)
              /\ IF Saved
                 THEN client' = Outdated(byHash'[x])
                 ELSE UNCHANGED client

\* A deletion by definition looks the handle up first.
deleteShape(q) ==
  LET h == req[q].handle
      x == req[q].hash
  IN  /\ req[q].pc = "delete"
      /\ \/ /\ h = NoHandle /\ byHash[x] # NoHandle
            /\ req' = [req EXCEPT ![q].handle = byHash[x]]
            /\ UNCHANGED <<vars, slots>>
         \/ /\ h = NoHandle /\ byHash[x] = NoHandle
            /\ Leave(q) /\ UNCHANGED vars
         \/ /\ h # NoHandle /\ byHandle[h].status = "absent"
            /\ Leave(q) /\ UNCHANGED vars
         \/ /\ h # NoHandle /\ Delete(h)
            /\ Leave(q)
      /\ UNCHANGED client

-----------------------------------------------------------------------------
(***************************************************************************)
(* Reading the log.                                                        *)
(***************************************************************************)
serveContinuation(q) ==
  LET h    == req[q].handle
      o    == req[q].offset
      news == ReadMessages(h, o)
  IN  /\ req[q].pc = "read"
      /\ \/ /\ ~Active(h)
            /\ Goto(q, "refetch") /\ UNCHANGED client
         \/ /\ Active(h) /\ ReadFails(h, o)
            /\ Leave(q) /\ UNCHANGED client
         \/ /\ ~ReadFails(h, o) /\ h.hash # req[q].hash
            /\ Goto(q, "refetch") /\ UNCHANGED client
         \/ /\ ~ReadFails(h, o) /\ h.hash = req[q].hash
            /\ \/ /\ req[q].live = "sse" /\ news = {}
                  /\ Goto(q, "stream") /\ UNCHANGED client
               \/ /\ req[q].live = "sse" /\ news # {}
                  /\ Streams(q)
               \/ /\ req[q].live = "poll" /\ news = {}
                  /\ Goto(q, "poll") /\ UNCHANGED client
               \/ /\ \/ req[q].live = "no"
                     \/ req[q].live = "poll" /\ news # {}
                  /\ Delivers(q) /\ Leave(q)
      /\ UNCHANGED vars

\* What a request does with the result of WaitForChange.  A long poll answers; a
\* stream goes on from the messages, and ends if its shape is gone.
Returned(q) ==
  LET h    == req[q].handle
      o    == req[q].offset
      news == ReadMessages(h, o)
  IN  \/ /\ req[q].pc = "poll" /\ ~Active(h)
         /\ Goto(q, "refetch") /\ UNCHANGED client
      \/ /\ req[q].pc = "poll" /\ Active(h) /\ ReadFails(h, o)
         /\ Leave(q) /\ UNCHANGED client
      \/ /\ req[q].pc = "poll" /\ ~ReadFails(h, o)
         /\ Delivers(q) /\ Leave(q)
      \/ /\ req[q].pc = "stream" /\ ReadFails(h, o)
         /\ Receives(q, NoShape) /\ Leave(q)
      \/ /\ req[q].pc = "stream" /\ ~ReadFails(h, o) /\ news = {}
         /\ UNCHANGED service
      \/ /\ req[q].pc = "stream" /\ ~ReadFails(h, o) /\ news # {}
         /\ Streams(q)

\* The first read of WaitForChange.
WaitForChange(q) ==
  /\ req[q].pc \in {"poll", "stream"}
  /\ wait[q].pc = "idle"
  /\ \/ WaitRead(q, req[q].handle, req[q].offset) /\ UNCHANGED service
     \/ ~Quiet(req[q].handle, req[q].offset) /\ Returned(q) /\ UNCHANGED vars

\* The second read, under the lock that registers the request.
WaitForChangeLocked(q) ==
  /\ WaitRegister(q)
  /\ IF wait'[q].pc = "idle" THEN Returned(q) ELSE UNCHANGED service

WaitForChangeWoken(q) == WaitWoken(q) /\ Returned(q)

\* Mutant: a long poll has no deadline.
WaitForChangeDoneStream(q) ==
  /\ req[q].pc = "stream" \/ req[q].gone
  /\ WaitCancel(q)
  /\ UNCHANGED service

\* The deadline of the long poll or the keep-alive interval of the stream passes,
\* or the client is gone.
WaitForChangeDone(q) == WaitCancel(q) /\ UNCHANGED service

\* Mutant: a stream does not notice that its client is gone.
WaitForChangeCancelledBlind(q) ==
  /\ RemoveWaiter(q)
  /\ \/ req[q].pc = "poll" /\ Goto(q, "expired")
     \/ req[q].pc = "stream" /\ UNCHANGED <<req, slots>>
  /\ UNCHANGED client

\* A stream writes a keep-alive and waits again.
WaitForChangeCancelled(q) ==
  /\ RemoveWaiter(q)
  /\ \/ req[q].gone /\ Leave(q)
     \/ ~req[q].gone /\ req[q].pc = "poll" /\ Goto(q, "expired")
     \/ ~req[q].gone /\ req[q].pc = "stream" /\ UNCHANGED <<req, slots>>
  /\ UNCHANGED client

\* Mutant: a long poll that times out answers up to date without reading again.
pollExpiredUnread(q) ==
  /\ req[q].pc = "expired"
  /\ Leave(q)
  /\ Receives(q, [client[q] EXCEPT !.offset = byHandle[req[q].handle].offset])
  /\ UNCHANGED vars

\* The long poll reads once more: the answer may have come with the deadline.  A
\* shape that is gone by now is a 503.
pollExpired(q) ==
  /\ req[q].pc = "expired"
  /\ Leave(q)
  /\ IF ReadFails(req[q].handle, req[q].offset) THEN UNCHANGED client ELSE Delivers(q)
  /\ UNCHANGED vars

-----------------------------------------------------------------------------
(***************************************************************************)
(* The rest of the program: replication and restarts.                      *)
(***************************************************************************)
\* Commits reach a shape in LSN order.
Replicate ==
  /\ \/ \E h \in Handle, rows \in Rows, lsn \in CommitLSNs :
          /\ lsn > byHandle[h].offset.lsn
          /\ \/ RefreshKeysWithMetadata(h, Key, rows, lsn)
             \/ RefreshWithMetadata(h, rows, TRUE, lsn)
     \/ \E r \in Relation : InvalidateByRelation(r) \/ InvalidateByRelationFails(r)
  /\ UNCHANGED service

Restart ==
  /\ loadPersisted
  /\ req' = [q \in Waiter |-> NoRequest]
  /\ slots' = Zero
  /\ UNCHANGED client

ServiceInit ==
  /\ Init
  /\ req = [q \in Waiter |-> NoRequest]
  /\ slots = Zero
  /\ client = [q \in Waiter |-> NoShape]

\* A step of the goroutine that serves a request.
Serve(q) ==
  \/ serveInitialSnapshot(q)
  \/ serveNow(q)
  \/ mustRefetch(q)
  \/ resolveSubsetShape(q)
  \/ subsetSnapshot(q)
  \/ deleteShape(q)
  \/ serveContinuation(q)
  \/ WaitForChange(q)
  \/ WaitForChangeLocked(q)
  \/ WaitForChangeWoken(q)
  \/ WaitForChangeDone(q)
  \/ WaitForChangeCancelled(q)
  \/ pollExpired(q)

ServiceNext ==
  \/ \E q \in Waiter : HandleShape(q) \/ ClientGone(q) \/ Serve(q)
  \/ Replicate
  \/ Restart

ServiceSpec == ServiceInit /\ [][ServiceNext]_svars

\* A goroutine that can take a step is eventually scheduled, and the timer of a
\* wait eventually fires.  Nothing is assumed of clients, replication or faults.
FairServiceSpec == ServiceSpec /\ \A q \in Waiter : WF_svars(Serve(q))

-----------------------------------------------------------------------------
(***************************************************************************)
(* Properties.                                                             *)
(***************************************************************************)
RequestState ==
  [pc     : {"idle", "snapshot", "now", "refetch", "subset", "subsetSnapshot", "delete",
             "read", "poll", "stream", "expired"},
   hash   : Hash \cup {NoHandle},
   handle : Handle \cup {NoHandle},
   offset : Offset,
   live   : {"no", "poll", "sse"},
   kind   : Kind \cup {"none"},
   gone   : BOOLEAN]

ClientState == [handle : Handle \cup {NoHandle}, offset : Offset, rows : Rows, same : BOOLEAN]

\* The types of the variables, and a request is inside WaitForChange only while
\* its handler waits there.
ServiceTypeOK ==
  /\ TypeOK
  /\ req \in [Waiter -> RequestState]
  /\ slots \in [Kind -> Nat]
  /\ client \in [Waiter -> ClientState]
  /\ \A q \in Waiter : wait[q].pc # "idle" => req[q].pc \in {"poll", "stream"}

InService(k) == {q \in Waiter : req[q].kind = k}

\* Every slot that is taken belongs to one request in service, and no pool is
\* overdrawn: whichever way a request ends (an error, a deadline, a lost client, a
\* deleted shape), acquire's release runs exactly once.
SlotsBalanced ==
  \A k \in Kind : slots[k] = Cardinality(InService(k)) /\ slots[k] <= Limit[k]

\* A client whose shape was not reset since it got its rows can always go on: the
\* service accepts its offset, and the messages after that offset turn its rows
\* into the rows replication compares with.  This is for every mix of plain reads,
\* long polls and streams, lost connections and restarts.
FollowerOnTrack ==
  \A q \in Waiter :
    LET me == client[q]
    IN  me.same /\ Active(me.handle) =>
          /\ ~ReadFails(me.handle, me.offset)
          /\ Applied(me.rows, me.handle, me.offset) = byHandle[me.handle].materialized

\* A client that is sent away with must-refetch (409) is not sent back to the
\* handle it came with: that handle is never again the handle of its definition.
RefetchRotates ==
  [][\A q \in Waiter :
       req[q].pc = "refetch" /\ req'[q].pc = "idle" /\ req[q].handle # NoHandle
         => byHash'[req[q].hash] # req[q].handle]_svars

\* Every request but a stream is answered, and so gives its slot back.
RequestAnswered ==
  \A q \in Waiter : (req[q].pc \notin {"idle", "stream"}) ~> (req[q].pc \in {"idle", "stream"})

\* A stream ends if its shape is deleted or its client is gone.
StreamEnds ==
  \A q \in Waiter :
    (req[q].pc = "stream" /\ (req[q].gone \/ ~Active(req[q].handle))) ~> (req[q].pc # "stream")

-----------------------------------------------------------------------------
(***************************************************************************)
(* The inductive invariant.                                                *)
(***************************************************************************)
\* The handler of a request that reads a log was given a handle, a snapshot is
\* asked for at one of two offsets, and a request is sent away only from a handle
\* that is spent or belongs to another definition.
RequestInv(q) ==
  /\ req[q].pc = "idle" => req[q].kind = "none"
  /\ req[q].pc # "idle" => req[q].hash \in Hash
  /\ req[q].pc = "snapshot" => req[q].offset \in {InitialOffset, NowOffset}
  /\ req[q].pc = "now" => req[q].offset = NowOffset
  /\ req[q].pc \in {"read", "poll", "stream", "expired"} => req[q].handle \in Handle
  /\ req[q].handle # NoHandle => req[q].handle.stamp <= clock
  /\ req[q].pc = "refetch" /\ req[q].handle # NoHandle
       => ~Active(req[q].handle) \/ req[q].handle.hash # req[q].hash
  /\ wait[q].pc # "idle" => req[q].pc \in {"poll", "stream"}

\* The handle a client keeps was given out.
ClientInv ==
  /\ client \in [Waiter -> ClientState]
  /\ \A q \in Waiter : client[q].handle # NoHandle => client[q].handle.stamp <= clock

ServiceInv ==
  /\ ManagerInv
  /\ req \in [Waiter -> RequestState]
  /\ slots \in [Kind -> Nat]
  /\ SlotsBalanced
  /\ \A q \in Waiter : RequestInv(q)
  /\ ClientInv

=============================================================================
