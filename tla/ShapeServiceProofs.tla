------------------------- MODULE ShapeServiceProofs -------------------------
(***************************************************************************)
(* Every step of the service keeps ServiceInv, for any number of clients,  *)
(* slots, definitions and rows, and is a step of the manager or leaves the *)
(* manager alone.                                                          *)
(***************************************************************************)
EXTENDS ShapeService, ShapeNotions, TLAPS

(***************************************************************************)
(* What the lemmas below take from elsewhere.  ShapeManagerProofs proves   *)
(* what they take from the manager (ManagerNext_Inv, Next_Older), and      *)
(* ServerTheorems what they take from the theory of finite sets (Greatest, *)
(* WaitersCounted), and puts them together.                                *)
(***************************************************************************)
\* The clients can be counted, one more and one less.
CountsWaiters ==
  /\ Cardinality({}) = 0
  /\ \A S \in SUBSET Waiter :
       /\ Cardinality(S) \in Nat
       /\ \A q \in Waiter \ S : Cardinality(S \cup {q}) = Cardinality(S) + 1
       /\ \A q \in S : Cardinality(S \ {q}) = Cardinality(S) - 1

\* No handle comes back into use.
Onward == Older /\ CountsWaiters

ManagerKept == HasGreatest /\ ([ManagerNext]_vars => ManagerInv' /\ Onward)

\* The offsets a request may start from, and the shapes that are not active.
LEMMA ServiceConstants ==
  /\ InvalidOffset \in Offset /\ InitialOffset \in Offset /\ NowOffset \in Offset
  /\ Absent.status = "absent" /\ Len(Absent.changes) = 0
  /\ Tombstone.status = "deleted" /\ Len(Tombstone.changes) = 0
<1>1. InvalidOffset \in Offset /\ InitialOffset \in Offset /\ NowOffset \in Offset
  BY DEF Offset, InvalidOffset, InitialOffset, SequenceOffset, NowOffset,
     RankInvalid, RankSequence, RankNow
<1>2. QED
  BY <1>1 DEF Absent, Tombstone

\* A step of the manager keeps its invariant and takes no handle back into use.
LEMMA ManagerKeptStep ==
  ASSUME ManagerKept, [ManagerNext]_vars
  PROVE  ManagerInv' /\ Onward
BY DEF ManagerKept

\* A client's rows stay rows.
LEMMA AppliedType ==
  ASSUME HasGreatest, ManagerInv, NEW rows \in Rows, NEW h \in Handle, NEW o
  PROVE  Applied(rows, h, o) \in Rows
<1> DEFINE log == byHandle[h].changes
           new == ReadMessages(h, o)
           mine(k) == {i \in new : log[i].key = k}
<1>1. log \in Seq(Message) /\ Len(log) \in Nat /\ DOMAIN log = 1 .. Len(log)
  BY DEF ManagerInv, TypeOK, ShapeState
<1>2. new \in SUBSET (1 .. Len(log))
  BY <1>1, Zenon DEF ReadMessages
<1>3. ASSUME NEW k \in Key
      PROVE  (IF mine(k) = {} THEN rows[k]
              ELSE log[CHOOSE i \in mine(k) : \A j \in mine(k) : j <= i].row) \in Row \cup {NoRow}
  <2>1. CASE mine(k) = {}
    BY <2>1, ZenonT(60) DEF Rows
  <2>2. CASE mine(k) # {}
    <3> DEFINE i == CHOOSE i \in mine(k) : \A j \in mine(k) : j <= i
    <3>1. \E m \in mine(k) : \A j \in mine(k) : j <= m
      BY <1>1, <1>2, <2>2, Zenon DEF HasGreatest
    <3>2. i \in mine(k)
      BY <3>1, ZenonT(60)
    <3>3. i \in 1 .. Len(log)
      BY <1>2, <3>2
    <3> HIDE DEF i
    <3>4. log[i] \in Message
      BY <1>1, <3>3
    <3>5. log[i].row \in Row \cup {NoRow}
      BY <3>4 DEF Message
    <3>6. QED
      BY <2>2, <3>5 DEF i
  <2>3. QED
    BY <2>1, <2>2
<1>4. QED
  BY <1>3, ZenonT(60) DEF Applied, Rows

\* A request goes on: its kind and the slots stay.
LEMMA KeepStep ==
  ASSUME req \in [Waiter -> RequestState], slots \in [Kind -> Nat], SlotsBalanced,
         NEW q \in Waiter, NEW r \in RequestState, r.kind = req[q].kind,
         req' = [req EXCEPT ![q] = r], slots' = slots
  PROVE  /\ req' \in [Waiter -> RequestState] /\ slots' \in [Kind -> Nat] /\ SlotsBalanced'
         /\ req'[q] = r /\ \A p \in Waiter : p # q => req'[p] = req[p]
<1>1. /\ req' \in [Waiter -> RequestState] /\ slots' \in [Kind -> Nat]
      /\ req'[q] = r /\ \A p \in Waiter : p # q => req'[p] = req[p]
  OBVIOUS
<1>2. \A k : InService(k)' = InService(k)
  BY <1>1 DEF InService
<1>3. QED
  BY <1>1, <1>2 DEF SlotsBalanced

\* acquire: the slot is free and the request did not hold one.
LEMMA AcquireStep ==
  ASSUME CountsWaiters, req \in [Waiter -> RequestState], slots \in [Kind -> Nat], SlotsBalanced,
         NEW q \in Waiter, req[q].kind = "none", NEW r \in RequestState,
         r.kind \in Kind => slots[r.kind] < Limit[r.kind],
         req' = [req EXCEPT ![q] = r], slots' = Acquired(r.kind)
  PROVE  /\ req' \in [Waiter -> RequestState] /\ slots' \in [Kind -> Nat] /\ SlotsBalanced'
         /\ req'[q] = r /\ \A p \in Waiter : p # q => req'[p] = req[p]
<1>1. /\ req' \in [Waiter -> RequestState]
      /\ req'[q] = r /\ \A p \in Waiter : p # q => req'[p] = req[p]
  OBVIOUS
<1>2. r.kind \in Kind \cup {"none"} /\ "none" \notin Kind /\ Limit \in [Kind -> Nat]
  BY ServiceAssumption DEF RequestState, Kind
<1>3. ASSUME NEW k \in Kind
      PROVE  slots'[k] \in Nat /\ slots'[k] = Cardinality(InService(k)') /\ slots'[k] <= Limit[k]
  <2>1. CASE k = r.kind
    <3>1. InService(k)' = InService(k) \cup {q} /\ q \notin InService(k)
      BY <1>1, <1>2, <2>1 DEF InService
    <3>2. Cardinality(InService(k)') = Cardinality(InService(k)) + 1
      BY <3>1 DEF CountsWaiters, InService
    <3>3. slots'[k] = slots[k] + 1
      BY <1>2, <2>1 DEF Acquired
    <3>4. QED
      BY <1>2, <2>1, <3>2, <3>3 DEF SlotsBalanced
  <2>2. CASE k # r.kind
    <3>1. InService(k)' = InService(k)
      BY <1>1, <1>2, <2>2 DEF InService
    <3>2. slots'[k] = slots[k]
      BY <1>2, <2>2 DEF Acquired
    <3>3. QED
      BY <3>1, <3>2 DEF SlotsBalanced
  <2>3. QED
    BY <2>1, <2>2
<1>4. slots' \in [Kind -> Nat]
  BY <1>2, <1>3 DEF Acquired
<1>5. QED
  BY <1>1, <1>3, <1>4 DEF SlotsBalanced

\* The deferred release: the request held the slot it gives back.
LEMMA LeaveStep ==
  ASSUME CountsWaiters, req \in [Waiter -> RequestState], slots \in [Kind -> Nat], SlotsBalanced,
         NEW q \in Waiter, Leave(q)
  PROVE  /\ req' \in [Waiter -> RequestState] /\ slots' \in [Kind -> Nat] /\ SlotsBalanced'
         /\ req'[q] = NoRequest /\ \A p \in Waiter : p # q => req'[p] = req[p]
<1>1. NoRequest \in RequestState /\ NoRequest.kind = "none"
  BY ServiceConstants DEF NoRequest, RequestState
<1>2. /\ req' \in [Waiter -> RequestState]
      /\ req'[q] = NoRequest /\ \A p \in Waiter : p # q => req'[p] = req[p]
  BY <1>1 DEF Leave
<1>3. "none" \notin Kind /\ slots' = Released(req[q].kind) /\ Limit \in [Kind -> Nat]
  BY ServiceAssumption DEF Leave, Kind
<1>4. ASSUME NEW k \in Kind
      PROVE  slots'[k] \in Nat /\ slots'[k] = Cardinality(InService(k)') /\ slots'[k] <= Limit[k]
  <2>1. CASE k = req[q].kind
    <3>1. InService(k)' = InService(k) \ {q} /\ q \in InService(k)
      BY <1>1, <1>2, <1>3, <2>1 DEF InService
    <3>2. /\ Cardinality(InService(k)') = Cardinality(InService(k)) - 1
          /\ Cardinality(InService(k)') \in Nat
      <4>1. InService(k) \in SUBSET Waiter /\ InService(k)' \in SUBSET Waiter
        BY DEF InService
      <4>2. QED
        BY <3>1, <4>1 DEF CountsWaiters
    <3>3. slots'[k] = slots[k] - 1
      BY <1>3, <2>1 DEF Released
    <3>4. QED
      BY <1>3, <3>2, <3>3 DEF SlotsBalanced
  <2>2. CASE k # req[q].kind
    <3>1. InService(k)' = InService(k)
      BY <1>1, <1>2, <1>3, <2>2 DEF InService
    <3>2. slots'[k] = slots[k]
      BY <1>3, <2>2 DEF Released
    <3>3. QED
      BY <3>1, <3>2 DEF SlotsBalanced
  <2>3. QED
    BY <2>1, <2>2
<1>5. slots' \in [Kind -> Nat]
  BY <1>3, <1>4, ZenonT(60) DEF Released
<1>6. QED
  BY <1>2, <1>4, <1>5 DEF SlotsBalanced

-----------------------------------------------------------------------------
(***************************************************************************)
(* The parts of a step of a request.                                       *)
(***************************************************************************)
\* What the clients hold after an answer, an answer that was lost, or a reset.
LEMMA ClientStep ==
  ASSUME ServiceInv, ManagerInv', Onward, NEW q \in Waiter, NEW state \in ClientState,
         state.handle # NoHandle => state.handle.stamp <= clock',
         \/ client' = client
         \/ Receives(q, state)
         \/ \E h : ReceivesAfterReset(q, h, state)
         \/ \E h : client' = Outdated(h)
  PROVE  ClientInv'
<1>1. /\ clock \in Nat /\ clock' \in Nat /\ clock <= clock'
      /\ \A h \in Handle : h.stamp \in Nat
  BY ManagerAssumption DEF ServiceInv, ManagerInv, TypeOK, Handle, Onward, Older
<1>2. client \in [Waiter -> ClientState] /\ NoRows \in Rows
  BY DEF ServiceInv, ClientInv, NoRows, Rows
<1>3. ASSUME NEW h
      PROVE  /\ Outdated(h) \in [Waiter -> ClientState]
             /\ \A p \in Waiter : Outdated(h)[p].handle = client[p].handle
  <2>1. ASSUME NEW p \in Waiter
        PROVE  /\ Outdated(h)[p] \in ClientState
               /\ Outdated(h)[p].handle = client[p].handle
    <3>1. client[p] \in ClientState
      BY <1>2
    <3>2. /\ [client[p] EXCEPT !.same = FALSE, !.rows = NoRows] \in ClientState
          /\ [client[p] EXCEPT !.same = FALSE, !.rows = NoRows].handle = client[p].handle
      BY <1>2, <3>1, Zenon DEF ClientState
    <3>3. QED
      BY <3>1, <3>2, Zenon DEF Outdated
  <2>2. QED
    BY <2>1, Zenon DEF Outdated
<1>4. PICK old \in [Waiter -> ClientState] :
        /\ \A p \in Waiter : old[p].handle = client[p].handle
        /\ client' = old \/ client' = [old EXCEPT ![q] = state]
  BY <1>2, <1>3 DEF Receives, ReceivesAfterReset
<1>5. client' \in [Waiter -> ClientState]
  BY <1>4
<1>6. ASSUME NEW p \in Waiter, client'[p].handle # NoHandle
      PROVE  client'[p].handle.stamp <= clock'
  <2>1. client'[p] = state \/ client'[p].handle = client[p].handle
    BY <1>4
  <2>2. CASE client'[p].handle = client[p].handle
    <3>1. client[p].handle \in Handle /\ client[p].handle.stamp <= clock
      BY <1>2, <1>6, <2>2, Zenon DEF ServiceInv, ClientInv, ClientState
    <3>2. QED
      BY <1>1, <2>2, <3>1
  <2>3. QED
    BY <1>6, <2>1, <2>2
<1>7. QED
  BY <1>5, <1>6, Zenon DEF ClientInv

\* A request whose handler takes no step: its handle stays spent.
LEMMA RequestKept ==
  ASSUME ServiceInv, ManagerInv', Onward, NEW p \in Waiter,
         req'[p] = req[p], wait'[p].pc = wait[p].pc
  PROVE  RequestInv(p)'
<1>1. /\ clock \in Nat /\ clock' \in Nat /\ clock <= clock'
      /\ \A h \in Handle : h.stamp \in Nat
  BY ManagerAssumption DEF ServiceInv, ManagerInv, TypeOK, Handle, Onward, Older
<1>2. RequestInv(p) /\ req[p].handle \in Handle \cup {NoHandle}
  BY DEF ServiceInv, RequestState
<1>3. req[p].handle # NoHandle => req[p].handle.stamp <= clock'
  BY <1>1, <1>2 DEF RequestInv
<1>4. req[p].pc = "refetch" /\ req[p].handle # NoHandle
        => ~Active(req[p].handle)' \/ req[p].handle.hash # req[p].hash
  BY <1>2 DEF RequestInv, Onward, Older, Spent, Active
<1>5. QED
  BY <1>2, <1>3, <1>4, Zenon DEF RequestInv, Active

\* The requests of the other clients are as they were.
LEMMA Assemble ==
  ASSUME ServiceInv, ManagerInv', Onward, ClientInv', NEW q \in Waiter,
         req' \in [Waiter -> RequestState], slots' \in [Kind -> Nat], SlotsBalanced',
         \A p \in Waiter : p # q => req'[p] = req[p] /\ wait'[p].pc = wait[p].pc,
         RequestInv(q)'
  PROVE  ServiceInv'
BY RequestKept DEF ServiceInv

\* A handler returns.
LEMMA LeaveAll ==
  ASSUME ServiceInv, ManagerInv', Onward, ClientInv', NEW q \in Waiter, Leave(q),
         wait'[q].pc = "idle", \A p \in Waiter : p # q => wait'[p].pc = wait[p].pc
  PROVE  ServiceInv'
<1>1. /\ req' \in [Waiter -> RequestState] /\ slots' \in [Kind -> Nat] /\ SlotsBalanced'
      /\ req'[q] = NoRequest /\ \A p \in Waiter : p # q => req'[p] = req[p]
  BY LeaveStep, Zenon DEF ServiceInv, Onward
<1>2. RequestInv(q)'
  BY <1>1 DEF RequestInv, NoRequest
<1>3. QED
  BY <1>1, <1>2, Assemble

\* A handler goes on.
LEMMA KeepAll ==
  ASSUME ServiceInv, ManagerInv', Onward, ClientInv', NEW q \in Waiter,
         NEW r \in RequestState, r.kind = req[q].kind, req' = [req EXCEPT ![q] = r],
         slots' = slots, \A p \in Waiter : p # q => wait'[p].pc = wait[p].pc,
         req'[q] = r => RequestInv(q)'
  PROVE  ServiceInv'
<1>1. /\ req' \in [Waiter -> RequestState] /\ slots' \in [Kind -> Nat] /\ SlotsBalanced'
      /\ req'[q] = r /\ \A p \in Waiter : p # q => req'[p] = req[p]
  BY KeepStep, Zenon DEF ServiceInv
<1>2. QED
  BY <1>1, Assemble

\* A handler goes on to another call, without a step of the manager.
LEMMA GotoAll ==
  ASSUME ServiceInv, ManagerInv', Onward, ClientInv', NEW q \in Waiter, req[q].pc # "idle",
         NEW pc \in {"refetch", "subsetSnapshot", "snapshot", "stream", "poll", "expired"}, Goto(q, pc),
         byHandle' = byHandle, clock' = clock,
         pc = "refetch" => \/ req[q].handle = NoHandle
                           \/ ~Active(req[q].handle) \/ req[q].handle.hash # req[q].hash,
         pc = "snapshot" => req[q].offset = NowOffset,
         pc \in {"stream", "poll", "expired"} => req[q].handle \in Handle,
         wait'[q].pc = "idle", \A p \in Waiter : p # q => wait'[p].pc = wait[p].pc
  PROVE  ServiceInv'
<1> DEFINE r == [req[q] EXCEPT !.pc = pc]
<1>1. req[q] \in RequestState /\ RequestInv(q) /\ req \in [Waiter -> RequestState]
  BY DEF ServiceInv
<1>2. /\ r \in RequestState /\ r.kind = req[q].kind /\ r.pc = pc /\ r.hash = req[q].hash
      /\ r.handle = req[q].handle /\ r.offset = req[q].offset
  BY <1>1 DEF RequestState
<1>3. req' = [req EXCEPT ![q] = r] /\ slots' = slots
  BY Zenon DEF Goto
<1> HIDE DEF r
<1>4. req'[q] = r => RequestInv(q)'
  BY <1>1, <1>2 DEF RequestInv, Active
<1>5. QED
  BY <1>2, <1>3, <1>4, KeepAll, Zenon

-----------------------------------------------------------------------------
(***************************************************************************)
(* One lemma for each step of a request.  Each shows that the manager      *)
(* takes one of its own steps, or none, and that the invariant is kept.    *)
(***************************************************************************)
ServiceStep == [ManagerNext]_vars /\ ServiceInv'

\* The index hands out handles that were created.
LEMMA IndexedIsOld ==
  ASSUME ManagerInv, NEW x \in Hash
  PROVE  /\ byHash[x] \in Handle \cup {NoHandle}
         /\ byHash[x] # NoHandle => byHash[x].stamp <= clock /\ byHash[x].hash = x
<1>1. clock \in Nat /\ \A h \in Handle : h.stamp \in Nat
  BY ManagerAssumption DEF ManagerInv, TypeOK, Handle
<1>2. byHash[x] \in Handle \cup {NoHandle}
  BY DEF ManagerInv, TypeOK
<1>3. ASSUME byHash[x] # NoHandle
      PROVE  byHash[x].stamp <= clock /\ byHash[x].hash = x
  <2>1. byHash[x] \in Handle /\ byHandle[byHash[x]].status = "active" /\ byHash[x].hash = x
    BY <1>2, <1>3 DEF ManagerInv, IndexesConsistent, Active
  <2>2. QED
    BY <1>1, <2>1, ServiceConstants DEF ManagerInv, SlotInv
<1>4. QED
  BY <1>2, <1>3

\* The same of the next state.
LEMMA IndexedIsOldNext ==
  ASSUME ManagerInv', NEW x \in Hash
  PROVE  /\ byHash'[x] \in Handle \cup {NoHandle}
         /\ byHash'[x] # NoHandle => byHash'[x].stamp <= clock' /\ byHash'[x].hash = x
<1>1. clock' \in Nat /\ \A h \in Handle : h.stamp \in Nat
  BY ManagerAssumption DEF ManagerInv, TypeOK, Handle
<1>2. byHash'[x] \in Handle \cup {NoHandle}
  BY DEF ManagerInv, TypeOK
<1>3. ASSUME byHash'[x] # NoHandle
      PROVE  byHash'[x].stamp <= clock' /\ byHash'[x].hash = x
  <2>1. byHash'[x] \in Handle /\ byHandle'[byHash'[x]].status = "active" /\ byHash'[x].hash = x
    BY <1>2, <1>3 DEF ManagerInv, IndexesConsistent, Active
  <2>2. QED
    BY <1>1, <2>1, ServiceConstants DEF ManagerInv, SlotInv
<1>4. QED
  BY <1>2, <1>3

\* A client may hold nothing.
LEMMA NoShapeType == NoShape \in ClientState /\ NoShape.handle = NoHandle
BY ServiceConstants DEF NoShape, ClientState, NoRows, Rows

\* A snapshot is registered, or the query fails, or its write does, and the handler
\* returns.
LEMMA RegisterAll ==
  ASSUME ServiceInv, ManagerKept, NEW q \in Waiter, req[q].pc \notin {"idle", "poll", "stream"}, Leave(q),
         NEW rows \in Rows, NEW offset \in {InitialOffset, NowOffset}, NEW state,
         UpsertSnapshotAtOffset(req[q].hash, rows, offset),
         ManagerInv' => /\ state \in ClientState
                        /\ state.handle # NoHandle => state.handle.stamp <= clock',
         \/ client' = client
         \/ \E h : ReceivesAfterReset(q, h, state)
         \/ \E h : client' = Outdated(h)
  PROVE  ServiceStep
<1>1. req[q].hash \in Hash /\ wait[q].pc = "idle" /\ ManagerInv
  BY DEF ServiceInv, RequestInv
<1>2. ManagerNext /\ wait' = wait
  BY <1>1, ZenonT(60) DEF ManagerNext, Next, UpsertSnapshotAtOffset, CreateShape, ResetShape
<1>3. ManagerInv' /\ Onward
  BY <1>1, <1>2, ManagerKeptStep, Zenon
<1>4. ClientInv'
  BY <1>3, ClientStep, Zenon
<1>5. ServiceInv'
  BY <1>1, <1>2, <1>3, <1>4, LeaveAll, Zenon
<1>6. QED
  BY <1>2, <1>5, ZenonT(60) DEF ServiceStep

\* The manager is left alone.
LEMMA IdleManager ==
  ASSUME ServiceInv, ManagerKept, UNCHANGED vars
  PROVE  /\ [ManagerNext]_vars /\ ManagerInv' /\ Onward
         /\ byHandle' = byHandle /\ clock' = clock /\ wait' = wait
<1>1. [ManagerNext]_vars /\ ManagerInv
  BY DEF ServiceInv
<1>2. QED
  BY <1>1, ManagerKeptStep DEF vars

\* A client that is not answered keeps what it has.
LEMMA ClientKept ==
  ASSUME ServiceInv, ManagerInv', Onward, client' = client
  PROVE  ClientInv'
<1>1. /\ clock \in Nat /\ clock' \in Nat /\ clock <= clock'
      /\ \A h \in Handle : h.stamp \in Nat
  BY ManagerAssumption DEF ServiceInv, ManagerInv, TypeOK, Handle, Onward, Older
<1>2. \A p \in Waiter : client[p].handle \in Handle \cup {NoHandle}
  BY Zenon DEF ServiceInv, ClientInv, ClientState
<1>3. QED
  BY <1>1, <1>2 DEF ServiceInv, ClientInv

\* A handler returns without a step of the manager and without an answer.
LEMMA FailAll ==
  ASSUME ServiceInv, ManagerKept, NEW q \in Waiter, req[q].pc \notin {"poll", "stream"}, Leave(q),
         UNCHANGED <<vars, client>>
  PROVE  ServiceStep
<1>1. wait[q].pc = "idle"
  BY DEF ServiceInv, RequestInv
<1>2. [ManagerNext]_vars /\ ManagerInv' /\ Onward /\ wait' = wait
  BY IdleManager, Zenon
<1>3. ClientInv'
  BY <1>2, ClientKept
<1>4. QED
  BY <1>1, <1>2, <1>3, LeaveAll, Zenon DEF ServiceStep

\* The rows of the query are registered at the offset the request came with.
LEMMA serveInitialSnapshotStep ==
  ASSUME ServiceInv, ManagerKept, NEW q \in Waiter, serveInitialSnapshot(q)
  PROVE  ServiceStep
<1>1. /\ req[q].pc = "snapshot" /\ Leave(q) /\ req[q].hash \in Hash
      /\ req[q].offset \in {InitialOffset, NowOffset} /\ req[q].offset \in Offset
  BY ServiceConstants, Zenon DEF serveInitialSnapshot, ServiceInv, RequestInv
<1>2. CASE UNCHANGED <<vars, client>>
  BY <1>1, <1>2, FailAll
<1>3. ASSUME NEW rows \in Rows, UpsertSnapshotAtOffset(req[q].hash, rows, req[q].offset),
             \/ ReceivesAfterReset(q, byHash'[req[q].hash],
                                   Holding(byHash'[req[q].hash], req[q].offset, rows))
             \/ client' = client
      PROVE  ServiceStep
  <2> DEFINE state == Holding(byHash'[req[q].hash], req[q].offset, rows)
  <2>1. ManagerInv' => /\ state \in ClientState
                       /\ state.handle # NoHandle => state.handle.stamp <= clock'
    BY <1>1, IndexedIsOldNext, Zenon DEF Holding, ClientState
  <2>2. \/ client' = client
        \/ \E h : ReceivesAfterReset(q, h, state)
    BY <1>3, Zenon
  <2> HIDE DEF state
  <2>3. QED
    BY <1>1, <1>3, <2>1, <2>2, RegisterAll, Zenon
<1>4. QED
  BY <1>2, <1>3, Zenon DEF serveInitialSnapshot

\* A handler answers with what the manager has and returns.
LEMMA AnswerAll ==
  ASSUME ServiceInv, ManagerKept, NEW q \in Waiter, Leave(q), [ManagerNext]_vars,
         wait'[q].pc = "idle", \A p \in Waiter : p # q => wait'[p].pc = wait[p].pc,
         NEW state \in ClientState, state.handle # NoHandle => state.handle.stamp <= clock,
         client' = client \/ Receives(q, state)
  PROVE  ServiceStep
<1>1. ManagerInv' /\ Onward
  BY ManagerKeptStep DEF ServiceInv
<1>2. state.handle # NoHandle => state.handle.stamp <= clock'
  <2>1. /\ state.handle \in Handle \cup {NoHandle} /\ clock \in Nat /\ clock' \in Nat
        /\ \A h \in Handle : h.stamp \in Nat
    BY <1>1, ManagerAssumption DEF ClientState, ServiceInv, ManagerInv, TypeOK, Handle
  <2>2. QED
    BY <1>1, <2>1 DEF Onward, Older
<1>3. ClientInv'
  BY <1>1, <1>2, ClientStep
<1>4. QED
  BY <1>1, <1>3, LeaveAll, Zenon DEF ServiceStep

\* A client that starts at offset=now is given a handle from the index.
LEMMA serveNowStep ==
  ASSUME ServiceInv, ManagerKept, NEW q \in Waiter, serveNow(q)
  PROVE  ServiceStep
<1> DEFINE h == byHash[req[q].hash]
<1>1. /\ req[q].pc = "now" /\ req[q].hash \in Hash /\ req[q].offset = NowOffset
      /\ wait[q].pc = "idle" /\ UNCHANGED vars /\ ManagerInv
  BY DEF serveNow, ServiceInv, RequestInv
<1>2. /\ [ManagerNext]_vars /\ ManagerInv' /\ Onward
      /\ byHandle' = byHandle /\ clock' = clock /\ wait' = wait
  BY <1>1, IdleManager, Zenon
<1>3. CASE h = NoHandle /\ Goto(q, "snapshot") /\ UNCHANGED client
  <2>1. ClientInv'
    BY <1>2, <1>3, ClientKept
  <2>2. QED
    BY <1>1, <1>2, <1>3, <2>1, GotoAll, Zenon DEF ServiceStep
<1>4. CASE /\ h # NoHandle /\ Leave(q)
           /\ Receives(q, Holding(h, byHandle[h].offset, byHandle[h].materialized))
  <2>1. h \in Handle /\ h.stamp <= clock
    BY <1>1, <1>4, IndexedIsOld, Zenon
  <2>2. byHandle[h] \in ShapeState
    BY <1>1, <2>1, Zenon DEF ManagerInv, TypeOK
  <2> DEFINE state == Holding(h, byHandle[h].offset, byHandle[h].materialized)
  <2>3. state \in ClientState /\ state.handle = h
    BY <2>1, <2>2, Zenon DEF Holding, ClientState, ShapeState
  <2>4. Receives(q, state)
    BY <1>4, Zenon
  <2> HIDE DEF state, h
  <2>5. QED
    BY <1>1, <1>2, <1>4, <2>1, <2>3, <2>4, AnswerAll, ZenonT(60)
<1>5. QED
  BY <1>1, <1>3, <1>4, ZenonT(60) DEF serveNow

\* A client that is sent away is left with nothing.
LEMMA mustRefetchStep ==
  ASSUME ServiceInv, ManagerKept, NEW q \in Waiter, mustRefetch(q)
  PROVE  ServiceStep
<1>1. req[q].pc = "refetch" /\ Leave(q) /\ NoRows \in Rows
  BY DEF mustRefetch, NoRows, Rows
<1>2. CASE UNCHANGED <<vars, client>>
  BY <1>1, <1>2, FailAll, Zenon
<1>3. CASE /\ UpsertSnapshotAtOffset(req[q].hash, NoRows, InitialOffset)
           /\ client' = client \/ \E h : ReceivesAfterReset(q, h, NoShape)
  BY <1>1, <1>3, NoShapeType, RegisterAll
<1>4. QED
  BY <1>2, <1>3, ZenonT(60) DEF mustRefetch

\* A handle that does not fit the definition of the subset is sent away.
LEMMA resolveSubsetShapeStep ==
  ASSUME ServiceInv, ManagerKept, NEW q \in Waiter, resolveSubsetShape(q)
  PROVE  ServiceStep
<1>1. /\ req[q].pc = "subset" /\ wait[q].pc = "idle" /\ UNCHANGED vars /\ client' = client
  BY Zenon DEF resolveSubsetShape, ServiceInv, RequestInv
<1>2. /\ [ManagerNext]_vars /\ ManagerInv' /\ Onward /\ ClientInv'
      /\ byHandle' = byHandle /\ clock' = clock /\ wait' = wait
  BY <1>1, IdleManager, ClientKept
<1>3. CASE /\ req[q].handle # NoHandle
           /\ ~(Active(req[q].handle) /\ req[q].handle.hash = req[q].hash)
           /\ Goto(q, "refetch")
  BY <1>1, <1>2, <1>3, GotoAll, Zenon DEF ServiceStep
<1>4. CASE Goto(q, "subsetSnapshot")
  BY <1>1, <1>2, <1>4, GotoAll, Zenon DEF ServiceStep
<1>5. CASE Leave(q)
  BY <1>1, <1>2, <1>5, LeaveAll, Zenon DEF ServiceStep
<1>6. QED
  BY <1>3, <1>4, <1>5, Zenon DEF resolveSubsetShape

\* A subset of an unknown definition registers its shape.
LEMMA subsetSnapshotStep ==
  ASSUME ServiceInv, ManagerKept, NEW q \in Waiter, subsetSnapshot(q)
  PROVE  ServiceStep
<1>1. req[q].pc = "subsetSnapshot" /\ Leave(q)
  BY DEF subsetSnapshot
<1>2. CASE UNCHANGED <<vars, client>>
  BY <1>1, <1>2, FailAll, Zenon
<1>3. ASSUME NEW rows \in Rows, UpsertSnapshotAtOffset(req[q].hash, rows, InitialOffset),
             client' = client \/ \E h : client' = Outdated(h)
      PROVE  ServiceStep
  BY <1>1, <1>3, NoShapeType, RegisterAll, Zenon
<1>4. QED
  BY <1>2, <1>3, Zenon DEF subsetSnapshot

\* A deletion takes the handle it came with or the one the index has.
LEMMA deleteShapeStep ==
  ASSUME ServiceInv, ManagerKept, NEW q \in Waiter, deleteShape(q)
  PROVE  ServiceStep
<1>1. /\ req[q].pc = "delete" /\ wait[q].pc = "idle" /\ client' = client
      /\ ManagerInv /\ req[q].hash \in Hash /\ req[q] \in RequestState /\ RequestInv(q)
      /\ req[q].handle \in Handle \cup {NoHandle} /\ req \in [Waiter -> RequestState]
  BY DEF deleteShape, ServiceInv, RequestInv, RequestState
<1>2. CASE /\ byHash[req[q].hash] # NoHandle /\ UNCHANGED <<vars, slots>>
           /\ req' = [req EXCEPT ![q].handle = byHash[req[q].hash]]
  <2> DEFINE h == byHash[req[q].hash]
             r == [req[q] EXCEPT !.handle = h]
  <2>1. h \in Handle /\ h.stamp <= clock
    BY <1>1, <1>2, IndexedIsOld
  <2>2. /\ r \in RequestState /\ r.kind = req[q].kind /\ r.pc = "delete"
        /\ r.hash = req[q].hash /\ r.handle = h
    BY <1>1, <2>1 DEF RequestState
  <2>3. /\ [ManagerNext]_vars /\ ManagerInv' /\ Onward /\ ClientInv'
        /\ byHandle' = byHandle /\ clock' = clock /\ wait' = wait
    BY <1>1, <1>2, IdleManager, ClientKept
  <2>4. req' = [req EXCEPT ![q] = r] /\ slots' = slots
    BY <1>2, Zenon
  <2> HIDE DEF r, h
  <2>5. req'[q] = r => RequestInv(q)'
    BY <1>1, <2>1, <2>2, <2>3, Zenon DEF RequestInv
  <2>6. QED
    BY <2>2, <2>3, <2>4, <2>5, KeepAll, Zenon DEF ServiceStep
<1>3. CASE Leave(q) /\ UNCHANGED vars
  BY <1>1, <1>3, FailAll, Zenon
<1>4. CASE req[q].handle # NoHandle /\ Delete(req[q].handle) /\ Leave(q)
  <2>1. ManagerNext /\ wait' = wait
    BY <1>1, <1>4, Zenon DEF ManagerNext, Next, Delete
  <2>2. ManagerInv' /\ Onward
    BY <1>1, <2>1, ManagerKeptStep, Zenon
  <2>3. ClientInv'
    BY <1>1, <2>2, ClientKept
  <2>4. QED
    BY <1>1, <1>4, <2>1, <2>2, <2>3, LeaveAll, Zenon DEF ServiceStep
<1>5. QED
  BY <1>2, <1>3, <1>4, Zenon DEF deleteShape

\* What a client has after the messages of a read.
LEMMA DeliveredType ==
  ASSUME ServiceInv, ManagerKept, NEW q \in Waiter, req[q].handle \in Handle
  PROVE  /\ Delivered(q) \in ClientState
         /\ Delivered(q).handle # NoHandle => Delivered(q).handle.stamp <= clock
<1> DEFINE me == client[q]
           h == req[q].handle
           rows == IF me.same THEN Applied(me.rows, h, req[q].offset) ELSE me.rows
<1>1. /\ me \in ClientState /\ ManagerInv /\ me.rows \in Rows
      /\ me.handle # NoHandle => me.handle.stamp <= clock
  BY Zenon DEF ServiceInv, ClientInv, ClientState
<1>2. byHandle[h].offset \in Offset
  BY <1>1, Zenon DEF ManagerInv, TypeOK, ShapeState
<1>3. rows \in Rows
  BY <1>1, AppliedType DEF ManagerKept
<1>4. Delivered(q) = [me EXCEPT !.rows = rows, !.offset = byHandle[h].offset]
  BY Zenon DEF Delivered
<1> HIDE DEF rows
<1>5. QED
  BY <1>1, <1>2, <1>3, <1>4, ZenonT(60) DEF ClientState

\* A read that has messages for a stream: it goes on from the shape's offset.
LEMMA StreamAll ==
  ASSUME ServiceInv, ManagerKept, NEW q \in Waiter, req[q].pc # "idle", req[q].handle \in Handle,
         [ManagerNext]_vars, clock' = clock, byHandle' = byHandle,
         wait'[q].pc = "idle", \A p \in Waiter : p # q => wait'[p].pc = wait[p].pc,
         Streams(q)
  PROVE  ServiceStep
<1> DEFINE next == [req[q] EXCEPT !.pc = "stream", !.offset = byHandle[req[q].handle].offset]
           lost == [next EXCEPT !.gone = TRUE]
<1>1. req[q] \in RequestState /\ RequestInv(q) /\ ManagerInv
  BY ZenonT(60) DEF ServiceInv
<1>2. byHandle[req[q].handle].offset \in Offset
  BY <1>1 DEF ManagerInv, TypeOK, ShapeState
<1>3. /\ next \in RequestState /\ next.kind = req[q].kind /\ next.pc = "stream"
      /\ next.hash = req[q].hash /\ next.handle = req[q].handle
  BY <1>1, <1>2, Zenon DEF RequestState
<1>4. /\ lost \in RequestState /\ lost.kind = req[q].kind /\ lost.pc = "stream"
      /\ lost.hash = req[q].hash /\ lost.handle = req[q].handle
  BY <1>1, <1>2, ZenonT(60) DEF RequestState
<1>5. ManagerInv' /\ Onward
  BY <1>1, ManagerKeptStep
<1>6. slots' = slots /\ \/ req' = [req EXCEPT ![q] = next]
                        \/ req' = [req EXCEPT ![q] = lost]
  BY DEF Streams
<1>7. client' = client \/ Receives(q, Delivered(q))
  BY Zenon DEF Streams, Receives
<1>8. ClientInv'
  BY <1>5, <1>7, DeliveredType, ClientStep
<1> HIDE DEF next, lost
<1>9. ASSUME NEW r \in RequestState, r.kind = req[q].kind, r.pc = "stream",
             r.hash = req[q].hash, r.handle = req[q].handle, req' = [req EXCEPT ![q] = r]
      PROVE  ServiceInv'
  <2>1. req'[q] = r => RequestInv(q)'
    BY <1>1, <1>9 DEF RequestInv
  <2>2. QED
    BY <1>5, <1>6, <1>8, <1>9, <2>1, KeepAll, ZenonT(60)
<1>10. QED
  BY <1>3, <1>4, <1>6, <1>9, Zenon DEF ServiceStep

\* The first read of a request.
LEMMA serveContinuationStep ==
  ASSUME ServiceInv, ManagerKept, NEW q \in Waiter, serveContinuation(q)
  PROVE  ServiceStep
<1>1. /\ req[q].pc = "read" /\ wait[q].pc = "idle" /\ UNCHANGED vars /\ req[q].handle \in Handle
      /\ req \in [Waiter -> RequestState] /\ req[q] \in RequestState
  BY ZenonT(60) DEF serveContinuation, ServiceInv, RequestInv
<1>2. /\ [ManagerNext]_vars /\ ManagerInv' /\ Onward
      /\ byHandle' = byHandle /\ clock' = clock /\ wait' = wait
  BY <1>1, IdleManager, Zenon
<1>3. CASE /\ client' = client
           /\ \/ /\ ~Active(req[q].handle) \/ req[q].handle.hash # req[q].hash
                 /\ Goto(q, "refetch")
              \/ Goto(q, "stream") \/ Goto(q, "poll")
              \/ Leave(q)
  <2>1. ClientInv'
    BY <1>2, <1>3, ClientKept
  <2>2. CASE Leave(q)
    BY <1>1, <1>2, <2>1, <2>2, LeaveAll, Zenon DEF ServiceStep
  <2>3. QED
    BY <1>1, <1>2, <1>3, <2>1, <2>2, GotoAll, Zenon DEF ServiceStep
<1>4. CASE Streams(q)
  BY <1>1, <1>2, <1>4, StreamAll
<1>5. CASE Delivers(q) /\ Leave(q)
  BY <1>1, <1>2, <1>5, DeliveredType, AnswerAll, ZenonT(60) DEF Delivers
<1>6. QED
  BY <1>3, <1>4, <1>5, Zenon DEF serveContinuation

\* What a request does with the result of WaitForChange.
LEMMA ReturnedStep ==
  ASSUME ServiceInv, ManagerKept, NEW q \in Waiter, Returned(q), [ManagerNext]_vars,
         byHandle' = byHandle, clock' = clock, wait'[q].pc = "idle",
         \A p \in Waiter : p # q => wait'[p].pc = wait[p].pc
  PROVE  ServiceStep
<1>1. /\ req[q].pc \in {"poll", "stream"} /\ req[q].handle \in Handle /\ req[q].pc # "idle"
      /\ req \in [Waiter -> RequestState] /\ req[q] \in RequestState
  BY Zenon DEF Returned, ServiceInv, RequestInv
<1>2. ManagerInv' /\ Onward
  BY ManagerKeptStep DEF ServiceInv
<1>3. CASE /\ client' = client
           /\ \/ ~Active(req[q].handle) /\ Goto(q, "refetch")
              \/ Leave(q)
  <2>1. ClientInv'
    BY <1>2, <1>3, ClientKept, ZenonT(60)
  <2>2. QED
    BY <1>1, <1>2, <1>3, <2>1, GotoAll, LeaveAll, ZenonT(60) DEF ServiceStep
<1>4. CASE Delivers(q) /\ Leave(q)
  BY <1>1, <1>2, <1>4, DeliveredType, AnswerAll, Zenon DEF Delivers
<1>5. CASE Receives(q, NoShape) /\ Leave(q)
  BY <1>5, NoShapeType, AnswerAll
<1>6. CASE UNCHANGED service
  <2>1. ClientInv'
    BY <1>2, <1>6, ClientKept DEF service
  <2>2. req' = [req EXCEPT ![q] = req[q]] /\ slots' = slots
    BY <1>1, <1>6, Zenon DEF service
  <2>3. req'[q] = req[q] => RequestInv(q)'
    BY ZenonT(60) DEF ServiceInv, RequestInv, Active
  <2>4. QED
    BY <1>1, <1>2, <2>1, <2>2, <2>3, KeepAll, ZenonT(60) DEF ServiceStep
<1>7. CASE Streams(q)
  BY <1>1, <1>7, StreamAll
<1>8. QED
  BY <1>3, <1>4, <1>5, <1>6, <1>7 DEF Returned

\* The steps of WaitForChange on behalf of a request.
LEMMA WaitForChangeStep ==
  ASSUME ServiceInv, ManagerKept, NEW q \in Waiter,
         \/ WaitForChange(q) \/ WaitForChangeLocked(q) \/ WaitForChangeWoken(q)
         \/ WaitForChangeDone(q) \/ WaitForChangeCancelled(q)
  PROVE  ServiceStep
<1>1. /\ ManagerInv /\ wait \in [Waiter -> WaitState] /\ RequestInv(q)
      /\ req \in [Waiter -> RequestState] /\ req[q] \in RequestState
      /\ Idle.pc = "idle"
  BY Zenon DEF ServiceInv, ManagerInv, TypeOK, Idle
<1>2. /\ wait[q].pc # "idle" => req[q].pc \in {"poll", "stream"}
      /\ req[q].pc \in {"poll", "stream"} => req[q].handle \in Handle
      /\ req[q].offset \in Offset
  BY <1>1 DEF RequestInv, RequestState
\* The wait goes on, and the handler with it.
<1>3. ASSUME [ManagerNext]_vars, byHandle' = byHandle, clock' = clock, UNCHANGED service,
             req[q].pc \in {"poll", "stream"},
             \A p \in Waiter : p # q => wait'[p].pc = wait[p].pc
      PROVE  ServiceStep
  <2>1. ManagerInv' /\ Onward
    BY <1>1, <1>3, ManagerKeptStep, ZenonT(60)
  <2>2. ClientInv'
    BY <1>3, <2>1, ClientKept, Zenon DEF service
  <2>3. req' = [req EXCEPT ![q] = req[q]] /\ slots' = slots
    BY <1>1, <1>3, Zenon DEF service
  <2>4. req'[q] = req[q] => RequestInv(q)'
    BY <1>1, <1>3, Zenon DEF RequestInv, Active
  <2>5. QED
    BY <1>1, <1>3, <2>1, <2>2, <2>3, <2>4, KeepAll, ZenonT(60) DEF ServiceStep
<1>4. CASE WaitForChange(q)
  <2>1. CASE WaitRead(q, req[q].handle, req[q].offset) /\ UNCHANGED service
    <3>1. /\ ManagerNext /\ byHandle' = byHandle /\ clock' = clock
          /\ \A p \in Waiter : p # q => wait'[p].pc = wait[p].pc
      BY <1>1, <1>2, <1>4, <2>1, Zenon DEF WaitForChange, WaitRead, ManagerNext, registry
    <3>2. QED
      BY <1>3, <1>4, <2>1, <3>1, ZenonT(60) DEF WaitForChange
  <2>2. CASE Returned(q) /\ UNCHANGED vars
    <3>1. /\ [ManagerNext]_vars /\ byHandle' = byHandle /\ clock' = clock /\ wait' = wait
      BY <2>2, IdleManager, Zenon
    <3>2. QED
      BY <1>4, <2>2, <3>1, ReturnedStep, Zenon DEF WaitForChange
  <2>3. QED
    BY <1>4, <2>1, <2>2, ZenonT(60) DEF WaitForChange
<1>5. CASE WaitForChangeLocked(q)
  <2>1. /\ ManagerNext /\ byHandle' = byHandle /\ clock' = clock
        /\ wait[q].pc = "unregistered" /\ wait' \in [Waiter -> WaitState]
        /\ \A p \in Waiter : p # q => wait'[p].pc = wait[p].pc
    <3>1. WaitRegister(q)
      BY <1>5, Zenon DEF WaitForChangeLocked
    <3>2. ManagerNext
      BY <3>1 DEF ManagerNext, Next
    <3>3. ManagerInv'
      BY <1>1, <3>2, ManagerKeptStep
    <3>4. QED
      BY <1>1, <3>1, <3>2, <3>3 DEF WaitRegister, registry, ManagerInv, TypeOK
  <2>2. CASE wait'[q].pc = "idle"
    BY <1>5, <2>1, <2>2, ReturnedStep, Zenon DEF WaitForChangeLocked
  <2>3. CASE wait'[q].pc # "idle"
    BY <1>2, <1>3, <1>5, <2>1, <2>3, Zenon DEF WaitForChangeLocked
  <2>4. QED
    BY <2>2, <2>3, Zenon
<1>6. CASE WaitForChangeWoken(q)
  <2>1. /\ ManagerNext /\ byHandle' = byHandle /\ clock' = clock /\ wait'[q].pc = "idle"
        /\ \A p \in Waiter : p # q => wait'[p].pc = wait[p].pc
    BY <1>1, <1>6, ZenonT(60) DEF WaitForChangeWoken, WaitWoken, ManagerNext, Next, registry
  <2>2. QED
    BY <1>6, <2>1, ReturnedStep, Zenon DEF WaitForChangeWoken
<1>7. CASE WaitForChangeDone(q)
  <2>1. /\ ManagerNext /\ byHandle' = byHandle /\ clock' = clock /\ wait[q].pc = "registered"
        /\ \A p \in Waiter : p # q => wait'[p].pc = wait[p].pc
    BY <1>1, <1>7, ZenonT(60) DEF WaitForChangeDone, WaitCancel, ManagerNext, Next, registry
  <2>2. QED
    BY <1>2, <1>3, <1>7, <2>1, Zenon DEF WaitForChangeDone
<1>8. CASE WaitForChangeCancelled(q)
  <2>1. /\ ManagerNext /\ byHandle' = byHandle /\ clock' = clock /\ wait[q].pc = "cancelled"
        /\ wait'[q].pc = "idle" /\ client' = client
        /\ \A p \in Waiter : p # q => wait'[p].pc = wait[p].pc
    BY <1>1, <1>8, ZenonT(60) DEF WaitForChangeCancelled, RemoveWaiter, ManagerNext, Next, registry
  <2>2. req[q].pc \in {"poll", "stream"} /\ req[q].handle \in Handle
    BY <1>2, <2>1, Zenon
  <2>3. ManagerInv' /\ Onward /\ ClientInv'
    BY <1>1, <2>1, ManagerKeptStep, ClientKept, ZenonT(60)
  <2>4. CASE Leave(q)
    BY <2>1, <2>3, <2>4, LeaveAll, ZenonT(60) DEF ServiceStep
  <2>5. CASE Goto(q, "expired")
    BY <2>1, <2>2, <2>3, <2>5, GotoAll, ZenonT(60) DEF ServiceStep
  <2>6. CASE UNCHANGED <<req, slots>>
    BY <1>3, <2>1, <2>2, <2>6, Zenon DEF service
  <2>7. QED
    BY <1>8, <2>4, <2>5, <2>6, Zenon DEF WaitForChangeCancelled
<1>9. QED
  BY <1>4, <1>5, <1>6, <1>7, <1>8, Zenon

\* The last read of a long poll.
LEMMA pollExpiredStep ==
  ASSUME ServiceInv, ManagerKept, NEW q \in Waiter, pollExpired(q)
  PROVE  ServiceStep
<1>1. /\ req[q].pc = "expired" /\ Leave(q) /\ UNCHANGED vars /\ wait[q].pc = "idle"
      /\ req[q].handle \in Handle
  BY Zenon DEF pollExpired, ServiceInv, RequestInv
<1>2. [ManagerNext]_vars /\ wait' = wait
  BY <1>1, IdleManager
<1>3. CASE client' = client
  BY <1>1, <1>2, <1>3, NoShapeType, AnswerAll, ZenonT(60)
<1>4. CASE Delivers(q)
  BY <1>1, <1>2, <1>4, DeliveredType, AnswerAll, Zenon DEF Delivers
<1>5. QED
  BY <1>3, <1>4, Zenon DEF pollExpired

\* What a client may ask for.
LEMMA RequestsType ==
  ASSUME ServiceInv, NEW q \in Waiter, NEW r \in Requests(q)
  PROVE  /\ r \in RequestState /\ r.kind = "none" /\ r.hash \in Hash
         /\ r.pc \in {"snapshot", "now", "read", "subset", "delete"}
         /\ r.pc = "snapshot" => r.offset = InitialOffset
         /\ r.pc = "now" => r.offset = NowOffset
         /\ r.pc = "read" => r.handle \in Handle
         /\ r.handle # NoHandle => r.handle.stamp <= clock
<1>1. /\ client[q].handle \in Handle \cup {NoHandle} /\ client[q].offset \in Offset
      /\ client[q].handle # NoHandle => client[q].handle.stamp <= clock
  BY DEF ServiceInv, ClientInv, ClientState
<1>2. QED
  BY <1>1, ServiceConstants, ZenonT(60) DEF Requests, RequestState

\* A request is admitted.
LEMMA HandleShapeStep ==
  ASSUME ServiceInv, ManagerKept, NEW q \in Waiter, HandleShape(q)
  PROVE  ServiceStep
<1>1. PICK r \in Requests(q) :
        /\ admissionKind(r) \in Kind => slots[admissionKind(r)] < Limit[admissionKind(r)]
        /\ slots' = Acquired(admissionKind(r))
        /\ req' = [req EXCEPT ![q] = [r EXCEPT !.kind = admissionKind(r)]]
  BY Zenon DEF HandleShape
<1> DEFINE s == [r EXCEPT !.kind = admissionKind(r)]
<1>2. /\ req[q].pc = "idle" /\ req[q].kind = "none" /\ wait[q].pc = "idle"
      /\ UNCHANGED vars /\ client' = client
  BY Zenon DEF HandleShape, ServiceInv, RequestInv
<1>3. /\ [ManagerNext]_vars /\ ManagerInv' /\ Onward /\ ClientInv'
      /\ byHandle' = byHandle /\ clock' = clock /\ wait' = wait
  BY <1>2, IdleManager, ClientKept, Zenon
<1>4. /\ r \in RequestState /\ r.hash \in Hash
      /\ r.pc \in {"snapshot", "now", "read", "subset", "delete"}
      /\ r.pc = "snapshot" => r.offset = InitialOffset
      /\ r.pc = "now" => r.offset = NowOffset
      /\ r.pc = "read" => r.handle \in Handle
      /\ r.handle # NoHandle => r.handle.stamp <= clock
  BY RequestsType, Zenon
<1>5. admissionKind(r) \in Kind \cup {"none"}
  BY DEF admissionKind, Kind
<1>6. /\ s \in RequestState /\ s.kind = admissionKind(r) /\ s.pc = r.pc /\ s.hash = r.hash
      /\ s.offset = r.offset /\ s.handle = r.handle
  BY <1>4, <1>5 DEF RequestState
<1>7. req' = [req EXCEPT ![q] = s]
  BY <1>1
<1> HIDE DEF s
<1>8. /\ req' \in [Waiter -> RequestState] /\ slots' \in [Kind -> Nat] /\ SlotsBalanced'
      /\ req'[q] = s /\ \A p \in Waiter : p # q => req'[p] = req[p]
  BY <1>1, <1>2, <1>3, <1>6, <1>7, AcquireStep, ZenonT(60) DEF ServiceInv, Onward
<1>9. RequestInv(q)'
  BY <1>2, <1>3, <1>4, <1>6, <1>8 DEF RequestInv
<1>10. QED
  BY <1>3, <1>8, <1>9, Assemble DEF ServiceStep

\* A client goes away while its handler waits.
LEMMA ClientGoneStep ==
  ASSUME ServiceInv, ManagerKept, NEW q \in Waiter, ClientGone(q)
  PROVE  ServiceStep
<1> DEFINE r == [req[q] EXCEPT !.gone = TRUE]
<1>1. /\ req[q].pc \in {"poll", "stream"} /\ UNCHANGED vars /\ client' = client
      /\ RequestInv(q) /\ req \in [Waiter -> RequestState] /\ req[q] \in RequestState
  BY DEF ClientGone, ServiceInv
<1>2. /\ [ManagerNext]_vars /\ ManagerInv' /\ Onward /\ ClientInv'
      /\ byHandle' = byHandle /\ clock' = clock /\ wait' = wait
  BY <1>1, IdleManager, ClientKept
<1>3. /\ r \in RequestState /\ r.kind = req[q].kind /\ r.pc = req[q].pc /\ r.hash = req[q].hash
      /\ r.handle = req[q].handle /\ r.offset = req[q].offset
  BY <1>1, Zenon DEF RequestState
<1>4. req' = [req EXCEPT ![q] = r] /\ slots' = slots
  BY DEF ClientGone
<1> HIDE DEF r
<1>5. req'[q] = r => RequestInv(q)'
  BY <1>1, <1>2, <1>3, Zenon DEF RequestInv, Active
<1>6. QED
  BY <1>2, <1>3, <1>4, <1>5, KeepAll, Zenon DEF ServiceStep

\* Replication changes and deletes shapes under the requests.
LEMMA ReplicateStep ==
  ASSUME ServiceInv, ManagerKept, Replicate
  PROVE  ServiceStep
<1>1. ManagerInv /\ UNCHANGED service
  BY Zenon DEF ServiceInv, Replicate
<1>2. ASSUME NEW h \in Handle, NEW lsn \in CommitLSNs, lsn > byHandle[h].offset.lsn
      PROVE  CommitOrder(h, lsn)
  <2>1. lsn \in Nat /\ byHandle[h].offset.lsn \in Nat
    BY <1>1, ManagerAssumption DEF ManagerInv, TypeOK, ShapeState, Offset
  <2>2. QED
    BY <1>2, <2>1 DEF CommitOrder
<1>3. ManagerNext
  <2>1. ASSUME NEW h \in Handle, NEW rows \in Rows, NEW lsn \in CommitLSNs,
               lsn > byHandle[h].offset.lsn,
               \/ RefreshKeysWithMetadata(h, Key, rows, lsn)
               \/ RefreshWithMetadata(h, rows, TRUE, lsn)
        PROVE  ManagerNext
    <3>1. CommitOrder(h, lsn)
      BY <1>2, <2>1
    <3>2. /\ Key \in SUBSET Key /\ TRUE \in BOOLEAN
      BY Zenon
    <3>3. QED
      BY <2>1, <3>1, <3>2, Zenon DEF ManagerNext, Next
  <2>2. ASSUME NEW r \in Relation, InvalidateByRelation(r) \/ InvalidateByRelationFails(r)
        PROVE  ManagerNext
    BY <2>2 DEF ManagerNext, Next
  <2>3. QED
    BY <2>1, <2>2, ZenonT(60) DEF Replicate
<1>4. wait' = wait
  <2>1. ASSUME NEW h, NEW rows, NEW lsn, NEW targeted, NEW related,
               \/ RefreshKeysWithMetadata(h, targeted, rows, lsn)
               \/ RefreshWithMetadata(h, rows, related, lsn)
        PROVE  wait' = wait
    BY <2>1, Zenon DEF RefreshKeysWithMetadata, RefreshWithMetadata, Replace
  <2>2. ASSUME NEW r, InvalidateByRelation(r) \/ InvalidateByRelationFails(r)
        PROVE  wait' = wait
    BY <2>2, Zenon DEF InvalidateByRelation, InvalidateByRelationFails
  <2>3. QED
    BY <2>1, <2>2, Zenon DEF Replicate
<1>5. ManagerInv' /\ Onward
  BY <1>1, <1>3, ManagerKeptStep
<1>6. ClientInv'
  BY <1>1, <1>5, ClientKept, Zenon DEF service
<1>7. \A p \in Waiter : RequestInv(p)'
  BY <1>1, <1>4, <1>5, RequestKept, ZenonT(60) DEF service
<1>8. SlotsBalanced'
  BY <1>1 DEF service, ServiceInv, SlotsBalanced, InService
<1>9. QED
  BY <1>1, <1>3, <1>5, <1>6, <1>7, <1>8, Zenon DEF service, ServiceInv, ServiceStep

\* No request is in service and no slot is taken.
LEMMA NobodyServed ==
  ASSUME CountsWaiters, req = [q \in Waiter |-> NoRequest], slots = Zero, wait = [q \in Waiter |-> Idle]
  PROVE  /\ req \in [Waiter -> RequestState] /\ slots \in [Kind -> Nat] /\ SlotsBalanced
         /\ \A q \in Waiter : RequestInv(q)
<1>1. NoRequest \in RequestState /\ NoRequest.kind = "none"
  BY ServiceConstants DEF NoRequest, RequestState
<1>2. \A k \in Kind : InService(k) = {}
  BY <1>1, Zenon DEF InService, Kind
<1>3. SlotsBalanced
  <2>1. \A k \in Kind : Zero[k] = 0 /\ Limit[k] \in Nat
    BY ServiceAssumption DEF Zero
  <2>2. \A k \in Kind : Cardinality(InService(k)) = 0
    BY <1>2, ZenonT(60) DEF CountsWaiters
  <2>3. QED
    BY <2>1, <2>2 DEF SlotsBalanced
<1>4. \A q \in Waiter : RequestInv(q)
  BY DEF RequestInv, NoRequest, Idle
<1>5. QED
  BY <1>1, <1>3, <1>4, ZenonT(60) DEF Zero

\* The same of the next state.
LEMMA NobodyServedNext ==
  ASSUME CountsWaiters, req' = [q \in Waiter |-> NoRequest], slots' = Zero, wait' = [q \in Waiter |-> Idle]
  PROVE  /\ req' \in [Waiter -> RequestState] /\ slots' \in [Kind -> Nat] /\ SlotsBalanced'
         /\ \A q \in Waiter : RequestInv(q)'
<1>1. NoRequest \in RequestState /\ NoRequest.kind = "none"
  BY ServiceConstants DEF NoRequest, RequestState
<1>2. \A k \in Kind : InService(k)' = {}
  BY <1>1, Zenon DEF InService, Kind
<1>3. SlotsBalanced'
  <2>1. \A k \in Kind : Zero[k] = 0 /\ Limit[k] \in Nat
    BY ServiceAssumption DEF Zero
  <2>2. \A k \in Kind : Cardinality(InService(k)') = 0
    BY <1>2, ZenonT(60) DEF CountsWaiters
  <2>3. QED
    BY <2>1, <2>2 DEF SlotsBalanced
<1>4. \A q \in Waiter : RequestInv(q)'
  BY DEF RequestInv, NoRequest, Idle
<1>5. QED
  BY <1>1, <1>3, <1>4, ZenonT(60) DEF Zero

\* A restart ends every request.
LEMMA RestartStep ==
  ASSUME ServiceInv, ManagerKept, Restart
  PROVE  ServiceStep
<1>1. ManagerNext /\ ManagerInv /\ client' = client
  BY DEF Restart, ManagerNext, Next, ServiceInv
<1>2. ManagerInv' /\ Onward
  BY <1>1, ManagerKeptStep
<1>3. ClientInv'
  BY <1>1, <1>2, ClientKept, Zenon
<1>4. QED
  BY <1>1, <1>2, <1>3, NobodyServedNext, ZenonT(60) DEF Restart, loadPersisted, ServiceInv, ServiceStep, Onward

-----------------------------------------------------------------------------
\* Every step of the service is a step of the manager, or none, and keeps the
\* invariant.
LEMMA ServiceNext_Step == ServiceInv /\ ManagerKept /\ [ServiceNext]_svars => ServiceStep
<1> SUFFICES ASSUME ServiceInv, ManagerKept, [ServiceNext]_svars
             PROVE  ServiceStep
  BY Zenon
<1>1. ASSUME NEW q \in Waiter, Serve(q)
      PROVE  ServiceStep
  BY <1>1, serveInitialSnapshotStep, serveNowStep, mustRefetchStep, resolveSubsetShapeStep, ZenonT(60),
     subsetSnapshotStep, deleteShapeStep, serveContinuationStep, WaitForChangeStep,
     pollExpiredStep
  DEF Serve
<1>2. CASE UNCHANGED svars
  <2>1. UNCHANGED vars /\ UNCHANGED service
    BY <1>2 DEF svars, service
  <2>2. [ManagerNext]_vars /\ ManagerInv' /\ Onward /\ wait' = wait
    BY <2>1, IdleManager, Zenon
  <2>3. ClientInv'
    BY <2>1, <2>2, ClientKept, Zenon DEF service
  <2>4. \A p \in Waiter : RequestInv(p)'
    BY <2>1, <2>2, RequestKept, Zenon DEF service
  <2>5. SlotsBalanced'
    BY <2>1 DEF service, ServiceInv, SlotsBalanced, InService
  <2>6. QED
    BY <2>1, <2>2, <2>3, <2>4, <2>5, Zenon DEF service, ServiceInv, ServiceStep
<1>3. QED
  BY <1>1, <1>2, HandleShapeStep, ClientGoneStep, ReplicateStep, RestartStep, Zenon DEF ServiceNext

=============================================================================
