--------------------------- MODULE ServerTheorems ---------------------------
(***************************************************************************)
(* The server: the service that answers requests, and the runtime that     *)
(* keeps replication connected.                                            *)
(*                                                                         *)
(* The service for any number of clients, slots, definitions and rows: it  *)
(* gives back every slot it takes, it never sends a client back to the     *)
(* handle it was sent away from, its requests never sleep through news,    *)
(* and a client that follows its offsets always holds the rows of the      *)
(* shape as they were at its offset.  The runtime for any number of        *)
(* connections: the connection of record is read, and closing is final.    *)
(***************************************************************************)
EXTENDS ShapeServiceProofs, ShapeFollowProofs, ShapeManagerProofs, Runtime, FiniteSetTheorems

(***************************************************************************)
(* The runtime.  In its inductive invariant the connection that is being   *)
(* opened is new: no loop reads it and nobody has cancelled it.  While the *)
(* supervisor is connecting there is no connection of record, so the one   *)
(* it records replaces none; if Close comes between the recording and the  *)
(* launch, the loop starts cancelled.                                      *)
(***************************************************************************)
ConnectionsInv ==
  /\ RuntimeTypeOK
  /\ loops \subseteq 1 .. opened
  /\ cancelled \subseteq 1 .. opened
  /\ conn \in 0 .. opened /\ conn \notin cancelled
  /\ super \in {"connecting", "streaming"} => conn = 0
  /\ super \in {"streaming", "launching"} => opened \in Conn /\ opened \notin loops
  /\ super = "streaming" => opened \notin cancelled
  /\ super = "launching" => conn = opened \/ (conn = 0 /\ opened \in cancelled)
  /\ status = "stopped" => super = "returned"

RuntimeInv == ConnectionsInv /\ ConnectionIsRead

\* The state that NewRuntime and Start set up satisfies the invariant.
LEMMA RuntimeInit_Inv == RuntimeInit => RuntimeInv
<1> SUFFICES ASSUME RuntimeInit
             PROVE  RuntimeInv
  OBVIOUS
<1>1. RuntimeTypeOK
  <2>1. conn \in 0 .. MaxConns /\ opened \in 0 .. MaxConns
    BY RuntimeAssumption DEF RuntimeInit
  <2>2. loops \subseteq Conn /\ cancelled \subseteq Conn
    BY DEF RuntimeInit
  <2>3. QED
    BY <2>1, <2>2, ZenonT(60) DEF RuntimeInit, RuntimeTypeOK
<1>2. ConnectionIsRead
  BY Zenon DEF RuntimeInit, ConnectionIsRead
<1>3. QED
  BY <1>1, <1>2, SMT, SMTT(30) DEF RuntimeInit, RuntimeInv, ConnectionsInv

\* Every step of the supervisor, of a loop and of Close preserves the invariant.
LEMMA RuntimeNext_Inv == RuntimeInv /\ [RuntimeNext]_runtimeVars => RuntimeInv'
<1> SUFFICES ASSUME RuntimeInv, [RuntimeNext]_runtimeVars
             PROVE  RuntimeInv'
  BY ZenonT(60)
<1> USE RuntimeAssumption DEF RuntimeInv, ConnectionsInv, RuntimeTypeOK, ConnectionIsRead,
          Conn, SetStatus
<1>1. CASE Tick
  BY <1>1, ZenonT(60) DEF Tick
<1>2. CASE ConnectFails
  BY <1>2, ZenonT(60) DEF ConnectFails
<1>3. CASE StartReplication
  BY <1>3 DEF StartReplication
<1>4. CASE RecordConnection
  BY <1>4 DEF RecordConnection
<1>5. CASE LaunchLoop
  <2>1. loops' \subseteq 1 .. opened /\ opened \in loops'
    BY <1>5 DEF LaunchLoop
  <2>2. ConnectionIsRead'
    BY <1>5, ZenonT(60) DEF LaunchLoop
  <2>3. RuntimeTypeOK'
    BY <1>5, <2>1, ZenonT(60) DEF LaunchLoop
  <2>4. QED
    BY <1>5, <2>1, <2>2, <2>3, ZenonT(60) DEF LaunchLoop
<1>6. CASE SaveStart \/ SaveStartFails
  BY <1>6, ZenonT(60) DEF SaveStart, SaveStartFails
<1>7. CASE SupervisorReturns
  BY <1>7, ZenonT(60) DEF SupervisorReturns
<1>8. ASSUME NEW c \in Conn, handleReplicationError(c)
      PROVE  RuntimeInv'
  BY <1>8 DEF handleReplicationError
<1>9. ASSUME NEW c \in Conn, LoopCancelled(c)
      PROVE  RuntimeInv'
  BY <1>9 DEF LoopCancelled
<1>10. CASE CloseCancels
  <2>1. CASE conn = 0
    BY <1>10, <2>1, ZenonT(60) DEF CloseCancels
  <2>2. CASE conn # 0
    <3>1. cancelled' = cancelled \cup {conn} /\ conn \in 1 .. opened
      BY <1>10, <2>2, SMT, SMTT(30) DEF CloseCancels
    <3>2. RuntimeTypeOK' /\ ConnectionIsRead'
      BY <1>10, <3>1, SMT, SMTT(30) DEF CloseCancels
    <3>3. QED
      BY <1>10, <3>1, <3>2, SMT, SMTT(30) DEF CloseCancels
  <2>3. QED
    BY <2>1, <2>2, ZenonT(60)
<1>11. CASE CloseWaitsLoops
  BY <1>11, ZenonT(60) DEF CloseWaitsLoops
<1>12. CASE CloseStops
  BY <1>12, ZenonT(60) DEF CloseStops
<1>13. CASE UNCHANGED runtimeVars
  BY <1>13, ZenonT(60) DEF runtimeVars
<1>14. QED
  BY <1>1, <1>2, <1>3, <1>4, <1>5, <1>6, <1>7, <1>8, <1>9, <1>10, <1>11, <1>12, <1>13,
     Zenon
  DEF RuntimeNext, Supervisor, Close

\* The connection of record is read by the one loop that still works.
THEOREM ConnectionAlwaysRead == RuntimeSpec => []ConnectionIsRead
<1>1. RuntimeInv => ConnectionIsRead
  BY ZenonT(60) DEF RuntimeInv
<1>2. QED
  BY RuntimeInit_Inv, RuntimeNext_Inv, <1>1, PTL DEF RuntimeSpec

\* The runtime's variables have their types: no more connections are read, recorded or
\* cancelled than were opened.
THEOREM RuntimeTypes == RuntimeSpec => []RuntimeTypeOK
<1>1. RuntimeInv => RuntimeTypeOK
  BY ZenonT(60) DEF RuntimeInv, ConnectionsInv
<1>2. QED
  BY RuntimeInit_Inv, RuntimeNext_Inv, <1>1, PTL DEF RuntimeSpec

\* Once Close has set the status, no step of a late supervisor or loop changes it.
THEOREM StoppedForGood == RuntimeSpec => StoppedIsFinal
<1>1. RuntimeInv /\ [RuntimeNext]_runtimeVars
        => [status = "stopped" => status' = "stopped"]_runtimeVars
  <2> SUFFICES ASSUME RuntimeInv, RuntimeNext, status = "stopped"
               PROVE  status' = "stopped"
    BY ZenonT(60) DEF runtimeVars
  <2>1. super = "returned"
    BY ZenonT(60) DEF RuntimeInv, ConnectionsInv
  <2>2. QED
    BY <2>1, ZenonT(60) DEF RuntimeNext, Supervisor, Close, SetStatus, Tick, ConnectFails,
         StartReplication, RecordConnection, LaunchLoop, SaveStart, SaveStartFails,
         SupervisorReturns, handleReplicationError, LoopCancelled, CloseCancels,
         CloseWaitsLoops, CloseStops
<1>2. QED
  BY RuntimeInit_Inv, RuntimeNext_Inv, <1>1, PTL DEF RuntimeSpec, StoppedIsFinal

-----------------------------------------------------------------------------
(***************************************************************************)
(* The service.  What its lemmas assume about finite sets is proved after  *)
(* them.                                                                   *)
(***************************************************************************)
\* The service starts with nobody in it.
LEMMA ServiceStarts == CountsWaiters /\ ServiceInit => ServiceInv
<1> SUFFICES ASSUME CountsWaiters, ServiceInit
             PROVE  ServiceInv
  BY Zenon
<1>1. ManagerInv /\ wait = [q \in Waiter |-> Idle]
  BY Init_Inv, ZenonT(60) DEF ServiceInit, Init
<1>2. ClientInv
  BY NoShapeType, ZenonT(60) DEF ServiceInit, ClientInv
<1>3. QED
  BY <1>1, <1>2, NobodyServed, ZenonT(60) DEF ServiceInit, ServiceInv

\* The manager keeps what the steps of the service rely on.
LEMMA ManagerKeeps == HasGreatest /\ CountsWaiters /\ ServiceInv => ManagerKept
BY ManagerNext_Inv, Next_Older, ZenonT(60) DEF ServiceInv, ManagerKept, Onward

\* A client that is sent away gets no way back to its handle: a handle that is not
\* active any more stays so, and the handles of a definition are not those of another.
LEMMA RefetchStep ==
  ASSUME ServiceInv, ServiceStep, NEW q \in Waiter, req[q].pc = "refetch",
         req[q].handle # NoHandle
  PROVE  byHash'[req[q].hash] # req[q].handle
<1> SUFFICES ASSUME byHash'[req[q].hash] = req[q].handle
             PROVE  FALSE
  BY ZenonT(60)
<1>1. PICK h \in Handle, x \in Hash :
        /\ h = req[q].handle /\ x = req[q].hash /\ h.stamp <= clock
        /\ ~Active(h) \/ h.hash # x
  BY ZenonT(60) DEF ServiceInv, RequestInv, RequestState
<1>2. ManagerInv' /\ Older
  BY Next_Older, ZenonT(60) DEF ServiceStep, ServiceInv
<1>3. h.hash = x /\ Active(h)'
  BY <1>1, <1>2, NoHandleAssumption, ZenonT(60) DEF ManagerInv, IndexesConsistent, Active
<1>4. Spent(h)
  BY <1>1, <1>3, ZenonT(60) DEF Spent
<1>5. QED
  BY <1>1, <1>2, <1>3, <1>4, ZenonT(60) DEF Older, Spent, Active

\* The service takes no step that makes a tombstone active or loses a message of a log.
LEMMA ManagerStepKeeps ==
  ASSUME ManagerInv, [ManagerNext]_vars
  PROVE  /\ byHandle' = byHandle \/ StaysDead
         /\ LogInv => LogInv'
<1>1. CASE byHandle' = byHandle
  BY <1>1, ZenonT(60) DEF LogInv, Active
<1>2. CASE Next
  BY <1>2, Next_StaysDead, Next_Log, ZenonT(60)
<1>3. QED
  BY <1>1, <1>2, ZenonT(60) DEF ManagerNext, WaitRead, registry, vars

\* Of some places in a log one is the last: the one with the least distance from the end.
LEMMA Greatest == HasGreatest
<1> SUFFICES ASSUME NEW n \in Nat, NEW S \in SUBSET (1 .. n), S # {}
             PROVE  \E i \in S : \A j \in S : j <= i
  BY ZenonT(60) DEF HasGreatest
<1> DEFINE T == {n - i : i \in S}
<1>1. T \subseteq Nat /\ T # {}
  <2>1. \A i \in S : n - i \in Nat
    OBVIOUS
  <2>2. QED
    BY <2>1, ZenonT(60)
<1>2. PICK d \in T : \A e \in T : <<e, d>> \notin OpToRel(<, Nat)
  <2> HIDE DEF T
  <2>1. QED
    BY <1>1, NatLessThanWellFounded, WFMin, ZenonT(60)
<1>3. \A e \in T : ~(e < d)
  BY <1>1, <1>2, ZenonT(60) DEF OpToRel
<1>4. PICK i \in S : d = n - i
  OBVIOUS
<1>5. ASSUME NEW j \in S
      PROVE  j <= i
  <2>1. n - j \in T
    BY ZenonT(60)
  <2>2. ~(n - j < n - i)
    BY <1>3, <1>4, <2>1, ZenonT(60)
  <2>3. QED
    BY <2>2
<1>6. QED
  BY <1>5, ZenonT(60)

\* The clients are counted by the cardinality of their set.
LEMMA WaitersCounted == CountsWaiters
<1>1. Cardinality({}) = 0
  BY FS_EmptySet, ZenonT(60)
<1>2. ASSUME NEW S \in SUBSET Waiter
      PROVE  IsFiniteSet(S) /\ Cardinality(S) \in Nat
  <2>1. IsFiniteSet(S)
    BY FS_Subset, ServiceAssumption, ZenonT(60)
  <2>2. QED
    BY <2>1, FS_CardinalityType, ZenonT(60)
<1>3. ASSUME NEW S \in SUBSET Waiter, NEW q \in Waiter \ S
      PROVE  Cardinality(S \cup {q}) = Cardinality(S) + 1
  BY <1>2, FS_AddElement, ZenonT(60)
<1>4. ASSUME NEW S \in SUBSET Waiter, NEW q \in S
      PROVE  Cardinality(S \ {q}) = Cardinality(S) - 1
  BY <1>2, FS_RemoveElement, ZenonT(60)
<1>5. QED
  BY <1>1, <1>2, <1>3, <1>4, ZenonT(60) DEF CountsWaiters

\* The service starts in its invariant.
LEMMA ServiceInit_Inv == ServiceInit => ServiceInv
BY WaitersCounted, ServiceStarts, ZenonT(60)

\* Every step keeps the invariant of the service.
LEMMA ServiceNext_Inv == ServiceInv /\ [ServiceNext]_svars => ServiceStep
BY Greatest, WaitersCounted, ManagerKeeps, ServiceNext_Step, ZenonT(60)

\* Whatever way requests end, a slot that is taken belongs to one request in
\* service, and no pool is overdrawn, for any limits and any number of clients.
THEOREM SlotsAlwaysBalanced == ServiceSpec => []SlotsBalanced
<1>1. ServiceInv => SlotsBalanced
  BY Zenon DEF ServiceInv
<1>2. ServiceInv /\ [ServiceNext]_svars => ServiceInv'
  BY ServiceNext_Inv, ZenonT(60) DEF ServiceStep
<1>3. QED
  BY ServiceInit_Inv, <1>1, <1>2, PTL DEF ServiceSpec

\* The variables of the service have their types, and a request is registered with
\* the manager only while its handler waits.
THEOREM ServiceTypes == ServiceSpec => []ServiceTypeOK
<1>1. ServiceInv => ServiceTypeOK
  BY ZenonT(60) DEF ServiceInv, ServiceTypeOK, ManagerInv, ClientInv, RequestInv
<1>2. ServiceInv /\ [ServiceNext]_svars => ServiceInv'
  BY ServiceNext_Inv DEF ServiceStep
<1>3. QED
  BY ServiceInit_Inv, <1>1, <1>2, PTL DEF ServiceSpec

\* A client that is sent away with must-refetch is not sent back to its handle: the
\* handle is spent, or it is the handle of another definition.
THEOREM RefetchAlwaysRotates == ServiceSpec => RefetchRotates
<1>1. ServiceInv /\ [ServiceNext]_svars
        => [\A q \in Waiter :
              req[q].pc = "refetch" /\ req'[q].pc = "idle" /\ req[q].handle # NoHandle
                => byHash'[req[q].hash] # req[q].handle]_svars
  BY ServiceNext_Inv, RefetchStep, ZenonT(60)
<1>2. ServiceInv /\ [ServiceNext]_svars => ServiceInv'
  BY ServiceNext_Inv DEF ServiceStep
<1>3. QED
  BY ServiceInit_Inv, <1>1, <1>2, PTL DEF ServiceSpec, RefetchRotates

\* A request of the service never sleeps through news of its shape.
THEOREM ServiceLosesNoWakeup == ServiceSpec => []NoLostWakeup
<1>1. ServiceInit => NoLostWakeup
  BY Zenon DEF ServiceInit, Init, NoLostWakeup
<1>2. ServiceInv /\ NoLostWakeup /\ [ServiceNext]_svars => NoLostWakeup'
  BY ServiceNext_Inv, ManagerNext_Wakes, ZenonT(60) DEF ServiceStep, ServiceInv
<1>3. ServiceInv /\ [ServiceNext]_svars => ServiceInv'
  BY ServiceNext_Inv DEF ServiceStep
<1>4. QED
  BY ServiceInit_Inv, <1>1, <1>2, <1>3, PTL DEF ServiceSpec

\* Whatever requests do, the indexes, the store and memory agree, and the log of every
\* shape gives its rows.
THEOREM ServiceKeepsManager == ServiceSpec => [](IndexesConsistent /\ StoreAgrees /\ LogComplete)
<1>1. ServiceInit => LogInv
  BY DEF ServiceInit, Init, LogInv, Active, Absent
<1>2. ServiceInv /\ LogInv /\ [ServiceNext]_svars => ServiceInv' /\ LogInv'
  BY ServiceNext_Inv, ManagerStepKeeps, ZenonT(60) DEF ServiceStep, ServiceInv
<1>3. ServiceInv /\ LogInv => IndexesConsistent /\ StoreAgrees /\ LogComplete
  BY LogCompleteEquiv, ZenonT(60) DEF ServiceInv, ManagerInv
<1>4. QED
  BY ServiceInit_Inv, <1>1, <1>2, <1>3, PTL DEF ServiceSpec

\* A handle that a client was refused never becomes active again, whatever requests,
\* commits, failed writes and restarts come after.
THEOREM ServiceDeletesForGood == ServiceSpec => NoResurrection
<1>1. ServiceInv /\ [ServiceNext]_svars
        => [\A h \in Handle : byHandle[h].status = "deleted"
                               => byHandle'[h].status # "active"]_vars
  BY ServiceNext_Inv, ManagerStepKeeps, ZenonT(60) DEF ServiceStep, ServiceInv, StaysDead
<1>2. ServiceInv /\ [ServiceNext]_svars => ServiceInv'
  BY ServiceNext_Inv DEF ServiceStep
<1>3. QED
  BY ServiceInit_Inv, <1>1, <1>2, PTL DEF ServiceSpec, NoResurrection

\* A client whose shape was not reset since it got its rows can always go on from its
\* offset and then has the rows of the shape: for any number of clients, shapes, keys
\* and commits, whatever mix of plain reads, long polls and streams it uses, and over
\* lost answers, failed writes, deletions and restarts.
THEOREM FollowersStayOnTrack == ServiceSpec => []FollowerOnTrack
<1>1. ServiceInv /\ [ServiceNext]_svars => ServiceInv'
  BY ServiceNext_Inv DEF ServiceStep
<1>2. ServiceInv /\ FollowInv /\ [ServiceNext]_svars => FollowInv'
  BY Greatest, Diffs, ServiceNext_Follow, ZenonT(60)
<1>3. QED
  BY <1>1, <1>2, ServiceInit_Inv, ServiceInit_Follow, FollowInvTracks, PTL DEF ServiceSpec

=============================================================================
