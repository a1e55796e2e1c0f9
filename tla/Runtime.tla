------------------------------- MODULE Runtime -------------------------------
(***************************************************************************)
(* The life of pg.Runtime (internal/pg/runtime.go, replication.go): the    *)
(* supervisor that connects and reconnects, the replication loop of each   *)
(* connection, the health status, and Close.                               *)
(*                                                                         *)
(* Start connects once itself and then leaves the rest to the supervisor   *)
(* goroutine, so both are one process here; Close is called after Start    *)
(* has returned.  A step is what runs under one hold of Runtime.mu.  What  *)
(* a connection carries is the subject of module LiveSync.                 *)
(***************************************************************************)
EXTENDS Naturals

CONSTANT MaxConns   \* bound: replication connections that are opened

ASSUME RuntimeAssumption == MaxConns \in Nat

Conn == 1 .. MaxConns

VARIABLES
  status,      \* Runtime.status
  conn,        \* Runtime.replicationConn, 0 if nil
  opened,      \* connections opened so far
  loops,       \* connections whose replicationLoop runs
  cancelled,   \* connections whose replicationCancel was called
  runCtx,      \* whether runCtx is alive
  super,       \* the supervisor
  started,     \* whether Start has returned
  closing      \* Close

runtimeVars == <<status, conn, opened, loops, cancelled, runCtx, super, started, closing>>

\* A stopped runtime keeps its status.
SetStatus(s) == status' = IF status = "stopped" THEN status ELSE s

-----------------------------------------------------------------------------
(***************************************************************************)
(* The supervisor: superviseRuntime, connectRuntime, ensureReplication.    *)
(***************************************************************************)
\* Mutant: the supervisor acts only while the status is "waiting".
TickWaiting ==
  /\ super = "ticking"
  /\ conn = 0
  /\ status = "waiting"
  /\ super' = "connecting"
  /\ UNCHANGED <<status, conn, opened, loops, cancelled, runCtx, started, closing>>

\* Mutant: the supervisor connects once.
TickOnce ==
  /\ super = "ticking"
  /\ opened = 0
  /\ super' = "connecting"
  /\ UNCHANGED <<status, conn, opened, loops, cancelled, runCtx, started, closing>>

\* The ticker fires.  select may prefer it to a context that is done.
Tick ==
  /\ super = "ticking"
  /\ conn = 0
  /\ super' = "connecting"
  /\ UNCHANGED <<status, conn, opened, loops, cancelled, runCtx, started, closing>>

\* The pool, the publication, the slot or the stream cannot be had.
ConnectFails ==
  /\ super = "connecting"
  /\ SetStatus("waiting")
  /\ super' = "ticking"
  /\ started' = TRUE
  /\ UNCHANGED <<conn, opened, loops, cancelled, runCtx, closing>>

\* StartReplication has succeeded, under a context that was not done.
StartReplication ==
  /\ super = "connecting"
  /\ runCtx = "alive"
  /\ opened < MaxConns
  /\ opened' = opened + 1
  /\ super' = "streaming"
  /\ UNCHANGED <<status, conn, loops, cancelled, runCtx, started, closing>>

\* The connection is recorded, whatever has happened since.
RecordConnection ==
  /\ super = "streaming"
  /\ conn' = opened
  /\ status' = "active"
  /\ super' = "launching"
  /\ UNCHANGED <<opened, loops, cancelled, runCtx, started, closing>>

LaunchLoop ==
  /\ super = "launching"
  /\ loops' = loops \cup {opened}
  /\ super' = "saving"
  /\ UNCHANGED <<status, conn, opened, cancelled, runCtx, started, closing>>

\* The checkpoint of the start position is saved and connectRuntime sets the
\* status a second time.
SaveStart ==
  /\ super = "saving"
  /\ SetStatus("active")
  /\ super' = "ticking"
  /\ started' = TRUE
  /\ UNCHANGED <<conn, opened, loops, cancelled, runCtx, closing>>

\* connectRuntime returns an error, but the connection and its loop stay.
SaveStartFails ==
  /\ super = "saving"
  /\ SetStatus("waiting")
  /\ super' = "ticking"
  /\ started' = TRUE
  /\ UNCHANGED <<conn, opened, loops, cancelled, runCtx, closing>>

SupervisorReturns ==
  /\ super = "ticking"
  /\ runCtx = "done"
  /\ super' = "returned"
  /\ UNCHANGED <<status, conn, opened, loops, cancelled, runCtx, started, closing>>

-----------------------------------------------------------------------------
(***************************************************************************)
(* The replication loop of a connection.                                   *)
(***************************************************************************)
\* Mutant: the connection of record is not forgotten.
handleReplicationErrorKeeps(c) ==
  /\ c \in loops
  /\ c < MaxConns
  /\ c \notin cancelled
  /\ loops' = loops \ {c}
  /\ SetStatus("waiting")
  /\ UNCHANGED <<conn, opened, cancelled, runCtx, super, started, closing>>

\* The last connection within the bound is taken to hold.
handleReplicationError(c) ==
  /\ c \in loops
  /\ c < MaxConns
  /\ c \notin cancelled
  /\ loops' = loops \ {c}
  /\ IF conn = c THEN conn' = 0 /\ SetStatus("waiting") ELSE UNCHANGED <<conn, status>>
  /\ UNCHANGED <<opened, cancelled, runCtx, super, started, closing>>

LoopCancelled(c) ==
  /\ c \in loops
  /\ c \in cancelled
  /\ loops' = loops \ {c}
  /\ UNCHANGED <<status, conn, opened, cancelled, runCtx, super, started, closing>>

-----------------------------------------------------------------------------
(***************************************************************************)
(* Close: cancel everything, wait for the loop, wait for the supervisor.   *)
(***************************************************************************)
\* Mutant: the cancel function is called without looking whether there is one.
CloseCancelsAlways ==
  /\ started
  /\ closing = "no"
  /\ runCtx' = "done"
  /\ cancelled' = cancelled \cup {conn}
  /\ conn' = 0
  /\ closing' = "loops"
  /\ UNCHANGED <<status, opened, loops, super, started>>

CloseCancels ==
  /\ started
  /\ closing = "no"
  /\ runCtx' = "done"
  /\ cancelled' = cancelled \cup (IF conn = 0 THEN {} ELSE {conn})
  /\ conn' = 0
  /\ closing' = "loops"
  /\ UNCHANGED <<status, opened, loops, super, started>>

CloseWaitsLoops ==
  /\ closing = "loops"
  /\ loops = {}
  /\ closing' = "supervisor"
  /\ UNCHANGED <<status, conn, opened, loops, cancelled, runCtx, super, started>>

\* Mutant: Close does not wait for the supervisor.
CloseStopsEarly ==
  /\ closing = "supervisor"
  /\ status' = "stopped"
  /\ closing' = "yes"
  /\ UNCHANGED <<conn, opened, loops, cancelled, runCtx, super, started>>

CloseStops ==
  /\ closing = "supervisor"
  /\ super = "returned"
  /\ status' = "stopped"
  /\ closing' = "yes"
  /\ UNCHANGED <<conn, opened, loops, cancelled, runCtx, super, started>>

-----------------------------------------------------------------------------
RuntimeInit ==
  /\ status = "starting"
  /\ conn = 0
  /\ opened = 0
  /\ loops = {}
  /\ cancelled = {}
  /\ runCtx = "alive"
  /\ super = "connecting"
  /\ started = FALSE
  /\ closing = "no"

Supervisor ==
  \/ Tick \/ ConnectFails \/ StartReplication \/ RecordConnection \/ LaunchLoop
  \/ SaveStart \/ SaveStartFails \/ SupervisorReturns

Close == CloseCancels \/ CloseWaitsLoops \/ CloseStops

RuntimeNext ==
  \/ Supervisor
  \/ \E c \in Conn : handleReplicationError(c) \/ LoopCancelled(c)
  \/ Close

RuntimeSpec == RuntimeInit /\ [][RuntimeNext]_runtimeVars

\* The goroutines run when they can; select chooses among ready cases at random, so
\* it does not pass over a context that is done for ever; and Postgres is not down
\* for ever: an attempt to connect that can succeed does so sooner or later.
FairRuntimeSpec ==
  /\ RuntimeSpec
  /\ WF_runtimeVars(Supervisor)
  /\ SF_runtimeVars(StartReplication)
  /\ SF_runtimeVars(SupervisorReturns)
  /\ \A c \in Conn : WF_runtimeVars(LoopCancelled(c))
  /\ WF_runtimeVars(CloseWaitsLoops \/ CloseStops)

-----------------------------------------------------------------------------
(***************************************************************************)
(* Properties.                                                             *)
(***************************************************************************)
RuntimeTypeOK ==
  /\ status \in {"starting", "active", "waiting", "stopped"}
  /\ conn \in 0 .. MaxConns
  /\ opened \in 0 .. MaxConns
  /\ loops \subseteq Conn
  /\ cancelled \subseteq Conn
  /\ runCtx \in {"alive", "done"}
  /\ super \in {"ticking", "connecting", "streaming", "launching", "saving", "returned"}
  /\ started \in BOOLEAN
  /\ closing \in {"no", "loops", "supervisor", "yes"}

\* The supervisor does nothing while there is a connection (hasReplicationConnection),
\* so a connection of record must have a loop that reads it and will report its
\* end; and of all loops only that one still works.
ConnectionIsRead ==
  /\ conn # 0 => conn \in loops \/ super = "launching"
  /\ \A c \in loops \ cancelled : c = conn

\* A runtime that was closed stays stopped: ensureReplication sets the status
\* without looking at it, so Close must outwait it.
StoppedIsFinal == [][status = "stopped" => status' = "stopped"]_runtimeVars

\* Replication comes back after every loss, unless the runtime is closed.
Reconnects == []<>(conn # 0 \/ runCtx = "done")

\* /v1/health does not go on saying "active" without a connection: a loop that
\* ends before connectRuntime sets the status is noticed by the next attempt.
ActiveIsHonest ==
  (status = "active" /\ conn = 0) ~> (status # "active" \/ conn # 0)

\* "waiting: process is up, but replication is not currently active" (README.md):
\* /v1/health does not go on saying "waiting" with a connection.
WaitingIsHonest ==
  (status = "waiting" /\ conn # 0) ~> (status # "waiting" \/ conn = 0)

\* cmd/postgres-sync "handle[s] shutdown" (ARCHITECTURE.md) by calling Close with a
\* deadline of five seconds: Close returns.
CloseReturns == (closing = "loops") ~> (closing = "yes")

=============================================================================
