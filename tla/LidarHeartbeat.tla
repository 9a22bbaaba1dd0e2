--------------------------- MODULE LidarHeartbeat ---------------------------
(***************************************************************************)
(* How the LIDAR emulator keeps itself registered: try_register_node and   *)
(* the thread run_heartbeat of examples/lidar_emulator.cpp, against the    *)
(* registry as LeaseDirectory, which Registry implements, describes it.    *)
(*                                                                         *)
(* The calls have deadlines: the client goes on when one passes, and a     *)
(* handler that has the call may serve it later all the same; this is kept *)
(* of Register only, for a late Heartbeat but renews the lease.  While     *)
(* ~stable calls run into their deadlines, are refused by a full table,    *)
(* and the registry crashes; nothing bounds how often.  The main thread    *)
(* and the heartbeat thread never call at the same time, so that one       *)
(* variable holds the call of the process.  Session ids are left out: the  *)
(* registry never compares them.                                           *)
(***************************************************************************)
EXTENDS Integers

CONSTANTS
    Term,          \* the missed checks after which the registry evicts
    max_retries    \* the failed heartbeats after which the node registers

ASSUME TermAssumption == Term \in Nat \ {0}
ASSUME RetriesAssumption == max_retries \in Nat \ {0}

VARIABLES
    up,                   \* the registry runs
    lease,                \* its table, as leases
    stable,               \* neither the registry nor the network fails any more
    late,                 \* a Register that was given up may still be served
    call,                 \* the outstanding call of the process, or its answer
    g_running,            \* cleared by signal_handler
    heartbeat_running,    \* cleared by main
    beat,                 \* what the heartbeat thread does next
    consecutive_failures, needs_reregister    \* its locals

registryVars == <<up, lease, stable>>
loopVars     == <<beat, consecutive_failures, needs_reregister>>

Method == {"Register", "Heartbeat"}
Answer == {"ok", "failed"}
BeatPC == {"none", "loop", "registering", "beating", "exited"}

node_id == "lidar_01"

Directory == INSTANCE LeaseDirectory WITH
    Name <- {node_id}, Owner <- {node_id}, Capacity <- 1, open <- up, asked <- {}

Held == node_id \in DOMAIN lease

HeartbeatInit ==
    /\ up = TRUE /\ Directory!Init /\ stable = FALSE
    /\ late = FALSE
    /\ call = "none"
    /\ g_running = TRUE /\ heartbeat_running = FALSE
    /\ beat = "none" /\ consecutive_failures = 0 /\ needs_reregister = FALSE

-----------------------------------------------------------------------------
(* The registry and the network *)

(* A new id is granted and a known one renewed; the others are refused.    *)
Accepted(method) == Held <=> method = "Heartbeat"

Handle(method) ==
    \/ Accepted(method) /\ method = "Register"  /\ Directory!Grant(node_id)
    \/ Accepted(method) /\ method = "Heartbeat" /\ Directory!Renew(node_id)
    \/ ~Accepted(method) /\ UNCHANGED lease

Serve ==
    /\ up /\ call \in Method
    /\ Handle(call)
    /\ call' = IF Accepted(call) THEN "ok" ELSE "failed"
    /\ UNCHANGED <<up, stable, late, g_running, heartbeat_running, loopVars>>

Unreachable ==
    /\ ~up /\ call \in Method
    /\ call' = "failed"
    /\ UNCHANGED <<registryVars, late, g_running, heartbeat_running, loopVars>>

DeadlinePasses ==
    /\ ~stable /\ call \in Method
    /\ call' = "failed"
    /\ late' = (late \/ call = "Register")
    /\ UNCHANGED <<registryVars, g_running, heartbeat_running, loopVars>>

ServeLate ==
    /\ up /\ late
    /\ Handle("Register")
    /\ late' = FALSE
    /\ UNCHANGED <<up, stable, call, g_running, heartbeat_running, loopVars>>

(* One round of the health checker: all leases age, or the old ones end.   *)
(* A call that nothing disturbs is answered well within its interval.      *)
HealthCheck ==
    /\ up /\ Held /\ (stable => call = "none")
    /\ Directory!Age \/ (lease[node_id].credit = 0 /\ Directory!Expire)
    /\ UNCHANGED <<up, stable, late, call, g_running, heartbeat_running, loopVars>>

RegistryCrash ==
    /\ ~stable /\ up
    /\ up' = FALSE
    /\ Directory!Wipe
    /\ late' = FALSE
    /\ UNCHANGED <<stable, call, g_running, heartbeat_running, loopVars>>

RegistryRestart ==
    /\ ~up
    /\ up' = TRUE
    /\ UNCHANGED <<lease, stable, late, call, g_running, heartbeat_running, loopVars>>

Stabilise ==
    /\ ~stable
    /\ stable' = TRUE
    /\ UNCHANGED <<up, lease, late, call, g_running, heartbeat_running, loopVars>>

-----------------------------------------------------------------------------
(* The heartbeat thread.  Its sleeps end in time and are left out.         *)

Sends(method, pc) == call' = method /\ beat' = pc

(* What it leaves alone in every step.                                     *)
BeatFrame == UNCHANGED <<registryVars, late, g_running, heartbeat_running>>

BeatTest ==
    /\ beat = "loop" /\ heartbeat_running /\ g_running
    /\ IF needs_reregister THEN Sends("Register", "registering")
                           ELSE Sends("Heartbeat", "beating")
    /\ UNCHANGED <<consecutive_failures, needs_reregister>> /\ BeatFrame

BeatExit ==
    /\ beat = "loop" /\ ~(heartbeat_running /\ g_running)
    /\ beat' = "exited"
    /\ UNCHANGED <<call, consecutive_failures, needs_reregister>> /\ BeatFrame

Reregistered ==
    /\ beat = "registering" /\ call = "ok"
    /\ needs_reregister' = FALSE
    /\ consecutive_failures' = 0
    /\ Sends("Heartbeat", "beating")
    /\ BeatFrame

Bug_ReregisterFailed ==
    /\ beat = "registering" /\ call = "failed"
    /\ Sends("Heartbeat", "beating")
    /\ UNCHANGED <<consecutive_failures, needs_reregister>> /\ BeatFrame

ReregisterFailed ==
    /\ beat = "registering" /\ call = "failed"
    /\ Sends("none", "loop")
    /\ UNCHANGED <<consecutive_failures, needs_reregister>> /\ BeatFrame

HeartbeatOk ==
    /\ beat = "beating" /\ call = "ok"
    /\ consecutive_failures' = 0
    /\ Sends("none", "loop")
    /\ UNCHANGED needs_reregister /\ BeatFrame

Bug_HeartbeatFailed ==
    /\ beat = "beating" /\ call = "failed"
    /\ Sends("none", "loop")
    /\ UNCHANGED <<consecutive_failures, needs_reregister>> /\ BeatFrame

HeartbeatFailed ==
    /\ beat = "beating" /\ call = "failed"
    /\ consecutive_failures' = consecutive_failures + 1
    /\ needs_reregister' = (needs_reregister \/ consecutive_failures' >= max_retries)
    /\ Sends("none", "loop")
    /\ BeatFrame

run_heartbeat ==
    \/ BeatTest \/ BeatExit
    \/ Reregistered \/ ReregisterFailed
    \/ HeartbeatOk \/ HeartbeatFailed

RegistryNext ==
    \/ Serve \/ Unreachable \/ DeadlinePasses \/ ServeLate
    \/ HealthCheck \/ RegistryCrash \/ RegistryRestart \/ Stabilise

=============================================================================
