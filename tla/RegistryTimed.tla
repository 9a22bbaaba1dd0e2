---------------------------- MODULE RegistryTimed ---------------------------
(***************************************************************************)
(* The registry on a clock: how long a node must have been silent before   *)
(* the health checker evicts it.  The steps are those of Registry;         *)
(* std::this_thread::sleep_for sleeps at least check_interval_ms_, threads *)
(* may be arbitrarily slow otherwise, and NodeEntry::last_heartbeat is     *)
(* stamped where register_node and update_heartbeat stamp it.              *)
(***************************************************************************)
EXTENDS Registry

CONSTANTS
    check_interval_ms_,   \* what the checker sleeps between two checks
    MaxTime               \* bound: the clock stops here

ASSUME IntervalAssumption == check_interval_ms_ \in Nat
ASSUME MaxTimeAssumption == MaxTime \in Nat

VARIABLES
    now,              \* std::chrono::steady_clock
    wake_at,          \* when the checker's sleep may end
    last_heartbeat    \* [id in the table -> when it was last heard of]

timeVars  == <<now, wake_at, last_heartbeat>>
timedVars == <<vars, timeVars>>

TimedInit ==
    /\ Init
    /\ now = 0
    /\ wake_at = 0
    /\ last_heartbeat = [id \in {} |-> 0]

Tick ==
    /\ now < MaxTime
    /\ now' = now + 1
    /\ UNCHANGED <<vars, wake_at, last_heartbeat>>

(* This step serves a heartbeat of the node.                               *)
HeardOf(id) ==
    \E c \in Call : /\ Serves(c, "Heartbeat")
                    /\ request[c].node_id = id
                    /\ handler'[c] = "done"

(* Registering and heartbeats stamp the entry; nothing else does.          *)
Stamp ==
    last_heartbeat' = [id \in DOMAIN nodes_' |->
                         IF id \notin DOMAIN nodes_ \/ HeardOf(id)
                         THEN now
                         ELSE last_heartbeat[id]]

FallAsleep ==
    /\ LoopTest
    /\ wake_at' = now + check_interval_ms_
    /\ UNCHANGED now
    /\ Stamp

(* Mutant: the loop does not sleep out its interval.                       *)
Bug_WakeUp ==
    /\ Wake
    /\ UNCHANGED <<now, wake_at>>
    /\ Stamp

WakeUp ==
    /\ Wake
    /\ now >= wake_at
    /\ UNCHANGED <<now, wake_at>>
    /\ Stamp

(* Every other step of the process takes no time worth modelling.          *)
Untimed ==
    /\ \/ Construct \/ Main \/ signal_handler \/ Crash
       \/ Increment \/ RemoveStale
       \/ \E c \in Call : \/ \E req \in Requests : Arrive(c, req)
                          \/ Handle(c)
                          \/ Return(c)
    /\ UNCHANGED <<now, wake_at>>
    /\ Stamp

TimedNext == Tick \/ FallAsleep \/ WakeUp \/ Untimed

TimedSpec == TimedInit /\ [][TimedNext]_timedVars

-----------------------------------------------------------------------------
Silence(id) == now - last_heartbeat[id]

(* The health checker takes only nodes that were silent for all but one of *)
(* the max_missed_heartbeats_ intervals: a heartbeat that arrives just     *)
(* before an increment counts as missed at once, so one interval less than *)
(* the threshold is all that a node can rely on.                           *)
EvictedOnlyWhenSilent ==
    [][\A id \in DOMAIN nodes_ :
         (RemoveStale /\ id \notin DOMAIN nodes_')
             => Silence(id) >= (max_missed_heartbeats_ - 1) * check_interval_ms_]_timedVars

=============================================================================
