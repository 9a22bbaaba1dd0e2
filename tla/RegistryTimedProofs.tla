------------------------- MODULE RegistryTimedProofs ------------------------
(***************************************************************************)
(* How long a node has been silent when the health checker evicts it, for  *)
(* every interval, threshold, number of nodes and interleaving.            *)
(***************************************************************************)
EXTENDS RegistryTimed, RegistryProofs

(* What m misses say about the silence of a node.  Where the checker is in *)
(* its loop matters: a miss that was just counted stands for nothing yet,  *)
(* and every earlier one for a whole interval that the checker slept.      *)
SilenceAt(id) ==
    LET m == nodes_[id].missed_heartbeats IN
    m > 0 =>
        /\ checker = "sleep" => wake_at - last_heartbeat[id] >= m * check_interval_ms_
        /\ checker = "increment" => Silence(id) >= m * check_interval_ms_
        /\ checker \notin {"sleep", "increment"} =>
             Silence(id) >= (m - 1) * check_interval_ms_

(* The clocks have their types, and no entry was stamped in the future.    *)
ClockTypes ==
    /\ now \in Nat
    /\ wake_at \in Nat
    /\ DOMAIN last_heartbeat = DOMAIN nodes_
    /\ \A id \in DOMAIN nodes_ : last_heartbeat[id] \in 0 .. now

TimedInv ==
    /\ TypeInv /\ Phases /\ MissedBound
    /\ ClockTypes
    /\ \A id \in DOMAIN nodes_ : SilenceAt(id)

-----------------------------------------------------------------------------
(* Every step but a tick is a step of Registry.                            *)
LEMMA TimedStepIsStep ==
    ASSUME [TimedNext]_timedVars
    PROVE  [Next]_vars
BY DEF TimedNext, timedVars, Tick, FallAsleep, WakeUp, Untimed, Next, run_loop, timeVars

(* Steps that neither count misses nor move the checker keep the bound on  *)
(* silence: an entry they leave alone is as silent as before, and one they *)
(* touch has no misses.                                                    *)
LEMMA SilenceKept ==
    ASSUME TimedInv, ClockTypes', now' = now, wake_at' = wake_at,
           checker' = checker \/ ({checker, checker'} \cap {"sleep", "increment"} = {}),
           \A id \in DOMAIN nodes_' :
              \/ nodes_'[id].missed_heartbeats = 0
              \/ /\ id \in DOMAIN nodes_
                 /\ nodes_'[id].missed_heartbeats = nodes_[id].missed_heartbeats
                 /\ last_heartbeat'[id] = last_heartbeat[id]
    PROVE  \A id \in DOMAIN nodes_' : SilenceAt(id)'
<1>. TAKE id \in DOMAIN nodes_'
<1>1. CASE nodes_'[id].missed_heartbeats = 0
  BY <1>1 DEF SilenceAt
<1>2. CASE /\ id \in DOMAIN nodes_
           /\ nodes_'[id].missed_heartbeats = nodes_[id].missed_heartbeats
           /\ last_heartbeat'[id] = last_heartbeat[id]
  <2>1. SilenceAt(id)
    BY <1>2 DEF TimedInv
  <2>2. CASE checker' = checker
    BY <1>2, <2>1, <2>2 DEF SilenceAt, Silence
  <2>3. CASE {checker, checker'} \cap {"sleep", "increment"} = {}
    <3>1. checker \notin {"sleep", "increment"} /\ checker' \notin {"sleep", "increment"}
      BY <2>3
    <3>. QED
      BY <1>2, <2>1, <3>1 DEF SilenceAt, Silence
  <2>. QED
    BY <2>2, <2>3
<1>. QED
  BY <1>1, <1>2

(* The entry of a node that no step touches keeps its stamp.               *)
LEMMA StampKept ==
    ASSUME Stamp, NEW id \in DOMAIN nodes_, id \in DOMAIN nodes_', ~HeardOf(id)
    PROVE  last_heartbeat'[id] = last_heartbeat[id]
BY DEF Stamp

(* The clocks keep their types.                                            *)
LEMMA TimedTypeStep ==
    ASSUME ClockTypes, [TimedNext]_timedVars
    PROVE  ClockTypes'
<1>. USE IntervalAssumption DEF ClockTypes
<1>1. CASE Tick
  BY <1>1 DEF Tick, vars
<1>2. CASE Stamp /\ now' = now /\ wake_at' \in Nat
  BY <1>2 DEF Stamp
<1>3. CASE UNCHANGED timedVars
  BY <1>3 DEF timedVars, timeVars, vars
<1>. QED
  BY <1>1, <1>2, <1>3 DEF TimedNext, FallAsleep, WakeUp, Untimed

(* The bound on silence is inductive.                                      *)
LEMMA SilenceStep ==
    ASSUME TimedInv, ClockTypes', [TimedNext]_timedVars
    PROVE  \A id \in DOMAIN nodes_' : SilenceAt(id)'
<1>. USE IntervalAssumption DEF TimedInv, mainVars, checkerVars, callVars
<1>0. \A id \in DOMAIN nodes_ :
         /\ nodes_[id].missed_heartbeats \in Nat
         /\ now - last_heartbeat[id] \in Nat
         /\ last_heartbeat[id] \in Nat /\ now \in Nat /\ wake_at \in Nat
  BY CounterAssumption DEF TypeInv, TypeOK, TableOK, NodeEntry, ClockTypes
<1>1. CASE Tick
  <2>1. ASSUME NEW id \in DOMAIN nodes_
        PROVE  SilenceAt(id)'
    <3>1. now' - last_heartbeat[id] >= now - last_heartbeat[id]
      BY <1>0, <1>1 DEF Tick
    <3>2. nodes_[id].missed_heartbeats * check_interval_ms_ \in Int
          /\ (nodes_[id].missed_heartbeats - 1) * check_interval_ms_ \in Int
      BY <1>0
    <3>. QED
      BY <1>0, <1>1, <3>1, <3>2 DEF Tick, vars, SilenceAt, Silence
  <2>. QED
    BY <1>1, <2>1 DEF Tick, vars
<1>2. CASE FallAsleep
  <2>1. ASSUME NEW id \in DOMAIN nodes_
        PROVE  SilenceAt(id)'
    <3>1. ~HeardOf(id)
      BY <1>2 DEF FallAsleep, LoopTest, HeardOf, Serves
    <3>2. last_heartbeat'[id] = last_heartbeat[id]
      BY <1>2, <3>1, StampKept DEF FallAsleep, LoopTest
    <3>. DEFINE m == nodes_[id].missed_heartbeats
    <3>3. (m - 1) * check_interval_ms_ + check_interval_ms_ = m * check_interval_ms_
          /\ m * check_interval_ms_ \in Int
      BY <1>0
    <3>4. m > 0 => Silence(id) >= (m - 1) * check_interval_ms_
      BY <1>2 DEF SilenceAt, FallAsleep, LoopTest
    <3>5. m > 0 => now + check_interval_ms_ - last_heartbeat[id] >= m * check_interval_ms_
      BY <1>0, <3>3, <3>4 DEF Silence
    <3>6. /\ nodes_' = nodes_ /\ now' = now /\ wake_at' = now + check_interval_ms_
          /\ checker' \in {"sleep", "exited"}
      BY <1>2 DEF FallAsleep, LoopTest
    <3>7. Silence(id)' = Silence(id) /\ nodes_'[id].missed_heartbeats = m
      BY <3>2, <3>6 DEF Silence
    <3>8. m > 0 => /\ wake_at' - last_heartbeat'[id] >= m * check_interval_ms_
                   /\ Silence(id)' >= (m - 1) * check_interval_ms_
      BY <1>0, <3>2, <3>4, <3>5, <3>6, <3>7
    <3>. QED
      BY <1>0, <3>6, <3>7, <3>8 DEF SilenceAt
  <2>. QED
    BY <1>2, <2>1 DEF FallAsleep, LoopTest
<1>3. CASE WakeUp
  <2>1. ASSUME NEW id \in DOMAIN nodes_
        PROVE  SilenceAt(id)'
    <3>1. ~HeardOf(id)
      BY <1>3 DEF WakeUp, Wake, HeardOf, Serves
    <3>2. last_heartbeat'[id] = last_heartbeat[id]
      BY <1>3, <3>1, StampKept DEF WakeUp, Wake
    <3>. DEFINE m == nodes_[id].missed_heartbeats
    <3>3. (m - 1) * check_interval_ms_ + check_interval_ms_ = m * check_interval_ms_
          /\ m * check_interval_ms_ \in Int
      BY <1>0
    <3>4. m > 0 => wake_at - last_heartbeat[id] >= m * check_interval_ms_
      BY <1>3 DEF SilenceAt, WakeUp, Wake
    <3>5. m > 0 => /\ Silence(id) >= m * check_interval_ms_
                   /\ Silence(id) >= (m - 1) * check_interval_ms_
      BY <1>0, <1>3, <3>3, <3>4 DEF Silence, WakeUp
    <3>. QED
      BY <1>3, <3>2, <3>5 DEF SilenceAt, Silence, WakeUp, Wake
  <2>. QED
    BY <1>3, <2>1 DEF WakeUp, Wake
<1>4. CASE Untimed /\ Increment
  <2>1. ASSUME NEW id \in DOMAIN nodes_
        PROVE  SilenceAt(id)'
    <3>1. ~HeardOf(id)
      BY <1>4 DEF Increment, HeardOf, Serves
    <3>2. last_heartbeat'[id] = last_heartbeat[id] /\ now' = now
      BY <1>4, <3>1, StampKept DEF Untimed, Increment, increment_all_missed_heartbeats
    <3>. DEFINE m == nodes_[id].missed_heartbeats
    <3>3. nodes_'[id].missed_heartbeats = (m + 1) % CounterMod
      BY <1>4 DEF Increment, increment_all_missed_heartbeats, TypeInv, TypeOK, TableOK,
                  NodeEntry
    <3>4. m <= max_missed_heartbeats_ - 1
      BY <1>4 DEF MissedBound, Increment
    <3>5. nodes_'[id].missed_heartbeats = m + 1
      <4>1. m \in Nat /\ m + 1 < CounterMod
        BY <1>0, <3>4, ThresholdAssumption, CounterAssumption
      <4>2. (m + 1) % CounterMod = m + 1
        BY <4>1, CounterAssumption
      <4>. QED
        BY <3>3, <4>2
    <3>6. m > 0 => Silence(id) >= m * check_interval_ms_
      BY <1>4 DEF SilenceAt, Increment
    <3>7. m = 0 => Silence(id) >= m * check_interval_ms_
      BY <1>0 DEF Silence
    <3>8. Silence(id) >= (m + 1 - 1) * check_interval_ms_
      BY <1>0, <3>6, <3>7
    <3>9. checker' = "remove"
      BY <1>4 DEF Increment
    <3>10. Silence(id)' = Silence(id)
      BY <3>2 DEF Silence
    <3>11. Silence(id)' >= (nodes_'[id].missed_heartbeats - 1) * check_interval_ms_
      BY <1>0, <3>5, <3>8, <3>10
    <3>. QED
      BY <3>9, <3>11 DEF SilenceAt
  <2>. QED
    BY <1>4, <2>1 DEF Increment, increment_all_missed_heartbeats
<1>5. CASE Untimed /\ RemoveStale
  <2>1. \A id \in DOMAIN nodes_' : ~HeardOf(id)
    BY <1>5 DEF RemoveStale, HeardOf, Serves
  <2>2. \A id \in DOMAIN nodes_' : id \in DOMAIN nodes_ /\ nodes_'[id] = nodes_[id]
    BY <1>5 DEF RemoveStale, remove_stale_nodes, Restrict
  <2>3. \A id \in DOMAIN nodes_' : last_heartbeat'[id] = last_heartbeat[id]
    BY <1>5, <2>1, <2>2, StampKept DEF Untimed
  <2>. QED
    BY <1>5, <2>2, <2>3, SilenceKept DEF RemoveStale, Untimed
<1>6. CASE DOMAIN nodes_' = {}
  BY <1>6
<1>7. ASSUME NEW c \in Call, Heartbeat(c), Untimed
      PROVE  \A id \in DOMAIN nodes_' : SilenceAt(id)'
  <2>1. \A d \in Call \ {c} : handler'[d] = handler[d]
    BY <1>7 DEF Heartbeat, Finish, TypeInv, TypeOK
  <2>2. \A id : HeardOf(id) => id = request[c].node_id
    BY <2>1 DEF HeardOf, Serves
  <2>3. ASSUME NEW id \in DOMAIN nodes_'
        PROVE  \/ nodes_'[id].missed_heartbeats = 0
               \/ /\ id \in DOMAIN nodes_
                  /\ nodes_'[id] = nodes_[id]
                  /\ id # request[c].node_id \/ request[c].node_id = EmptyId
    BY <1>7 DEF Heartbeat, update_heartbeat, TypeInv, TypeOK, TableOK, NodeEntry
  <2>4. EmptyId \notin DOMAIN nodes_
    BY NodeIdAssumption DEF TypeInv, KeyedByOwner
  <2>5. ASSUME NEW id \in DOMAIN nodes_', nodes_'[id].missed_heartbeats # 0
        PROVE  /\ id \in DOMAIN nodes_
               /\ nodes_'[id] = nodes_[id]
               /\ last_heartbeat'[id] = last_heartbeat[id]
    BY <1>7, <2>2, <2>3, <2>4, <2>5, StampKept DEF Untimed
  <2>. QED
    BY <1>7, <2>5, SilenceKept DEF Heartbeat, Finish, Untimed
<1>8. ASSUME Untimed, checker' = checker \/ ({checker, checker'} \cap {"sleep", "increment"} = {}),
             \A c \in Call : handler'[c] = "done" => ~Serves(c, "Heartbeat"),
             \A id \in DOMAIN nodes_' :
                \/ nodes_'[id].missed_heartbeats = 0
                \/ id \in DOMAIN nodes_ /\ nodes_'[id] = nodes_[id]
      PROVE  \A id \in DOMAIN nodes_' : SilenceAt(id)'
  <2>1. \A id : ~HeardOf(id)
    BY <1>8 DEF HeardOf
  <2>2. \A id \in DOMAIN nodes_' :
           id \in DOMAIN nodes_ => last_heartbeat'[id] = last_heartbeat[id]
    BY <1>8, <2>1, StampKept DEF Untimed
  <2>. QED
    BY <1>8, <2>2, SilenceKept DEF Untimed
<1>9. ASSUME NEW c \in Call, Untimed, Handle(c), ~Heartbeat(c)
      PROVE  \A id \in DOMAIN nodes_' : SilenceAt(id)'
  <2>1. checker' = checker
    BY <1>9 DEF Handle, RegisterRefused, RegisterAdmitted, RegisterInsert,
                Deregister, Discover, Finish
  <2>2. \A d \in Call \ {c} : handler'[d] = handler[d]
    BY <1>9 DEF Handle, RegisterRefused, RegisterAdmitted, RegisterInsert,
                Deregister, Discover, Finish, TypeInv, TypeOK
  <2>3. ~Serves(c, "Heartbeat")
    BY <1>9 DEF Handle, RegisterRefused, RegisterAdmitted, RegisterInsert,
                Deregister, Discover, Serves
  <2>4. \A d \in Call : handler'[d] = "done" => ~Serves(d, "Heartbeat")
    BY <2>2, <2>3 DEF Serves
  <2>5. \A id \in DOMAIN nodes_' :
           \/ nodes_'[id].missed_heartbeats = 0
           \/ id \in DOMAIN nodes_ /\ nodes_'[id] = nodes_[id]
    BY <1>9 DEF Handle, RegisterRefused, RegisterAdmitted, RegisterInsert,
                Deregister, Discover, register_node, deregister_node, Restrict
  <2>. QED
    BY <1>8, <1>9, <2>1, <2>4, <2>5
<1>10. ASSUME NEW c \in Call, Untimed,
              Return(c) \/ \E req \in Requests : Arrive(c, req)
       PROVE  \A id \in DOMAIN nodes_' : SilenceAt(id)'
  <2>1. nodes_' = nodes_ /\ checker' = checker
    BY <1>10 DEF Return, Arrive
  <2>2. \A d \in Call : handler'[d] = "done" => ~Serves(d, "Heartbeat")
    BY <1>10 DEF Return, Arrive, Serves, TypeInv, TypeOK
  <2>. QED
    BY <1>8, <1>10, <2>1, <2>2
<1>11. CASE Untimed /\ (Main \/ Construct \/ signal_handler \/ Crash) /\ DOMAIN nodes_' # {}
  <2>1. ~ProcessDies /\ ~Construct /\ ~Destroy
    BY <1>11 DEF ProcessDies, Construct, Destroy, EmptyTable
  <2>2. nodes_' = nodes_ /\ handler' = handler
        /\ (checker' = checker \/ StartChecker)
    BY <1>11, <2>1 DEF Main, Crash, ServerShutdownOnNull, BuildAndStart, StartChecker,
         LeaveWait, ServiceShutdown, ServerShutdown, ServerWait, StopChecker, JoinChecker,
         signal_handler
  <2>3. checker' = checker \/ ({checker, checker'} \cap {"sleep", "increment"} = {})
    BY <2>2 DEF StartChecker, Phases
  <2>. QED
    BY <1>8, <1>11, <2>2, <2>3 DEF Serves
<1>12. CASE UNCHANGED timedVars
  BY <1>12, SilenceKept DEF timedVars, timeVars, vars
<1>. QED
  BY <1>1, <1>2, <1>3, <1>4, <1>5, <1>6, <1>7, <1>9, <1>10, <1>11, <1>12
     DEF TimedNext, Untimed

LEMMA TimedInvariant == TimedSpec => []TimedInv
<1>1. TimedInit => TimedInv
  BY TypeInvInit, PhasesInit, TableInit
     DEF TimedInit, TimedInv, ClockTypes, Init, EmptyTable
<1>2. TimedInv /\ [TimedNext]_timedVars => TimedInv'
  <2>. SUFFICES ASSUME TimedInv, [TimedNext]_timedVars PROVE TimedInv'
    OBVIOUS
  <2>1. [Next]_vars
    BY TimedStepIsStep
  <2>2. (TypeInv /\ Phases)'
    BY <2>1, TypeInvStep, PhasesStep DEF TimedInv
  <2>3. MissedBound'
    BY <2>1, TableSteps, MissedStep DEF TimedInv
  <2>4. ClockTypes'
    BY TimedTypeStep DEF TimedInv
  <2>. QED
    BY <2>2, <2>3, <2>4, SilenceStep DEF TimedInv
<1>. QED
  BY <1>1, <1>2, PTL DEF TimedSpec

(* A node that the health checker evicts was silent for at least           *)
(* max_missed_heartbeats_ - 1 whole check intervals, however slow the      *)
(* threads and however RPCs interleave with the check.                     *)
THEOREM EvictionTime == TimedSpec => EvictedOnlyWhenSilent
<1>1. TimedInv /\ [TimedNext]_timedVars =>
        [\A id \in DOMAIN nodes_ :
           (RemoveStale /\ id \notin DOMAIN nodes_')
             => Silence(id) >= (max_missed_heartbeats_ - 1) * check_interval_ms_]_timedVars
  <2>. SUFFICES ASSUME TimedInv, NEW id \in DOMAIN nodes_,
                       RemoveStale, id \notin DOMAIN nodes_'
                PROVE  Silence(id) >= (max_missed_heartbeats_ - 1) * check_interval_ms_
    OBVIOUS
  <2>1. nodes_[id].missed_heartbeats \in Nat
    BY CounterAssumption DEF TimedInv, TypeInv, TypeOK, TableOK, NodeEntry
  <2>2. nodes_[id].missed_heartbeats >= max_missed_heartbeats_
    BY DEF RemoveStale, remove_stale_nodes, StaleNodes, Restrict
  <2>3. nodes_[id].missed_heartbeats <= max_missed_heartbeats_
    BY DEF TimedInv, MissedBound, RemoveStale
  <2>4. nodes_[id].missed_heartbeats = max_missed_heartbeats_
    BY <2>1, <2>2, <2>3, ThresholdAssumption, CounterAssumption
  <2>5. SilenceAt(id) /\ max_missed_heartbeats_ > 0
    BY ThresholdAssumption, CounterAssumption DEF TimedInv
  <2>. QED
    BY <2>4, <2>5 DEF SilenceAt, RemoveStale
<1>. QED
  BY <1>1, TimedInvariant, PTL DEF TimedSpec, EvictedOnlyWhenSilent

=============================================================================
