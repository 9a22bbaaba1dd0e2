----------------------------- MODULE LidarProofs -----------------------------
(***************************************************************************)
(* Proofs about LidarEmulator, for every number of streams, every lease    *)
(* term and every limit of failures and of retries.                        *)
(***************************************************************************)
EXTENDS LidarEmulator, TLAPS

-----------------------------------------------------------------------------
(* The inductive invariants.                                               *)

(* A heartbeat is under way only while the node is not to register again:  *)
(* that is why the count cannot pass the limit.                            *)
CountInv == FailuresBounded /\ (beat = "beating" => ~needs_reregister)

(* How far main is says who else is alive: streams open only while the     *)
(* server serves, main drains them before it joins the heartbeat thread,   *)
(* and joins that before the metrics thread.                               *)
Phases ==
    /\ main \in {"down", "register"} => beat = "none"
    /\ main \in {"join_metrics", "last"} => beat = "exited"
    /\ main = "last" => metrics = "exited"
    /\ main \in {"join_beat", "join_metrics", "last"} =>
         \A s \in Stream : handler[s] = "none"
    /\ main \in {"draining", "join_beat", "join_metrics", "last"} =>
         node_server # "serving"

(* A call is under way, or its answer unread, only while main registers or *)
(* the heartbeat thread is in one: never both, so that one variable can    *)
(* hold the call of the process.                                           *)
OneCaller ==
    /\ call # "none" => main = "register" \/ beat \in {"registering", "beating"}
    /\ ~(main = "register" /\ beat \in {"registering", "beating"})

-----------------------------------------------------------------------------
(* Type correctness.                                                       *)

LeaseTable == UNION {[S -> Directory!Lease] : S \in SUBSET {node_id}}

FlagsOK ==
    /\ up \in BOOLEAN /\ stable \in BOOLEAN /\ late \in BOOLEAN
    /\ g_running \in BOOLEAN /\ heartbeat_running \in BOOLEAN
    /\ needs_reregister \in BOOLEAN

PlacesOK ==
    /\ call \in Method \cup Answer \cup {"none"}
    /\ beat \in BeatPC /\ consecutive_failures \in Nat
    /\ main \in MainPC /\ node_server \in {"nullptr", "serving", "shut"}
    /\ metrics \in MetricsPC
    /\ handler \in [Stream -> HandlerPC]
    /\ failures \in [Stream -> 0 .. (kMaxBackpressureRetries - 1)]
    /\ client \in [Stream -> {"reading", "stalled", "gone"}]

(* The type of the table, of the flags, and of where everyone is, each     *)
(* with the prover that handles it.                                        *)
LEMMA TypeParts ==
    /\ TypeOK <=> lease \in LeaseTable /\ FlagsOK /\ PlacesOK
    /\ TypeOK' <=> lease' \in LeaseTable /\ FlagsOK' /\ PlacesOK'
<1>. LeaseTable' = LeaseTable
  BY DEF LeaseTable, Directory!Lease
<1>. QED
  BY Zenon DEF TypeOK, LeaseTable, FlagsOK, PlacesOK

(* Serving a call keeps the table one of leases.                           *)
LEMMA HandleType ==
    ASSUME lease \in LeaseTable, NEW method \in Method, Handle(method)
    PROVE  lease' \in LeaseTable
<1>. PICK S \in SUBSET {node_id} : lease \in [S -> Directory!Lease]
  BY DEF LeaseTable
<1>1. CASE Directory!Grant(node_id)
  BY <1>1 DEF Directory!Grant, LeaseTable
<1>2. CASE Directory!Renew(node_id)
  BY <1>2, TermAssumption DEF Directory!Renew, Directory!Lease, LeaseTable
<1>3. CASE UNCHANGED lease
  BY <1>3
<1>. QED
  BY <1>1, <1>2, <1>3 DEF Handle

(* So does a round of the health checker.                                  *)
LEMMA HealthCheckType ==
    ASSUME lease \in LeaseTable, HealthCheck
    PROVE  lease' \in LeaseTable
<1>. PICK S \in SUBSET {node_id} : lease \in [S -> Directory!Lease]
  BY DEF LeaseTable
<1>1. CASE Directory!Age
  BY <1>1, TermAssumption DEF Directory!Age, Directory!Lease, LeaseTable
<1>2. CASE Directory!Expire
  BY <1>2 DEF Directory!Expire, Directory!Restrict, LeaseTable
<1>. QED
  BY <1>1, <1>2 DEF HealthCheck

LEMMA TypeInit == Init => TypeOK
<1>. SUFFICES ASSUME Init PROVE TypeOK
  OBVIOUS
<1>1. lease \in [{} -> Directory!Lease]
  BY DEF Init, HeartbeatInit, Directory!Init
<1>2. lease \in LeaseTable
  BY <1>1 DEF LeaseTable
<1>3. FlagsOK
  BY DEF Init, HeartbeatInit, FlagsOK
<1>4. PlacesOK
  BY ProcessAssumption
     DEF Init, HeartbeatInit, PlacesOK, BeatPC, MainPC, MetricsPC, HandlerPC, Each
<1>. QED
  BY <1>2, <1>3, <1>4, TypeParts

(* What the registry, the network and the clients do changes the table in  *)
(* the ways of the three lemmas above, or not at all.                      *)
LEMMA LeaseStep ==
    ASSUME lease \in LeaseTable, [Next]_vars
    PROVE  lease' \in LeaseTable
<1>1. CASE Serve \/ ServeLate
  BY <1>1, HandleType DEF Serve, ServeLate, Method
<1>2. CASE HealthCheck
  BY <1>2, HealthCheckType
<1>3. CASE RegistryCrash
  <2>1. lease' \in [{} -> Directory!Lease]
    BY <1>3 DEF RegistryCrash, Directory!Wipe
  <2>. QED
    BY <2>1 DEF LeaseTable
<1>4. \/ Serve \/ ServeLate \/ HealthCheck \/ RegistryCrash
      \/ UNCHANGED lease
  BY DEF Next, vars, heartbeatVars, registryVars, RegistryNext, Unreachable,
         DeadlinePasses, RegistryRestart, Stabilise, run_heartbeat, BeatTest, BeatExit,
         Reregistered, ReregisterFailed, HeartbeatOk, HeartbeatFailed, BeatFrame, Start,
         MainStep, StartHeartbeat, LeaveWait, ShutdownServer, ShutdownNull, Drained,
         JoinHeartbeat, JoinMetrics, Return, signal_handler, Kill, ProcessEnds,
         MetricsStep, MetricsListen, MetricsNoSocket, MetricsAccept, MetricsExit,
         Scrape, MetricsGoes, Open, Stall, Resume, Leave, ClientGoes, Subscribe,
         ControlStream, Command, SubscribeTest, SubscribeEnds, WriteOk, WriteFailed,
         ConnectionDropped, ReadFailed, ReplyOk, ReplyFailed, HandlerGoes,
         HandlerReturns, StreamFrame
<1>. QED
  BY <1>1, <1>2, <1>3, <1>4

LEMMA FlagsStep ==
    ASSUME FlagsOK, [Next]_vars
    PROVE  FlagsOK'
<1>. USE DEF FlagsOK, vars, heartbeatVars, registryVars, loopVars
<1>1. CASE RegistryNext
  BY <1>1 DEF RegistryNext, Serve, Unreachable, DeadlinePasses, ServeLate, HealthCheck,
              RegistryCrash, RegistryRestart, Stabilise
<1>2. CASE BeatTest \/ BeatExit \/ Reregistered \/ ReregisterFailed \/ HeartbeatOk
  BY <1>2 DEF BeatTest, BeatExit, Reregistered, ReregisterFailed, HeartbeatOk, BeatFrame
<1>3. CASE HeartbeatFailed
  <2>1. needs_reregister' \in BOOLEAN
    BY <1>3 DEF HeartbeatFailed
  <2>. QED
    BY <1>3, <2>1 DEF HeartbeatFailed, BeatFrame
<1>4. CASE Start \/ StartHeartbeat \/ Drained \/ signal_handler
  BY <1>4 DEF Start, StartHeartbeat, Drained, signal_handler
<1>5. CASE ProcessEnds
  BY <1>5 DEF ProcessEnds
<1>6. CASE UNCHANGED heartbeatVars
  BY <1>6
<1>7. \/ RegistryNext \/ run_heartbeat \/ ProcessEnds
      \/ Start \/ StartHeartbeat \/ Drained \/ signal_handler
      \/ UNCHANGED heartbeatVars
  BY DEF Next, MainStep, LeaveWait, ShutdownServer, ShutdownNull, JoinHeartbeat,
         JoinMetrics, Return, Kill,
         MetricsStep, MetricsListen, MetricsNoSocket, MetricsAccept, MetricsExit,
         Scrape, MetricsGoes, Open, Stall, Resume, Leave, ClientGoes, Subscribe,
         ControlStream, Command, SubscribeTest, SubscribeEnds, WriteOk, WriteFailed,
         ConnectionDropped, ReadFailed, ReplyOk, ReplyFailed, HandlerGoes,
         HandlerReturns, StreamFrame
<1>. QED
  BY <1>1, <1>2, <1>3, <1>4, <1>5, <1>6, <1>7 DEF run_heartbeat

LEMMA PlacesStep ==
    ASSUME PlacesOK, [Next]_vars
    PROVE  PlacesOK'
<1>. USE DEF PlacesOK, vars, heartbeatVars, processVars, clientVars, registryVars, loopVars
<1>1. CASE RegistryNext /\ UNCHANGED processVars
  BY <1>1 DEF RegistryNext, Answer, Serve, Unreachable, DeadlinePasses,
              ServeLate, HealthCheck, RegistryCrash, RegistryRestart, Stabilise
<1>2. CASE run_heartbeat /\ UNCHANGED processVars
  BY <1>2 DEF run_heartbeat, BeatTest, BeatExit, Reregistered, ReregisterFailed,
              HeartbeatOk, HeartbeatFailed, Sends, BeatFrame, Method, BeatPC
<1>3. CASE Start \/ StartHeartbeat \/ LeaveWait \/ ShutdownServer \/ Drained
             \/ JoinHeartbeat \/ JoinMetrics \/ signal_handler
  BY <1>3 DEF Start, StartHeartbeat, LeaveWait, ShutdownServer, Drained,
              JoinHeartbeat, JoinMetrics, signal_handler, MainPC, MetricsPC, BeatPC, Method
<1>4. CASE ProcessEnds
  BY <1>4, ProcessAssumption DEF ProcessEnds, Each, MainPC, MetricsPC, BeatPC, HandlerPC
<1>5. CASE MetricsStep \/ Scrape
  BY <1>5 DEF MetricsStep, MetricsListen, MetricsNoSocket, MetricsAccept,
              MetricsExit, Scrape, MetricsGoes, MetricsPC
<1>6. ASSUME NEW s \in Stream, Open(s) \/ Stall(s) \/ Resume(s) \/ Leave(s)
      PROVE  PlacesOK'
  BY <1>6 DEF Open, Stall, Resume, Leave, ClientGoes, StreamFrame, HandlerPC
<1>7. ASSUME NEW s \in Stream, Subscribe(s) \/ ControlStream(s) \/ Command(s)
      PROVE  PlacesOK'
  <2>1. CASE \E from : HandlerReturns(s, from)
    BY <2>1, ProcessAssumption DEF HandlerReturns, StreamFrame, HandlerPC
  <2>2. CASE SubscribeTest(s) \/ WriteOk(s) \/ Command(s) \/ ReplyOk(s)
    BY <2>2, ProcessAssumption DEF SubscribeTest, WriteOk, Command, ReplyOk,
                                   HandlerGoes, StreamFrame, HandlerPC
  <2>3. CASE WriteFailed(s)
    BY <2>3, ProcessAssumption DEF WriteFailed, HandlerGoes, StreamFrame, HandlerPC
  <2>. QED
    BY <1>7, <2>1, <2>2, <2>3 DEF Subscribe, ControlStream, SubscribeEnds, ConnectionDropped,
                                  ReadFailed, ReplyFailed
<1>8. CASE UNCHANGED vars
  BY <1>8
<1>. QED
  BY <1>1, <1>2, <1>3, <1>4, <1>5, <1>6, <1>7, <1>8
     DEF Next, MainStep, ShutdownNull, Return, Kill

LEMMA TypeStep == TypeOK /\ [Next]_vars => TypeOK'
BY LeaseStep, FlagsStep, PlacesStep, TypeParts

(* Every variable of the emulator and of the registry as it sees it has    *)
(* its type; in particular a stream that fails is given up before its      *)
(* count reaches kMaxBackpressureRetries.                                  *)
THEOREM TypeCorrect == Spec => []TypeOK
BY TypeInit, TypeStep, PTL DEF Spec

-----------------------------------------------------------------------------
(* The count of failures of run_heartbeat.                                 *)

LEMMA CountInit == Init => CountInv
BY RetriesAssumption DEF Init, HeartbeatInit, CountInv, FailuresBounded

LEMMA CountStep == TypeOK /\ CountInv /\ [Next]_vars => CountInv'
<1>. SUFFICES ASSUME TypeOK, CountInv, [Next]_vars PROVE CountInv'
  OBVIOUS
<1>. USE RetriesAssumption DEF CountInv, FailuresBounded, heartbeatVars, loopVars
<1>0. consecutive_failures \in Nat /\ needs_reregister \in BOOLEAN
  BY DEF TypeOK
<1>1. CASE run_heartbeat
  <2>1. CASE BeatTest \/ BeatExit \/ ReregisterFailed
    BY <2>1 DEF BeatTest, BeatExit, ReregisterFailed, Sends
  <2>2. CASE Reregistered \/ HeartbeatOk
    BY <1>0, <2>2 DEF Reregistered, HeartbeatOk, Sends
  <2>3. CASE HeartbeatFailed
    <3>1. /\ consecutive_failures < max_retries
          /\ consecutive_failures' = consecutive_failures + 1
      BY <1>0, <2>3 DEF HeartbeatFailed
    <3>2. needs_reregister' <=> consecutive_failures' >= max_retries
      BY <2>3 DEF HeartbeatFailed
    <3>3. beat' = "loop"
      BY <2>3 DEF HeartbeatFailed, Sends
    <3>4. /\ consecutive_failures' <= max_retries
          /\ consecutive_failures' >= max_retries <=> consecutive_failures' = max_retries
      BY <1>0, <3>1
    <3>. QED
      BY <3>2, <3>3, <3>4
  <2>. QED
    BY <1>1, <2>1, <2>2, <2>3 DEF run_heartbeat
<1>2. CASE StartHeartbeat \/ ProcessEnds
  BY <1>2 DEF StartHeartbeat, ProcessEnds
<1>3. CASE UNCHANGED loopVars
  BY <1>3
<1>4. UNCHANGED loopVars \/ run_heartbeat \/ StartHeartbeat \/ ProcessEnds
  BY DEF Next, vars, RegistryNext, Serve, Unreachable, DeadlinePasses, ServeLate,
         HealthCheck, RegistryCrash, RegistryRestart, Stabilise, Start, MainStep,
         LeaveWait, ShutdownServer, ShutdownNull, Drained, JoinHeartbeat, JoinMetrics,
         Return, signal_handler, Kill, MetricsStep, MetricsListen, MetricsNoSocket,
         MetricsAccept, MetricsExit, Scrape, MetricsGoes, Open, Stall, Resume, Leave,
         ClientGoes, Subscribe, ControlStream, Command, SubscribeTest, SubscribeEnds,
         WriteOk, WriteFailed, ConnectionDropped, ReadFailed, ReplyOk, ReplyFailed,
         HandlerGoes, HandlerReturns, StreamFrame
<1>. QED
  BY <1>1, <1>2, <1>3, <1>4

(* For every max_retries, and whatever the registry and the network do,    *)
(* run_heartbeat never counts past the limit, asks for a registration      *)
(* exactly at it, and registers only when it asked.  With the code's limit *)
(* of 5 the backoff 500 * (1 << (n - 1)) is at most 8000: no overflow.     *)
THEOREM CountBounded == Spec => []FailuresBounded
<1>1. CountInv => FailuresBounded
  BY DEF CountInv
<1>. QED
  BY <1>1, CountInit, CountStep, TypeCorrect, PTL DEF Spec

-----------------------------------------------------------------------------
(* The order of the shutdown.                                              *)

LEMMA PhasesInit == Init => Phases /\ OneCaller
BY DEF Init, HeartbeatInit, Phases, OneCaller

LEMMA PhasesStep == TypeOK /\ Phases /\ [Next]_vars => Phases'
<1>. SUFFICES ASSUME TypeOK, Phases, [Next]_vars PROVE Phases'
  OBVIOUS
<1>. USE DEF Phases, vars, heartbeatVars, processVars, clientVars, registryVars, loopVars
<1>1. CASE RegistryNext /\ UNCHANGED processVars
  BY <1>1 DEF RegistryNext, Serve, Unreachable, DeadlinePasses, ServeLate, HealthCheck,
              RegistryCrash, RegistryRestart, Stabilise
<1>2. CASE run_heartbeat /\ UNCHANGED processVars
  BY <1>2 DEF run_heartbeat, BeatTest, BeatExit, Reregistered, ReregisterFailed,
              HeartbeatOk, HeartbeatFailed, Sends
<1>3. CASE Start \/ StartHeartbeat \/ LeaveWait \/ ShutdownServer \/ signal_handler
  BY <1>3 DEF Start, StartHeartbeat, LeaveWait, ShutdownServer, signal_handler
<1>4. CASE Drained \/ JoinHeartbeat \/ JoinMetrics
  BY <1>4 DEF Drained, JoinHeartbeat, JoinMetrics
<1>5. CASE ProcessEnds
  BY <1>5 DEF ProcessEnds
<1>6. CASE MetricsStep \/ Scrape
  BY <1>6 DEF MetricsStep, MetricsListen, MetricsNoSocket, MetricsAccept, MetricsExit,
              Scrape, MetricsGoes
<1>7. ASSUME NEW s \in Stream, Open(s) PROVE Phases'
  BY <1>7 DEF Open, StreamFrame, TypeOK, MainPC
<1>8. ASSUME NEW s \in Stream, Stall(s) \/ Resume(s) \/ Leave(s) PROVE Phases'
  BY <1>8 DEF Stall, Resume, Leave, ClientGoes, StreamFrame
<1>9. ASSUME NEW s \in Stream, Subscribe(s) \/ ControlStream(s) \/ Command(s)
      PROVE  Phases'
  BY <1>9 DEF Subscribe, ControlStream, Command, SubscribeTest, SubscribeEnds, WriteOk,
              WriteFailed, ConnectionDropped, ReadFailed, ReplyOk, ReplyFailed,
              HandlerGoes, HandlerReturns, StreamFrame
<1>10. CASE UNCHANGED vars
  BY <1>10
<1>. QED
  BY <1>1, <1>2, <1>3, <1>4, <1>5, <1>6, <1>7, <1>8, <1>9, <1>10
     DEF Next, MainStep, ShutdownNull, Return, Kill

LEMMA OneCallerStep == TypeOK /\ Phases /\ OneCaller /\ [Next]_vars => OneCaller'
<1>. SUFFICES ASSUME TypeOK, Phases, OneCaller, [Next]_vars PROVE OneCaller'
  OBVIOUS
<1>. USE DEF OneCaller, vars, heartbeatVars, processVars, clientVars, registryVars, loopVars
<1>1. CASE RegistryNext /\ UNCHANGED processVars
  BY <1>1 DEF RegistryNext, Serve, Unreachable, DeadlinePasses, ServeLate, HealthCheck,
              RegistryCrash, RegistryRestart, Stabilise, Method
<1>2. CASE run_heartbeat /\ UNCHANGED processVars
  BY <1>2 DEF run_heartbeat, BeatTest, BeatExit, Reregistered, ReregisterFailed,
              HeartbeatOk, HeartbeatFailed, Sends, Phases
<1>3. CASE Start \/ StartHeartbeat \/ ProcessEnds
  BY <1>3 DEF Start, StartHeartbeat, ProcessEnds, Phases
<1>4. CASE LeaveWait \/ ShutdownServer \/ Drained \/ JoinHeartbeat \/ JoinMetrics
  BY <1>4 DEF LeaveWait, ShutdownServer, Drained, JoinHeartbeat, JoinMetrics
<1>5. CASE UNCHANGED <<call, main, beat>>
  BY <1>5
<1>6. \/ RegistryNext /\ UNCHANGED processVars
      \/ run_heartbeat /\ UNCHANGED processVars
      \/ Start \/ StartHeartbeat \/ ProcessEnds
      \/ LeaveWait \/ ShutdownServer \/ Drained \/ JoinHeartbeat \/ JoinMetrics
      \/ UNCHANGED <<call, main, beat>>
  BY DEF Next, MainStep, ShutdownNull, Return, signal_handler, Kill,
         MetricsStep, MetricsListen, MetricsNoSocket, MetricsAccept, MetricsExit,
         Scrape, MetricsGoes, Open, Stall, Resume, Leave, ClientGoes, Subscribe,
         ControlStream, Command, SubscribeTest, SubscribeEnds, WriteOk, WriteFailed,
         ConnectionDropped, ReadFailed, ReplyOk, ReplyFailed, HandlerGoes,
         HandlerReturns, StreamFrame
<1>. QED
  BY <1>1, <1>2, <1>3, <1>4, <1>5, <1>6

(* The process has at most one call outstanding, main's registration or    *)
(* the heartbeat thread's: the stub is never used by both threads at once, *)
(* and the one variable call of the model loses nothing.                   *)
THEOREM CallsExclusive == Spec => []OneCaller
<1>1. Init => Phases /\ OneCaller
  BY PhasesInit
<1>. QED
  BY <1>1, PhasesStep, OneCallerStep, TypeCorrect, PTL DEF Spec

(* For any number of streams: when main of the emulator shuts the logger   *)
(* down, no heartbeat thread, metrics thread or handler is left.           *)
THEOREM LoggerLast == Spec => []LoggerOutlivesItsUsers
<1>1. Phases => LoggerOutlivesItsUsers
  BY DEF Phases, LoggerOutlivesItsUsers
<1>2. Init => Phases
  BY PhasesInit
<1>. QED
  BY <1>1, <1>2, PhasesStep, TypeCorrect, PTL DEF Spec

=============================================================================
