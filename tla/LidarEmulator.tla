--------------------------- MODULE LidarEmulator ---------------------------
(***************************************************************************)
(* The process examples/lidar_emulator.cpp: main, the thread that serves   *)
(* the metrics over HTTP, the handlers of the node's own gRPC service, and *)
(* the heartbeat thread of LidarHeartbeat.  Signals arrive at any time;    *)
(* the process may be killed, and is started again after it ended.         *)
(*                                                                         *)
(* GetStatus and Publish touch no state and are left out, as is the        *)
(* branch of ControlStream for too many pending commands: pending is 0     *)
(* whenever it is tested.                                                  *)
(***************************************************************************)
EXTENDS LidarHeartbeat

CONSTANTS
    Stream,                    \* the streams that clients have open at once
    kMaxBackpressureRetries,
    ClientsLeave,  \* whether every client of a stream leaves in the end
    Scraped        \* whether clients of the metrics port keep coming

ASSUME ProcessAssumption ==
    /\ kMaxBackpressureRetries \in Nat \ {0}
    /\ ClientsLeave \in BOOLEAN /\ Scraped \in BOOLEAN

VARIABLES
    main,          \* what main does next; "down": there is no process
    node_server,   \* "nullptr", "serving", or "shut" to new calls
    metrics,       \* what the metrics thread does next
    handler,       \* [Stream -> what the handler of a stream does next]
    failures,      \* [Stream -> consecutive_failures, the local of Subscribe]
    client         \* [Stream -> "reading", "stalled" or "gone"]

clientVars  == <<handler, failures, client>>
processVars == <<main, node_server, metrics, clientVars>>
heartbeatVars == <<registryVars, late, call, g_running, heartbeat_running, loopVars>>
vars == <<heartbeatVars, processVars>>

MainPC    == {"down", "register", "wait", "shutdown", "draining",
              "join_beat", "join_metrics", "last"}
MetricsPC == {"none", "setup", "test", "accept", "exited"}
HandlerPC == {"none", "test", "write", "read", "reply"}

Each(value) == [s \in Stream |-> value]

Init ==
    /\ HeartbeatInit
    /\ main = "down" /\ node_server = "nullptr" /\ metrics = "none"
    /\ handler = Each("none") /\ failures = Each(0) /\ client = Each("gone")

-----------------------------------------------------------------------------
(* main.  Port 50052 may be taken: BuildAndStart returns nullptr, and      *)
(* main goes on all the same.                                              *)

Start ==
    /\ main = "down"
    /\ node_server' \in {"nullptr", "serving"}
    /\ metrics' = "setup"
    /\ g_running' = TRUE
    /\ call' = "Register"
    /\ main' = "register"
    /\ UNCHANGED <<registryVars, late, heartbeat_running, loopVars, clientVars>>

(* try_register_node has its answer; whichever, the heartbeat thread runs. *)
StartHeartbeat ==
    /\ main = "register" /\ call \in Answer
    /\ call' = "none"
    /\ heartbeat_running' = TRUE
    /\ beat' = "loop" /\ consecutive_failures' = 0 /\ needs_reregister' = FALSE
    /\ main' = "wait"
    /\ UNCHANGED <<registryVars, late, g_running, node_server, metrics, clientVars>>

LeaveWait ==
    /\ main = "wait" /\ ~g_running
    /\ main' = "shutdown"
    /\ UNCHANGED <<heartbeatVars, node_server, metrics, clientVars>>

(* The process is no more.  A call that it has sent may still be served.   *)
ProcessEnds ==
    /\ main' = "down" /\ node_server' = "nullptr" /\ metrics' = "none"
    /\ handler' = Each("none") /\ failures' = Each(0) /\ client' = Each("gone")
    /\ heartbeat_running' = FALSE
    /\ beat' = "none" /\ consecutive_failures' = 0 /\ needs_reregister' = FALSE
    /\ call' = "none" /\ late' = (late \/ call = "Register")
    /\ UNCHANGED <<registryVars, g_running>>

ShutdownServer ==
    /\ main = "shutdown" /\ node_server = "serving"
    /\ node_server' = "shut"
    /\ main' = "draining"
    /\ UNCHANGED <<heartbeatVars, metrics, clientVars>>

(* node_server->Shutdown() through a null pointer.                         *)
ShutdownNull ==
    /\ main = "shutdown" /\ node_server = "nullptr"
    /\ ProcessEnds

(* Shutdown() without a deadline returns when every handler has.           *)
Drained ==
    /\ main = "draining"
    /\ \A s \in Stream : handler[s] = "none"
    /\ heartbeat_running' = FALSE
    /\ main' = "join_beat"
    /\ UNCHANGED <<registryVars, late, call, g_running, loopVars,
                   node_server, metrics, clientVars>>

JoinHeartbeat ==
    /\ main = "join_beat" /\ beat = "exited"
    /\ main' = "join_metrics"
    /\ UNCHANGED <<heartbeatVars, node_server, metrics, clientVars>>

Bug_JoinMetrics ==
    /\ main = "join_metrics"
    /\ main' = "last"
    /\ UNCHANGED <<heartbeatVars, node_server, metrics, clientVars>>

JoinMetrics ==
    /\ main = "join_metrics" /\ metrics = "exited"
    /\ main' = "last"
    /\ UNCHANGED <<heartbeatVars, node_server, metrics, clientVars>>

(* Wait() returns at once, the logger goes, and main returns.              *)
Return ==
    /\ main = "last"
    /\ ProcessEnds

signal_handler ==
    /\ main # "down" /\ g_running
    /\ g_running' = FALSE
    /\ UNCHANGED <<registryVars, late, call, heartbeat_running, loopVars, processVars>>

Kill ==
    /\ ~stable /\ main # "down"
    /\ ProcessEnds

MainStep ==
    \/ StartHeartbeat \/ LeaveWait \/ ShutdownServer \/ ShutdownNull \/ Drained
    \/ JoinHeartbeat \/ JoinMetrics \/ Return

-----------------------------------------------------------------------------
(* The metrics thread.  In "accept" it waits for a client, and then for    *)
(* the request of that client.  A signal does not interrupt it: signal()   *)
(* installs handlers with SA_RESTART.                                      *)

MetricsGoes(from, to) ==
    /\ metrics = from /\ metrics' = to
    /\ UNCHANGED <<heartbeatVars, main, node_server, clientVars>>

MetricsListen == MetricsGoes("setup", "test")
MetricsNoSocket == MetricsGoes("setup", "exited")
Bug_MetricsAccept == MetricsGoes("test", "accept")
MetricsAccept == g_running /\ MetricsGoes("test", "accept")
MetricsExit == ~g_running /\ MetricsGoes("test", "exited")
(* A client comes and is answered, or left before it was accepted.         *)
Scrape == MetricsGoes("accept", "test")

MetricsStep == MetricsListen \/ MetricsNoSocket \/ MetricsAccept \/ MetricsExit

-----------------------------------------------------------------------------
(* The handlers of streams and their clients.                              *)

StreamFrame == UNCHANGED <<heartbeatVars, main, node_server, metrics>>

HandlerGoes(s, from, to) ==
    /\ handler[s] = from /\ handler' = [handler EXCEPT ![s] = to]
    /\ UNCHANGED client /\ StreamFrame

(* The stream ends with its handler, and so does what the client did.      *)
HandlerReturns(s, from) ==
    /\ handler[s] = from /\ handler' = [handler EXCEPT ![s] = "none"]
    /\ client' = [client EXCEPT ![s] = "gone"]
    /\ failures' = [failures EXCEPT ![s] = 0]
    /\ StreamFrame

ClientGoes(s, from, to) ==
    /\ client[s] = from /\ client' = [client EXCEPT ![s] = to]
    /\ UNCHANGED <<handler, failures>> /\ StreamFrame

Open(s) ==
    /\ node_server = "serving" /\ handler[s] = "none"
    /\ \E pc \in {"test", "read"} : handler' = [handler EXCEPT ![s] = pc]
    /\ client' = [client EXCEPT ![s] = "reading"]
    /\ UNCHANGED failures /\ StreamFrame

Stall(s) == ClientGoes(s, "reading", "stalled")
Resume(s) == ClientGoes(s, "stalled", "reading")
Leave(s) == ClientGoes(s, "reading", "gone") \/ ClientGoes(s, "stalled", "gone")

SubscribeTest(s) == g_running /\ HandlerGoes(s, "test", "write") /\ UNCHANGED failures
SubscribeEnds(s) == ~g_running /\ HandlerReturns(s, "test")

(* Write is true when the message is taken, false when the stream is dead, *)
(* and blocks while the client's window is full.                           *)
WriteOk(s) ==
    /\ client[s] = "reading"
    /\ HandlerGoes(s, "write", "test")
    /\ failures' = [failures EXCEPT ![s] = 0]

Bug_WriteFailed(s) ==
    /\ client[s] = "gone"
    /\ HandlerGoes(s, "write", "test")
    /\ UNCHANGED failures

Bug_WriteFailed_NoLimit(s) ==
    /\ client[s] = "gone" /\ failures[s] <= kMaxBackpressureRetries
    /\ HandlerGoes(s, "write", "test")
    /\ failures' = [failures EXCEPT ![s] = @ + 1]

WriteFailed(s) ==
    /\ client[s] = "gone" /\ failures[s] + 1 < kMaxBackpressureRetries
    /\ HandlerGoes(s, "write", "test")
    /\ failures' = [failures EXCEPT ![s] = @ + 1]

ConnectionDropped(s) ==
    /\ client[s] = "gone" /\ failures[s] + 1 >= kMaxBackpressureRetries
    /\ HandlerReturns(s, "write")

(* Read returns when the client sends a command or is gone.                *)
Command(s) == client[s] # "gone" /\ HandlerGoes(s, "read", "reply") /\ UNCHANGED failures
ReadFailed(s) == client[s] = "gone" /\ HandlerReturns(s, "read")
ReplyOk(s) == client[s] = "reading" /\ HandlerGoes(s, "reply", "read") /\ UNCHANGED failures
ReplyFailed(s) == client[s] = "gone" /\ HandlerReturns(s, "reply")

Subscribe(s) ==
    SubscribeTest(s) \/ SubscribeEnds(s) \/ WriteOk(s) \/ WriteFailed(s) \/ ConnectionDropped(s)
ControlStream(s) == ReadFailed(s) \/ ReplyOk(s) \/ ReplyFailed(s)

-----------------------------------------------------------------------------
Next ==
    \/ (RegistryNext \/ run_heartbeat) /\ UNCHANGED processVars
    \/ Start \/ MainStep \/ signal_handler \/ Kill
    \/ MetricsStep \/ Scrape
    \/ \E s \in Stream :
          \/ Open(s) \/ Stall(s) \/ Resume(s) \/ Leave(s)
          \/ Subscribe(s) \/ ControlStream(s) \/ Command(s)

(* Threads are scheduled, calls are answered, refused or run into their    *)
(* deadlines, a registry that is down comes back and then checks for ever. *)
(* Signals, starts and faults need never happen, and what clients do is    *)
(* fair only as far as the constants say so.                               *)
Fairness ==
    /\ WF_vars((Serve \/ Unreachable) /\ UNCHANGED processVars)
    /\ WF_vars(RegistryRestart /\ UNCHANGED processVars)
    /\ SF_vars(HealthCheck /\ UNCHANGED processVars)
    /\ WF_vars(run_heartbeat /\ UNCHANGED processVars)
    /\ WF_vars(MainStep)
    /\ WF_vars(MetricsStep)
    /\ Scraped => WF_vars(Scrape)
    /\ \A s \in Stream :
          /\ WF_vars(Subscribe(s)) /\ WF_vars(ControlStream(s))
          /\ ClientsLeave => WF_vars(Leave(s))

Spec == Init /\ [][Next]_vars /\ Fairness

-----------------------------------------------------------------------------
TypeOK ==
    /\ up \in BOOLEAN /\ stable \in BOOLEAN
    /\ lease \in UNION {[S -> Directory!Lease] : S \in SUBSET {node_id}}
    /\ late \in BOOLEAN /\ call \in Method \cup Answer \cup {"none"}
    /\ g_running \in BOOLEAN /\ heartbeat_running \in BOOLEAN
    /\ beat \in BeatPC /\ needs_reregister \in BOOLEAN
    /\ consecutive_failures \in Nat
    /\ main \in MainPC /\ node_server \in {"nullptr", "serving", "shut"}
    /\ metrics \in MetricsPC
    /\ handler \in [Stream -> HandlerPC]
    /\ failures \in [Stream -> 0 .. (kMaxBackpressureRetries - 1)]
    /\ client \in [Stream -> {"reading", "stalled", "gone"}]

(* However the calls fail, however often and in whatever order, the count  *)
(* of failures stays at the limit once the node is to register again, so   *)
(* that the shift of its backoff never overflows; and it registers again   *)
(* only then.                                                              *)
FailuresBounded ==
    /\ consecutive_failures <= max_retries
    /\ needs_reregister <=> consecutive_failures = max_retries
    /\ beat = "registering" => needs_reregister

(* The logger goes last: when main shuts it down no heartbeat thread,      *)
(* metrics thread or handler is left that could log.                       *)
LoggerOutlivesItsUsers ==
    main = "last" =>
        /\ beat = "exited" /\ metrics = "exited"
        /\ \A s \in Stream : handler[s] = "none"

(* Once the faults are over the node is registered, and knows it, or it    *)
(* was told to stop: even if the registry holds a lease from a             *)
(* registration whose answer was lost, or of a process that was killed.    *)
SelfHeals ==
    (stable /\ main = "wait") ~> (Held /\ ~needs_reregister) \/ main # "wait"

(* A stream whose client is gone does not keep its handler thread.         *)
DepartedClientReleased ==
    \A s \in Stream : (client[s] = "gone") ~> (handler[s] = "none")

(* A process that is told to stop ends: main's joins and the draining of   *)
(* its server are not waited for in vain.                                  *)
Exits == ~g_running ~> (main = "down")

=============================================================================
