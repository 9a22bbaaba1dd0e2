------------------------------ MODULE Registry ------------------------------
(***************************************************************************)
(* The registry_server process: the RPC handlers of RegistryServiceImpl    *)
(* (src/registry/registry_service.cpp), the HealthChecker thread           *)
(* (src/registry/health_checker.cpp) and main() of                         *)
(* examples/registry_server.cpp, all working on one NodeTable.             *)
(*                                                                         *)
(* gRPC runs every handler on a thread of its own, so the process has      *)
(* three kinds of actors: main, the checker thread and the calls.  A       *)
(* handler is split where it touches state the others share: Register      *)
(* reads is_running_, draws a random number, and only then enters the      *)
(* table; the other handlers touch shared state once.                      *)
(*                                                                         *)
(* A Call is a slot for one RPC as its client sees it: an answer stays in  *)
(* the slot until the client has read it, also when the process dies.      *)
(***************************************************************************)
EXTENDS Integers, NodeTable

CONSTANTS
    Call,                    \* slots for concurrent RPCs
    NoInfo,                  \* a RegisterRequest without node_info
    Requests,                \* the requests clients send
    max_missed_heartbeats_,  \* threshold of the health checker
    PortMayBeTaken,          \* whether BuildAndStart may return nullptr
    MayCrash,                \* whether the process may be killed
    MaxRands                 \* bound: calls of std::rand in one process life

RegisterRequest   == [method : {"Register"}, node_info : NodeInfo \cup {NoInfo}]
HeartbeatRequest  == [method : {"Heartbeat"}, node_id : Id, session_id : Session]
DeregisterRequest == [method : {"Deregister"}, node_id : Id]
DiscoverRequest   == [method : {"Discover"}, service_filter : SUBSET Service]

Request == RegisterRequest \cup HeartbeatRequest
             \cup DeregisterRequest \cup DiscoverRequest

ASSUME NoInfoAssumption == NoInfo \notin NodeInfo
ASSUME RequestsAssumption == \A r \in Requests : r \in Request
ASSUME ThresholdAssumption == max_missed_heartbeats_ \in 1 .. (CounterMod - 1)
ASSUME SwitchAssumption == PortMayBeTaken \in BOOLEAN /\ MayCrash \in BOOLEAN
ASSUME RandsAssumption == MaxRands \in Nat

VARIABLES
    main,            \* what main() does next
    g_running,       \* cleared by signal_handler
    server,          \* the grpc::Server: none (nullptr), listening, stopped
    is_running_,     \* RegistryServiceImpl::is_running_
    hc_is_running_,  \* HealthChecker::is_running_
    stop_requested,  \* stop state of checker_thread_
    checker,         \* what the checker thread does next
    rands,           \* how many numbers std::rand has returned in this process
    handler,         \* [Call -> what the handler of the call does next]
    request,         \* [Call -> the request it serves]
    session,         \* [Call -> the session id Register made]
    reply,           \* [Call -> the status and response it returned]
    late             \* history: the call arrived after Shutdown()

mainVars    == <<main, g_running, server, is_running_>>
checkerVars == <<hc_is_running_, stop_requested, checker>>
callVars    == <<handler, request, session, reply, late>>
vars        == <<nodes_, mainVars, checkerVars, rands, callVars>>

MainPC == {"down", "build", "start_checker", "wait", "shutdown_service",
           "shutdown_server", "server_wait", "stop_checker", "join", "destroy"}

CheckerPC == {"none", "loop", "sleep", "increment", "remove", "exited"}

HandlerPC == {"idle", "entered", "insert", "done"}

Status == {"PENDING", "OK", "UNAVAILABLE", "INVALID_ARGUMENT",
           "ALREADY_EXISTS", "NOT_FOUND"}

NoSession == <<EmptyId, 0>>
NoRequest == [method |-> "None"]

(* One record for the four response messages: a field that a handler does  *)
(* not set has its protobuf default.                                       *)
Response == [status           : Status,
             session_id       : Session,
             should_reconnect : BOOLEAN,
             nodes            : SUBSET NodeInfo]

Answer(status) == [status           |-> status,
                   session_id       |-> NoSession,
                   should_reconnect |-> FALSE,
                   nodes            |-> {}]

InFlight(c) == handler[c] \in {"entered", "insert"}

Init ==
    /\ nodes_ = EmptyTable
    /\ main = "down"
    /\ g_running = TRUE
    /\ server = "none"
    /\ is_running_ = FALSE
    /\ hc_is_running_ = FALSE
    /\ stop_requested = FALSE
    /\ checker = "none"
    /\ rands = 0
    /\ handler = [c \in Call |-> "idle"]
    /\ request = [c \in Call |-> NoRequest]
    /\ session = [c \in Call |-> NoSession]
    /\ reply = [c \in Call |-> Answer("PENDING")]
    /\ late = [c \in Call |-> FALSE]

-----------------------------------------------------------------------------
(* main() of the registry server.                                          *)

(* A new process: globals, the service with its empty table, the checker.  *)
Construct ==
    /\ main = "down"
    /\ main' = "build"
    /\ nodes_' = EmptyTable
    /\ g_running' = TRUE
    /\ server' = "none"
    /\ is_running_' = TRUE
    /\ hc_is_running_' = FALSE
    /\ stop_requested' = FALSE
    /\ checker' = "none"
    /\ rands' = 0
    /\ UNCHANGED callVars

(* BuildAndStart returns nullptr when the port cannot be bound; main does  *)
(* not look at the result.                                                 *)
BuildAndStart ==
    /\ main = "build"
    /\ main' = "start_checker"
    /\ \/ server' = "listening"
       \/ PortMayBeTaken /\ server' = "none"
    /\ UNCHANGED <<nodes_, g_running, is_running_, checkerVars, rands, callVars>>

(* HealthChecker::start(), then signal().  A signal that arrives before    *)
(* that kills the process, which is Crash.                                 *)
StartChecker ==
    /\ main = "start_checker"
    /\ main' = "wait"
    /\ IF hc_is_running_
       THEN UNCHANGED <<stop_requested, checker>>
       ELSE stop_requested' = FALSE /\ checker' = "loop"
    /\ hc_is_running_' = TRUE
    /\ UNCHANGED <<nodes_, g_running, server, is_running_, rands, callVars>>

signal_handler ==
    /\ main = "wait"
    /\ g_running
    /\ g_running' = FALSE
    /\ UNCHANGED <<nodes_, main, server, is_running_, checkerVars, rands, callVars>>

LeaveWait ==
    /\ main = "wait"
    /\ ~g_running
    /\ main' = "shutdown_service"
    /\ UNCHANGED <<nodes_, g_running, server, is_running_, checkerVars, rands, callVars>>

(* RegistryServiceImpl::Shutdown().                                        *)
ServiceShutdown ==
    /\ main = "shutdown_service"
    /\ main' = "shutdown_server"
    /\ is_running_' = FALSE
    /\ UNCHANGED <<nodes_, g_running, server, checkerVars, rands, callVars>>

ServerShutdown ==
    /\ main = "shutdown_server"
    /\ server = "listening"
    /\ main' = "server_wait"
    /\ server' = "stopped"
    /\ UNCHANGED <<nodes_, g_running, is_running_, checkerVars, rands, callVars>>

(* Mutant: the table goes away under the handlers that still run.          *)
Bug_ServerWait ==
    /\ main = "server_wait"
    /\ main' = "stop_checker"
    /\ UNCHANGED <<nodes_, g_running, server, is_running_, checkerVars, rands, callVars>>

(* grpc::Server::Wait() returns when every handler has returned.           *)
ServerWait ==
    /\ main = "server_wait"
    /\ \A c \in Call : ~InFlight(c)
    /\ main' = "stop_checker"
    /\ UNCHANGED <<nodes_, g_running, server, is_running_, checkerVars, rands, callVars>>

(* Mutant: join without request_stop.                                      *)
Bug_StopChecker ==
    /\ main = "stop_checker"
    /\ main' = IF hc_is_running_ THEN "join" ELSE "destroy"
    /\ hc_is_running_' = FALSE
    /\ UNCHANGED <<nodes_, g_running, server, is_running_, stop_requested, checker,
                   rands, callVars>>

(* HealthChecker::stop() up to the join: nothing to do, and no thread to   *)
(* wait for, unless it was running.                                        *)
StopChecker ==
    /\ main = "stop_checker"
    /\ main' = IF hc_is_running_ THEN "join" ELSE "destroy"
    /\ stop_requested' = (stop_requested \/ hc_is_running_)
    /\ hc_is_running_' = FALSE
    /\ UNCHANGED <<nodes_, g_running, server, is_running_, checker, rands, callVars>>

JoinChecker ==
    /\ main = "join"
    /\ checker = "exited"
    /\ main' = "destroy"
    /\ UNCHANGED <<nodes_, g_running, server, is_running_, checkerVars, rands, callVars>>

(* main returns: the locals go, the table with the service.                *)
Destroy ==
    /\ main = "destroy"
    /\ main' = "down"
    /\ nodes_' = EmptyTable
    /\ server' = "none"
    /\ UNCHANGED <<g_running, is_running_, checkerVars, rands, callVars>>

(* Everything in the process is gone at once.  A client whose call was in  *)
(* flight sees UNAVAILABLE; one whose call was answered has its answer.    *)
ProcessDies ==
    /\ main' = "down"
    /\ nodes_' = EmptyTable
    /\ server' = "none"
    /\ is_running_' = FALSE
    /\ hc_is_running_' = FALSE
    /\ stop_requested' = FALSE
    /\ checker' = "none"
    /\ handler' = [c \in Call |-> IF InFlight(c) THEN "done" ELSE handler[c]]
    /\ reply' = [c \in Call |-> IF InFlight(c) THEN Answer("UNAVAILABLE") ELSE reply[c]]
    /\ UNCHANGED <<g_running, rands, request, session, late>>

(* server->Shutdown() on the nullptr that BuildAndStart returned.          *)
ServerShutdownOnNull ==
    /\ main = "shutdown_server"
    /\ server = "none"
    /\ ProcessDies

Crash ==
    /\ MayCrash
    /\ main # "down"
    /\ ProcessDies

(* One run of main(), once the process has been started.                   *)
Main ==
    \/ BuildAndStart \/ StartChecker
    \/ LeaveWait \/ ServiceShutdown \/ ServerShutdown \/ ServerShutdownOnNull
    \/ ServerWait \/ StopChecker \/ JoinChecker \/ Destroy

-----------------------------------------------------------------------------
(* HealthChecker::run_loop.                                                *)

LoopTest ==
    /\ checker = "loop"
    /\ checker' = IF stop_requested THEN "exited" ELSE "sleep"
    /\ UNCHANGED <<nodes_, mainVars, hc_is_running_, stop_requested, rands, callVars>>

(* The sleep ends and the stop token is read again.                        *)
Wake ==
    /\ checker = "sleep"
    /\ checker' = IF stop_requested THEN "exited" ELSE "increment"
    /\ UNCHANGED <<nodes_, mainVars, hc_is_running_, stop_requested, rands, callVars>>

Increment ==
    /\ checker = "increment"
    /\ increment_all_missed_heartbeats
    /\ checker' = "remove"
    /\ UNCHANGED <<mainVars, hc_is_running_, stop_requested, rands, callVars>>

(* The count and the log lines that follow change nothing.                 *)
RemoveStale ==
    /\ checker = "remove"
    /\ remove_stale_nodes(max_missed_heartbeats_)
    /\ checker' = "loop"
    /\ UNCHANGED <<mainVars, hc_is_running_, stop_requested, rands, callVars>>

run_loop == LoopTest \/ Wake \/ Increment \/ RemoveStale

-----------------------------------------------------------------------------
(* The RPC handlers.                                                       *)

RegistersInFlight == {c \in Call : handler[c] = "entered"}

(* gRPC accepts a call and starts its handler.  MaxRands bounds the        *)
(* session ids handed out, by bounding the calls that may ask for one.     *)
Arrive(c, req) ==
    /\ handler[c] = "idle"
    /\ server = "listening"
    /\ req.method = "Register" => rands + Cardinality(RegistersInFlight) < MaxRands
    /\ handler' = [handler EXCEPT ![c] = "entered"]
    /\ request' = [request EXCEPT ![c] = req]
    /\ late' = [late EXCEPT ![c] = ~is_running_]
    /\ UNCHANGED <<nodes_, mainVars, checkerVars, rands, session, reply>>

Finish(c, answer) ==
    /\ handler' = [handler EXCEPT ![c] = "done"]
    /\ reply' = [reply EXCEPT ![c] = answer]
    /\ UNCHANGED <<mainVars, checkerVars, request, late>>

Serves(c, method) == handler[c] = "entered" /\ request[c].method = method

(* Mutant: the check for an empty id is missing.                           *)
Bug_ValidInfo(info) == info # NoInfo

ValidInfo(info) == info # NoInfo /\ info.node_id # EmptyId

(* Register: refused because the service is shutting down, or because the  *)
(* request names no node.                                                  *)
RegisterRefused(c) ==
    /\ Serves(c, "Register")
    /\ \/ ~is_running_ /\ Finish(c, Answer("UNAVAILABLE"))
       \/ /\ is_running_
          /\ ~ValidInfo(request[c].node_info)
          /\ Finish(c, Answer("INVALID_ARGUMENT"))
    /\ UNCHANGED <<nodes_, rands, session>>

(* Mutant: is_running_ is not looked at.                                   *)
Bug_RegisterAdmitted(c) ==
    /\ Serves(c, "Register")
    /\ ValidInfo(request[c].node_info)
    /\ rands' = rands + 1
    /\ session' = [session EXCEPT ![c] = <<request[c].node_info.node_id, rands + 1>>]
    /\ handler' = [handler EXCEPT ![c] = "insert"]
    /\ UNCHANGED <<nodes_, mainVars, checkerVars, request, reply, late>>

(* Register: past the checks, the session id is made.  std::rand is never  *)
(* seeded: its k-th number is the same in every process, and stands as k.  *)
RegisterAdmitted(c) ==
    /\ Serves(c, "Register")
    /\ is_running_
    /\ ValidInfo(request[c].node_info)
    /\ rands' = rands + 1
    /\ session' = [session EXCEPT ![c] = <<request[c].node_info.node_id, rands + 1>>]
    /\ handler' = [handler EXCEPT ![c] = "insert"]
    /\ UNCHANGED <<nodes_, mainVars, checkerVars, request, reply, late>>

(* Mutant: is_running_ is read again, and an admitted call is dropped.     *)
Bug_RegisterInsert(c) ==
    /\ handler[c] = "insert"
    /\ \E inserted \in BOOLEAN :
        /\ register_node(request[c].node_info, session[c], inserted)
        /\ Finish(c, IF ~is_running_
                     THEN Answer("UNAVAILABLE")
                     ELSE IF inserted
                     THEN [Answer("OK") EXCEPT !.session_id = session[c]]
                     ELSE Answer("ALREADY_EXISTS"))
    /\ UNCHANGED <<rands, session>>

(* Register: is_running_ is not read again before the table is entered.    *)
RegisterInsert(c) ==
    /\ handler[c] = "insert"
    /\ \E inserted \in BOOLEAN :
        /\ register_node(request[c].node_info, session[c], inserted)
        /\ Finish(c, IF inserted
                     THEN [Answer("OK") EXCEPT !.session_id = session[c]]
                     ELSE Answer("ALREADY_EXISTS"))
    /\ UNCHANGED <<rands, session>>

Heartbeat(c) ==
    /\ Serves(c, "Heartbeat")
    /\ \/ /\ request[c].node_id = EmptyId
          /\ Finish(c, Answer("INVALID_ARGUMENT"))
          /\ UNCHANGED nodes_
       \/ /\ request[c].node_id # EmptyId
          /\ \E found \in BOOLEAN :
              /\ update_heartbeat(request[c].node_id, found)
              /\ Finish(c, IF found
                           THEN Answer("OK")
                           ELSE [Answer("NOT_FOUND") EXCEPT !.should_reconnect = TRUE])
    /\ UNCHANGED <<rands, session>>

Deregister(c) ==
    /\ Serves(c, "Deregister")
    /\ \E removed \in BOOLEAN :
        /\ deregister_node(request[c].node_id, removed)
        /\ Finish(c, Answer(IF removed THEN "OK" ELSE "NOT_FOUND"))
    /\ UNCHANGED <<rands, session>>

Discover(c) ==
    /\ Serves(c, "Discover")
    /\ Finish(c, [Answer("OK") EXCEPT
                    !.nodes = {e.info : e \in
                                 get_nodes_by_service(request[c].service_filter)}])
    /\ UNCHANGED <<nodes_, rands, session>>

Handle(c) ==
    \/ RegisterRefused(c) \/ RegisterAdmitted(c) \/ RegisterInsert(c)
    \/ Heartbeat(c) \/ Deregister(c) \/ Discover(c)

(* The client reads the answer, and the slot is free for another call.     *)
Return(c) ==
    /\ handler[c] = "done"
    /\ handler' = [handler EXCEPT ![c] = "idle"]
    /\ request' = [request EXCEPT ![c] = NoRequest]
    /\ session' = [session EXCEPT ![c] = NoSession]
    /\ reply' = [reply EXCEPT ![c] = Answer("PENDING")]
    /\ late' = [late EXCEPT ![c] = FALSE]
    /\ UNCHANGED <<nodes_, mainVars, checkerVars, rands>>

-----------------------------------------------------------------------------
Next ==
    \/ Construct \/ Main \/ signal_handler \/ Crash
    \/ run_loop
    \/ \E c \in Call :
        \/ \E req \in Requests : Arrive(c, req)
        \/ Handle(c)
        \/ Return(c)

Spec == Init /\ [][Next]_vars

(* The threads that exist get to run: main, the checker and the handlers.  *)
(* Nobody has to start the process, send a signal or make a call.          *)
Fairness ==
    /\ WF_vars(Main)
    /\ WF_vars(run_loop)
    /\ \A c \in Call : WF_vars(Handle(c))

FairSpec == Spec /\ Fairness

-----------------------------------------------------------------------------
(* Safety.                                                                 *)

(* Every variable has its type.                                            *)
TypeOK ==
    /\ TableOK
    /\ main \in MainPC
    /\ g_running \in BOOLEAN
    /\ server \in {"none", "listening", "stopped"}
    /\ is_running_ \in BOOLEAN
    /\ hc_is_running_ \in BOOLEAN
    /\ stop_requested \in BOOLEAN
    /\ checker \in CheckerPC
    /\ rands \in Nat
    /\ handler \in [Call -> HandlerPC]
    /\ request \in [Call -> Requests \cup {NoRequest}]
    /\ session \in [Call -> Session]
    /\ reply \in [Call -> Response]
    /\ late \in [Call -> BOOLEAN]

(* Concurrent calls of Register never push the table past max_nodes_.      *)
CapacityBound == IsFiniteSet(DOMAIN nodes_) /\ Cardinality(DOMAIN nodes_) <= max_nodes_

(* An entry is stored under the id its NodeInfo carries, that id is not    *)
(* empty, and its session id was made for that node: the checks of         *)
(* Register cover every way into the table.                                *)
KeyedByOwner ==
    \A id \in DOMAIN nodes_ :
        /\ id \in NodeId
        /\ nodes_[id].info.node_id = id
        /\ nodes_[id].session_id[1] = id

(* However RPCs interleave with the two separately locked steps of a       *)
(* health check, a counter reaches the threshold only between them, and    *)
(* never passes it.  So the uint32_t counter cannot wrap around to 0 and   *)
(* turn a dead node into a healthy one.                                    *)
MissedBound ==
    \A id \in DOMAIN nodes_ :
        nodes_[id].missed_heartbeats <=
            IF checker = "remove" THEN max_missed_heartbeats_
                                  ELSE max_missed_heartbeats_ - 1

(* main destroys the table when no handler and no checker thread is left   *)
(* to use it: the order of the shutdown sequence, and the waits in it.     *)
TableOutlivesItsUsers ==
    main \in {"down", "build"} =>
        /\ checker \in {"none", "exited"}
        /\ \A c \in Call : ~InFlight(c)

(* A Register that arrives after Shutdown() was called stores nothing:     *)
(* one that was admitted before may still do so.                           *)
NoLateRegistration ==
    \A c \in Call :
        (late[c] /\ request[c].method = "Register") =>
            /\ handler[c] # "insert"
            /\ reply[c].status \in {"PENDING", "UNAVAILABLE"}

(* The table as a directory of leases: an entry is a lease that its        *)
(* session owns, and every miss the threshold still allows is a credit.    *)
leases ==
    [id \in DOMAIN nodes_ |->
       [owner  |-> nodes_[id].session_id,
        credit |-> max_missed_heartbeats_ - nodes_[id].missed_heartbeats]]

(* The ids that the Deregister calls in flight name.                       *)
Deregistering == {request[c].node_id : c \in {d \in Call : Serves(d, "Deregister")}}

Directory == INSTANCE LeaseDirectory WITH
    Name     <- NodeId,
    Owner    <- Session,
    Term     <- max_missed_heartbeats_,
    Capacity <- max_nodes_,
    lease    <- leases,
    open     <- (main # "down"),
    asked    <- Deregistering

(* The table behaves as a directory of leases: registering is granting a   *)
(* lease under the capacity, a heartbeat renews it, and apart from a       *)
(* Deregister of that id and the end of the process only a health check    *)
(* that finds max_missed_heartbeats_ unanswered increments takes an entry. *)
ImplementsDirectory == Directory!Spec

-----------------------------------------------------------------------------
(* Liveness.                                                               *)

(* After SIGINT or SIGTERM the process ends, whatever calls are in flight. *)
GracefulExit == (main = "wait" /\ ~g_running) ~> (main = "down")

(* A Register that was admitted is answered from the table, also when      *)
(* Shutdown() comes in between: "Existing in-flight requests will complete *)
(* normally" (registry_service.h:60).                                      *)
InFlightCompletes ==
    \A c \in Call :
        (handler[c] = "insert") ~>
            (handler[c] = "done" /\ reply[c].status \in {"OK", "ALREADY_EXISTS"})

Mentions(c, n) ==
    /\ InFlight(c)
    /\ \/ request[c].method = "Register" /\ request[c].node_info # NoInfo
                                         /\ request[c].node_info.node_id = n
       \/ request[c].method = "Heartbeat" /\ request[c].node_id = n

(* While the server runs, a node that is never heard of again is evicted   *)
(* for good.                                                               *)
StaleEvicted ==
    \A n \in NodeId :
        <>[](main = "wait" /\ \A c \in Call : ~Mentions(c, n))
            => <>[](n \notin DOMAIN nodes_)

-----------------------------------------------------------------------------
(* What comments of the code say, and the code does not do.                *)

(* "Unique session ID for heartbeat validation" (node_table.h:20): a       *)
(* heartbeat is accepted only with the session id of the entry it renews.  *)
SessionValidated ==
    [][\A c \in Call :
         (Serves(c, "Heartbeat") /\ handler'[c] = "done" /\ reply'[c].status = "OK")
             => request[c].session_id = nodes_[request[c].node_id].session_id]_vars

=============================================================================
