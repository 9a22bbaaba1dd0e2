-------------------------------- MODULE Node --------------------------------
(***************************************************************************)
(* A node of the middleware: the class drocm::node::Node of                *)
(* src/node/node_base.{h,cpp}.  Its owner calls start(), stop() and at     *)
(* last the destructor; every start() makes a heartbeat thread, which also *)
(* registers the node again when the registry asks for it.                 *)
(*                                                                         *)
(* The registry is seen from outside: it is up or down, and holds this     *)
(* node's id or not.  That is what LeaseDirectory, which Registry          *)
(* implements, leaves when only this id and nothing but the domain of the  *)
(* leases is kept.  The session id is never looked at by the registry and  *)
(* is left out.                                                            *)
(***************************************************************************)
EXTENDS Naturals, FiniteSets

CONSTANTS
    OrderArrives,        \* the registries: whether their order to reconnect arrives
    MaxStarts,           \* bound: how often start() makes a heartbeat thread
    MaxFaults,           \* bound: crashes, evictions, lost calls and answers
    base_delay_ms, max_delay_ms, max_attempts, enable_backoff,   \* ReconnectStrategy
    DelayMod             \* 2^32: delays are uint32_t

ASSUME NodeRegistries == OrderArrives \subseteq BOOLEAN
ASSUME NodeBounds == MaxStarts \in Nat /\ MaxFaults \in Nat
ASSUME StrategyAssumption ==
    /\ max_attempts \in Nat /\ enable_backoff \in BOOLEAN /\ DelayMod \in Nat \ {0}
    /\ base_delay_ms \in 0 .. (DelayMod - 1) /\ max_delay_ms \in 0 .. (DelayMod - 1)

Thread == 1 .. MaxStarts            \* the heartbeat threads, by their start()
Caller == {0} \cup Thread           \* 0 is the owner's thread

VARIABLES
    order_arrives,    \* whether this registry's order to reconnect arrives
    up,               \* the registry process runs
    registered,       \* it has this node in its table
    late,             \* [Change -> calls given up that may still be served]
    faults,           \* how many faults there were
    owner,            \* what the owner's thread does next
    destructing,      \* stop() was called by the destructor
    is_running_,
    is_registered_,
    registry_stub_,   \* FALSE: nullptr
    coro_adapter_,    \* FALSE: nullptr
    starts,           \* heartbeat threads made so far
    beat,             \* [Thread -> what the heartbeat thread does next]
    stop_requested,   \* [Thread -> its stop token]
    reconnect_attempts, delay_ms,   \* [Thread -> locals of heartbeat_loop]
    rpc,              \* [Caller -> its outstanding call]
    crashed           \* the process died of undefined behaviour

registryVars == <<order_arrives, up, registered, late, faults>>
objectVars   == <<is_running_, is_registered_, registry_stub_, coro_adapter_, starts>>
ownerVars    == <<owner, destructing>>
loopVars     == <<beat, stop_requested, reconnect_attempts, delay_ms>>
vars == <<registryVars, objectVars, ownerVars, loopVars, rpc, crashed>>

OwnerPC == {"idle", "registering", "joining", "deregistering", "teardown",
            "join_at_exit", "gone"}
BeatPC  == {"none", "loop", "sleep", "beating", "backoff", "reregistering", "exited"}
Method  == {"Register", "Heartbeat", "Deregister"}
Change  == {"Register", "Deregister"}       \* the methods that change the table

NoCall == [state |-> "none"]
Sent(method) == [state |-> "sent", method |-> method]
Answered(method, ok, reconnect) ==
    [state |-> "answered", method |-> method, ok |-> ok, should_reconnect |-> reconnect]
Call == {NoCall} \cup {Sent(m) : m \in Method}
          \cup {Answered(m, ok, r) : m \in Method, ok \in BOOLEAN, r \in BOOLEAN}

Alive(g) == beat[g] \notin {"none", "exited"}

Init ==
    /\ order_arrives \in OrderArrives
    /\ up = TRUE
    /\ registered = FALSE
    /\ late = [m \in Change |-> 0]
    /\ faults = 0
    /\ owner = "idle"
    /\ destructing = FALSE
    /\ is_running_ = FALSE
    /\ is_registered_ = FALSE
    /\ registry_stub_ = FALSE
    /\ coro_adapter_ = TRUE
    /\ starts = 0
    /\ beat = [g \in Thread |-> "none"]
    /\ stop_requested = [g \in Thread |-> FALSE]
    /\ reconnect_attempts = [g \in Thread |-> 0]
    /\ delay_ms = [g \in Thread |-> 0]
    /\ rpc = [t \in Caller |-> NoCall]
    /\ crashed = FALSE

-----------------------------------------------------------------------------
(* The registry and the network, as a node meets them.                     *)

(* A call fails without the registry's doing; the response is then empty.  *)
FailCall(t) == rpc' = [rpc EXCEPT ![t] = Answered(rpc[t].method, FALSE, FALSE)]

(* The registry refuses, and tells a node it does not know to reconnect.   *)
(* The loop looks for that order after status.ok() && resp.success() was   *)
(* false: it arrives from a registry that answers OK without success.  The *)
(* one of this repository answers NOT_FOUND, and with a status that is not *)
(* OK gRPC delivers no response message.                                   *)
Rejected(method, should_reconnect) ==
    Answered(method, FALSE, should_reconnect /\ order_arrives)

(* What a call leaves of the node's entry.                                 *)
Handled(method) ==
    CASE method = "Register"   -> TRUE
      [] method = "Heartbeat"  -> registered
      [] method = "Deregister" -> FALSE

Serve(t) ==
    /\ rpc[t].state = "sent"
    /\ up
    /\ LET method == rpc[t].method IN
       /\ rpc' = [rpc EXCEPT ![t] =
                    IF registered = (method # "Register")
                    THEN Answered(method, TRUE, FALSE)
                    ELSE Rejected(method, method = "Heartbeat")]
       /\ registered' = Handled(method)
    /\ UNCHANGED <<order_arrives, up, late, faults, objectVars, ownerVars, loopVars, crashed>>

Unreachable(t) ==
    /\ rpc[t].state = "sent"
    /\ ~up
    /\ FailCall(t)
    /\ UNCHANGED <<registryVars, objectVars, ownerVars, loopVars, crashed>>

Fault == faults < MaxFaults /\ faults' = faults + 1

(* The connection breaks before the request or the answer is through, or   *)
(* the table is full.  A request that is through already may be served     *)
(* after its client has given it up.                                       *)
CallLost(t) ==
    /\ Fault
    /\ rpc[t].state \in {"sent", "answered"}
    /\ FailCall(t)
    /\ \/ UNCHANGED late
       \/ /\ up /\ rpc[t].state = "sent" /\ rpc[t].method \in Change
          /\ late' = [late EXCEPT ![rpc[t].method] = @ + 1]
    /\ UNCHANGED <<order_arrives, up, registered, objectVars, ownerVars, loopVars, crashed>>

ServeLate(method) ==
    /\ up
    /\ late[method] > 0
    /\ late' = [late EXCEPT ![method] = @ - 1]
    /\ registered' = Handled(method)
    /\ UNCHANGED <<order_arrives, up, faults, objectVars, ownerVars, loopVars, rpc,
                   crashed>>

RegistryCrash ==
    /\ Fault
    /\ up
    /\ up' = FALSE
    /\ registered' = FALSE
    /\ late' = [m \in Change |-> 0]
    /\ UNCHANGED <<order_arrives, objectVars, ownerVars, loopVars, rpc, crashed>>

RegistryRestart ==
    /\ ~up
    /\ up' = TRUE
    /\ UNCHANGED <<order_arrives, registered, late, faults, objectVars, ownerVars, loopVars,
                   rpc, crashed>>

(* The health checker did not hear of the node for long enough.            *)
Evict ==
    /\ Fault
    /\ registered
    /\ registered' = FALSE
    /\ UNCHANGED <<order_arrives, up, late, objectVars, ownerVars, loopVars, rpc, crashed>>

-----------------------------------------------------------------------------
(* A heartbeat thread is inside a call on registry_stub_.                  *)
StubInUse == \E g \in Thread : rpc[g] # NoCall

(* start(), on the owner's thread.                                         *)

(* Returns true at once when the node runs.  A stub that an earlier,       *)
(* failed start() left is replaced, maybe under a call of the heartbeat    *)
(* thread that stop() left: undefined, as in Teardown below.               *)
Start ==
    /\ ~crashed
    /\ owner = "idle"
    /\ ~is_running_
    /\ starts < MaxStarts
    /\ owner' = "registering"
    /\ registry_stub_' = TRUE
    /\ rpc' = [rpc EXCEPT ![0] = Sent("Register")]
    /\ crashed' \in {FALSE, registry_stub_ /\ StubInUse}
    /\ UNCHANGED <<registryVars, is_running_, is_registered_, coro_adapter_, starts,
                   destructing, loopVars>>

StartFailed ==
    /\ ~crashed
    /\ owner = "registering"
    /\ rpc[0].state = "answered" /\ ~rpc[0].ok
    /\ owner' = "idle"
    /\ rpc' = [rpc EXCEPT ![0] = NoCall]
    /\ UNCHANGED <<registryVars, objectVars, destructing, loopVars, crashed>>

(* The new thread runs before the assignment to heartbeat_thread_ asks the *)
(* old one, if there is one, to stop and joins it.                         *)
StartThread ==
    /\ ~crashed
    /\ owner = "registering"
    /\ rpc[0].state = "answered" /\ rpc[0].ok
    /\ owner' = "joining"
    /\ rpc' = [rpc EXCEPT ![0] = NoCall]
    /\ is_registered_' = TRUE
    /\ starts' = starts + 1
    /\ beat' = [beat EXCEPT ![starts + 1] = "loop"]
    /\ stop_requested' = [g \in Thread |-> stop_requested[g] \/ g <= starts]
    /\ UNCHANGED <<registryVars, is_running_, registry_stub_, coro_adapter_,
                   destructing, reconnect_attempts, delay_ms, crashed>>

(* Mutant: the old thread is let go, not joined.                           *)
Bug_StartDone ==
    /\ ~crashed
    /\ owner = "joining"
    /\ owner' = "idle"
    /\ is_running_' = TRUE
    /\ UNCHANGED <<registryVars, is_registered_, registry_stub_, coro_adapter_, starts,
                   destructing, loopVars, rpc, crashed>>

StartDone ==
    /\ ~crashed
    /\ owner = "joining"
    /\ \A g \in 1 .. (starts - 1) : ~Alive(g)
    /\ owner' = "idle"
    /\ is_running_' = TRUE
    /\ UNCHANGED <<registryVars, is_registered_, registry_stub_, coro_adapter_, starts,
                   destructing, loopVars, rpc, crashed>>

-----------------------------------------------------------------------------
(* stop() and the destructor.  stop() looks at heartbeat_thread_ and does  *)
(* nothing with it.                                                        *)

StopBody ==
    IF is_registered_
    THEN owner' = "deregistering" /\ rpc' = [rpc EXCEPT ![0] = Sent("Deregister")]
    ELSE owner' = "teardown" /\ UNCHANGED rpc

(* A stop() of a node that does not run returns at once.                   *)
Stop ==
    /\ ~crashed
    /\ owner = "idle"
    /\ is_running_
    /\ StopBody
    /\ UNCHANGED <<registryVars, objectVars, destructing, loopVars, crashed>>

Destruct ==
    /\ ~crashed
    /\ owner = "idle"
    /\ destructing' = TRUE
    /\ IF is_running_ THEN StopBody
                      ELSE owner' = "join_at_exit" /\ UNCHANGED rpc
    /\ stop_requested' = IF is_running_ THEN stop_requested
                                        ELSE [g \in Thread |-> TRUE]
    /\ UNCHANGED <<registryVars, objectVars, beat, reconnect_attempts, delay_ms, crashed>>

(* Whether or not the registry knew the node.                              *)
Deregistered ==
    /\ ~crashed
    /\ owner = "deregistering"
    /\ rpc[0].state = "answered"
    /\ rpc' = [rpc EXCEPT ![0] = NoCall]
    /\ is_registered_' = FALSE
    /\ owner' = "teardown"
    /\ UNCHANGED <<registryVars, is_running_, registry_stub_, coro_adapter_, starts,
                   destructing, loopVars, crashed>>

(* coro_adapter_, the stub and the channel go.  After an earlier stop()    *)
(* coro_adapter_ is null when its shutdown() is called, and a heartbeat    *)
(* thread may be inside a call on the stub: both are undefined, and may    *)
(* kill the process or pass unnoticed.  The destructor goes on to ~jthread *)
(* of heartbeat_thread_, which asks the thread to stop and joins it.       *)
Teardown ==
    /\ ~crashed
    /\ owner = "teardown"
    /\ crashed' \in {FALSE, ~coro_adapter_ \/ StubInUse}
    /\ coro_adapter_' = FALSE
    /\ registry_stub_' = FALSE
    /\ is_running_' = FALSE
    /\ owner' = IF destructing THEN "join_at_exit" ELSE "idle"
    /\ stop_requested' = [g \in Thread |-> stop_requested[g] \/ destructing]
    /\ UNCHANGED <<registryVars, is_registered_, starts, destructing,
                   beat, reconnect_attempts, delay_ms, rpc>>

JoinAtExit ==
    /\ ~crashed
    /\ owner = "join_at_exit"
    /\ \A g \in Thread : ~Alive(g)
    /\ owner' = "gone"
    /\ UNCHANGED <<registryVars, objectVars, destructing, loopVars, rpc, crashed>>

(* The owner's thread inside start(), stop() or the destructor.            *)
OwnerStep == \/ StartFailed \/ StartThread \/ StartDone
             \/ Deregistered \/ Teardown \/ JoinAtExit

-----------------------------------------------------------------------------
(* heartbeat_loop, on heartbeat thread g.                                  *)

(* Mutant: the loop reads its stop token nowhere.                          *)
Bug_StopSeen(g) == FALSE

StopSeen(g) == stop_requested[g]

(* The test of the loop, and after the sleep the second look at the token. *)
LoopOrExit(g, next) == beat' = [beat EXCEPT ![g] = IF StopSeen(g) THEN "exited" ELSE next]

LoopTest(g) ==
    /\ ~crashed
    /\ beat[g] = "loop"
    /\ LoopOrExit(g, "sleep")
    /\ UNCHANGED <<registryVars, objectVars, ownerVars, stop_requested,
                   reconnect_attempts, delay_ms, rpc, crashed>>

(* A call through a null stub kills the process.                           *)
CallStub(g, method) ==
    IF registry_stub_
    THEN rpc' = [rpc EXCEPT ![g] = Sent(method)] /\ UNCHANGED crashed
    ELSE crashed' = TRUE /\ UNCHANGED rpc

SendHeartbeat(g) ==
    /\ ~crashed
    /\ beat[g] = "sleep"
    /\ LoopOrExit(g, "beating")
    /\ IF StopSeen(g) THEN UNCHANGED <<rpc, crashed>> ELSE CallStub(g, "Heartbeat")
    /\ UNCHANGED <<registryVars, objectVars, ownerVars, stop_requested,
                   reconnect_attempts, delay_ms>>

(* Mutant: every failed heartbeat makes the loop register again, told to   *)
(* or not, as if for the first time.                                       *)
Bug_HeartbeatAnswered(g) ==
    /\ ~crashed
    /\ beat[g] = "beating"
    /\ rpc[g].state = "answered"
    /\ reconnect_attempts' = [reconnect_attempts EXCEPT ![g] = IF rpc[g].ok THEN 0 ELSE 1]
    /\ delay_ms' = [delay_ms EXCEPT ![g] = base_delay_ms]
    /\ beat' = [beat EXCEPT ![g] = IF rpc[g].ok THEN "loop" ELSE "backoff"]
    /\ rpc' = [rpc EXCEPT ![g] = NoCall]
    /\ UNCHANGED <<registryVars, objectVars, ownerVars, stop_requested, crashed>>

HeartbeatAnswered(g) ==
    /\ ~crashed
    /\ beat[g] = "beating"
    /\ rpc[g].state = "answered"
    /\ ~rpc[g].should_reconnect
    /\ reconnect_attempts' = [reconnect_attempts EXCEPT ![g] = IF rpc[g].ok THEN 0 ELSE @]
    /\ beat' = [beat EXCEPT ![g] = "loop"]
    /\ rpc' = [rpc EXCEPT ![g] = NoCall]
    /\ UNCHANGED <<registryVars, objectVars, ownerVars, stop_requested, delay_ms, crashed>>

(* delay = base_delay_ms, doubled attempt - 1 times in uint32_t.           *)
doubled[i \in Nat] == IF i = 0 THEN base_delay_ms ELSE (2 * doubled[i - 1]) % DelayMod

(* Mutant: the larger of the two, max for min.                             *)
Bug_Capped(delay) == IF delay < max_delay_ms THEN max_delay_ms ELSE delay

Capped(delay) == IF delay < max_delay_ms THEN delay ELSE max_delay_ms

(* Without backoff the cap is not applied.                                 *)
calculate_backoff_delay(attempt) ==
    IF enable_backoff THEN Capped(doubled[attempt - 1]) ELSE base_delay_ms

(* Mutant: one attempt too many, <= for <.                                 *)
Bug_Reconnect(g) ==
    /\ ~crashed
    /\ beat[g] = "beating"
    /\ rpc[g].state = "answered"
    /\ rpc[g].should_reconnect
    /\ reconnect_attempts[g] <= max_attempts
    /\ reconnect_attempts' = [reconnect_attempts EXCEPT ![g] = @ + 1]
    /\ delay_ms' = [delay_ms EXCEPT ![g] =
                       calculate_backoff_delay(reconnect_attempts[g] + 1)]
    /\ beat' = [beat EXCEPT ![g] = "backoff"]
    /\ rpc' = [rpc EXCEPT ![g] = NoCall]
    /\ UNCHANGED <<registryVars, objectVars, ownerVars, stop_requested, crashed>>

(* Told to reconnect: back off and register, or give up for good.          *)
Reconnect(g) ==
    /\ ~crashed
    /\ beat[g] = "beating"
    /\ rpc[g].state = "answered"
    /\ rpc[g].should_reconnect
    /\ \/ /\ reconnect_attempts[g] < max_attempts
          /\ reconnect_attempts' = [reconnect_attempts EXCEPT ![g] = @ + 1]
          /\ delay_ms' = [delay_ms EXCEPT ![g] =
                            calculate_backoff_delay(reconnect_attempts[g] + 1)]
          /\ beat' = [beat EXCEPT ![g] = "backoff"]
       \/ /\ reconnect_attempts[g] >= max_attempts
          /\ beat' = [beat EXCEPT ![g] = "exited"]
          /\ UNCHANGED <<reconnect_attempts, delay_ms>>
    /\ rpc' = [rpc EXCEPT ![g] = NoCall]
    /\ UNCHANGED <<registryVars, objectVars, ownerVars, stop_requested, crashed>>

(* The stop token is not read after the backoff.  In the destructor of the *)
(* base class GetNodeInfo is a pure virtual function, and calling it kills *)
(* the process.                                                            *)
Reregister(g) ==
    /\ ~crashed
    /\ beat[g] = "backoff"
    /\ IF destructing THEN crashed' = TRUE /\ UNCHANGED rpc ELSE CallStub(g, "Register")
    /\ beat' = [beat EXCEPT ![g] = "reregistering"]
    /\ UNCHANGED <<registryVars, objectVars, ownerVars, stop_requested,
                   reconnect_attempts, delay_ms>>

(* Mutant: a failed attempt ends the loop, not only the last one.          *)
Bug_ReregisterAnswered(g) ==
    /\ ~crashed
    /\ beat[g] = "reregistering"
    /\ rpc[g].state = "answered"
    /\ is_registered_' = (is_registered_ \/ rpc[g].ok)
    /\ beat' = [beat EXCEPT ![g] = IF rpc[g].ok THEN "loop" ELSE "exited"]
    /\ rpc' = [rpc EXCEPT ![g] = NoCall]
    /\ UNCHANGED <<registryVars, is_running_, registry_stub_, coro_adapter_, starts,
                   ownerVars, stop_requested, reconnect_attempts, delay_ms, crashed>>

ReregisterAnswered(g) ==
    /\ ~crashed
    /\ beat[g] = "reregistering"
    /\ rpc[g].state = "answered"
    /\ is_registered_' = (is_registered_ \/ rpc[g].ok)
    /\ beat' = [beat EXCEPT ![g] = "loop"]
    /\ rpc' = [rpc EXCEPT ![g] = NoCall]
    /\ UNCHANGED <<registryVars, is_running_, registry_stub_, coro_adapter_, starts,
                   ownerVars, stop_requested, reconnect_attempts, delay_ms, crashed>>

heartbeat_loop(g) == \/ LoopTest(g) \/ SendHeartbeat(g) \/ HeartbeatAnswered(g)
                     \/ Reconnect(g) \/ Reregister(g) \/ ReregisterAnswered(g)

-----------------------------------------------------------------------------
(* The owner is done, or the process is dead.                              *)
Ended == (owner = "gone" \/ crashed) /\ UNCHANGED vars

Next ==
    \/ Start \/ Stop \/ Destruct \/ OwnerStep
    \/ \E g \in Thread : heartbeat_loop(g)
    \/ \E t \in Caller : Serve(t) \/ Unreachable(t) \/ CallLost(t)
    \/ \E m \in Change : ServeLate(m)
    \/ RegistryCrash \/ RegistryRestart \/ Evict
    \/ Ended

(* Threads run, calls are answered or fail, and the registry is restarted  *)
(* when it is down.  Nobody has to start or stop the node, and a call that *)
(* was given up need not be served.                                        *)
Fairness ==
    /\ WF_vars(OwnerStep)
    /\ \A g \in Thread : WF_vars(heartbeat_loop(g))
    /\ \A t \in Caller : WF_vars(Serve(t) \/ Unreachable(t))
    /\ WF_vars(RegistryRestart)

Spec == Init /\ [][Next]_vars /\ Fairness

-----------------------------------------------------------------------------
(* Every variable has its type.                                            *)
TypeOK ==
    /\ {order_arrives, up, registered, destructing, is_running_, is_registered_, registry_stub_,
        coro_adapter_, crashed} \subseteq BOOLEAN
    /\ faults \in 0 .. MaxFaults
    /\ late \in [Change -> 0 .. faults]
    /\ owner \in OwnerPC
    /\ starts \in 0 .. MaxStarts
    /\ beat \in [Thread -> BeatPC]
    /\ stop_requested \in [Thread -> BOOLEAN]
    /\ reconnect_attempts \in [Thread -> 0 .. max_attempts]
    /\ delay_ms \in [Thread -> 0 .. (DelayMod - 1)]
    /\ rpc \in [Caller -> Call]

(* Whenever start() or stop() has returned, at most one heartbeat thread   *)
(* is left: the one that start() replaces has ended.                       *)
HeartbeatThreadUnique ==
    (owner = "idle" /\ ~crashed) =>
        \A g, h \in Thread : Alive(g) /\ Alive(h) => g = h

(* A node that runs has a heartbeat thread, unless that thread was told to *)
(* reconnect once more after max_attempts attempts in a row: no failed     *)
(* call, and no stop() and start() in between, ends it sooner.             *)
GivesUpOnlyAtTheLimit ==
    (owner = "idle" /\ is_running_) =>
        Alive(starts) \/ reconnect_attempts[starts] = max_attempts

Stopped == owner = "idle" /\ ~is_running_ /\ starts > 0

(* A node that was stopped, and that the registry has forgotten, does not  *)
(* come back before the next start(): the heartbeat thread that stop()     *)
(* leaves behind registers nothing, as long as no order to reconnect       *)
(* arrives.  Only a Register of an earlier start() that failed on the way, *)
(* and is served late, brings it back.                                     *)
Forgotten ==
    ~order_arrives /\ Stopped /\ ~registered /\ late["Register"] = 0

StaysDeregistered == [][Forgotten => ~registered']_vars

(* "Exponential backoff: delay = base * (2 ^ (attempt - 1))", "Cap at      *)
(* max_delay" (node_base.cpp:225 and 231): that is what a thread waits,    *)
(* whatever came between its attempts, and however uint32_t doubles.       *)
AtMostMax(delay) == IF delay < max_delay_ms THEN delay ELSE max_delay_ms

BackingOff(g) == enable_backoff /\ beat[g] \in {"backoff", "reregistering"}

BackoffExact ==
    \A g \in Thread :
        BackingOff(g) =>
            delay_ms[g] = AtMostMax(base_delay_ms * 2^(reconnect_attempts[g] - 1))

(* start(), stop() and the destructor return.                              *)
OwnerReturns == (owner # "idle") ~> (owner \in {"idle", "gone"} \/ crashed)

(* "the node has reconnection logic built in, and recovers by itself after *)
(* the registry crashed and was restarted" (README.md:23): as long as it   *)
(* is not stopped, and has not used up its attempts, a node that runs is   *)
(* registered again.                                                       *)
GaveUp == starts > 0 /\ beat[starts] = "exited"

SelfHeals ==
    (owner = "idle" /\ is_running_) ~> (registered \/ owner # "idle" \/ crashed \/ GaveUp)

(* "Stop the node: deregister, stop heartbeat, shutdown CoroAdapter"       *)
(* (node_base.h:58): when stop() has returned there is no heartbeat thread.*)
StopEndsHeartbeat == Stopped => \A g \in Thread : ~Alive(g)

=============================================================================
