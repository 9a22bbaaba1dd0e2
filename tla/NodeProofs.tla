----------------------------- MODULE NodeProofs -----------------------------
(***************************************************************************)
(* Proofs about Node, for any number of starts and of faults and for every *)
(* ReconnectStrategy: its types, its heartbeat threads, when it gives up   *)
(* and what stop() leaves behind.                                          *)
(***************************************************************************)
EXTENDS Node, NaturalLemmas

-----------------------------------------------------------------------------
(* The delay.  doubled is a recursive function: that it is the function    *)
(* its equation describes is shown from the least number at which it would *)
(* not be.                                                                 *)

Delay == 0 .. (DelayMod - 1)

Twice(x) == (2 * x) % DelayMod

(* The delays for 0, 1, ..., n doublings.                                  *)
Doubles(f, n) ==
    /\ f \in [0 .. n -> Delay]
    /\ f[0] = base_delay_ms
    /\ \A i \in 1 .. n : f[i] = Twice(f[i - 1])

LEMMA TwiceType ==
    ASSUME NEW x \in Delay
    PROVE  Twice(x) \in Delay
BY StrategyAssumption DEF Delay, Twice

LEMMA DoublesExist == \A n \in Nat : \E f : Doubles(f, n)
<1>. DEFINE T == {n \in Nat : ~\E f : Doubles(f, n)}
<1>. SUFFICES ASSUME T # {} PROVE FALSE
  OBVIOUS
<1>1. PICK n \in T : \A m \in T : n <= m
  BY LeastNat
<1>2. n # 0
  <2>. DEFINE f == [i \in 0 .. 0 |-> base_delay_ms]
  <2>1. Doubles(f, 0)
    BY StrategyAssumption DEF Doubles, Delay
  <2>. QED
    BY <2>1
<1>3. n - 1 \in Nat /\ n \in Nat /\ n - 1 \notin T
  BY <1>1, <1>2
<1>4. PICK f : Doubles(f, n - 1)
  BY <1>3
<1>. DEFINE g == [i \in 0 .. n |-> IF i = n THEN Twice(f[n - 1]) ELSE f[i]]
<1>5. Doubles(g, n)
  <2>1. Twice(f[n - 1]) \in Delay
    BY <1>3, <1>4, TwiceType DEF Doubles
  <2>2. g \in [0 .. n -> Delay]
    BY <1>3, <1>4, <2>1 DEF Doubles
  <2>3. g[0] = base_delay_ms
    BY <1>2, <1>3, <1>4 DEF Doubles
  <2>4. ASSUME NEW i \in 1 .. n PROVE g[i] = Twice(g[i - 1])
    <3>1. g[i - 1] = f[i - 1]
      BY <1>3
    <3>2. i # n => f[i] = Twice(f[i - 1])
      BY <1>3, <1>4 DEF Doubles
    <3>. QED
      BY <1>3, <3>1, <3>2
  <2>. HIDE DEF g
  <2>. QED
    BY <2>2, <2>3, <2>4 DEF Doubles
<1>. QED
  BY <1>5

LEMMA DoublesUnique ==
    ASSUME NEW n \in Nat, NEW m \in Nat, NEW f, NEW g, Doubles(f, n), Doubles(g, m),
           NEW i \in Nat, i <= n, i <= m
    PROVE  f[i] = g[i]
<1>. DEFINE T == {j \in Nat : j <= n /\ j <= m /\ f[j] # g[j]}
<1>. SUFFICES ASSUME T # {} PROVE FALSE
  OBVIOUS
<1>1. PICK j \in T : \A k \in T : j <= k
  BY LeastNat
<1>2. j # 0
  BY <1>1 DEF Doubles
<1>3. j - 1 \in Nat /\ f[j - 1] = g[j - 1]
  BY <1>1, <1>2
<1>4. f[j] = Twice(f[j - 1]) /\ g[j] = Twice(g[j - 1])
  BY <1>2 DEF Doubles
<1>. QED
  BY <1>3, <1>4

(* The equation of doubled has a solution, so that doubled is one.         *)
LEMMA DoubledDef ==
    doubled = [i \in Nat |-> IF i = 0 THEN base_delay_ms
                                      ELSE (2 * doubled[i - 1]) % DelayMod]
<1>. DEFINE sol(n) == CHOOSE f : Doubles(f, n)
            F == [n \in Nat |-> sol(n)[n]]
<1>1. \A n \in Nat : Doubles(sol(n), n)
  BY DoublesExist
<1>. HIDE DEF sol
<1>2. ASSUME NEW n \in Nat, n # 0 PROVE F[n] = Twice(F[n - 1])
  <2>1. n - 1 \in Nat
    BY <1>2
  <2>2. sol(n)[n] = Twice(sol(n)[n - 1])
    BY <1>1, <1>2 DEF Doubles
  <2>3. sol(n)[n - 1] = sol(n - 1)[n - 1]
    BY <1>1, <2>1, DoublesUnique
  <2>. QED
    BY <2>1, <2>2, <2>3
<1>3. F[0] = base_delay_ms
  BY <1>1 DEF Doubles
<1>4. F = [i \in Nat |-> F[i]]
  OBVIOUS
<1>. HIDE DEF F
<1>5. F = [i \in Nat |-> IF i = 0 THEN base_delay_ms ELSE (2 * F[i - 1]) % DelayMod]
  BY <1>2, <1>3, <1>4 DEF Twice
<1>. QED
  BY <1>5 DEF doubled

LEMMA DoubledType ==
    ASSUME NEW i \in Nat
    PROVE  doubled[i] \in Delay
<1>. DEFINE T == {j \in Nat : doubled[j] \notin Delay}
<1>. SUFFICES ASSUME T # {} PROVE FALSE
  OBVIOUS
<1>1. PICK j \in T : \A k \in T : j <= k
  BY LeastNat
<1>2. j # 0
  BY StrategyAssumption, DoubledDef DEF Delay
<1>3. j - 1 \in Nat /\ doubled[j - 1] \in Delay
  BY <1>1, <1>2
<1>4. doubled[j] = Twice(doubled[j - 1])
  BY <1>2, DoubledDef DEF Twice
<1>. QED
  BY <1>3, <1>4, TwiceType

LEMMA BackoffType ==
    ASSUME NEW attempt \in Nat, attempt # 0
    PROVE  calculate_backoff_delay(attempt) \in Delay
<1>1. doubled[attempt - 1] \in Delay
  BY DoubledType
<1>. QED
  BY <1>1, StrategyAssumption DEF calculate_backoff_delay, Capped, Delay

(* What the doubling should give.                                          *)
Exact(n) == base_delay_ms * 2^n

LEMMA ExactSteps ==
    /\ Exact(0) = base_delay_ms
    /\ \A n \in Nat : Exact(n) \in Nat /\ Exact(n + 1) = 2 * Exact(n)
<1>0. base_delay_ms \in Nat
  BY StrategyAssumption
<1>1. Exact(0) = base_delay_ms
  <2>1. 2^0 = 1
    OBVIOUS
  <2>. QED
    BY <1>0, <2>1 DEF Exact
<1>2. ASSUME NEW n \in Nat PROVE Exact(n) \in Nat /\ Exact(n + 1) = 2 * Exact(n)
  <2>. DEFINE p == 2^n
              q == 2^(n + 1)
  <2>1. p \in Nat /\ q = 2 * p
    BY PowerOfTwo
  <2>2. Exact(n) = base_delay_ms * p /\ Exact(n + 1) = base_delay_ms * q
    BY DEF Exact
  <2>. HIDE DEF p, q
  <2>3. base_delay_ms * p \in Nat /\ base_delay_ms * (2 * p) = 2 * (base_delay_ms * p)
    BY <1>0, <2>1
  <2>. QED
    BY <2>1, <2>2, <2>3
<1>. QED
  BY <1>1, <1>2

(* Below the modulus the doubling in uint32_t is exact.                    *)
LEMMA DoubledExact ==
    ASSUME NEW n \in Nat, \A m \in 0 .. n : Exact(m) < DelayMod
    PROVE  doubled[n] = Exact(n)
<1>. DEFINE T == {j \in Nat : j <= n /\ doubled[j] # Exact(j)}
<1>. SUFFICES ASSUME T # {} PROVE FALSE
  OBVIOUS
<1>1. PICK j \in T : \A k \in T : j <= k
  BY LeastNat
<1>2. j # 0
  BY ExactSteps, DoubledDef
<1>3. j - 1 \in Nat /\ doubled[j - 1] = Exact(j - 1)
  BY <1>1, <1>2
<1>4. doubled[j] = (2 * Exact(j - 1)) % DelayMod
  BY <1>2, <1>3, DoubledDef
<1>5. Exact((j - 1) + 1) = 2 * Exact(j - 1) /\ (j - 1) + 1 = j
  BY <1>3, ExactSteps
<1>6. Exact(j) \in Nat /\ Exact(j) < DelayMod
  BY ExactSteps
<1>. QED
  BY <1>4, <1>5, <1>6, StrategyAssumption

-----------------------------------------------------------------------------
(* Type correctness.                                                       *)

FlagsOK ==
    {order_arrives, up, registered, destructing, is_running_, is_registered_, registry_stub_,
     coro_adapter_, crashed} \subseteq BOOLEAN

(* start() is within the bound until it has made its thread; and what the  *)
(* actions know of the state of a call and of its fields.                  *)
StartsBound == owner = "registering" => starts < MaxStarts

LEMMA CallFields ==
    ASSUME NEW c \in Call
    PROVE  /\ c.state \in {"none", "sent", "answered"}
           /\ c.state = "none" <=> c = NoCall
           /\ c.state \in {"sent", "answered"} => c.method \in Method
           /\ c.state = "answered" => c.ok \in BOOLEAN /\ c.should_reconnect \in BOOLEAN
<1>1. CASE c = NoCall
  BY <1>1 DEF NoCall
<1>2. ASSUME NEW m \in Method, c = Sent(m)
      PROVE  c.state = "sent" /\ c.method \in Method /\ c # NoCall
  BY <1>2 DEF Sent, NoCall
<1>3. ASSUME NEW m \in Method, NEW ok \in BOOLEAN, NEW r \in BOOLEAN, c = Answered(m, ok, r)
      PROVE  /\ c.state = "answered" /\ c.method \in Method /\ c # NoCall
             /\ c.ok \in BOOLEAN /\ c.should_reconnect \in BOOLEAN
  BY <1>3 DEF Answered, NoCall
<1>. QED
  BY <1>1, <1>2, <1>3 DEF Call

LEMMA CallTypes ==
    /\ NoCall \in Call
    /\ \A m \in Method : Sent(m) \in Call
    /\ \A m \in Method, ok \in BOOLEAN, r \in BOOLEAN : Answered(m, ok, r) \in Call
BY DEF Call

LEMMA TypeInit == Init => TypeOK /\ StartsBound
<1>. SUFFICES ASSUME Init PROVE TypeOK /\ StartsBound
  OBVIOUS
<1>1. FlagsOK
  BY NodeRegistries DEF Init, FlagsOK
<1>2. rpc \in [Caller -> Call]
  BY CallTypes DEF Init
<1>3. /\ faults \in 0 .. MaxFaults /\ owner \in OwnerPC /\ starts \in 0 .. MaxStarts
      /\ late \in [Change -> 0 .. faults]
      /\ beat \in [Thread -> BeatPC]
      /\ stop_requested \in [Thread -> BOOLEAN]
  BY NodeBounds DEF Init, OwnerPC, BeatPC
<1>4. /\ reconnect_attempts \in [Thread -> 0 .. max_attempts]
      /\ delay_ms \in [Thread -> 0 .. (DelayMod - 1)]
  BY StrategyAssumption DEF Init
<1>. QED
  BY <1>1, <1>2, <1>3, <1>4 DEF TypeOK, FlagsOK, StartsBound, Init

(* The calls, whoever sends, serves, loses or reads them.                  *)
LEMMA CallsStep ==
    ASSUME TypeOK, [Next]_vars
    PROVE  rpc' \in [Caller -> Call]
<1>. USE DEF TypeOK, vars
<1>0. 0 \in Caller /\ Thread \subseteq Caller
  BY DEF Caller
<1>1. CASE \E t \in Caller, c \in Call : rpc' = [rpc EXCEPT ![t] = c]
  BY <1>1
<1>2. CASE UNCHANGED rpc
  BY <1>2
<1>3. ASSUME NEW t \in Caller, Serve(t) \/ Unreachable(t) \/ CallLost(t)
      PROVE  \E c \in Call : rpc' = [rpc EXCEPT ![t] = c]
  <2>1. rpc[t].state \in {"sent", "answered"}
    BY <1>3 DEF Serve, Unreachable, CallLost
  <2>2. rpc[t].method \in Method
    BY <2>1, CallFields
  <2>3. CASE Serve(t)
    <3>. DEFINE c == IF registered = (rpc[t].method # "Register")
                     THEN Answered(rpc[t].method, TRUE, FALSE)
                     ELSE Rejected(rpc[t].method, rpc[t].method = "Heartbeat")
    <3>1. c \in Call
      <4>1. ((rpc[t].method = "Heartbeat") /\ order_arrives) \in BOOLEAN
        OBVIOUS
      <4>. QED
        BY <2>2, <4>1, CallTypes DEF Rejected
    <3>2. rpc' = [rpc EXCEPT ![t] = c]
      BY <2>3 DEF Serve
    <3>. QED
      BY <3>1, <3>2
  <2>4. CASE Unreachable(t) \/ CallLost(t)
    BY <2>2, <2>4, CallTypes DEF Unreachable, CallLost, FailCall
  <2>. QED
    BY <1>3, <2>3, <2>4
<1>4. CASE Start \/ Stop \/ Destruct \/ OwnerStep
  BY <1>0, <1>4, <1>1, <1>2, CallTypes
     DEF Start, Stop, Destruct, OwnerStep, StartFailed, StartThread, StartDone,
         Deregistered, Teardown, JoinAtExit, StopBody, Method
<1>5. ASSUME NEW g \in Thread, heartbeat_loop(g) PROVE rpc' \in [Caller -> Call]
  BY <1>0, <1>5, <1>1, <1>2, CallTypes
     DEF heartbeat_loop, LoopTest, SendHeartbeat, HeartbeatAnswered, Reconnect,
         Reregister, ReregisterAnswered, CallStub, Method
<1>6. CASE RegistryCrash \/ RegistryRestart \/ Evict \/ Ended \/ UNCHANGED vars
  BY <1>2, <1>6 DEF RegistryCrash, RegistryRestart, Evict, Ended
<1>7. ASSUME NEW m \in Change, ServeLate(m) PROVE UNCHANGED rpc
  BY <1>7 DEF ServeLate
<1>. QED
  BY <1>1, <1>2, <1>3, <1>4, <1>5, <1>6, <1>7 DEF Next

LEMMA FlagsStep ==
    ASSUME TypeOK, [Next]_vars
    PROVE  FlagsOK'
<1>. USE DEF FlagsOK, vars, registryVars, objectVars, ownerVars, loopVars
<1>0. FlagsOK
  BY DEF TypeOK
<1>1. ASSUME NEW t \in Caller, Serve(t) PROVE FlagsOK'
  <2>1. rpc[t].method \in {"Register", "Heartbeat", "Deregister"}
    BY <1>1, CallFields DEF Serve, TypeOK, Method
  <2>2. registered' \in BOOLEAN
    BY <1>0, <1>1, <2>1 DEF Serve, Handled
  <2>. QED
    BY <1>0, <1>1, <2>2 DEF Serve
<1>2. ASSUME NEW t \in Caller, Unreachable(t) \/ CallLost(t) PROVE FlagsOK'
  BY <1>0, <1>2 DEF Unreachable, CallLost
<1>3. CASE RegistryCrash \/ RegistryRestart \/ Evict \/ Ended \/ UNCHANGED vars
  BY <1>0, <1>3 DEF RegistryCrash, RegistryRestart, Evict, Ended
<1>4. CASE Start
  <2>1. crashed' \in BOOLEAN
    BY <1>0, <1>4 DEF Start
  <2>. QED
    BY <1>0, <1>4, <2>1 DEF Start
<1>5. CASE Stop \/ Destruct
  BY <1>0, <1>5 DEF Stop, Destruct
<1>6. CASE StartFailed \/ StartThread \/ StartDone \/ Deregistered \/ JoinAtExit
  BY <1>0, <1>6 DEF StartFailed, StartThread, StartDone, Deregistered, JoinAtExit
<1>7. CASE Teardown
  <2>1. crashed' \in BOOLEAN
    BY <1>0, <1>7 DEF Teardown
  <2>. QED
    BY <1>0, <1>7, <2>1 DEF Teardown
<1>8. ASSUME NEW g \in Thread, heartbeat_loop(g) PROVE FlagsOK'
  <2>1. CASE LoopTest(g) \/ HeartbeatAnswered(g) \/ Reconnect(g)
    BY <1>0, <2>1 DEF LoopTest, HeartbeatAnswered, Reconnect
  <2>2. CASE SendHeartbeat(g) \/ Reregister(g)
    BY <1>0, <2>2 DEF SendHeartbeat, Reregister, CallStub
  <2>3. CASE ReregisterAnswered(g)
    <3>1. is_registered_' \in BOOLEAN
      BY <2>3 DEF ReregisterAnswered
    <3>. QED
      BY <1>0, <2>3, <3>1 DEF ReregisterAnswered
  <2>. QED
    BY <1>8, <2>1, <2>2, <2>3 DEF heartbeat_loop
<1>9. ASSUME NEW m \in Change, ServeLate(m) PROVE FlagsOK'
  <2>1. registered' \in BOOLEAN
    BY <1>0, <1>9 DEF ServeLate, Handled, Change
  <2>. QED
    BY <1>0, <1>9, <2>1 DEF ServeLate
<1>. QED
  BY <1>1, <1>2, <1>3, <1>4, <1>5, <1>6, <1>7, <1>8, <1>9 DEF Next, OwnerStep

(* No more calls are outstanding at the registry than were given up.       *)
LEMMA LateTypeStep ==
    ASSUME TypeOK, [Next]_vars
    PROVE  late' \in [Change -> 0 .. faults']
<1>. USE DEF TypeOK, vars, registryVars
<1>0. faults \in Nat
  BY NodeBounds
<1>1. CASE UNCHANGED <<late, faults>>
  BY <1>1
<1>2. ASSUME NEW t \in Caller, CallLost(t) PROVE late' \in [Change -> 0 .. faults']
  <2>1. faults' = faults + 1
    BY <1>2 DEF CallLost, Fault
  <2>2. CASE UNCHANGED late
    BY <1>0, <2>1, <2>2
  <2>3. ASSUME NEW m \in Change, late' = [late EXCEPT ![m] = @ + 1]
        PROVE  late' \in [Change -> 0 .. faults']
    BY <1>0, <2>1, <2>3
  <2>. QED
    BY <1>2, <2>2, <2>3 DEF CallLost
<1>3. CASE RegistryCrash
  BY <1>0, <1>3 DEF RegistryCrash, Fault
<1>4. CASE Evict
  BY <1>0, <1>4 DEF Evict, Fault
<1>5. ASSUME NEW m \in Change, ServeLate(m) PROVE late' \in [Change -> 0 .. faults']
  BY <1>0, <1>5 DEF ServeLate
<1>6. ASSUME NEW t \in Caller, Serve(t) \/ Unreachable(t) PROVE UNCHANGED <<late, faults>>
  BY <1>6 DEF Serve, Unreachable
<1>7. CASE RegistryRestart \/ Ended \/ UNCHANGED vars
  BY <1>7 DEF RegistryRestart, Ended
<1>8. CASE Start \/ Stop \/ Destruct \/ OwnerStep
  BY <1>8 DEF Start, Stop, Destruct, OwnerStep, StartFailed, StartThread, StartDone,
              Deregistered, Teardown, JoinAtExit
<1>9. ASSUME NEW g \in Thread, heartbeat_loop(g) PROVE UNCHANGED <<late, faults>>
  BY <1>9 DEF heartbeat_loop, LoopTest, SendHeartbeat, HeartbeatAnswered, Reconnect,
              Reregister, ReregisterAnswered
<1>. QED
  BY <1>1, <1>2, <1>3, <1>4, <1>5, <1>6, <1>7, <1>8, <1>9 DEF Next

LEMMA OwnerTypeStep ==
    ASSUME TypeOK, StartsBound, [Next]_vars
    PROVE  /\ faults' \in 0 .. MaxFaults /\ owner' \in OwnerPC
           /\ starts' \in 0 .. MaxStarts /\ StartsBound'
<1>. USE DEF TypeOK, StartsBound, OwnerPC, vars, registryVars, objectVars, ownerVars, loopVars
<1>1. ASSUME NEW t \in Caller, Serve(t) \/ Unreachable(t)
      PROVE  UNCHANGED <<faults, owner, starts>>
  BY <1>1 DEF Serve, Unreachable
<1>2. ASSUME NEW t \in Caller, CallLost(t) \/ RegistryCrash \/ Evict
      PROVE  faults' \in 0 .. MaxFaults /\ UNCHANGED <<owner, starts>>
  BY <1>2, NodeBounds DEF CallLost, RegistryCrash, Evict, Fault
<1>3. CASE RegistryRestart \/ Ended \/ UNCHANGED vars
  BY <1>3 DEF RegistryRestart, Ended
<1>4. CASE Start \/ Stop \/ Destruct
  BY <1>4, NodeBounds DEF Start, Stop, Destruct, StopBody
<1>5. CASE OwnerStep
  <2>1. CASE StartThread
    BY <2>1, NodeBounds DEF StartThread
  <2>2. CASE Teardown
    BY <2>2 DEF Teardown
  <2>3. CASE StartFailed \/ StartDone \/ Deregistered \/ JoinAtExit
    BY <2>3 DEF StartFailed, StartDone, Deregistered, JoinAtExit
  <2>. QED
    BY <1>5, <2>1, <2>2, <2>3 DEF OwnerStep
<1>6. ASSUME NEW g \in Thread, heartbeat_loop(g)
      PROVE  UNCHANGED <<faults, owner, starts>>
  BY <1>6 DEF heartbeat_loop, LoopTest, SendHeartbeat, HeartbeatAnswered, Reconnect,
              Reregister, ReregisterAnswered
<1>7. 0 \in Caller
  BY DEF Caller
<1>8. ASSUME NEW m \in Change, ServeLate(m) PROVE UNCHANGED <<faults, owner, starts>>
  BY <1>8 DEF ServeLate
<1>. QED
  BY <1>1, <1>2, <1>3, <1>4, <1>5, <1>6, <1>7, <1>8 DEF Next

LEMMA LoopTypeStep ==
    ASSUME TypeOK, StartsBound, [Next]_vars
    PROVE  /\ beat' \in [Thread -> BeatPC]
           /\ stop_requested' \in [Thread -> BOOLEAN]
           /\ reconnect_attempts' \in [Thread -> 0 .. max_attempts]
           /\ delay_ms' \in [Thread -> 0 .. (DelayMod - 1)]
<1>. USE DEF TypeOK, vars, registryVars, objectVars, ownerVars, loopVars
<1>1. ASSUME NEW t \in Caller, Serve(t) \/ Unreachable(t) \/ CallLost(t)
      PROVE  UNCHANGED loopVars
  BY <1>1 DEF Serve, Unreachable, CallLost
<1>2. CASE RegistryCrash \/ Evict \/ RegistryRestart \/ Ended \/ UNCHANGED vars \/ Start
             \/ Stop \/ StartFailed \/ StartDone \/ Deregistered \/ JoinAtExit
  BY <1>2 DEF RegistryCrash, Evict, RegistryRestart, Ended, Start, Stop, StartFailed,
              StartDone, Deregistered, JoinAtExit
<1>3. CASE StartThread
  <2>1. beat' \in [Thread -> BeatPC]
    BY <1>3 DEF StartThread, BeatPC
  <2>2. stop_requested' \in [Thread -> BOOLEAN]
    BY <1>3 DEF StartThread
  <2>. QED
    BY <1>3, <2>1, <2>2 DEF StartThread
<1>4. CASE Destruct \/ Teardown
  <2>1. stop_requested' \in [Thread -> BOOLEAN]
    BY <1>4 DEF Destruct, Teardown
  <2>. QED
    BY <1>4, <2>1 DEF Destruct, Teardown
<1>5. ASSUME NEW g \in Thread, LoopTest(g) \/ SendHeartbeat(g) \/ Reregister(g)
      PROVE  beat' \in [Thread -> BeatPC] /\ UNCHANGED <<stop_requested, reconnect_attempts, delay_ms>>
  BY <1>5 DEF LoopTest, SendHeartbeat, Reregister, LoopOrExit, BeatPC
<1>6. ASSUME NEW g \in Thread, HeartbeatAnswered(g) \/ ReregisterAnswered(g)
      PROVE  /\ beat' \in [Thread -> BeatPC] /\ UNCHANGED <<stop_requested, delay_ms>>
             /\ reconnect_attempts' \in [Thread -> 0 .. max_attempts]
  BY <1>6, StrategyAssumption DEF HeartbeatAnswered, ReregisterAnswered, BeatPC
<1>7. ASSUME NEW g \in Thread, Reconnect(g)
      PROVE  /\ beat' \in [Thread -> BeatPC] /\ UNCHANGED stop_requested
             /\ reconnect_attempts' \in [Thread -> 0 .. max_attempts]
             /\ delay_ms' \in [Thread -> 0 .. (DelayMod - 1)]
  <2>1. calculate_backoff_delay(reconnect_attempts[g] + 1) \in 0 .. (DelayMod - 1)
    BY BackoffType, StrategyAssumption DEF Delay
  <2>. QED
    BY <1>7, <2>1, StrategyAssumption DEF Reconnect, BeatPC
<1>8. ASSUME NEW m \in Change, ServeLate(m) PROVE UNCHANGED loopVars
  BY <1>8 DEF ServeLate
<1>. QED
  BY <1>1, <1>2, <1>3, <1>4, <1>5, <1>6, <1>7, <1>8 DEF Next, OwnerStep, heartbeat_loop

LEMMA TypeStep == TypeOK /\ StartsBound /\ [Next]_vars => TypeOK' /\ StartsBound'
BY CallsStep, FlagsStep, LateTypeStep, OwnerTypeStep, LoopTypeStep DEF TypeOK, FlagsOK

LEMMA TypeAlways == Spec => [](TypeOK /\ StartsBound)
BY TypeInit, TypeStep, PTL DEF Spec

(* Every variable of a node and of its heartbeat threads has its type; the *)
(* delay of calculate_backoff_delay stays in uint32_t and the attempts at  *)
(* or below max_attempts, for every ReconnectStrategy.                     *)
THEOREM TypeCorrect == Spec => []TypeOK
BY TypeAlways, PTL

-----------------------------------------------------------------------------
(* The heartbeat threads.                                                  *)

(* Only the thread of the last start() may be alive, except while start()  *)
(* waits for the one before it.                                            *)
OneThread ==
    /\ \A g \in Thread : g > starts => beat[g] = "none"
    /\ owner # "joining" => \A g \in Thread : g < starts => ~Alive(g)

(* Until the destructor runs nobody asks the thread of the last start() to *)
(* stop, so that it ends only when it gives up.                            *)
NotAsked ==
    /\ destructing => owner \notin {"idle", "registering", "joining"}
    /\ ~destructing => \A g \in Thread : stop_requested[g] => g < starts
    /\ ~destructing /\ starts > 0 =>
          Alive(starts) \/ reconnect_attempts[starts] = max_attempts
    /\ is_running_ \/ owner = "joining" => starts > 0

LEMMA ThreadsInit == Init => OneThread /\ NotAsked
BY DEF Init, OneThread, NotAsked, Alive

(* A step of a heartbeat thread never brings it to life, leaves the others *)
(* alone, and ends it only when it saw a stop or used up its attempts.     *)
LEMMA LoopStep ==
    ASSUME TypeOK, NEW g \in Thread, heartbeat_loop(g)
    PROVE  /\ UNCHANGED <<starts, owner, destructing, is_running_, stop_requested>>
           /\ Alive(g)
           /\ beat'[g] # "none"
           /\ \A h \in Thread \ {g} :
                 beat'[h] = beat[h] /\ reconnect_attempts'[h] = reconnect_attempts[h]
           /\ \/ Alive(g)'
              \/ stop_requested[g]
              \/ reconnect_attempts'[g] = max_attempts
<1>. USE DEF TypeOK, objectVars, ownerVars, Alive
<1>1. CASE LoopTest(g) \/ SendHeartbeat(g)
  BY <1>1 DEF LoopTest, SendHeartbeat, LoopOrExit, StopSeen
<1>2. CASE HeartbeatAnswered(g) \/ Reregister(g) \/ ReregisterAnswered(g)
  BY <1>2 DEF HeartbeatAnswered, Reregister, ReregisterAnswered
<1>3. CASE Reconnect(g)
  BY <1>3, StrategyAssumption DEF Reconnect
<1>. QED
  BY <1>1, <1>2, <1>3 DEF heartbeat_loop

(* The steps that touch neither the threads nor what the owner does.       *)
LEMMA OutsideStep ==
    ASSUME NEW t \in Caller, NEW m \in Change,
           \/ Serve(t) \/ Unreachable(t) \/ CallLost(t) \/ ServeLate(m)
           \/ RegistryCrash \/ RegistryRestart \/ Evict \/ Ended \/ UNCHANGED vars
    PROVE  UNCHANGED <<objectVars, ownerVars, loopVars>>
BY DEF Serve, Unreachable, CallLost, ServeLate, RegistryCrash, RegistryRestart, Evict, Ended,
       vars

LEMMA OneThreadStep == TypeOK /\ OneThread /\ [Next]_vars => OneThread'
<1>. SUFFICES ASSUME TypeOK, OneThread, [Next]_vars PROVE OneThread'
  OBVIOUS
<1>. USE DEF OneThread, Alive, objectVars, ownerVars, loopVars
<1>1. CASE UNCHANGED <<objectVars, ownerVars, loopVars>>
  BY <1>1
<1>2. ASSUME NEW g \in Thread, heartbeat_loop(g) PROVE OneThread'
  BY <1>2, LoopStep
<1>3. CASE Start \/ Stop \/ Destruct \/ StartFailed \/ Deregistered
  BY <1>3 DEF Start, Stop, Destruct, StopBody, StartFailed, Deregistered
<1>4. CASE StartThread
  BY <1>4, NodeBounds DEF StartThread, TypeOK, Thread
<1>5. CASE StartDone
  BY <1>5, NodeBounds DEF StartDone, TypeOK, Thread
<1>6. CASE Teardown
  BY <1>6 DEF Teardown
<1>7. CASE JoinAtExit
  BY <1>7 DEF JoinAtExit
<1>8. 0 \in Caller /\ "Register" \in Change
  BY DEF Caller, Change
<1>. QED
  BY <1>1, <1>2, <1>3, <1>4, <1>5, <1>6, <1>7, <1>8, OutsideStep DEF Next, OwnerStep

LEMMA NotAskedStep ==
    TypeOK /\ StartsBound /\ OneThread /\ NotAsked /\ [Next]_vars => NotAsked'
<1>. SUFFICES ASSUME TypeOK, StartsBound, OneThread, NotAsked, [Next]_vars PROVE NotAsked'
  OBVIOUS
<1>. USE DEF NotAsked, Alive, objectVars, ownerVars, loopVars
<1>1. CASE UNCHANGED <<objectVars, ownerVars, loopVars>>
  BY <1>1
<1>2. ASSUME NEW g \in Thread, heartbeat_loop(g) PROVE NotAsked'
  <2>1. UNCHANGED <<starts, owner, destructing, is_running_, stop_requested>>
    BY <1>2, LoopStep
  <2>2. ASSUME ~destructing, starts > 0
        PROVE  Alive(starts)' \/ reconnect_attempts'[starts] = max_attempts
    <3>1. starts \in Thread /\ ~stop_requested[starts]
      BY <2>2, NodeBounds DEF Thread, TypeOK
    <3>2. CASE g = starts
      BY <1>2, <2>1, <3>1, <3>2, LoopStep
    <3>3. CASE g # starts
      BY <1>2, <2>1, <2>2, <3>1, <3>3, LoopStep
    <3>. QED
      BY <3>2, <3>3
  <2>. QED
    BY <2>1, <2>2
<1>3. CASE Start \/ Stop \/ StartFailed \/ Deregistered
  <2>1. UNCHANGED <<is_running_, starts, destructing, loopVars>> /\ owner' # "joining"
    BY <1>3 DEF Start, Stop, StopBody, StartFailed, Deregistered
  <2>2. destructing => owner' \notin {"idle", "registering"}
    BY <1>3 DEF Start, Stop, StartFailed, Deregistered
  <2>. QED
    BY <2>1, <2>2
<1>4. CASE StartThread
  <2>1. /\ starts' = starts + 1 /\ starts' \in Thread /\ ~destructing' /\ ~destructing
        /\ owner' = "joining" /\ starts \in Nat
    BY <1>4, NodeBounds DEF StartThread, StartsBound, TypeOK, Thread
  <2>2. beat'[starts'] = "loop"
    BY <1>4, <2>1 DEF StartThread, TypeOK
  <2>3. \A g \in Thread : stop_requested'[g] => stop_requested[g] \/ g <= starts
    BY <1>4 DEF StartThread
  <2>4. \A g \in Thread : stop_requested'[g] => g < starts'
    BY <2>1, <2>3 DEF Thread
  <2>5. Alive(starts)' /\ starts' > 0
    BY <2>1, <2>2
  <2>. QED
    BY <2>1, <2>4, <2>5
<1>5. CASE StartDone \/ JoinAtExit
  BY <1>5 DEF StartDone, JoinAtExit
<1>6. CASE Destruct
  BY <1>6 DEF Destruct, StopBody
<1>7. CASE Teardown
  <2>1. /\ UNCHANGED <<starts, destructing, beat, reconnect_attempts>>
        /\ owner' = IF destructing THEN "join_at_exit" ELSE "idle"
        /\ is_running_' = FALSE
    BY <1>7 DEF Teardown
  <2>2. ~destructing => \A g \in Thread : stop_requested'[g] => stop_requested[g]
    BY <1>7 DEF Teardown
  <2>. QED
    BY <2>1, <2>2
<1>8. 0 \in Caller /\ "Register" \in Change
  BY DEF Caller, Change
<1>. QED
  BY <1>1, <1>2, <1>3, <1>4, <1>5, <1>6, <1>7, <1>8, OutsideStep DEF Next, OwnerStep

LEMMA ThreadsAlways == Spec => [](TypeOK /\ StartsBound /\ OneThread /\ NotAsked)
BY TypeAlways, ThreadsInit, OneThreadStep, NotAskedStep, PTL DEF Spec

(* However often a node is started and stopped, and whatever its registry  *)
(* does: once start() or stop() has returned at most one heartbeat thread  *)
(* is alive, for assigning heartbeat_thread_ joins the one before.         *)
THEOREM OneHeartbeatThread == Spec => []HeartbeatThreadUnique
<1>1. ASSUME TypeOK, OneThread PROVE HeartbeatThreadUnique
  <2>. SUFFICES ASSUME owner = "idle", NEW g \in Thread, NEW h \in Thread,
                       Alive(g), Alive(h)
                PROVE  g = h
    BY DEF HeartbeatThreadUnique
  <2>. QED
    BY <1>1 DEF OneThread, TypeOK, Thread, Alive
<1>. QED
  BY <1>1, ThreadsAlways, PTL

(* For every max_attempts: heartbeat_loop of a node that runs ends for no  *)
(* other reason than max_attempts attempts in a row.                       *)
THEOREM HeartbeatPersists == Spec => []GivesUpOnlyAtTheLimit
<1>1. ASSUME NotAsked PROVE GivesUpOnlyAtTheLimit
  BY <1>1 DEF NotAsked, GivesUpOnlyAtTheLimit
<1>. QED
  BY <1>1, ThreadsAlways, PTL

-----------------------------------------------------------------------------
(* What stop() leaves behind.                                              *)

(* Where the order does not arrive no heartbeat thread is ever told to     *)
(* reconnect, so that it sends heartbeats only; and the owner calls only   *)
(* from within start() and stop().                                         *)
HeartbeatsOnly ==
    /\ ~order_arrives
    /\ \A t \in Caller : rpc[t].state = "answered" => ~rpc[t].should_reconnect
    /\ \A g \in Thread : beat[g] \notin {"backoff", "reregistering"}
    /\ \A g \in Thread : rpc[g].state # "none" => rpc[g].method = "Heartbeat"
    /\ rpc[0].state # "none" => owner \in {"registering", "deregistering"}

(* A node stays with one registry.                                         *)
LEMMA OrderFixed ==
    ASSUME [Next]_vars
    PROVE  order_arrives' = order_arrives
<1>. USE DEF registryVars
<1>1. ASSUME NEW t \in Caller, Serve(t) \/ Unreachable(t) \/ CallLost(t)
      PROVE  order_arrives' = order_arrives
  BY <1>1 DEF Serve, Unreachable, CallLost
<1>2. ASSUME NEW m \in Change, ServeLate(m) PROVE order_arrives' = order_arrives
  BY <1>2 DEF ServeLate
<1>3. CASE RegistryCrash \/ RegistryRestart \/ Evict \/ Ended \/ UNCHANGED vars
  BY <1>3 DEF RegistryCrash, RegistryRestart, Evict, Ended, vars
<1>4. CASE Start \/ Stop \/ Destruct \/ OwnerStep
  BY <1>4 DEF Start, Stop, Destruct, OwnerStep, StartFailed, StartThread, StartDone,
              Deregistered, Teardown, JoinAtExit
<1>5. ASSUME NEW g \in Thread, heartbeat_loop(g) PROVE order_arrives' = order_arrives
  BY <1>5 DEF heartbeat_loop, LoopTest, SendHeartbeat, HeartbeatAnswered, Reconnect,
              Reregister, ReregisterAnswered
<1>. QED
  BY <1>1, <1>2, <1>3, <1>4, <1>5 DEF Next

LEMMA HeartbeatsOnlyInit == Init => (~order_arrives => HeartbeatsOnly)
<1>. SUFFICES ASSUME Init, ~order_arrives PROVE HeartbeatsOnly
  OBVIOUS
<1>1. \A t \in Caller : rpc[t].state = "none"
  BY DEF Init, NoCall
<1>2. 0 \in Caller /\ Thread \subseteq Caller
  BY DEF Caller
<1>. QED
  BY <1>1, <1>2 DEF Init, HeartbeatsOnly

LEMMA HeartbeatsOnlyStep ==
    ASSUME TypeOK, HeartbeatsOnly, [Next]_vars
    PROVE  HeartbeatsOnly'
<1>. USE DEF HeartbeatsOnly, objectVars, ownerVars, loopVars, registryVars
<1>. ~order_arrives'
  BY OrderFixed
<1>0. /\ 0 \in Caller /\ Thread \subseteq Caller /\ 0 \notin Thread
      /\ rpc \in [Caller -> Call] /\ beat \in [Thread -> BeatPC]
  BY NodeBounds DEF Caller, Thread, TypeOK
<1>1. ASSUME NEW t \in Caller, Serve(t) \/ Unreachable(t) \/ CallLost(t)
      PROVE  HeartbeatsOnly'
  <2>0. order_arrives = FALSE
    BY DEF TypeOK
  <2>1. \E ok : rpc' = [rpc EXCEPT ![t] = Answered(rpc[t].method, ok, FALSE)]
    BY <1>1, <2>0 DEF Serve, Unreachable, CallLost, FailCall, Rejected
  <2>2. rpc[t].state # "none" /\ UNCHANGED <<beat, owner>>
    BY <1>1 DEF Serve, Unreachable, CallLost
  <2>3. /\ rpc'[t].state = "answered" /\ rpc'[t].should_reconnect = FALSE
        /\ rpc'[t].method = rpc[t].method
    BY <1>0, <2>1 DEF Answered
  <2>4. \A u \in Caller \ {t} : rpc'[u] = rpc[u]
    BY <1>0, <2>1
  <2>. QED
    BY <1>0, <2>2, <2>3, <2>4
<1>2. CASE RegistryCrash \/ RegistryRestart \/ Evict \/ Ended \/ UNCHANGED vars
             \/ \E m \in Change : ServeLate(m)
  BY <1>2 DEF ServeLate, RegistryCrash, RegistryRestart, Evict, Ended, vars
<1>3. CASE Start \/ Stop \/ Destruct
  <2>1. rpc[0].state = "none"
    BY <1>3 DEF Start, Stop, Destruct
  <2>2. CASE UNCHANGED rpc
    BY <1>3, <2>1, <2>2 DEF Start, Stop, Destruct
  <2>3. CASE /\ \E m \in Method : rpc' = [rpc EXCEPT ![0] = Sent(m)]
             /\ owner' \in {"registering", "deregistering"}
    <3>1. rpc'[0].state = "sent" /\ \A u \in Caller \ {0} : rpc'[u] = rpc[u]
      BY <1>0, <2>3 DEF Sent
    <3>. QED
      BY <1>0, <1>3, <2>3, <3>1 DEF Start, Stop, Destruct
  <2>. QED
    BY <1>3, <2>2, <2>3 DEF Start, Stop, Destruct, StopBody, Method
<1>4. CASE StartFailed \/ StartThread \/ Deregistered
  <2>1. rpc' = [rpc EXCEPT ![0] = NoCall]
    BY <1>4 DEF StartFailed, StartThread, Deregistered
  <2>2. rpc'[0].state = "none" /\ \A u \in Caller \ {0} : rpc'[u] = rpc[u]
    BY <1>0, <2>1 DEF NoCall
  <2>3. \A g \in Thread : beat'[g] \in {beat[g], "loop"}
    BY <1>0, <1>4 DEF StartFailed, StartThread, Deregistered
  <2>. QED
    BY <1>0, <2>2, <2>3
<1>5. CASE StartDone \/ Teardown \/ JoinAtExit
  BY <1>5 DEF StartDone, Teardown, JoinAtExit
<1>6. ASSUME NEW g \in Thread, heartbeat_loop(g) PROVE HeartbeatsOnly'
  <2>1. CASE LoopTest(g)
    BY <1>0, <2>1 DEF LoopTest, LoopOrExit
  <2>2. CASE SendHeartbeat(g)
    <3>1. owner' = owner /\ \A h \in Thread : beat'[h] \in {beat[h], "exited", "beating"}
      BY <1>0, <2>2 DEF SendHeartbeat, LoopOrExit
    <3>2. CASE UNCHANGED rpc
      BY <3>1, <3>2
    <3>3. CASE rpc' = [rpc EXCEPT ![g] = Sent("Heartbeat")]
      <4>1. /\ rpc'[g].state = "sent" /\ rpc'[g].method = "Heartbeat"
            /\ \A u \in Caller \ {g} : rpc'[u] = rpc[u]
        BY <1>0, <3>3 DEF Sent
      <4>. QED
        BY <1>0, <3>1, <4>1
    <3>. QED
      BY <2>2, <3>2, <3>3 DEF SendHeartbeat, CallStub
  <2>3. CASE HeartbeatAnswered(g)
    <3>1. owner' = owner /\ \A h \in Thread : beat'[h] \in {beat[h], "loop"}
      BY <1>0, <2>3 DEF HeartbeatAnswered
    <3>2. rpc'[g].state = "none" /\ \A u \in Caller \ {g} : rpc'[u] = rpc[u]
      BY <1>0, <2>3 DEF HeartbeatAnswered, NoCall
    <3>. QED
      BY <1>0, <3>1, <3>2
  <2>4. ~Reconnect(g) /\ ~Reregister(g) /\ ~ReregisterAnswered(g)
    BY <1>0 DEF Reconnect, Reregister, ReregisterAnswered
  <2>. QED
    BY <1>6, <2>1, <2>2, <2>3, <2>4 DEF heartbeat_loop
<1>. QED
  BY <1>1, <1>2, <1>3, <1>4, <1>5, <1>6 DEF Next, OwnerStep

LEMMA RegistersOnlyByCall ==
    ASSUME TypeOK, HeartbeatsOnly, Stopped, ~registered, late["Register"] = 0, [Next]_vars
    PROVE  ~registered'
<1>1. ASSUME NEW t \in Caller, Serve(t) PROVE ~registered'
  <2>1. t # 0
    BY <1>1 DEF Serve, HeartbeatsOnly, Stopped
  <2>2. t \in Thread /\ rpc[t].method = "Heartbeat"
    BY <1>1, <2>1 DEF Serve, HeartbeatsOnly, Caller
  <2>. QED
    BY <1>1, <2>2 DEF Serve, Handled
<1>2. ASSUME NEW t \in Caller, Unreachable(t) \/ CallLost(t) PROVE ~registered'
  BY <1>2 DEF Unreachable, CallLost, registryVars
<1>3. CASE RegistryCrash \/ RegistryRestart \/ Evict \/ Ended \/ UNCHANGED vars
  BY <1>3 DEF RegistryCrash, RegistryRestart, Evict, Ended, vars, registryVars
<1>4. CASE Start \/ Stop \/ Destruct \/ OwnerStep
  BY <1>4 DEF Start, Stop, Destruct, OwnerStep, StartFailed, StartThread, StartDone,
              Deregistered, Teardown, JoinAtExit, registryVars
<1>5. ASSUME NEW g \in Thread, heartbeat_loop(g) PROVE ~registered'
  BY <1>5 DEF heartbeat_loop, LoopTest, SendHeartbeat, HeartbeatAnswered, Reconnect,
              Reregister, ReregisterAnswered, registryVars
<1>6. ASSUME NEW m \in Change, ServeLate(m) PROVE ~registered'
  BY <1>6 DEF ServeLate, Handled, Change
<1>. QED
  BY <1>1, <1>2, <1>3, <1>4, <1>5, <1>6 DEF Next

(* With the registry of this repository, whose order to reconnect does not *)
(* arrive: the heartbeat thread that stop() leaves behind may find itself  *)
(* unknown as often as it likes, and never brings the node back, whatever  *)
(* calls are lost or served late.                                          *)
THEOREM StoppedStaysForgotten == Spec => StaysDeregistered
<1>. DEFINE Quiet == ~order_arrives => HeartbeatsOnly
<1>1. TypeOK /\ Quiet /\ [Next]_vars => Quiet'
  BY HeartbeatsOnlyStep, OrderFixed
<1>2. TypeOK /\ Quiet /\ [Next]_vars => [Forgotten => ~registered']_vars
  BY RegistersOnlyByCall DEF Forgotten
<1>3. Init => Quiet
  BY HeartbeatsOnlyInit
<1>. HIDE DEF Quiet
<1>. QED
  BY <1>1, <1>2, <1>3, TypeCorrect, PTL DEF Spec, StaysDeregistered

-----------------------------------------------------------------------------
(* The wait before an attempt.                                             *)

(* A thread that backs off, or registers after it, waits what              *)
(* calculate_backoff_delay gives for the attempt it is at.                 *)
WaitsFor(g) ==
    beat[g] \in {"backoff", "reregistering"} =>
        /\ reconnect_attempts[g] \in 1 .. max_attempts
        /\ delay_ms[g] = calculate_backoff_delay(reconnect_attempts[g])

Waits == \A g \in Thread : WaitsFor(g)

LEMMA WaitsStep == TypeOK /\ Waits /\ [Next]_vars => Waits'
<1>. SUFFICES ASSUME TypeOK, Waits, [Next]_vars PROVE Waits'
  OBVIOUS
<1>1. CASE UNCHANGED <<beat, reconnect_attempts, delay_ms>>
  BY <1>1 DEF Waits, WaitsFor
<1>2. ASSUME NEW g \in Thread, heartbeat_loop(g) PROVE Waits'
  <2>1. \A h \in Thread \ {g} : UNCHANGED <<beat[h], reconnect_attempts[h], delay_ms[h]>>
    BY <1>2 DEF TypeOK, heartbeat_loop, LoopTest, SendHeartbeat, LoopOrExit,
                HeartbeatAnswered, Reconnect, Reregister, ReregisterAnswered
  <2>2. ASSUME LoopTest(g) \/ SendHeartbeat(g) \/ HeartbeatAnswered(g) \/ ReregisterAnswered(g)
        PROVE  WaitsFor(g)'
    BY <2>2 DEF WaitsFor, TypeOK, LoopTest, SendHeartbeat, LoopOrExit,
                HeartbeatAnswered, ReregisterAnswered
  <2>3. ASSUME Reregister(g) PROVE WaitsFor(g)'
    BY <2>3 DEF Waits, WaitsFor, Reregister
  <2>4. ASSUME Reconnect(g) PROVE WaitsFor(g)'
    <3>1. CASE beat'[g] = "exited"
      BY <3>1 DEF WaitsFor
    <3>2. CASE /\ reconnect_attempts[g] < max_attempts
               /\ reconnect_attempts' = [reconnect_attempts EXCEPT ![g] = @ + 1]
               /\ delay_ms' = [delay_ms EXCEPT ![g] =
                                 calculate_backoff_delay(reconnect_attempts[g] + 1)]
      BY <3>2, StrategyAssumption DEF TypeOK, WaitsFor, calculate_backoff_delay, Capped
    <3>. QED
      BY <2>4, <3>1, <3>2 DEF Reconnect, TypeOK
  <2>5. WaitsFor(g)'
    BY <1>2, <2>2, <2>3, <2>4 DEF heartbeat_loop
  <2>6. ASSUME NEW h \in Thread \ {g} PROVE WaitsFor(h)'
    BY <2>1 DEF Waits, WaitsFor
  <2>. QED
    BY <2>5, <2>6 DEF Waits
<1>3. CASE StartThread
  BY <1>3 DEF StartThread, TypeOK, Waits, WaitsFor
<1>4. CASE Start \/ Stop \/ Destruct \/ StartFailed \/ StartDone \/ Deregistered
             \/ Teardown \/ JoinAtExit
  BY <1>1, <1>4 DEF Start, Stop, Destruct, StartFailed, StartDone, Deregistered,
                    Teardown, JoinAtExit, loopVars
<1>5. 0 \in Caller /\ "Register" \in Change
  BY DEF Caller, Change
<1>. QED
  BY <1>1, <1>2, <1>3, <1>4, <1>5, OutsideStep DEF Next, OwnerStep, loopVars

(* Where no wait of the strategy leaves uint32_t, as with the default one  *)
(* (1000 ms, ten attempts), the wait before attempt a is base_delay_ms *   *)
(* 2^(a - 1), cut at max_delay_ms, for every other strategy too: the cap   *)
(* comes after the whole doubling, which is why the condition is needed.   *)
THEOREM BackoffCorrect ==
    ASSUME \A n \in 0 .. (max_attempts - 1) : base_delay_ms * 2^n < DelayMod
    PROVE  Spec => []BackoffExact
<1>1. Init => Waits
  BY DEF Init, Waits, WaitsFor
<1>2. Waits => BackoffExact
  <2>. SUFFICES ASSUME Waits, NEW g \in Thread, enable_backoff,
                       beat[g] \in {"backoff", "reregistering"}
                PROVE  delay_ms[g] = AtMostMax(base_delay_ms * 2^(reconnect_attempts[g] - 1))
    BY DEF BackoffExact, BackingOff
  <2>. DEFINE n == reconnect_attempts[g] - 1
  <2>1. n \in Nat /\ n \in 0 .. (max_attempts - 1)
    BY StrategyAssumption DEF Waits, WaitsFor
  <2>2. delay_ms[g] = Capped(doubled[n])
    BY DEF Waits, WaitsFor, calculate_backoff_delay
  <2>. HIDE DEF n
  <2>3. \A m \in 0 .. n : Exact(m) < DelayMod
    BY <2>1, StrategyAssumption DEF Exact
  <2>4. doubled[n] = Exact(n)
    BY <2>1, <2>3, DoubledExact
  <2>5. delay_ms[g] = IF Exact(n) < max_delay_ms THEN Exact(n) ELSE max_delay_ms
    BY <2>2, <2>4 DEF Capped
  <2>. QED
    BY <2>5 DEF Exact, AtMostMax, n
<1>. QED
  BY <1>1, <1>2, WaitsStep, TypeAlways, PTL DEF Spec

=============================================================================
