-------------------------- MODULE CoroAdapterProofs --------------------------
(***************************************************************************)
(* Proofs about CoroAdapter, for every set of coroutines and every number  *)
(* of awaits: the life of a context, the way of a result from the queue to *)
(* the co_await expression, what a shut down queue leaves, and that all of *)
(* it implements AwaitContract.                                            *)
(***************************************************************************)
EXTENDS CoroAdapter, TLAPS

-----------------------------------------------------------------------------
(* The inductive invariant.                                                *)

(* Where the operation that coroutine c awaits is, by what c does.         *)
AwaitedOp(c) ==
    LET op == Current(c)
    IN  /\ pc[c] \in {"starting", "suspended", "resumed"} =>
             /\ awaits[c] > 0
             /\ Live(op) /\ ctx[op].type = ContextType(kind[c])
             /\ ctx[op].caller_handle = TRUE
        /\ pc[c] = "starting"  => queue[op] = "none"
        /\ pc[c] = "suspended" => queue[op] \in {"pending", "complete"}
        /\ pc[c] = "resumed"   => poller = "resuming" /\ tag = op

(* An operation that nobody awaits is not with gRPC, and what is left of   *)
(* its context is an AsyncContext that the poller is about to delete.      *)
LeftOp(op) ==
    /\ queue[op] \in {"none", "taken"}
    /\ Live(op) => poller = "resuming" /\ tag = op /\ ctx_type = "ASYNC_UNARY"

Awaited(op) ==
    op = Current(op[1]) /\ pc[op[1]] \in {"starting", "suspended", "resumed"}

(* An operation that no coroutine has come to yet.                         *)
Future(op) == op[2] > awaits[op[1]]

(* The operation whose tag the poller has: it read the type of the context *)
(* that is there, or that was there until the awaiter ended.               *)
TagOp ==
    poller = "resuming" =>
        /\ queue[tag] = "taken" /\ ~Future(tag)
        /\ (ctx_type = "ASYNC_UNARY") <=> Heap(tag)

ContextLife ==
    /\ \A c \in Coro : AwaitedOp(c)
    /\ \A op \in Op : Awaited(op) \/ LeftOp(op)
    /\ \A op \in Op : Future(op) => queue[op] = "none" /\ ~Live(op)
    /\ TagOp

(* What gRPC tells travels through the context to the expression.          *)
ResultPath(c) ==
    /\ pc[c] \in {"starting", "suspended", "resumed"} => result[c] = "none"
    /\ (pc[c] = "starting" \/ (pc[c] = "suspended" /\ queue[Current(c)] = "pending")) =>
          outcome[c] = "none" /\ ctx[Current(c)].grpc_status = "OK"
    /\ (pc[c] = "suspended" /\ queue[Current(c)] = "complete") =>
          outcome[c] \in Outcomes(kind[c]) /\ ctx[Current(c)].grpc_status = "OK"
    /\ pc[c] = "resumed" => outcome[c] # "none" /\ Returned(c) = Told[c]

Results == \A c \in Coro : ResultPath(c)

(* The users are quiet once the adapter is being taken down, and nothing   *)
(* comes back to a queue that was drained after that.                      *)
TakenDown ==
    /\ cq_shutdown => owner # "using"
    /\ owner # "using" => Quiet
    /\ (poller = "exited" /\ ~stop_requested) =>
         cq_shutdown /\ Drained /\ \A op \in Op : ~Heap(op)

-----------------------------------------------------------------------------
(* Operations and contexts.                                                *)

LEMMA OpParts ==
    ASSUME NEW op \in Op
    PROVE  op[1] \in Coro /\ op[2] \in 1 .. MaxAwaits /\ op = <<op[1], op[2]>>
BY DEF Op

LEMMA NoTagNotOp == NoTag \notin Op
BY DEF NoTag, Op

LEMMA NoContextType == NoContext \in Context /\ Freed \in Context
BY DEF NoContext, Freed, Context, Type

LEMMA CompletedType ==
    ASSUME NEW x \in Context, NEW ok \in BOOLEAN, NEW type
    PROVE  Completed(x, ok, type) \in Context
BY DEF Completed, Context

LEMMA ReturnedType ==
    ASSUME TypeOK, NEW c \in Coro
    PROVE  Returned(c) \in Outcome
<1>. kind[c] \in {"unary", "stream", "finish"} /\ outcome[c] \in Outcome
  BY DEF TypeOK, Kind
<1>. QED
  BY DEF Returned, Outcome

LEMMA OutcomesType ==
    ASSUME NEW k \in Kind
    PROVE  Outcomes(k) \subseteq Outcome \ {"none"}
<1>1. CASE k = "unary"
  BY <1>1 DEF Outcomes, Outcome
<1>2. CASE k = "stream"
  BY <1>2 DEF Outcomes, Outcome
<1>3. CASE k = "finish"
  BY <1>3 DEF Outcomes, Outcome
<1>. QED
  BY <1>1, <1>2, <1>3 DEF Kind

-----------------------------------------------------------------------------
(* Type correctness.                                                       *)

LEMMA TypeInit == Init => TypeOK
<1>. SUFFICES ASSUME Init PROVE TypeOK
  OBVIOUS
<1>1. /\ owner \in OwnerPC /\ poller \in PollerPC /\ ctx_type \in Type
      /\ {shutdown_flag, cq_shutdown, stop_requested} \subseteq BOOLEAN
  BY DEF Init, OwnerPC, PollerPC, Type
<1>2. tag \in Op \cup {NoTag} /\ ((tag \in Op) <=> (poller = "resuming"))
  BY NoTagNotOp DEF Init
<1>3. ctx \in [Op -> Context]
  BY NoContextType DEF Init
<1>4. /\ pc \in [Coro -> CoroPC] /\ kind \in [Coro -> Kind]
      /\ awaits \in [Coro -> 0 .. MaxAwaits]
      /\ outcome \in [Coro -> Outcome] /\ result \in [Coro -> Outcome]
      /\ suspending \subseteq Coro \X (0 .. MaxAwaits)
      /\ queue \in [Op -> {"none", "pending", "complete", "taken"}]
  BY AwaitBound DEF Init, CoroPC, Kind, Outcome
<1>. QED
  BY <1>1, <1>2, <1>3, <1>4 DEF TypeOK

LEMMA TypeStep == TypeOK /\ [Next]_vars => TypeOK'
<1>. SUFFICES ASSUME TypeOK, [Next]_vars PROVE TypeOK'
  OBVIOUS
<1>. USE DEF TypeOK, vars, adapterVars, pollerVars, coroVars, grpcVars
<1>1. ASSUME NEW c \in Coro, NEW k \in Kind, AwaitSuspend(c, k) PROVE TypeOK'
  <2>1. ctx' \in [Op -> Context]
    BY <1>1, NoContextType DEF AwaitSuspend, Context, NoContext, ContextType, Type
  <2>2. awaits' \in [Coro -> 0 .. MaxAwaits]
    BY <1>1, AwaitBound DEF AwaitSuspend
  <2>. QED
    BY <1>1, <2>1, <2>2 DEF AwaitSuspend, CoroPC, Outcome
<1>2. ASSUME NEW c \in Coro, StartOperation(c) PROVE TypeOK'
  <2>1. Current(c) \in Coro \X (0 .. MaxAwaits)
    BY DEF Current
  <2>. QED
    BY <1>2, <2>1 DEF StartOperation, CoroPC
<1>3. ASSUME NEW c \in Coro, StartThrows(c) PROVE TypeOK'
  BY <1>3, NoContextType DEF StartThrows, CoroPC
<1>4. ASSUME NEW c \in Coro, AwaitResume(c) PROVE TypeOK'
  <2>1. ctx' \in [Op -> Context]
    BY <1>4, NoContextType DEF AwaitResume
  <2>2. result' \in [Coro -> Outcome]
    BY <1>4, ReturnedType DEF AwaitResume
  <2>. QED
    BY <1>4, <2>1, <2>2 DEF AwaitResume, CoroPC, Kind, Outcome
<1>5. ASSUME NEW c \in Coro, Return(c) PROVE TypeOK'
  BY <1>5 DEF Return, CoroPC, Outcome
<1>6. ASSUME NEW op \in Op, Complete(op) PROVE TypeOK'
  <2>1. Outcomes(kind[op[1]]) \subseteq Outcome
    BY OpParts, OutcomesType
  <2>. QED
    BY <1>6, <2>1, OpParts DEF Complete
<1>7. ASSUME NEW op \in Op, GotEvent(op) PROVE TypeOK'
  <2>1. TagOk(op) \in BOOLEAN
    BY DEF TagOk
  <2>2. ctx[op] \in Context /\ ctx[op].type \in Type
    BY DEF Context
  <2>3. Completed(ctx[op], TagOk(op), ctx_type') \in Context
    BY <2>1, <2>2, CompletedType
  <2>4. ctx' \in [Op -> Context]
    BY <1>7, <2>3 DEF GotEvent
  <2>. QED
    BY <1>7, <2>2, <2>4, OpParts DEF GotEvent, CoroPC, PollerPC
<1>8. CASE TestStop \/ TimedOut \/ QueueShutdown
  BY <1>8 DEF TestStop, TimedOut, QueueShutdown, PollerPC
<1>9. CASE ResumeReturns
  BY <1>9, NoContextType, NoTagNotOp DEF ResumeReturns, PollerPC, Type
<1>10. CASE Shutdown \/ Destruct
  <2>1. cq_shutdown' \in BOOLEAN /\ shutdown_flag' \in BOOLEAN
    BY <1>10 DEF Shutdown, Destruct, CallOnce
  <2>. QED
    BY <1>10, <2>1 DEF Shutdown, Destruct, OwnerPC
<1>11. CASE RequestStop \/ Join \/ OtherAdapterShutsDown
  BY <1>11 DEF RequestStop, Join, OtherAdapterShutsDown, OwnerPC
<1>12. ASSUME NEW op \in Op, SuspendReturns(op) PROVE TypeOK'
  BY <1>12 DEF SuspendReturns
<1>13. CASE UNCHANGED vars
  BY <1>13
<1>. QED
  BY <1>1, <1>2, <1>3, <1>4, <1>5, <1>6, <1>7, <1>8, <1>9, <1>10, <1>11, <1>12, <1>13
     DEF Next, CoroStep, PollerStep

(* Every variable of the adapter, its poller and its coroutines has its    *)
(* type, and the poller holds a tag exactly while process_tag handles one. *)
THEOREM TypeCorrect == Spec => []TypeOK
BY TypeInit, TypeStep, PTL DEF Spec

-----------------------------------------------------------------------------
(* The life of a context.                                                  *)

LEMMA ContextInit == Init => ContextLife
<1>. SUFFICES ASSUME Init PROVE ContextLife
  OBVIOUS
<1>1. ASSUME NEW op \in Op PROVE ctx[op].life = "none" /\ queue[op] = "none"
  BY DEF Init, NoContext
<1>. QED
  BY <1>1 DEF Init, ContextLife, AwaitedOp, LeftOp, TagOp, Live

(* The operation that a coroutine awaits is one.                           *)
LEMMA CurrentOp ==
    ASSUME TypeOK, NEW c \in Coro, awaits[c] > 0
    PROVE  /\ Current(c) \in Op
           /\ Current(c)[1] = c /\ Current(c)[2] = awaits[c]
BY DEF TypeOK, Current, Op

(* An operation that gRPC has is the one its suspended coroutine awaits.   *)
LEMMA WithGrpc ==
    ASSUME TypeOK, ContextLife, NEW op \in Op, queue[op] \in {"pending", "complete"}
    PROVE  /\ op[1] \in Coro /\ op = Current(op[1]) /\ pc[op[1]] = "suspended"
           /\ ~Future(op)
<1>1. op[1] \in Coro /\ op = Current(op[1])
  BY OpParts DEF ContextLife, LeftOp, Awaited
<1>2. pc[op[1]] = "suspended"
  BY <1>1 DEF ContextLife, LeftOp, Awaited, AwaitedOp, TagOp
<1>. QED
  BY <1>1, <1>2 DEF ContextLife

LEMMA ContextStep == TypeOK /\ TypeOK' /\ ContextLife /\ [Next]_vars => ContextLife'
<1>. SUFFICES ASSUME TypeOK, TypeOK', ContextLife, [Next]_vars PROVE ContextLife'
  OBVIOUS
<1>. USE DEF vars, adapterVars, pollerVars, coroVars, grpcVars
<1>1. ASSUME NEW c \in Coro, NEW k \in Kind, AwaitSuspend(c, k) PROVE ContextLife'
  <2>. DEFINE new == <<c, awaits[c] + 1>>
  <2>1. /\ new \in Op /\ new[1] = c /\ new[2] = awaits[c] + 1
        /\ Future(new) /\ queue[new] = "none"
    BY <1>1, AwaitBound DEF AwaitSuspend, TypeOK, Op, Future, ContextLife
  <2>2. Current(c)' = new /\ \A d \in Coro \ {c} : Current(d)' = Current(d)
    BY <1>1 DEF AwaitSuspend, Current, TypeOK
  <2>3. ctx'[new] = [NoContext EXCEPT !.life = "live", !.type = ContextType(k),
                                      !.caller_handle = TRUE]
    BY <1>1, <2>1 DEF AwaitSuspend, TypeOK
  <2>4. \A op \in Op : op # new => ctx'[op] = ctx[op]
    BY <1>1 DEF AwaitSuspend, TypeOK
  <2>5. \A d \in Coro : AwaitedOp(d)'
    <3>1. AwaitedOp(c)'
      BY <1>1, <2>1, <2>2, <2>3 DEF AwaitSuspend, AwaitedOp, Live, NoContext, TypeOK
    <3>2. ASSUME NEW d \in Coro \ {c} PROVE AwaitedOp(d)'
      <4>1. awaits[d] > 0 => Current(d) \in Op /\ Current(d) # new
        BY <2>1, CurrentOp
      <4>. QED
        BY <1>1, <2>2, <2>4, <4>1, <3>2 DEF AwaitSuspend, AwaitedOp, Live, TypeOK, ContextLife
    <3>. QED
      BY <3>1, <3>2
  <2>6. ASSUME NEW op \in Op PROVE Awaited(op)' \/ LeftOp(op)'
    <3>1. CASE op = new
      BY <1>1, <2>1, <2>2, <3>1 DEF AwaitSuspend, Awaited, TypeOK
    <3>2. CASE op # new /\ op[1] = c
      BY <1>1, <2>4, <3>2 DEF AwaitSuspend, Awaited, LeftOp, Live, ContextLife
    <3>3. CASE op[1] # c
      BY <1>1, <2>2, <2>4, <2>1, <3>3, OpParts
         DEF AwaitSuspend, Awaited, LeftOp, Live, ContextLife, TypeOK
    <3>. QED
      BY <3>1, <3>2, <3>3
  <2>7. ASSUME NEW op \in Op, Future(op)' PROVE queue'[op] = "none" /\ ~Live(op)'
    <3>1. op # new /\ Future(op)
      BY <1>1, <2>1, <2>7, OpParts DEF AwaitSuspend, Future, TypeOK
    <3>. QED
      BY <1>1, <2>4, <3>1 DEF AwaitSuspend, Live, ContextLife
  <2>8. TagOp'
    <3>1. poller = "resuming" => tag \in Op /\ tag # new
      BY <2>1 DEF TypeOK, TagOp, ContextLife
    <3>2. poller = "resuming" => ~Future(tag)'
      BY <1>1, <3>1, OpParts DEF AwaitSuspend, TagOp, Future, ContextLife, TypeOK
    <3>. QED
      BY <1>1, <2>4, <3>1, <3>2 DEF AwaitSuspend, TagOp, Heap, Live, ContextLife
  <2>. QED
    BY <2>5, <2>6, <2>7, <2>8 DEF ContextLife
<1>2. ASSUME NEW c \in Coro, StartOperation(c) PROVE ContextLife'
  <2>1. awaits[c] > 0 /\ queue[Current(c)] = "none"
    BY <1>2 DEF StartOperation, AwaitedOp, ContextLife
  <2>2. Current(c) \in Op /\ Current(c)[1] = c /\ Current(c)[2] = awaits[c]
    BY <2>1, CurrentOp
  <2>. QED
    BY <1>2, <2>1, <2>2, CurrentOp, OpParts
       DEF StartOperation, ContextLife, AwaitedOp, Awaited, LeftOp, Future, TagOp, Live,
           Heap, Current, TypeOK
<1>3. ASSUME NEW c \in Coro, StartThrows(c) PROVE ContextLife'
  <2>1. awaits[c] > 0 /\ queue[Current(c)] = "none"
    BY <1>3 DEF StartThrows, AwaitedOp, ContextLife
  <2>2. Current(c) \in Op /\ Current(c)[1] = c /\ Current(c)[2] = awaits[c]
    BY <2>1, CurrentOp
  <2>3. ctx'[Current(c)].life = "freed"
    BY <1>3, <2>2 DEF StartThrows, Freed, NoContext, TypeOK
  <2>. QED
    BY <1>3, <2>1, <2>2, <2>3, CurrentOp, OpParts
       DEF StartThrows, ContextLife, AwaitedOp, Awaited, LeftOp, Future, TagOp, Live,
           Heap, Current, TypeOK
<1>4. ASSUME NEW c \in Coro, AwaitResume(c) PROVE ContextLife'
  <2>1. /\ awaits[c] > 0 /\ poller = "resuming" /\ tag = Current(c)
        /\ Live(Current(c)) /\ ctx[Current(c)].type = ContextType(kind[c])
        /\ queue[Current(c)] = "taken"
    BY <1>4 DEF AwaitResume, AwaitedOp, TagOp, ContextLife
  <2>2. Current(c) \in Op /\ Current(c)[1] = c /\ Current(c)[2] = awaits[c]
    BY <2>1, CurrentOp
  <2>3. CASE kind[c] = "unary"
    <3>1. ctx_type = "ASYNC_UNARY"
      BY <2>1, <2>3 DEF ContextLife, TagOp, Heap, ContextType
    <3>2. UNCHANGED <<ctx, queue, awaits, kind, pollerVars>>
      BY <1>4, <2>3 DEF AwaitResume, TypeOK
    <3>3. pc' = [pc EXCEPT ![c] = "running"]
      BY <1>4 DEF AwaitResume
    <3>4. \A d \in Coro : AwaitedOp(d)'
      BY <3>2, <3>3 DEF ContextLife, AwaitedOp, Live, Current, TypeOK
    <3>5. ASSUME NEW op \in Op PROVE Awaited(op)' \/ LeftOp(op)'
      <4>1. CASE op = Current(c)
        BY <2>1, <3>1, <3>2, <4>1 DEF LeftOp, Live
      <4>2. CASE op # Current(c)
        BY <3>2, <3>3, <4>2, OpParts
           DEF ContextLife, Awaited, LeftOp, Live, Current, TypeOK
      <4>. QED
        BY <4>1, <4>2
    <3>6. TagOp' /\ \A op \in Op : Future(op)' => queue'[op] = "none" /\ ~Live(op)'
      BY <3>2 DEF ContextLife, TagOp, Future, Heap, Live
    <3>. QED
      BY <3>4, <3>5, <3>6 DEF ContextLife
  <2>4. CASE kind[c] # "unary"
    <3>1. ctx_type # "ASYNC_UNARY"
      BY <2>1, <2>4 DEF ContextLife, TagOp, Heap, ContextType
    <3>2. ctx'[Current(c)].life = "freed"
      BY <1>4, <2>2, <2>4 DEF AwaitResume, Freed, NoContext, TypeOK
    <3>3. UNCHANGED <<queue, awaits, pollerVars>> /\ \A d \in Coro \ {c} : kind'[d] = kind[d]
      BY <1>4 DEF AwaitResume, TypeOK
    <3>4. pc' = [pc EXCEPT ![c] = "running"] /\ \A d \in Coro : Current(d)' = Current(d)
      BY <1>4 DEF AwaitResume, Current
    <3>5. \A op \in Op : op # Current(c) => ctx'[op] = ctx[op]
      BY <1>4, <2>4 DEF AwaitResume, TypeOK
    <3>6. ASSUME NEW d \in Coro PROVE AwaitedOp(d)'
      <4>1. CASE d = c
        BY <3>4, <4>1 DEF AwaitedOp, TypeOK
      <4>2. CASE d # c
        <5>1. awaits[d] > 0 => Current(d) \in Op /\ Current(d) # Current(c)
          BY <2>2, <4>2, CurrentOp
        <5>. QED
          BY <3>3, <3>4, <3>5, <4>2, <5>1 DEF ContextLife, AwaitedOp, Live, TypeOK
      <4>. QED
        BY <4>1, <4>2
    <3>7. ASSUME NEW op \in Op PROVE Awaited(op)' \/ LeftOp(op)'
      <4>1. CASE op = Current(c)
        BY <2>1, <3>2, <3>3, <4>1 DEF LeftOp, Live
      <4>2. CASE op # Current(c)
        BY <3>3, <3>4, <3>5, <4>2, OpParts DEF ContextLife, Awaited, LeftOp, Live, TypeOK
      <4>. QED
        BY <4>1, <4>2
    <3>8. \A op \in Op : Future(op)' => queue'[op] = "none" /\ ~Live(op)'
      BY <3>2, <3>3, <3>5 DEF ContextLife, Future, Live
    <3>9. TagOp'
      BY <2>1, <3>1, <3>2, <3>3 DEF ContextLife, TagOp, Heap, Live, Future
    <3>. QED
      BY <3>6, <3>7, <3>8, <3>9 DEF ContextLife
  <2>. QED
    BY <2>3, <2>4
<1>5. ASSUME NEW c \in Coro, Return(c) PROVE ContextLife'
  BY <1>5, CurrentOp, OpParts
     DEF Return, ContextLife, AwaitedOp, Awaited, LeftOp, Future, TagOp, Live, Heap,
         Current, TypeOK
<1>6. ASSUME NEW op \in Op, Complete(op) PROVE ContextLife'
  <2>1. Awaited(op) /\ ~Future(op) /\ pc[op[1]] = "suspended"
    BY <1>6, WithGrpc DEF Complete, Awaited
  <2>. QED
    BY <1>6, <2>1, CurrentOp, OpParts
       DEF Complete, ContextLife, AwaitedOp, Awaited, LeftOp, Future, TagOp, Live, Heap,
           Current, TypeOK
<1>7. ASSUME NEW op \in Op, GotEvent(op) PROVE ContextLife'
  <2>1. /\ Awaited(op) /\ ~Future(op) /\ pc[op[1]] = "suspended"
        /\ op[1] \in Coro /\ op = Current(op[1])
    BY <1>7, WithGrpc DEF GotEvent, Awaited
  <2>2. Live(op) /\ ctx[op].caller_handle = TRUE /\ Resumable(op)
    BY <2>1 DEF ContextLife, AwaitedOp, Resumable
  <2>3. /\ ctx'[op].life = ctx[op].life /\ ctx'[op].type = ctx[op].type
        /\ ctx'[op].caller_handle = ctx[op].caller_handle
    <3>1. ctx[op] \in Context /\ ctx'[op] = Completed(ctx[op], TagOk(op), ctx_type')
      BY <1>7 DEF GotEvent, TypeOK
    <3>. QED
      BY <3>1 DEF Completed, Context
  <2>4. pc' = [pc EXCEPT ![op[1]] = "resumed"]
    BY <1>7, <2>2 DEF GotEvent
  <2>5. \A d \in Coro : Current(d)' = Current(d)
    BY <1>7 DEF GotEvent, Current
  <2>. QED
    BY <1>7, <2>1, <2>2, <2>3, <2>4, <2>5, CurrentOp, OpParts
       DEF GotEvent, ContextLife, AwaitedOp, Awaited, LeftOp, Future, TagOp, Live, Heap,
           TypeOK, Type
<1>8. CASE TestStop \/ TimedOut \/ QueueShutdown
  BY <1>8 DEF TestStop, TimedOut, QueueShutdown, ContextLife, AwaitedOp, Awaited, LeftOp,
              Future, TagOp, Live, Heap, Current
<1>9. CASE ResumeReturns
  <2>1. tag \in Op /\ poller = "resuming" /\ queue[tag] = "taken"
    BY <1>9 DEF ResumeReturns, TypeOK, ContextLife, TagOp
  <2>2. \A d \in Coro : pc[d] \in {"starting", "suspended"} /\ awaits[d] > 0 => Current(d) # tag
    BY <2>1 DEF ContextLife, AwaitedOp
  <2>3. \A d \in Coro : pc[d] # "resumed"
    BY <1>9, CurrentOp DEF ResumeReturns, GivesBack, ContextLife, AwaitedOp
  <2>4. ctx_type = "ASYNC_UNARY" => ctx'[tag].life = "freed"
    BY <1>9, <2>1 DEF ResumeReturns, Freed, NoContext, TypeOK
  <2>. QED
    BY <1>9, <2>1, <2>2, <2>3, <2>4, CurrentOp, OpParts
       DEF ResumeReturns, ContextLife, AwaitedOp, Awaited, LeftOp, Future, TagOp, Live, Heap,
           Current, TypeOK
<1>10. CASE Shutdown \/ Destruct \/ RequestStop \/ Join \/ OtherAdapterShutsDown
  BY <1>10 DEF Shutdown, Destruct, RequestStop, Join, OtherAdapterShutsDown, ContextLife,
               AwaitedOp, Awaited, LeftOp, Future, TagOp, Live, Heap, Current
<1>11. ASSUME NEW op \in Op, SuspendReturns(op) PROVE ContextLife'
  BY <1>11 DEF SuspendReturns, ContextLife, AwaitedOp, Awaited, LeftOp, Future, TagOp, Live,
               Heap, Current
<1>12. CASE UNCHANGED vars
  BY <1>12 DEF ContextLife, AwaitedOp, Awaited, LeftOp, Future, TagOp, Live, Heap, Current
<1>. QED
  BY <1>1, <1>2, <1>3, <1>4, <1>5, <1>6, <1>7, <1>8, <1>9, <1>10, <1>11, <1>12
     DEF Next, CoroStep, PollerStep

LEMMA ContextAlways == Spec => [](TypeOK /\ ContextLife)
BY TypeCorrect, ContextInit, ContextStep, PTL DEF Spec

(* For any number of coroutines and of awaits, in whatever order their     *)
(* operations complete: no tag that gRPC holds, no context that            *)
(* await_resume reads and none that process_tag deletes is dangling.       *)
THEOREM NoDanglingContext == Spec => []NoUseAfterFree
<1>1. ASSUME TypeOK, ContextLife PROVE NoUseAfterFree
  <2>1. ASSUME NEW op \in Op, queue[op] \in {"pending", "complete"} PROVE Live(op)
    BY <1>1, <2>1, OpParts DEF ContextLife, LeftOp, Awaited, AwaitedOp
  <2>2. ASSUME poller = "resuming", ctx_type = "ASYNC_UNARY" PROVE Live(tag)
    BY <1>1, <2>2 DEF ContextLife, TagOp, Heap
  <2>3. ASSUME NEW c \in Coro, pc[c] = "resumed" PROVE Live(Current(c))
    BY <1>1, <2>3 DEF ContextLife, AwaitedOp
  <2>. QED
    BY <2>1, <2>2, <2>3 DEF NoUseAfterFree
<1>. QED
  BY <1>1, ContextAlways, PTL

-----------------------------------------------------------------------------
(* The way of a result.                                                    *)

LEMMA ResultsInit == Init => Results
BY DEF Init, Results, ResultPath

LEMMA ResultsStep == TypeOK /\ ContextLife /\ Results /\ [Next]_vars => Results'
<1>. SUFFICES ASSUME TypeOK, ContextLife, Results, [Next]_vars, NEW d \in Coro
              PROVE  ResultPath(d)'
  BY DEF Results
<1>. USE DEF vars, adapterVars, pollerVars, coroVars, grpcVars
<1>a. ResultPath(d) /\ AwaitedOp(d)
  BY DEF Results, ContextLife
<1>1. ASSUME NEW c \in Coro, NEW k \in Kind, AwaitSuspend(c, k) PROVE ResultPath(d)'
  <2>. DEFINE new == <<c, awaits[c] + 1>>
  <2>1. new \in Op /\ new[1] = c
    BY <1>1, AwaitBound DEF AwaitSuspend, TypeOK, Op
  <2>2. ctx'[new].grpc_status = "OK"
    BY <1>1, <2>1 DEF AwaitSuspend, TypeOK, NoContext
  <2>3. CASE d = c
    <3>1. Current(d)' = new /\ pc'[d] = "starting" /\ outcome'[d] = "none" /\ result'[d] = "none"
      BY <1>1, <2>3 DEF AwaitSuspend, Current, TypeOK
    <3>. QED
      BY <2>2, <3>1 DEF ResultPath
  <2>4. CASE d # c
    <3>1. /\ Current(d)' = Current(d) /\ pc'[d] = pc[d] /\ outcome'[d] = outcome[d]
          /\ result'[d] = result[d] /\ kind'[d] = kind[d] /\ queue' = queue
      BY <1>1, <2>4 DEF AwaitSuspend, Current, TypeOK
    <3>2. pc[d] \in {"starting", "suspended", "resumed"} => ctx'[Current(d)] = ctx[Current(d)]
      BY <1>1, <1>a, <2>4, CurrentOp DEF AwaitSuspend, AwaitedOp, TypeOK
    <3>. QED
      BY <1>a, <3>1, <3>2 DEF ResultPath, Returned, Told
  <2>. QED
    BY <2>3, <2>4
<1>2. ASSUME NEW c \in Coro, StartOperation(c) PROVE ResultPath(d)'
  <2>1. awaits[c] > 0 /\ Current(c) \in Op /\ Current(c)[1] = c
    BY <1>2, CurrentOp DEF StartOperation, AwaitedOp, ContextLife
  <2>2. UNCHANGED <<awaits, kind, result, outcome, ctx>> /\ Current(d)' = Current(d)
    BY <1>2 DEF StartOperation, Current
  <2>3. CASE d = c
    <3>1. pc'[d] = "suspended" /\ queue'[Current(d)] = "pending" /\ pc[d] = "starting"
      BY <1>2, <2>1, <2>3 DEF StartOperation, TypeOK
    <3>. QED
      BY <1>a, <2>2, <3>1 DEF ResultPath
  <2>4. CASE d # c
    <3>1. pc'[d] = pc[d]
      BY <1>2, <2>4 DEF StartOperation, TypeOK
    <3>2. pc[d] = "suspended" => queue'[Current(d)] = queue[Current(d)]
      BY <1>2, <1>a, <2>1, <2>4, CurrentOp DEF StartOperation, AwaitedOp, TypeOK
    <3>. QED
      BY <1>a, <2>2, <3>1, <3>2 DEF ResultPath, Returned, Told
  <2>. QED
    BY <2>3, <2>4
<1>3. ASSUME NEW c \in Coro, StartThrows(c) PROVE ResultPath(d)'
  <2>2. /\ UNCHANGED <<awaits, kind, result, outcome, queue>> /\ Current(d)' = Current(d)
        /\ pc' = [pc EXCEPT ![c] = "running"] /\ pc[c] = "starting"
    BY <1>3 DEF StartThrows, Current
  <2>3. CASE d = c
    BY <1>a, <2>2, <2>3 DEF ResultPath, TypeOK
  <2>4. CASE d # c
    <3>1. pc[d] \in {"starting", "suspended", "resumed"} => ctx'[Current(d)] = ctx[Current(d)]
      <4>1. awaits[c] > 0 /\ Current(c) \in Op /\ Current(c)[1] = c
        BY <2>2, CurrentOp DEF AwaitedOp, ContextLife
      <4>. QED
        BY <1>3, <1>a, <2>4, <4>1, CurrentOp DEF StartThrows, AwaitedOp, TypeOK
    <3>. QED
      BY <1>a, <2>2, <2>4, <3>1 DEF ResultPath, Returned, Told, TypeOK
  <2>. QED
    BY <2>3, <2>4
<1>4. ASSUME NEW c \in Coro, AwaitResume(c) PROVE ResultPath(d)'
  <2>2. /\ UNCHANGED <<awaits, queue>> /\ Current(d)' = Current(d)
        /\ pc' = [pc EXCEPT ![c] = "running"] /\ pc[c] = "resumed"
        /\ result' = [result EXCEPT ![c] = Returned(c)]
        /\ d # c => kind'[d] = kind[d] /\ outcome'[d] = outcome[d]
    BY <1>4 DEF AwaitResume, Current, TypeOK
  <2>3. CASE d = c
    BY <1>a, <2>2, <2>3 DEF ResultPath, TypeOK
  <2>4. CASE d # c
    <3>1. pc[d] \in {"starting", "suspended", "resumed"} => ctx'[Current(d)] = ctx[Current(d)]
      <4>1. awaits[c] > 0 /\ Current(c) \in Op /\ Current(c)[1] = c
        BY <2>2, CurrentOp DEF AwaitedOp, ContextLife
      <4>. QED
        BY <1>4, <1>a, <2>4, <4>1, CurrentOp DEF AwaitResume, AwaitedOp, TypeOK
    <3>. QED
      BY <1>a, <2>2, <2>4, <3>1 DEF ResultPath, Returned, Told, TypeOK
  <2>. QED
    BY <2>3, <2>4
<1>5. ASSUME NEW c \in Coro, Return(c) PROVE ResultPath(d)'
  <2>1. /\ UNCHANGED <<awaits, kind, outcome, ctx, queue>> /\ Current(d)' = Current(d)
        /\ pc' = [pc EXCEPT ![c] = "done"] /\ pc[c] = "running"
        /\ result' = [result EXCEPT ![c] = "none"]
    BY <1>5 DEF Return, Current
  <2>. QED
    BY <1>a, <2>1 DEF ResultPath, Returned, Told, TypeOK
<1>6. ASSUME NEW op \in Op, Complete(op) PROVE ResultPath(d)'
  <2>1. /\ UNCHANGED <<awaits, kind, result, ctx, pc>> /\ Current(d)' = Current(d)
        /\ queue[op] = "pending" /\ queue' = [queue EXCEPT ![op] = "complete"]
    BY <1>6 DEF Complete, Current
  <2>2. op[1] \in Coro /\ op = Current(op[1]) /\ pc[op[1]] = "suspended"
    BY <2>1, WithGrpc
  <2>3. CASE d = op[1]
    <3>1. queue'[Current(d)] = "complete" /\ outcome'[d] \in Outcomes(kind[d])
      BY <1>6, <2>1, <2>2, <2>3 DEF Complete, TypeOK
    <3>. QED
      BY <1>a, <2>1, <2>2, <2>3, <3>1 DEF ResultPath
  <2>4. CASE d # op[1]
    <3>1. outcome'[d] = outcome[d]
      BY <1>6, <2>4 DEF Complete, TypeOK
    <3>2. pc[d] = "suspended" => queue'[Current(d)] = queue[Current(d)]
      BY <1>a, <2>1, <2>4, CurrentOp DEF AwaitedOp, TypeOK
    <3>. QED
      BY <1>a, <2>1, <3>1, <3>2 DEF ResultPath, Returned, Told
  <2>. QED
    BY <2>3, <2>4
<1>7. ASSUME NEW op \in Op, GotEvent(op) PROVE ResultPath(d)'
  <2>1. /\ UNCHANGED <<awaits, kind, result, outcome>> /\ Current(d)' = Current(d)
        /\ queue[op] = "complete" /\ queue' = [queue EXCEPT ![op] = "taken"]
    BY <1>7 DEF GotEvent, Current
  <2>2. op[1] \in Coro /\ op = Current(op[1]) /\ pc[op[1]] = "suspended"
    BY <2>1, WithGrpc
  <2>3. ctx[op].caller_handle = TRUE /\ ctx[op].type = ContextType(kind[op[1]])
    BY <2>2 DEF ContextLife, AwaitedOp
  <2>4. pc' = [pc EXCEPT ![op[1]] = "resumed"]
    BY <1>7, <2>2, <2>3 DEF GotEvent, Resumable
  <2>5. CASE d = op[1]
    <3>1. /\ ctx[op] \in Context
          /\ ctx'[op] = Completed(ctx[op], TagOk(op), ContextType(kind[d]))
      BY <1>7, <2>3, <2>5 DEF GotEvent, TypeOK
    <3>2. /\ outcome[d] \in Outcomes(kind[d]) /\ outcome[d] # "none" /\ result[d] = "none"
          /\ ctx[op].grpc_status = "OK"
      BY <1>a, <2>1, <2>2, <2>5, OutcomesType DEF ResultPath, TypeOK
    <3>3. Returned(d)' = Told'[d]
      <4>1. /\ Current(d)' = op /\ kind'[d] = kind[d] /\ outcome'[d] = outcome[d]
            /\ TagOk(op) <=> outcome[d] # "failed"
        BY <2>1, <2>2, <2>5 DEF TagOk
      <4>2. CASE kind[d] = "unary"
        <5>1. ctx'[op].grpc_status = IF TagOk(op) THEN "OK" ELSE "CANCELLED"
          BY <3>1, <4>2 DEF Completed, ContextType, Context
        <5>2. outcome[d] \in {"ok", "failed", "error"}
          BY <3>2, <4>2 DEF Outcomes
        <5>. QED
          BY <4>1, <4>2, <5>1, <5>2 DEF Returned, Told
      <4>3. CASE kind[d] = "stream"
        <5>1. ctx'[op].ok = TagOk(op)
          BY <3>1, <4>3 DEF Completed, ContextType, Context
        <5>2. outcome[d] \in {"ok", "failed"}
          BY <3>2, <4>3 DEF Outcomes
        <5>. QED
          BY <4>1, <4>3, <5>1, <5>2 DEF Returned, Told
      <4>4. CASE kind[d] = "finish"
        BY <4>1, <4>4 DEF Returned, Told
      <4>. QED
        BY <4>2, <4>3, <4>4 DEF TypeOK, Kind
    <3>. QED
      BY <2>1, <2>4, <2>5, <3>2, <3>3 DEF ResultPath, TypeOK
  <2>6. CASE d # op[1]
    <3>1. pc'[d] = pc[d]
      BY <2>4, <2>6 DEF TypeOK
    <3>2. pc[d] \in {"starting", "suspended", "resumed"} =>
             ctx'[Current(d)] = ctx[Current(d)] /\ queue'[Current(d)] = queue[Current(d)]
      BY <1>7, <1>a, <2>1, <2>6, CurrentOp DEF GotEvent, AwaitedOp, TypeOK
    <3>. QED
      BY <1>a, <2>1, <3>1, <3>2 DEF ResultPath, Returned, Told
  <2>. QED
    BY <2>5, <2>6
<1>8. CASE TestStop \/ TimedOut \/ QueueShutdown \/ Shutdown \/ Destruct \/ RequestStop
             \/ Join \/ OtherAdapterShutsDown \/ UNCHANGED vars
  <2>1. UNCHANGED <<coroVars, grpcVars, ctx>>
    BY <1>8 DEF TestStop, TimedOut, QueueShutdown, Shutdown, Destruct, RequestStop, Join,
                OtherAdapterShutsDown
  <2>. QED
    BY <1>a, <2>1 DEF ResultPath, Returned, Told, Current
<1>9. CASE ResumeReturns
  <2>1. UNCHANGED <<coroVars, grpcVars>> /\ Current(d)' = Current(d)
    BY <1>9 DEF ResumeReturns, Current
  <2>2. tag \in Op /\ poller = "resuming" /\ queue[tag] = "taken"
    BY <1>9 DEF ResumeReturns, TypeOK, ContextLife, TagOp
  <2>3. pc[d] # "resumed"
    BY <1>9, <1>a, CurrentOp DEF ResumeReturns, GivesBack, AwaitedOp
  <2>4. pc[d] \in {"starting", "suspended"} => ctx'[Current(d)] = ctx[Current(d)]
    BY <1>9, <1>a, <2>2 DEF ResumeReturns, AwaitedOp, TypeOK
  <2>. QED
    BY <1>a, <2>1, <2>3, <2>4 DEF ResultPath
<1>10. ASSUME NEW op \in Op, SuspendReturns(op) PROVE ResultPath(d)'
  BY <1>10, <1>a DEF SuspendReturns, ResultPath, Returned, Told, Current
<1>. QED
  BY <1>1, <1>2, <1>3, <1>4, <1>5, <1>6, <1>7, <1>8, <1>9, <1>10
     DEF Next, CoroStep, PollerStep

LEMMA ResultsAlways == Spec => [](TypeOK /\ ContextLife /\ Results)
BY ContextAlways, ResultsInit, ResultsStep, PTL DEF Spec

-----------------------------------------------------------------------------
(* Taking the adapter down.                                                *)

LEMMA TakenDownInit == Init => TakenDown
BY DEF Init, TakenDown

LEMMA TakenDownStep ==
    TypeOK /\ TypeOK' /\ ContextLife /\ TakenDown /\ [Next]_vars => TakenDown'
<1>. SUFFICES ASSUME TypeOK, TypeOK', ContextLife, TakenDown, [Next]_vars PROVE TakenDown'
  OBVIOUS
<1>. USE DEF vars, adapterVars, pollerVars, coroVars, grpcVars
<1>1. ASSUME NEW c \in Coro, NEW k \in Kind, AwaitSuspend(c, k) PROVE TakenDown'
  BY <1>1 DEF AwaitSuspend, TakenDown
<1>2. ASSUME NEW c \in Coro, StartOperation(c) PROVE TakenDown'
  <2>1. owner = "using"
    BY <1>2 DEF StartOperation, TakenDown, Quiet
  <2>. QED
    BY <1>2, <2>1 DEF StartOperation, TakenDown
<1>3. ASSUME NEW c \in Coro, StartThrows(c) PROVE TakenDown'
  <2>1. owner = "using"
    BY <1>3 DEF StartThrows, TakenDown, Quiet
  <2>. QED
    BY <1>3, <2>1 DEF StartThrows, TakenDown
<1>4. ASSUME NEW c \in Coro, AwaitResume(c) PROVE TakenDown'
  <2>1. poller = "resuming"
    BY <1>4 DEF AwaitResume, ContextLife, AwaitedOp
  <2>2. Quiet => Quiet'
    BY <1>4 DEF AwaitResume, Quiet, TypeOK
  <2>. QED
    BY <1>4, <2>1, <2>2 DEF AwaitResume, TakenDown
<1>5. ASSUME NEW c \in Coro, Return(c) PROVE TakenDown'
  <2>1. Quiet => Quiet'
    BY <1>5 DEF Return, Quiet, TypeOK
  <2>. QED
    BY <1>5, <2>1 DEF Return, TakenDown, Drained, Heap, Live
<1>6. ASSUME NEW op \in Op, Complete(op) PROVE TakenDown'
  <2>1. ~Drained
    BY <1>6 DEF Complete, Drained
  <2>. QED
    BY <1>6, <2>1 DEF Complete, TakenDown, Quiet
<1>7. ASSUME NEW op \in Op, GotEvent(op) PROVE TakenDown'
  <2>1. Quiet => Quiet'
    BY <1>7 DEF GotEvent, Quiet, TypeOK
  <2>. QED
    BY <1>7, <2>1 DEF GotEvent, TakenDown
<1>8. CASE TestStop
  BY <1>8 DEF TestStop, TakenDown, Quiet, Drained, Heap, Live
<1>9. CASE TimedOut
  BY <1>9 DEF TimedOut, TakenDown, Quiet
<1>10. CASE QueueShutdown
  <2>1. tag \notin Op /\ Quiet /\ cq_shutdown /\ Drained
    BY <1>10 DEF QueueShutdown, TypeOK, TakenDown
  <2>2. ASSUME NEW op \in Op PROVE ~Live(op)
    <3>1. queue[op] \in {"none", "taken"} /\ poller # "resuming"
      BY <1>10 DEF QueueShutdown, Drained
    <3>2. ~Awaited(op)
      BY <2>1, <3>1, OpParts DEF ContextLife, Awaited, AwaitedOp, Quiet
    <3>. QED
      BY <3>1, <3>2 DEF ContextLife, LeftOp
  <2>. QED
    BY <1>10, <2>1, <2>2 DEF QueueShutdown, TakenDown, Quiet, Drained, Heap, Live
<1>11. CASE ResumeReturns
  BY <1>11 DEF ResumeReturns, TakenDown, Quiet
<1>12. CASE Shutdown \/ Destruct
  <2>1. /\ owner' # "using" /\ Quiet
        /\ UNCHANGED <<stop_requested, pollerVars, coroVars, grpcVars, ctx>>
    BY <1>12 DEF Shutdown, Destruct
  <2>2. cq_shutdown => cq_shutdown'
    BY <1>12 DEF Shutdown, Destruct, CallOnce
  <2>. QED
    BY <2>1, <2>2 DEF TakenDown, Quiet, Drained, Heap, Live
<1>13. CASE RequestStop \/ Join
  BY <1>13 DEF RequestStop, Join, TakenDown, Quiet, Drained, Heap, Live
<1>14. CASE OtherAdapterShutsDown \/ UNCHANGED vars
  BY <1>14 DEF OtherAdapterShutsDown, TakenDown, Quiet, Drained, Heap, Live
<1>15. ASSUME NEW op \in Op, SuspendReturns(op) PROVE TakenDown'
  BY <1>15 DEF SuspendReturns, TakenDown, Quiet, Drained, Heap, Live
<1>. QED
  BY <1>1, <1>2, <1>3, <1>4, <1>5, <1>6, <1>7, <1>8, <1>9, <1>10, <1>11, <1>12, <1>13, <1>14,
     <1>15
     DEF Next, CoroStep, PollerStep

LEMMA TakenDownAlways == Spec => []TakenDown
BY TakenDownInit, TakenDownStep, ContextAlways, PTL DEF Spec

(* For any number of coroutines: a poller that ends with its queue, and    *)
(* not because ~jthread asked it to, has processed every tag and deleted   *)
(* every AsyncContext.                                                     *)
THEOREM NothingLeftBehind == Spec => []ShutdownDrains
<1>1. TakenDown => ShutdownDrains
  BY DEF TakenDown, ShutdownDrains
<1>. QED
  BY <1>1, TakenDownAlways, PTL

(* new and delete are paired for as long as the adapter lives: an          *)
(* AsyncContext is with the await_suspend that starts it, with gRPC and a  *)
(* poller that still takes tags, or with the process_tag that deletes it,  *)
(* also when start_fn throws and when the queue is shut down under it.     *)
(* Once ~jthread has requested the stop this is not so: the run            *)
(* coro_context_leaked shows the counterexample.                           *)
THEOREM NoLeakedContext == Spec => []OwnedUntilStop
<1>1. ASSUME TypeOK, ContextLife, TakenDown PROVE OwnedUntilStop
  <2>. SUFFICES ASSUME ~stop_requested, NEW op \in Op, Heap(op)
                PROVE  \/ pc[op[1]] = "starting" /\ op = Current(op[1])
                       \/ queue[op] \in {"pending", "complete"} /\ poller # "exited"
                       \/ tag = op
    BY DEF OwnedUntilStop, HeapContextOwned
  <2>1. poller # "exited"
    BY <1>1 DEF TakenDown
  <2>2. \/ pc[op[1]] = "starting" /\ op = Current(op[1])
        \/ queue[op] \in {"pending", "complete"}
        \/ tag = op
    BY <1>1, OpParts DEF ContextLife, LeftOp, Awaited, AwaitedOp, Heap
  <2>. QED
    BY <2>1, <2>2
<1>. QED
  BY <1>1, ContextAlways, TakenDownAlways, PTL

-----------------------------------------------------------------------------
(* What co_await promises.                                                 *)

(* Only a step of coroutine c, and the step of gRPC or of the poller with  *)
(* its operation, shows in what the contract sees of c.                    *)
LEMMA ContractStep ==
    TypeOK /\ ContextLife /\ Results /\ [Next]_vars
        => [Contract!Next]_<<AwaitState, Told, result>>
<1>. SUFFICES ASSUME TypeOK, ContextLife, Results, [Next]_vars
              PROVE  Contract!Next \/ UNCHANGED <<AwaitState, Told, result>>
  OBVIOUS
<1>. USE DEF vars, adapterVars, pollerVars, coroVars, grpcVars
<1>. DEFINE Waiting == {"starting", "suspended", "resumed"}
            View(p) == IF p \in Waiting THEN "awaiting" ELSE p
<1>a. ASSUME NEW c \in Coro, NEW p, pc' = [pc EXCEPT ![c] = p]
      PROVE  AwaitState' = [AwaitState EXCEPT ![c] = View(p)]
  BY <1>a DEF TypeOK, AwaitState
<1>b. \A c \in Coro : AwaitState[c] = View(pc[c])
  BY DEF AwaitState
<1>c. UNCHANGED <<kind, outcome>> => UNCHANGED Told
  BY DEF Told
<1>1. ASSUME NEW c \in Coro, NEW k \in Kind, AwaitSuspend(c, k) PROVE Contract!Next
  <2>1. Told' = [Told EXCEPT ![c] = "none"]
    BY <1>1 DEF AwaitSuspend, Told, TypeOK
  <2>2. AwaitState[c] = "running" /\ AwaitState' = [AwaitState EXCEPT ![c] = "awaiting"]
    BY <1>1, <1>a, <1>b DEF AwaitSuspend
  <2>3. Contract!Await(c)
    BY <1>1, <2>1, <2>2 DEF AwaitSuspend, Contract!Await
  <2>. QED
    BY <2>3 DEF Contract!Next
<1>2. ASSUME NEW c \in Coro, StartOperation(c)
      PROVE  UNCHANGED <<AwaitState, Told, result>>
  BY <1>2, <1>a, <1>b, <1>c DEF StartOperation, AwaitState
<1>3. ASSUME NEW c \in Coro, StartThrows(c) PROVE Contract!Next
  <2>1. Told[c] = "none" /\ UNCHANGED Told
    BY <1>3, <1>c DEF StartThrows, Results, ResultPath, Told
  <2>2. Contract!Refuse(c)
    BY <1>3, <1>a, <1>b, <2>1 DEF StartThrows, Contract!Refuse
  <2>. QED
    BY <2>2 DEF Contract!Next
<1>4. ASSUME NEW c \in Coro, AwaitResume(c) PROVE Contract!Next
  <2>1. Told[c] # "none" /\ Returned(c) = Told[c] /\ Told' = [Told EXCEPT ![c] = "none"]
    BY <1>4 DEF AwaitResume, Results, ResultPath, Told, TypeOK
  <2>2. Contract!Deliver(c)
    BY <1>4, <1>a, <1>b, <2>1 DEF AwaitResume, Contract!Deliver
  <2>. QED
    BY <2>2 DEF Contract!Next
<1>5. ASSUME NEW c \in Coro, Return(c) PROVE Contract!Next
  <2>1. Contract!End(c)
    BY <1>5, <1>a, <1>b, <1>c DEF Return, Contract!End
  <2>. QED
    BY <2>1 DEF Contract!Next
<1>6. ASSUME NEW op \in Op, Complete(op) PROVE Contract!Next
  <2>. DEFINE c == op[1]
  <2>1. c \in Coro /\ op = Current(c) /\ pc[c] = "suspended" /\ queue[op] = "pending"
    BY <1>6, WithGrpc DEF Complete
  <2>2. Told[c] = "none"
    BY <2>1 DEF Results, ResultPath, Told
  <2>3. UNCHANGED <<AwaitState, result>>
    BY <1>6 DEF Complete, AwaitState
  <2>4. PICK how \in Outcomes(kind[c]) : outcome' = [outcome EXCEPT ![c] = how]
    BY <1>6 DEF Complete
  <2>. DEFINE told == IF kind[c] = "unary" /\ how = "error" THEN "ok" ELSE how
  <2>5. told \in {"ok", "failed", "error"}
    BY <2>1, <2>4, OutcomesType DEF TypeOK, Outcome
  <2>6. Told' = [Told EXCEPT ![c] = told]
    BY <1>6, <2>1, <2>4 DEF Complete, Told, TypeOK
  <2>7. Contract!Settle(c)
    BY <1>b, <2>1, <2>2, <2>3, <2>5, <2>6 DEF Contract!Settle
  <2>. QED
    BY <2>1, <2>7 DEF Contract!Next
<1>7. ASSUME NEW op \in Op, GotEvent(op) PROVE UNCHANGED <<AwaitState, Told, result>>
  <2>1. op[1] \in Coro /\ pc[op[1]] = "suspended"
    BY <1>7, WithGrpc DEF GotEvent
  <2>2. CASE UNCHANGED pc
    BY <1>7, <1>c, <2>2 DEF GotEvent, AwaitState
  <2>3. CASE pc' = [pc EXCEPT ![op[1]] = "resumed"]
    BY <1>7, <1>a, <1>b, <1>c, <2>1, <2>3 DEF GotEvent, AwaitState
  <2>. QED
    BY <1>7, <2>2, <2>3 DEF GotEvent
<1>8. CASE TestStop \/ TimedOut \/ QueueShutdown \/ ResumeReturns \/ Shutdown \/ Destruct
             \/ RequestStop \/ Join \/ OtherAdapterShutsDown \/ UNCHANGED vars
  <2>1. UNCHANGED <<pc, kind, outcome, result>>
    BY <1>8 DEF TestStop, TimedOut, QueueShutdown, ResumeReturns, Shutdown, Destruct,
                RequestStop, Join, OtherAdapterShutsDown
  <2>. QED
    BY <1>c, <2>1 DEF AwaitState
<1>9. ASSUME NEW op \in Op, SuspendReturns(op) PROVE UNCHANGED <<AwaitState, Told, result>>
  BY <1>9, <1>c DEF SuspendReturns, AwaitState
<1>. QED
  BY <1>1, <1>2, <1>3, <1>4, <1>5, <1>6, <1>7, <1>8, <1>9 DEF Next, CoroStep, PollerStep

(* For any number of coroutines and awaits, CoroAdapter with its awaiters  *)
(* implements the contract of co_await: a coroutine goes on only when its  *)
(* operation has completed or could not be started, once, and with the     *)
(* outcome that gRPC told of that operation.                               *)
THEOREM AwaitRefinement == Spec => ImplementsAwait
<1>1. Init => Contract!Init
  BY DEF Init, AwaitState, Told, Contract!Init
<1>. QED
  BY <1>1, ContractStep, ResultsAlways, PTL
     DEF Spec, ImplementsAwait, Contract!Spec, Contract!contractVars

=============================================================================
