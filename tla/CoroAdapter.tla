----------------------------- MODULE CoroAdapter -----------------------------
(***************************************************************************)
(* The coroutine layer: CoroAdapter, AwaitableOperation and the awaiters   *)
(* of src/core/coro.  Coroutines hand the address of a context to gRPC as  *)
(* the tag of an operation and suspend.  The adapter's poller thread takes *)
(* completed tags from the completion queue, resumes the coroutine on its  *)
(* own stack and frees the context where the context is its own: an        *)
(* AsyncContext is on the heap, a StreamContext in the coroutine's frame.  *)
(*                                                                         *)
(* One adapter is modelled.  The others of the process matter through      *)
(* shutdown_flag alone, which is static and so shared by all of them.      *)
(*                                                                         *)
(* What the users of the adapter keep to: no operation is started once its *)
(* owner has begun to take the adapter down (gRPC forbids new work on a    *)
(* queue that is shut down), the adapter is not destroyed by a coroutine   *)
(* that the poller runs, and start_fn throws only before it has started    *)
(* the operation.  cancel_with_timeout() has no caller and is left out.    *)
(***************************************************************************)
EXTENDS Naturals

CONSTANTS
    Coro,        \* the coroutines
    MaxAwaits    \* bound: how often a coroutine awaits an operation

ASSUME AwaitBound == MaxAwaits \in Nat

Op    == Coro \X (1 .. MaxAwaits)           \* the k-th await of a coroutine
NoTag == <<>>                               \* nullptr
Kind  == {"unary", "stream", "finish"}      \* "stream": Read, Write, WritesDone

(* The discriminator that starts every context. *)
Type == {"ASYNC_UNARY", "STREAM_OP"}
ContextType(k) == IF k = "unary" THEN "ASYNC_UNARY" ELSE "STREAM_OP"

VARIABLES
    owner,            \* what the owner of the adapter does next
    shutdown_flag,    \* static once_flag of shutdown(): used
    cq_shutdown,      \* cq_->Shutdown() was called
    stop_requested,   \* the stop token of poller_thread_
    poller,           \* what the poller thread does next
    tag,              \* the operation whose tag process_tag handles
    ctx_type,         \* the type that process_tag read from its context
    pc,               \* [Coro -> what the coroutine does next]
    awaits,           \* [Coro -> its awaits so far]
    kind,             \* [Coro -> the operation it awaits]
    outcome,          \* [Coro -> how gRPC completed that operation, till the await ends]
    result,           \* [Coro -> what the co_await expression came to]
    suspending,       \* the operations whose await_suspend has yet to return
    ctx,              \* [Op -> its context]
    queue             \* [Op -> where the operation is in gRPC]

adapterVars == <<owner, shutdown_flag, cq_shutdown, stop_requested>>
pollerVars  == <<poller, tag, ctx_type>>
coroVars    == <<pc, awaits, kind, result, suspending>>
grpcVars    == <<queue, outcome>>
vars == <<adapterVars, pollerVars, coroVars, grpcVars, ctx>>

OwnerPC  == {"using", "shut_down", "destructing", "joining", "gone"}
PollerPC == {"test_stop", "next", "resuming", "exited"}
CoroPC   == {"running", "starting", "suspended", "resumed", "done"}

(* How gRPC completes an operation: "failed" if the bool that comes with   *)
(* the tag is false, "error" if it is true and the RPC ended with a status *)
(* that is not OK.  A Read, a Write and a WritesDone have no status, and   *)
(* the bool of a Finish is always true.                                    *)
Outcomes(k) ==
    CASE k = "unary"  -> {"ok", "failed", "error"}
      [] k = "stream" -> {"ok", "failed"}
      [] k = "finish" -> {"ok", "error"}
Outcome  == {"none", "ok", "failed", "error"}

(* "none": not made yet.  grpc::Status is OK and ok is false when made. *)
Context == [life : {"none", "live", "freed"}, type : Type, caller_handle : BOOLEAN,
            ok : BOOLEAN, grpc_status : {"OK", "CANCELLED"}]
NoContext == [life |-> "none", type |-> "ASYNC_UNARY", caller_handle |-> FALSE,
              ok |-> FALSE, grpc_status |-> "OK"]
Freed     == [NoContext EXCEPT !.life = "freed"]

Current(c) == <<c, awaits[c]>>              \* the operation c awaits or awaited last
Live(op)   == ctx[op].life = "live"
Heap(op)   == Live(op) /\ ctx[op].type = "ASYNC_UNARY"

(* The constructor: a new queue and the poller thread.  Another adapter of *)
(* the process may have used the flag already.                             *)
Init ==
    /\ owner = "using"
    /\ shutdown_flag \in BOOLEAN
    /\ cq_shutdown = FALSE /\ stop_requested = FALSE
    /\ poller = "test_stop" /\ tag = NoTag /\ ctx_type = "ASYNC_UNARY"
    /\ pc = [c \in Coro |-> "running"]
    /\ awaits = [c \in Coro |-> 0]
    /\ kind = [c \in Coro |-> "unary"]
    /\ outcome = [c \in Coro |-> "none"] /\ result = [c \in Coro |-> "none"]
    /\ suspending = {}
    /\ ctx = [op \in Op |-> NoContext]
    /\ queue = [op \in Op |-> "none"]

-----------------------------------------------------------------------------
(* The coroutines *)

(* co_await: the context is made (on the heap by the caller of an          *)
(* AwaitableOperation, in the frame by an awaiter of a stream), and        *)
(* await_suspend stores the handle in it.                                  *)
AwaitSuspend(c, k) ==
    LET op == <<c, awaits[c] + 1>>
    IN  /\ pc[c] = "running" /\ awaits[c] < MaxAwaits
        /\ owner = "using"
        /\ awaits' = [awaits EXCEPT ![c] = @ + 1]
        /\ pc' = [pc EXCEPT ![c] = "starting"]
        /\ kind' = [kind EXCEPT ![c] = k]
        /\ outcome' = [outcome EXCEPT ![c] = "none"]
        /\ result' = [result EXCEPT ![c] = "none"]
        /\ ctx' = [ctx EXCEPT ![op] = [NoContext EXCEPT !.life = "live",
                                                        !.type = ContextType(k),
                                                        !.caller_handle = TRUE]]
        /\ UNCHANGED <<adapterVars, pollerVars, queue, suspending>>

(* Mutant: await_suspend returns false, and the coroutine does not wait.   *)
Bug_StartOperation(c) ==
    /\ pc[c] = "starting"
    /\ pc' = [pc EXCEPT ![c] = "running"]
    /\ queue' = [queue EXCEPT ![Current(c)] = "pending"]
    /\ UNCHANGED <<adapterVars, pollerVars, awaits, kind, result, suspending, outcome, ctx>>

(* start_fn, or Read, Write, WritesDone or Finish: gRPC has the tag, and   *)
(* the operation may complete and the poller resume the coroutine from     *)
(* here on, while the call that started it has not returned.               *)
StartOperation(c) ==
    /\ pc[c] = "starting"
    /\ pc' = [pc EXCEPT ![c] = "suspended"]
    /\ queue' = [queue EXCEPT ![Current(c)] = "pending"]
    /\ suspending' = suspending \cup {Current(c)}
    /\ UNCHANGED <<adapterVars, pollerVars, awaits, kind, result, outcome, ctx>>

(* start_fn returns and await_suspend after it, to whoever ran the         *)
(* coroutine.  The coroutine may be further on, or at its end, and the     *)
(* context gone: await_suspend looks at nothing after start_fn.            *)
SuspendReturns(op) ==
    /\ op \in suspending
    /\ suspending' = suspending \ {op}
    /\ UNCHANGED <<adapterVars, pollerVars, pc, awaits, kind, result, grpcVars, ctx>>

Bug_StartThrows(c) ==
    /\ pc[c] = "starting" /\ Heap(Current(c))
    /\ pc' = [pc EXCEPT ![c] = "running"]
    /\ UNCHANGED <<adapterVars, pollerVars, grpcVars, awaits, kind, result, suspending, ctx>>

(* start_fn throws: await_suspend deletes the context and rethrows, which  *)
(* resumes the coroutine with the exception.                               *)
StartThrows(c) ==
    /\ pc[c] = "starting" /\ Heap(Current(c))
    /\ pc' = [pc EXCEPT ![c] = "running"]
    /\ ctx' = [ctx EXCEPT ![Current(c)] = Freed]
    /\ UNCHANGED <<adapterVars, pollerVars, grpcVars, awaits, kind, result, suspending>>

(* What await_resume returns: the status of an AsyncContext, which is made *)
(* of the tag's bool, ok of a StreamContext, or the status that gRPC       *)
(* itself wrote for Finish.                                                *)
Returned(c) ==
    LET x == ctx[Current(c)]
    IN  CASE kind[c] = "unary"  -> IF x.grpc_status = "OK" THEN "ok" ELSE "failed"
          [] kind[c] = "stream" -> IF x.ok THEN "ok" ELSE "failed"
          [] kind[c] = "finish" -> outcome[c]

(* The coroutine goes on: await_resume reads the context, and the awaiter  *)
(* ends with the expression, and with it a StreamContext and whatever      *)
(* gRPC wrote of the operation.                                            *)
AwaitResume(c) ==
    LET op == Current(c)
    IN  /\ pc[c] = "resumed"
        /\ pc' = [pc EXCEPT ![c] = "running"]
        /\ result' = [result EXCEPT ![c] = Returned(c)]
        /\ outcome' = [outcome EXCEPT ![c] = "none"]
        /\ ctx' = IF kind[c] = "unary" THEN ctx ELSE [ctx EXCEPT ![op] = Freed]
        /\ kind' = [kind EXCEPT ![c] = "unary"]
        /\ UNCHANGED <<adapterVars, pollerVars, queue, awaits, suspending>>

(* The coroutine comes to its end, and its frame goes. *)
Return(c) ==
    /\ pc[c] = "running"
    /\ pc' = [pc EXCEPT ![c] = "done"]
    /\ result' = [result EXCEPT ![c] = "none"]
    /\ UNCHANGED <<adapterVars, pollerVars, grpcVars, awaits, kind, suspending, ctx>>

CoroStep(c) ==
    \/ \E k \in Kind : AwaitSuspend(c, k)
    \/ StartOperation(c)
    \/ StartThrows(c)
    \/ AwaitResume(c)
    \/ Return(c)

-----------------------------------------------------------------------------
(* gRPC and its completion queue *)

(* An operation completes, in any order.  The status of a unary RPC goes   *)
(* to a variable of start_fn's, which the adapter does not see.            *)
Complete(op) ==
    /\ queue[op] = "pending"
    /\ queue' = [queue EXCEPT ![op] = "complete"]
    /\ \E how \in Outcomes(kind[op[1]]) : outcome' = [outcome EXCEPT ![op[1]] = how]
    /\ UNCHANGED <<adapterVars, pollerVars, coroVars, ctx>>

(* AsyncNext returns GOT_EVENT while a completed tag is there, SHUTDOWN    *)
(* when the queue is shut down and has delivered every tag, and otherwise  *)
(* TIMEOUT at the deadline.                                                *)
HasEvent == \E op \in Op : queue[op] = "complete"
Drained  == \A op \in Op : queue[op] \in {"none", "taken"}

(* The bool that comes with the tag. *)
TagOk(op) == outcome[op[1]] # "failed"

-----------------------------------------------------------------------------
(* poll_loop and process_tag, on the poller thread *)

Bug_TestStop ==
    /\ poller = "test_stop"
    /\ poller' = "next"
    /\ UNCHANGED <<adapterVars, tag, ctx_type, coroVars, grpcVars, ctx>>

TestStop ==
    /\ poller = "test_stop"
    /\ poller' = IF stop_requested THEN "exited" ELSE "next"
    /\ UNCHANGED <<adapterVars, tag, ctx_type, coroVars, grpcVars, ctx>>

Bug_TimedOut ==
    /\ poller = "next" /\ ~HasEvent /\ ~(cq_shutdown /\ Drained)
    /\ poller' = "resuming"
    /\ UNCHANGED <<adapterVars, tag, ctx_type, coroVars, grpcVars, ctx>>

TimedOut ==
    /\ poller = "next" /\ ~HasEvent /\ ~(cq_shutdown /\ Drained)
    /\ poller' = "test_stop"
    /\ UNCHANGED <<adapterVars, tag, ctx_type, coroVars, grpcVars, ctx>>

Bug_QueueShutdown ==
    /\ poller = "next" /\ cq_shutdown
    /\ poller' = "exited"
    /\ UNCHANGED <<adapterVars, tag, ctx_type, coroVars, grpcVars, ctx>>

(* The loop ends with drain_remaining_tags(), whose first AsyncNext        *)
(* returns SHUTDOWN again: SHUTDOWN means that no tag is left.             *)
QueueShutdown ==
    /\ poller = "next" /\ cq_shutdown /\ Drained
    /\ poller' = "exited"
    /\ UNCHANGED <<adapterVars, tag, ctx_type, coroVars, grpcVars, ctx>>

(* What process_tag writes to the context. *)
Completed(x, ok, type) ==
    IF type = "ASYNC_UNARY"
    THEN [x EXCEPT !.ok = ok, !.grpc_status = IF ok THEN "OK" ELSE "CANCELLED"]
    ELSE [x EXCEPT !.ok = ok]

Bug_Resumable(op) == ctx[op].caller_handle /\ pc[op[1]] # "done" /\ TagOk(op)

Resumable(op) == ctx[op].caller_handle /\ pc[op[1]] # "done"

Bug_GotEvent(op) ==
    /\ poller = "next" /\ queue[op] = "complete"
    /\ queue' = [queue EXCEPT ![op] = "taken"]
    /\ tag' = op /\ ctx_type' = ctx[op].type
    /\ ctx' = IF Heap(op) THEN [ctx EXCEPT ![op] = Freed]
              ELSE [ctx EXCEPT ![op] = Completed(@, TagOk(op), ctx_type')]
    /\ pc' = IF Resumable(op) THEN [pc EXCEPT ![op[1]] = "resumed"] ELSE pc
    /\ poller' = "resuming"
    /\ UNCHANGED <<adapterVars, awaits, kind, result, suspending, outcome>>

(* AsyncNext returns a tag, and process_tag goes as far as resume(): from  *)
(* here the poller thread runs the coroutine.                              *)
GotEvent(op) ==
    /\ poller = "next" /\ queue[op] = "complete"
    /\ queue' = [queue EXCEPT ![op] = "taken"]
    /\ tag' = op /\ ctx_type' = ctx[op].type
    /\ ctx' = [ctx EXCEPT ![op] = Completed(@, TagOk(op), ctx_type')]
    /\ pc' = IF Resumable(op) THEN [pc EXCEPT ![op[1]] = "resumed"] ELSE pc
    /\ poller' = "resuming"
    /\ UNCHANGED <<adapterVars, awaits, kind, result, suspending, outcome>>

(* The coroutine that the poller runs has given the thread back: it is at  *)
(* its end, or the await_suspend of its next operation has returned.       *)
GivesBack(c) ==
    \/ pc[c] = "done"
    \/ pc[c] = "suspended" /\ Current(c) \notin suspending

(* Then resume() returns, and the poller deletes the context if it is an   *)
(* AsyncContext.                                                           *)
ResumeReturns ==
    /\ poller = "resuming" /\ GivesBack(tag[1])
    /\ ctx' = IF ctx_type = "ASYNC_UNARY" THEN [ctx EXCEPT ![tag] = Freed] ELSE ctx
    /\ tag' = NoTag /\ ctx_type' = "ASYNC_UNARY"
    /\ poller' = "test_stop"
    /\ UNCHANGED <<adapterVars, coroVars, grpcVars>>

PollerStep ==
    \/ TestStop
    \/ \E op \in Op : GotEvent(op)
    \/ TimedOut
    \/ QueueShutdown
    \/ ResumeReturns

-----------------------------------------------------------------------------
(* The owner of the adapter, and the other adapters of the process *)

(* shutdown(): the first call of the process, whatever adapter it is for. *)
CallOnce ==
    /\ cq_shutdown' = (cq_shutdown \/ ~shutdown_flag)
    /\ shutdown_flag' = TRUE

(* The users have stopped starting operations: none is half started. *)
Quiet == \A c \in Coro : pc[c] # "starting"

Shutdown ==
    /\ owner = "using" /\ Quiet
    /\ CallOnce
    /\ owner' = "shut_down"
    /\ UNCHANGED <<stop_requested, pollerVars, coroVars, grpcVars, ctx>>

(* The destructor's body, with or without a shutdown() before it. *)
Destruct ==
    /\ owner \in {"using", "shut_down"} /\ Quiet
    /\ CallOnce
    /\ owner' = "destructing"
    /\ UNCHANGED <<stop_requested, pollerVars, coroVars, grpcVars, ctx>>

(* Then the members go: ~jthread requests a stop and joins the poller, and *)
(* the queue is destroyed with what is left in it.                         *)
RequestStop ==
    /\ owner = "destructing"
    /\ stop_requested' = TRUE
    /\ owner' = "joining"
    /\ UNCHANGED <<shutdown_flag, cq_shutdown, pollerVars, coroVars, grpcVars, ctx>>

Join ==
    /\ owner = "joining" /\ poller = "exited"
    /\ owner' = "gone"
    /\ UNCHANGED <<shutdown_flag, cq_shutdown, stop_requested, pollerVars, coroVars,
                   grpcVars, ctx>>

OtherAdapterShutsDown ==
    /\ ~shutdown_flag
    /\ shutdown_flag' = TRUE
    /\ UNCHANGED <<owner, cq_shutdown, stop_requested, pollerVars, coroVars, grpcVars,
                   ctx>>

-----------------------------------------------------------------------------
Next ==
    \/ \E c \in Coro : CoroStep(c)
    \/ \E op \in Op : SuspendReturns(op)
    \/ \E op \in Op : Complete(op)
    \/ PollerStep
    \/ Shutdown
    \/ Destruct
    \/ RequestStop
    \/ Join
    \/ OtherAdapterShutsDown

(* The threads run: a coroutine that is not suspended goes on, a call that *)
(* started an operation returns, the poller does not stall, and a          *)
(* destructor that was entered proceeds.  gRPC need not complete an        *)
(* operation, and the owner need not give the adapter up.                  *)
Fairness ==
    /\ \A c \in Coro : WF_vars(CoroStep(c))
    /\ \A op \in Op : WF_vars(SuspendReturns(op))
    /\ WF_vars(PollerStep)
    /\ WF_vars(RequestStop \/ Join)

Spec == Init /\ [][Next]_vars /\ Fairness

-----------------------------------------------------------------------------
(* Properties *)

(* Types; the poller has a tag exactly while it processes one.             *)
TypeOK ==
    /\ owner \in OwnerPC /\ poller \in PollerPC
    /\ {shutdown_flag, cq_shutdown, stop_requested} \subseteq BOOLEAN
    /\ tag \in Op \cup {NoTag}
    /\ (tag \in Op) <=> (poller = "resuming")
    /\ pc \in [Coro -> CoroPC]
    /\ awaits \in [Coro -> 0 .. MaxAwaits]
    /\ kind \in [Coro -> Kind]
    /\ outcome \in [Coro -> Outcome] /\ result \in [Coro -> Outcome]
    /\ suspending \subseteq Coro \X (0 .. MaxAwaits)
    /\ ctx_type \in Type
    /\ ctx \in [Op -> Context]
    /\ queue \in [Op -> {"none", "pending", "complete", "taken"}]

(* No context is used after it is gone: one whose tag gRPC holds and the   *)
(* poller will process, one that a resumed coroutine is about to read, and *)
(* an AsyncContext that the poller is about to delete, are all live.       *)
NoUseAfterFree ==
    /\ \A op \in Op : queue[op] \in {"pending", "complete"} => Live(op)
    /\ (poller = "resuming" /\ ctx_type = "ASYNC_UNARY") => Live(tag)
    /\ \A c \in Coro : pc[c] = "resumed" => Live(Current(c))

(* Strict pairing of new and delete (coro_adapter.h): an AsyncContext that *)
(* is not freed has somebody who will free it: the await_suspend that      *)
(* starts it, the poller that holds its tag, or, while its tag is with     *)
(* gRPC, a poller that still runs to take it.                              *)
HeapContextOwned ==
    \A op \in Op :
        Heap(op) =>
            \/ pc[op[1]] = "starting" /\ op = Current(op[1])
            \/ queue[op] \in {"pending", "complete"} /\ poller # "exited"
            \/ tag = op

(* Until ~jthread asks the poller to stop, every AsyncContext has an       *)
(* owner: neither a start_fn that throws, nor a coroutine that ends, nor a *)
(* queue that is shut down under its operations leaves one behind.         *)
OwnedUntilStop == ~stop_requested => HeapContextOwned

(* An operation that gRPC has completed gets its coroutine resumed, unless *)
(* the adapter is destroyed first.                                         *)
CompletionResumes ==
    \A c \in Coro :
        (pc[c] = "suspended" /\ queue[Current(c)] = "complete")
            ~> (pc[c] = "resumed" \/ stop_requested)

(* The destructor returns, also of an adapter whose queue was never shut   *)
(* down because another adapter had used the flag.                         *)
DestructorReturns == owner = "destructing" ~> owner = "gone"

(* A poller that ends because the queue was shut down leaves no tag in the *)
(* queue and no context on the heap.  (A poller that ends because it was   *)
(* asked to stop may: see the README.)                                     *)
ShutdownDrains ==
    (poller = "exited" /\ ~stop_requested) => Drained /\ \A op \in Op : ~Heap(op)

(* The coroutine as one that uses co_await sees it.                        *)
AwaitState ==
    [c \in Coro |-> IF pc[c] \in {"starting", "suspended", "resumed"} THEN "awaiting"
                                                                      ELSE pc[c]]

(* What the adapter is told of an operation: the tag's bool, and of Finish *)
(* the status.  That a unary RPC ended with an error is not among it.      *)
Told ==
    [c \in Coro |-> IF kind[c] = "unary" /\ outcome[c] = "error" THEN "ok" ELSE outcome[c]]

Contract == INSTANCE AwaitContract WITH at <- AwaitState, outcome <- Told

(* The queue, the poller and the contexts together keep what co_await      *)
(* promises: no coroutine is resumed before its operation has completed,   *)
(* none twice for one await, and none by the operation of another, also    *)
(* when the poller overtakes the await_suspend that started it.            *)
ImplementsAwait == Contract!Spec

=============================================================================
