# D-RoCM in TLA+

A verification project for D-RoCM, a small C++20 middleware for distributed
robot nodes: a *registry* keeps a table of the nodes that are alive, *nodes*
register, send heartbeats and find each other through it, and a coroutine layer
wraps gRPC's completion queue. The modules here model the registry process, the
node base class, the coroutine layer, the LIDAR emulator (the one complete node
of the repository) and the metrics; TLC checks them on small instances, and TLAPS
proves their safety properties for all sizes. Paths below are those
of the repository.

## 1. Inventory

| Part | Source | State | Operations | Modelled in |
|---|---|---|---|---|
| Node table | `src/registry/node_table.*` | map from id to entry, capacity, one mutex | register, deregister, heartbeat, increment, remove stale, queries | `NodeTable` |
| Registry service | `src/registry/registry_service.*` | the table, `is_running_` | RPCs Register, Heartbeat, Deregister, Discover; `Shutdown()` | `Registry` |
| Health checker | `src/registry/health_checker.*` | thread, stop token, `is_running_` | `start`, `stop`, `run_loop` | `Registry`, `RegistryTimed` |
| Registry server | `examples/registry_server.cpp` | `g_running`, the objects above, the gRPC server | `main`, `signal_handler` | `Registry` |
| Node base class | `src/node/node_base.*` | running/registered flags, stub, adapter, heartbeat thread | `start`, `stop`, destructor, `heartbeat_loop`, backoff | `Node` |
| Coroutine adapter | `src/core/coro/coro_adapter.*` | completion queue, poller thread, contexts in flight | `poll_loop`, `process_tag`, drain, `shutdown`, timeouts | `CoroAdapter` (without the timeouts), `AwaitContract` |
| Stream awaiters | `src/core/coro/stream_awaiters.h` | contexts on coroutine frames | read, write, finish | `CoroAdapter` |
| Lidar emulator | `examples/lidar_emulator.cpp` | flags, heartbeat thread, metrics thread, streams | register and heartbeat with deadlines, Subscribe, ControlStream, shutdown | `LidarHeartbeat`, `LidarEmulator` |
| Metrics | `src/utils/metrics.*` | counters, sums and counts of latencies | record, RAII timer, export | `Metrics`, without the plain counters |
| Logger, transport manager, version, error codes, `src/main.cpp` | `src/utils`, `src/core` | none that matters to the others; the transport manager is a stub | | not modelled |

How they interact. Nodes call the registry by gRPC, which runs every handler on
a thread of its own. The handlers and the checker thread share the table (one
`shared_mutex`, held for the whole of every operation) and nothing else;
`main` shares two flags with them. A node has the thread of its owner and one
heartbeat thread, which share the stub and the flags without a lock. Every
`CoroAdapter` has a poller thread, which runs coroutines that others started;
the adapters of a process share one static flag. The emulator does not use the
`Node` class: it has a heartbeat thread of its own, a thread that serves the
metrics over HTTP, and the handler threads of its gRPC service, which all look
at the flag `g_running` that a signal clears; `main` waits for each of them in turn.

What is hard: the two separately locked halves of a health check; the check of
`is_running_` that is old when Register enters the table; the order of the
shutdown, with handlers and the checker still at work; a registry that crashes
and comes back empty; calls and answers that are lost; a `stop()` that leaves a
thread behind; a port that cannot be bound; contexts that are handed from a
coroutine to gRPC to the poller, and an adapter that goes while they travel; calls with deadlines that are served
after their client gave them up; a process that is killed and finds its own lease
when it comes back; threads that wait for clients while `main` waits for them;
a quotient of two atomics that change one at a time. `PROJECT.json` lists the hazards
with their lines.

What makes the parts correct:
the table never exceeds its capacity, never hands an id to a second owner while
the first holds it, and loses an entry only for a reason a client can know of;
a dead node goes and a live one stays; the process ends when told to, and
nobody works on what is destroyed; a node has one heartbeat thread, comes back
by itself, and is gone when it was stopped; a coroutine gets the outcome of the
operation it awaits, and each context is freed once, after its last use; the
emulator finds back into the registry after any faults, does not lose threads to
clients that are gone, and ends when told to, with the logger last; an average
is one that the recorded latencies can have.

## 2. Modules

`NodeTable` has the table as a variable and one operator per method. The last
parameter of an operator is the value that the method returns. Node ids and
services are model values, `""` is `EmptyId`; a session id is the pair of the
node id and the number of the `std::rand` call. The counter has its width
(`CounterMod` for 2^32). Addresses and load figures are copied around and
decide nothing, and are left out.

`Registry` is the process `registry_server`: `main` (Construct ... Destroy),
the checker thread (`LoopTest`, `Wake`, `Increment`, `RemoveStale`) and the calls.
A handler is split where it touches shared state. `Register` is three steps:
`RegisterRefused` or `RegisterAdmitted` (flag, checks, session id), then
`RegisterInsert`. The other handlers touch shared state once and are one step.
`ServerWait` stands for grpc::Server's promise that `Shutdown()` and `Wait()`
return when the handlers have. `Crash` kills the process anywhere. `late` is a
history variable: the call arrived after `Shutdown()`.

`LeaseDirectory` is what the registry promises: a bounded directory of leases
which are granted while it is open, renewed, aged together, released when asked
for, and expire after `Term` agings without renewal. `open` and `asked` are
inputs. `Registry!ImplementsDirectory` maps an entry to a lease whose owner is the
session id and whose credit is the number of misses still allowed.

`RegistryTimed` adds a clock to Registry's own actions: the checker sleeps at
least `check_interval_ms_`, everything else may take any time, and
`last_heartbeat` is stamped where the code stamps it.

`Node` is one object of class `Node`: its owner's thread, one heartbeat thread per
successful `start()`, and the registry seen from outside, which is
LeaseDirectory restricted to this node: up or down, and holding the id or not.
A call that fails on its way may have reached the registry, which then serves it
before or after the client has given it up (`late`, `ServeLate`).
`order_arrives` says whether the order to reconnect reaches the loop. It does not
from the registry of this repository (`OrderArrives = {FALSE}`), which sends it with the status
NOT_FOUND: gRPC delivers no response message with a status that is not OK. It does
from a registry that answers OK without success, which is the answer the test
`status.ok() && resp.success()` of `heartbeat_loop` provides for; the
reconnection code is only reached then. Use of the stub while another thread resets it, and
`shutdown()` on a null adapter, are undefined: the process dies (`crashed`) or
goes on.

`CoroAdapter` is one adapter with the coroutines that use it. The k-th await of
a coroutine is an operation with a context, which is live from its creation until
it is freed: by the poller (`AsyncContext`, on the heap), by the end of the awaiter
(`StreamContext`, in the coroutine's frame), or by `await_suspend` when `start_fn` throws.
`StartOperation` gives the tag to gRPC, and `SuspendReturns` is the end of the
`await_suspend` that did it: in between, the poller may resume the coroutine, which may free
its context, await again or end (`suspending` has the calls that have not returned).
An operation completes as "ok", as "failed" (the bool of the tag is false), or, an RPC with a
status, as "error" (the bool is true and the status is not OK).
`GotEvent` is AsyncNext and `process_tag` up to `resume()`; the coroutine's own
steps follow, on the poller's stack; `ResumeReturns` is the rest of `process_tag`,
once the coroutine has given the thread back.
The owner's steps are `Shutdown`, the destructor (`Destruct`) and the end of the
members (`RequestStop`, `Join`). Other adapters appear as `OtherAdapterShutsDown`,
which uses up the static flag. The completion queue is external: it hands out
completed tags in any order and says SHUTDOWN when it is shut down and empty.
Nothing in the repository awaits anything yet, so the users are any coroutines that
keep gRPC's rules: no operation is started once the owner begins to take the
adapter down.

`AwaitContract` is what `co_await` promises a coroutine, without contexts, tags or
threads: it goes on only when its operation has completed or could not be started,
once for every await, and with what was told of that operation.
`CoroAdapter!ImplementsAwait` maps a coroutine that is starting, suspended or
resumed to one that awaits, and an outcome to what the adapter is told of it (`Told`): of
a unary operation that is the bool of the tag alone, so that an RPC that ended with
an error is told, and delivered, as "ok".

`LidarHeartbeat` is `try_register_node` and `run_heartbeat` of the emulator, against
the registry as an instance of LeaseDirectory: Register is a grant, Heartbeat a
renewal, a health check an aging or an expiry, a crash a wipe, so that what
`Registry` is proved to implement is what the emulator relies on. A call of the
emulator ends by its answer, by the registry being down, or by its deadline; a Register
that was given up may be served later (`late`). While `~stable`, deadlines pass and
the registry crashes as often as they like; `Stabilise` ends that. The
thread's actions are the ways through one round of its loop: `BeatTest`, `Reregistered`,
`ReregisterFailed`, `HeartbeatOk`, `HeartbeatFailed`, `BeatExit`.

`LidarEmulator` composes it with the rest of the process: `main` from `Start` to
`Return`, `signal_handler`, a `Kill` and another start, the metrics thread, and one handler per
open stream: Subscribe (`SubscribeTest`, `WriteOk`, `WriteFailed`, `ConnectionDropped`)
or ControlStream (`Command`, `ReplyOk`, `ReadFailed`, `ReplyFailed`). gRPC's part is external:
a synchronous Write succeeds, blocks while the client's window is full, or
fails because the stream is dead; `Shutdown()` without a deadline returns when
every handler has. The sleeps are left out, except that an undisturbed call is
answered between two rounds of the health checker (`HealthCheck`).

`Metrics` has the pairs of a sum and a count behind the two averages, the threads that
add to them in two steps, the timer `ScopedRpcLatency` whose `stop()` is called by its user, by its
destructor, or by both, and a scrape that loads count and sum one after the other. Latencies
are in nanoseconds and the sums in whole microseconds, as the casts leave them (`Micros`).

`MCRegistry` and `MCRegistryTimed` define the requests of the instances.
`RegistryProofs`, `RegistryTimedProofs`, `NodeProofs`, `CoroAdapterProofs`, `LidarProofs` and
`MetricsProofs` hold the theorems about the module they extend (`LidarProofs` those about
`LidarEmulator`), and `NaturalLemmas` two facts about numbers that they share. An operator named
`Bug_...` is a faulty variant of the definition after it; a check that replaces
the definition by it must fail, which shows that the property sees it.

## 3. Runs

| Run | Checks | Instance |
|---|---|---|
| `registry_safety` | TypeOK, CapacityBound, MissedBound, NoLateRegistration, KeyedByOwner, TableOutlivesItsUsers, ImplementsDirectory | two nodes, one place, two concurrent calls of all kinds, malformed ones too; threshold 2, counters modulo 3; the port may be taken; crash and restart |
| `registry_liveness` | GracefulExit, InFlightCompletes, StaleEvicted, ImplementsDirectory | one id used by two processes, two places, fair scheduling |
| `registry_eviction_time` | EvictedOnlyWhenSilent | one node, a clock |
| `node_lifecycle` | TypeOK, HeartbeatThreadUnique, BackoffExact, GivesUpOnlyAtTheLimit, StaysDeregistered, OwnerReturns | registries of both kinds; two starts, five faults, three attempts |
| `coro_adapter` | TypeOK, NoUseAfterFree, ShutdownDrains, OwnedUntilStop, CompletionResumes, DestructorReturns, ImplementsAwait | two coroutines, two awaits each, of every kind |
| `lidar` | TypeOK, FailuresBounded, LoggerOutlivesItsUsers, SelfHeals, DepartedClientReleased, Exits | `max_retries` 3, two agings to a lease, one stream at a time, any number of faults, kills, signals and starts |
| `metrics` | AverageNotUnderstated, RecordedOnce | two threads, two recordings of each kind per thread, two latencies, any number of scrapes |

These pass. Five more runs show where the code does something else than a
comment or the README says, each with the shortest behaviour TLC finds:

| Run | Stated | What happens |
|---|---|---|
| `registry_sessions_unchecked` | "Unique session ID for heartbeat validation" (`node_table.h:20`) | the session id of a heartbeat is never compared: any other one renews the entry too, among them that of a process that lost the id |
| `node_not_healed` | the node reconnects by itself after the registry restarts (`README.md:23`) | the request to reconnect is in the response of a call that fails, which gRPC does not deliver; the node beats for ever |
| `node_stop_leaves_thread` | "deregister, stop heartbeat, shutdown CoroAdapter" (`node_base.h:58`) | `stop()` looks at the thread and leaves it running |
| `coro_context_leaked` | "Strict new/delete pairing", "drain_remaining_tags() deletes all pending tags" (`coro_adapter.h:29-30`) | the destructor requests the stop right after it has shut the queue down; a poller that sees the stop first ends, and nobody is left to take the tags and delete their contexts |
| `lidar_exit_hangs` | the metrics thread ends because `g_running` is false (`lidar_emulator.cpp:363`) | the thread waits in `accept()`, which the signal does not interrupt; until somebody connects, `main` waits for it and the process does not end |

Also met while modelling, and part of the model without a run of its own:
only Register reads the flag that is to "reject new RPC requests"
(`registry_service.h:60`), the other handlers serve calls after `Shutdown()`; "3 missed = 3s
offline" (`health_checker.h:17`) is between two and three seconds, because a heartbeat just
before a check counts as missed at once (EvictedOnlyWhenSilent has the bound that
holds); an adapter whose queue stays open, because another adapter has
used the static flag, leaves contexts and suspended coroutines behind in the same way as
`coro_context_leaked` shows for one whose queue is shut down, while a poller that ends on the
shutdown of its queue leaves none (ShutdownDrains);
`BuildAndStart` may return null, which `main` dereferences at the end
(`ServerShutdownOnNull`); `std::rand` is never seeded, so a restarted registry
repeats the session numbers of the one before; two comments give two delays for attempt a,
`base * 2^(a - 1)` (`node_base.cpp:225`), which is what the code computes and BackoffExact
states, and `base * 2^a` (`node_base.h:22`), which is twice as much; a Register that `start()` has given up for
lost may be served afterwards and leave a node in the table that its owner takes for
not started (StaysDeregistered excludes it); `start()` after
`stop()` does not make a new `CoroAdapter`; `drain_remaining_tags` runs only when the
queue has reported that it is empty, and so never finds a tag; a timeout of an
`AwaitableOperation` is stored and logged, and never armed; the status of an
`AwaitableOperation` is made from the bool that comes with the tag, not from
the status of the RPC. In the emulator: a Write that returns false is taken for
backpressure and retried (`lidar_emulator.cpp:93`), but in gRPC it means that the
stream is dead, while backpressure makes Write block; `pending` in ControlStream is 0
whenever it is tested, so its limit never acts; `Shutdown()` through a null `node_server`
when the port was taken (`ShutdownNull`); the node does not deregister when it
ends, and stays in the table until it is evicted. In the metrics: an average may
exceed every latency there was, because recordings that complete between the two
loads are in the sum and not in the count; and nothing but `increment_messages_sent` and
`get_prometheus_text` is called in the repository.

### Bounds

* Two calls: a handler interferes with another only through the table and the
  flag, each step of which is atomic, so two are enough for a race of each pair
  of handlers, with the checker and `main` besides. The proofs cover any number.
* Threshold 2 and `CounterMod` 3: the smallest in which a counter has a value
  between healthy and stale, and in which one increment too many wraps to 0.
* One place for two nodes: the table is full as soon as one is in, so the
  refusal, the freeing and the race for the place all happen. `registry_liveness`
  has two places, so that a duplicate id is refused as a duplicate.
* `MaxRands` bounds the registrations of one life of the process; a restart
  begins anew.
* `MaxTime` lets the checker of the timed instance sleep four times: an eviction at the
  threshold of three, in every phase to the heartbeat before it. `MaxFaults` and
  `MaxStarts` bound a Node's history: two starts are a replacement of the heartbeat thread by
  another, while the first runs, waits, reconnects or has given up.
* In `node_lifecycle` five faults against three attempts let the node recover
  after any number of attempts and also give up. With 1000 ms to begin with and at most 3000 ms the first
  delay is the base, the second doubled and the third cut. TLC's integers end
  at 2^31, so `DelayMod` is 2^30 there; the delays stay far below. With 23 or
  more attempts at the default base the doubling would wrap in uint32_t, which is why
  BackoffCorrect has a condition.
* Two awaits of each of two coroutines: the second await of a coroutine is begun
  on the poller's stack while the context of the first is still to be freed, and
  the other coroutine completes, runs or is suspended meanwhile.
* `max_retries` 3 (5 in the code) has a first, a middle and a last failure, and two
  agings (`Term` 2) leave a lease that is neither fresh nor at its end. With 5 and 3 the
  run passes too, in twice the time. One stream at a time is enough: handlers
  share nothing but `g_running`, and `main` waits for all of them. Nothing bounds the number of
  faults, kills and restarts.
* Two threads that record, with two recordings each: a scrape meets one of them between its
  additions while the other completes whole recordings between the two loads. Of the two
  latencies one is a whole number of microseconds, whose product may round below it, and one is not.

### Fairness

`Registry!Fairness`: `main`, the checker and each handler are threads that the
operating system runs (weak fairness of each); none of them holds a lock while
it waits. Nobody must start the process, send a signal, make or read a call.
`StaleEvicted` assumes in its premise that the server keeps running and that
the node is not heard of any more. `Node!Fairness`: the owner's thread inside a
call and the heartbeat threads run; a call is served or fails in the end, which
gRPC does when the connection breaks (the calls of Node have no deadline, so a
registry that hangs with its connection open is outside the assumption); a
registry that is down is restarted. Nobody must start or stop the node.

`CoroAdapter!Fairness`: a coroutine that is not suspended and the poller thread run, a call that
started an operation returns, and a destructor that was entered proceeds. gRPC need not complete an operation, and
the owner need not take the adapter down: CompletionResumes starts from a
completed operation, DestructorReturns from the destructor.

`LidarEmulator!Fairness`: the threads of the process run; a call is served, or refused when the
registry is down; a registry that is down comes back, and its checker runs again
and again. That one is strong fairness, because a check waits for an
undisturbed call to end, and the pauses between calls are longer than a check.
Faults need not end: SelfHeals speaks of the time after they did. Nobody must start,
signal or kill the process. Two constants say what clients do: with
`ClientsLeave` every client of a stream leaves in the end, and with `Scraped`
somebody connects to the metrics port again and again. The code needs both to end
after a signal; `lidar_exit_hangs` drops the second.

Deadlock is checked in the runs of the registry, the node, the emulator and the metrics: `registry_server` can always be
started again, and a finished node stutters explicitly (`Ended`). An adapter that
is gone does nothing any more, so the runs of `CoroAdapter` do not check it.

## 4. Proofs

`RegistryProofs` proves for every set of nodes, calls and requests, every
capacity, threshold and counter width, assuming of the constants only what the ASSUMEs
of `NodeTable` and `Registry` state (the threshold is positive and representable in
the counter; requests are well typed):

* `TypeCorrect`, `EntriesKeyedByOwner`. TypeOK is not inductive: Register stores
  what it checked a step earlier. `TypeInv` adds `PendingOK`: a Register past
  its checks serves a request that names a node, with a session id made for it.
* `TableSafe`: no handler and no checker thread on a destroyed table.
  `Phases` is the inductive invariant: it says for every point of `main`
  who may be alive, which is the argument for the shutdown order.
* `CapacityKept`, `CountersBounded`. `TableSteps` reduces every step of the
  process to what it may do to the table; both invariants are then about five
  table operations. MissedBound is inductive because it says where in the
  check the threshold may be reached: only between the two halves.
* `Refinement`: `Spec => ImplementsDirectory`. Initial states map to initial states;
  each table operation maps to an action of the directory. MissedBound is what
  makes an increment an aging (no counter wraps), CapacityBound makes an insert a
  grant, KeyedByOwner makes what is renewed or released a name, and Phases
  gives that leases are granted only while the process is up.
* `LateRegisterRefused`: no Register that arrived after `Shutdown()` stores
  anything. `LateInv` adds that the flag stays down while a late call runs.

`RegistryTimedProofs` proves `EvictionTime`: on the clock, a node is evicted only
after `(max_missed_heartbeats_ - 1) * check_interval_ms_` of silence. The inductive
invariant `TimedInv` bounds below, for each entry and each point of the
checker's loop, the silence by the misses counted: k misses mean that k - 1
whole sleeps lie behind the last heartbeat.

`NodeProofs`, for every number of starts and faults and every ReconnectStrategy
whose numbers are uint32_t:

* `TypeCorrect`. `StartsBound` is added because `start()` tests the bound of
  the model before it registers and makes the thread after.
* `OneHeartbeatThread`, from `OneThread`: only the thread
  of the last `start()` may be alive, except while `start()` waits for the one
  before it. The join in the assignment to `heartbeat_thread_` carries it from one start to the
  next, not `stop()`, which leaves the thread alone.
* `HeartbeatPersists`, from `NotAsked`: before the destructor nobody asks the last
  thread to stop, so only the limit of attempts can have ended it.
* `StoppedStaysForgotten`, an action property about a registry whose order does not arrive. `HeartbeatsOnly` says why: no heartbeat thread is ever told to reconnect, so
  the one that `stop()` leaves behind never sends a Register. With a registry whose order
  arrived the property would not hold.
* `BackoffCorrect`, assuming that `base_delay_ms * 2^n` fits in uint32_t for every
  `n` below `max_attempts`; the default strategy satisfies it, and the code, which doubles
  first and cuts after, needs it. `Waits` says that a thread that backs off has the
  delay of its own attempt. `doubled` is a recursive function: `DoubledDef` shows that its
  equation has a solution, `DoubledExact` that below the modulus it is the
  power of two.

`CoroAdapterProofs`, for every set of coroutines and number of awaits:

* `TypeCorrect`, `NoDanglingContext`, from `ContextLife`: where the
  operation that a coroutine awaits is, by what the coroutine does (`AwaitedOp`); that
  every other operation is with nobody but a poller about to delete it (`LeftOp`); and that the type the
  poller read before `resume()` still says truly, after it, whether there is something to
  delete (`TagOp`), although the coroutine has run in between.
* `NothingLeftBehind`, from `TakenDown`: nothing is started on a queue that is
  being taken down, which is gRPC's rule for the users and part of the model.
* `NoLeakedContext`, from both: before the stop is requested the poller has either not ended, and
  ContextLife says who has each AsyncContext, or has ended with its queue, and none is left. After the stop it is
  false (`coro_context_leaked`).
* `AwaitRefinement`: `Spec => ImplementsAwait`. `Complete` settles an await, `AwaitResume` delivers it,
  `StartThrows` refuses it; the steps of the poller show in none of the
  contract's variables, nor does the end of an `await_suspend`. `Results` follows what is told of an operation
  through its context to the expression, and gives that what is delivered is what was settled.

`LidarProofs`, for every number of streams, lease term and limit:

* `TypeCorrect`, `CountBounded`. FailuresBounded becomes inductive with one more
  fact, that no heartbeat is under way while the node is to register.
* `LoggerLast`, from `Phases`, which says as in the registry who is alive at each point of `main`.
* `CallsExclusive` justifies a choice of the model: `main` and the heartbeat thread
  never have a call outstanding together, so one variable for the call is enough.

`MetricsProofs`, for every finite set of threads and every set of latencies:

* `AverageSound`. `SumCovers` counts the recordings that are in the sum and not
  yet in the count; `ScrapeCovered` says that the sum a scrape loads is not older than the
  count it loaded before, which is why the average may be too high, and too low only by what the
  casts cut off, at most 1 us of each latency (`MicrosType`).
* `TimersCountOnce`. RecordedOnce equates the count with the timers made, less those
  still to be recorded, and is inductive with the types.

The prover cannot use the induction theorems, so where these proofs need induction
they take the least counterexample (`LeastNat`), and `PowerOfTwo` gets
`2^(n + 1) = 2 * 2^n` from the number of subsets of `1 .. n + 1`.

Only model-checked: what rests on fairness, which is beyond the prover, namely
GracefulExit, InFlightCompletes and StaleEvicted of the registry, OwnerReturns
of `Node`, CompletionResumes and DestructorReturns of `CoroAdapter`, and
SelfHeals, DepartedClientReleased and Exits of the emulator. Every other property of a
passing run is stated by a theorem.

## 5. Not modelled, and the plan

Not modelled: logging and message texts; the load figures; the gRPC library beyond what
the code relies on; several `Node` objects in one process (they meet in
the static flag of `CoroAdapter::shutdown`, which is modelled); `cancel_with_timeout`, which
has no caller; the plain counters of `Metrics`, one atomic operation each; the text of the
metrics; GetStatus and Publish of the emulator, which change nothing; concurrent calls of
`HealthChecker::start` and `stop`, which nothing in the repository makes; the
read-only queries that only tests use.

Order of what follows:

1. Proofs that the registry as `Node` and `LidarHeartbeat` see it is one that
   `LeaseDirectory` allows, so that what is proved of the registry reaches its
   clients in one chain of theorems.
2. The safety parts of the liveness arguments: for each point at which a thread waits,
   an invariant that names who will let it go on.
3. `cancel_with_timeout` stays out as long as nothing calls it: whether its race with
   the poller is met depends on how it will be called.
