------------------------------- MODULE Metrics -------------------------------
(***************************************************************************)
(* The averages of src/utils/metrics.{h,cpp}: threads add latencies to     *)
(* pairs of atomics, a sum and a count, that no lock keeps together, while *)
(* get_prometheus_text() reads them for a scrape.  Latencies of RPCs come  *)
(* from the RAII timer ScopedRpcLatency, latencies of streams directly.    *)
(*                                                                         *)
(* The plain counters (nodes_online_, heartbeat_miss_total_,               *)
(* messages_sent_total_) are one atomic each, added to and read in one     *)
(* step, and are left out; so is the text around the numbers.              *)
(***************************************************************************)
EXTENDS Integers, FiniteSetsExt

CONSTANTS
    Thread,
    Latency,      \* the latencies measured, in ns
    MaxRecords    \* bound: recordings of each kind begun by a thread

ASSUME ThreadAssumption == IsFiniteSet(Thread)
ASSUME LatencyAssumption == Latency # {} /\ Latency \subseteq Nat /\ MaxRecords \in Nat

VARIABLES
    pc,          \* [Thread -> what it does next]
    record,      \* [Thread -> the recording it makes: its kind and latency]
    stopped_,    \* [Thread -> that member of its timer]
    leaving,     \* [Thread -> it runs the destructor of its timer]
    begun,       \* [Thread -> [Kind -> recordings and timers begun]]
    sum, count,  \* [Kind -> rpc_latency_sum_us_, stream_latency_sum_ms_ and counts]
    scrape,      \* what get_prometheus_text does next
    reported     \* [Kind -> the count and the sum it divides]

threadVars == <<pc, record, stopped_, leaving, begun>>
vars == <<threadVars, sum, count, scrape, reported>>

Kind     == {"rpc", "stream"}
NoReport == [count |-> 0, sum |-> 0]
Idle     == [kind |-> "rpc", latency |-> 0]

(* The whole us that a latency adds to its sum.  The casts cut off what is *)
(* below 1 us; the latency of a stream comes as a fractional number of ms, *)
(* and its product with 1000 may round to just below a whole number.       *)
Micros(kind, latency) ==
    {latency \div 1000} \cup
        {us \in {(latency - 1) \div 1000} : kind = "stream" /\ latency > 0}

Init ==
    /\ pc = [t \in Thread |-> "idle"] /\ record = [t \in Thread |-> Idle]
    /\ stopped_ = [t \in Thread |-> FALSE] /\ leaving = [t \in Thread |-> FALSE]
    /\ begun = [t \in Thread |-> [k \in Kind |-> 0]]
    /\ sum = [k \in Kind |-> 0] /\ count = [k \in Kind |-> 0]
    /\ scrape = "idle" /\ reported = [k \in Kind |-> NoReport]

-----------------------------------------------------------------------------
(* The recording threads *)

Begin(t, kind) ==
    /\ pc[t] = "idle" /\ begun[t][kind] < MaxRecords
    /\ begun' = [begun EXCEPT ![t][kind] = @ + 1]

Recording(t, kind) ==
    /\ pc' = [pc EXCEPT ![t] = "add_sum"]
    /\ \E l \in Latency : record' = [record EXCEPT ![t] = [kind |-> kind, latency |-> l]]

record_stream_latency_ms(t) ==
    /\ Begin(t, "stream")
    /\ Recording(t, "stream")
    /\ UNCHANGED <<stopped_, leaving, sum, count, scrape, reported>>

ScopedRpcLatency(t) ==
    /\ Begin(t, "rpc")
    /\ pc' = [pc EXCEPT ![t] = "timing"]
    /\ stopped_' = [stopped_ EXCEPT ![t] = FALSE]
    /\ UNCHANGED <<record, leaving, sum, count, scrape, reported>>

(* stop(), called by the user, as often as he likes, or by the destructor. *)
stop(t) ==
    /\ pc[t] = "timing" /\ ~stopped_[t]
    /\ Recording(t, "rpc")
    /\ \E destructor \in BOOLEAN : leaving' = [leaving EXCEPT ![t] = destructor]
    /\ UNCHANGED <<stopped_, begun, sum, count, scrape, reported>>

(* stop() has nothing to do any more, and the timer goes. *)
DestructStopped(t) ==
    /\ pc[t] = "timing" /\ stopped_[t]
    /\ pc' = [pc EXCEPT ![t] = "idle"]
    /\ stopped_' = [stopped_ EXCEPT ![t] = FALSE]
    /\ UNCHANGED <<record, leaving, begun, sum, count, scrape, reported>>

AddSum(t) ==
    /\ pc[t] = "add_sum"
    /\ \E us \in Micros(record[t].kind, record[t].latency) :
          sum' = [sum EXCEPT ![record[t].kind] = @ + us]
    /\ pc' = [pc EXCEPT ![t] = "add_count"]
    /\ UNCHANGED <<record, stopped_, leaving, begun, count, scrape, reported>>

Stopped(t) == record[t].kind = "rpc" /\ ~leaving[t]

Bug_AddCount(t) ==
    /\ pc[t] = "add_count"
    /\ count' = [count EXCEPT ![record[t].kind] = @ + 1]
    /\ pc' = [pc EXCEPT ![t] = IF Stopped(t) THEN "timing" ELSE "idle"]
    /\ record' = [record EXCEPT ![t] = Idle] /\ leaving' = [leaving EXCEPT ![t] = FALSE]
    /\ UNCHANGED <<stopped_, begun, sum, scrape, reported>>

(* The recording is complete: record_stream_latency_ms returns, or         *)
(* record_rpc_latency_us does and stop() sets stopped_.                    *)
AddCount(t) ==
    /\ pc[t] = "add_count"
    /\ count' = [count EXCEPT ![record[t].kind] = @ + 1]
    /\ pc' = [pc EXCEPT ![t] = IF Stopped(t) THEN "timing" ELSE "idle"]
    /\ stopped_' = [stopped_ EXCEPT ![t] = Stopped(t)]
    /\ record' = [record EXCEPT ![t] = Idle] /\ leaving' = [leaving EXCEPT ![t] = FALSE]
    /\ UNCHANGED <<begun, sum, scrape, reported>>

-----------------------------------------------------------------------------
(* The scraping thread *)

Load(kind, field, value, from, to) ==
    /\ scrape = from /\ scrape' = to
    /\ reported' = [reported EXCEPT ![kind][field] = value]
    /\ UNCHANGED <<threadVars, sum, count>>

Bug_get_prometheus_text ==
    \/ Load("rpc", "sum", sum["rpc"], "idle", "rpc_sum")
    \/ Load("rpc", "count", count["rpc"], "rpc_sum", "done")

(* The count of a kind first, then, if there is one, the sum.              *)
get_prometheus_text ==
    \/ Load("rpc", "count", count["rpc"], "idle",
            IF count["rpc"] > 0 THEN "rpc_sum" ELSE "stream_count")
    \/ Load("rpc", "sum", sum["rpc"], "rpc_sum", "stream_count")
    \/ Load("stream", "count", count["stream"], "stream_count",
            IF count["stream"] > 0 THEN "stream_sum" ELSE "done")
    \/ Load("stream", "sum", sum["stream"], "stream_sum", "done")

(* The text is sent. *)
ScrapeDone ==
    /\ scrape = "done" /\ scrape' = "idle"
    /\ reported' = [k \in Kind |-> NoReport]
    /\ UNCHANGED <<threadVars, sum, count>>

Next ==
    \/ \E t \in Thread :
          \/ record_stream_latency_ms(t) \/ ScopedRpcLatency(t)
          \/ stop(t) \/ DestructStopped(t) \/ AddSum(t) \/ AddCount(t)
    \/ get_prometheus_text \/ ScrapeDone

Spec == Init /\ [][Next]_vars

-----------------------------------------------------------------------------
(* However the loads of a scrape fall between the additions of the         *)
(* threads, and whatever the casts cut off, an average that is reported is *)
(* not below the least latency there was by more than 1 us: each recording *)
(* that the count covers is in the sum.                                    *)
AverageNotUnderstated ==
    scrape = "done" =>
        \A k \in Kind :
            1000 * (reported[k].sum + reported[k].count) >= reported[k].count * Min(Latency)

(* Every timer counts once, whether stop() or its destructor ends it, and  *)
(* however often stop() is called: the count is that of the timers begun   *)
(* but for those that still run or are being added.                        *)
Timers == {timer \in Thread \X (1 .. MaxRecords) : timer[2] <= begun[timer[1]]["rpc"]}

Outstanding(t) ==
    \/ pc[t] = "timing" /\ ~stopped_[t]
    \/ pc[t] \in {"add_sum", "add_count"} /\ record[t].kind = "rpc"

RecordedOnce ==
    count["rpc"] + Cardinality({t \in Thread : Outstanding(t)}) = Cardinality(Timers)

=============================================================================
