---------------------------- MODULE MetricsProofs ----------------------------
(***************************************************************************)
(* Proofs about Metrics, for any number of threads and any latencies: the  *)
(* average of a scrape, and that a timer counts once.                      *)
(***************************************************************************)
EXTENDS Metrics, NaturalLemmas

-----------------------------------------------------------------------------
(* The inductive invariants.                                               *)

MetricsTypes ==
    /\ pc \in [Thread -> {"idle", "timing", "add_sum", "add_count"}]
    /\ record \in [Thread -> [kind : Kind, latency : Nat]]
    /\ stopped_ \in [Thread -> BOOLEAN] /\ leaving \in [Thread -> BOOLEAN]
    /\ begun \in [Thread -> [Kind -> 0 .. MaxRecords]]
    /\ sum \in [Kind -> Nat] /\ count \in [Kind -> Nat]
    /\ scrape \in {"idle", "rpc_sum", "stream_count", "stream_sum", "done"}
    /\ reported \in [Kind -> [count : Nat, sum : Nat]]

(* A lower bound, in us, of what a recording adds to the sum of its kind.  *)
Least == IF Min(Latency) > 0 THEN (Min(Latency) - 1) \div 1000 ELSE 0

(* The threads between the two additions of a recording of kind k.         *)
Halfway(k) == {t \in Thread : pc[t] = "add_count" /\ record[t].kind = k}

(* A recording is in the sum before it is in the count.                    *)
SumCovers ==
    /\ \A t \in Thread : pc[t] = "add_sum" => record[t].latency \in Latency
    /\ \A k \in Kind : sum[k] >= (count[k] + Cardinality(Halfway(k))) * Least

(* What a scrape has read of a kind: the count, by how far it has come,    *)
(* and a sum that is not older.                                            *)
Covered(k) == reported[k].sum >= reported[k].count * Least

ScrapeCovered ==
    /\ scrape = "idle" => \A k \in Kind : reported[k] = NoReport
    /\ scrape = "rpc_sum" => reported["rpc"].count <= count["rpc"]
    /\ scrape \in {"stream_count", "stream_sum", "done"} => Covered("rpc")
    /\ scrape = "stream_sum" => reported["stream"].count <= count["stream"]
    /\ scrape = "done" => Covered("stream")

-----------------------------------------------------------------------------
(* Arithmetic.                                                             *)

LEMMA MinLatency ==
    Min(Latency) \in Nat /\ \A l \in Latency : Min(Latency) <= l
<1>1. \E x \in Latency : \A y \in Latency : x =< y
  BY LatencyAssumption, LeastNat
<1>2. Min(Latency) \in Latency /\ \A y \in Latency : Min(Latency) =< y
  BY <1>1 DEF Min
<1>. QED
  BY <1>2, LatencyAssumption

LEMMA LeastType ==
    Least \in Nat /\ 1000 * (Least + 1) >= Min(Latency)
BY MinLatency DEF Least

(* What a recording adds is a number of us that is not below Least.        *)
LEMMA MicrosType ==
    ASSUME NEW k, NEW l \in Nat, NEW us \in Micros(k, l)
    PROVE  us \in Nat /\ (l \in Latency => us >= Least)
<1>1. us = l \div 1000 \/ (l > 0 /\ us = (l - 1) \div 1000)
  BY DEF Micros
<1>2. us \in Nat
  BY <1>1
<1>3. ASSUME l \in Latency PROVE us >= Least
  <2>1. Min(Latency) \in Nat /\ Min(Latency) <= l
    BY <1>3, MinLatency
  <2>. QED
    BY <1>1, <2>1 DEF Least
<1>. QED
  BY <1>2, <1>3

LEMMA OneMore ==
    ASSUME NEW x \in Nat, NEW c \in Nat
    PROVE  (x + 1) * c = x * c + c
OBVIOUS

LEMMA ProductMonotonic ==
    ASSUME NEW x \in Nat, NEW y \in Nat, x <= y, NEW c \in Nat
    PROVE  x * c <= y * c
OBVIOUS

-----------------------------------------------------------------------------
(* Types.                                                                  *)

LEMMA TypesInit == Init => MetricsTypes
BY LatencyAssumption DEF Init, MetricsTypes, Kind, Idle, NoReport

LEMMA TypesStep == MetricsTypes /\ [Next]_vars => MetricsTypes'
<1>. SUFFICES ASSUME MetricsTypes, [Next]_vars PROVE MetricsTypes'
  OBVIOUS
<1>. USE DEF MetricsTypes, vars, threadVars
<1>0. "rpc" \in Kind /\ "stream" \in Kind
  BY DEF Kind
<1>1. ASSUME NEW t \in Thread, NEW k \in Kind, Begin(t, k)
      PROVE  begun' \in [Thread -> [Kind -> 0 .. MaxRecords]]
  BY <1>1, LatencyAssumption DEF Begin
<1>2. ASSUME NEW t \in Thread, NEW k \in Kind, Recording(t, k)
      PROVE  /\ pc' \in [Thread -> {"idle", "timing", "add_sum", "add_count"}]
             /\ record' \in [Thread -> [kind : Kind, latency : Nat]]
  BY <1>2, LatencyAssumption DEF Recording
<1>3. ASSUME NEW t \in Thread, record_stream_latency_ms(t) PROVE MetricsTypes'
  BY <1>0, <1>1, <1>2, <1>3 DEF record_stream_latency_ms
<1>4. ASSUME NEW t \in Thread, ScopedRpcLatency(t) PROVE MetricsTypes'
  BY <1>0, <1>1, <1>4 DEF ScopedRpcLatency
<1>5. ASSUME NEW t \in Thread, stop(t) PROVE MetricsTypes'
  BY <1>0, <1>2, <1>5 DEF stop
<1>6. ASSUME NEW t \in Thread, DestructStopped(t) PROVE MetricsTypes'
  BY <1>6 DEF DestructStopped
<1>7. ASSUME NEW t \in Thread, AddSum(t) PROVE MetricsTypes'
  <2>1. record[t].kind \in Kind /\ record[t].latency \in Nat
    OBVIOUS
  <2>2. PICK us \in Micros(record[t].kind, record[t].latency) :
             sum' = [sum EXCEPT ![record[t].kind] = @ + us]
    BY <1>7 DEF AddSum
  <2>3. us \in Nat
    BY <2>1, <2>2, MicrosType
  <2>. QED
    BY <1>7, <2>1, <2>2, <2>3 DEF AddSum
<1>8. ASSUME NEW t \in Thread, AddCount(t) PROVE MetricsTypes'
  <2>1. Stopped(t) \in BOOLEAN
    BY DEF Stopped
  <2>2. stopped_' \in [Thread -> BOOLEAN] /\ leaving' \in [Thread -> BOOLEAN]
    BY <1>8, <2>1 DEF AddCount
  <2>3. record' \in [Thread -> [kind : Kind, latency : Nat]]
    BY <1>0, <1>8 DEF AddCount, Idle
  <2>4. count' \in [Kind -> Nat]
    BY <1>8 DEF AddCount
  <2>. QED
    BY <1>8, <2>2, <2>3, <2>4 DEF AddCount
<1>9. CASE get_prometheus_text
  <2>1. ASSUME NEW k \in Kind, NEW f \in {"count", "sum"}, NEW v \in Nat, NEW from, NEW to,
               Load(k, f, v, from, to)
        PROVE  reported' \in [Kind -> [count : Nat, sum : Nat]]
    BY <2>1 DEF Load
  <2>. QED
    BY <1>0, <1>9, <2>1 DEF get_prometheus_text, Load
<1>10. CASE ScrapeDone
  BY <1>10 DEF ScrapeDone, NoReport
<1>11. CASE UNCHANGED vars
  BY <1>11
<1>. QED
  BY <1>3, <1>4, <1>5, <1>6, <1>7, <1>8, <1>9, <1>10, <1>11 DEF Next

LEMMA TypesAlways == Spec => []MetricsTypes
BY TypesInit, TypesStep, PTL DEF Spec

-----------------------------------------------------------------------------
(* The sum is ahead of the count.                                          *)

LEMMA HalfwayFinite ==
    ASSUME NEW k
    PROVE  IsFiniteSet(Halfway(k)) /\ Cardinality(Halfway(k)) \in Nat
<1>1. Halfway(k) \subseteq Thread
  BY DEF Halfway
<1>. QED
  BY <1>1, ThreadAssumption, FS_Subset, FS_CardinalityType

LEMMA SumInit == Init => SumCovers
<1>. SUFFICES ASSUME Init PROVE SumCovers
  OBVIOUS
<1>1. ASSUME NEW k \in Kind PROVE Halfway(k) = {} /\ sum[k] = 0 /\ count[k] = 0
  BY DEF Init, Halfway
<1>2. ASSUME NEW k \in Kind PROVE sum[k] >= (count[k] + Cardinality(Halfway(k))) * Least
  <2>1. count[k] + Cardinality(Halfway(k)) = 0
    BY <1>1, FS_EmptySet
  <2>2. 0 * Least = 0
    BY LeastType
  <2>. QED
    BY <1>1, <2>1, <2>2
<1>. QED
  BY <1>2 DEF Init, SumCovers

LEMMA SumStep == MetricsTypes /\ SumCovers /\ [Next]_vars => SumCovers'
<1>. SUFFICES ASSUME MetricsTypes, SumCovers, [Next]_vars PROVE SumCovers'
  OBVIOUS
<1>. USE DEF vars, threadVars
(* Most steps leave the sums, the counts and who is halfway alone.         *)
<1>1. ASSUME UNCHANGED <<sum, count>>, \A k \in Kind : Halfway(k)' = Halfway(k),
             \A t \in Thread : pc'[t] = "add_sum" => record'[t].latency \in Latency
      PROVE  SumCovers'
  BY <1>1 DEF SumCovers, Least
<1>2. ASSUME NEW t \in Thread, NEW k \in Kind, Recording(t, k), pc[t] # "add_count",
             UNCHANGED <<sum, count>>
      PROVE  SumCovers'
  <2>1. /\ pc'[t] = "add_sum" /\ record'[t].latency \in Latency
        /\ \A u \in Thread \ {t} : pc'[u] = pc[u] /\ record'[u] = record[u]
    BY <1>2 DEF Recording, MetricsTypes
  <2>. QED
    BY <1>1, <1>2, <2>1 DEF Halfway, SumCovers
<1>3. ASSUME NEW t \in Thread,
             \/ record_stream_latency_ms(t) \/ stop(t)
             \/ ScopedRpcLatency(t) \/ DestructStopped(t)
      PROVE  SumCovers'
  <2>1. CASE record_stream_latency_ms(t) \/ stop(t)
    BY <1>2, <2>1 DEF record_stream_latency_ms, stop, Begin, Kind
  <2>2. CASE ScopedRpcLatency(t) \/ DestructStopped(t)
    <3>1. /\ UNCHANGED <<sum, count, record>> /\ pc[t] # "add_count"
          /\ pc'[t] \in {"timing", "idle"} /\ \A u \in Thread \ {t} : pc'[u] = pc[u]
      BY <2>2 DEF ScopedRpcLatency, DestructStopped, Begin, MetricsTypes
    <3>. QED
      BY <1>1, <3>1 DEF Halfway, SumCovers
  <2>. QED
    BY <1>3, <2>1, <2>2
<1>4. ASSUME NEW t \in Thread, AddSum(t) PROVE SumCovers'
  <2>0. PICK k \in Kind, l \in Nat : k = record[t].kind /\ l = record[t].latency
    BY DEF MetricsTypes
  <2>a. PICK us \in Micros(k, l) : sum' = [sum EXCEPT ![k] = @ + us]
    BY <1>4, <2>0 DEF AddSum
  <2>1. /\ k \in Kind /\ l \in Latency /\ UNCHANGED <<record, count>>
        /\ pc[t] = "add_sum" /\ pc'[t] = "add_count"
        /\ \A u \in Thread \ {t} : pc'[u] = pc[u]
        /\ sum'[k] = sum[k] + us /\ \A j \in Kind \ {k} : sum'[j] = sum[j]
    BY <1>4, <2>0, <2>a DEF AddSum, MetricsTypes, SumCovers
  <2>2. t \notin Halfway(k) /\ Halfway(k)' = Halfway(k) \cup {t}
    BY <2>0, <2>1 DEF Halfway
  <2>3. Cardinality(Halfway(k)') = Cardinality(Halfway(k)) + 1
    BY <2>2, HalfwayFinite, FS_AddElement
  <2>4. \A j \in Kind \ {k} : Halfway(j)' = Halfway(j)
    BY <2>0, <2>1 DEF Halfway
  <2>5. sum'[k] >= (count'[k] + Cardinality(Halfway(k)')) * Least
    <3>. DEFINE x == count[k] + Cardinality(Halfway(k))
    <3>1. x \in Nat /\ Least \in Nat /\ us \in Nat /\ us >= Least
      BY <2>1, HalfwayFinite, LeastType, MicrosType DEF MetricsTypes
    <3>2. count'[k] + Cardinality(Halfway(k)') = x + 1
      BY <2>1, <2>3, HalfwayFinite DEF MetricsTypes
    <3>3. (x + 1) * Least = x * Least + Least
      BY <3>1, OneMore
    <3>4. sum[k] >= x * Least
      BY <2>1 DEF SumCovers
    <3>5. x * Least \in Nat /\ sum[k] \in Nat
      BY <2>1, <3>1 DEF MetricsTypes
    <3>. HIDE DEF x
    <3>. QED
      BY <2>1, <3>1, <3>2, <3>3, <3>4, <3>5
  <2>6. ASSUME NEW j \in Kind, j # k
        PROVE  sum'[j] >= (count'[j] + Cardinality(Halfway(j)')) * Least
    BY <2>1, <2>4, <2>6 DEF SumCovers
  <2>7. \A u \in Thread : pc'[u] = "add_sum" => record'[u].latency \in Latency
    BY <2>1 DEF SumCovers
  <2>8. Least' = Least
    BY DEF Least
  <2>. QED
    BY <2>5, <2>6, <2>7, <2>8 DEF SumCovers
<1>5. ASSUME NEW t \in Thread, AddCount(t) PROVE SumCovers'
  <2>0. PICK k \in Kind : k = record[t].kind
    BY DEF MetricsTypes
  <2>1. /\ k \in Kind /\ UNCHANGED sum
        /\ pc[t] = "add_count" /\ pc'[t] \in {"timing", "idle"}
        /\ \A u \in Thread \ {t} : pc'[u] = pc[u] /\ record'[u] = record[u]
        /\ count'[k] = count[k] + 1 /\ \A j \in Kind \ {k} : count'[j] = count[j]
    BY <1>5, <2>0 DEF AddCount, MetricsTypes
  <2>2. t \in Halfway(k) /\ Halfway(k)' = Halfway(k) \ {t}
    BY <2>0, <2>1 DEF Halfway
  <2>3. Cardinality(Halfway(k)') = Cardinality(Halfway(k)) - 1
    BY <2>2, HalfwayFinite, FS_RemoveElement
  <2>4. \A j \in Kind \ {k} : Halfway(j)' = Halfway(j)
    BY <2>0, <2>1 DEF Halfway
  <2>5. \A j \in Kind : count'[j] + Cardinality(Halfway(j)') = count[j] + Cardinality(Halfway(j))
    <3>1. Cardinality(Halfway(k)) \in Nat /\ count[k] \in Nat
      BY HalfwayFinite DEF MetricsTypes
    <3>2. count'[k] + Cardinality(Halfway(k)') = count[k] + Cardinality(Halfway(k))
      BY <2>1, <2>3, <3>1
    <3>. QED
      BY <2>1, <2>4, <3>2
  <2>6. \A u \in Thread : pc'[u] = "add_sum" => record'[u].latency \in Latency
    BY <2>1 DEF SumCovers
  <2>7. Least' = Least
    BY DEF Least
  <2>. QED
    BY <2>1, <2>5, <2>6, <2>7 DEF SumCovers
<1>6. CASE get_prometheus_text \/ ScrapeDone \/ UNCHANGED vars
  <2>1. UNCHANGED <<threadVars, sum, count>>
    BY <1>6 DEF get_prometheus_text, Load, ScrapeDone
  <2>. QED
    BY <1>1, <2>1 DEF Halfway, SumCovers
<1>. QED
  BY <1>3, <1>4, <1>5, <1>6 DEF Next

-----------------------------------------------------------------------------
(* A scrape.                                                               *)

(* A sum that is loaded after a count covers it.                           *)
LEMMA LoadCovers ==
    ASSUME MetricsTypes, SumCovers, NEW k \in Kind, reported[k].count <= count[k]
    PROVE  sum[k] >= reported[k].count * Least
<1>. DEFINE n == reported[k].count
            h == Cardinality(Halfway(k))
<1>1. /\ n \in Nat /\ count[k] \in Nat /\ h \in Nat
      /\ Least \in Nat /\ sum[k] \in Nat /\ n <= count[k]
  BY HalfwayFinite, LeastType DEF MetricsTypes
<1>2. sum[k] >= (count[k] + h) * Least
  BY DEF SumCovers
<1>. HIDE DEF n, h
<1>3. n <= count[k] + h /\ count[k] + h \in Nat
  BY <1>1
<1>4. n * Least <= (count[k] + h) * Least
  BY <1>1, <1>3, ProductMonotonic
<1>5. n * Least \in Nat /\ (count[k] + h) * Least \in Nat
  BY <1>1, <1>3
<1>6. sum[k] >= n * Least
  BY <1>1, <1>2, <1>4, <1>5
<1>. QED
  BY <1>6 DEF n

LEMMA ScrapeInit == Init => ScrapeCovered
BY DEF Init, ScrapeCovered

LEMMA CountGrows ==
    ASSUME MetricsTypes, [Next]_vars, NEW k \in Kind
    PROVE  count'[k] >= count[k]
<1>1. ASSUME NEW t \in Thread, AddCount(t) PROVE count'[k] >= count[k]
  BY <1>1 DEF AddCount, MetricsTypes
<1>2. CASE UNCHANGED count
  BY <1>2 DEF MetricsTypes
<1>. QED
  BY <1>1, <1>2 DEF Next, vars, record_stream_latency_ms, ScopedRpcLatency, stop,
                    DestructStopped, AddSum, get_prometheus_text, Load, ScrapeDone

LEMMA ScrapeStep ==
    MetricsTypes /\ SumCovers /\ ScrapeCovered /\ [Next]_vars => ScrapeCovered'
<1>. SUFFICES ASSUME MetricsTypes, SumCovers, ScrapeCovered, [Next]_vars
              PROVE  ScrapeCovered'
  OBVIOUS
<1>0. /\ "rpc" \in Kind /\ "stream" \in Kind
      /\ \A k \in Kind : /\ count[k] \in Nat /\ count'[k] \in Nat
                          /\ reported[k] \in [count : Nat, sum : Nat]
                          /\ count'[k] >= count[k]
      /\ Least' = Least /\ Least \in Nat
  BY CountGrows, TypesStep, LeastType DEF Kind, MetricsTypes, Least
<1>1. CASE UNCHANGED <<scrape, reported>>
  <2>1. \A k \in Kind : reported[k].count <= count[k] => reported[k].count <= count'[k]
    BY <1>0
  <2>2. \A k \in Kind : Covered(k)' <=> Covered(k)
    BY <1>0, <1>1 DEF Covered
  <2>. QED
    BY <1>0, <1>1, <2>1, <2>2 DEF ScrapeCovered
<1>2. CASE Load("rpc", "count", count["rpc"], "idle",
                IF count["rpc"] > 0 THEN "rpc_sum" ELSE "stream_count")
  <2>1. /\ reported'["rpc"].count = count["rpc"] /\ reported'["rpc"].sum = 0
        /\ count' = count /\ scrape' = IF count["rpc"] > 0 THEN "rpc_sum" ELSE "stream_count"
    BY <1>0, <1>2 DEF Load, ScrapeCovered, NoReport, MetricsTypes
  <2>2. CASE count["rpc"] > 0
    BY <1>0, <2>1, <2>2 DEF ScrapeCovered
  <2>3. CASE ~(count["rpc"] > 0)
    <3>1. count["rpc"] = 0 /\ 0 * Least = 0
      BY <1>0, <2>3
    <3>2. Covered("rpc")'
      BY <1>0, <2>1, <3>1 DEF Covered
    <3>. QED
      BY <2>1, <2>3, <3>2 DEF ScrapeCovered
  <2>. QED
    BY <2>2, <2>3
<1>3. CASE Load("rpc", "sum", sum["rpc"], "rpc_sum", "stream_count")
  <2>1. /\ reported'["rpc"].count = reported["rpc"].count /\ reported'["rpc"].sum = sum["rpc"]
        /\ scrape = "rpc_sum" /\ scrape' = "stream_count"
    BY <1>0, <1>3 DEF Load, MetricsTypes
  <2>2. sum["rpc"] >= reported["rpc"].count * Least
    BY <1>0, <2>1, LoadCovers DEF ScrapeCovered
  <2>3. Covered("rpc")'
    BY <1>0, <2>1, <2>2 DEF Covered
  <2>. QED
    BY <2>1, <2>3 DEF ScrapeCovered
<1>4. CASE Load("stream", "count", count["stream"], "stream_count",
                IF count["stream"] > 0 THEN "stream_sum" ELSE "done")
  <2>1. /\ reported'["stream"].count = count["stream"]
        /\ reported'["stream"].sum = reported["stream"].sum
        /\ reported'["rpc"] = reported["rpc"] /\ count' = count
        /\ scrape = "stream_count"
        /\ scrape' = IF count["stream"] > 0 THEN "stream_sum" ELSE "done"
    BY <1>0, <1>4 DEF Load, MetricsTypes
  <2>2. Covered("rpc")'
    BY <1>0, <2>1 DEF Covered, ScrapeCovered
  <2>3. CASE count["stream"] > 0
    BY <1>0, <2>1, <2>2, <2>3 DEF ScrapeCovered
  <2>4. CASE ~(count["stream"] > 0)
    <3>1. count["stream"] = 0 /\ 0 * Least = 0 /\ reported["stream"].sum >= 0
      BY <1>0, <2>4
    <3>2. Covered("stream")'
      BY <1>0, <2>1, <3>1 DEF Covered
    <3>. QED
      BY <2>1, <2>2, <2>4, <3>2 DEF ScrapeCovered
  <2>. QED
    BY <2>3, <2>4
<1>5. CASE Load("stream", "sum", sum["stream"], "stream_sum", "done")
  <2>1. /\ reported'["stream"].count = reported["stream"].count
        /\ reported'["stream"].sum = sum["stream"]
        /\ reported'["rpc"] = reported["rpc"]
        /\ scrape = "stream_sum" /\ scrape' = "done"
    BY <1>0, <1>5 DEF Load, MetricsTypes
  <2>2. sum["stream"] >= reported["stream"].count * Least
    BY <1>0, <2>1, LoadCovers DEF ScrapeCovered
  <2>3. Covered("stream")' /\ Covered("rpc")'
    BY <1>0, <2>1, <2>2 DEF Covered, ScrapeCovered
  <2>. QED
    BY <2>1, <2>3 DEF ScrapeCovered
<1>6. CASE ScrapeDone
  BY <1>6 DEF ScrapeDone, ScrapeCovered
<1>. QED
  BY <1>1, <1>2, <1>3, <1>4, <1>5, <1>6
     DEF Next, vars, get_prometheus_text, record_stream_latency_ms, ScopedRpcLatency, stop,
         DestructStopped, AddSum, AddCount

(* For any number of threads, any latencies and any interleaving of their  *)
(* two additions with the four loads of get_prometheus_text: an average    *)
(* that is reported is never below the least latency there was by more     *)
(* than the 1 us that the casts may cut off.                               *)
THEOREM AverageSound == Spec => []AverageNotUnderstated
<1>1. ASSUME MetricsTypes, ScrapeCovered PROVE AverageNotUnderstated
  <2>. SUFFICES ASSUME scrape = "done", NEW k \in Kind
                PROVE  1000 * (reported[k].sum + reported[k].count)
                          >= reported[k].count * Min(Latency)
    BY DEF AverageNotUnderstated
  <2>. DEFINE n == reported[k].count
              s == reported[k].sum
              m == Min(Latency)
  <2>1. s >= n * Least
    BY <1>1 DEF ScrapeCovered, Covered, Kind
  <2>2. /\ n \in Nat /\ s \in Nat /\ m \in Nat /\ Least \in Nat
        /\ m <= 1000 * (Least + 1)
    BY <1>1, MinLatency, LeastType DEF MetricsTypes
  <2>. HIDE DEF n, s, m
  <2>3. m * n <= (1000 * (Least + 1)) * n
    BY <2>2, ProductMonotonic
  <2>4. (1000 * (Least + 1)) * n = 1000 * (n * Least + n) /\ m * n = n * m
    BY <2>2
  <2>5. n * Least \in Nat /\ n * m \in Nat
    BY <2>2
  <2>6. 1000 * (s + n) >= n * m
    BY <2>1, <2>2, <2>3, <2>4, <2>5
  <2>. QED
    BY <2>6 DEF n, s, m
<1>2. Init => MetricsTypes /\ SumCovers /\ ScrapeCovered
  BY TypesInit, SumInit, ScrapeInit
<1>. QED
  BY <1>1, <1>2, TypesStep, SumStep, ScrapeStep, PTL DEF Spec

-----------------------------------------------------------------------------
(* Timers.                                                                 *)

Running == {t \in Thread : Outstanding(t)}

LEMMA TimersFinite ==
    ASSUME MetricsTypes
    PROVE  /\ IsFiniteSet(Timers) /\ Cardinality(Timers) \in Nat
           /\ IsFiniteSet(Running) /\ Cardinality(Running) \in Nat
<1>1. IsFiniteSet(1 .. MaxRecords)
  BY FS_Interval, LatencyAssumption
<1>2. IsFiniteSet(Thread \X (1 .. MaxRecords))
  BY <1>1, ThreadAssumption, FS_Product
<1>3. Timers \subseteq Thread \X (1 .. MaxRecords) /\ Running \subseteq Thread
  BY DEF Timers, Running
<1>. QED
  BY <1>2, <1>3, ThreadAssumption, FS_Subset, FS_CardinalityType

LEMMA OnceInit == Init => RecordedOnce
<1>. SUFFICES ASSUME Init PROVE RecordedOnce
  OBVIOUS
<1>1. {t \in Thread : Outstanding(t)} = {}
  BY DEF Init, Outstanding
<1>2. Timers = {}
  BY DEF Init, Timers, Kind
<1>3. count["rpc"] = 0
  BY DEF Init, Kind
<1>. QED
  BY <1>1, <1>2, <1>3, FS_EmptySet DEF RecordedOnce

LEMMA OnceStep == MetricsTypes /\ RecordedOnce /\ [Next]_vars => RecordedOnce'
<1>. SUFFICES ASSUME MetricsTypes, RecordedOnce, [Next]_vars PROVE RecordedOnce'
  OBVIOUS
<1>. USE DEF vars, threadVars
<1>0. /\ count["rpc"] + Cardinality(Running) = Cardinality(Timers) /\ count["rpc"] \in Nat
      /\ "rpc" \in Kind /\ "stream" \in Kind
  BY DEF RecordedOnce, Running, MetricsTypes, Kind
<1>a. ASSUME count'["rpc"] + Cardinality(Running') = Cardinality(Timers') PROVE RecordedOnce'
  BY <1>a DEF RecordedOnce, Running
<1>1. ASSUME count'["rpc"] = count["rpc"], Running' = Running, Timers' = Timers
      PROVE  RecordedOnce'
  BY <1>0, <1>1, <1>a
<1>2. ASSUME NEW t \in Thread, record_stream_latency_ms(t) PROVE RecordedOnce'
  <2>1. Running' = Running
    BY <1>2 DEF record_stream_latency_ms, Begin, Recording, Running, Outstanding, MetricsTypes
  <2>2. \A u \in Thread : begun'[u]["rpc"] = begun[u]["rpc"]
    BY <1>0, <1>2 DEF record_stream_latency_ms, Begin, MetricsTypes
  <2>3. Timers' = Timers
    BY <2>2 DEF Timers
  <2>4. count' = count
    BY <1>2 DEF record_stream_latency_ms
  <2>. QED
    BY <1>1, <2>1, <2>3, <2>4
<1>3. ASSUME NEW t \in Thread, ScopedRpcLatency(t) PROVE RecordedOnce'
  <2>0. PICK n \in 1 .. MaxRecords : n = begun[t]["rpc"] + 1
    BY <1>0, <1>3, LatencyAssumption DEF ScopedRpcLatency, Begin, MetricsTypes
  <2>1. /\ begun'[t]["rpc"] = n
        /\ \A u \in Thread \ {t} : begun'[u]["rpc"] = begun[u]["rpc"]
    BY <1>0, <1>3, <2>0 DEF ScopedRpcLatency, Begin, MetricsTypes
  <2>2. <<t, n>> \notin Timers
    BY <1>0, <2>0 DEF Timers, MetricsTypes
  <2>3. Timers' = Timers \cup {<<t, n>>}
    <3>1. begun[t]["rpc"] \in 0 .. MaxRecords
      BY <1>0 DEF MetricsTypes
    <3>2. ASSUME NEW u \in Thread, NEW i \in 1 .. MaxRecords
          PROVE  i <= begun'[u]["rpc"] <=> (i <= begun[u]["rpc"] \/ <<u, i>> = <<t, n>>)
      BY <2>0, <2>1, <3>1, LatencyAssumption
    <3>. QED
      BY <3>2 DEF Timers
  <2>4. t \notin Running /\ Running' = Running \cup {t}
    BY <1>3 DEF ScopedRpcLatency, Begin, Running, Outstanding, MetricsTypes
  <2>5. /\ Cardinality(Timers') = Cardinality(Timers) + 1
        /\ Cardinality(Running') = Cardinality(Running) + 1
    BY <2>2, <2>3, <2>4, TimersFinite, FS_AddElement
  <2>6. count' = count
    BY <1>3 DEF ScopedRpcLatency
  <2>. QED
    BY <1>0, <1>a, <2>5, <2>6, TimersFinite
<1>4. ASSUME NEW t \in Thread, stop(t) \/ DestructStopped(t) \/ AddSum(t) PROVE RecordedOnce'
  <2>1. CASE stop(t)
    BY <2>1, <1>1 DEF stop, Recording, Running, Outstanding, Timers, MetricsTypes
  <2>2. CASE DestructStopped(t)
    BY <2>2, <1>1 DEF DestructStopped, Running, Outstanding, Timers, MetricsTypes
  <2>3. CASE AddSum(t)
    BY <2>3, <1>1 DEF AddSum, Running, Outstanding, Timers, MetricsTypes
  <2>. QED
    BY <1>4, <2>1, <2>2, <2>3
<1>5. ASSUME NEW t \in Thread, AddCount(t) PROVE RecordedOnce'
  <2>0. Timers' = Timers
    BY <1>5 DEF AddCount, Timers
  <2>1. CASE record[t].kind = "rpc"
    <3>1. count'["rpc"] = count["rpc"] + 1
      BY <1>0, <1>5, <2>1 DEF AddCount, MetricsTypes
    <3>2. t \in Running /\ Running' = Running \ {t}
      <4>1. t \in Running /\ ~Outstanding(t)'
        BY <1>5, <2>1 DEF AddCount, Running, Outstanding, Stopped, MetricsTypes
      <4>2. ASSUME NEW u \in Thread, u # t PROVE Outstanding(u)' <=> Outstanding(u)
        BY <1>5, <4>2 DEF AddCount, Outstanding, MetricsTypes
      <4>. QED
        BY <4>1, <4>2 DEF Running
    <3>3. Cardinality(Running') = Cardinality(Running) - 1
      BY <3>2, TimersFinite, FS_RemoveElement
    <3>. QED
      BY <1>0, <1>a, <2>0, <3>1, <3>3, TimersFinite
  <2>2. CASE record[t].kind # "rpc"
    <3>1. count'["rpc"] = count["rpc"]
      BY <1>0, <1>5, <2>2 DEF AddCount, MetricsTypes
    <3>2. Running' = Running
      <4>1. ~Outstanding(t) /\ ~Outstanding(t)'
        BY <1>5, <2>2 DEF AddCount, Outstanding, Stopped, MetricsTypes
      <4>2. ASSUME NEW u \in Thread, u # t PROVE Outstanding(u)' <=> Outstanding(u)
        BY <1>5, <4>2 DEF AddCount, Outstanding, MetricsTypes
      <4>. QED
        BY <4>1, <4>2 DEF Running
    <3>. QED
      BY <1>1, <2>0, <3>1, <3>2
  <2>. QED
    BY <2>1, <2>2
<1>6. CASE get_prometheus_text \/ ScrapeDone \/ UNCHANGED vars
  <2>1. UNCHANGED <<threadVars, count>>
    BY <1>6 DEF get_prometheus_text, Load, ScrapeDone
  <2>. QED
    BY <1>1, <2>1 DEF Running, Outstanding, Timers
<1>. QED
  BY <1>2, <1>3, <1>4, <1>5, <1>6 DEF Next

(* For any number of threads: every ScopedRpcLatency is in the count       *)
(* exactly once, whether stop() was called on it, called twice, or never   *)
(* and its destructor did.                                                 *)
THEOREM TimersCountOnce == Spec => []RecordedOnce
BY OnceInit, OnceStep, TypesAlways, PTL DEF Spec

=============================================================================
