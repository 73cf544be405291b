--------------------------- MODULE LatencyHistogram ---------------------------
(***************************************************************************)
(* A log2 histogram of lesson 5 from the kernel to the report: log2_bucket *)
(* and hist_update of bpf/src/nexuscore_probe.bpf.c, and reportHistogram   *)
(* and computePercentiles of bpf/main.go.                                  *)
(*                                                                         *)
(* The histogram has a column per CPU.  The reporter sums it slot by slot  *)
(* while the CPUs go on counting, and gives up at the first slot it cannot *)
(* read: what it has read so far is reported all the same.                 *)
(***************************************************************************)
EXTENDS Naturals, FiniteSets, SequencesExt

CONSTANTS Cpus,
          Shifts,      \* the widths log2_bucket tests: 32, 16, 8, 4, 2, 1
          MAX_BUCKETS,
          Latencies,   \* latencies the probe measures
          Targets,     \* 0.50, 0.99, 0.999: pairs of numerator and denominator
          MaxSamples   \* bound: samples in a behaviour

ASSUME LatencyHistogramAssumption ==
  /\ IsFiniteSet(Cpus) /\ Cpus # {}
  /\ Shifts \in Seq(Nat) /\ MAX_BUCKETS \in Nat \ {0}
  /\ Latencies \subseteq Nat /\ IsFiniteSet(Latencies)
  /\ \A i \in DOMAIN Targets :
       /\ Targets[i] \in (Nat \ {0}) \X (Nat \ {0})
       /\ Targets[i][1] <= Targets[i][2]
  /\ MaxSamples \in Nat

VARIABLES hist,     \* hist[cpu][slot]: the counters of the kernel
          reading,  \* the reporter is at work
          slot,     \* the next slot it reads
          combined, \* the sums read so far, 0 for a slot that is not there
          report,   \* the last report; history: its slots, and the samples around it
          counted,  \* history: how often each latency was counted
          before    \* history: counted, when the reading began

histogramVars == <<hist, reading, slot, combined, report, counted, before>>

Slots == 0..(MAX_BUCKETS - 1)
Zeroes == [s \in Slots |-> 0]

-------------------------------------------------------------------------------
(* log2_bucket: halve the width, as long as the rest of v does not fit.    *)

Narrow(acc, w) ==
  IF acc.v >= 2 ^ w THEN [r |-> acc.r + w, v |-> acc.v \div 2 ^ w] ELSE acc

log2_bucket(v) ==
  LET r == FoldLeft(Narrow, [r |-> 0, v |-> v], Shifts).r
  IN  IF r < MAX_BUCKETS THEN r ELSE MAX_BUCKETS - 1

-------------------------------------------------------------------------------
(* computePercentiles: one pass over the slots, adding up their counts.    *)

(* Mutant of Reached: a share equal to the target is not enough. *)
ReachedAbove(cum, total, target) == cum * target[2] > total * target[1]

Reached(cum, total, target) == cum * target[2] >= total * target[1]

(* For each target, the slot whose midpoint is reported as p50, p99, p999. *)
computePercentiles(buckets) ==
  LET total == SumFunction(buckets)
      Cum(s) == SumFunctionOnSet(buckets, 0..s)
  IN  [k \in DOMAIN Targets |-> Min({s \in Slots : Reached(Cum(s), total, Targets[k])})]

-------------------------------------------------------------------------------
NoReport == [percentiles |-> <<>>]
Uncounted == [v \in Latencies |-> 0]

HistogramInit ==
  /\ hist = [c \in Cpus |-> Zeroes]
  /\ reading = FALSE /\ slot = 0
  /\ combined = Zeroes /\ report = NoReport
  /\ counted = Uncounted /\ before = Uncounted

(* An atomic addition to the counter of this CPU. *)
hist_update(c, latency) ==
  /\ SumFunction(counted) < MaxSamples
  /\ hist' = [hist EXCEPT ![c][log2_bucket(latency)] = @ + 1]
  /\ counted' = [counted EXCEPT ![latency] = @ + 1]
  /\ UNCHANGED <<reading, slot, combined, report, before>>

(* A tick of the ticker. *)
Begin ==
  /\ ~ reading
  /\ reading' = TRUE
  /\ before' = counted
  /\ UNCHANGED <<hist, slot, combined, report, counted>>

(* Mutant of Sum: the counters of one CPU stand for all. *)
SumOfOne(s) == hist[CHOOSE c \in Cpus : TRUE][s]

Sum(s) == SumFunction([c \in Cpus |-> hist[c][s]])

ReadSlot ==
  /\ reading /\ slot < MAX_BUCKETS
  /\ combined' = [combined EXCEPT ![slot] = Sum(slot)]
  /\ slot' = slot + 1
  /\ UNCHANGED <<hist, reading, report, counted, before>>

(* The end of the loop, or a failed Lookup.  An empty histogram is not     *)
(* reported.                                                               *)
Publish ==
  /\ reading
  /\ reading' = FALSE /\ slot' = 0 /\ combined' = Zeroes /\ before' = Uncounted
  /\ report' = IF combined = Zeroes
               THEN NoReport
               ELSE [percentiles |-> computePercentiles(combined), buckets |-> combined,
                     upto |-> slot, from |-> before, to |-> counted]
  /\ UNCHANGED <<hist, counted>>

HistogramNext ==
  \/ \E c \in Cpus, latency \in Latencies : hist_update(c, latency)
  \/ Begin \/ ReadSlot \/ Publish

HistogramSpec == HistogramInit /\ [][HistogramNext]_histogramVars

-------------------------------------------------------------------------------
(* The latencies slot s stands for: [2^s, 2^(s+1)), and 0 in the first.    *)
OfSlot(s) == {v \in Latencies : v < 2 ^ (s + 1) /\ (s = 0 \/ v >= 2 ^ s)}

(* log2_bucket finds the slot of the latency's power of two, if its widths *)
(* and the number of slots go together.                                    *)
SlotsArePowers ==
  \A v \in Latencies :
    /\ log2_bucket(v) \in Slots
    /\ \A s \in Slots : v \in OfSlot(s) <=> s = log2_bucket(v)
    /\ \A u \in Latencies : u <= v => log2_bucket(u) <= log2_bucket(v)

InSlot(s, seen) == SumFunctionOnSet(seen, OfSlot(s))

(* A slot that was read is reported with all the samples of its power of   *)
(* two that were there when the reading began, on whatever CPU, and none   *)
(* that came after it ended; a slot that was not read is reported empty.   *)
ReportIsBetween ==
  report # NoReport =>
    \A s \in Slots :
      IF s < report.upto
      THEN /\ InSlot(s, report.from) <= report.buckets[s]
           /\ report.buckets[s] <= InSlot(s, report.to)
      ELSE report.buckets[s] = 0

(* v is the smallest latency with at least the target's share of those     *)
(* seen at or below it.                                                    *)
IsPercentile(v, seen, target) ==
  LET Met(w) == SumFunctionOnSet(seen, {u \in Latencies : u <= w}) * target[2]
                  >= SumFunction(seen) * target[1]
  IN  seen[v] > 0 /\ Met(v) /\ \A u \in Latencies : u < v /\ seen[u] > 0 => ~ Met(u)

(* The slot reported for a percentile is the slot of the sample that is    *)
(* that percentile, when nothing was counted during the reading.           *)
PercentilesAreRanks ==
  report # NoReport /\ report.upto = MAX_BUCKETS /\ report.from = report.to =>
    \A k \in DOMAIN Targets :
      \E v \in Latencies : /\ IsPercentile(v, report.to, Targets[k])
                           /\ log2_bucket(v) = report.percentiles[k]
===============================================================================
