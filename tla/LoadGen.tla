------------------------------- MODULE LoadGen -------------------------------
(***************************************************************************)
(* The load generator of lesson 5, load-gen/src/main.rs: worker threads    *)
(* that send requests at a pace of their own until their deadline, count   *)
(* them in two shared counters, and hand their histograms to main.         *)
(*                                                                         *)
(* Time is counted in ticks of the clock; a thread may be late at every    *)
(* step.  A histogram is how many latencies were recorded in it.           *)
(***************************************************************************)
EXTENDS Naturals, FiniteSets, Functions

CONSTANTS Ncpus,
          Tenants,
          Rps,
          Duration, \* of the test, in ticks
          Second,   \* ticks in a second
          MaxStart, \* bound: the time at which the last thread has started
          Horizon   \* bound: the time at which the clock stops

ASSUME LoadGenAssumption ==
  /\ Ncpus \in Nat \ {0} /\ Tenants \in Nat \ {0}
  /\ Rps \in Nat /\ Duration \in Nat /\ Second \in Nat \ {0}
  /\ MaxStart \in Nat /\ Horizon \in Nat

WorkerCount == IF Ncpus <= Tenants THEN Ncpus ELSE Tenants
Workers == 1..WorkerCount

RpsPerWorker == IF Rps \div WorkerCount = 0 THEN 1 ELSE Rps \div WorkerCount

Interval == Second \div RpsPerWorker

VARIABLES now,            \* the clock
          worker,         \* what each thread does
          deadline, next_tick,
          begun,          \* requests each worker has begun
          worker_hist,    \* its histogram
          TOTAL_REQUESTS, TOTAL_ERRORS,
          combined_hist,  \* what main has added up
          joined,         \* the threads main has joined
          final_report,   \* the final report, once there is one
          started         \* history: when each thread started

loadVars == <<now, worker, deadline, next_tick, begun, worker_hist, TOTAL_REQUESTS, TOTAL_ERRORS,
              combined_hist, joined, final_report, started>>

counters == <<TOTAL_REQUESTS, TOTAL_ERRORS>>
main == <<combined_hist, joined, final_report>>

NoneYet == [w \in Workers |-> 0]
Unreported == [made |-> FALSE]

LoadInit ==
  /\ now = 0
  /\ worker = [w \in Workers |-> "new"]
  /\ deadline = NoneYet /\ next_tick = NoneYet /\ begun = NoneYet /\ worker_hist = NoneYet
  /\ TOTAL_REQUESTS = 0 /\ TOTAL_ERRORS = 0
  /\ combined_hist = 0 /\ joined = 0 /\ final_report = Unreported
  /\ started = NoneYet

Tick ==
  /\ now < Horizon
  /\ now' = now + 1
  /\ UNCHANGED <<worker, deadline, next_tick, begun, worker_hist, counters, main, started>>

-------------------------------------------------------------------------------
(* run_worker.                                                             *)

Goes(w, from, to) == worker[w] = from /\ worker' = [worker EXCEPT ![w] = to]

Start(w) ==
  /\ Goes(w, "new", "loop")
  /\ now <= MaxStart
  /\ deadline' = [deadline EXCEPT ![w] = now + Duration]
  /\ next_tick' = [next_tick EXCEPT ![w] = now]
  /\ started' = [started EXCEPT ![w] = now]
  /\ UNCHANGED <<now, begun, worker_hist, counters, main>>

BeginRequest(w) ==
  /\ Goes(w, "loop", "request")
  /\ now < deadline[w]
  /\ begun' = [begun EXCEPT ![w] = @ + 1]
  /\ UNCHANGED <<now, deadline, next_tick, worker_hist, counters, main, started>>

(* Whether anything was read from the connection: refused, reset and timed *)
(* out requests all end here.                                              *)
simulate_query == BOOLEAN

(* simulate_query has returned; its latency is recorded, failed or not. *)
Record(w) ==
  /\ Goes(w, "request", "count")
  /\ worker_hist' = [worker_hist EXCEPT ![w] = @ + 1]
  /\ UNCHANGED <<now, deadline, next_tick, begun, counters, main, started>>

(* Mutant of CountRequest: a failed request is not counted. *)
CountSuccess(w) ==
  /\ Goes(w, "count", "pace")
  /\ TOTAL_REQUESTS' \in {TOTAL_REQUESTS, TOTAL_REQUESTS + 1} /\ TOTAL_ERRORS' = TOTAL_ERRORS
  /\ UNCHANGED <<now, deadline, next_tick, begun, worker_hist, main, started>>

CountRequest(w) ==
  /\ Goes(w, "count", "pace")
  /\ \E ok \in simulate_query :
       /\ TOTAL_REQUESTS' = IF ok THEN TOTAL_REQUESTS + 1 ELSE TOTAL_REQUESTS
       /\ TOTAL_ERRORS' = IF ok THEN TOTAL_ERRORS ELSE TOTAL_ERRORS + 1
  /\ UNCHANGED <<now, deadline, next_tick, begun, worker_hist, main, started>>

(* Mutant of Pace: the next tick is counted from the last one that was met. *)
PaceWithinRequest(w) ==
  /\ Goes(w, "pace", "wait")
  /\ next_tick' = [next_tick EXCEPT ![w] = IF @ + Interval > now THEN @ + Interval ELSE @]
  /\ UNCHANGED <<now, deadline, begun, worker_hist, counters, main, started>>

Pace(w) ==
  /\ Goes(w, "pace", "wait")
  /\ next_tick' = [next_tick EXCEPT ![w] = @ + Interval]
  /\ UNCHANGED <<now, deadline, begun, worker_hist, counters, main, started>>

(* A sleep, then a busy wait; neither when the worker is late already. *)
Wake(w) ==
  /\ Goes(w, "wait", "loop")
  /\ now >= next_tick[w]
  /\ UNCHANGED <<now, deadline, next_tick, begun, worker_hist, counters, main, started>>

Finish(w) ==
  /\ Goes(w, "loop", "done")
  /\ now >= deadline[w]
  /\ UNCHANGED <<now, deadline, next_tick, begun, worker_hist, counters, main, started>>

-------------------------------------------------------------------------------
(* main.                                                                   *)

(* The handles are joined in the order of the workers. *)
Join ==
  /\ joined < WorkerCount
  /\ worker[joined + 1] = "done"
  /\ joined' = joined + 1
  /\ combined_hist' = combined_hist + worker_hist[joined + 1]
  /\ UNCHANGED <<now, worker, deadline, next_tick, begun, worker_hist, counters, final_report,
                 started>>

Report ==
  /\ joined = WorkerCount /\ ~ final_report.made
  /\ final_report' = [made |-> TRUE, elapsed |-> now, total_requests |-> TOTAL_REQUESTS,
                errors |-> TOTAL_ERRORS, recorded |-> combined_hist]
  /\ UNCHANGED <<now, worker, deadline, next_tick, begun, worker_hist, counters, combined_hist,
                 joined, started>>

LoadNext ==
  \/ Tick \/ Join \/ Report
  \/ \E w \in Workers :
       \/ Start(w) \/ BeginRequest(w) \/ Record(w) \/ CountRequest(w) \/ Pace(w) \/ Wake(w) \/ Finish(w)

LoadSpec == LoadInit /\ [][LoadNext]_loadVars

-------------------------------------------------------------------------------
(* No worker ever runs ahead of its pace: since it started, it has begun   *)
(* one request and one more for every interval that has passed.  A worker  *)
(* that was held up may make up for it, and no more than that.             *)
PacedRequests ==
  \A w \in Workers :
    begun[w] * Interval <= Interval + (now - started[w])

Counting == {w \in Workers : worker[w] = "count"}

(* The shared counters account for every latency recorded by any worker,   *)
(* but for the requests being counted; the report, made when all threads   *)
(* have been joined, tells as many requests as its percentiles are of.     *)
EveryRequestCounted ==
  /\ SumFunction(worker_hist) = TOTAL_REQUESTS + TOTAL_ERRORS + Cardinality(Counting)
  /\ final_report.made =>
       final_report.recorded = final_report.total_requests + final_report.errors

===============================================================================
