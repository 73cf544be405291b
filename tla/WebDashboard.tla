----------------------------- MODULE WebDashboard -----------------------------
(***************************************************************************)
(* The web dashboard of lesson 5, dashboard/src/web.rs: the two ingest     *)
(* handlers, the metrics handler, and the task that probes SurrealDB.      *)
(*                                                                         *)
(* The state is behind three locks of its own, and handlers run            *)
(* concurrently: a metrics request reads the three parts one by one, with  *)
(* ingests in between.  What is ingested is a number, counted up over all  *)
(* ingests; 0 is what the program starts with.                             *)
(***************************************************************************)
EXTENDS Naturals, Sequences

CONSTANTS Requests,   \* metrics requests that may run at once
          Series,     \* pairs of stack and op
          Defaults,   \* the series of lesson_default_histograms
          MaxIngests, \* bound: ingests in a behaviour
          MaxFlips    \* bound: how often SurrealDB comes up or goes down

ASSUME WebDashboardAssumption ==
  /\ Defaults \in Seq(Series)
  /\ \A i, j \in DOMAIN Defaults : Defaults[i] = Defaults[j] => i = j
  /\ MaxIngests \in Nat /\ MaxFlips \in Nat

VARIABLES histograms,        \* what the ingest handlers and the prober write
          load_client,
          surreal_reachable,
          prober,            \* the background task: "tick", or what it found
          request,           \* each metrics request, with what it has read
          up,                \* SurrealDB accepts connections
          flips,             \* bound: how often up has changed
          ingests,           \* how many reports were ingested
          loads              \* history: the numbers of the load reports

vars == <<histograms, load_client, surreal_reachable, prober, request, up, flips, ingests, loads>>

Idle == [at |-> "idle"]

Init ==
  /\ histograms = [i \in DOMAIN Defaults |-> [series |-> Defaults[i], number |-> 0]]
  /\ load_client = 0
  /\ surreal_reachable = FALSE
  /\ prober = "tick"
  /\ request = [r \in Requests |-> Idle]
  /\ up = FALSE
  /\ flips = 0
  /\ ingests = 0
  /\ loads = {}

-------------------------------------------------------------------------------
(* POST.                                                                   *)

ingest_load ==
  /\ ingests < MaxIngests
  /\ ingests' = ingests + 1
  /\ load_client' = ingests'
  /\ loads' = loads \cup {ingests'}
  /\ UNCHANGED <<histograms, surreal_reachable, prober, request, up, flips>>

At(list, series) == {i \in DOMAIN list : list[i].series = series}

(* Mutant of Upsert: the old report goes, the new one does not come. *)
UpsertDrops(list, report) ==
  LET Other(e) == e.series # report.series
  IN  IF At(list, report.series) = {} THEN Append(list, report) ELSE SelectSeq(list, Other)

Upsert(list, report) ==
  IF At(list, report.series) = {} THEN Append(list, report)
  ELSE LET i == CHOOSE i \in At(list, report.series) :
                  \A j \in At(list, report.series) : i <= j
       IN  [list EXCEPT ![i] = report]

(* The write lock is held over the search and the change. *)
ingest_histogram(series) ==
  /\ ingests < MaxIngests
  /\ ingests' = ingests + 1
  /\ histograms' = Upsert(histograms, [series |-> series, number |-> ingests'])
  /\ UNCHANGED <<load_client, surreal_reachable, prober, request, up, flips, loads>>

-------------------------------------------------------------------------------
(* GET /api/metrics.                                                       *)

AppState ==
  [histograms |-> histograms, load_client |-> load_client, surreal_reachable |-> surreal_reachable]

(* Mutant of ReadOrder: the load summary is read before the histograms. *)
LoadFirst == <<"load_client", "histograms", "surreal_reachable">>

ReadOrder == <<"histograms", "load_client", "surreal_reachable">>

Arrive(r) ==
  /\ request[r] = Idle
  /\ request' = [request EXCEPT ![r] = [at |-> "reading", done |-> 0, arrival |-> AppState,
                                        payload |-> AppState]]
  /\ UNCHANGED <<histograms, load_client, surreal_reachable, prober, up, flips, ingests, loads>>

(* One lock taken, its value cloned, the lock released. *)
ReadPart(r) ==
  /\ request[r].at = "reading" /\ request[r].done < Len(ReadOrder)
  /\ LET part == ReadOrder[request[r].done + 1]
     IN  request' = [request EXCEPT ![r].payload[part] = AppState[part], ![r].done = @ + 1]
  /\ UNCHANGED <<histograms, load_client, surreal_reachable, prober, up, flips, ingests, loads>>

Answered(r) == request[r].at = "reading" /\ request[r].done = Len(ReadOrder)

Respond(r) ==
  /\ Answered(r)
  /\ request' = [request EXCEPT ![r] = Idle]
  /\ UNCHANGED <<histograms, load_client, surreal_reachable, prober, up, flips, ingests, loads>>

-------------------------------------------------------------------------------
(* The background task, and SurrealDB.                                     *)

ProbeConnect ==
  /\ prober = "tick"
  /\ prober' = IF up THEN "ok" ELSE "failed"
  /\ UNCHANGED <<histograms, load_client, surreal_reachable, request, up, flips, ingests, loads>>

(* Mutant of ProbeWrite: only a success is written. *)
ProbeWriteSuccess ==
  /\ prober # "tick"
  /\ surreal_reachable' = (surreal_reachable \/ prober = "ok")
  /\ prober' = "tick"
  /\ UNCHANGED <<histograms, load_client, request, up, flips, ingests, loads>>

ProbeWrite ==
  /\ prober # "tick"
  /\ surreal_reachable' = (prober = "ok")
  /\ prober' = "tick"
  /\ UNCHANGED <<histograms, load_client, request, up, flips, ingests, loads>>

SurrealFlips ==
  /\ flips < MaxFlips
  /\ flips' = flips + 1
  /\ up' = ~ up
  /\ UNCHANGED <<histograms, load_client, surreal_reachable, prober, request, ingests, loads>>

Next ==
  \/ ingest_load
  \/ \E s \in Series : ingest_histogram(s)
  \/ \E r \in Requests : Arrive(r) \/ ReadPart(r) \/ Respond(r)
  \/ ProbeConnect \/ ProbeWrite \/ SurrealFlips

Spec == Init /\ [][Next]_vars

(* The interval ticks for ever, and a connection to the own host succeeds  *)
(* or is refused.                                                          *)
FairSpec == Spec /\ WF_vars(ProbeConnect) /\ WF_vars(ProbeWrite)

-------------------------------------------------------------------------------
Reports == [series : Series, number : Nat]

Parts == [histograms : Seq(Reports), load_client : Nat, surreal_reachable : BOOLEAN]

RequestState ==
  {Idle} \cup [at : {"reading"}, done : 0 .. Len(ReadOrder), arrival : Parts, payload : Parts]

TypeOK ==
  /\ AppState \in Parts
  /\ prober \in {"tick", "ok", "failed"}
  /\ request \in [Requests -> RequestState]
  /\ up \in BOOLEAN /\ flips \in 0 .. MaxFlips
  /\ ingests \in 0 .. MaxIngests /\ loads \subseteq 1 .. ingests

(* now has every series of then, with the same report or a later one. *)
NoOlder(then, now) ==
  \A i \in DOMAIN then :
    \E j \in DOMAIN now :
      now[j].series = then[i].series /\ now[j].number >= then[i].number

(* A payload is at least as recent as the state in which its request       *)
(* arrived: a client that polls never sees a report go back or vanish.     *)
PayloadIsFresh ==
  \A r \in Requests :
    Answered(r) =>
      LET then == request[r].arrival
          now == request[r].payload
      IN  now.load_client >= then.load_client /\ NoOlder(then.histograms, now.histograms)

(* The three locks are taken one by one, yet a payload that shows a        *)
(* histogram shows no load summary older than the one that was ingested    *)
(* before that histogram.  The order of the reads makes it so.             *)
LoadNotBehindHistograms ==
  \A r \in Requests :
    Answered(r) =>
      LET p == request[r].payload
      IN  \A i \in DOMAIN p.histograms, l \in loads :
            l < p.histograms[i].number => p.load_client >= l

(* If SurrealDB stays up, or stays down, the payloads come to say so. *)
ReachabilitySettles == (<>[]up => <>[]surreal_reachable) /\ (<>[](~ up) => <>[](~ surreal_reachable))
===============================================================================
