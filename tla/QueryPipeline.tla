---------------------------- MODULE QueryPipeline ----------------------------
(***************************************************************************)
(* The host of lesson 3 (src/host/src/main.rs): the ingest task makes      *)
(* queries and sends them over a bounded channel, the worker task answers  *)
(* them one by one with GraphBfs and records them, and the handler of      *)
(* /api/metrics prunes and rolls what was recorded before it answers.      *)
(*                                                                         *)
(* Queries are numbered as they are made.  A latency sample is known by    *)
(* the number of its query.  The lock on agg is held over record_query and *)
(* over the whole handler, so both are single steps.                       *)
(***************************************************************************)
EXTENDS Naturals, Sequences, FiniteSets

CONSTANTS Capacity,    \* of the channel: 8192
          SampleCap,   \* LAT_SAMPLES_CAP
          Tenants,
          Slots,
          SlotOf,      \* tenant_id % TENANT_POOL
          Second,      \* one second in ticks of the clock
          MaxQueries,  \* bound: queries that are made
          MaxTime      \* bound: on the clock

ASSUME QueryPipelineAssumption ==
  /\ Capacity \in Nat \ {0}
  /\ SampleCap \in Nat /\ SampleCap >= 4
  /\ SlotOf \in [Tenants -> Slots]
  /\ Second \in Nat \ {0}
  /\ MaxQueries \in Nat /\ MaxTime \in Nat

(* What NEXUSCORE_GRAPH_BLOB led to: no graph; a graph; a graph with a row *)
(* that reaches past its edges, which from_blob loads as well.             *)
GraphKinds == {"missing", "sound", "overrun"}

VARIABLES graph,
          made,      \* number of queries made
          sending,   \* the query that ingest is sending, or NoQuery
          channel,
          working,   \* the query that the worker answers, or NoQuery
          alive,     \* the worker task has not panicked
          agg,       \* the Agg behind the mutex
          answer,    \* what the last metrics answer said
          now,       \* the clock
          rolled,    \* history: queries counted in windows that were rolled
          seen       \* history: for each slot, when it was recorded last

vars == <<graph, made, sending, channel, working, alive, agg, answer, now, rolled, seen>>

NoQuery == [id |-> 0]
Query == [id : 1 .. MaxQueries, tenant : Tenants]

NoAnswer == [active |-> {}]

Init ==
  /\ graph \in GraphKinds
  /\ made = 0
  /\ sending = NoQuery /\ channel = <<>> /\ working = NoQuery
  /\ alive = TRUE
  /\ agg = [lat_ns |-> <<>>, slot_last |-> {}, queries_total |-> 0,
            window_start |-> 0, window_count |-> 0]
  /\ answer = NoAnswer
  /\ now = 0
  /\ rolled = 0
  /\ seen = {}

-------------------------------------------------------------------------------
(* The ingest task.                                                        *)

MakeQuery(tenant) ==
  /\ sending = NoQuery
  /\ made < MaxQueries
  /\ made' = made + 1
  /\ sending' = [id |-> made + 1, tenant |-> tenant]
  /\ UNCHANGED <<graph, channel, working, alive, agg, answer, now, rolled, seen>>

(* Mutant of HasRoom: a place once taken is never given back. *)
RoomNotReturned == made <= Capacity

HasRoom == Len(channel) < Capacity

(* send().await waits for room.  When the worker is gone it fails at once, *)
(* which ingest ignores.                                                   *)
SendQuery ==
  /\ sending # NoQuery
  /\ IF alive
     THEN HasRoom /\ channel' = Append(channel, sending)
     ELSE channel' = channel
  /\ sending' = NoQuery
  /\ UNCHANGED <<graph, made, working, alive, agg, answer, now, rolled, seen>>

-------------------------------------------------------------------------------
(* The worker task.                                                        *)

(* Mutant of Received: the newest query is taken first. *)
ReceivedNewest == channel[Len(channel)]

Received == Head(channel)

Receive ==
  /\ alive /\ working = NoQuery /\ channel # <<>>
  /\ working' = Received
  /\ channel' = Tail(channel)
  /\ UNCHANGED <<graph, made, sending, alive, agg, answer, now, rolled, seen>>

(* Mutant of Drained: the newest samples are drained, not the oldest. *)
DrainedNewest(lat) ==
  IF Len(lat) >= SampleCap THEN SubSeq(lat, 1, Len(lat) - Len(lat) \div 4) ELSE lat

Drained(lat) ==
  IF Len(lat) >= SampleCap THEN SubSeq(lat, Len(lat) \div 4 + 1, Len(lat)) ELSE lat

(* A map from slots to times, as a set of pairs. *)
Insert(map, slot, time) == {p \in map : p[1] # slot} \cup {<<slot, time>>}

(* bfs_posts returned, or there is no graph to search: record_query.       *)
Record ==
  /\ alive /\ working # NoQuery
  /\ LET slot == SlotOf[working.tenant]
     IN /\ agg' = [agg EXCEPT !.queries_total = @ + 1,
                              !.window_count = @ + 1,
                              !.lat_ns = Append(Drained(@), working.id),
                              !.slot_last = Insert(@, slot, now)]
        /\ seen' = Insert(seen, slot, now)
  /\ working' = NoQuery
  /\ UNCHANGED <<graph, made, sending, channel, alive, answer, now, rolled>>

(* bfs_posts panics: the worker task ends, its receiver is dropped, and    *)
(* with it the queries in the channel.  Nothing else stops.                *)
Panic ==
  /\ alive /\ working # NoQuery
  /\ graph = "overrun"
  /\ alive' = FALSE
  /\ channel' = <<>>
  /\ working' = NoQuery
  /\ UNCHANGED <<graph, made, sending, agg, answer, now, rolled, seen>>

-------------------------------------------------------------------------------
(* The handler of /api/metrics.                                            *)

(* Mutant of Pruned: nothing is pruned before the slots are counted. *)
NotPruned(map) == map

Pruned(map) == {p \in map : p[2] + Second > now}

Elapsed == now - agg.window_start

(* Mutant of Rolled: the window starts anew but goes on counting. *)
RolledWithoutReset(a) ==
  IF Elapsed >= Second THEN [a EXCEPT !.window_start = now] ELSE a

Rolled(a) ==
  IF Elapsed >= Second THEN [a EXCEPT !.window_start = now, !.window_count = 0] ELSE a

Metrics ==
  /\ agg' = Rolled([agg EXCEPT !.slot_last = Pruned(@)])
  /\ rolled' = IF Elapsed >= Second THEN rolled + agg.window_count ELSE rolled
  /\ answer' = [active |-> {p[1] : p \in agg'.slot_last}]
  /\ UNCHANGED <<graph, made, sending, channel, working, alive, now, seen>>

Tick ==
  /\ now < MaxTime
  /\ now' = now + 1
  /\ UNCHANGED <<graph, made, sending, channel, working, alive, agg, answer, rolled, seen>>

Worker == Receive \/ Record \/ Panic

Next ==
  \/ \E tenant \in Tenants : MakeQuery(tenant)
  \/ SendQuery
  \/ Worker
  \/ Metrics
  \/ Tick

Spec == Init /\ [][Next]_vars

(* Both tasks are polled again and again by the runtime; nobody has to ask *)
(* for metrics.                                                            *)
FairSpec == Spec /\ WF_vars(SendQuery) /\ WF_vars(Worker)

-------------------------------------------------------------------------------
TypeOK ==
  /\ graph \in GraphKinds
  /\ made \in 0 .. MaxQueries
  /\ sending \in Query \cup {NoQuery} /\ working \in Query \cup {NoQuery}
  /\ channel \in Seq(Query) /\ Len(channel) <= Capacity
  /\ alive \in BOOLEAN
  /\ agg \in [lat_ns : Seq(1 .. MaxQueries), slot_last : SUBSET (Slots \X Nat),
              queries_total : Nat, window_start : Nat, window_count : Nat]
  /\ Len(agg.lat_ns) <= SampleCap
  /\ answer \in [active : SUBSET Slots]
  /\ now \in Nat
  /\ rolled \in Nat
  /\ seen \in SUBSET (Slots \X Nat)

One(query) == IF query = NoQuery THEN <<>> ELSE <<query>>

InFlight == One(working) \o channel \o One(sending)

(* While the worker lives no query is lost, answered twice or overtaken:   *)
(* those in flight follow those recorded, in the order they were made.     *)
NoQueryLost ==
  alive =>
    /\ agg.queries_total + Len(InFlight) = made
    /\ \A i \in DOMAIN InFlight : InFlight[i].id = agg.queries_total + i

(* The latency percentiles are over the most recent queries, and over at   *)
(* least three quarters of SampleCap once there were that many.            *)
SamplesAreMostRecent ==
  LET lat == agg.lat_ns
      total == agg.queries_total
  IN /\ \A i \in DOMAIN lat : lat[i] = (total - Len(lat)) + i
     /\ Len(lat) = total \/ 4 * Len(lat) >= 3 * SampleCap

(* Every query is counted in exactly one window, although any number of    *)
(* dashboards roll the one window there is.                                *)
WindowsPartitionQueries == rolled + agg.window_count = agg.queries_total

(* An answer counts exactly the slots with a query in the second before,   *)
(* whoever asked, and pruned, before.                                      *)
ActiveSlotsAreRecent ==
  [][Metrics => answer'.active = {p[1] : p \in {q \in seen : q[2] + Second > now}}]_vars

(* Every query made is recorded, unless the worker panics.                 *)
QueriesGetRecorded ==
  \A id \in 1 .. MaxQueries : made >= id ~> (agg.queries_total >= id \/ ~ alive)
===============================================================================
