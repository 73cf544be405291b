------------------------------ MODULE HostProofs ------------------------------
(***************************************************************************)
(* Proofs about the two hosts.                                             *)
(*                                                                         *)
(* QueryPipeline, the host of lesson 3, for any capacity of the channel,   *)
(* any cap on the samples and any number of tenants and slots.  That       *)
(* queries are recorded in the order they are made is split along the way  *)
(* a query takes: the one being answered comes next, then those of the     *)
(* channel, then the one being sent.                                       *)
(*                                                                         *)
(* TenantQueries with HostBoot, the host of lesson 1, for any size of the  *)
(* pool, any number of callers and statements, and a server that fails and *)
(* a host that is restarted any number of times.  The invariant says who   *)
(* holds a connection from what run_host and the calls are doing, counts   *)
(* the connections, and follows the schema statement by statement.         *)
(***************************************************************************)
EXTENDS QueryPipeline, TenantQueries, SequenceTheorems, FiniteSetTheorems, TLAPS

-------------------------------------------------------------------------------
(* The host of lesson 3. *)
Count(query) == IF query = NoQuery THEN 0 ELSE 1

Taken == agg.queries_total + Count(working)

InOrder ==
  alive =>
    /\ working # NoQuery => working.id = agg.queries_total + 1
    /\ \A i \in DOMAIN channel : channel[i].id = Taken + i
    /\ sending # NoQuery => sending.id = Taken + Len(channel) + 1
    /\ made = Taken + Len(channel) + Count(sending)

WindowBegan == agg.window_start <= now

PipelineInv ==
  /\ TypeOK
  /\ WindowBegan
  /\ InOrder
  /\ SamplesAreMostRecent
  /\ WindowsPartitionQueries

AggType ==
  [lat_ns : Seq(1 .. MaxQueries), slot_last : SUBSET (Slots \X Nat),
   queries_total : Nat, window_start : Nat, window_count : Nat]

(* A query has a positive number, so it is never NoQuery. *)
LEMMA QueriesAreNumbered ==
  /\ \A q \in Query : q.id \in Nat \ {0} /\ q # NoQuery
  /\ NoQuery \notin Query
<1>1. \A q \in Query : q.id \in 1 .. MaxQueries
  BY DEF Query
<1>2. NoQuery.id = 0
  BY DEF NoQuery
<1> QED BY <1>1, <1>2, QueryPipelineAssumption

(* Nothing was made, counted or sampled at first. *)
LEMMA InitEstablishesPipelineInv == Init => PipelineInv
<1> SUFFICES ASSUME Init PROVE PipelineInv
  OBVIOUS
<1>1. TypeOK
  BY QueryPipelineAssumption DEF Init, TypeOK, NoAnswer
<1>2. InOrder
  BY DEF Init, InOrder, Taken, Count
<1>3. SamplesAreMostRecent
  BY DEF Init, SamplesAreMostRecent
<1>4. WindowBegan /\ WindowsPartitionQueries
  BY DEF Init, WindowBegan, WindowsPartitionQueries
<1> QED BY <1>1, <1>2, <1>3, <1>4 DEF PipelineInv

(* A new query gets the next number.                                       *)
LEMMA MakeQueryPreservesPipelineInv ==
  ASSUME PipelineInv, NEW tenant \in Tenants, MakeQuery(tenant)
  PROVE  PipelineInv'
<1> DEFINE q == [id |-> made + 1, tenant |-> tenant]
<1>1. /\ sending = NoQuery /\ made < MaxQueries
      /\ made' = made + 1 /\ sending' = q
      /\ UNCHANGED <<graph, channel, working, alive, agg, answer, now, rolled, seen>>
  BY DEF MakeQuery
<1>2. q \in Query /\ q.id = made + 1
  BY <1>1, QueryPipelineAssumption DEF PipelineInv, TypeOK, Query
<1> HIDE DEF q
<1>3. q # NoQuery
  BY <1>2, QueriesAreNumbered
<1>4. TypeOK'
  <2>1. made' \in 0 .. MaxQueries /\ sending' \in Query \cup {NoQuery}
    BY <1>1, <1>2, QueryPipelineAssumption DEF PipelineInv, TypeOK
  <2> QED BY <1>1, <2>1 DEF PipelineInv, TypeOK
<1>5. InOrder'
  <2>1. Taken' = Taken /\ Count(sending) = 0 /\ Count(sending)' = 1
    BY <1>1, <1>3 DEF Taken, Count
  <2>2. Taken \in Nat /\ Len(channel) \in Nat
    BY DEF PipelineInv, TypeOK, Taken, Count
  <2>3. alive => sending'.id = Taken + Len(channel) + 1 /\ made' = Taken + Len(channel) + 1
    BY <1>1, <1>2, <2>1, <2>2 DEF PipelineInv, InOrder
  <2> QED BY <1>1, <2>1, <2>3 DEF PipelineInv, InOrder
<1>6. WindowBegan' /\ SamplesAreMostRecent' /\ WindowsPartitionQueries'
  BY <1>1 DEF PipelineInv, WindowBegan, SamplesAreMostRecent, WindowsPartitionQueries
<1> QED BY <1>4, <1>5, <1>6 DEF PipelineInv

(* The query sent becomes the last of the channel.                         *)
LEMMA SendQueryPreservesPipelineInv ==
  ASSUME PipelineInv, SendQuery
  PROVE  PipelineInv'
<1>1. /\ sending # NoQuery /\ sending' = NoQuery
      /\ alive => Len(channel) < Capacity /\ channel' = Append(channel, sending)
      /\ ~ alive => channel' = channel
      /\ UNCHANGED <<graph, made, working, alive, agg, answer, now, rolled, seen>>
  BY DEF SendQuery, HasRoom, PipelineInv, TypeOK
<1>2. /\ channel \in Seq(Query) /\ Len(channel) \in Nat /\ Len(channel) <= Capacity
      /\ sending \in Query /\ alive \in BOOLEAN
  BY <1>1 DEF PipelineInv, TypeOK
<1>3. alive => /\ channel' \in Seq(Query) /\ Len(channel') = Len(channel) + 1
               /\ DOMAIN channel' = 1 .. Len(channel) + 1 /\ DOMAIN channel = 1 .. Len(channel)
               /\ \A i \in 1 .. Len(channel) : channel'[i] = channel[i]
               /\ channel'[Len(channel) + 1] = sending
  BY <1>1, <1>2
<1>4. TypeOK'
  <2>1. channel' \in Seq(Query) /\ Len(channel') <= Capacity
    BY <1>1, <1>2, <1>3, QueryPipelineAssumption
  <2> QED BY <1>1, <2>1 DEF PipelineInv, TypeOK
<1>5. InOrder'
  <2> SUFFICES ASSUME alive PROVE InOrder'
    BY <1>1 DEF InOrder
  <2>1. Taken' = Taken /\ Count(sending) = 1 /\ Count(sending') = 0
    BY <1>1 DEF Taken, Count
  <2>2. Taken \in Nat
    BY DEF PipelineInv, TypeOK, Taken, Count
  <2>3. /\ \A i \in DOMAIN channel : channel[i].id = Taken + i
        /\ sending.id = Taken + Len(channel) + 1
        /\ made = Taken + Len(channel) + 1
    BY <1>1, <2>1 DEF PipelineInv, InOrder
  <2>4. ASSUME NEW i \in DOMAIN channel'
        PROVE  channel'[i].id = Taken + i
    <3>1. i \in 1 .. Len(channel) \/ i = Len(channel) + 1
      BY <1>2, <1>3
    <3>2. CASE i \in 1 .. Len(channel)
      BY <1>3, <2>3, <3>2
    <3>3. CASE i = Len(channel) + 1
      BY <1>2, <1>3, <2>2, <2>3, <3>3
    <3> QED BY <3>1, <3>2, <3>3
  <2>5. made' = Taken + Len(channel') + 0
    BY <1>1, <1>2, <1>3, <2>2, <2>3
  <2>6. working' # NoQuery => working'.id = agg'.queries_total + 1
    BY <1>1 DEF PipelineInv, InOrder
  <2> QED BY <1>1, <2>1, <2>4, <2>5, <2>6 DEF InOrder
<1>6. WindowBegan' /\ SamplesAreMostRecent' /\ WindowsPartitionQueries'
  BY <1>1 DEF PipelineInv, WindowBegan, SamplesAreMostRecent, WindowsPartitionQueries
<1> QED BY <1>4, <1>5, <1>6 DEF PipelineInv

(* The first of the channel becomes the query to answer.                   *)
LEMMA ReceivePreservesPipelineInv ==
  ASSUME PipelineInv, Receive
  PROVE  PipelineInv'
<1>1. /\ alive /\ working = NoQuery /\ channel # <<>>
      /\ working' = Head(channel) /\ channel' = Tail(channel)
      /\ UNCHANGED <<graph, made, sending, alive, agg, answer, now, rolled, seen>>
  BY DEF Receive, Received
<1>2. channel \in Seq(Query) /\ Len(channel) \in Nat /\ Len(channel) <= Capacity
  BY DEF PipelineInv, TypeOK
<1>3. /\ channel' \in Seq(Query) /\ Len(channel') = Len(channel) - 1 /\ Len(channel) >= 1
      /\ DOMAIN channel' = 1 .. Len(channel) - 1 /\ DOMAIN channel = 1 .. Len(channel)
      /\ \A i \in DOMAIN channel' : channel'[i] = channel[i + 1]
      /\ working' = channel[1] /\ working' \in Query
  BY <1>1, <1>2
<1>4. TypeOK'
  <2>1. Len(channel') <= Capacity
    BY <1>2, <1>3, QueryPipelineAssumption
  <2> QED BY <1>1, <1>3, <2>1 DEF PipelineInv, TypeOK
<1>5. InOrder'
  <2>1. agg.queries_total \in Nat /\ Taken = agg.queries_total /\ Taken' = Taken + 1
    BY <1>1, <1>3, QueriesAreNumbered DEF PipelineInv, TypeOK, Taken, Count
  <2>2. /\ \A i \in DOMAIN channel : channel[i].id = Taken + i
        /\ sending # NoQuery => sending.id = Taken + Len(channel) + 1
        /\ made = Taken + Len(channel) + Count(sending)
        /\ Count(sending) \in Nat
    BY <1>1 DEF PipelineInv, InOrder, Count
  <2>3. working'.id = agg'.queries_total + 1
    <3>1. 1 \in DOMAIN channel
      BY <1>2, <1>3
    <3> QED BY <1>1, <1>3, <2>1, <2>2, <3>1
  <2>4. \A i \in DOMAIN channel' : channel'[i].id = Taken' + i
    <3> SUFFICES ASSUME NEW i \in DOMAIN channel' PROVE channel'[i].id = Taken' + i
      OBVIOUS
    <3>1. i + 1 \in DOMAIN channel /\ i \in Nat
      BY <1>2, <1>3
    <3>2. channel'[i].id = Taken + (i + 1)
      BY <1>3, <2>2, <3>1
    <3> QED BY <2>1, <3>1, <3>2
  <2>5. /\ sending' # NoQuery => sending'.id = Taken' + Len(channel') + 1
        /\ made' = Taken' + Len(channel') + Count(sending)
    BY <1>1, <1>2, <1>3, <2>1, <2>2
  <2>6. Count(sending)' = Count(sending)
    BY <1>1 DEF Count
  <2> QED BY <2>3, <2>4, <2>5, <2>6 DEF InOrder
<1>6. WindowBegan' /\ SamplesAreMostRecent' /\ WindowsPartitionQueries'
  BY <1>1 DEF PipelineInv, WindowBegan, SamplesAreMostRecent, WindowsPartitionQueries
<1> QED BY <1>4, <1>5, <1>6 DEF PipelineInv

(* What is drained are the oldest samples, a quarter of them.              *)
LEMMA DrainedKeepsNewest ==
  ASSUME NEW S, NEW lat \in Seq(S), Len(lat) <= SampleCap
  PROVE  /\ Drained(lat) \in Seq(S)
         /\ Len(Drained(lat)) < SampleCap /\ Len(Drained(lat)) <= Len(lat)
         /\ Drained(lat) = lat \/ 4 * (Len(Drained(lat)) + 1) >= 3 * SampleCap
         /\ \A i \in 1 .. Len(Drained(lat)) :
              Drained(lat)[i] = lat[(Len(lat) - Len(Drained(lat))) + i]
<1> DEFINE k == Len(lat) \div 4
<1>1. Len(lat) \in Nat /\ SampleCap \in Nat /\ SampleCap >= 4
  BY QueryPipelineAssumption
<1>2. k \in Nat /\ 4 * k <= Len(lat) /\ Len(lat) < 4 * k + 4
  BY <1>1
<1> HIDE DEF k
<1>3. CASE Len(lat) >= SampleCap
  <2>1. Drained(lat) = SubSeq(lat, k + 1, Len(lat))
    BY <1>3 DEF Drained, k
  <2>2. k >= 1 /\ k + 1 <= Len(lat) /\ Len(lat) = SampleCap
    BY <1>1, <1>2, <1>3
  <2>3. \A i \in (k + 1) .. Len(lat) : lat[i] \in S
    BY <1>1, <1>2
  <2>4. /\ SubSeq(lat, k + 1, Len(lat)) \in Seq(S)
        /\ Len(SubSeq(lat, k + 1, Len(lat))) = Len(lat) - (k + 1) + 1
        /\ \A i \in 1 .. Len(lat) - (k + 1) + 1 : SubSeq(lat, k + 1, Len(lat))[i] = lat[k + 1 + i - 1]
    <3>1. k + 1 \in Int /\ Len(lat) \in Int
      BY <1>1, <1>2
    <3> QED BY <2>2, <2>3, <3>1, SubSeqProperties
  <2>5. Len(Drained(lat)) = Len(lat) - k
    BY <1>1, <1>2, <2>1, <2>4
  <2>6. \A i \in 1 .. Len(lat) - k : Drained(lat)[i] = lat[k + i]
    BY <1>1, <1>2, <2>1, <2>4
  <2>7. Len(lat) - Len(Drained(lat)) = k
    BY <1>1, <1>2, <2>5
  <2> QED BY <1>1, <1>2, <2>1, <2>2, <2>4, <2>5, <2>6, <2>7
<1>4. CASE ~ (Len(lat) >= SampleCap)
  <2>1. Drained(lat) = lat
    BY <1>4 DEF Drained
  <2> QED BY <1>1, <1>4, <2>1
<1> QED BY <1>3, <1>4

(* The query recorded is the newest sample and the next to be counted.     *)
LEMMA RecordPreservesPipelineInv ==
  ASSUME PipelineInv, Record
  PROVE  PipelineInv'
<1> DEFINE lat == agg.lat_ns
<1> DEFINE total == agg.queries_total
<1> DEFINE slot == SlotOf[working.tenant]
<1>1. /\ alive /\ working # NoQuery /\ working' = NoQuery
      /\ agg' = [agg EXCEPT !.queries_total = @ + 1,
                            !.window_count = @ + 1,
                            !.lat_ns = Append(Drained(@), working.id),
                            !.slot_last = Insert(@, slot, now)]
      /\ seen' = Insert(seen, slot, now)
      /\ UNCHANGED <<graph, made, sending, channel, alive, answer, now, rolled>>
  BY DEF Record
<1>2. /\ working \in Query /\ working.id \in 1 .. MaxQueries /\ slot \in Slots
      /\ agg \in AggType
      /\ total \in Nat /\ lat \in Seq(1 .. MaxQueries) /\ Len(lat) \in Nat /\ Len(lat) <= SampleCap
      /\ agg.window_count \in Nat /\ agg.slot_last \in SUBSET (Slots \X Nat)
      /\ now \in Nat /\ seen \in SUBSET (Slots \X Nat)
  <2>1. agg \in AggType /\ Len(lat) <= SampleCap /\ now \in Nat /\ seen \in SUBSET (Slots \X Nat)
    BY DEF PipelineInv, TypeOK, AggType
  <2>2. working \in Query
    BY <1>1 DEF PipelineInv, TypeOK
  <2>3. working.id \in 1 .. MaxQueries /\ slot \in Slots
    BY <2>2, QueryPipelineAssumption DEF Query
  <2> QED BY <2>1, <2>2, <2>3 DEF AggType
<1> DEFINE kept == Drained(lat)
<1>3. /\ kept \in Seq(1 .. MaxQueries) /\ Len(kept) \in Nat
      /\ Len(kept) < SampleCap /\ Len(kept) <= Len(lat)
      /\ kept = lat \/ 4 * (Len(kept) + 1) >= 3 * SampleCap
      /\ \A i \in 1 .. Len(kept) : kept[i] = lat[(Len(lat) - Len(kept)) + i]
  <2>1. lat \in Seq(1 .. MaxQueries) /\ Len(lat) <= SampleCap
    BY <1>2
  <2> HIDE DEF lat
  <2> QED BY <2>1, DrainedKeepsNewest
<1>4. /\ agg'.lat_ns = Append(kept, working.id)
      /\ agg'.queries_total = total + 1
      /\ agg'.window_count = agg.window_count + 1
      /\ agg'.slot_last = Insert(agg.slot_last, slot, now)
      /\ agg'.window_start = agg.window_start
      /\ agg' = [lat_ns |-> agg'.lat_ns, slot_last |-> agg'.slot_last,
                 queries_total |-> total + 1, window_start |-> agg.window_start,
                 window_count |-> agg.window_count + 1]
      /\ agg.window_start \in Nat
  BY <1>1, <1>2 DEF AggType
<1>5. working.id = total + 1
  BY <1>1 DEF PipelineInv, InOrder
<1> HIDE DEF lat, total, slot, kept
<1>6. /\ agg'.lat_ns \in Seq(1 .. MaxQueries)
      /\ Len(agg'.lat_ns) = Len(kept) + 1
      /\ \A i \in 1 .. Len(kept) : agg'.lat_ns[i] = kept[i]
      /\ agg'.lat_ns[Len(kept) + 1] = working.id
  BY <1>2, <1>3, <1>4
<1>7. Insert(agg.slot_last, slot, now) \in SUBSET (Slots \X Nat) /\ seen' \in SUBSET (Slots \X Nat)
  BY <1>1, <1>2 DEF Insert
<1>8. TypeOK'
  <2>1. agg' \in AggType
    <3>1. /\ agg'.lat_ns \in Seq(1 .. MaxQueries) /\ agg'.slot_last \in SUBSET (Slots \X Nat)
          /\ total + 1 \in Nat /\ agg.window_start \in Nat /\ agg.window_count + 1 \in Nat
      <4>1. /\ total \in Nat /\ agg.window_count \in Nat
            /\ agg'.slot_last = Insert(agg.slot_last, slot, now)
        BY <1>2, <1>4
      <4> HIDE DEF kept, total
      <4> QED BY <1>4, <1>6, <1>7, <4>1
    <3> DEFINE new == agg'
    <3>2. new = [lat_ns |-> new.lat_ns, slot_last |-> new.slot_last,
                 queries_total |-> total + 1, window_start |-> agg.window_start,
                 window_count |-> agg.window_count + 1]
      BY <1>4
    <3> HIDE DEF new
    <3>3. new.lat_ns \in Seq(1 .. MaxQueries) /\ new.slot_last \in SUBSET (Slots \X Nat)
      BY <3>1 DEF new
    <3>4. new \in AggType
      BY <3>1, <3>2, <3>3 DEF AggType
    <3> QED BY <3>4 DEF new
  <2>2. Len(agg'.lat_ns) <= SampleCap
    BY <1>3, <1>6, QueryPipelineAssumption
  <2> QED BY <1>1, <1>7, <2>1, <2>2 DEF PipelineInv, TypeOK, AggType
<1>9. InOrder'
  <2>1. Taken' = Taken
    BY <1>1, <1>2, <1>4 DEF Taken, Count, total
  <2>2. Count(sending)' = Count(sending)
    BY <1>1 DEF Count
  <2> QED BY <1>1, <2>1, <2>2 DEF PipelineInv, InOrder
<1>10. SamplesAreMostRecent'
  <2>1. /\ \A i \in DOMAIN lat : lat[i] = (total - Len(lat)) + i
        /\ Len(lat) = total \/ 4 * Len(lat) >= 3 * SampleCap
    BY DEF PipelineInv, SamplesAreMostRecent, lat, total
  <2>2. ASSUME NEW i \in 1 .. Len(kept)
        PROVE  kept[i] = (total + 1 - (Len(kept) + 1)) + i
    <3>1. (Len(lat) - Len(kept)) + i \in DOMAIN lat
      BY <1>2, <1>3
    <3>2. kept[i] = (total - Len(lat)) + ((Len(lat) - Len(kept)) + i)
      BY <1>3, <2>1, <3>1
    <3> QED BY <1>2, <1>3, <3>2
  <2> DEFINE samples == agg'.lat_ns
             count == agg'.queries_total
  <2>3. \A i \in DOMAIN samples : samples[i] = (count - Len(samples)) + i
    <3>1. ASSUME NEW i \in DOMAIN samples
          PROVE  samples[i] = (total + 1 - (Len(kept) + 1)) + i
      <4>1. i \in 1 .. Len(kept) \/ i = Len(kept) + 1
        BY <1>3, <1>6, <3>1
      <4>2. CASE i \in 1 .. Len(kept)
        BY <1>6, <2>2, <4>2
      <4>3. CASE i = Len(kept) + 1
        BY <1>2, <1>3, <1>5, <1>6, <4>3
      <4> QED BY <4>1, <4>2, <4>3
    <3>2. /\ count = total + 1 /\ Len(samples) = Len(kept) + 1
          /\ total \in Nat /\ Len(kept) \in Nat
      BY <1>2, <1>3, <1>4, <1>6
    <3> HIDE DEF kept, lat, total, samples, count
    <3>3. count - Len(samples) = total + 1 - (Len(kept) + 1)
      BY <3>2
    <3>4. ASSUME NEW i \in DOMAIN samples
          PROVE  samples[i] = (count - Len(samples)) + i
      BY <3>1, <3>3, <3>4
    <3> QED BY <3>4
  <2>4. Len(agg'.lat_ns) = agg'.queries_total \/ 4 * Len(agg'.lat_ns) >= 3 * SampleCap
    <3>1. CASE kept = lat
      BY <1>2, <1>4, <1>6, <2>1, <3>1, QueryPipelineAssumption
    <3>2. CASE 4 * (Len(kept) + 1) >= 3 * SampleCap
      BY <1>6, <3>2
    <3> QED BY <1>3, <3>1, <3>2
  <2> QED BY <2>3, <2>4 DEF SamplesAreMostRecent
<1>11. WindowBegan' /\ WindowsPartitionQueries'
  BY <1>1, <1>2, <1>4 DEF PipelineInv, TypeOK, WindowBegan, WindowsPartitionQueries, total
<1> QED BY <1>8, <1>9, <1>10, <1>11 DEF PipelineInv

(* When the worker panics nothing is promised of the queries in flight.    *)
LEMMA PanicPreservesPipelineInv ==
  ASSUME PipelineInv, Panic
  PROVE  PipelineInv'
<1>1. /\ alive' = FALSE /\ channel' = <<>> /\ working' = NoQuery
      /\ UNCHANGED <<graph, made, sending, agg, answer, now, rolled, seen>>
  BY DEF Panic
<1>2. TypeOK'
  <2>1. channel' \in Seq(Query) /\ Len(channel') <= Capacity
    BY <1>1, QueryPipelineAssumption
  <2> QED BY <1>1, <2>1 DEF PipelineInv, TypeOK
<1>3. WindowBegan' /\ InOrder' /\ SamplesAreMostRecent' /\ WindowsPartitionQueries'
  BY <1>1 DEF PipelineInv, WindowBegan, InOrder, SamplesAreMostRecent, WindowsPartitionQueries
<1> QED BY <1>2, <1>3 DEF PipelineInv

(* An answer rolls what the window has counted into the past.              *)
LEMMA MetricsPreservesPipelineInv ==
  ASSUME PipelineInv, Metrics
  PROVE  PipelineInv'
<1> DEFINE recent == Pruned(agg.slot_last)
<1> DEFINE pruned == [agg EXCEPT !.slot_last = recent]
<1>1. /\ agg' = Rolled(pruned)
      /\ rolled' = IF Elapsed >= Second THEN rolled + agg.window_count ELSE rolled
      /\ answer' = [active |-> {p[1] : p \in agg'.slot_last}]
      /\ UNCHANGED <<graph, made, sending, channel, working, alive, now, seen>>
  BY DEF Metrics
<1>2. agg \in AggType /\ Len(agg.lat_ns) <= SampleCap /\ now \in Nat /\ rolled \in Nat
  BY DEF PipelineInv, TypeOK, AggType
<1>3. recent \in SUBSET (Slots \X Nat)
  BY <1>2 DEF Pruned, AggType
<1> HIDE DEF recent
<1>4. /\ pruned \in AggType
      /\ pruned.lat_ns = agg.lat_ns /\ pruned.queries_total = agg.queries_total
      /\ pruned.window_count = agg.window_count /\ pruned.slot_last = recent
  BY <1>2, <1>3 DEF AggType
<1> HIDE DEF pruned
<1>5. /\ agg' \in AggType
      /\ agg'.lat_ns = agg.lat_ns /\ agg'.queries_total = agg.queries_total
      /\ agg'.slot_last = recent
      /\ agg'.window_count = IF Elapsed >= Second THEN 0 ELSE agg.window_count
  BY <1>1, <1>2, <1>4 DEF Rolled, AggType
<1>6. TypeOK'
  <2>1. Elapsed \in Nat
    BY <1>2 DEF PipelineInv, WindowBegan, Elapsed, AggType
  <2> QED BY <1>1, <1>2, <1>3, <1>5, <2>1 DEF PipelineInv, TypeOK, AggType
<1>7. InOrder'
  <2>1. Taken' = Taken /\ Count(sending)' = Count(sending)
    BY <1>1, <1>5 DEF Taken, Count
  <2> QED BY <1>1, <1>5, <2>1 DEF PipelineInv, InOrder
<1>8. SamplesAreMostRecent'
  BY <1>1, <1>5 DEF PipelineInv, SamplesAreMostRecent
<1>9. WindowBegan' /\ WindowsPartitionQueries'
  <2>1. agg'.window_start \in {agg.window_start, now}
    BY <1>1, <1>2, <1>4 DEF Rolled, AggType, pruned
  <2>2. WindowBegan'
    BY <1>1, <1>2, <2>1 DEF PipelineInv, WindowBegan
  <2>3. WindowsPartitionQueries'
    BY <1>1, <1>2, <1>5 DEF PipelineInv, WindowsPartitionQueries, AggType
  <2> QED BY <2>2, <2>3
<1> QED BY <1>6, <1>7, <1>8, <1>9 DEF PipelineInv

(* The clock only goes on.                                                 *)
LEMMA TickPreservesPipelineInv ==
  ASSUME PipelineInv, Tick \/ UNCHANGED vars
  PROVE  PipelineInv'
<1>1. /\ now' = now + 1 \/ now' = now
      /\ UNCHANGED <<graph, made, sending, channel, working, alive, agg, answer, rolled, seen>>
  BY DEF Tick, vars
<1>2. now \in Nat /\ agg.window_start \in Nat
  BY DEF PipelineInv, TypeOK
<1>3. TypeOK'
  BY <1>1, <1>2 DEF PipelineInv, TypeOK
<1>4. WindowBegan'
  BY <1>1, <1>2 DEF PipelineInv, WindowBegan
<1>5. InOrder'
  BY <1>1 DEF PipelineInv, InOrder, Taken, Count
<1>6. SamplesAreMostRecent' /\ WindowsPartitionQueries'
  BY <1>1 DEF PipelineInv, SamplesAreMostRecent, WindowsPartitionQueries
<1> QED BY <1>3, <1>4, <1>5, <1>6 DEF PipelineInv

(* Every step keeps the invariant.                                         *)
LEMMA NextPreservesPipelineInv == PipelineInv /\ [Next]_vars => PipelineInv'
<1> QED BY MakeQueryPreservesPipelineInv, SendQueryPreservesPipelineInv, ReceivePreservesPipelineInv,
           RecordPreservesPipelineInv, PanicPreservesPipelineInv, MetricsPreservesPipelineInv,
           TickPreservesPipelineInv DEF Next, Worker

(* PipelineInv is an invariant of the host.                                       *)
THEOREM PipelineInvariant == Spec => []PipelineInv
<1> QED BY InitEstablishesPipelineInv, NextPreservesPipelineInv, PTL DEF Spec

(* The channel never holds more than its capacity, nor the samples more    *)
(* than LAT_SAMPLES_CAP.                                                   *)
THEOREM PipelineTypeCorrect == Spec => []TypeOK
<1>1. PipelineInv => TypeOK
  BY DEF PipelineInv
<1> QED BY <1>1, PipelineInvariant, PTL

(* The queries in flight are those made and not yet recorded, in order.    *)
LEMMA InOrderMeansNoneLost == TypeOK /\ InOrder => NoQueryLost
<1> SUFFICES ASSUME TypeOK, InOrder, alive
             PROVE  /\ agg.queries_total + Len(InFlight) = made
                    /\ \A i \in DOMAIN InFlight : InFlight[i].id = agg.queries_total + i
  BY DEF NoQueryLost
<1> DEFINE total == agg.queries_total
<1> DEFINE first == One(working)
<1> DEFINE last == One(sending)
<1>1. /\ channel \in Seq(Query) /\ Len(channel) \in Nat /\ total \in Nat
      /\ working \in Query \cup {NoQuery} /\ sending \in Query \cup {NoQuery}
  BY DEF TypeOK
<1>2. /\ working # NoQuery => working.id = total + 1
      /\ \A i \in DOMAIN channel : channel[i].id = Taken + i
      /\ sending # NoQuery => sending.id = Taken + Len(channel) + 1
      /\ made = Taken + Len(channel) + Count(sending)
      /\ Taken = total + Count(working)
  BY DEF InOrder, Taken
<1>3. /\ first \in Seq(Query) /\ Len(first) = Count(working)
      /\ \A i \in DOMAIN first : first[i].id = total + i
  <2>1. CASE working = NoQuery
    BY <2>1 DEF One, Count
  <2>2. CASE working # NoQuery
    BY <1>1, <1>2, <2>2 DEF One, Count
  <2> QED BY <2>1, <2>2
<1>4. /\ last \in Seq(Query) /\ Len(last) = Count(sending)
      /\ \A i \in DOMAIN last : last[i].id = Taken + Len(channel) + i
  <2>1. CASE sending = NoQuery
    BY <2>1 DEF One, Count
  <2>2. CASE sending # NoQuery
    BY <1>1, <1>2, <2>2 DEF One, Count
  <2> QED BY <2>1, <2>2
<1>5. Count(working) \in Nat /\ Count(sending) \in Nat
  BY DEF Count
<1> HIDE DEF first, last, total
<1> DEFINE front == first \o channel
<1>6. /\ front \in Seq(Query) /\ Len(front) = Count(working) + Len(channel)
      /\ \A i \in 1 .. Len(front) : front[i].id = total + i
  <2>1. /\ front \in Seq(Query) /\ Len(front) = Len(first) + Len(channel)
        /\ \A i \in 1 .. Len(first) : front[i] = first[i]
        /\ \A i \in Len(first) + 1 .. Len(first) + Len(channel) : front[i] = channel[i - Len(first)]
    <3>1. first \in Seq(Query) /\ channel \in Seq(Query)
      BY <1>1, <1>3
    <3> QED BY <3>1, ConcatProperties
  <2>2. ASSUME NEW i \in 1 .. Len(front)
        PROVE  front[i].id = total + i
    <3>1. CASE i <= Len(first)
      BY <1>3, <2>1, <3>1
    <3>2. CASE ~ (i <= Len(first))
      <4>1. i \in Len(first) + 1 .. Len(first) + Len(channel) /\ i - Len(first) \in DOMAIN channel
        BY <1>1, <1>3, <1>5, <2>1, <3>2
      <4>2. front[i].id = Taken + (i - Len(first))
        BY <1>2, <2>1, <4>1
      <4> QED BY <1>1, <1>2, <1>3, <1>5, <4>1, <4>2
    <3> QED BY <3>1, <3>2
  <2> QED BY <1>3, <2>1, <2>2
<1> HIDE DEF front
<1>7. InFlight = front \o last
  BY DEF InFlight, front, first, last
<1>8. /\ Len(InFlight) = Len(front) + Len(last) /\ DOMAIN InFlight = 1 .. Len(front) + Len(last)
      /\ \A i \in 1 .. Len(front) : InFlight[i] = front[i]
      /\ \A i \in Len(front) + 1 .. Len(front) + Len(last) : InFlight[i] = last[i - Len(front)]
  BY <1>4, <1>6, <1>7
<1>9. ASSUME NEW i \in DOMAIN InFlight
      PROVE  InFlight[i].id = total + i
  <2>1. CASE i <= Len(front)
    BY <1>6, <1>8, <2>1
  <2>2. CASE ~ (i <= Len(front))
    <3>1. i \in Len(front) + 1 .. Len(front) + Len(last) /\ i - Len(front) \in DOMAIN last
      BY <1>1, <1>4, <1>5, <1>6, <1>8, <2>2
    <3>2. InFlight[i].id = Taken + Len(channel) + (i - Len(front))
      BY <1>4, <1>8, <3>1
    <3>3. Len(front) = Count(working) + Len(channel) /\ Taken = total + Count(working)
      BY <1>2, <1>6
    <3>4. i \in Nat
      BY <1>1, <1>5, <1>6, <1>8
    <3> QED BY <1>1, <1>5, <3>2, <3>3, <3>4
  <2> QED BY <2>1, <2>2
<1>10. total + Len(InFlight) = made
  <2>1. Len(InFlight) = Count(working) + Len(channel) + Count(sending)
    BY <1>4, <1>6, <1>8
  <2>2. Taken = total + Count(working) /\ made = Taken + Len(channel) + Count(sending)
    BY <1>2
  <2>3. total \in Nat /\ Len(channel) \in Nat
    BY <1>1
  <2> QED BY <1>5, <2>1, <2>2, <2>3
<1> QED BY <1>9, <1>10 DEF total

(* While the worker lives the host loses no query and keeps their order.   *)
THEOREM PipelineLosesNoQuery == Spec => []NoQueryLost
<1>1. PipelineInv => NoQueryLost
  BY InOrderMeansNoneLost DEF PipelineInv
<1> QED BY <1>1, PipelineInvariant, PTL

(* The samples are those of the most recent queries, for any cap of at     *)
(* least four.                                                             *)
THEOREM PipelineSamplesAreMostRecent == Spec => []SamplesAreMostRecent
<1>1. PipelineInv => SamplesAreMostRecent
  BY DEF PipelineInv
<1> QED BY <1>1, PipelineInvariant, PTL

(* However many dashboards poll, every query is counted in one window.     *)
THEOREM PipelineWindowsPartition == Spec => []WindowsPartitionQueries
<1>1. PipelineInv => WindowsPartitionQueries
  BY DEF PipelineInv
<1> QED BY <1>1, PipelineInvariant, PTL

-------------------------------------------------------------------------------
(* The slots that were pruned are all older than a second, and no step but *)
(* a recording makes one younger.                                          *)
RecentAreKept ==
  \A p \in Slots \X Nat : p[2] + Second > now => (p \in seen <=> p \in agg.slot_last)

RecentInv == PipelineInv /\ RecentAreKept

(* The types that the slots and the clock have. *)
LEMMA SlotTypes ==
  ASSUME PipelineInv
  PROVE  /\ now \in Nat /\ Second \in Nat /\ agg \in AggType
         /\ seen \in SUBSET (Slots \X Nat) /\ agg.slot_last \in SUBSET (Slots \X Nat)
<1>1. agg \in AggType
  BY DEF PipelineInv, TypeOK, AggType
<1> QED BY <1>1, QueryPipelineAssumption DEF PipelineInv, TypeOK, AggType

(* An answer of /api/metrics keeps of the slots those of the last second.  *)
LEMMA MetricsPrunes ==
  ASSUME PipelineInv, Metrics
  PROVE  /\ agg'.slot_last = Pruned(agg.slot_last)
         /\ answer'.active = {p[1] : p \in Pruned(agg.slot_last)}
         /\ seen' = seen /\ now' = now
<1> DEFINE pruned == [agg EXCEPT !.slot_last = Pruned(agg.slot_last)]
<1>1. agg \in AggType
  BY SlotTypes
<1>2. /\ agg' = Rolled(pruned) /\ answer' = [active |-> {p[1] : p \in agg'.slot_last}]
      /\ seen' = seen /\ now' = now
  BY DEF Metrics
<1>3. /\ DOMAIN pruned = DOMAIN agg /\ pruned.slot_last = Pruned(agg.slot_last)
      /\ {"slot_last", "window_start", "window_count"} \subseteq DOMAIN agg
  BY <1>1 DEF AggType
<1> HIDE DEF pruned
<1>4. agg'.slot_last = pruned.slot_last
  BY <1>2, <1>3 DEF Rolled
<1> QED BY <1>2, <1>3, <1>4

(* Both maps are given the time of the newest query. *)
LEMMA RecordInserts ==
  ASSUME PipelineInv, Record
  PROVE  \E slot : /\ agg'.slot_last = Insert(agg.slot_last, slot, now)
                   /\ seen' = Insert(seen, slot, now) /\ now' = now
<1>1. agg \in AggType
  BY SlotTypes
<1> DEFINE slot == SlotOf[working.tenant]
<1>2. agg'.slot_last = Insert(agg.slot_last, slot, now)
  BY <1>1 DEF Record, AggType
<1> QED BY <1>2 DEF Record

(* Every step keeps them. *)
LEMMA NextPreservesRecentInv == RecentInv /\ [Next]_vars => RecentInv'
<1> SUFFICES ASSUME RecentInv, [Next]_vars PROVE RecentInv'
  OBVIOUS
<1>1. PipelineInv'
  BY NextPreservesPipelineInv DEF RecentInv
<1>2. now \in Nat /\ Second \in Nat
  BY SlotTypes DEF RecentInv
<1>3. CASE UNCHANGED <<agg, seen, now>>
  BY <1>1, <1>3 DEF RecentInv, RecentAreKept
<1>4. CASE Tick
  <2>1. now' = now + 1 /\ agg' = agg /\ seen' = seen
    BY <1>4 DEF Tick
  <2>2. ASSUME NEW p \in Slots \X Nat, p[2] + Second > now + 1
        PROVE  p \in seen <=> p \in agg.slot_last
    <3>1. p[2] + Second > now
      BY <1>2, <2>2
    <3> QED BY <3>1 DEF RecentInv, RecentAreKept
  <2> QED BY <1>1, <2>1, <2>2 DEF RecentInv, RecentAreKept
<1>5. CASE Metrics
  <2>1. agg'.slot_last = Pruned(agg.slot_last) /\ seen' = seen /\ now' = now
    BY <1>5, MetricsPrunes DEF RecentInv
  <2>2. \A p : p[2] + Second > now => (p \in Pruned(agg.slot_last) <=> p \in agg.slot_last)
    BY DEF Pruned
  <2> QED BY <1>1, <2>1, <2>2 DEF RecentInv, RecentAreKept
<1>6. CASE Record
  <2>1. PICK slot : /\ agg'.slot_last = Insert(agg.slot_last, slot, now)
                    /\ seen' = Insert(seen, slot, now) /\ now' = now
    BY <1>6, RecordInserts DEF RecentInv
  <2>2. ASSUME NEW p \in Slots \X Nat, p[2] + Second > now
        PROVE  p \in Insert(seen, slot, now) <=> p \in Insert(agg.slot_last, slot, now)
    BY <2>2 DEF RecentInv, RecentAreKept, Insert
  <2> QED BY <1>1, <2>1, <2>2 DEF RecentInv, RecentAreKept
<1> QED BY <1>3, <1>4, <1>5, <1>6
        DEF Next, Worker, MakeQuery, SendQuery, Receive, Panic, vars

(* Every answer of /api/metrics counts exactly the slots with a query in   *)
(* the second before, however many dashboards asked, and pruned, before.   *)
THEOREM PipelineActiveSlotsAreRecent == Spec => ActiveSlotsAreRecent
<1>1. Init => RecentInv
  BY InitEstablishesPipelineInv DEF Init, RecentInv, RecentAreKept
<1>2. ASSUME RecentInv, [Next]_vars
      PROVE  [Metrics => answer'.active = {p[1] : p \in {q \in seen : q[2] + Second > now}}]_vars
  <2> SUFFICES ASSUME Metrics
               PROVE  answer'.active = {p[1] : p \in {q \in seen : q[2] + Second > now}}
    OBVIOUS
  <2>1. answer'.active = {p[1] : p \in Pruned(agg.slot_last)}
    BY <1>2, MetricsPrunes DEF RecentInv
  <2>2. Pruned(agg.slot_last) = {q \in seen : q[2] + Second > now}
    BY <1>2, SlotTypes DEF RecentInv, RecentAreKept, Pruned
  <2> QED BY <2>1, <2>2
<1> QED BY <1>1, <1>2, NextPreservesRecentInv, PTL DEF Spec, ActiveSlotsAreRecent

-------------------------------------------------------------------------------
(* The host of lesson 1: the invariant.                                    *)

HostTypeOK ==
  /\ server \in {"up", "down", "nameless"}
  /\ pc \in {"build", "warmup", "bootstrap", "schema", "events", "seed", "serving", "failed"}
  /\ stmt \in 1 .. (Statements + 1) /\ label \in {"ws", "mem"}
  /\ schema \in [Stores -> SUBSET (1 .. Statements)]
  /\ seeded \subseteq Stores /\ rejected \subseteq 1 .. Statements /\ expired \in BOOLEAN
  /\ at \in [Callers -> {"out", "get", "exec", "relate"}]

(* The pool's connections. *)
PoolInv ==
  /\ opening \in Nat
  /\ idle \in Seq(Nat) /\ \A i \in DOMAIN idle : idle[i] \in 1 .. PoolSize
  /\ held \in [Users -> Nat] /\ \A u \in Users : held[u] <= PoolSize
  /\ PoolWithinSize

(* What the call of a user, and the step of run_host, say it holds.        *)
Holders ==
  /\ \A t \in Callers : held[t] # 0 <=> at[t] \in {"exec", "relate"}
  /\ held[Host] # 0 <=> pc \in {"schema", "seed"}
  /\ pc # "serving" => \A t \in Callers : at[t] = "out"
  /\ pc = "build" => opening = 0
  /\ pc \in {"build", "warmup", "bootstrap"} => stmt = 1
  /\ pc = "schema" => stmt \in 1 .. Statements

Others(s) == Stores \ {s, Server}

Progress ==
  /\ ServerHasSchema
  /\ SchemaInOneStore
  /\ label = "ws" /\ pc = "schema" => 1 .. (stmt - 1) \subseteq schema[Server] \cup rejected
  /\ label = "ws" \/ pc \in {"build", "warmup", "bootstrap"} =>
       \A s \in Stores \ {Server} : schema[s] = {}
  /\ label = "mem" /\ pc = "schema" =>
       /\ schema[held[Host]] = 1 .. (stmt - 1)
       /\ \A s \in Others(held[Host]) : schema[s] = {}

HostInv == HostTypeOK /\ PoolInv /\ Holders /\ Progress

-------------------------------------------------------------------------------
(* How many connections are in use is a number. *)
LEMMA BusyType ==
  /\ IsFiniteSet(Users) /\ IsFiniteSet({u \in Users : held[u] # 0})
  /\ Busy \in Nat
<1>1. IsFiniteSet(Users)
  <2>1. Users = Callers \cup {Host}
    BY DEF Users
  <2> QED BY <2>1, HostBootAssumption, FS_AddElement
<1>2. IsFiniteSet({u \in Users : held[u] # 0})
  BY <1>1, FS_Subset
<1> QED BY <1>1, <1>2, FS_CardinalityType DEF Busy

(* One more connection is in use when a user without one gets one. *)
LEMMA BusyMore ==
  ASSUME PoolInv, NEW u \in Users, held[u] = 0, NEW s \in Nat \ {0},
         held' = [held EXCEPT ![u] = s]
  PROVE  /\ Busy' = Busy + 1 /\ held' \in [Users -> Nat]
         /\ held'[u] = s /\ \A v \in Users \ {u} : held'[v] = held[v]
<1>1. /\ held' \in [Users -> Nat] /\ held'[u] = s
      /\ \A v \in Users \ {u} : held'[v] = held[v]
  BY DEF PoolInv
<1> DEFINE S == {v \in Users : held[v] # 0}
<1>2. {v \in Users : held'[v] # 0} = S \cup {u} /\ u \notin S
  BY <1>1
<1>3. IsFiniteSet(S) /\ Cardinality(S) \in Nat
  BY BusyType DEF Busy
<1>4. Cardinality(S \cup {u}) = Cardinality(S) + 1
  <2> HIDE DEF S
  <2> QED BY <1>2, <1>3, FS_AddElement
<1> QED BY <1>1, <1>2, <1>4 DEF Busy

(* And one less when a user that has one gives it back. *)
LEMMA BusyLess ==
  ASSUME PoolInv, NEW u \in Users, held[u] # 0, held' = [held EXCEPT ![u] = 0]
  PROVE  /\ Busy = Busy' + 1 /\ Busy' \in Nat /\ held' \in [Users -> Nat]
         /\ held'[u] = 0 /\ \A v \in Users \ {u} : held'[v] = held[v]
<1>1. /\ held' \in [Users -> Nat] /\ held'[u] = 0
      /\ \A v \in Users \ {u} : held'[v] = held[v]
  BY DEF PoolInv
<1> DEFINE S == {v \in Users : held'[v] # 0}
<1>2. {v \in Users : held[v] # 0} = S \cup {u} /\ u \notin S
  BY <1>1
<1>3. IsFiniteSet(S) /\ Cardinality(S) \in Nat
  <2>1. IsFiniteSet(Users)
    BY BusyType
  <2>2. IsFiniteSet(S)
    BY <2>1, FS_Subset
  <2> QED BY <2>2, FS_CardinalityType
<1>4. Cardinality(S \cup {u}) = Cardinality(S) + 1
  <2> HIDE DEF S
  <2> QED BY <1>2, <1>3, FS_AddElement
<1> QED BY <1>1, <1>2, <1>3, <1>4 DEF Busy

(* None is in use when nobody holds one. *)
LEMMA BusyNone ==
  ASSUME \A u \in Users : held[u] = 0
  PROVE  Busy = 0
<1>1. {u \in Users : held[u] # 0} = {}
  OBVIOUS
<1> QED BY <1>1, FS_EmptySet DEF Busy

(* What is ordered when n connections are idle and others in use fits. *)
LEMMA OrderFits ==
  ASSUME NEW n \in Nat, NEW others \in Nat, opening \in Nat, n + opening + others <= PoolSize
  PROVE  /\ Order(n, others) \in Nat
         /\ n + Order(n, others) + others <= PoolSize
<1>1. PoolSize \in Nat /\ WarmIdle \in Nat
  BY HostBootAssumption
<1> QED BY <1>1 DEF Order, MinIdle, MaxSize

-------------------------------------------------------------------------------
(* What a step does to the pool.                                           *)

(* Taking the first idle connection. *)
LEMMA TakeKeepsPool ==
  ASSUME PoolInv, NEW u \in Users, Take(u)
  PROVE  /\ PoolInv'
         /\ held'[u] # 0 /\ \A v \in Users \ {u} : held'[v] = held[v]
<1> DEFINE s == idle[1]
<1>1. /\ idle # <<>> /\ held[u] = 0
      /\ held' = [held EXCEPT ![u] = s] /\ idle' = Tail(idle)
      /\ opening' = Order(Len(idle) - 1, Busy + 1)
  BY DEF Take, PoolInv
<1>2. /\ opening \in Nat /\ Busy \in Nat /\ PoolSize \in Nat
      /\ idle \in Seq(Nat) /\ \A i \in DOMAIN idle : idle[i] \in 1 .. PoolSize
      /\ held \in [Users -> Nat] /\ \A v \in Users : held[v] <= PoolSize
      /\ Len(idle) + opening + Busy <= PoolSize
      /\ \A i, j \in DOMAIN idle : idle[i] = idle[j] => i = j
      /\ \A v \in Users : \A i \in DOMAIN idle : idle[i] # held[v]
      /\ \A v, w \in Users : held[v] = held[w] /\ held[v] # 0 => v = w
  BY BusyType, HostBootAssumption DEF PoolInv, PoolWithinSize
<1>3. /\ Len(idle) \in Nat \ {0} /\ DOMAIN idle = 1 .. Len(idle)
      /\ idle' \in Seq(Nat) /\ Len(idle') = Len(idle) - 1 /\ DOMAIN idle' = 1 .. (Len(idle) - 1)
      /\ \A i \in 1 .. (Len(idle) - 1) : idle'[i] = idle[i + 1]
  BY <1>1, <1>2
<1>4. s \in 1 .. PoolSize /\ s \in Nat \ {0} /\ \A i \in 1 .. (Len(idle) - 1) : idle'[i] \in 1 .. PoolSize
  <2>1. 1 \in DOMAIN idle /\ \A i \in 1 .. (Len(idle) - 1) : i + 1 \in DOMAIN idle
    BY <1>3
  <2>2. s \in 1 .. PoolSize
    BY <1>2, <2>1
  <2>3. s \in Nat \ {0}
    BY <1>2, <2>2
  <2>4. \A i \in 1 .. (Len(idle) - 1) : idle'[i] \in 1 .. PoolSize
    BY <1>2, <1>3, <2>1
  <2> QED BY <2>2, <2>3, <2>4
<1> HIDE DEF s
<1>5. /\ Busy' = Busy + 1 /\ held' \in [Users -> Nat]
      /\ held'[u] = s /\ \A v \in Users \ {u} : held'[v] = held[v]
  <2>1. held[u] = 0 /\ s \in Nat \ {0} /\ held' = [held EXCEPT ![u] = s]
    BY <1>1, <1>4
  <2> QED BY <2>1, BusyMore
<1>6. opening' \in Nat /\ Len(idle') + opening' + Busy' <= PoolSize
  <2> DEFINE n == Len(idle) - 1
             others == Busy + 1
  <2>1. n \in Nat /\ others \in Nat /\ n + opening + others <= PoolSize
    BY <1>2, <1>3
  <2>2. opening' = Order(n, others) /\ Len(idle') = n /\ Busy' = others
    BY <1>1, <1>3, <1>5
  <2> HIDE DEF n, others
  <2>3. Order(n, others) \in Nat /\ n + Order(n, others) + others <= PoolSize
    BY <1>2, <2>1, OrderFits
  <2> QED BY <2>2, <2>3
<1>7. \A i, j \in DOMAIN idle' : idle'[i] = idle'[j] => i = j
  <2> SUFFICES ASSUME NEW i \in 1 .. (Len(idle) - 1), NEW j \in 1 .. (Len(idle) - 1),
                      idle'[i] = idle'[j]
               PROVE  i = j
    BY <1>3
  <2>1. i + 1 \in DOMAIN idle /\ j + 1 \in DOMAIN idle /\ idle[i + 1] = idle[j + 1]
    BY <1>3
  <2> QED BY <1>2, <2>1
<1>8. \A i \in DOMAIN idle' : idle'[i] # s
  <2> SUFFICES ASSUME NEW i \in 1 .. (Len(idle) - 1) PROVE idle'[i] # s
    BY <1>3
  <2>1. i + 1 \in DOMAIN idle /\ 1 \in DOMAIN idle /\ i + 1 # 1 /\ idle'[i] = idle[i + 1]
    BY <1>3
  <2> QED BY <1>2, <2>1 DEF s
<1>9. \A v \in Users : \A i \in DOMAIN idle' : idle'[i] # held'[v]
  <2>1. \A v \in Users : \A i \in 1 .. (Len(idle) - 1) : idle[i + 1] # held[v]
    <3>1. \A i \in 1 .. (Len(idle) - 1) : i + 1 \in DOMAIN idle
      BY <1>3
    <3> QED BY <1>2, <3>1
  <2> QED BY <1>3, <1>5, <1>8, <2>1
<1>10. \A v, w \in Users : held'[v] = held'[w] /\ held'[v] # 0 => v = w
  <2>1. \A v \in Users : held[v] # s
    <3>1. 1 \in DOMAIN idle
      BY <1>3
    <3> QED BY <1>2, <3>1 DEF s
  <2> QED BY <1>2, <1>5, <2>1
<1>11. PoolWithinSize'
  BY <1>6, <1>7, <1>9, <1>10 DEF PoolWithinSize
<1>12. \A v \in Users : held'[v] <= PoolSize
  BY <1>1, <1>2, <1>4, <1>5
<1>13. PoolInv'
  BY <1>1, <1>2, <1>3, <1>4, <1>5, <1>6, <1>11, <1>12 DEF PoolInv
<1> QED BY <1>4, <1>5, <1>13

(* Giving one back. *)
LEMMA GiveBackKeepsPool ==
  ASSUME PoolInv, NEW u \in Users, held[u] # 0, GiveBack(u)
  PROVE  /\ PoolInv'
         /\ held'[u] = 0 /\ \A v \in Users \ {u} : held'[v] = held[v]
<1> DEFINE s == held[u]
<1>1. /\ idle' = Append(idle, s) /\ held' = [held EXCEPT ![u] = 0]
      /\ opening' = opening
  BY DEF GiveBack
<1>2. /\ opening \in Nat /\ Busy \in Nat /\ PoolSize \in Nat
      /\ idle \in Seq(Nat) /\ \A i \in DOMAIN idle : idle[i] \in 1 .. PoolSize
      /\ held \in [Users -> Nat] /\ \A v \in Users : held[v] <= PoolSize
      /\ Len(idle) + opening + Busy <= PoolSize
      /\ \A i, j \in DOMAIN idle : idle[i] = idle[j] => i = j
      /\ \A v \in Users : \A i \in DOMAIN idle : idle[i] # held[v]
      /\ \A v, w \in Users : held[v] = held[w] /\ held[v] # 0 => v = w
  BY BusyType, HostBootAssumption DEF PoolInv, PoolWithinSize
<1>3. s \in Nat \ {0} /\ s <= PoolSize
  BY <1>2
<1>4. /\ Len(idle) \in Nat /\ DOMAIN idle = 1 .. Len(idle)
      /\ idle' \in Seq(Nat) /\ Len(idle') = Len(idle) + 1 /\ DOMAIN idle' = 1 .. (Len(idle) + 1)
      /\ \A i \in 1 .. Len(idle) : idle'[i] = idle[i]
      /\ idle'[Len(idle) + 1] = s
  BY <1>1, <1>2, <1>3
<1>5. /\ Busy = Busy' + 1 /\ Busy' \in Nat /\ held' \in [Users -> Nat]
      /\ held'[u] = 0 /\ \A v \in Users \ {u} : held'[v] = held[v]
  BY <1>1, BusyLess
<1>6. \A i \in DOMAIN idle' : idle'[i] \in 1 .. PoolSize
  <2> SUFFICES ASSUME NEW i \in DOMAIN idle' PROVE idle'[i] \in 1 .. PoolSize
    OBVIOUS
  <2>1. i \in 1 .. Len(idle) \/ i = Len(idle) + 1
    BY <1>4
  <2>2. s \in 1 .. PoolSize
    BY <1>2, <1>3
  <2> QED BY <1>2, <1>4, <2>1, <2>2
<1>7. \A i, j \in DOMAIN idle' : idle'[i] = idle'[j] => i = j
  <2>1. \A i, j \in 1 .. Len(idle) : idle'[i] = idle'[j] => i = j
    BY <1>2, <1>4
  <2>2. \A i \in 1 .. Len(idle) : idle'[i] # idle'[Len(idle) + 1]
    <3>1. \A i \in 1 .. Len(idle) : idle[i] # held[u]
      BY <1>2, <1>4
    <3> QED BY <1>4, <3>1
  <2>3. \A i \in DOMAIN idle' : i \in 1 .. Len(idle) \/ i = Len(idle) + 1
    BY <1>4
  <2> QED BY <2>1, <2>2, <2>3
<1>8. \A v \in Users : \A i \in DOMAIN idle' : idle'[i] # held'[v]
  <2> SUFFICES ASSUME NEW v \in Users, NEW i \in DOMAIN idle' PROVE idle'[i] # held'[v]
    OBVIOUS
  <2>1. CASE v = u
    BY <1>5, <1>6, <2>1
  <2>2. CASE v # u /\ i \in 1 .. Len(idle)
    BY <1>2, <1>4, <1>5, <2>2
  <2>3. CASE v # u /\ i = Len(idle) + 1
    <3>1. held'[v] = held[v] /\ idle'[i] = held[u] /\ held[u] # 0
      BY <1>4, <1>5, <2>3
    <3> QED BY <1>2, <2>3, <3>1
  <2> QED BY <1>4, <2>1, <2>2, <2>3
<1>9. \A v, w \in Users : held'[v] = held'[w] /\ held'[v] # 0 => v = w
  BY <1>2, <1>5
<1>10. Len(idle') + opening' + Busy' <= PoolSize
  <2>1. /\ opening \in Nat /\ Busy \in Nat /\ PoolSize \in Nat
        /\ Len(idle) + opening + Busy <= PoolSize
    BY <1>2
  <2>2. Len(idle) \in Nat /\ Len(idle') = Len(idle) + 1 /\ opening' = opening
    BY <1>1, <1>4
  <2>3. Busy = Busy' + 1 /\ Busy' \in Nat
    BY <1>5
  <2> QED BY <2>1, <2>2, <2>3
<1>11. PoolWithinSize'
  BY <1>7, <1>8, <1>9, <1>10 DEF PoolWithinSize
<1>12. \A v \in Users : held'[v] <= PoolSize
  BY <1>1, <1>2, <1>5
<1> QED BY <1>1, <1>2, <1>4, <1>5, <1>6, <1>10, <1>11, <1>12 DEF PoolInv

(* Opening one that was ordered, or for a get that waits. *)
LEMMA OpenKeepsPool ==
  ASSUME PoolInv, NEW waiting, Open(waiting)
  PROVE  PoolInv' /\ held' = held
<1> DEFINE Free == Connections \ (ToSet(idle) \cup {held[u] : u \in Users})
<1>1. /\ opening > 0 \/ (idle = <<>> /\ Busy < PoolSize)
      /\ opening' = IF opening > 0 THEN opening - 1 ELSE 0
      /\ held' = held
      /\ (\E c \in Free : idle' = Append(idle, c)) \/ idle' = idle
  BY DEF Open, MaxSize
<1>2. /\ opening \in Nat /\ Busy \in Nat /\ PoolSize \in Nat
      /\ idle \in Seq(Nat) /\ \A i \in DOMAIN idle : idle[i] \in 1 .. PoolSize
      /\ held \in [Users -> Nat] /\ \A v \in Users : held[v] <= PoolSize
      /\ Len(idle) + opening + Busy <= PoolSize
      /\ \A i, j \in DOMAIN idle : idle[i] = idle[j] => i = j
      /\ \A v \in Users : \A i \in DOMAIN idle : idle[i] # held[v]
      /\ \A v, w \in Users : held[v] = held[w] /\ held[v] # 0 => v = w
  BY BusyType, HostBootAssumption DEF PoolInv, PoolWithinSize
<1>3. Busy' = Busy /\ Len(idle) \in Nat
  BY <1>1, <1>2 DEF Busy
<1>4. opening' \in Nat
  BY <1>1, <1>2
<1>5. CASE idle' = idle
  <2>1. Len(idle') + opening' + Busy' <= PoolSize
    BY <1>1, <1>2, <1>3, <1>5
  <2>2. PoolWithinSize'
    BY <1>1, <1>2, <1>5, <2>1 DEF PoolWithinSize
  <2> QED BY <1>1, <1>2, <1>3, <1>4, <1>5, <2>2 DEF PoolInv
<1>6. ASSUME NEW c \in Free, idle' = Append(idle, c)
      PROVE  PoolInv'
  <2>0. /\ c \in 1 .. PoolSize
        /\ \A i \in DOMAIN idle : idle[i] # c
        /\ \A v \in Users : held[v] # c
    BY DEF ToSet, Connections, MaxSize
  <2>1. /\ DOMAIN idle = 1 .. Len(idle)
        /\ idle' \in Seq(Nat) /\ Len(idle') = Len(idle) + 1 /\ DOMAIN idle' = 1 .. (Len(idle) + 1)
        /\ \A i \in 1 .. Len(idle) : idle'[i] = idle[i]
        /\ idle'[Len(idle) + 1] = c
    <3>1. c \in Nat
      BY <1>2, <2>0
    <3> QED BY <1>2, <1>6, <3>1
  <2>2. Len(idle) = 0 \/ opening > 0
    BY <1>1
  <2>3. Len(idle') + opening' + Busy' <= PoolSize
    BY <1>1, <1>2, <1>3, <2>1, <2>2
  <2>4. \A i \in DOMAIN idle' : i \in 1 .. Len(idle) \/ i = Len(idle) + 1
    BY <1>3, <2>1
  <2>5. \A i \in DOMAIN idle' : idle'[i] \in 1 .. PoolSize
    BY <1>2, <2>0, <2>1, <2>4
  <2>6. \A i, j \in DOMAIN idle' : idle'[i] = idle'[j] => i = j
    <3>1. \A i \in 1 .. Len(idle) : idle'[i] # idle'[Len(idle) + 1]
      BY <2>0, <2>1
    <3>2. \A i, j \in 1 .. Len(idle) : idle'[i] = idle'[j] => i = j
      BY <1>2, <2>1
    <3> QED BY <2>4, <3>1, <3>2
  <2>7. \A v \in Users : \A i \in DOMAIN idle' : idle'[i] # held'[v]
    <3> SUFFICES ASSUME NEW v \in Users, NEW i \in DOMAIN idle' PROVE idle'[i] # held'[v]
      OBVIOUS
    <3>1. held'[v] = held[v]
      BY <1>1
    <3>2. CASE i \in 1 .. Len(idle)
      BY <1>2, <2>1, <3>1, <3>2
    <3>3. CASE i = Len(idle) + 1
      BY <2>0, <2>1, <3>1, <3>3
    <3> QED BY <2>4, <3>2, <3>3
  <2>8. PoolWithinSize'
    BY <1>1, <1>2, <2>3, <2>6, <2>7 DEF PoolWithinSize
  <2> QED BY <1>1, <1>2, <1>4, <2>1, <2>5, <2>8 DEF PoolInv
<1> QED BY <1>1, <1>5, <1>6

(* A connection expires. *)
LEMMA ReapKeepsPool ==
  ASSUME PoolInv, NEW k \in DOMAIN idle, idle' = RemoveAt(idle, k),
         opening' = Order(Len(idle) - 1, Busy), held' = held
  PROVE  PoolInv'
<1>1. /\ opening \in Nat /\ Busy \in Nat /\ PoolSize \in Nat
      /\ idle \in Seq(Nat) /\ \A i \in DOMAIN idle : idle[i] \in 1 .. PoolSize
      /\ held \in [Users -> Nat] /\ \A v \in Users : held[v] <= PoolSize
      /\ Len(idle) + opening + Busy <= PoolSize
      /\ \A i, j \in DOMAIN idle : idle[i] = idle[j] => i = j
      /\ \A v \in Users : \A i \in DOMAIN idle : idle[i] # held[v]
      /\ \A v, w \in Users : held[v] = held[w] /\ held[v] # 0 => v = w
  BY BusyType, HostBootAssumption DEF PoolInv, PoolWithinSize
<1> DEFINE n == Len(idle)
           from == [i \in 1 .. (n - 1) |-> IF i < k THEN i ELSE i + 1]
<1>2. n \in Nat \ {0} /\ DOMAIN idle = 1 .. n /\ k \in 1 .. n
  BY <1>1
<1>3. /\ idle' \in Seq(Nat) /\ Len(idle') = n - 1 /\ DOMAIN idle' = 1 .. (n - 1)
      /\ \A i \in 1 .. (n - 1) : idle'[i] = idle[from[i]]
  <2> DEFINE before == SubSeq(idle, 1, k - 1)
             after == SubSeq(idle, k + 1, n)
  <2>1. /\ before \in Seq(Nat) /\ Len(before) = k - 1
        /\ \A i \in 1 .. (k - 1) : before[i] = idle[i]
    BY <1>1, <1>2
  <2>2. /\ after \in Seq(Nat) /\ Len(after) = n - k
        /\ \A i \in 1 .. (n - k) : after[i] = idle[k + i]
    <3>1. /\ after \in Seq(Nat) /\ Len(after) = n - k
          /\ \A i \in 1 .. (n - k) : after[i] = idle[(k + 1) + i - 1]
      <4>1. /\ k + 1 \in Int /\ n \in Int /\ n - (k + 1) + 1 = n - k
            /\ (IF k + 1 <= n THEN n - (k + 1) + 1 ELSE 0) = n - k
            /\ \A i \in (k + 1) .. n : idle[i] \in Nat
        BY <1>1, <1>2
      <4> DEFINE m == k + 1
      <4> HIDE DEF n, m
      <4>2. /\ SubSeq(idle, m, n) \in Seq(Nat)
            /\ Len(SubSeq(idle, m, n)) = IF m <= n THEN n - m + 1 ELSE 0
            /\ \A i \in 1 .. (n - m + 1) : SubSeq(idle, m, n)[i] = idle[m + i - 1]
        BY <4>1, SubSeqProperties DEF m
      <4> QED BY <4>1, <4>2 DEF m
    <3>2. \A i \in 1 .. (n - k) : (k + 1) + i - 1 = k + i
      BY <1>2
    <3> QED BY <3>1, <3>2
  <2>3. idle' = before \o after
    BY DEF RemoveAt
  <2> HIDE DEF before, after, n
  <2>4. /\ idle' \in Seq(Nat) /\ Len(idle') = n - 1 /\ DOMAIN idle' = 1 .. (n - 1)
        /\ \A i \in 1 .. (n - 1) : idle'[i] = IF i < k THEN before[i] ELSE after[i - k + 1]
    <3>1. /\ idle' \in Seq(Nat) /\ Len(idle') = (k - 1) + (n - k) /\ DOMAIN idle' = 1 .. Len(idle')
          /\ \A i \in 1 .. ((k - 1) + (n - k)) :
               idle'[i] = IF i <= k - 1 THEN before[i] ELSE after[i - (k - 1)]
      <4>1. /\ before \o after \in Seq(Nat)
            /\ Len(before \o after) = Len(before) + Len(after)
            /\ \A i \in 1 .. (Len(before) + Len(after)) :
                 (before \o after)[i] = IF i <= Len(before) THEN before[i] ELSE after[i - Len(before)]
        BY <2>1, <2>2, ConcatProperties
      <4> QED BY <2>1, <2>2, <2>3, <4>1
    <3>2. /\ (k - 1) + (n - k) = n - 1
          /\ \A i \in 1 .. (n - 1) : (i <= k - 1 <=> i < k) /\ i - (k - 1) = i - k + 1
      BY <1>2
    <3> QED BY <3>1, <3>2
  <2>5. ASSUME NEW i \in 1 .. (n - 1)
        PROVE  idle'[i] = idle[from[i]]
    <3>1. CASE i < k
      BY <1>2, <2>1, <2>4, <3>1
    <3>2. CASE ~ i < k
      <4>1. i - k + 1 \in 1 .. (n - k) /\ k + (i - k + 1) = i + 1
        BY <1>2, <3>2
      <4> QED BY <2>2, <2>4, <3>2, <4>1
    <3> QED BY <3>1, <3>2
  <2> QED BY <2>4, <2>5
<1> HIDE DEF n
<1>4. /\ \A i \in 1 .. (n - 1) : from[i] \in DOMAIN idle
      /\ \A i, j \in 1 .. (n - 1) : from[i] = from[j] => i = j
  BY <1>2
<1> HIDE DEF from
<1>5. Busy' = Busy
  BY DEF Busy
<1>6. opening' \in Nat /\ Len(idle') + opening' + Busy' <= PoolSize
  <2>1. (n - 1) \in Nat /\ (n - 1) + opening + Busy <= PoolSize
    BY <1>1, <1>2 DEF n
  <2>2. opening' = Order(n - 1, Busy)
    BY DEF n
  <2>3. Order(n - 1, Busy) \in Nat /\ (n - 1) + Order(n - 1, Busy) + Busy <= PoolSize
    BY <1>1, <2>1, OrderFits
  <2> QED BY <1>3, <1>5, <2>2, <2>3
<1>7. PoolWithinSize'
  <2>1. \A i, j \in DOMAIN idle' : idle'[i] = idle'[j] => i = j
    <3> SUFFICES ASSUME NEW i \in 1 .. (n - 1), NEW j \in 1 .. (n - 1), idle'[i] = idle'[j]
                 PROVE  i = j
      BY <1>3
    <3>1. idle[from[i]] = idle[from[j]] /\ from[i] \in DOMAIN idle /\ from[j] \in DOMAIN idle
      BY <1>3, <1>4
    <3>2. from[i] = from[j]
      BY <1>1, <3>1
    <3> QED BY <1>4, <3>2
  <2>2. ASSUME NEW v \in Users, NEW i \in DOMAIN idle'
        PROVE  idle'[i] # held'[v]
    <3>1. from[i] \in DOMAIN idle /\ idle'[i] = idle[from[i]]
      BY <1>3, <1>4
    <3> QED BY <1>1, <3>1
  <2> QED BY <1>1, <1>6, <2>1, <2>2 DEF PoolWithinSize
<1>8. \A i \in DOMAIN idle' : idle'[i] \in 1 .. PoolSize
  BY <1>1, <1>3, <1>4
<1> QED BY <1>1, <1>3, <1>6, <1>7, <1>8 DEF PoolInv

(* A get that gives up. *)
LEMMA GetTimesOutKeepsPool ==
  ASSUME PoolInv, GetTimesOut
  PROVE  PoolInv' /\ held' = held
<1>1. /\ held' = held
      /\ Reachable => idle' = idle /\ opening' = opening
      /\ ~ Reachable => idle' = <<>> /\ opening' = Order(0, Busy)
  BY DEF GetTimesOut
<1>2. /\ opening \in Nat /\ Busy \in Nat /\ PoolSize \in Nat /\ Len(idle) \in Nat
      /\ Len(idle) + opening + Busy <= PoolSize
      /\ \A v, w \in Users : held[v] = held[w] /\ held[v] # 0 => v = w
  BY BusyType, HostBootAssumption DEF PoolInv, PoolWithinSize
<1>3. Busy' = Busy
  BY <1>1 DEF Busy
<1>4. CASE Reachable
  BY <1>1, <1>3, <1>4 DEF PoolInv, PoolWithinSize
<1>5. CASE ~ Reachable
  <2>1. idle' = <<>> /\ idle' \in Seq(Nat) /\ Len(idle') = 0 /\ DOMAIN idle' = {}
    BY <1>1, <1>5
  <2>2. 0 + opening + Busy <= PoolSize /\ 0 \in Nat
    BY <1>2
  <2>3. Order(0, Busy) \in Nat /\ 0 + Order(0, Busy) + Busy <= PoolSize
    BY <1>2, <2>2, OrderFits
  <2>4. opening' \in Nat /\ Len(idle') + opening' + Busy' <= PoolSize
    BY <1>1, <1>2, <1>3, <1>5, <2>1, <2>3
  <2>5. PoolWithinSize'
    BY <1>1, <1>2, <2>1, <2>4 DEF PoolWithinSize
  <2>6. held \in [Users -> Nat] /\ \A v \in Users : held[v] <= PoolSize
    BY DEF PoolInv
  <2> QED BY <1>1, <1>2, <1>5, <2>1, <2>4, <2>5, <2>6 DEF PoolInv
<1> QED BY <1>1, <1>4, <1>5

(* The warm connections are opened. *)
LEMMA BuildKeepsPool ==
  ASSUME PoolInv, \A u \in Users : held[u] = 0, opening = 0, held' = held, opening' = opening,
         idle' = [i \in 1 .. MinIdle |-> i]
  PROVE  PoolInv'
<1>1. MinIdle \in Nat /\ MinIdle <= PoolSize
  BY HostBootAssumption DEF MinIdle
<1>2. /\ idle' \in Seq(Nat) /\ Len(idle') = MinIdle /\ DOMAIN idle' = 1 .. MinIdle
      /\ \A i \in 1 .. MinIdle : idle'[i] = i
  BY <1>1
<1>3. Busy' = 0
  <2>1. \A u \in Users : held'[u] = 0
    OBVIOUS
  <2>2. {u \in Users : held'[u] # 0} = {}
    BY <2>1
  <2> QED BY <2>2, FS_EmptySet DEF Busy
<1>4. held \in [Users -> Nat]
  BY DEF PoolInv
<1>5. Len(idle') + opening' + Busy' <= PoolSize
  BY <1>1, <1>2, <1>3, HostBootAssumption
<1>6. PoolWithinSize'
  BY <1>1, <1>2, <1>5 DEF PoolWithinSize
<1>7. /\ \A i \in DOMAIN idle' : idle'[i] \in 1 .. PoolSize
      /\ \A u \in Users : held'[u] <= PoolSize
  BY <1>1, <1>2, HostBootAssumption DEF PoolInv
<1> QED BY <1>2, <1>4, <1>6, <1>7 DEF PoolInv

(* The pool is dropped. *)
LEMMA DropKeepsPool ==
  ASSUME idle' = <<>>, opening' = 0, held' \in [Users -> Nat],
         \A u \in Users : held'[u] = 0
  PROVE  PoolInv'
<1>1. idle' \in Seq(Nat) /\ Len(idle') = 0 /\ DOMAIN idle' = {}
  OBVIOUS
<1>2. Busy' = 0
  <2>1. {u \in Users : held'[u] # 0} = {}
    OBVIOUS
  <2> QED BY <2>1, FS_EmptySet DEF Busy
<1>3. PoolWithinSize'
  BY <1>1, <1>2, HostBootAssumption DEF PoolWithinSize
<1> QED BY <1>1, <1>2, <1>3, HostBootAssumption DEF PoolInv

(* A connection is taken and given back at once. *)
LEMMA WarmupKeepsPool ==
  ASSUME PoolInv, \A u \in Users : held[u] = 0, idle # <<>>, held' = held,
         idle' = Append(Tail(idle), Head(idle)), opening' = Order(Len(idle) - 1, 1)
  PROVE  PoolInv'
<1>1. /\ opening \in Nat /\ PoolSize \in Nat
      /\ idle \in Seq(Nat) /\ \A i \in DOMAIN idle : idle[i] \in 1 .. PoolSize
      /\ held \in [Users -> Nat]
      /\ Len(idle) + opening + Busy <= PoolSize
      /\ \A i, j \in DOMAIN idle : idle[i] = idle[j] => i = j
  BY HostBootAssumption DEF PoolInv, PoolWithinSize
<1>2. Busy = 0 /\ Busy' = 0
  <2>1. Busy = 0
    BY BusyNone
  <2> QED BY <2>1 DEF Busy
<1> DEFINE n == Len(idle)
<1>3. /\ n \in Nat \ {0} /\ DOMAIN idle = 1 .. n
      /\ idle' \in Seq(Nat) /\ Len(idle') = n /\ DOMAIN idle' = 1 .. n
      /\ \A i \in 1 .. (n - 1) : idle'[i] = idle[i + 1]
      /\ idle'[n] = idle[1]
  BY <1>1
<1>4. opening' \in Nat /\ Len(idle') + opening' + Busy' <= PoolSize
  <2>1. (n - 1) \in Nat /\ 1 \in Nat /\ (n - 1) + opening + 1 <= PoolSize
    BY <1>1, <1>2, <1>3
  <2>2. opening' = Order(n - 1, 1)
    OBVIOUS
  <2> HIDE DEF n
  <2>3. Order(n - 1, 1) \in Nat /\ (n - 1) + Order(n - 1, 1) + 1 <= PoolSize
    BY <1>1, <2>1, OrderFits
  <2> QED BY <1>2, <1>3, <2>1, <2>2, <2>3
<1> DEFINE from == [i \in 1 .. n |-> IF i = n THEN 1 ELSE i + 1]
<1> HIDE DEF n
<1>5. from \in [1 .. n -> 1 .. n] /\ \A i \in 1 .. n : idle'[i] = idle[from[i]]
  <2>1. \A i \in 1 .. n : (IF i = n THEN 1 ELSE i + 1) \in 1 .. n
    BY <1>3
  <2>2. \A i \in 1 .. n : i = n \/ i \in 1 .. (n - 1)
    BY <1>3
  <2> QED BY <1>3, <2>1, <2>2
<1>6. \A i, j \in 1 .. n : from[i] = from[j] => i = j
  BY <1>3
<1> HIDE DEF from
<1>7. \A i \in DOMAIN idle' : idle'[i] \in 1 .. PoolSize
  <2> SUFFICES ASSUME NEW i \in 1 .. n PROVE idle'[i] \in 1 .. PoolSize
    BY <1>3
  <2>1. from[i] \in DOMAIN idle /\ idle'[i] = idle[from[i]]
    BY <1>3, <1>5
  <2> QED BY <1>1, <2>1
<1>8. \A i, j \in DOMAIN idle' : idle'[i] = idle'[j] => i = j
  <2> SUFFICES ASSUME NEW i \in 1 .. n, NEW j \in 1 .. n, idle'[i] = idle'[j] PROVE i = j
    BY <1>3
  <2>1. from[i] \in DOMAIN idle /\ from[j] \in DOMAIN idle /\ idle[from[i]] = idle[from[j]]
    BY <1>3, <1>5
  <2>2. from[i] = from[j]
    BY <1>1, <2>1
  <2> QED BY <1>6, <2>2
<1>9. \A u \in Users : \A i \in DOMAIN idle' : idle'[i] # held'[u]
  BY <1>1, <1>7
<1>10. PoolWithinSize'
  BY <1>4, <1>8, <1>9 DEF PoolWithinSize
<1> QED BY <1>1, <1>3, <1>4, <1>7, <1>10 DEF PoolInv

(* A step that leaves the pool alone. *)
LEMMA PoolUnchanged ==
  ASSUME PoolInv, UNCHANGED pool
  PROVE  PoolInv' /\ held' = held
<1>1. idle' = idle /\ held' = held /\ opening' = opening
  BY DEF pool
<1>2. Busy' = Busy
  BY <1>1 DEF Busy
<1> QED BY <1>1, <1>2 DEF PoolInv, PoolWithinSize

-------------------------------------------------------------------------------
(* What each step does to the rest.                                        *)

(* Host is a user of the pool, and no caller. *)
LEMMA HostIsUser == Host \in Users /\ \A t \in Callers : t \in Users \ {Host}
<1> QED BY HostBootAssumption DEF Users

(* The server comes and goes; a call begins. *)
LEMMA OutsideKeepsInv ==
  ASSUME HostInv, \/ ServerChanges /\ at' = at
                  \/ \E t \in Callers : Call(t)
                  \/ UNCHANGED allVars
  PROVE  HostInv'
<1>1. /\ UNCHANGED <<pc, stmt, label>> /\ UNCHANGED pool /\ UNCHANGED data
      /\ server' \in {"up", "down", "nameless"}
  BY DEF HostInv, HostTypeOK, ServerChanges, Call, bootVars, allVars, world
<1>2. /\ at' \in [Callers -> {"out", "get", "exec", "relate"}]
      /\ \A t \in Callers : at'[t] = at[t] \/ (pc = "serving" /\ at[t] = "out" /\ at'[t] = "get")
  <2>1. at \in [Callers -> {"out", "get", "exec", "relate"}]
    BY DEF HostInv, HostTypeOK
  <2>2. CASE at' = at
    BY <2>1, <2>2
  <2>3. CASE \E t \in Callers : Call(t)
    BY <2>1, <2>3 DEF Call, Moves
  <2> QED BY <2>2, <2>3 DEF allVars
<1>3. /\ PoolInv' /\ held' = held
      /\ opening' = opening
  BY <1>1, PoolUnchanged DEF HostInv, pool
<1>4. HostTypeOK'
  BY <1>1, <1>2 DEF HostInv, HostTypeOK, data
<1>5. Holders'
  BY <1>1, <1>2, <1>3 DEF HostInv, Holders
<1>7. Progress'
  BY <1>1, <1>3 DEF HostInv, Progress, ServerHasSchema, SchemaInOneStore, data, Others
<1> QED BY <1>3, <1>4, <1>5, <1>7 DEF HostInv

(* A connection expires, on mem:// with what is in its data store. *)
LEMMA ReapKeepsInv ==
  ASSUME HostInv, Reap, at' = at
  PROVE  HostInv'
<1>1. /\ UNCHANGED <<server, pc, stmt, label, held, rejected>>
      /\ pc \notin {"build", "failed"}
      /\ \E i \in DOMAIN idle :
           /\ idle' = RemoveAt(idle, i) /\ opening' = Order(Len(idle) - 1, Busy)
           /\ IF label = "mem"
              THEN /\ schema' = [schema EXCEPT ![idle[i]] = {}] /\ seeded' = seeded \ {idle[i]}
                   /\ expired' = (expired \/ schema[idle[i]] # {})
              ELSE UNCHANGED <<schema, seeded, expired>>
  BY DEF Reap, world
<1>2. PICK k \in DOMAIN idle :
        /\ idle' = RemoveAt(idle, k) /\ opening' = Order(Len(idle) - 1, Busy)
        /\ IF label = "mem"
           THEN /\ schema' = [schema EXCEPT ![idle[k]] = {}] /\ seeded' = seeded \ {idle[k]}
                /\ expired' = (expired \/ schema[idle[k]] # {})
           ELSE UNCHANGED <<schema, seeded, expired>>
  BY <1>1
<1>3. PoolInv'
  BY <1>1, <1>2, ReapKeepsPool DEF HostInv
<1> DEFINE gone == idle[k]
<1>4. gone \in Stores \ {Server} /\ \A u \in Users : held[u] # gone
  BY HostBootAssumption DEF HostInv, PoolInv, PoolWithinSize, Stores, Server, Connections, MaxSize
<1> HIDE DEF gone
<1>5. /\ schema \in [Stores -> SUBSET (1 .. Statements)] /\ seeded \subseteq Stores
      /\ expired \in BOOLEAN
  BY DEF HostInv, HostTypeOK
<1>6. /\ schema' \in [Stores -> SUBSET (1 .. Statements)] /\ seeded' \subseteq seeded
      /\ expired' \in BOOLEAN
      /\ \A s \in Stores : schema'[s] = schema[s] \/ (s = gone /\ schema'[s] = {} /\ label = "mem")
      /\ expired' = expired \/ (expired' = TRUE /\ label = "mem")
      /\ schema[gone] # {} => expired' \/ schema' = schema
      /\ schema'[Server] = schema[Server]
  <2>1. CASE label = "mem"
    <3>1. /\ schema' = [schema EXCEPT ![gone] = {}] /\ seeded' = seeded \ {gone}
          /\ expired' = (expired \/ schema[gone] # {})
      BY <1>2, <2>1 DEF gone
    <3> QED BY <1>4, <1>5, <2>1, <3>1 DEF Stores
  <2>2. CASE label # "mem"
    BY <1>2, <1>5, <2>2
  <2> QED BY <2>1, <2>2
<1>7. HostTypeOK'
  BY <1>1, <1>6 DEF HostInv, HostTypeOK
<1>8. Holders'
  BY <1>1 DEF HostInv, Holders
<1>9. ServerHasSchema'
  BY <1>1, <1>6 DEF HostInv, Progress, ServerHasSchema
<1>10. SchemaInOneStore'
  <2> SUFFICES ASSUME label = "mem", pc \in {"events", "seed", "serving"}
               PROVE  /\ \A s, t \in Stores \ {Server} : schema'[s] # {} /\ schema'[t] # {} => s = t
                      /\ \A s \in Stores \ {Server} : schema'[s] \in {{}, 1 .. Statements}
                      /\ expired' \/ \E s \in Stores \ {Server} : schema'[s] # {}
    BY <1>1 DEF SchemaInOneStore
  <2>1. /\ \A s, t \in Stores \ {Server} : schema[s] # {} /\ schema[t] # {} => s = t
        /\ \A s \in Stores \ {Server} : schema[s] \in {{}, 1 .. Statements}
        /\ expired \/ \E s \in Stores \ {Server} : schema[s] # {}
    BY DEF HostInv, Progress, SchemaInOneStore
  <2>2. \A s \in Stores : schema'[s] \in {schema[s], {}}
    BY <1>6
  <2>3. expired' \/ \E s \in Stores \ {Server} : schema'[s] # {}
    <3>1. CASE expired
      BY <1>6, <3>1
    <3>2. ASSUME NEW s \in Stores \ {Server}, schema[s] # {}
          PROVE  expired' \/ schema'[s] # {}
      BY <1>6, <3>2
    <3> QED BY <2>1, <3>1, <3>2
  <2> QED BY <2>1, <2>2, <2>3
<1>11. label = "ws" => schema' = schema
  BY <1>2
<1>12. label = "ws" \/ pc \in {"build", "warmup", "bootstrap"} =>
         \A s \in Stores \ {Server} : schema'[s] = {}
  BY <1>6 DEF HostInv, Progress
<1>13. label = "mem" /\ pc = "schema" =>
         /\ schema'[held[Host]] = 1 .. (stmt - 1)
         /\ \A s \in Others(held[Host]) : schema'[s] = {}
  <2>1. pc = "schema" => held[Host] \in Stores
    BY HostIsUser, HostBootAssumption DEF HostInv, Holders, PoolInv, Stores, Connections, MaxSize
  <2> QED BY <1>4, <1>6, <2>1, HostIsUser DEF HostInv, Progress, Others
<1>14. Progress'
  BY <1>1, <1>6, <1>9, <1>10, <1>11, <1>12, <1>13 DEF HostInv, Progress, Others
<1> QED BY <1>3, <1>7, <1>8, <1>14 DEF HostInv

(* A connection is opened. *)
LEMMA OpenKeepsInv ==
  ASSUME HostInv, NEW waiting, Open(waiting), at' = at, pc # "build" \/ ~ waiting
  PROVE  HostInv'
<1>1. /\ UNCHANGED <<server, pc, stmt, label>> /\ UNCHANGED data
  BY DEF Open, world
<1>2. PoolInv' /\ held' = held
  BY OpenKeepsPool DEF HostInv
<1>3. HostTypeOK'
  BY <1>1 DEF HostInv, HostTypeOK, data
<1>4. pc = "build" => opening' = 0
  BY DEF HostInv, Holders, Open
<1>5. Holders'
  BY <1>1, <1>2, <1>4 DEF HostInv, Holders
<1>7. Progress'
  BY <1>1, <1>2 DEF HostInv, Progress, ServerHasSchema, SchemaInOneStore, data, Others
<1> QED BY <1>2, <1>3, <1>5, <1>7 DEF HostInv

(* Nobody holds a connection before the bootstrap. *)
LEMMA NobodyHolds ==
  ASSUME HostInv, pc \in {"build", "warmup", "bootstrap", "events", "failed"}
  PROVE  \A u \in Users : held[u] = 0
<1>1. held[Host] = 0 /\ \A t \in Callers : held[t] = 0
  BY DEF HostInv, Holders, HostTypeOK
<1> QED BY <1>1 DEF Users

(* The pool is built, and its first connection tried.                      *)
LEMMA BuildKeepsInv ==
  ASSUME HostInv, Build \/ Warmup, at' = at
  PROVE  HostInv'
<1>1. /\ \/ pc = "build" /\ pc' = "warmup"
         \/ pc = "warmup" /\ pc' = "bootstrap"
      /\ UNCHANGED <<server, stmt, label, held>> /\ UNCHANGED data
  BY DEF Build, Warmup, Goes, world
<1>2. \A u \in Users : held[u] = 0
  BY <1>1, NobodyHolds
<1>3. PoolInv'
  <2>1. CASE Build
    BY <1>1, <1>2, <2>1, BuildKeepsPool DEF Build, HostInv, Holders, Goes
  <2>2. CASE Warmup
    BY <1>1, <1>2, <2>2, WarmupKeepsPool DEF Warmup, HostInv
  <2> QED BY <2>1, <2>2
<1>4. HostTypeOK'
  BY <1>1 DEF HostInv, HostTypeOK, data
<1>5. Holders'
  BY <1>1, <1>2 DEF HostInv, Holders, Users
<1>7. Progress'
  BY <1>1 DEF HostInv, Progress, ServerHasSchema, SchemaInOneStore, data, Others
<1> QED BY <1>3, <1>4, <1>5, <1>7 DEF HostInv

(* The pool is dropped, and perhaps built on mem://.                       *)
LEMMA FailsKeepsInv ==
  ASSUME HostInv, BuildFails \/ WarmupFails, at' = at
  PROVE  HostInv'
<1>1. /\ pc \in {"build", "warmup"} /\ server' = server
      /\ \/ pc' = "build" /\ label' = "mem"
         \/ pc' = "failed" /\ label' = label
      /\ idle' = <<>> /\ opening' = 0 /\ held' = held
      /\ stmt' = stmt /\ UNCHANGED data
  BY DEF BuildFails, WarmupFails, Fails, world
<1>2. \A u \in Users : held[u] = 0
  BY <1>1, NobodyHolds
<1>3. PoolInv'
  BY <1>1, <1>2, DropKeepsPool DEF HostInv, PoolInv
<1>4. HostTypeOK'
  BY <1>1 DEF HostInv, HostTypeOK, data
<1>5. Holders'
  BY <1>1, <1>2 DEF HostInv, Holders, Users
<1>7. Progress'
  BY <1>1 DEF HostInv, HostTypeOK, Progress, ServerHasSchema, SchemaInOneStore, data, Others
<1> QED BY <1>3, <1>4, <1>5, <1>7 DEF HostInv

(* The bootstrap, and the event loop, take a connection. *)
LEMMA HostTakesKeepsInv ==
  ASSUME HostInv, Bootstrap \/ EventLoop, at' = at
  PROVE  HostInv'
<1>1. /\ \/ pc = "bootstrap" /\ pc' = "schema"
         \/ pc = "events" /\ pc' = "seed"
      /\ UNCHANGED <<server, stmt, label>> /\ UNCHANGED data /\ Take(Host)
  BY DEF Bootstrap, EventLoop, Goes, world
<1>2. Host \in Users /\ \A t \in Callers : t \in Users \ {Host}
  BY HostBootAssumption DEF Users
<1>3. /\ PoolInv'
      /\ held'[Host] # 0 /\ \A v \in Users \ {Host} : held'[v] = held[v]
  BY <1>1, <1>2, TakeKeepsPool DEF HostInv
<1>4. HostTypeOK'
  BY <1>1 DEF HostInv, HostTypeOK, data
<1>5. Holders'
  <2>1. \A t \in Callers : held'[t] = held[t]
    BY <1>2, <1>3
  <2>2. Statements \in Nat \ {0}
    BY HostBootAssumption
  <2> QED BY <1>1, <1>3, <2>1, <2>2 DEF HostInv, Holders
<1>7. Progress'
  <2>1. ServerHasSchema'
    BY <1>1 DEF HostInv, Progress, ServerHasSchema, data
  <2>2. SchemaInOneStore'
    BY <1>1 DEF HostInv, Progress, SchemaInOneStore, data
  <2>3. pc' = "schema" => 1 .. (stmt' - 1) = {}
    BY <1>1 DEF HostInv, Holders
  <2>4. label = "ws" \/ pc = "bootstrap" => \A s \in Stores \ {Server} : schema[s] = {}
    BY DEF HostInv, Progress
  <2>5. held'[Host] \in Stores \ {Server}
    BY <1>2, <1>3, HostBootAssumption DEF PoolInv, Stores, Server, Connections, MaxSize
  <2> QED BY <1>1, <2>1, <2>2, <2>3, <2>4, <2>5 DEF Progress, data, Others
<1> QED BY <1>3, <1>4, <1>5, <1>7 DEF HostInv

(* A get of run_host gives up. *)
LEMMA HostTimesOutKeepsInv ==
  ASSUME HostInv, BootstrapFails \/ EventLoopFails, at' = at
  PROVE  HostInv'
<1>1. /\ \/ pc = "bootstrap" /\ pc' = "failed"
         \/ pc = "events" /\ pc' = "serving"
      /\ UNCHANGED <<server, stmt, label>> /\ UNCHANGED data /\ GetTimesOut
  BY DEF BootstrapFails, EventLoopFails, Goes, world
<1>2. PoolInv' /\ held' = held
  BY <1>1, GetTimesOutKeepsPool DEF HostInv
<1>4. HostTypeOK'
  BY <1>1 DEF HostInv, HostTypeOK, data
<1>5. Holders'
  BY <1>1, <1>2 DEF HostInv, Holders
<1>7. Progress'
  BY <1>1, <1>2 DEF HostInv, Progress, ServerHasSchema, SchemaInOneStore, data, Others
<1> QED BY <1>2, <1>4, <1>5, <1>7 DEF HostInv

(* What the next statement, or the last, does to the pool and to pc. *)
LEMMA NextStatementEffect ==
  ASSUME HostInv, pc = "schema", NextStatement
  PROVE  /\ PoolInv'
         /\ \A t \in Callers : held'[t] = held[t]
         /\ stmt \in 1 .. Statements /\ Statements \in Nat /\ stmt' = stmt + 1
         /\ \/ stmt = Statements /\ pc' = "events" /\ held'[Host] = 0
            \/ stmt < Statements /\ pc' = "schema" /\ held' = held
<1>1. held[Host] # 0 /\ stmt \in 1 .. Statements /\ Statements \in Nat
  BY HostBootAssumption DEF HostInv, Holders
<1>2. CASE stmt = Statements
  <2>1. GiveBack(Host) /\ pc' = "events" /\ stmt' = stmt + 1
    BY <1>2 DEF NextStatement
  <2>2. /\ PoolInv' /\ held'[Host] = 0 /\ \A v \in Users \ {Host} : held'[v] = held[v]
      BY <1>1, <2>1, HostIsUser, GiveBackKeepsPool DEF HostInv
  <2> QED BY <1>1, <1>2, <2>1, <2>2, HostIsUser
<1>3. CASE stmt # Statements
  <2>1. UNCHANGED pool /\ pc' = pc /\ stmt' = stmt + 1
    BY <1>3 DEF NextStatement, KeepConnection
  <2>2. PoolInv' /\ held' = held
    BY <2>1, PoolUnchanged DEF HostInv
  <2> QED BY <1>1, <1>3, <2>1, <2>2
<1> QED BY <1>2, <1>3

(* A statement is executed, or rejected. *)
LEMMA StatementKeepsInv ==
  ASSUME HostInv, Statement, at' = at
  PROVE  HostInv'
<1>1. /\ pc = "schema" /\ NextStatement
      /\ UNCHANGED <<server, label, seeded, expired>>
      /\ \/ /\ schema' = [schema EXCEPT ![Store(Host)] = @ \cup {stmt}]
            /\ rejected' = IF label = "ws" THEN rejected \ {stmt} ELSE rejected
         \/ /\ label = "ws"
            /\ rejected' = rejected \cup {stmt}
            /\ schema' = schema
  BY DEF Statement, world
<1>2. /\ PoolInv'
      /\ \A t \in Callers : held'[t] = held[t]
      /\ stmt \in 1 .. Statements /\ Statements \in Nat /\ stmt' = stmt + 1
      /\ \/ stmt = Statements /\ pc' = "events" /\ held'[Host] = 0
         \/ stmt < Statements /\ pc' = "schema" /\ held' = held
  BY <1>1, NextStatementEffect
<1>3. /\ label \in {"ws", "mem"} /\ schema \in [Stores -> SUBSET (1 .. Statements)]
      /\ rejected \subseteq 1 .. Statements
      /\ held[Host] # 0
  BY <1>1 DEF HostInv, HostTypeOK, Holders
<1>4. held[Host] \in Stores \ {Server}
  BY <1>3, HostIsUser, HostBootAssumption DEF HostInv, PoolInv, Stores, Server, Connections, MaxSize
<1> DEFINE s == Store(Host)
<1>5. s \in Stores /\ (label = "ws" => s = Server) /\ (label = "mem" => s = held[Host] /\ s # Server)
  BY <1>3, <1>4 DEF Store, Stores
<1> HIDE DEF s
<1>6. /\ schema' \in [Stores -> SUBSET (1 .. Statements)] /\ rejected' \subseteq 1 .. Statements
      /\ \A r \in Stores \ {s} : schema'[r] = schema[r]
      /\ \/ schema'[s] = schema[s] \cup {stmt}
         \/ label = "ws" /\ schema'[s] = schema[s] /\ stmt \in rejected'
      /\ label = "ws" => schema[s] \cup rejected \cup {stmt} \subseteq schema'[s] \cup rejected'
      /\ label = "mem" => rejected' = rejected
  <2>1. CASE /\ schema' = [schema EXCEPT ![s] = @ \cup {stmt}]
             /\ rejected' = IF label = "ws" THEN rejected \ {stmt} ELSE rejected
    <3>1. /\ schema' \in [Stores -> SUBSET (1 .. Statements)]
          /\ \A r \in Stores \ {s} : schema'[r] = schema[r]
          /\ schema'[s] = schema[s] \cup {stmt}
      BY <1>2, <1>3, <1>5, <2>1
    <3>2. rejected' = rejected \/ (label = "ws" /\ rejected' = rejected \ {stmt})
      BY <1>3, <2>1
    <3> QED BY <1>3, <3>1, <3>2
  <2>2. CASE /\ label = "ws" /\ rejected' = rejected \cup {stmt} /\ schema' = schema
    BY <1>2, <1>3, <2>2
  <2> QED BY <1>1, <2>1, <2>2 DEF s
<1>7. HostTypeOK'
  <2>1. /\ stmt' \in 1 .. (Statements + 1) /\ pc' \in {"schema", "events"}
    BY <1>2
  <2> QED BY <1>1, <1>6, <2>1 DEF HostInv, HostTypeOK
<1>8. Holders'
  <2>1. pc' = "schema" => stmt' \in 1 .. Statements
    BY <1>2
  <2> QED BY <1>1, <1>2, <1>3, <2>1 DEF HostInv, Holders
<1>10. schema[Server] \cup rejected \subseteq schema'[Server] \cup rejected'
  BY <1>3, <1>5, <1>6 DEF Stores
<1>11. label = "ws" => 1 .. (stmt' - 1) \subseteq schema'[Server] \cup rejected'
  <2>1. label = "ws" => 1 .. (stmt - 1) \subseteq schema[Server] \cup rejected
    BY <1>1 DEF HostInv, Progress
  <2>2. 1 .. (stmt' - 1) = 1 .. (stmt - 1) \cup {stmt}
    BY <1>2
  <2> QED BY <1>5, <1>6, <2>1, <2>2
<1>12. label = "mem" => /\ schema'[held[Host]] = 1 .. (stmt' - 1)
                        /\ \A r \in Others(held[Host]) : schema'[r] = {}
  <2>1. label = "mem" => /\ schema[held[Host]] = 1 .. (stmt - 1)
                         /\ \A r \in Others(held[Host]) : schema[r] = {}
    BY <1>1 DEF HostInv, Progress
  <2>2. 1 .. (stmt' - 1) = 1 .. (stmt - 1) \cup {stmt}
    BY <1>2
  <2> QED BY <1>5, <1>6, <2>1, <2>2 DEF Others
<1>13. ServerHasSchema'
  <2>1. Server \in seeded => 1 .. Statements \subseteq schema[Server] \cup rejected
    BY DEF HostInv, Progress, ServerHasSchema
  <2>2. pc' # "schema" => stmt' - 1 = Statements
    BY <1>2
  <2> QED BY <1>1, <1>2, <1>10, <1>11, <2>1, <2>2 DEF ServerHasSchema
<1>14. SchemaInOneStore'
  <2> SUFFICES ASSUME label' = "mem", pc' \in {"events", "seed", "serving"}
               PROVE  /\ \A r, q \in Stores \ {Server} : schema'[r] # {} /\ schema'[q] # {} => r = q
                      /\ \A r \in Stores \ {Server} : schema'[r] \in {{}, 1 .. Statements}
                      /\ \E r \in Stores \ {Server} : schema'[r] # {}
    BY DEF SchemaInOneStore
  <2>1. label = "mem" /\ stmt' - 1 = Statements /\ 1 .. Statements # {}
    BY <1>1, <1>2
  <2> QED BY <1>4, <1>12, <2>1 DEF Others
<1>15. label = "ws" => \A r \in Stores \ {Server} : schema'[r] = {}
  <2>1. label = "ws" => \A r \in Stores \ {Server} : schema[r] = {}
    BY DEF HostInv, Progress
  <2> QED BY <1>5, <1>6, <2>1
<1>16. Progress'
  BY <1>1, <1>2, <1>11, <1>12, <1>13, <1>14, <1>15 DEF Progress, Others
<1> QED BY <1>2, <1>7, <1>8, <1>16 DEF HostInv

(* The connection of run_host goes back: the bootstrap ended with an       *)
(* error, or the demo data were written.                                   *)
LEMMA HostGivesBackKeepsInv ==
  ASSUME HostInv, StatementFails \/ Seed, at' = at
  PROVE  HostInv'
<1>1. /\ \/ pc = "schema" /\ pc' = "failed" /\ label # "mem" /\ seeded' = seeded
         \/ pc = "seed" /\ pc' = "serving" /\ seeded' \in {seeded, seeded \cup {Store(Host)}}
      /\ UNCHANGED <<server, stmt, label, schema, rejected, expired>> /\ GiveBack(Host)
  BY DEF StatementFails, QueryError, Seed, Goes, Reachable, world, data
<1>2. held[Host] # 0
  BY <1>1 DEF HostInv, Holders
<1>3. /\ PoolInv' /\ held'[Host] = 0 /\ \A v \in Users \ {Host} : held'[v] = held[v]
  BY <1>1, <1>2, HostIsUser, GiveBackKeepsPool DEF HostInv
<1>4. Store(Host) \in Stores /\ (Store(Host) = Server => label = "ws")
  <2>1. held[Host] \in Stores \ {Server}
    BY <1>2, HostIsUser, HostBootAssumption DEF HostInv, PoolInv, Stores, Server, Connections, MaxSize
  <2> QED BY <2>1 DEF Store, Stores, HostInv, HostTypeOK
<1>5. HostTypeOK'
  BY <1>1, <1>4 DEF HostInv, HostTypeOK
<1>6. Holders'
  BY <1>1, <1>3, HostIsUser DEF HostInv, Holders
<1>8. ServerHasSchema'
  BY <1>1, <1>4 DEF HostInv, Progress, ServerHasSchema
<1>9. SchemaInOneStore'
  BY <1>1 DEF HostInv, Progress, SchemaInOneStore
<1>10. Progress'
  BY <1>1, <1>8, <1>9 DEF HostInv, Progress
<1> QED BY <1>3, <1>5, <1>6, <1>10 DEF HostInv

(* A caller gets a connection, gives up, or returns. *)
LEMMA CallerKeepsInv ==
  ASSUME HostInv, NEW t \in Callers,
         Get(t) \/ GetFails(t) \/ Answered(t) \/ QueryFails(t) \/ DecodeFails(t)
  PROVE  HostInv'
<1>1. /\ UNCHANGED <<server, pc, stmt, label>> /\ UNCHANGED data
      /\ \/ Take(t) /\ at[t] = "get" /\ \E op \in {"exec", "relate"} : at' = [at EXCEPT ![t] = op]
         \/ GetTimesOut /\ at[t] = "get" /\ at' = [at EXCEPT ![t] = "out"]
         \/ GiveBack(t) /\ at[t] \in {"exec", "relate"} /\ at' = [at EXCEPT ![t] = "out"]
  BY DEF Get, GetFails, Answered, QueryFails, DecodeFails, Ends, Moves, world
<1>2. at \in [Callers -> {"out", "get", "exec", "relate"}] /\ pc = "serving"
  BY <1>1 DEF HostInv, HostTypeOK, Holders
<1>3. /\ at' \in [Callers -> {"out", "get", "exec", "relate"}]
      /\ \A u \in Callers \ {t} : at'[u] = at[u]
  BY <1>1, <1>2
<1>4. /\ PoolInv'
      /\ held'[Host] = held[Host]
      /\ \A u \in Callers : held'[u] # 0 <=> at'[u] \in {"exec", "relate"}
  <2>1. /\ PoolInv /\ t \in Users /\ Host \in Users \ {t} /\ \A u \in Callers \ {t} : u \in Users \ {t}
        /\ \A u \in Callers : held[u] # 0 <=> at[u] \in {"exec", "relate"}
    BY HostIsUser DEF HostInv, Holders
  <2>2. CASE Take(t) /\ \E op \in {"exec", "relate"} : at' = [at EXCEPT ![t] = op]
    <3>1. /\ PoolInv' /\ held'[t] # 0 /\ \A v \in Users \ {t} : held'[v] = held[v]
       BY <2>1, <2>2, TakeKeepsPool
    <3>2. at'[t] \in {"exec", "relate"}
      BY <1>2, <2>2
    <3> QED BY <1>3, <2>1, <3>1, <3>2
  <2>3. CASE GiveBack(t) /\ at[t] \in {"exec", "relate"} /\ at' = [at EXCEPT ![t] = "out"]
    <3>1. /\ PoolInv' /\ held'[t] = 0 /\ \A v \in Users \ {t} : held'[v] = held[v]
       BY <2>1, <2>3, GiveBackKeepsPool
    <3>2. at'[t] = "out"
      BY <1>2, <2>3
    <3> QED BY <1>3, <2>1, <3>1, <3>2
  <2>4. CASE GetTimesOut /\ at[t] = "get" /\ at' = [at EXCEPT ![t] = "out"]
    <3>1. PoolInv' /\ held' = held
      BY <2>1, <2>4, GetTimesOutKeepsPool
    <3>2. at'[t] = "out"
      BY <1>2, <2>4
    <3> QED BY <1>3, <2>1, <2>4, <3>1, <3>2
  <2> QED BY <1>1, <2>2, <2>3, <2>4
<1>5. HostTypeOK'
  BY <1>1, <1>3 DEF HostInv, HostTypeOK, data
<1>6. Holders'
  BY <1>1, <1>2, <1>4 DEF HostInv, Holders
<1>8. Progress'
  BY <1>1, <1>2, <1>4 DEF HostInv, Progress, ServerHasSchema, SchemaInOneStore, data, Others
<1> QED BY <1>4, <1>5, <1>6, <1>8 DEF HostInv

(* The host is started again. *)
LEMMA RestartKeepsInv ==
  ASSUME HostInv, Restart, at' = [t \in Callers |-> "out"]
  PROVE  HostInv'
<1>1. /\ pc' = "build" /\ stmt' = 1 /\ label' = "ws"
      /\ idle' = <<>> /\ held' = [u \in Users |-> 0] /\ opening' = 0
      /\ schema' = [s \in Stores |-> IF s = Server THEN schema[s] ELSE {}]
      /\ seeded' = seeded \cap {Server} /\ server' = server /\ rejected' = rejected
      /\ expired' = FALSE
  BY DEF Restart
<1>2. held' \in [Users -> Nat] /\ \A u \in Users : held'[u] = 0
  BY <1>1
<1>3. PoolInv'
  BY <1>1, <1>2, DropKeepsPool
<1>4. Server \in Stores
  BY DEF Stores
<1>5. HostTypeOK'
  <2>1. expired' \in BOOLEAN
    BY <1>1, Zenon
  <2>2. stmt' \in 1 .. (Statements + 1)
    BY <1>1, HostBootAssumption
  <2>3. schema' \in [Stores -> SUBSET (1 .. Statements)]
    BY <1>1 DEF HostInv, HostTypeOK
  <2> QED BY <1>1, <2>1, <2>2, <2>3 DEF HostInv, HostTypeOK
<1>6. Holders'
  BY <1>1, <1>2, HostIsUser DEF Holders
<1>8. ServerHasSchema'
  BY <1>1, <1>4 DEF HostInv, Progress, ServerHasSchema
<1>9. Progress'
  BY <1>1, <1>8 DEF Progress, SchemaInOneStore
<1> QED BY <1>3, <1>5, <1>6, <1>9 DEF HostInv

-------------------------------------------------------------------------------
(* The first start of the host finds a server without data. *)
LEMMA InitEstablishesHostInv == TenantInit => HostInv
<1> SUFFICES ASSUME TenantInit PROVE HostInv
  OBVIOUS
<1>1. /\ server \in {"up", "down", "nameless"} /\ pc = "build" /\ stmt = 1 /\ label = "ws"
      /\ idle = <<>> /\ held = [u \in Users |-> 0] /\ opening = 0
      /\ schema = [s \in Stores |-> {}] /\ seeded = {} /\ rejected = {} /\ expired = FALSE
      /\ at = [t \in Callers |-> "out"]
  BY DEF TenantInit, BootInit
<1>2. held \in [Users -> Nat] /\ \A u \in Users : held[u] = 0
  BY <1>1
<1>3. Busy = 0
  BY <1>2, BusyNone
<1>4. idle \in Seq(Nat) /\ Len(idle) = 0 /\ DOMAIN idle = {}
  BY <1>1
<1>5. PoolInv
  BY <1>1, <1>2, <1>3, <1>4, HostBootAssumption DEF PoolInv, PoolWithinSize
<1>6. HostTypeOK
  <2>1. expired \in BOOLEAN
    BY <1>1, Zenon
  <2>2. stmt \in 1 .. (Statements + 1)
    BY <1>1, HostBootAssumption
  <2> QED BY <1>1, <2>1, <2>2 DEF HostTypeOK
<1>7. Holders
  BY <1>1, <1>2, HostIsUser DEF Holders
<1>8. Progress
  BY <1>1 DEF Progress, ServerHasSchema, SchemaInOneStore
<1> QED BY <1>5, <1>6, <1>7, <1>8 DEF HostInv

(* Every step keeps the invariant. *)
LEMMA TenantNextKeepsHostInv == HostInv /\ [TenantNext]_allVars => HostInv'
<1> SUFFICES ASSUME HostInv, [TenantNext]_allVars PROVE HostInv'
  OBVIOUS
<1>1. CASE BootNext /\ at' = at
  <2>1. CASE Build \/ Warmup
    BY <1>1, <2>1, BuildKeepsInv
  <2>2. CASE BuildFails \/ WarmupFails
    BY <1>1, <2>2, FailsKeepsInv
  <2>3. CASE Bootstrap \/ EventLoop
    BY <1>1, <2>3, HostTakesKeepsInv
  <2>4. CASE BootstrapFails \/ EventLoopFails
    BY <1>1, <2>4, HostTimesOutKeepsInv
  <2>5. CASE Statement
    BY <1>1, <2>5, StatementKeepsInv
  <2>6. CASE StatementFails \/ Seed
    BY <1>1, <2>6, HostGivesBackKeepsInv
  <2>7. CASE Open(pc \in {"warmup", "bootstrap", "events"})
    BY <1>1, <2>7, OpenKeepsInv
  <2>8. CASE ServerChanges
    BY <1>1, <2>8, OutsideKeepsInv
  <2>9. CASE Reap
    BY <1>1, <2>9, ReapKeepsInv
  <2> QED BY <1>1, <2>1, <2>2, <2>3, <2>4, <2>5, <2>6, <2>7, <2>8, <2>9 DEF BootNext
<1>2. CASE \E t \in Callers :
         Call(t) \/ Get(t) \/ GetFails(t) \/ Answered(t) \/ QueryFails(t) \/ DecodeFails(t)
  BY <1>2, OutsideKeepsInv, CallerKeepsInv
<1>3. CASE Open(\E t \in Callers : at[t] = "get") /\ at' = at
  <2>1. pc # "build" \/ ~ \E t \in Callers : at[t] = "get"
    BY DEF HostInv, Holders
  <2> QED BY <1>3, <2>1, OpenKeepsInv
<1>4. CASE Restart /\ at' = [t \in Callers |-> "out"]
  BY <1>4, RestartKeepsInv
<1>5. CASE UNCHANGED allVars
  BY <1>5, OutsideKeepsInv
<1> QED BY <1>1, <1>2, <1>3, <1>4, <1>5 DEF TenantNext

(* HostInv is an invariant of the host and its callers. *)
THEOREM HostInvariant == TenantSpec => []HostInv
<1> QED BY InitEstablishesHostInv, TenantNextKeepsHostInv, PTL DEF TenantSpec

(* The pool of connections keeps to --pool-size and shares none, for every *)
(* size, any number of callers and any number of failures and restarts.    *)
THEOREM HostPoolWithinSize == TenantSpec => []PoolWithinSize
<1>1. HostInv => PoolWithinSize
  BY DEF HostInv, PoolInv
<1> QED BY <1>1, HostInvariant, PTL

(* Past the bootstrap, or with demo data, the server has every statement   *)
(* it did not reject.                                                      *)
THEOREM HostServerHasSchema == TenantSpec => []ServerHasSchema
<1>1. HostInv => ServerHasSchema
  BY DEF HostInv, Progress
<1> QED BY <1>1, HostInvariant, PTL

(* On mem:// the bootstrap leaves the whole schema in one data store, which *)
(* is lost at most with its connection.                                    *)
THEOREM HostSchemaInOneStore == TenantSpec => []SchemaInOneStore
<1>1. HostInv => SchemaInOneStore
  BY DEF HostInv, Progress
<1> QED BY <1>1, HostInvariant, PTL
===============================================================================
