--------------------------- MODULE DashboardProofs ----------------------------
(***************************************************************************)
(* Proofs about the web dashboard, for any number of requests at once, any *)
(* series and any number of ingests, and about the histogram of the        *)
(* loader, for any CPUs, latencies and targets.                            *)
(*                                                                         *)
(* Reports are numbered as they are ingested, so the state never goes      *)
(* back; what a request has read lies between its arrival and the state.   *)
(* A load report ingested after a request has read the histograms has a    *)
(* number above all of them, so only the earlier ones have to be in the    *)
(* load summary, and that is read later.                                   *)
(*                                                                         *)
(* The slots of the kernel add up to the samples counted so far, so a slot *)
(* that is read lies between what was counted when the reading began and   *)
(* what is counted now.  When the two are the same, the slots up to s hold *)
(* the samples below 2^(s+1), and the first with a share of all samples is *)
(* the slot of the first sample with this share.                           *)
(*                                                                         *)
(* The terminal dashboard has collected what came after the last closing   *)
(* brace, as long as every part began with an opening one; once one did    *)
(* not, what it has collected begins with that part for good.              *)
(***************************************************************************)
EXTENDS WebDashboard, LatencyHistogram, TerminalDashboard, CountingLemmas

Reading(r) == request[r].at = "reading"

NumbersInOrder ==
  /\ \A i \in DOMAIN histograms : histograms[i].number <= ingests
  /\ \A l \in loads : l <= load_client
  /\ load_client <= ingests

FreshSoFar ==
  \A r \in Requests :
    Reading(r) =>
      LET then == request[r].arrival
          now == request[r].payload
      IN /\ then.load_client <= load_client /\ then.load_client <= now.load_client
         /\ NoOlder(then.histograms, histograms) /\ NoOlder(then.histograms, now.histograms)

NotBehindSoFar ==
  \A r \in Requests :
    Reading(r) =>
      LET p == request[r].payload
      IN  \A i \in DOMAIN p.histograms :
            /\ p.histograms[i].number <= ingests
            /\ request[r].done >= 2 =>
                 \A l \in loads : l < p.histograms[i].number => l <= p.load_client

IInv == TypeOK /\ NumbersInOrder /\ FreshSoFar /\ NotBehindSoFar

-------------------------------------------------------------------------------
(* Every report of a list has a number. *)
LEMMA ReportsAreNumbered ==
  ASSUME NEW list \in Seq(Reports)
  PROVE  \A i \in DOMAIN list : list[i] \in Reports /\ list[i].number \in Nat
<1>1. \A i \in DOMAIN list : list[i] \in Reports
  OBVIOUS
<1> QED BY <1>1 DEF Reports

(* A list has no older reports than itself. *)
LEMMA NoOlderThanItself ==
  ASSUME NEW list \in Seq(Reports)
  PROVE  NoOlder(list, list)
<1>1. \A i \in DOMAIN list : list[i].number \in Nat
  BY ReportsAreNumbered
<1> QED BY <1>1 DEF NoOlder

(* What has no older reports than what has none either. *)
LEMMA NoOlderTransitive ==
  ASSUME NEW a \in Seq(Reports), NEW b \in Seq(Reports), NEW c \in Seq(Reports),
         NoOlder(a, b), NoOlder(b, c)
  PROVE  NoOlder(a, c)
<1> SUFFICES ASSUME NEW i \in DOMAIN a
             PROVE  \E k \in DOMAIN c : c[k].series = a[i].series /\ c[k].number >= a[i].number
  BY DEF NoOlder
<1>1. PICK j \in DOMAIN b : b[j].series = a[i].series /\ b[j].number >= a[i].number
  BY DEF NoOlder
<1>2. PICK k \in DOMAIN c : c[k].series = b[j].series /\ c[k].number >= b[j].number
  BY DEF NoOlder
<1>3. a[i].number \in Nat /\ b[j].number \in Nat /\ c[k].number \in Nat
  BY ReportsAreNumbered
<1>4. c[k].number >= a[i].number
  BY <1>1, <1>2, <1>3
<1> QED BY <1>1, <1>2, <1>4

(* ingest_histogram replaces the report of a series, or appends: a report  *)
(* with the highest number makes the list newer, and none other is lost.   *)
LEMMA UpsertIsNewer ==
  ASSUME NEW list \in Seq(Reports), NEW entry \in Reports,
         \A i \in DOMAIN list : list[i].number <= entry.number
  PROVE  /\ Upsert(list, entry) \in Seq(Reports)
         /\ NoOlder(list, Upsert(list, entry))
         /\ \A k \in DOMAIN Upsert(list, entry) : Upsert(list, entry)[k].number <= entry.number
<1> DEFINE at == At(list, entry.series)
<1>1. \A i \in DOMAIN list : list[i].number \in Nat
  BY ReportsAreNumbered
<1>2. entry.number \in Nat
  BY DEF Reports
<1>3. CASE at = {}
  <2>1. Upsert(list, entry) = Append(list, entry)
    BY <1>3 DEF Upsert
  <2>2. /\ Append(list, entry) \in Seq(Reports)
        /\ DOMAIN Append(list, entry) = 1 .. Len(list) + 1
        /\ \A i \in 1 .. Len(list) : Append(list, entry)[i] = list[i]
        /\ Append(list, entry)[Len(list) + 1] = entry
    OBVIOUS
  <2>3. NoOlder(list, Append(list, entry))
    BY <2>2, <1>1 DEF NoOlder
  <2>4. \A k \in 1 .. Len(list) + 1 : Append(list, entry)[k].number <= entry.number
    <3> TAKE k \in 1 .. Len(list) + 1
    <3>1. CASE k = Len(list) + 1
      BY <3>1, <2>2, <1>2
    <3>2. CASE k \in 1 .. Len(list)
      BY <3>2, <2>2
    <3> QED BY <3>1, <3>2
  <2> QED BY <2>1, <2>2, <2>3, <2>4
<1>4. CASE at # {}
  <2>1. at \subseteq Nat
    BY DEF At
  <2>2. \E i \in at : \A j \in at : i <= j
    BY <2>1, <1>4, LeastNatural
  <2> DEFINE i0 == CHOOSE i \in at : \A j \in at : i <= j
  <2>3. i0 \in at
    BY <2>2
  <2>4. Upsert(list, entry) = [list EXCEPT ![i0] = entry]
    BY <1>4 DEF Upsert
  <2>5. i0 \in DOMAIN list /\ list[i0].series = entry.series
    BY <2>3 DEF At
  <2> HIDE DEF i0
  <2>6. /\ [list EXCEPT ![i0] = entry] \in Seq(Reports)
        /\ DOMAIN [list EXCEPT ![i0] = entry] = DOMAIN list
        /\ \A i \in DOMAIN list :
             [list EXCEPT ![i0] = entry][i] = IF i = i0 THEN entry ELSE list[i]
    BY <2>5
  <2> DEFINE new == [list EXCEPT ![i0] = entry]
  <2> HIDE DEF new
  <2>7. \A i \in DOMAIN list : new[i].series = list[i].series /\ new[i].number >= list[i].number
    <3> TAKE i \in DOMAIN list
    <3>1. CASE i = i0
      <4>1. new[i] = entry
        BY <3>1, <2>6 DEF new
      <4> QED BY <4>1, <3>1, <2>5
    <3>2. CASE i # i0
      <4>1. new[i] = list[i]
        BY <3>2, <2>6 DEF new
      <4> QED BY <4>1, <1>1
    <3> QED BY <3>1, <3>2
  <2>8. NoOlder(list, new)
    BY <2>6, <2>7 DEF NoOlder, new
  <2>9. \A k \in DOMAIN list : new[k].number <= entry.number
    <3> TAKE k \in DOMAIN list
    <3>1. new[k] = entry \/ new[k] = list[k]
      BY <2>6 DEF new
    <3> QED BY <3>1, <1>2
  <2> QED BY <2>4, <2>6, <2>8, <2>9 DEF new
<1> QED BY <1>3, <1>4

-------------------------------------------------------------------------------
(* A request is idle, or it has read some of the parts. *)
LEMMA RequestTypes ==
  ASSUME TypeOK, NEW r \in Requests
  PROVE  /\ histograms \in Seq(Reports) /\ load_client \in Nat
         /\ surreal_reachable \in BOOLEAN /\ ingests \in Nat
         /\ Reading(r) =>
              /\ request[r] \in [at : {"reading"}, done : 0 .. 3, arrival : Parts, payload : Parts]
              /\ request[r].arrival.histograms \in Seq(Reports)
              /\ request[r].payload.histograms \in Seq(Reports)
              /\ request[r].arrival.load_client \in Nat
              /\ request[r].payload.load_client \in Nat
<1>1. histograms \in Seq(Reports) /\ load_client \in Nat /\ surreal_reachable \in BOOLEAN
  BY DEF TypeOK, AppState, Parts
<1>2. ingests \in Nat
  BY WebDashboardAssumption DEF TypeOK
<1>3. request[r] \in RequestState
  BY DEF TypeOK
<1>4. Reading(r) =>
        request[r] \in [at : {"reading"}, done : 0 .. 3, arrival : Parts, payload : Parts]
  BY <1>3 DEF RequestState, Idle, Reading, ReadOrder
<1> QED BY <1>1, <1>2, <1>4 DEF Parts

(* The program starts with the default reports, numbered 0, and with no    *)
(* request.                                                                *)
LEMMA InitEstablishesIInv == Init => IInv
<1> SUFFICES ASSUME Init PROVE IInv
  OBVIOUS
<1>1. histograms \in Seq(Reports) /\ \A i \in DOMAIN histograms : histograms[i].number = 0
  <2>1. /\ DOMAIN Defaults = 1 .. Len(Defaults) /\ Len(Defaults) \in Nat
        /\ \A i \in 1 .. Len(Defaults) : Defaults[i] \in Series
    BY WebDashboardAssumption
  <2>2. histograms = [i \in 1 .. Len(Defaults) |-> [series |-> Defaults[i], number |-> 0]]
    BY <2>1 DEF Init
  <2>3. \A i \in 1 .. Len(Defaults) : [series |-> Defaults[i], number |-> 0] \in Reports
    BY <2>1 DEF Reports
  <2>4. histograms \in [1 .. Len(Defaults) -> Reports]
    BY <2>2, <2>3
  <2>5. histograms \in Seq(Reports)
    BY <2>1, <2>4
  <2>6. \A i \in DOMAIN histograms : histograms[i].number = 0
    BY <2>2
  <2> QED BY <2>5, <2>6
<1>2. AppState \in Parts
  BY <1>1 DEF Init, AppState, Parts
<1>3. request \in [Requests -> RequestState] /\ \A r \in Requests : ~ Reading(r)
  BY DEF Init, RequestState, Idle, Reading
<1>4. TypeOK
  <2>1. prober \in {"tick", "ok", "failed"} /\ up \in BOOLEAN
    BY DEF Init
  <2>2. flips \in 0 .. MaxFlips /\ ingests \in 0 .. MaxIngests
    BY WebDashboardAssumption DEF Init
  <2> QED BY <1>2, <1>3, <2>1, <2>2 DEF Init, TypeOK
<1>5. NumbersInOrder
  BY <1>1 DEF Init, NumbersInOrder
<1> QED BY <1>3, <1>4, <1>5 DEF IInv, FreshSoFar, NotBehindSoFar

(* A load report gets a number above all that was ingested or read. *)
LEMMA IngestLoadKeepsIInv == IInv /\ ingest_load => IInv'
<1> SUFFICES ASSUME IInv, ingest_load PROVE IInv'
  OBVIOUS
<1>1. ingests \in Nat /\ histograms \in Seq(Reports) /\ load_client \in Nat
  BY WebDashboardAssumption DEF IInv, TypeOK, AppState, Parts
<1>2. TypeOK'
  <2>1. AppState' \in Parts
    BY <1>1 DEF IInv, TypeOK, ingest_load, AppState, Parts
  <2>2. ingests' \in 0 .. MaxIngests /\ loads' \subseteq 1 .. ingests'
    BY <1>1, WebDashboardAssumption DEF IInv, TypeOK, ingest_load
  <2> QED BY <2>1, <2>2 DEF IInv, TypeOK, ingest_load
<1>3. NumbersInOrder'
  <2>1. \A i \in DOMAIN histograms : histograms[i].number <= ingests + 1
    BY <1>1, ReportsAreNumbered DEF IInv, NumbersInOrder
  <2>2. \A l \in loads : l <= ingests + 1
    BY <1>1 DEF IInv, TypeOK
  <2> QED BY <1>1, <2>1, <2>2 DEF ingest_load, NumbersInOrder
<1>4. FreshSoFar'
  <2>1. load_client <= load_client'
    BY <1>1 DEF IInv, NumbersInOrder, ingest_load
  <2> SUFFICES ASSUME NEW r \in Requests, Reading(r)
               PROVE  request[r].arrival.load_client <= load_client'
    BY DEF IInv, FreshSoFar, ingest_load, Reading
  <2> QED BY <1>1, <2>1, RequestTypes DEF IInv, FreshSoFar, ingest_load
<1>5. NotBehindSoFar'
  <2> SUFFICES ASSUME NEW r \in Requests, Reading(r),
                      NEW i \in DOMAIN request[r].payload.histograms
               PROVE  /\ request[r].payload.histograms[i].number <= ingests + 1
                      /\ request[r].done >= 2 =>
                           \A l \in loads \cup {ingests + 1} :
                             l < request[r].payload.histograms[i].number =>
                               l <= request[r].payload.load_client
    BY DEF NotBehindSoFar, ingest_load, Reading
  <2>1. request[r].payload.histograms[i].number \in Nat
    BY RequestTypes, ReportsAreNumbered DEF IInv
  <2>2. request[r].payload.histograms[i].number <= ingests
    BY DEF IInv, NotBehindSoFar
  <2>3. ~ (ingests + 1 < request[r].payload.histograms[i].number)
    BY <1>1, <2>1, <2>2
  <2> QED BY <1>1, <2>1, <2>2, <2>3 DEF IInv, NotBehindSoFar
<1> QED BY <1>2, <1>3, <1>4, <1>5 DEF IInv

(* A histogram gets a number above all others of the list. *)
LEMMA IngestHistogramKeepsIInv ==
  ASSUME IInv, NEW series \in Series, ingest_histogram(series)
  PROVE  IInv'
<1>1. ingests \in Nat /\ histograms \in Seq(Reports) /\ load_client \in Nat
  BY WebDashboardAssumption DEF IInv, TypeOK, AppState, Parts
<1> DEFINE entry == [series |-> series, number |-> ingests + 1]
<1>2. entry \in Reports /\ entry.number = ingests + 1
  BY <1>1 DEF Reports
<1>3. \A i \in DOMAIN histograms : histograms[i].number <= entry.number
  BY <1>1, <1>2, ReportsAreNumbered DEF IInv, NumbersInOrder
<1>4. histograms' = Upsert(histograms, entry)
  BY DEF ingest_histogram
<1> HIDE DEF entry
<1>5. /\ histograms' \in Seq(Reports)
      /\ NoOlder(histograms, histograms')
      /\ \A i \in DOMAIN histograms' : histograms'[i].number <= ingests'
  BY <1>1, <1>2, <1>3, <1>4, UpsertIsNewer DEF ingest_histogram
<1>6. TypeOK'
  <2>1. AppState' \in Parts
    BY <1>5 DEF IInv, TypeOK, ingest_histogram, AppState, Parts
  <2>2. ingests' \in 0 .. MaxIngests /\ loads' \subseteq 1 .. ingests'
    BY <1>1, WebDashboardAssumption DEF IInv, TypeOK, ingest_histogram
  <2> QED BY <2>1, <2>2 DEF IInv, TypeOK, ingest_histogram
<1>7. NumbersInOrder'
  BY <1>1, <1>5 DEF IInv, NumbersInOrder, ingest_histogram
<1>8. FreshSoFar'
  <2> SUFFICES ASSUME NEW r \in Requests, Reading(r)
               PROVE  NoOlder(request[r].arrival.histograms, histograms')
    BY DEF IInv, FreshSoFar, ingest_histogram, Reading
  <2>1. NoOlder(request[r].arrival.histograms, histograms)
    BY DEF IInv, FreshSoFar
  <2>2. request[r].arrival.histograms \in Seq(Reports)
    BY RequestTypes DEF IInv
  <2> QED BY <1>1, <1>5, <2>1, <2>2, NoOlderTransitive
<1>9. NotBehindSoFar'
  <2> SUFFICES ASSUME NEW r \in Requests, Reading(r),
                      NEW i \in DOMAIN request[r].payload.histograms
               PROVE  request[r].payload.histograms[i].number <= ingests + 1
    BY DEF IInv, NotBehindSoFar, ingest_histogram, Reading
  <2>1. request[r].payload.histograms[i].number \in Nat
    BY RequestTypes, ReportsAreNumbered DEF IInv
  <2> QED BY <1>1, <2>1 DEF IInv, NotBehindSoFar
<1> QED BY <1>6, <1>7, <1>8, <1>9 DEF IInv

(* A request that arrives has the state as it is. *)
LEMMA ArriveKeepsIInv ==
  ASSUME IInv, NEW a \in Requests, Arrive(a)
  PROVE  IInv'
<1> DEFINE new == [at |-> "reading", done |-> 0, arrival |-> AppState, payload |-> AppState]
<1>1. AppState \in Parts
  BY DEF IInv, TypeOK
<1>2. new \in RequestState
  BY <1>1 DEF RequestState, ReadOrder
<1>3. request' = [request EXCEPT ![a] = new]
  BY DEF Arrive
<1>4. \A r \in Requests : request'[r] = IF r = a THEN new ELSE request[r]
  BY <1>3 DEF IInv, TypeOK
<1>5. /\ new.done = 0
      /\ new.arrival.histograms = histograms /\ new.arrival.load_client = load_client
      /\ new.payload.histograms = histograms /\ new.payload.load_client = load_client
  BY DEF AppState
<1> HIDE DEF new
<1>6. TypeOK'
  <2>1. request' \in [Requests -> RequestState]
    BY <1>2, <1>3 DEF IInv, TypeOK
  <2> QED BY <1>1, <2>1 DEF IInv, TypeOK, Arrive, AppState
<1>7. load_client \in Nat /\ histograms \in Seq(Reports)
  BY RequestTypes DEF IInv
<1>8. FreshSoFar'
  <2>1. NoOlder(histograms, histograms)
    BY <1>7, NoOlderThanItself
  <2> SUFFICES ASSUME NEW r \in Requests, Reading(r)'
               PROVE  LET then == request'[r].arrival
                          now == request'[r].payload
                      IN /\ then.load_client <= load_client
                         /\ then.load_client <= now.load_client
                         /\ NoOlder(then.histograms, histograms)
                         /\ NoOlder(then.histograms, now.histograms)
    BY DEF FreshSoFar, Arrive
  <2>2. CASE r = a
    BY <1>4, <1>5, <1>7, <2>1, <2>2
  <2>3. CASE r # a
    BY <1>4, <2>3 DEF IInv, FreshSoFar, Reading
  <2> QED BY <2>2, <2>3
<1>9. NotBehindSoFar'
  <2> SUFFICES ASSUME NEW r \in Requests, Reading(r)',
                      NEW i \in DOMAIN request'[r].payload.histograms
               PROVE  /\ request'[r].payload.histograms[i].number <= ingests
                      /\ request'[r].done >= 2 =>
                           \A l \in loads :
                             l < request'[r].payload.histograms[i].number =>
                               l <= request'[r].payload.load_client
    BY DEF NotBehindSoFar, Arrive
  <2>2. CASE r = a
    <3>1. request'[r] = new
      BY <1>4, <2>2
    <3>2. histograms[i].number <= ingests
      BY <1>5, <3>1 DEF IInv, NumbersInOrder
    <3> QED BY <1>5, <3>1, <3>2
  <2>3. CASE r # a
    BY <1>4, <2>3 DEF IInv, NotBehindSoFar, Reading
  <2> QED BY <2>2, <2>3
<1> QED BY <1>6, <1>8, <1>9 DEF IInv, NumbersInOrder, Arrive

(* A part that is read is the state's: as recent as the arrival, and the   *)
(* load summary, read second, knows every load report so far.              *)
LEMMA ReadPartKeepsIInv ==
  ASSUME IInv, NEW a \in Requests, ReadPart(a)
  PROVE  IInv'
<1> DEFINE old == request[a]
           part == ReadOrder[old.done + 1]
           new == request'[a]
<1>1. /\ old \in [at : {"reading"}, done : 0 .. 3, arrival : Parts, payload : Parts]
      /\ old.done \in {0, 1, 2}
      /\ Reading(a)
  BY RequestTypes DEF IInv, ReadPart, Reading, ReadOrder
<1>2. /\ new.at = "reading" /\ new.done = old.done + 1 /\ new.arrival = old.arrival
      /\ new.payload = [old.payload EXCEPT ![part] = AppState[part]]
      /\ new = [at |-> "reading", done |-> new.done, arrival |-> new.arrival,
                payload |-> new.payload]
  BY <1>1 DEF IInv, TypeOK, ReadPart
<1>3. \A r \in Requests : r # a => request'[r] = request[r]
  BY DEF IInv, TypeOK, ReadPart
<1>4. request' = [request EXCEPT ![a] = new]
  BY DEF IInv, TypeOK, ReadPart
<1>5. old.payload \in Parts /\ AppState \in Parts
  BY <1>1 DEF IInv, TypeOK
<1>6. new.payload.histograms = IF old.done = 0 THEN histograms ELSE old.payload.histograms
  BY <1>1, <1>2, <1>5 DEF ReadOrder, AppState, Parts
<1>7. new.payload.load_client = IF old.done = 1 THEN load_client ELSE old.payload.load_client
  BY <1>1, <1>2, <1>5 DEF ReadOrder, AppState, Parts
<1>8. new.payload \in Parts
  BY <1>1, <1>2, <1>5 DEF ReadOrder, AppState, Parts
<1>9. new \in RequestState
  BY <1>1, <1>2, <1>8 DEF RequestState, ReadOrder
<1>10. TypeOK'
  <2>1. request' \in [Requests -> RequestState]
    BY <1>4, <1>9 DEF IInv, TypeOK
  <2> QED BY <1>5, <2>1 DEF IInv, TypeOK, ReadPart, AppState
<1>11. FreshSoFar'
  <2> SUFFICES ASSUME NEW r \in Requests, Reading(r)'
               PROVE  LET then == request'[r].arrival
                          now == request'[r].payload
                      IN /\ then.load_client <= load_client
                         /\ then.load_client <= now.load_client
                         /\ NoOlder(then.histograms, histograms)
                         /\ NoOlder(then.histograms, now.histograms)
    BY DEF FreshSoFar, ReadPart
  <2>1. CASE r = a
    BY <1>1, <1>2, <1>6, <1>7, <2>1 DEF IInv, FreshSoFar
  <2>2. CASE r # a
    BY <1>3, <2>2 DEF IInv, FreshSoFar, Reading
  <2> QED BY <2>1, <2>2
<1>12. NotBehindSoFar'
  <2> SUFFICES ASSUME NEW r \in Requests, Reading(r)',
                      NEW i \in DOMAIN request'[r].payload.histograms
               PROVE  /\ request'[r].payload.histograms[i].number <= ingests
                      /\ request'[r].done >= 2 =>
                           \A l \in loads :
                             l < request'[r].payload.histograms[i].number =>
                               l <= request'[r].payload.load_client
    BY DEF NotBehindSoFar, ReadPart
  <2>1. CASE r # a
    BY <1>3, <2>1 DEF IInv, NotBehindSoFar, Reading
  <2>2. CASE r = a /\ old.done = 0
    <3>1. request'[r].payload.histograms = histograms
      BY <1>6, <2>2
    <3>2. request'[r].done = 1
      <4>1. new.done = old.done + 1
        BY <1>2
      <4> QED BY <4>1, <2>2
    <3>3. histograms[i].number <= ingests
      BY <3>1 DEF IInv, NumbersInOrder
    <3> QED BY <3>1, <3>2, <3>3
  <2>3. CASE r = a /\ old.done = 1
    <3>1. old.payload.histograms[i].number <= ingests
      BY <1>1, <1>6, <2>3 DEF IInv, NotBehindSoFar
    <3>2. \A l \in loads : l <= load_client
      BY DEF IInv, NumbersInOrder
    <3> QED BY <1>6, <1>7, <2>3, <3>1, <3>2
  <2>4. CASE r = a /\ old.done = 2
    <3>1. /\ request'[r].payload.histograms = old.payload.histograms
          /\ request'[r].payload.load_client = old.payload.load_client
      BY <1>6, <1>7, <2>4
    <3>2. /\ old.payload.histograms[i].number <= ingests
          /\ \A l \in loads :
               l < old.payload.histograms[i].number => l <= old.payload.load_client
      BY <1>1, <2>4, <3>1 DEF IInv, NotBehindSoFar
    <3> QED BY <3>1, <3>2
  <2> QED BY <1>1, <2>1, <2>2, <2>3, <2>4
<1> QED BY <1>10, <1>11, <1>12 DEF IInv, NumbersInOrder, ReadPart

(* An answered request is idle again. *)
LEMMA RespondKeepsIInv ==
  ASSUME IInv, NEW a \in Requests, Respond(a)
  PROVE  IInv'
<1>1. request' = [request EXCEPT ![a] = Idle] /\ Idle \in RequestState
  BY DEF Respond, RequestState
<1>2. \A r \in Requests : Reading(r)' => Reading(r) /\ request'[r] = request[r]
  BY <1>1 DEF IInv, TypeOK, Reading, Idle
<1>3. TypeOK'
  BY <1>1 DEF IInv, TypeOK, Respond, AppState
<1>4. FreshSoFar'
  BY <1>2 DEF IInv, FreshSoFar, Respond
<1>5. NotBehindSoFar'
  BY <1>2 DEF IInv, NotBehindSoFar, Respond
<1> QED BY <1>3, <1>4, <1>5 DEF IInv, NumbersInOrder, Respond

(* The prober and SurrealDB touch only the flag. *)
LEMMA ProberKeepsIInv ==
  ASSUME IInv, ProbeConnect \/ ProbeWrite \/ SurrealFlips
  PROVE  IInv'
<1>1. UNCHANGED <<histograms, load_client, request, ingests, loads>>
  BY DEF ProbeConnect, ProbeWrite, SurrealFlips
<1>2. /\ surreal_reachable' \in BOOLEAN /\ prober' \in {"tick", "ok", "failed"}
      /\ up' \in BOOLEAN /\ flips' \in 0 .. MaxFlips
  <2>1. /\ surreal_reachable \in BOOLEAN /\ prober \in {"tick", "ok", "failed"}
        /\ up \in BOOLEAN /\ flips \in 0 .. MaxFlips
    BY DEF IInv, TypeOK, AppState, Parts
  <2>2. CASE ProbeConnect
    BY <2>1, <2>2 DEF ProbeConnect
  <2>3. CASE ProbeWrite
    BY <2>1, <2>3 DEF ProbeWrite
  <2>4. CASE SurrealFlips
    BY <2>1, <2>4, WebDashboardAssumption DEF SurrealFlips
  <2> QED BY <2>2, <2>3, <2>4
<1>3. TypeOK'
  BY <1>1, <1>2 DEF IInv, TypeOK, AppState, Parts
<1> QED BY <1>1, <1>3 DEF IInv, NumbersInOrder, FreshSoFar, NotBehindSoFar, Reading

(* The inductive invariant holds throughout. *)
THEOREM IInvHolds == Spec => []IInv
<1>1. IInv /\ [Next]_vars => IInv'
  <2> SUFFICES ASSUME IInv, [Next]_vars PROVE IInv'
    OBVIOUS
  <2>1. CASE UNCHANGED vars
    BY <2>1 DEF vars, IInv, TypeOK, AppState, NumbersInOrder, FreshSoFar, NotBehindSoFar, Reading
  <2>2. CASE Next
    BY <2>2, IngestLoadKeepsIInv, IngestHistogramKeepsIInv, ArriveKeepsIInv, ReadPartKeepsIInv,
       RespondKeepsIInv, ProberKeepsIInv DEF Next
  <2> QED BY <2>1, <2>2
<1> QED BY <1>1, InitEstablishesIInv, PTL DEF Spec

-------------------------------------------------------------------------------
(* Type correctness: every variable keeps to the types of the source. *)
THEOREM TypeCorrect == Spec => []TypeOK
<1>1. IInv => TypeOK
  BY DEF IInv
<1> QED BY <1>1, IInvHolds, PTL

(* api_metrics: no payload is older than the state in which its request    *)
(* arrived, however the ingests fall between its three locks.              *)
THEOREM PayloadsAreFresh == Spec => []PayloadIsFresh
<1>1. IInv => PayloadIsFresh
  <2> SUFFICES ASSUME IInv, NEW r \in Requests, Answered(r)
               PROVE  /\ request[r].payload.load_client >= request[r].arrival.load_client
                      /\ NoOlder(request[r].arrival.histograms, request[r].payload.histograms)
    BY DEF PayloadIsFresh
  <2>1. Reading(r)
    BY DEF Answered, Reading
  <2>2. /\ request[r].arrival.load_client \in Nat
        /\ request[r].payload.load_client \in Nat
    BY <2>1, RequestTypes DEF IInv
  <2>3. /\ request[r].arrival.load_client <= request[r].payload.load_client
        /\ NoOlder(request[r].arrival.histograms, request[r].payload.histograms)
    BY <2>1 DEF IInv, FreshSoFar
  <2> QED BY <2>2, <2>3
<1> QED BY <1>1, IInvHolds, PTL

(* api_metrics: a payload that shows a histogram shows no load summary     *)
(* older than the one ingested before it, because the histograms are read  *)
(* first.                                                                  *)
THEOREM LoadNeverBehind == Spec => []LoadNotBehindHistograms
<1>1. IInv => LoadNotBehindHistograms
  <2> SUFFICES ASSUME IInv, NEW r \in Requests, Answered(r),
                      NEW i \in DOMAIN request[r].payload.histograms, NEW l \in loads,
                      l < request[r].payload.histograms[i].number
               PROVE  request[r].payload.load_client >= l
    BY DEF LoadNotBehindHistograms
  <2>1. Reading(r) /\ request[r].done >= 2
    BY DEF Answered, Reading, ReadOrder
  <2>2. request[r].payload.load_client \in Nat /\ l \in Nat
    BY <2>1, RequestTypes DEF IInv, TypeOK
  <2>3. l <= request[r].payload.load_client
    BY <2>1 DEF IInv, NotBehindSoFar
  <2> QED BY <2>2, <2>3
<1> QED BY <1>1, IInvHolds, PTL
-------------------------------------------------------------------------------
HistogramTypeOK ==
  /\ hist \in [Cpus -> [Slots -> Nat]]
  /\ counted \in [Latencies -> Nat] /\ before \in [Latencies -> Nat]
  /\ reading \in BOOLEAN /\ slot \in 0 .. MAX_BUCKETS
  /\ combined \in [Slots -> Nat]
  /\ ~ reading => slot = 0

SlotsHoldSamples == \A s \in Slots : Sum(s) = InSlot(s, counted)

(* What was read lies between what was counted then and now. *)
ReadIsBetween ==
  /\ \A v \in Latencies : before[v] <= counted[v]
  /\ \A s \in Slots :
       IF s < slot
       THEN InSlot(s, before) <= combined[s] /\ combined[s] <= InSlot(s, counted)
       ELSE combined[s] = 0

HistogramInv == HistogramTypeOK /\ SlotsHoldSamples /\ ReadIsBetween /\ ReportIsBetween


LEMMA HistogramSets ==
  /\ MAX_BUCKETS \in Nat \ {0} /\ Latencies \subseteq Nat
  /\ IsFiniteSet(Cpus) /\ IsFiniteSet(Latencies)
  /\ \A s : OfSlot(s) \in SUBSET Latencies /\ IsFiniteSet(OfSlot(s))
  /\ \A s, seen : InSlot(s, seen) = SumFunctionOnSet(seen, OfSlot(s))
<1>1. \A s : OfSlot(s) \in SUBSET Latencies
  BY DEF OfSlot
<1>2. IsFiniteSet(Latencies) /\ \A s : IsFiniteSet(OfSlot(s))
  BY <1>1, LatencyHistogramAssumption, FS_Subset
<1>3. \A s, seen : InSlot(s, seen) = SumFunctionOnSet(seen, OfSlot(s))
  BY DEF InSlot
<1> QED BY <1>1, <1>2, <1>3, LatencyHistogramAssumption

(* Of more samples no slot holds fewer. *)
LEMMA SlotsGrow ==
  ASSUME NEW f \in [Latencies -> Nat], NEW g \in [Latencies -> Nat],
         \A v \in Latencies : f[v] <= g[v], NEW s
  PROVE  InSlot(s, f) \in Nat /\ InSlot(s, g) \in Nat /\ InSlot(s, f) <= InSlot(s, g)
<1> PICK S : S = OfSlot(s)
  OBVIOUS
<1>1. S \in SUBSET Latencies /\ IsFiniteSet(S) /\ S \in SUBSET S
  BY HistogramSets
<1>2. /\ \A v \in S : f[v] \in Nat /\ f[v] <= g[v]
      /\ \A v \in S : g[v] \in Nat
  BY <1>1
<1>3. SumFunctionOnSet(f, S) \in Nat /\ SumFunctionOnSet(g, S) \in Nat
  BY <1>1, <1>2, SumType
<1>4. SumFunctionOnSet(f, S) <= SumFunctionOnSet(g, S)
  BY <1>1, <1>2, SumGrows
<1> QED BY <1>3, <1>4, HistogramSets

LEMMA InitEstablishesHistogramInv == HistogramInit => HistogramInv
<1> SUFFICES ASSUME HistogramInit PROVE HistogramInv
  OBVIOUS
<1>1. /\ hist = [c \in Cpus |-> Zeroes] /\ reading = FALSE /\ slot = 0
      /\ combined = Zeroes /\ report = NoReport /\ counted = Uncounted /\ before = Uncounted
  BY DEF HistogramInit
<1>2. HistogramTypeOK
  <2>1. 0 \in 0 .. MAX_BUCKETS
    BY HistogramSets
  <2>2. Zeroes \in [Slots -> Nat] /\ Uncounted \in [Latencies -> Nat]
    BY DEF Zeroes, Uncounted
  <2> QED BY <1>1, <2>1, <2>2 DEF HistogramTypeOK
<1>3. SlotsHoldSamples
  <2> SUFFICES ASSUME NEW s \in Slots PROVE Sum(s) = InSlot(s, counted)
    BY DEF SlotsHoldSamples
  <2>1. PICK f : f = [c \in Cpus |-> hist[c][s]]
    OBVIOUS
  <2>2. DOMAIN f = Cpus /\ \A c \in Cpus : f[c] = 0
    BY <1>1, <2>1 DEF Zeroes
  <2>3. SumFunctionOnSet(f, Cpus) = 0
    BY <2>2, HistogramSets, SumType
  <2>4. Sum(s) = 0
    BY <2>1, <2>2, <2>3 DEF Sum, SumFunction
  <2>5. IsFiniteSet(OfSlot(s)) /\ \A v \in OfSlot(s) : counted[v] = 0
    BY <1>1, HistogramSets DEF Uncounted
  <2>6. SumFunctionOnSet(counted, OfSlot(s)) = 0
    BY <2>5, SumType
  <2> QED BY <2>4, <2>6, HistogramSets
<1>4. ReadIsBetween
  <2>1. \A s \in Slots : ~ (s < slot) /\ combined[s] = 0
    BY <1>1, HistogramSets DEF Slots, Zeroes
  <2>2. \A v \in Latencies : before[v] <= counted[v]
    BY <1>1 DEF Uncounted
  <2> QED BY <2>1, <2>2 DEF ReadIsBetween
<1>5. ReportIsBetween
  BY <1>1 DEF ReportIsBetween
<1> QED BY <1>2, <1>3, <1>4, <1>5 DEF HistogramInv

(* A sample adds one to its slot, on its CPU, and to none other. *)
LEMMA UpdatePreservesHistogramInv ==
  ASSUME SlotsArePowers, HistogramInv, NEW c \in Cpus, NEW v \in Latencies, hist_update(c, v)
  PROVE  HistogramInv'
<1>1. PICK b : b = log2_bucket(v)
  OBVIOUS
<1>2. /\ hist' = [hist EXCEPT ![c][b] = @ + 1] /\ counted' = [counted EXCEPT ![v] = @ + 1]
      /\ UNCHANGED <<reading, slot, combined, report, before>>
  BY <1>1 DEF hist_update
<1>3. HistogramTypeOK /\ SlotsHoldSamples /\ ReadIsBetween /\ ReportIsBetween
  BY DEF HistogramInv
<1>4. b \in Slots /\ \A s \in Slots : v \in OfSlot(s) <=> s = b
  BY <1>1 DEF SlotsArePowers
<1>5. /\ hist \in [Cpus -> [Slots -> Nat]] /\ counted \in [Latencies -> Nat]
      /\ before \in [Latencies -> Nat]
  BY <1>3 DEF HistogramTypeOK
<1>6. /\ hist' \in [Cpus -> [Slots -> Nat]] /\ hist'[c][b] = hist[c][b] + 1
      /\ \A s \in Slots, d \in Cpus : s # b \/ d # c => hist'[d][s] = hist[d][s]
  BY <1>2, <1>4, <1>5
<1>7. /\ counted' \in [Latencies -> Nat] /\ counted'[v] = counted[v] + 1
      /\ \A u \in Latencies \ {v} : counted'[u] = counted[u]
      /\ \A u \in Latencies : counted[u] <= counted'[u]
  BY <1>2, <1>5
<1>8. HistogramTypeOK'
  BY <1>2, <1>3, <1>6, <1>7 DEF HistogramTypeOK
<1>9. SlotsHoldSamples'
  <2> SUFFICES ASSUME NEW s \in Slots PROVE Sum(s)' = InSlot(s, counted')
    BY DEF SlotsHoldSamples
  <2>1. PICK f, g : f = [d \in Cpus |-> hist[d][s]] /\ g = [d \in Cpus |-> hist'[d][s]]
    OBVIOUS
  <2>2. DOMAIN f = Cpus /\ DOMAIN g = Cpus /\ Sum(s) = SumFunction(f) /\ Sum(s)' = SumFunction(g)
    BY <2>1 DEF Sum
  <2>3. Sum(s) = SumFunctionOnSet(f, Cpus) /\ Sum(s)' = SumFunctionOnSet(g, Cpus)
    BY <2>2 DEF SumFunction
  <2>4. /\ \A d \in Cpus : f[d] \in Nat /\ f[d] = hist[d][s] /\ g[d] = hist'[d][s]
        /\ \A d \in Cpus : g[d] \in Nat
    BY <1>5, <1>6, <2>1
  <2>5. /\ Sum(s) = SumFunctionOnSet(counted, OfSlot(s))
        /\ InSlot(s, counted') = SumFunctionOnSet(counted', OfSlot(s))
    BY <1>3, HistogramSets DEF SlotsHoldSamples
  <2>6. OfSlot(s) \in SUBSET Latencies /\ IsFiniteSet(OfSlot(s)) /\ IsFiniteSet(Cpus)
    BY HistogramSets
  <2>7. CASE s = b
    <3>1. g[c] = f[c] + 1 /\ \A d \in Cpus \ {c} : g[d] = f[d]
      BY <1>6, <2>4, <2>7
    <3>2. SumFunctionOnSet(g, Cpus) = SumFunctionOnSet(f, Cpus) + 1
      <4>1. 1 \in Nat /\ \A d \in Cpus : f[d] \in Nat
        BY <2>4
      <4> QED BY <2>6, <3>1, <4>1, SumChanges
    <3>3. SumFunctionOnSet(counted', OfSlot(s)) = SumFunctionOnSet(counted, OfSlot(s)) + 1
      <4>1. PICK S, m, n : S = OfSlot(s) /\ m = counted /\ n = counted'
        OBVIOUS
      <4>2. IsFiniteSet(S) /\ v \in S /\ 1 \in Nat /\ \A u \in S : m[u] \in Nat
        BY <1>4, <1>5, <2>6, <2>7, <4>1
      <4>3. n[v] = m[v] + 1 /\ \A u \in S \ {v} : n[u] = m[u]
        BY <1>7, <2>6, <4>1
      <4>4. SumFunctionOnSet(n, S) = SumFunctionOnSet(m, S) + 1
        BY <4>2, <4>3, SumChanges
      <4> QED BY <4>1, <4>4
    <3> QED BY <2>3, <2>5, <3>2, <3>3
  <2>8. CASE s # b
    <3>1. \A d \in Cpus : g[d] = f[d]
      BY <1>6, <2>4, <2>8
    <3>2. SumFunctionOnSet(g, Cpus) = SumFunctionOnSet(f, Cpus)
      BY <2>4, <2>6, <3>1, SumSame
    <3>3. \A u \in OfSlot(s) : counted'[u] = counted[u] /\ counted[u] \in Nat
      BY <1>4, <1>5, <1>7, <2>6, <2>8
    <3>4. SumFunctionOnSet(counted', OfSlot(s)) = SumFunctionOnSet(counted, OfSlot(s))
      BY <2>6, <3>3, SumSame
    <3> QED BY <2>3, <2>5, <3>2, <3>4
  <2> QED BY <2>7, <2>8
<1>10. ReadIsBetween'
  <2>1. \A u \in Latencies : before'[u] <= counted'[u]
    <3> SUFFICES ASSUME NEW u \in Latencies PROVE before[u] <= counted'[u]
      BY <1>2
    <3>1. before[u] \in Nat /\ counted[u] \in Nat /\ counted'[u] \in Nat
      BY <1>5, <1>7
    <3>2. before[u] <= counted[u] /\ counted[u] <= counted'[u]
      BY <1>3, <1>7 DEF ReadIsBetween
    <3> QED BY <3>1, <3>2
  <2>2. ASSUME NEW s \in Slots, s < slot PROVE combined[s] <= InSlot(s, counted')
    <3>1. InSlot(s, counted) \in Nat /\ InSlot(s, counted') \in Nat
          /\ InSlot(s, counted) <= InSlot(s, counted')
      BY <1>5, <1>7, SlotsGrow
    <3>2. combined[s] \in Nat /\ combined[s] <= InSlot(s, counted)
      BY <1>3, <2>2 DEF HistogramTypeOK, ReadIsBetween
    <3> QED BY <3>1, <3>2
  <2>3. \A s \in Slots : IF s < slot' THEN InSlot(s, before') <= combined'[s] ELSE combined'[s] = 0
    BY <1>2, <1>3 DEF ReadIsBetween
  <2> QED BY <1>2, <2>1, <2>2, <2>3 DEF ReadIsBetween
<1>11. ReportIsBetween'
  BY <1>2, <1>3 DEF ReportIsBetween
<1> QED BY <1>8, <1>9, <1>10, <1>11 DEF HistogramInv

LEMMA BeginPreservesHistogramInv ==
  ASSUME HistogramInv, Begin
  PROVE  HistogramInv'
<1>1. /\ ~ reading /\ reading' = TRUE /\ before' = counted
      /\ UNCHANGED <<hist, slot, combined, report, counted>>
  BY DEF Begin
<1>2. HistogramTypeOK /\ SlotsHoldSamples /\ ReadIsBetween /\ ReportIsBetween
  BY DEF HistogramInv
<1>3. HistogramTypeOK'
  BY <1>1, <1>2 DEF HistogramTypeOK
<1>4. SlotsHoldSamples' /\ ReportIsBetween'
  BY <1>1, <1>2 DEF SlotsHoldSamples, ReportIsBetween, Sum
<1>5. ReadIsBetween'
  <2>1. slot = 0 /\ \A s \in Slots : ~ (s < slot)
    BY <1>1, <1>2, HistogramSets DEF HistogramTypeOK, Slots
  <2>2. \A v \in Latencies : counted[v] \in Nat
    BY <1>2 DEF HistogramTypeOK
  <2> QED BY <1>1, <1>2, <2>1, <2>2 DEF ReadIsBetween
<1> QED BY <1>3, <1>4, <1>5 DEF HistogramInv

(* The slot that is read now has every sample counted so far. *)
LEMMA ReadSlotPreservesHistogramInv ==
  ASSUME HistogramInv, ReadSlot
  PROVE  HistogramInv'
<1>1. /\ reading /\ slot < MAX_BUCKETS
      /\ combined' = [combined EXCEPT ![slot] = Sum(slot)] /\ slot' = slot + 1
      /\ UNCHANGED <<hist, reading, report, counted, before>>
  BY DEF ReadSlot
<1>2. HistogramTypeOK /\ SlotsHoldSamples /\ ReadIsBetween /\ ReportIsBetween
  BY DEF HistogramInv
<1>3. slot \in Nat /\ slot \in Slots /\ slot' \in 0 .. MAX_BUCKETS /\ \A s \in Slots : s \in Nat
  BY <1>1, <1>2, HistogramSets DEF HistogramTypeOK, Slots
<1>4. Sum(slot) = InSlot(slot, counted)
  BY <1>2, <1>3 DEF SlotsHoldSamples
<1>5. /\ InSlot(slot, before) \in Nat /\ InSlot(slot, counted) \in Nat
      /\ InSlot(slot, before) <= InSlot(slot, counted)
  BY <1>2, SlotsGrow DEF HistogramTypeOK, ReadIsBetween
<1>6. HistogramTypeOK'
  BY <1>1, <1>2, <1>3, <1>4, <1>5 DEF HistogramTypeOK
<1>7. SlotsHoldSamples' /\ ReportIsBetween'
  BY <1>1, <1>2 DEF SlotsHoldSamples, ReportIsBetween, Sum
<1>8. /\ combined'[slot] = InSlot(slot, counted)
      /\ \A s \in Slots \ {slot} : combined'[s] = combined[s]
  BY <1>1, <1>2, <1>3, <1>4 DEF HistogramTypeOK
<1>9. \A s \in Slots : s # slot => (s < slot' <=> s < slot)
  BY <1>1, <1>3
<1>10. slot < slot'
  BY <1>1, <1>3
<1>11. ReadIsBetween'
  <2>1. ASSUME NEW s \in Slots
        PROVE  IF s < slot'
               THEN InSlot(s, before) <= combined'[s] /\ combined'[s] <= InSlot(s, counted)
               ELSE combined'[s] = 0
    <3>1. CASE s = slot
      BY <1>5, <1>8, <1>10, <3>1
    <3>2. CASE s # slot
      BY <1>2, <1>8, <1>9, <3>2 DEF ReadIsBetween
    <3> QED BY <3>1, <3>2
  <2> QED BY <1>1, <1>2, <2>1 DEF ReadIsBetween
<1> QED BY <1>6, <1>7, <1>11 DEF HistogramInv

(* What is published was read between before and now. *)
LEMMA PublishPreservesHistogramInv ==
  ASSUME HistogramInv, Publish
  PROVE  HistogramInv'
<1>1. /\ reading' = FALSE /\ slot' = 0 /\ combined' = Zeroes /\ before' = Uncounted
      /\ UNCHANGED <<hist, counted>>
      /\ \/ report' = NoReport
         \/ report' = [percentiles |-> computePercentiles(combined), buckets |-> combined,
                       upto |-> slot, from |-> before, to |-> counted]
  BY DEF Publish
<1>2. HistogramTypeOK /\ SlotsHoldSamples /\ ReadIsBetween
  BY DEF HistogramInv
<1>3. HistogramTypeOK'
  <2>1. 0 \in 0 .. MAX_BUCKETS
    BY HistogramSets
  <2>2. Zeroes \in [Slots -> Nat] /\ Uncounted \in [Latencies -> Nat]
    BY DEF Zeroes, Uncounted
  <2> QED BY <1>1, <1>2, <2>1, <2>2 DEF HistogramTypeOK
<1>4. SlotsHoldSamples'
  BY <1>1, <1>2 DEF SlotsHoldSamples, Sum
<1>5. ReadIsBetween'
  <2>1. \A s \in Slots : ~ (s < slot') /\ combined'[s] = 0
    BY <1>1, HistogramSets DEF Slots, Zeroes
  <2>2. \A v \in Latencies : before'[v] <= counted'[v]
    BY <1>1, <1>3 DEF Uncounted, HistogramTypeOK
  <2> QED BY <2>1, <2>2 DEF ReadIsBetween
<1>6. ReportIsBetween'
  <2>1. CASE report' = NoReport
    BY <2>1 DEF ReportIsBetween
  <2>2. CASE report' # NoReport
    <3>1. /\ report'.buckets = combined /\ report'.upto = slot
          /\ report'.from = before /\ report'.to = counted
      BY <1>1, <2>2
    <3> QED BY <1>2, <3>1 DEF ReportIsBetween, ReadIsBetween
  <2> QED BY <2>1, <2>2
<1> QED BY <1>3, <1>4, <1>5, <1>6 DEF HistogramInv

LEMMA StutterPreservesHistogramInv ==
  ASSUME HistogramInv, UNCHANGED histogramVars
  PROVE  HistogramInv'
BY DEF histogramVars, HistogramInv, HistogramTypeOK, SlotsHoldSamples, Sum, ReadIsBetween,
       ReportIsBetween

(* HistogramInv is an invariant of the histogram and its reports.          *)
THEOREM HistogramInvariant ==
  ASSUME SlotsArePowers
  PROVE  HistogramSpec => []HistogramInv
<1>1. HistogramInv /\ [HistogramNext]_histogramVars => HistogramInv'
  BY UpdatePreservesHistogramInv, BeginPreservesHistogramInv, ReadSlotPreservesHistogramInv,
     PublishPreservesHistogramInv, StutterPreservesHistogramInv DEF HistogramNext
<1> QED BY <1>1, InitEstablishesHistogramInv, PTL DEF HistogramSpec

(* A report lies between what was counted when its reading began and when  *)
(* it ended, slot by slot, on any CPUs and wherever a Lookup failed.       *)
THEOREM ReportsAreBetween ==
  ASSUME SlotsArePowers
  PROVE  HistogramSpec => []ReportIsBetween
<1>1. HistogramInv => ReportIsBetween
  BY DEF HistogramInv
<1> QED BY <1>1, HistogramInvariant, PTL

-------------------------------------------------------------------------------
(* The latencies in the slots before j. *)
Below(j) == {v \in Latencies : log2_bucket(v) < j}

(* Adding up slots is adding up the samples in them. *)
LEMMA SlotsAddUp ==
  ASSUME SlotsArePowers, NEW seen \in [Latencies -> Nat], NEW b \in [Slots -> Nat],
         \A s \in Slots : b[s] = InSlot(s, seen), NEW n \in 0 .. MAX_BUCKETS
  PROVE  SumFunctionOnSet(b, 0 .. (n - 1)) = SumFunctionOnSet(seen, Below(n))
<1> DEFINE T == {j \in 0 .. MAX_BUCKETS :
                   SumFunctionOnSet(b, 0 .. (j - 1)) # SumFunctionOnSet(seen, Below(j))}
<1>1. SUFFICES ASSUME T # {} PROVE FALSE
  OBVIOUS
<1>2. MAX_BUCKETS \in Nat \ {0} /\ T \in SUBSET Nat
  BY HistogramSets
<1>3. PICK j \in T : \A i \in T : j <= i
  <2> HIDE DEF T
  <2> QED BY <1>1, <1>2, LeastNatural
<1>4. j \in 0 .. MAX_BUCKETS /\ j \in Nat
      /\ SumFunctionOnSet(b, 0 .. (j - 1)) # SumFunctionOnSet(seen, Below(j))
  BY <1>2, <1>3
<1>5. \A v \in Latencies : log2_bucket(v) \in Nat
  BY HistogramSets DEF SlotsArePowers, Slots
<1>6. j # 0
  <2>1. 0 .. (0 - 1) = {} /\ Below(0) = {}
    BY <1>5 DEF Below
  <2>2. SumFunctionOnSet(b, {}) = 0 /\ SumFunctionOnSet(seen, {}) = 0
    BY FS_EmptySet, SumType
  <2> QED BY <1>4, <2>1, <2>2
<1>7. PICK i : i = j - 1
  OBVIOUS
<1>8. i \in Slots /\ i \in Nat /\ i \in 0 .. MAX_BUCKETS /\ ~ (j <= i)
      /\ i \in 0 .. i /\ (0 .. i) \ {i} = 0 .. (i - 1) /\ 0 .. i \subseteq Slots /\ j = i + 1
  BY <1>2, <1>4, <1>6, <1>7 DEF Slots
<1>9. SumFunctionOnSet(b, 0 .. (i - 1)) = SumFunctionOnSet(seen, Below(i))
  BY <1>3, <1>8
<1>10. SumFunctionOnSet(b, 0 .. i) = b[i] + SumFunctionOnSet(b, 0 .. (i - 1))
  <2>1. PICK I : I = 0 .. i
    OBVIOUS
  <2>2. IsFiniteSet(0 .. i)
    <3>1. 0 \in Int /\ i \in Int
      BY <1>8
    <3> QED BY <3>1, FS_Interval
  <2>3. IsFiniteSet(I) /\ i \in I /\ I \ {i} = 0 .. (i - 1) /\ \A s \in I : b[s] \in Nat
    BY <1>8, <2>1, <2>2
  <2>4. SumFunctionOnSet(b, I) = b[i] + SumFunctionOnSet(b, I \ {i})
    BY <2>3, SumSplits
  <2> QED BY <2>1, <2>3, <2>4
<1>11. SumFunctionOnSet(seen, Below(j))
         = SumFunctionOnSet(seen, OfSlot(i)) + SumFunctionOnSet(seen, Below(i))
  <2>1. PICK P, Q : P = OfSlot(i) /\ Q = Below(i)
    OBVIOUS
  <2>2. P \in SUBSET Latencies /\ Q \in SUBSET Latencies /\ IsFiniteSet(P)
    BY <2>1, HistogramSets DEF Below
  <2>3. IsFiniteSet(Q)
    BY <2>2, HistogramSets, FS_Subset
  <2>4. \A v \in Latencies : /\ v \in P <=> log2_bucket(v) = i
                             /\ v \in Q <=> log2_bucket(v) < i
                             /\ v \in Below(j) <=> log2_bucket(v) < j
                             /\ log2_bucket(v) < j <=> log2_bucket(v) = i \/ log2_bucket(v) < i
                             /\ ~ (log2_bucket(v) = i /\ log2_bucket(v) < i)
    <3>1. \A v \in Latencies : v \in P <=> log2_bucket(v) = i
      BY <1>8, <2>1 DEF SlotsArePowers
    <3>2. \A v \in Latencies : /\ log2_bucket(v) < j <=> log2_bucket(v) = i \/ log2_bucket(v) < i
                               /\ ~ (log2_bucket(v) = i /\ log2_bucket(v) < i)
      BY <1>5, <1>8
    <3> QED BY <2>1, <3>1, <3>2 DEF Below
  <2>5. P \cap Q = {} /\ Below(j) = P \cup Q
    BY <2>2, <2>4 DEF Below
  <2>6. SumFunctionOnSet(seen, P \cup Q) = SumFunctionOnSet(seen, P) + SumFunctionOnSet(seen, Q)
    <3>1. \A v \in P \cup Q : seen[v] \in Nat
      BY <2>2
    <3> QED BY <2>2, <2>3, <2>5, <3>1, SumOfUnion
  <2> QED BY <2>1, <2>5, <2>6
<1>12. b[i] = SumFunctionOnSet(seen, OfSlot(i))
  BY <1>8, HistogramSets
<1>13. j - 1 = i
  BY <1>7
<1> QED BY <1>4, <1>9, <1>10, <1>11, <1>12, <1>13

UpTo(v) == {u \in Latencies : u <= v}

(* More latencies have no fewer samples. *)
LEMMA SamplesGrow ==
  ASSUME NEW seen \in [Latencies -> Nat], NEW Q \in SUBSET Latencies, NEW P \in SUBSET Q
  PROVE  /\ SumFunctionOnSet(seen, P) \in Nat /\ SumFunctionOnSet(seen, Q) \in Nat
         /\ SumFunctionOnSet(seen, P) <= SumFunctionOnSet(seen, Q)
<1>1. IsFiniteSet(Q) /\ IsFiniteSet(P)
  BY HistogramSets, FS_Subset
<1>2. /\ \A v \in Q : seen[v] \in Nat
      /\ \A v \in P : seen[v] \in Nat /\ seen[v] <= seen[v]
  OBVIOUS
<1>3. SumFunctionOnSet(seen, P) \in Nat /\ SumFunctionOnSet(seen, Q) \in Nat
  BY <1>1, <1>2, SumType
<1>4. SumFunctionOnSet(seen, P) <= SumFunctionOnSet(seen, Q)
  BY <1>1, <1>2, SumGrows
<1> QED BY <1>3, <1>4

(* The least latency at or below which there are enough samples is one of  *)
(* the samples.                                                            *)
LEMMA LeastWithShare ==
  ASSUME NEW seen \in [Latencies -> Nat], NEW target \in (Nat \ {0}) \X (Nat \ {0}),
         NEW total \in Nat \ {0}, NEW v \in Latencies,
         Reached(SumFunctionOnSet(seen, UpTo(v)), total, target),
         \A w \in Latencies : Reached(SumFunctionOnSet(seen, UpTo(w)), total, target) => v <= w
  PROVE  seen[v] > 0
<1> SUFFICES ASSUME ~ (seen[v] > 0) PROVE FALSE
  OBVIOUS
<1>1. seen[v] = 0 /\ v \in Nat /\ Latencies \subseteq Nat
  BY HistogramSets
<1>2. PICK U, L : U = UpTo(v) /\ L = U \ {v}
  OBVIOUS
<1>3. /\ U \in SUBSET Latencies /\ v \in U /\ L \in SUBSET U /\ L \in SUBSET Nat
      /\ \A u \in Latencies : u \in L <=> u < v
  <2>1. U \in SUBSET Latencies /\ v \in U /\ L \in SUBSET U /\ L \in SUBSET Nat
    BY <1>1, <1>2 DEF UpTo
  <2>2. ASSUME NEW u \in Latencies PROVE u \in L <=> u < v
    <3>1. u \in L <=> u <= v /\ u # v
      BY <1>2 DEF UpTo
    <3>2. u <= v /\ u # v <=> u < v
      BY <1>1
    <3> QED BY <3>1, <3>2
  <2> QED BY <2>1, <2>2
<1>4. IsFiniteSet(U) /\ IsFiniteSet(L)
  BY <1>3, HistogramSets, FS_Subset
<1>5. SumFunctionOnSet(seen, U) = SumFunctionOnSet(seen, L)
  <2>1. SumFunctionOnSet(seen, U) = seen[v] + SumFunctionOnSet(seen, U \ {v})
    BY <1>3, <1>4, SumSplits
  <2>2. SumFunctionOnSet(seen, L) \in Nat
    BY <1>3, SamplesGrow
  <2> QED BY <1>1, <1>2, <2>1, <2>2
<1>6. CASE L = {}
  <2>1. SumFunctionOnSet(seen, U) = 0
    BY <1>5, <1>6, FS_EmptySet, SumType
  <2>2. target[1] \in Nat /\ target[1] > 0 /\ target[2] \in Nat /\ total > 0 /\ target[2] > 0
    OBVIOUS
  <2>3. 0 * target[2] = 0 /\ total * target[1] > 0 /\ total * target[1] \in Nat
    BY <2>2, ProductPositive
  <2>4. 0 * target[2] >= total * target[1]
    BY <1>2, <2>1 DEF Reached
  <2> QED BY <2>3, <2>4
<1>7. CASE L # {}
  <2>1. PICK w \in L : \A u \in L : u <= w
    BY <1>3, <1>4, <1>7, GreatestNatural
  <2>2. w \in Latencies /\ w \in Nat /\ w < v
    BY <1>3, <2>1
  <2>3. UpTo(w) = L
    <3>1. \A u \in Latencies : u <= w <=> u \in L
      BY <1>1, <1>3, <2>1, <2>2
    <3> QED BY <1>3, <3>1 DEF UpTo
  <2>4. v <= w
    BY <1>2, <1>5, <2>2, <2>3
  <2> QED BY <1>1, <2>2, <2>4
<1> QED BY <1>6, <1>7

(* The slot computePercentiles finds is that of the sample with the rank.  *)
LEMMA PercentileIsRank ==
  ASSUME SlotsArePowers, NEW seen \in [Latencies -> Nat], NEW b \in [Slots -> Nat], b # Zeroes,
         \A s \in Slots : b[s] = InSlot(s, seen), NEW k \in DOMAIN Targets
  PROVE  \E v \in Latencies : /\ IsPercentile(v, seen, Targets[k])
                              /\ log2_bucket(v) = computePercentiles(b)[k]
<1>1. PICK target, total, n, d :
        target = Targets[k] /\ total = SumFunction(b) /\ n = target[1] /\ d = target[2]
  OBVIOUS
<1>2. target \in (Nat \ {0}) \X (Nat \ {0}) /\ n \in Nat \ {0} /\ d \in Nat \ {0} /\ n <= d
  BY <1>1, LatencyHistogramAssumption
<1> DEFINE A(v) == SumFunctionOnSet(seen, UpTo(v))
           Cum(s) == SumFunctionOnSet(b, 0 .. s)
           Met(v) == Reached(A(v), total, target)
<1>3. /\ MAX_BUCKETS \in Nat \ {0} /\ Latencies \subseteq Nat /\ IsFiniteSet(Latencies)
      /\ Slots \subseteq Nat /\ IsFiniteSet(Slots)
  <2>1. 0 \in Int /\ MAX_BUCKETS - 1 \in Int
    BY HistogramSets
  <2> QED BY <2>1, HistogramSets, FS_Interval DEF Slots
<1>4. \A v \in Latencies : log2_bucket(v) \in Slots /\ log2_bucket(v) \in Nat
  BY <1>3 DEF SlotsArePowers
<1>5. ASSUME NEW s \in Slots PROVE Cum(s) = SumFunctionOnSet(seen, Below(s + 1))
  <2>1. s + 1 \in 0 .. MAX_BUCKETS /\ (s + 1) - 1 = s
    BY <1>3 DEF Slots
  <2> QED BY <2>1, SlotsAddUp
<1>6. /\ total = SumFunctionOnSet(seen, Latencies) /\ total = Cum(MAX_BUCKETS - 1)
      /\ MAX_BUCKETS - 1 \in Slots
  <2>1. DOMAIN b = Slots /\ Slots = 0 .. (MAX_BUCKETS - 1) /\ MAX_BUCKETS - 1 \in Slots
        /\ (MAX_BUCKETS - 1) + 1 = MAX_BUCKETS
    BY <1>3 DEF Slots
  <2>2. Below(MAX_BUCKETS) = Latencies
    <3>1. \A i \in Slots : i < MAX_BUCKETS
      BY <1>3 DEF Slots
    <3>2. \A u \in Latencies : log2_bucket(u) < MAX_BUCKETS
      BY <1>4, <3>1
    <3> QED BY <3>2 DEF Below
  <2>3. total = Cum(MAX_BUCKETS - 1)
    BY <1>1, <2>1 DEF SumFunction
  <2> QED BY <1>5, <2>1, <2>2, <2>3
<1>7. total \in Nat \ {0}
  <2>1. PICK s \in Slots : b[s] # 0
    BY DEF Zeroes
  <2>2. SumFunctionOnSet(b, Slots) = b[s] + SumFunctionOnSet(b, Slots \ {s})
    BY <1>3, SumSplits
  <2>3. SumFunctionOnSet(b, Slots \ {s}) \in Nat
    <3>1. IsFiniteSet(Slots \ {s}) /\ \A r \in Slots \ {s} : b[r] \in Nat
      BY <1>3, FS_RemoveElement
    <3> QED BY <3>1, SumType
  <2>4. total = SumFunctionOnSet(b, Slots)
    BY <1>1 DEF SumFunction
  <2>5. b[s] \in Nat
    OBVIOUS
  <2> QED BY <2>1, <2>2, <2>3, <2>4, <2>5
<1>8. /\ total * n \in Nat /\ total * n > 0
      /\ \A c, e \in Nat : c <= e /\ Reached(c, total, target) => Reached(e, total, target)
      /\ \A c \in Nat : Reached(c, total, target) => c > 0
      /\ Reached(total, total, target)
  <2>1. total * n \in Nat /\ total * n > 0
    BY <1>2, <1>7, ProductPositive
  <2>2. ASSUME NEW c \in Nat, NEW e \in Nat, c <= e, Reached(c, total, target)
        PROVE  Reached(e, total, target)
    <3>1. c * d <= e * d /\ c * d \in Nat /\ e * d \in Nat
      BY <1>2, <2>2, ProductGrows
    <3>2. c * d >= total * n
      BY <1>1, <2>2 DEF Reached
    <3>3. e * d >= total * n
      BY <2>1, <3>1, <3>2
    <3> QED BY <1>1, <3>3 DEF Reached
  <2>3. ASSUME NEW c \in Nat, Reached(c, total, target) PROVE c > 0
    <3>1. c * d >= total * n
      BY <1>1, <2>3 DEF Reached
    <3>2. 0 * d = 0
      BY <1>2, ProductPositive
    <3>3. c # 0
      BY <2>1, <3>1, <3>2
    <3> QED BY <3>3
  <2>4. Reached(total, total, target)
    <3>1. total * n <= total * d /\ total * d \in Nat
      BY <1>2, <1>7, ProductGrows
    <3>2. total * d >= total * n
      BY <2>1, <3>1
    <3> QED BY <1>1, <3>2 DEF Reached
  <2> QED BY <2>1, <2>2, <2>3, <2>4
<1>9. PICK p \in Slots : /\ Reached(Cum(p), total, target)
                         /\ \A s \in Slots : Reached(Cum(s), total, target) => p <= s
                         /\ p = computePercentiles(b)[k]
  <2> DEFINE R == {s \in Slots : Reached(Cum(s), total, target)}
  <2>1. computePercentiles(b)[k] = Min(R)
    BY <1>1 DEF computePercentiles
  <2>2. R \in SUBSET Nat /\ R # {}
    BY <1>3, <1>6, <1>8
  <2> HIDE DEF R
  <2>3. \E m \in R : \A s \in R : m <= s
    BY <2>2, LeastNatural
  <2>4. Min(R) \in R /\ \A s \in R : Min(R) <= s
    BY <2>3 DEF Min
  <2> QED BY <2>1, <2>4 DEF R
<1>10. PICK v \in Latencies : Met(v) /\ \A w \in Latencies : Met(w) => v <= w
  <2> DEFINE R == {w \in Latencies : Met(w)}
  <2>1. Latencies # {}
    BY <1>6, <1>7, FS_EmptySet, SumType
  <2>2. PICK m \in Latencies : \A u \in Latencies : u <= m
    BY <1>3, <2>1, GreatestNatural
  <2>3. UpTo(m) = Latencies
    BY <2>2 DEF UpTo
  <2>4. m \in R /\ R \in SUBSET Nat
    BY <1>3, <1>6, <1>8, <2>3
  <2> HIDE DEF R
  <2>5. PICK w \in R : \A u \in R : w <= u
    BY <2>4, LeastNatural
  <2> QED BY <2>5 DEF R
<1>11. /\ v \in Nat /\ p \in Nat /\ log2_bucket(v) \in Nat /\ log2_bucket(v) \in Slots
       /\ \A u \in Latencies : u \in Nat
  BY <1>3, <1>4
<1>12. seen[v] > 0
  BY <1>2, <1>7, <1>10, LeastWithShare
<1>13. p <= log2_bucket(v)
  <2>1. PICK q : q = log2_bucket(v)
    OBVIOUS
  <2>2. UpTo(v) \in SUBSET Below(q + 1) /\ Below(q + 1) \in SUBSET Latencies
    <3>1. ASSUME NEW u \in Latencies, u <= v PROVE log2_bucket(u) < q + 1
      <4>1. log2_bucket(u) <= q /\ log2_bucket(u) \in Nat /\ q \in Nat
        BY <1>4, <2>1, <3>1 DEF SlotsArePowers
      <4> QED BY <4>1
    <3> QED BY <3>1 DEF UpTo, Below
  <2>3. A(v) \in Nat /\ Cum(q) \in Nat /\ A(v) <= Cum(q)
    BY <1>5, <1>11, <2>1, <2>2, SamplesGrow
  <2>4. Reached(Cum(q), total, target)
    BY <1>8, <1>10, <2>3
  <2> QED BY <1>9, <1>11, <2>1, <2>4
<1>14. ~ (p < log2_bucket(v))
  <2> SUFFICES ASSUME p < log2_bucket(v) PROVE FALSE
    OBVIOUS
  <2>1. PICK G : G = Below(p + 1)
    OBVIOUS
  <2>2. /\ G \in SUBSET Latencies /\ G \in SUBSET Nat /\ IsFiniteSet(G)
        /\ Cum(p) = SumFunctionOnSet(seen, G)
    <3>1. G \in SUBSET Latencies
      BY <2>1 DEF Below
    <3> QED BY <1>3, <1>5, <2>1, <3>1, FS_Subset
  <2>3. Cum(p) \in Nat /\ Cum(p) > 0
    BY <1>8, <1>9, <2>2, SamplesGrow
  <2>4. G # {}
    BY <2>2, <2>3, FS_EmptySet, SumType
  <2>5. PICK w \in G : \A u \in G : u <= w
    BY <2>2, <2>4, GreatestNatural
  <2>6. w \in Latencies /\ w \in Nat /\ log2_bucket(w) \in Nat /\ log2_bucket(w) < p + 1
    BY <1>4, <1>11, <2>1, <2>2, <2>5 DEF Below
  <2>7. UpTo(w) \in SUBSET Latencies /\ G \in SUBSET UpTo(w)
    BY <2>2, <2>5 DEF UpTo
  <2>8. A(w) \in Nat /\ Cum(p) <= A(w)
    BY <2>2, <2>7, SamplesGrow
  <2>9. Met(w)
    BY <1>8, <1>9, <2>3, <2>8
  <2>10. log2_bucket(v) <= log2_bucket(w)
    BY <1>10, <2>6, <2>9 DEF SlotsArePowers
  <2> QED BY <1>11, <2>6, <2>10
<1>15. log2_bucket(v) = p
  BY <1>11, <1>13, <1>14
<1>16. IsPercentile(v, seen, target)
  <2>1. total = SumFunction(seen)
    <3>1. DOMAIN seen = Latencies
      OBVIOUS
    <3> QED BY <1>6, <3>1 DEF SumFunction
  <2>2. \A w \in Latencies :
          Met(w) <=> SumFunctionOnSet(seen, {u \in Latencies : u <= w}) * target[2]
                       >= SumFunction(seen) * target[1]
    BY <2>1 DEF Reached, UpTo
  <2>3. \A u \in Latencies : u < v => ~ Met(u)
    BY <1>10, <1>11
  <2> QED BY <1>10, <1>12, <2>2, <2>3 DEF IsPercentile
<1> QED BY <1>1, <1>9, <1>15, <1>16

-------------------------------------------------------------------------------
(* The percentiles of a report are computed from the slots it was given. *)
PercentilesOfSlots ==
  report # NoReport =>
    /\ report.buckets \in [Slots -> Nat] /\ report.buckets # Zeroes
    /\ report.percentiles = computePercentiles(report.buckets)
    /\ report.to \in [Latencies -> Nat]

PercentileInv == HistogramInv /\ PercentilesOfSlots

LEMMA NextPreservesPercentilesOfSlots ==
  ASSUME HistogramInv, PercentilesOfSlots, [HistogramNext]_histogramVars
  PROVE  PercentilesOfSlots'
<1>1. CASE UNCHANGED report
  BY <1>1 DEF PercentilesOfSlots
<1>2. CASE Publish
  <2>1. combined \in [Slots -> Nat] /\ counted \in [Latencies -> Nat]
    BY DEF HistogramInv, HistogramTypeOK
  <2>2. CASE report' = NoReport
    BY <2>2 DEF PercentilesOfSlots
  <2>3. CASE report' # NoReport
    <3>1. /\ combined # Zeroes
          /\ report' = [percentiles |-> computePercentiles(combined), buckets |-> combined,
                        upto |-> slot, from |-> before, to |-> counted]
      BY <1>2, <2>3 DEF Publish
    <3>2. /\ report'.percentiles = computePercentiles(combined)
          /\ report'.buckets = combined /\ report'.to = counted
      BY <3>1
    <3> QED BY <2>1, <3>1, <3>2 DEF PercentilesOfSlots
  <2> QED BY <2>2, <2>3
<1>3. CASE UNCHANGED histogramVars
  BY <1>1, <1>3 DEF histogramVars
<1>4. ASSUME NEW c \in Cpus, NEW v \in Latencies, hist_update(c, v) PROVE PercentilesOfSlots'
  BY <1>1, <1>4 DEF hist_update
<1>5. CASE Begin \/ ReadSlot
  BY <1>1, <1>5 DEF Begin, ReadSlot
<1> QED BY <1>2, <1>3, <1>4, <1>5 DEF HistogramNext

(* When nothing was counted during the reading, the slots of the report    *)
(* hold exactly the samples, and the percentiles are their ranks.          *)
LEMMA PercentileInvImpliesRanks ==
  ASSUME SlotsArePowers, PercentileInv
  PROVE  PercentilesAreRanks
<1> SUFFICES ASSUME report # NoReport, report.upto = MAX_BUCKETS, report.from = report.to,
                    NEW k \in DOMAIN Targets
             PROVE  \E v \in Latencies : /\ IsPercentile(v, report.to, Targets[k])
                                         /\ log2_bucket(v) = report.percentiles[k]
  BY DEF PercentilesAreRanks
<1>1. PICK seen, b : seen = report.to /\ b = report.buckets
  OBVIOUS
<1>2. /\ b \in [Slots -> Nat] /\ b # Zeroes /\ seen \in [Latencies -> Nat]
      /\ report.percentiles = computePercentiles(b)
  BY <1>1 DEF PercentileInv, PercentilesOfSlots
<1>3. ASSUME NEW s \in Slots PROVE b[s] = InSlot(s, seen)
  <2>1. s < MAX_BUCKETS
    BY HistogramSets DEF Slots
  <2>2. InSlot(s, seen) <= b[s] /\ b[s] <= InSlot(s, seen)
    BY <1>1, <2>1 DEF PercentileInv, HistogramInv, ReportIsBetween
  <2>3. b[s] \in Nat /\ InSlot(s, seen) \in Nat
    <3>1. \A v \in Latencies : seen[v] <= seen[v]
      BY <1>2
    <3> QED BY <1>2, <3>1, SlotsGrow
  <2> QED BY <2>2, <2>3
<1>4. \E v \in Latencies : /\ IsPercentile(v, seen, Targets[k])
                           /\ log2_bucket(v) = computePercentiles(b)[k]
  BY <1>2, <1>3, PercentileIsRank
<1> QED BY <1>1, <1>2, <1>4

(* The slot reported for a percentile is that of the sample of this rank,  *)
(* for any targets, any number of CPUs and any samples.                    *)
THEOREM PercentilesAreOfRanks ==
  ASSUME SlotsArePowers
  PROVE  HistogramSpec => []PercentilesAreRanks
<1>1. HistogramInit => PercentilesOfSlots
  BY DEF HistogramInit, PercentilesOfSlots
<1>2. HistogramInv /\ PercentilesOfSlots /\ [HistogramNext]_histogramVars => PercentilesOfSlots'
  BY NextPreservesPercentilesOfSlots
<1>3. HistogramInv /\ PercentilesOfSlots => PercentilesAreRanks
  BY PercentileInvImpliesRanks DEF PercentileInv
<1> QED BY <1>1, <1>2, <1>3, HistogramInvariant, PTL DEF HistogramSpec
-------------------------------------------------------------------------------
(* What the terminal dashboard has collected.                              *)

(* The pieces after the last closing brace. *)
Open ==
  {i \in 1 .. Len(lines) :
     lines[i] \in Pieces /\ \A j \in i .. Len(lines) : lines[j] # "closing"}

(* Every part so far began with an opening brace. *)
Healthy == \A j \in 1 .. Len(lines) : lines[j] = "closing" => WellBegun(Part(j))

Increasing(seq) == \A i, j \in DOMAIN seq : i < j => seq[i] < seq[j]
Elements(seq) == {seq[i] : i \in DOMAIN seq}

BufferIsPart ==
  IF Healthy
  THEN Elements(buf) = Open /\ Increasing(buf)
  ELSE buf # <<>> /\ lines[buf[1]] \notin Openings

TerminalInv == TerminalTypeOK /\ BufferIsPart /\ RenderedReports

(* One more line changes nothing about the lines before it. *)
LEMMA LinesGrow ==
  ASSUME TerminalTypeOK, NEW kind \in Kinds, lines' = Append(lines, kind),
         NEW n, n = Len(lines)
  PROVE  /\ n \in Nat /\ lines' \in Seq(Kinds) /\ Len(lines') = n + 1
         /\ lines'[n + 1] = kind /\ \A k \in 1 .. n : lines'[k] = lines[k]
         /\ \A k \in 1 .. n : Part(k)' = Part(k) /\ (Understood(k)' <=> Understood(k))
         /\ kind \in Pieces => Part(n + 1)' = Open \cup {n + 1}
         /\ kind \notin Pieces => Open' = Open
         /\ kind \in Pieces \ {"closing"} => Open' = Open \cup {n + 1}
         /\ kind = "closing" => Open' = {}
         /\ Healthy' <=> Healthy /\ (kind = "closing" => WellBegun(Part(n + 1))')
<1>1. /\ n \in Nat /\ lines' \in Seq(Kinds) /\ Len(lines') = n + 1
      /\ lines'[n + 1] = kind /\ \A k \in 1 .. n : lines'[k] = lines[k]
  BY AppendProperties, LenProperties DEF TerminalTypeOK
<1>2. \A k \in 1 .. n : Part(k)' = Part(k)
  BY <1>1 DEF Part
<1>3. ASSUME NEW k \in 1 .. n PROVE WellBegun(Part(k))' <=> WellBegun(Part(k))
  <2>1. Part(k) \in SUBSET (1 .. n)
    BY <1>1 DEF Part
  <2> QED BY <1>1, <1>2, <2>1 DEF WellBegun
<1>4. ASSUME NEW k \in 1 .. n PROVE Understood(k)' <=> Understood(k)
  <2>1. 1 .. k \in SUBSET (1 .. n)
    BY <1>1
  <2>2. IsReport(k)' <=> IsReport(k)
    BY <1>1, <1>2, <2>1 DEF IsReport
  <2> QED BY <1>1, <1>3, <2>1, <2>2 DEF Understood
<1>5. kind \in Pieces => Part(n + 1)' = Open \cup {n + 1}
  BY <1>1 DEF Part, Open
<1>6. /\ kind \notin Pieces => Open' = Open
      /\ kind \in Pieces \ {"closing"} => Open' = Open \cup {n + 1}
      /\ kind = "closing" => Open' = {}
  <2>1. "closing" \in Pieces
    BY DEF Pieces
  <2>2. Open' = {i \in 1 .. (n + 1) :
                   lines'[i] \in Pieces /\ \A j \in i .. (n + 1) : lines'[j] # "closing"}
    BY <1>1 DEF Open
  <2>3. Open = {i \in 1 .. n : lines[i] \in Pieces /\ \A j \in i .. n : lines[j] # "closing"}
    BY DEF Open
  <2>4. ASSUME NEW i \in 1 .. n
        PROVE  i \in Open' <=> i \in Open /\ kind # "closing"
    BY <1>1, <2>2, <2>3
  <2>5. n + 1 \in Open' <=> kind \in Pieces /\ kind # "closing"
    BY <1>1, <2>2
  <2>6. Open' \in SUBSET (1 .. (n + 1)) /\ Open \in SUBSET (1 .. n)
    BY <2>2, <2>3
  <2>7. PICK was, is : was = Open /\ is = Open'
    OBVIOUS
  <2>8. /\ was \in SUBSET (1 .. n) /\ is \in SUBSET (1 .. (n + 1))
        /\ \A i \in 1 .. n : i \in is <=> i \in was /\ kind # "closing"
        /\ n + 1 \in is <=> kind \in Pieces /\ kind # "closing"
    BY <2>4, <2>5, <2>6, <2>7
  <2>9. \A i \in is : i \in 1 .. n \/ i = n + 1
    BY <1>1, <2>8
  <2>10. kind \notin Pieces => is = was
    BY <2>1, <2>8, <2>9
  <2>11. kind \in Pieces \ {"closing"} => is = was \cup {n + 1}
    BY <2>8, <2>9
  <2>12. kind = "closing" => is = {}
    BY <2>8, <2>9
  <2> QED BY <2>7, <2>10, <2>11, <2>12
<1>7. Healthy' <=> Healthy /\ (kind = "closing" => WellBegun(Part(n + 1))')
  <2>1. Healthy' <=> \A j \in 1 .. (n + 1) : lines'[j] = "closing" => WellBegun(Part(j))'
    BY <1>1 DEF Healthy
  <2>2. Healthy <=> \A j \in 1 .. n : lines'[j] = "closing" => WellBegun(Part(j))'
    BY <1>1, <1>3 DEF Healthy
  <2>3. 1 .. (n + 1) = (1 .. n) \cup {n + 1}
    BY <1>1
  <2> QED BY <1>1, <2>1, <2>2, <2>3
<1> QED BY <1>1, <1>2, <1>4, <1>5, <1>6, <1>7

(* What has been rendered stays what it should be, if the new line is      *)
(* rendered just when it should be. *)
LEMMA RenderingGrows ==
  ASSUME TerminalInv, NEW kind \in Kinds, lines' = Append(lines, kind), NEW n, n = Len(lines),
         \/ shown' = shown /\ ~ Understood(n + 1)'
         \/ shown' = Append(shown, n + 1) /\ Understood(n + 1)'
  PROVE  shown' \in Seq(1 .. (n + 1)) /\ RenderedReports'
<1>1. /\ n \in Nat /\ Len(lines') = n + 1 /\ shown \in Seq(1 .. n)
      /\ \A k \in 1 .. n : Understood(k)' <=> Understood(k)
  BY LinesGrow DEF TerminalInv, TerminalTypeOK
<1>2. /\ \A k \in 1 .. n : (\E i \in DOMAIN shown : shown[i] = k) <=> Understood(k)'
      /\ \A i, j \in DOMAIN shown : i < j => shown[i] < shown[j]
  BY <1>1 DEF TerminalInv, RenderedReports
<1>3. \A i \in DOMAIN shown : shown[i] \in 1 .. n
  BY <1>1, ElementOfSeq
<1>4. /\ shown \in Seq(1 .. (n + 1)) /\ Len(shown) \in Nat /\ DOMAIN shown = 1 .. Len(shown)
  <2>1. 1 .. n \in SUBSET (1 .. (n + 1))
    BY <1>1
  <2>2. Len(shown) \in Nat /\ DOMAIN shown = 1 .. Len(shown)
    BY <1>1, LenProperties
  <2>3. shown \in [1 .. Len(shown) -> 1 .. (n + 1)]
    BY <1>1, <1>3, <2>1, <2>2, LenProperties
  <2> QED BY <2>2, <2>3, SeqDef
<1>5. CASE shown' = shown /\ ~ Understood(n + 1)'
  <2>1. \A k \in 1 .. (n + 1) : (\E i \in DOMAIN shown : shown[i] = k) <=> Understood(k)'
    <3>1. ~ \E i \in DOMAIN shown : shown[i] = n + 1
      BY <1>1, <1>3
    <3>2. 1 .. (n + 1) = (1 .. n) \cup {n + 1}
      BY <1>1
    <3> QED BY <1>2, <1>5, <3>1, <3>2
  <2> QED BY <1>1, <1>2, <1>4, <1>5, <2>1 DEF RenderedReports
<1>6. CASE shown' = Append(shown, n + 1) /\ Understood(n + 1)'
  <2>1. PICK m, after : m = Len(shown) /\ after = shown'
    OBVIOUS
  <2>2. /\ after \in Seq(1 .. (n + 1)) /\ DOMAIN after = 1 .. (m + 1) /\ m \in Nat
        /\ after[m + 1] = n + 1 /\ \A i \in 1 .. m : after[i] = shown[i]
    <3>1. n + 1 \in 1 .. (n + 1)
      BY <1>1
    <3>2. PICK x, S : x = n + 1 /\ S = 1 .. (n + 1)
      OBVIOUS
    <3>3. x \in S /\ shown \in Seq(S) /\ after = Append(shown, x)
      BY <1>4, <1>6, <2>1, <3>1, <3>2
    <3>4. /\ after \in Seq(S) /\ Len(after) = m + 1 /\ after[m + 1] = x
          /\ \A i \in 1 .. m : after[i] = shown[i]
      BY <2>1, <3>3, AppendProperties
    <3>5. DOMAIN after = 1 .. (m + 1) /\ m \in Nat
      BY <2>1, <3>3, <3>4, LenProperties
    <3> QED BY <3>2, <3>4, <3>5
  <2>3. ASSUME NEW k \in 1 .. (n + 1)
        PROVE  (\E i \in DOMAIN after : after[i] = k) <=> Understood(k)'
    <3>1. CASE k = n + 1
      <4>1. m + 1 \in DOMAIN after
        BY <2>2
      <4> QED BY <1>6, <2>2, <3>1, <4>1
    <3>2. CASE k # n + 1
      <4>1. k \in 1 .. n
        BY <1>1, <3>2
      <4>2. (\E i \in 1 .. m : shown[i] = k) <=> Understood(k)'
        BY <1>2, <1>4, <2>1, <4>1
      <4>3. \A i \in DOMAIN after : i \in 1 .. m \/ after[i] = n + 1
        BY <2>2
      <4>4. \A i \in 1 .. m : i \in DOMAIN after
        BY <2>2
      <4> QED BY <2>2, <3>2, <4>2, <4>3, <4>4
    <3> QED BY <3>1, <3>2
  <2>4. ASSUME NEW i \in DOMAIN after, NEW j \in DOMAIN after, i < j
        PROVE  after[i] < after[j]
    <3>1. i \in 1 .. m /\ after[i] = shown[i] /\ shown[i] \in 1 .. n
      BY <1>3, <1>4, <2>1, <2>2, <2>4
    <3>2. CASE j = m + 1
      BY <1>1, <2>2, <3>1, <3>2
    <3>3. CASE j # m + 1
      <4>1. j \in 1 .. m /\ after[j] = shown[j]
        BY <2>2, <3>3
      <4> QED BY <1>2, <1>4, <2>1, <2>4, <3>1, <4>1
    <3> QED BY <3>2, <3>3
  <2> QED BY <1>1, <2>1, <2>2, <2>3, <2>4 DEF RenderedReports
<1> QED BY <1>4, <1>5, <1>6

(* The block that a closing brace completes, when all is well: its lines   *)
(* are the part that the brace ends. *)
LEMMA BlockIsPart ==
  ASSUME NEW m \in Nat, NEW block \in Seq(1 .. m), block # <<>>, Increasing(block),
         block[Len(block)] = m, Part(m)' = Elements(block), lines'[m] = "closing"
  PROVE  /\ Starts(block) <=> WellBegun(Part(m))'
         /\ Parses(block) <=> IsReport(m)'
<1>1. /\ Len(block) \in Nat \ {0} /\ DOMAIN block = 1 .. Len(block)
      /\ \A i \in 1 .. Len(block) : block[i] \in 1 .. m
  BY LenProperties, EmptySeq, ElementOfSeq
<1>2. \A i \in DOMAIN block : block[1] <= block[i]
  BY <1>1 DEF Increasing
<1>3. Starts(block) <=> WellBegun(Part(m))'
  <2>1. block[1] \in Elements(block) /\ \A x \in Elements(block) : block[1] <= x
    BY <1>1, <1>2 DEF Elements
  <2>2. \A x \in Elements(block) : x \in Nat
    BY <1>1 DEF Elements
  <2>3. WellBegun(Part(m))' <=>
          \E a \in Elements(block) : lines'[a] \in Openings /\ \A x \in Elements(block) : a <= x
    BY DEF WellBegun
  <2> HIDE DEF Elements
  <2> QED BY <2>1, <2>2, <2>3 DEF Starts
<1>4. Parses(block) => IsReport(m)'
  <2> SUFFICES ASSUME Parses(block) PROVE IsReport(m)'
    OBVIOUS
  <2>1. /\ Len(block) = 3 /\ block[3] = m
        /\ lines'[block[1]] = "opening" /\ lines'[block[2]] = "fields"
    BY DEF Parses
  <2>2. Elements(block) = {block[1], block[2], m} /\ block[1] < block[2] /\ block[2] < m
    BY <1>1, <2>1 DEF Elements, Increasing
  <2>3. block[1] \in 1 .. m /\ block[2] \in 1 .. m
    BY <1>1, <2>1
  <2> QED BY <2>1, <2>2, <2>3 DEF IsReport
<1>5. IsReport(m)' => Parses(block)
  <2> SUFFICES ASSUME IsReport(m)' PROVE Parses(block)
    OBVIOUS
  <2>1. PICK a, b \in 1 .. m : /\ a < b /\ b < m /\ Elements(block) = {a, b, m}
                               /\ lines'[a] = "opening" /\ lines'[b] = "fields"
    BY DEF IsReport
  <2>2. \A i \in 1 .. Len(block) : block[i] = a \/ block[i] = b \/ block[i] = m
    BY <1>1, <2>1 DEF Elements
  <2>3. PICK ia, ib \in 1 .. Len(block) : block[ia] = a /\ block[ib] = b
    BY <1>1, <2>1 DEF Elements
  <2>4. ia < ib /\ ib < Len(block)
    <3>1. \A i, j \in 1 .. Len(block) : i < j => block[i] < block[j]
      BY <1>1 DEF Increasing
    <3> QED BY <1>1, <2>1, <2>3, <3>1
  <2>5. \A i \in 1 .. Len(block) : i = ia \/ i = ib \/ i = Len(block)
    <3>1. ASSUME NEW i \in 1 .. Len(block), NEW j \in 1 .. Len(block), block[i] = block[j]
          PROVE  i = j
      <4>1. i < j => block[i] < block[j]
        BY <1>1 DEF Increasing
      <4>2. j < i => block[j] < block[i]
        BY <1>1 DEF Increasing
      <4> QED BY <1>1, <3>1, <4>1, <4>2
    <3> SUFFICES ASSUME NEW i \in 1 .. Len(block) PROVE i = ia \/ i = ib \/ i = Len(block)
      OBVIOUS
    <3>2. block[i] \in {block[ia], block[ib], block[Len(block)]}
      BY <2>2, <2>3
    <3>3. Len(block) \in 1 .. Len(block)
      BY <1>1
    <3> QED BY <2>3, <3>1, <3>2, <3>3
  <2>6. Len(block) = 3 /\ ia = 1 /\ ib = 2
    <3>1. 1 \in 1 .. Len(block) /\ 2 \in 1 .. Len(block) /\ 3 \in 1 .. Len(block)
      BY <1>1, <2>4
    <3>2. PICK k \in Nat : k = Len(block)
      BY <1>1
    <3>3. /\ ia \in 1 .. k /\ ib \in 1 .. k /\ ia < ib /\ ib < k
          /\ \A i \in 1 .. k : i = ia \/ i = ib \/ i = k
          /\ 1 \in 1 .. k /\ 2 \in 1 .. k /\ 3 \in 1 .. k
      BY <2>3, <2>4, <2>5, <3>1, <3>2
    <3>4. ia = 1
      <4>1. 1 = ia \/ 1 = ib \/ 1 = k
        BY <3>3
      <4> QED BY <3>2, <3>3, <4>1
    <3>5. ib = 2
      <4>1. 2 = ia \/ 2 = ib \/ 2 = k
        BY <3>3
      <4> QED BY <3>2, <3>3, <3>4, <4>1
    <3>6. k = 3
      <4>1. 3 = ia \/ 3 = ib \/ 3 = k
        BY <3>3
      <4> QED BY <3>4, <3>5, <4>1
    <3> QED BY <3>2, <3>4, <3>5, <3>6
  <2> QED BY <2>1, <2>3, <2>6 DEF Parses
<1> QED BY <1>3, <1>4, <1>5

(* A line that is a whole object, or blank, leaves the buffer alone. *)
LEMMA UncollectedKeepsInv ==
  ASSUME TerminalInv, ReadWhole \/ ReadBlank
  PROVE  TerminalInv'
<1>1. PICK n : n = Len(lines)
  OBVIOUS
<1>2. PICK kind \in Whole \cup {"blank"} :
        /\ lines' = Append(lines, kind) /\ buf' = buf
        /\ shown' = IF kind = "report" THEN Append(shown, n + 1) ELSE shown
  BY <1>1 DEF ReadWhole, ReadBlank, Read, Whole, Now
<1>3. kind \in Kinds /\ kind \notin Pieces /\ kind # "closing"
  BY <1>2 DEF Kinds, Whole, Pieces, Openings
<1>4. /\ TerminalTypeOK /\ n \in Nat /\ lines' \in Seq(Kinds) /\ Len(lines') = n + 1
      /\ lines'[n + 1] = kind /\ \A k \in 1 .. n : lines'[k] = lines[k]
      /\ Open' = Open /\ (Healthy' <=> Healthy)
  BY <1>1, <1>2, <1>3, LinesGrow DEF TerminalInv
<1>5. Understood(n + 1)' <=> kind = "report"
  BY <1>3, <1>4 DEF Understood, IsReport
<1>6. shown' \in Seq(1 .. (n + 1)) /\ RenderedReports'
  BY <1>1, <1>2, <1>3, <1>5, RenderingGrows
<1>7. buf \in Seq(1 .. n) /\ \A i \in DOMAIN buf : buf[i] \in 1 .. n
  BY <1>1, ElementOfSeq DEF TerminalInv, TerminalTypeOK
<1>8. buf' \in Seq(1 .. (n + 1))
  <2>1. Len(buf) \in Nat /\ DOMAIN buf = 1 .. Len(buf) /\ buf \in [1 .. Len(buf) -> 1 .. n]
    BY <1>7, LenProperties
  <2>2. buf \in [1 .. Len(buf) -> 1 .. (n + 1)]
    BY <1>4, <2>1
  <2> QED BY <1>2, <2>1, <2>2, SeqDef
<1>9. BufferIsPart'
  <2>1. CASE Healthy
    BY <1>2, <1>4, <2>1 DEF TerminalInv, BufferIsPart, Elements, Increasing
  <2>2. CASE ~ Healthy
    <3>1. buf # <<>> /\ lines[buf[1]] \notin Openings
      BY <2>2 DEF TerminalInv, BufferIsPart
    <3>2. buf[1] \in 1 .. n
      BY <1>7, <3>1, EmptySeq, LenProperties
    <3> QED BY <1>2, <1>4, <2>2, <3>1, <3>2 DEF BufferIsPart
  <2> QED BY <2>1, <2>2
<1> QED BY <1>4, <1>6, <1>8, <1>9 DEF TerminalInv, TerminalTypeOK

(* A piece is collected; a closing brace may complete a block. *)
LEMMA CollectKeepsInv ==
  ASSUME TerminalInv, NEW kind \in Pieces, Collect(kind)
  PROVE  TerminalInv'
<1>1. PICK n : n = Len(lines)
  OBVIOUS
<1>2. PICK all : all = Append(buf, n + 1)
  OBVIOUS
<1>3. /\ lines' = Append(lines, kind)
      /\ IF kind = "closing" /\ Starts(all)
         THEN buf' = <<>> /\ shown' = IF Parses(all) THEN Append(shown, n + 1) ELSE shown
         ELSE buf' = all /\ shown' = shown
  BY <1>1, <1>2 DEF Collect, Read, Now
<1>4. kind \in Kinds /\ kind # "report"
  BY DEF Kinds, Pieces, Openings
<1>5. /\ TerminalTypeOK /\ n \in Nat /\ lines' \in Seq(Kinds) /\ Len(lines') = n + 1
      /\ lines'[n + 1] = kind /\ \A k \in 1 .. n : lines'[k] = lines[k]
      /\ Part(n + 1)' = Open \cup {n + 1}
      /\ kind # "closing" => Open' = Open \cup {n + 1}
      /\ kind = "closing" => Open' = {}
      /\ Healthy' <=> Healthy /\ (kind = "closing" => WellBegun(Part(n + 1))')
  BY <1>1, <1>3, <1>4, LinesGrow DEF TerminalInv
<1>6. buf \in Seq(1 .. n) /\ \A i \in DOMAIN buf : buf[i] \in 1 .. n
  BY <1>1, ElementOfSeq DEF TerminalInv, TerminalTypeOK
<1>7. Len(buf) \in Nat /\ DOMAIN buf = 1 .. Len(buf) /\ buf \in [1 .. Len(buf) -> 1 .. n]
  BY <1>6, LenProperties
<1>8. buf \in Seq(1 .. (n + 1))
  <2>1. buf \in [1 .. Len(buf) -> 1 .. (n + 1)]
    BY <1>5, <1>7
  <2> QED BY <1>7, <2>1, SeqDef
<1>9. /\ all \in Seq(1 .. (n + 1)) /\ all # <<>> /\ Len(all) = Len(buf) + 1
      /\ DOMAIN all = 1 .. (Len(buf) + 1) /\ all[Len(buf) + 1] = n + 1
      /\ \A i \in 1 .. Len(buf) : all[i] = buf[i]
  <2>1. n + 1 \in 1 .. (n + 1)
    BY <1>5
  <2> QED BY <1>2, <1>7, <1>8, <2>1, AppendProperties
<1>10. Understood(n + 1)' <=> kind = "closing" /\ IsReport(n + 1)' /\ Healthy'
  <2>1. Healthy' <=> \A j \in 1 .. (n + 1) : lines'[j] = "closing" => WellBegun(Part(j))'
    BY <1>5 DEF Healthy
  <2>2. IsReport(n + 1)' => kind = "closing"
    BY <1>5 DEF IsReport
  <2> QED BY <1>4, <1>5, <2>1, <2>2 DEF Understood
<1>11. CASE Healthy
  <2>1. Elements(buf) = Open /\ Increasing(buf)
    BY <1>11 DEF TerminalInv, BufferIsPart
  <2>2. Increasing(all)
    <3> SUFFICES ASSUME NEW i \in DOMAIN all, NEW j \in DOMAIN all, i < j
                 PROVE  all[i] < all[j]
      BY DEF Increasing
    <3>1. i \in 1 .. Len(buf) /\ all[i] = buf[i] /\ buf[i] \in 1 .. n
      BY <1>6, <1>7, <1>9
    <3>2. CASE j = Len(buf) + 1
      BY <1>5, <1>9, <3>1, <3>2
    <3>3. CASE j # Len(buf) + 1
      <4>1. j \in 1 .. Len(buf) /\ all[j] = buf[j]
        BY <1>7, <1>9, <3>3
      <4> QED BY <1>7, <2>1, <3>1, <4>1 DEF Increasing
    <3> QED BY <3>2, <3>3
  <2>3. Elements(all) = Open \cup {n + 1}
    <3>1. Elements(all) = Elements(buf) \cup {n + 1}
      BY <1>7, <1>9 DEF Elements
    <3> QED BY <2>1, <3>1
  <2>4. CASE kind # "closing"
    <3>1. buf' = all /\ shown' = shown /\ ~ Understood(n + 1)'
      BY <1>3, <1>10, <2>4
    <3>2. BufferIsPart'
      BY <1>5, <1>11, <2>2, <2>3, <2>4, <3>1 DEF BufferIsPart
    <3>3. shown' \in Seq(1 .. (n + 1)) /\ RenderedReports'
      BY <1>1, <1>3, <1>4, <3>1, RenderingGrows
    <3> QED BY <1>5, <1>9, <3>1, <3>2, <3>3 DEF TerminalInv, TerminalTypeOK
  <2>5. CASE kind = "closing"
    <3>1. /\ Starts(all) <=> WellBegun(Part(n + 1))'
          /\ Parses(all) <=> IsReport(n + 1)'
      <4>1. n + 1 \in Nat
        BY <1>5
      <4>2. all[Len(all)] = n + 1 /\ Part(n + 1)' = Elements(all) /\ lines'[n + 1] = "closing"
        BY <1>5, <1>9, <2>3, <2>5
      <4> QED BY <1>9, <2>2, <4>1, <4>2, BlockIsPart
    <3>2. CASE Starts(all)
      <4>1. Healthy' /\ buf' = <<>> /\ Open' = {}
        BY <1>3, <1>5, <1>11, <2>5, <3>1, <3>2
      <4>2. \/ shown' = shown /\ ~ Understood(n + 1)'
            \/ shown' = Append(shown, n + 1) /\ Understood(n + 1)'
        BY <1>3, <1>10, <2>5, <3>1, <3>2, <4>1
      <4>3. shown' \in Seq(1 .. (n + 1)) /\ RenderedReports'
        BY <1>1, <1>3, <1>4, <4>2, RenderingGrows
      <4>4. BufferIsPart'
        BY <4>1 DEF BufferIsPart, Elements, Increasing
      <4>5. buf' \in Seq(1 .. (n + 1))
        BY <4>1
      <4> QED BY <1>5, <4>3, <4>4, <4>5 DEF TerminalInv, TerminalTypeOK
    <3>3. CASE ~ Starts(all)
      <4>1. ~ Healthy' /\ buf' = all /\ shown' = shown
        BY <1>3, <1>5, <2>5, <3>1, <3>3
      <4>2. lines'[all[1]] \notin Openings
        BY <3>3 DEF Starts
      <4>3. BufferIsPart'
        BY <1>9, <4>1, <4>2 DEF BufferIsPart
      <4>4. shown' \in Seq(1 .. (n + 1)) /\ RenderedReports'
        BY <1>1, <1>3, <1>4, <1>10, <4>1, RenderingGrows
      <4> QED BY <1>5, <1>9, <4>1, <4>3, <4>4 DEF TerminalInv, TerminalTypeOK
    <3> QED BY <3>2, <3>3
  <2> QED BY <2>4, <2>5
<1>12. CASE ~ Healthy
  <2>1. buf # <<>> /\ lines[buf[1]] \notin Openings
    BY <1>12 DEF TerminalInv, BufferIsPart
  <2>2. 1 \in 1 .. Len(buf) /\ buf[1] \in 1 .. n /\ all[1] = buf[1]
    BY <1>6, <1>7, <1>9, <2>1, EmptySeq
  <2>3. ~ Starts(all) /\ lines'[all[1]] \notin Openings
    BY <1>5, <2>1, <2>2 DEF Starts
  <2>4. ~ Healthy' /\ buf' = all /\ shown' = shown /\ ~ Understood(n + 1)'
    BY <1>3, <1>5, <1>10, <1>12, <2>3
  <2>5. BufferIsPart'
    BY <1>9, <2>3, <2>4 DEF BufferIsPart
  <2>6. shown' \in Seq(1 .. (n + 1)) /\ RenderedReports'
    BY <1>1, <1>3, <1>4, <2>4, RenderingGrows
  <2> QED BY <1>5, <1>9, <2>4, <2>5, <2>6 DEF TerminalInv, TerminalTypeOK
<1> QED BY <1>11, <1>12

(* Just the reports that can be told from the lines are rendered, once and *)
(* in order, whatever is piped into the terminal dashboard.                *)
THEOREM ReportsRendered == TerminalSpec => []RenderedReports
<1>1. TerminalInit => TerminalInv
  <2> SUFFICES ASSUME TerminalInit PROVE TerminalInv
    OBVIOUS
  <2>1. lines = <<>> /\ buf = <<>> /\ shown = <<>> /\ Len(lines) = 0
    BY DEF TerminalInit
  <2>2. Healthy /\ Open = {}
    BY <2>1 DEF Healthy, Open
  <2> QED BY <2>1, <2>2 DEF TerminalInv, TerminalTypeOK, BufferIsPart, RenderedReports, Elements,
                            Increasing
<1>2. TerminalInv /\ [TerminalNext]_terminalVars => TerminalInv'
  <2> SUFFICES ASSUME TerminalInv, [TerminalNext]_terminalVars PROVE TerminalInv'
    OBVIOUS
  <2>1. CASE UNCHANGED terminalVars
    <3>1. lines' = lines /\ buf' = buf /\ shown' = shown
      BY <2>1 DEF terminalVars
    <3>2. /\ Open' = Open /\ (Healthy' <=> Healthy)
          /\ \A k \in 1 .. Len(lines) : Understood(k)' <=> Understood(k)
      BY <3>1 DEF Healthy, Open, Part, WellBegun, Understood, IsReport
    <3>3. BufferIsPart'
      BY <3>1, <3>2 DEF TerminalInv, BufferIsPart, Elements, Increasing
    <3>4. RenderedReports'
      BY <3>1, <3>2 DEF TerminalInv, RenderedReports
    <3> QED BY <3>1, <3>3, <3>4 DEF TerminalInv, TerminalTypeOK
  <2> QED BY <2>1, UncollectedKeepsInv, CollectKeepsInv DEF TerminalNext
<1>3. TerminalInv => RenderedReports
  BY DEF TerminalInv
<1> QED BY <1>1, <1>2, <1>3, PTL DEF TerminalSpec
===============================================================================
