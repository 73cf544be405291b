-------------------------- MODULE MeasurementProofs --------------------------
(***************************************************************************)
(* Proofs about the two programs of lesson 5 that measure.                 *)
(*                                                                         *)
(* LatencyProbe, for any threads, processes and targets and any size of    *)
(* the maps and of the ring.  A stamp is the number of the call that set   *)
(* it, and a call sets one only before its enter program has ended.  When  *)
(* a process has one thread, the element that the thread is to read stays  *)
(* the one of its process, and a sample whose stamp is still in the map is *)
(* being deleted by that thread; so the next time it reads the stamp, it   *)
(* has no sample with it.                                                  *)
(*                                                                         *)
(* LoadGen, for any number of workers, any rate and any delays.  The tick  *)
(* a worker waits for tells how many requests it has begun since it        *)
(* started; and the histograms of all workers add up to the counters.      *)
(***************************************************************************)
EXTENDS LatencyProbe, LoadGen, CountingLemmas

(* The thread has not come to the enter program of its call. *)
ToEnter(t) ==
  /\ thread[t].at # "outside"
  /\ \E i \in DOMAIN thread[t].progs : thread[t].progs[i] = "enter"

CallsAreNumbered ==
  \A t \in Threads :
    thread[t].at # "outside" =>
      thread[t].call \in 1 .. Len(calls) /\ calls[thread[t].call] = t

ProgramsRunOnce ==
  \A t \in Threads :
    thread[t].at # "outside" =>
      LET progs == thread[t].progs
      IN /\ \A i, j \in DOMAIN progs : progs[i] = progs[j] => i = j
         /\ thread[t].point = "return" => progs = <<>>
         /\ thread[t].at # "call" => progs # <<>> /\ Head(progs) = "exit"

(* The stamp of a process, or 0. *)
Stamped(p) == IF start_ts[p] = 0 THEN 0 ELSE stamp[start_ts[p]]

StampsNumbered == \A e \in Elements : stamp[e] <= Len(calls)

ElementsOfOne == \A p, q \in Pids : start_ts[p] # 0 /\ start_ts[p] = start_ts[q] => p = q

StampsAreCalls ==
  \A p \in Pids : start_ts[p] # 0 => Stamped(p) # 0 /\ Pid[calls[Stamped(p)]] = p

(* The element a thread has looked up was stamped; and no one else takes   *)
(* that of a thread alone in its process.                                  *)
PointersHeld ==
  \A t \in Threads :
    thread[t].at = "measure" =>
      /\ thread[t].start \in Elements /\ stamp[thread[t].start] # 0
      /\ Alone(t) => thread[t].start = start_ts[Pid[t]]

StampsComeLater == \A t \in Threads : ToEnter(t) => Stamped(Pid[t]) # thread[t].call

SamplesAreOfCalls ==
  \A s \in samples :
    /\ s.from \in 1 .. Len(calls) /\ s.to \in 1 .. Len(calls)
    /\ Alone(calls[s.to]) =>
         LET t == calls[s.to]
         IN /\ s.from = Stamped(Pid[t]) => thread[t].at = "delete"
            /\ ToEnter(t) => s.from # thread[t].call

MeasuringTargets ==
  \A t \in Threads :
    thread[t].at \in {"measure", "delete", "count", "emit"} =>
      target[Pid[t]] # "none" /\ (thread[t].at = "emit" => thread[t].op = "vfs_read")

StampedTargets == Keys(start_ts, 0) \subseteq Keys(target, "none")
TargetsFit == Cardinality(Keys(target, "none")) <= MapSize

IInv ==
  /\ TypeOK
  /\ CallsAreNumbered /\ ProgramsRunOnce
  /\ StampsNumbered /\ ElementsOfOne /\ StampsAreCalls
  /\ PointersHeld /\ StampsComeLater
  /\ SamplesAreOfCalls /\ StampUsedOnce
  /\ MeasuringTargets /\ StampedTargets /\ TargetsFit /\ StampsFit

-------------------------------------------------------------------------------
(* There are finitely many processes. *)
LEMMA FinitePids == IsFiniteSet(Pids)
<1> DEFINE f == [t \in Threads |-> Pid[t]]
<1>1. f \in Surjection(Threads, Pids)
  BY DEF Surjection, Pids
<1> QED BY <1>1, LatencyProbeAssumption, FS_Surjection

(* The keys of a map are a finite set. *)
LEMMA KeysAreFinite ==
  ASSUME NEW map, NEW none
  PROVE  IsFiniteSet(Keys(map, none)) /\ Cardinality(Keys(map, none)) \in Nat
<1>1. Keys(map, none) \subseteq Pids
  BY DEF Keys
<1> QED BY <1>1, FinitePids, FS_Subset, FS_CardinalityType

(* The programs of a point in any order: each once, and none at a return,  *)
(* where the loader attaches none.                                         *)
LEMMA OrdersAreLists ==
  ASSUME NEW point, NEW q \in Orders(point)
  PROVE  /\ q \in Seq(Progs)
         /\ \A i, j \in DOMAIN q : q[i] = q[j] => i = j
         /\ point = "return" => q = <<>>
<1> DEFINE S == {prog \in Progs : attached /\ Point(prog) = point}
<1>1. /\ q \in [1 .. Cardinality(S) -> S]
      /\ \A i, j \in DOMAIN q : q[i] = q[j] => i = j
  BY DEF Orders
<1>2. S \subseteq {"enter", "exit"}
  BY DEF Progs
<1>3. IsFiniteSet({"enter", "exit"})
  <2>1. IsFiniteSet({"enter"})
    BY FS_Singleton
  <2>2. {"enter", "exit"} = {"enter"} \cup {"exit"}
    OBVIOUS
  <2> QED BY <2>1, <2>2, FS_AddElement
<1>4. IsFiniteSet(S) /\ Cardinality(S) \in Nat
  BY <1>2, <1>3, FS_Subset, FS_CardinalityType
<1>5. q \in Seq(Progs)
  <2>1. S \subseteq Progs
    OBVIOUS
  <2> HIDE DEF S
  <2>2. q \in [1 .. Cardinality(S) -> Progs]
    BY <1>1, <2>1
  <2> QED BY <1>4, <2>2, SeqDef
<1>6. point = "return" => q = <<>>
  <2> SUFFICES ASSUME point = "return" PROVE q = <<>>
    OBVIOUS
  <2>1. S = {}
    BY DEF Point
  <2>2. Cardinality(S) = 0
    BY <2>1, FS_EmptySet
  <2> HIDE DEF S
  <2>3. DOMAIN q = {}
    BY <1>1, <2>2
  <2> QED BY <1>5, <2>3, EmptySeq, LenProperties
<1> QED BY <1>1, <1>5, <1>6

-------------------------------------------------------------------------------
(* Steps of a thread inside a call.                                        *)

(* Thread t goes on in its call, past programs or none. *)
GoesOn(t) ==
  /\ thread' \in [Threads -> {Outside} \cup InCall]
  /\ \A u \in Threads : u # t => thread'[u] = thread[u]
  /\ thread[t].at # "outside" /\ thread'[t].at # "outside"
  /\ thread'[t].call = thread[t].call /\ thread'[t].op = thread[t].op
  /\ ToEnter(t)' => ToEnter(t)
  /\ ProgramsRunOnce'

LEMMA ThreadTypes ==
  ASSUME TypeOK, NEW t \in Threads
  PROVE  /\ thread[t].at # "outside" => thread[t] \in InCall
         /\ thread[t] \notin InCall => thread[t] = Outside
         /\ Outside.at = "outside"
         /\ Pid[t] \in Pids
BY DEF TypeOK, Outside, InCall, Pids

(* A program that ends: the next ones are left. *)
LEMMA DoneGoesOn ==
  ASSUME IInv, NEW t \in Threads, thread[t].at # "outside", thread[t].progs # <<>>,
         thread' = Done(t)
  PROVE  /\ GoesOn(t) /\ thread'[t].at = "call"
         /\ Head(thread[t].progs) = "enter" => ~ ToEnter(t)'
<1> DEFINE progs == thread[t].progs
<1>1. thread[t] \in InCall /\ progs \in Seq(Progs) /\ progs # <<>>
  BY ThreadTypes DEF IInv, InCall
<1>2. /\ Tail(progs) \in Seq(Progs)
      /\ DOMAIN progs = 1 .. Len(progs) /\ Len(progs) \in Nat \ {0}
      /\ DOMAIN Tail(progs) = 1 .. Len(progs) - 1
      /\ \A i \in 1 .. Len(progs) - 1 : Tail(progs)[i] = progs[i + 1]
      /\ Head(progs) = progs[1]
  <2> HIDE DEF progs
  <2>1. Tail(progs) \in Seq(Progs) /\ Len(Tail(progs)) = Len(progs) - 1
    BY <1>1, HeadTailProperties
  <2>2. Len(progs) \in Nat \ {0} /\ DOMAIN progs = 1 .. Len(progs)
    BY <1>1, EmptySeq, LenProperties
  <2>3. \A i \in 1 .. Len(Tail(progs)) : Tail(progs)[i] = progs[i + 1]
    BY <1>1, HeadTailProperties
  <2>4. DOMAIN Tail(progs) = 1 .. Len(Tail(progs))
    BY <2>1, LenProperties
  <2> QED BY <2>1, <2>2, <2>3, <2>4
<1>3. /\ thread'[t].at = "call" /\ thread'[t].call = thread[t].call
      /\ thread'[t].op = thread[t].op /\ thread'[t].point = thread[t].point
      /\ thread'[t].progs = Tail(progs)
      /\ thread'[t] \in InCall
      /\ \A u \in Threads : u # t => thread'[u] = thread[u]
      /\ thread' \in [Threads -> {Outside} \cup InCall]
  <2>1. thread'[t] = [at |-> "call", call |-> thread[t].call, op |-> thread[t].op,
                      point |-> thread[t].point, progs |-> Tail(progs),
                      start |-> thread[t].start]
    BY <1>1 DEF IInv, TypeOK, Done, InCall
  <2>2. thread'[t] \in InCall
    BY <1>1, <1>2, <2>1 DEF InCall
  <2>3. \A u \in Threads : u # t => thread'[u] = thread[u]
    BY DEF IInv, TypeOK, Done
  <2>4. thread' \in [Threads -> {Outside} \cup InCall]
    <3>1. thread' = [thread EXCEPT ![t] = thread'[t]]
      BY DEF IInv, TypeOK, Done
    <3> QED BY <2>2, <3>1 DEF IInv, TypeOK
  <2> QED BY <2>1, <2>2, <2>3, <2>4
<1>4. \A i, j \in DOMAIN progs : progs[i] = progs[j] => i = j
  BY <1>1 DEF IInv, ProgramsRunOnce
<1>5. ProgramsRunOnce'
  <2> SUFFICES ASSUME NEW u \in Threads, thread'[u].at # "outside"
               PROVE  LET q == thread'[u].progs
                      IN /\ \A i, j \in DOMAIN q : q[i] = q[j] => i = j
                         /\ thread'[u].point = "return" => q = <<>>
                         /\ thread'[u].at # "call" => q # <<>> /\ Head(q) = "exit"
    BY DEF ProgramsRunOnce
  <2>1. CASE u # t
    BY <1>3, <2>1 DEF IInv, ProgramsRunOnce
  <2>2. CASE u = t
    <3>1. thread[t].point # "return"
      BY <1>1 DEF IInv, ProgramsRunOnce, InCall
    <3> HIDE DEF progs
    <3>2. \A i, j \in DOMAIN Tail(progs) : Tail(progs)[i] = Tail(progs)[j] => i = j
      BY <1>2, <1>4
    <3>3. /\ thread'[u].progs = Tail(progs) /\ thread'[u].at = "call"
          /\ thread'[u].point # "return"
      BY <1>3, <2>2, <3>1
    <3> QED BY <3>2, <3>3
  <2> QED BY <2>1, <2>2
<1>6. ToEnter(t)' => ToEnter(t)
  <2> SUFFICES ASSUME NEW i \in DOMAIN Tail(progs), Tail(progs)[i] = "enter"
               PROVE  \E j \in DOMAIN progs : progs[j] = "enter"
    BY <1>1, <1>3 DEF ToEnter
  <2> HIDE DEF progs
  <2>1. i + 1 \in DOMAIN progs /\ progs[i + 1] = "enter"
    BY <1>2
  <2> QED BY <2>1
<1>7. Head(progs) = "enter" => ~ ToEnter(t)'
  <2> SUFFICES ASSUME Head(progs) = "enter",
                      NEW i \in DOMAIN Tail(progs), Tail(progs)[i] = "enter"
               PROVE  FALSE
    BY <1>3 DEF ToEnter
  <2> HIDE DEF progs
  <2>1. i \in 1 .. Len(progs) - 1 /\ i + 1 \in DOMAIN progs /\ progs[i + 1] = "enter"
    BY <1>2
  <2>2. 1 \in DOMAIN progs /\ progs[1] = "enter" /\ i + 1 # 1
    BY <1>2, <2>1
  <2> QED BY <1>4, <2>1, <2>2
<1> QED BY <1>1, <1>3, <1>5, <1>6, <1>7 DEF GoesOn, InCall

(* The exit program comes to its next access. *)
LEMMA MoveGoesOn ==
  ASSUME IInv, NEW t \in Threads, NEW a \in {"measure", "delete", "count", "emit"},
         NEW e \in {0} \cup Elements,
         thread[t].at # "outside", thread[t].progs # <<>>, Head(thread[t].progs) = "exit",
         \/ thread' = [thread EXCEPT ![t].at = a, ![t].start = e]
         \/ thread' = [thread EXCEPT ![t].at = a] /\ e = thread[t].start
  PROVE  GoesOn(t) /\ thread'[t].at = a /\ thread'[t].start = e
<1>1. thread[t] \in InCall
  BY ThreadTypes DEF IInv
<1>2. /\ thread'[t] = [at |-> a, call |-> thread[t].call, op |-> thread[t].op,
                       point |-> thread[t].point, progs |-> thread[t].progs,
                       start |-> e]
      /\ thread'[t] \in InCall
      /\ \A u \in Threads : u # t => thread'[u] = thread[u]
  <2>1. thread \in [Threads -> {Outside} \cup InCall]
    BY DEF IInv, TypeOK
  <2>2. thread[t] = [at |-> thread[t].at, call |-> thread[t].call, op |-> thread[t].op,
                     point |-> thread[t].point, progs |-> thread[t].progs,
                     start |-> thread[t].start]
    BY <1>1 DEF InCall
  <2>3. CASE thread' = [thread EXCEPT ![t].at = a, ![t].start = e]
    BY <1>1, <2>1, <2>2, <2>3 DEF InCall
  <2>4. CASE thread' = [thread EXCEPT ![t].at = a] /\ e = thread[t].start
    BY <1>1, <2>1, <2>2, <2>4 DEF InCall
  <2> QED BY <2>3, <2>4
<1>3. thread' \in [Threads -> {Outside} \cup InCall]
  <2>1. thread' = [thread EXCEPT ![t] = thread'[t]]
    BY DEF IInv, TypeOK
  <2> QED BY <1>2, <2>1 DEF IInv, TypeOK
<1>4. ProgramsRunOnce'
  <2> SUFFICES ASSUME NEW u \in Threads, thread'[u].at # "outside"
               PROVE  LET q == thread'[u].progs
                      IN /\ \A i, j \in DOMAIN q : q[i] = q[j] => i = j
                         /\ thread'[u].point = "return" => q = <<>>
                         /\ thread'[u].at # "call" => q # <<>> /\ Head(q) = "exit"
    BY DEF ProgramsRunOnce
  <2>1. CASE u # t
    BY <1>2, <2>1 DEF IInv, ProgramsRunOnce
  <2>2. CASE u = t
    BY <1>2, <2>2 DEF IInv, ProgramsRunOnce
  <2> QED BY <2>1, <2>2
<1>5. ToEnter(t)' => ToEnter(t)
  BY <1>2 DEF ToEnter
<1> QED BY <1>2, <1>3, <1>4, <1>5 DEF GoesOn

(* What GoesOn says of all threads. *)
LEMMA GoesOnForAll ==
  ASSUME IInv, NEW t \in Threads, GoesOn(t)
  PROVE  \A u \in Threads :
           /\ ToEnter(u)' => ToEnter(u)
           /\ thread'[u].at # "outside" <=> thread[u].at # "outside"
           /\ thread[u].at # "outside" => thread'[u].call = thread[u].call
           /\ ToEnter(u) => thread[u].at # "outside"
BY DEF GoesOn, ToEnter

LEMMA GoingOnKeepsNumbers ==
  ASSUME IInv, NEW t \in Threads, GoesOn(t), calls' = calls
  PROVE  CallsAreNumbered' /\ ProgramsRunOnce'
BY GoesOnForAll DEF IInv, CallsAreNumbered, GoesOn

(* The thread of a stamp or a sample is a thread, and the stamp one of its *)
(* process.                                                                *)
LEMMA CallThreads ==
  ASSUME IInv, NEW c \in 1 .. Len(calls)
  PROVE  calls[c] \in Threads /\ Pid[calls[c]] \in Pids
<1>1. calls \in Seq(Threads)
  BY DEF IInv, TypeOK
<1>2. calls[c] \in Threads
  BY <1>1, ElementOfSeq
<1> QED BY <1>2 DEF Pids

(* The stamp of a process is a call, or 0. *)
LEMMA StampTypes ==
  ASSUME IInv, NEW p \in Pids
  PROVE  /\ Stamped(p) \in Nat /\ Stamped(p) <= Len(calls) /\ Len(calls) \in Nat
         /\ start_ts[p] = 0 <=> Stamped(p) = 0
         /\ start_ts[p] # 0 => /\ start_ts[p] \in Elements /\ Stamped(p) = stamp[start_ts[p]]
                               /\ Stamped(p) \in 1 .. Len(calls)
                               /\ Pid[calls[Stamped(p)]] = p
<1>1. Len(calls) \in Nat
  BY LenProperties DEF IInv, TypeOK
<1>2. start_ts[p] # 0 => start_ts[p] \in Elements /\ stamp[start_ts[p]] \in Nat
  BY DEF IInv, TypeOK
<1>3. start_ts[p] # 0 => Stamped(p) = stamp[start_ts[p]] /\ Stamped(p) <= Len(calls)
  BY <1>2 DEF Stamped, IInv, StampsNumbered
<1>4. start_ts[p] = 0 => Stamped(p) = 0
  BY DEF Stamped
<1>5. start_ts[p] # 0 => Stamped(p) # 0 /\ Pid[calls[Stamped(p)]] = p
  BY DEF IInv, StampsAreCalls
<1> QED BY <1>1, <1>2, <1>3, <1>4, <1>5

(* The samples of a thread alone in its process. *)
LEMMA SampleThreads ==
  ASSUME IInv, NEW s \in samples
  PROVE  /\ s.from \in 1 .. Len(calls) /\ s.to \in 1 .. Len(calls) /\ s.from # 0
         /\ calls[s.to] \in Threads /\ Pid[calls[s.to]] \in Pids
         /\ Alone(calls[s.to]) =>
              /\ s.from = Stamped(Pid[calls[s.to]]) => thread[calls[s.to]].at = "delete"
              /\ ToEnter(calls[s.to]) => s.from # thread[calls[s.to]].call
<1>1. s.from \in 1 .. Len(calls) /\ s.to \in 1 .. Len(calls) /\ s.from # 0
  BY DEF IInv, SamplesAreOfCalls
<1>2. calls[s.to] \in Threads /\ Pid[calls[s.to]] \in Pids
  BY <1>1, CallThreads
<1> QED BY <1>1, <1>2 DEF IInv, SamplesAreOfCalls

(* What is to be shown of the samples when none is added. *)
LEMMA SamplesStay ==
  ASSUME IInv, UNCHANGED <<samples, calls>>,
         \A s \in samples : \A u \in Threads :
           u = calls[s.to] /\ Alone(u) =>
             /\ s.from = Stamped(Pid[u])' => thread'[u].at = "delete"
             /\ ToEnter(u)' => s.from # thread'[u].call
  PROVE  SamplesAreOfCalls' /\ StampUsedOnce'
<1>1. SamplesAreOfCalls'
  <2> SUFFICES ASSUME NEW s \in samples
               PROVE  /\ s.from \in 1 .. Len(calls) /\ s.to \in 1 .. Len(calls)
                      /\ Alone(calls[s.to]) =>
                           LET u == calls[s.to]
                           IN /\ s.from = Stamped(Pid[u])' => thread'[u].at = "delete"
                              /\ ToEnter(u)' => s.from # thread'[u].call
    BY DEF SamplesAreOfCalls, Alone, Stamped, ToEnter
  <2>1. /\ s.from \in 1 .. Len(calls) /\ s.to \in 1 .. Len(calls)
        /\ calls[s.to] \in Threads
    BY SampleThreads
  <2> QED BY <2>1
<1>2. StampUsedOnce'
  BY DEF IInv, StampUsedOnce, Alone
<1> QED BY <1>1, <1>2

(* A step that leaves the stamps and the samples alone, and that is not    *)
(* the deletion of a stamp.                                                *)
LEMMA QuietStepKeeps ==
  ASSUME IInv, NEW t \in Threads, GoesOn(t), thread[t].at # "delete",
         UNCHANGED <<start_ts, stamp, samples, calls, target, refused>>,
         thread'[t].at = "measure" =>
           thread'[t].start = start_ts[Pid[t]] /\ start_ts[Pid[t]] # 0,
         thread'[t].at \in {"measure", "delete", "count", "emit"} =>
           target[Pid[t]] # "none" /\ (thread'[t].at = "emit" => thread[t].op = "vfs_read"),
         TypeOK'
  PROVE  IInv'
<1>1. CallsAreNumbered' /\ ProgramsRunOnce'
  BY GoingOnKeepsNumbers
<1>2. \A p : Stamped(p)' = Stamped(p)
  BY DEF Stamped
<1>3. StampsNumbered' /\ ElementsOfOne' /\ StampsAreCalls'
  BY <1>2 DEF IInv, StampsNumbered, ElementsOfOne, StampsAreCalls
<1>4. StampsComeLater'
  <2> SUFFICES ASSUME NEW u \in Threads, ToEnter(u)'
               PROVE  Stamped(Pid[u]) # thread'[u].call
    BY <1>2 DEF StampsComeLater
  <2> QED BY GoesOnForAll DEF IInv, StampsComeLater
<1>5. PointersHeld'
  <2>1. SUFFICES ASSUME NEW u \in Threads, thread'[u].at = "measure"
                 PROVE  /\ thread'[u].start \in Elements /\ stamp[thread'[u].start] # 0
                        /\ Alone(u) => thread'[u].start = start_ts[Pid[u]]
    BY DEF PointersHeld, Alone
  <2>2. CASE u # t
    BY <2>1, <2>2 DEF IInv, PointersHeld, GoesOn
  <2>3. CASE u = t
    <3>1. Pid[t] \in Pids
      BY DEF Pids
    <3> QED BY <2>1, <2>3, <3>1, StampTypes
  <2> QED BY <2>2, <2>3
<1>6. SamplesAreOfCalls' /\ StampUsedOnce'
  <2>1. ASSUME NEW s \in samples, NEW u \in Threads, u = calls[s.to], Alone(u)
        PROVE  /\ s.from = Stamped(Pid[u])' => thread'[u].at = "delete"
               /\ ToEnter(u)' => s.from # thread'[u].call
    <3>1. /\ s.from = Stamped(Pid[u]) => thread[u].at = "delete"
          /\ ToEnter(u) => s.from # thread[u].call
      BY <2>1, SampleThreads
    <3>2. thread[u].at = "delete" => thread'[u].at = "delete"
      BY DEF GoesOn
    <3> QED BY <1>2, <3>1, <3>2, GoesOnForAll
  <2> QED BY <2>1, SamplesStay
<1>7. MeasuringTargets'
  BY DEF IInv, MeasuringTargets, GoesOn
<1>8. StampedTargets' /\ TargetsFit' /\ StampsFit'
  BY DEF IInv, StampedTargets, TargetsFit, StampsFit, Keys
<1> QED BY <1>1, <1>3, <1>4, <1>5, <1>6, <1>7, <1>8 DEF IInv

-------------------------------------------------------------------------------
(* The invariant is inductive.                                             *)

LEMMA InitHolds == Init => IInv
<1> SUFFICES ASSUME Init PROVE IInv
  OBVIOUS
<1>1. TypeOK
  BY LatencyProbeAssumption DEF Init, TypeOK, Histograms, Stacks
<1>2. \A t \in Threads : thread[t] = Outside /\ thread[t].at = "outside"
  BY DEF Init, Outside
<1>3. CallsAreNumbered /\ ProgramsRunOnce /\ StampsComeLater /\ MeasuringTargets /\ PointersHeld
  BY <1>2 DEF CallsAreNumbered, ProgramsRunOnce, StampsComeLater, MeasuringTargets, PointersHeld,
              ToEnter
<1>4. /\ StampsNumbered /\ ElementsOfOne /\ StampsAreCalls
      /\ SamplesAreOfCalls /\ StampUsedOnce /\ StampsFit
  <2>1. Len(calls) = 0
    BY DEF Init
  <2> QED BY <2>1 DEF Init, StampsNumbered, ElementsOfOne, StampsAreCalls, SamplesAreOfCalls,
                      StampUsedOnce, StampsFit
<1>5. Keys(start_ts, 0) = {} /\ Keys(target, "none") = {}
  BY DEF Init, Keys
<1>6. StampedTargets
  BY <1>5 DEF StampedTargets
<1>7. TargetsFit
  <2>1. Cardinality(Keys(target, "none")) = 0
    BY <1>5, FS_EmptySet
  <2>2. MapSize \in Nat
    BY LatencyProbeAssumption
  <2> QED BY <2>1, <2>2 DEF TargetsFit
<1> QED BY <1>1, <1>3, <1>4, <1>6, <1>7 DEF IInv

(* A put target is a process and its stack. *)
LEMMA TargetTypes ==
  ASSUME NEW i \in 1 .. Len(Targets)
  PROVE  Targets[i][1] \in Pids /\ Targets[i][2] \in Stacks /\ Targets[i][2] # "none"
<1>1. Targets[i] \in Pids \X Stacks
  BY LatencyProbeAssumption, ElementOfSeq
<1> QED BY <1>1 DEF Stacks

(* Register writes one entry of target_pids or none. *)
LEMMA RegisterWrites ==
  ASSUME TypeOK, Register
  PROVE  LET p == Targets[puts + 1][1]
         IN /\ TypeOK' /\ p \in Pids
            /\ \A q \in Pids : q # p => target'[q] = target[q]
            /\ target[p] # "none" => target'[p] # "none"
            /\ target[p] = "none" /\ target'[p] # "none" =>
                 Cardinality(Keys(target, "none")) < MapSize
<1> DEFINE p == Targets[puts + 1][1]
           s == Targets[puts + 1][2]
<1>1. puts \in Nat /\ puts + 1 \in 1 .. Len(Targets) /\ Len(Targets) \in Nat
  BY LatencyProbeAssumption, LenProperties DEF TypeOK, Register
<1>2. p \in Pids /\ s \in Stacks /\ s # "none"
  BY <1>1, TargetTypes
<1>3. target' = [target EXCEPT ![p] = s] \/ target' = target
  BY DEF Register
<1>4. target[p] = "none" /\ target' # target => Cardinality(Keys(target, "none")) < MapSize
  BY DEF Register
<1> HIDE DEF p, s
<1>5. target' \in [Pids -> Stacks \cup {"none"}]
  BY <1>2, <1>3 DEF TypeOK
<1>6. TypeOK'
  BY <1>1, <1>5 DEF TypeOK, Register
<1>7. /\ \A q \in Pids : q # p => target'[q] = target[q]
      /\ target[p] # "none" => target'[p] # "none"
      /\ target[p] = "none" /\ target'[p] # "none" => target' # target
  BY <1>2, <1>3 DEF TypeOK
<1> QED BY <1>2, <1>4, <1>6, <1>7 DEF p

LEMMA RegisterKeeps ==
  ASSUME IInv, Register
  PROVE  IInv'
<1> DEFINE p == Targets[puts + 1][1]
<1>1. /\ TypeOK' /\ p \in Pids
      /\ \A q \in Pids : q # p => target'[q] = target[q]
      /\ target[p] # "none" => target'[p] # "none"
      /\ target[p] = "none" /\ target'[p] # "none" =>
           Cardinality(Keys(target, "none")) < MapSize
  BY RegisterWrites DEF IInv
<1> HIDE DEF p
<1>2. Keys(target, "none") \subseteq Keys(target', "none")
  BY <1>1 DEF Keys
<1>3. /\ UNCHANGED <<thread, start_ts, stamp, spare, samples, calls, refused>>
      /\ ProgramsRunOnce' /\ CallsAreNumbered'
      /\ StampsNumbered' /\ ElementsOfOne' /\ StampsAreCalls' /\ PointersHeld' /\ StampsComeLater'
      /\ SamplesAreOfCalls' /\ StampUsedOnce' /\ StampsFit'
  BY DEF IInv, Register, ProgramsRunOnce, CallsAreNumbered, StampsNumbered, ElementsOfOne,
         StampsAreCalls, Stamped, PointersHeld, StampsComeLater, SamplesAreOfCalls, StampUsedOnce,
         StampsFit, ToEnter, Alone
<1>4. MeasuringTargets'
  <2>1. \A t \in Threads : Pid[t] \in Pids
    BY DEF Pids
  <2>2. \A q \in Pids : target[q] # "none" => target'[q] # "none"
    BY <1>1
  <2> QED BY <1>3, <2>1, <2>2 DEF IInv, MeasuringTargets
<1>5. StampedTargets'
  BY <1>2, <1>3 DEF IInv, StampedTargets
<1>6. TargetsFit'
  <2> DEFINE K == Keys(target, "none")
  <2>1. IsFiniteSet(K) /\ Cardinality(K) \in Nat /\ Cardinality(K) <= MapSize
    BY KeysAreFinite DEF IInv, TargetsFit
  <2>2. CASE target[p] = "none" /\ target'[p] # "none"
    <3>1. Keys(target', "none") = K \cup {p}
      BY <1>1, <2>2 DEF Keys
    <3>2. p \notin K
      BY <2>2 DEF Keys
    <3>3. Cardinality(K) < MapSize
      BY <1>1, <2>2
    <3> HIDE DEF K
    <3>4. Cardinality(K \cup {p}) = Cardinality(K) + 1
      BY <2>1, <3>2, FS_AddElement
    <3>5. Cardinality(K \cup {p}) <= MapSize
      BY <2>1, <3>3, <3>4, LatencyProbeAssumption
    <3> QED BY <3>1, <3>5 DEF TargetsFit
  <2>3. CASE ~ (target[p] = "none" /\ target'[p] # "none")
    <3>1. Keys(target', "none") = K
      BY <1>1, <2>3 DEF Keys
    <3> QED BY <2>1, <3>1 DEF TargetsFit
  <2> QED BY <2>2, <2>3
<1> QED BY <1>1, <1>3, <1>4, <1>5, <1>6 DEF IInv

(* The loader's steps that touch none of the programs' state. *)
LEMMA LoaderKeeps ==
  ASSUME IInv, ReadEvent \/ Stop
  PROVE  IInv'
<1>1. TypeOK'
  <2>1. CASE ReadEvent
    <3>1. events \in Seq(Stacks) /\ events # <<>>
      BY <2>1 DEF IInv, TypeOK, ReadEvent
    <3>2. Head(events) \in Stacks /\ Tail(events) \in Seq(Stacks)
      BY <3>1, HeadTailProperties
    <3>3. events' \in Seq(Stacks) /\ shown' \in [Stacks -> Nat]
      BY <2>1, <3>2 DEF IInv, TypeOK, ReadEvent
    <3> QED BY <2>1, <3>3 DEF IInv, TypeOK, ReadEvent
  <2>2. CASE Stop
    BY <2>2 DEF IInv, TypeOK, Stop
  <2> QED BY <2>1, <2>2
<1>2. UNCHANGED <<target, start_ts, stamp, spare, thread, refused, samples, calls>>
  BY DEF ReadEvent, Stop
<1> QED BY <1>1, <1>2 DEF IInv, ProgramsRunOnce, CallsAreNumbered, StampsNumbered,
           ElementsOfOne, StampsAreCalls, Stamped, PointersHeld, StampsComeLater, SamplesAreOfCalls, StampUsedOnce, StampsFit, MeasuringTargets,
           StampedTargets, TargetsFit, ToEnter, Alone, Keys

(* A call takes the next number. *)
LEMMA CallKeeps ==
  ASSUME IInv, NEW t \in Threads, NEW op \in Ops, Call(t, op)
  PROVE  IInv'
<1> DEFINE n == Len(calls) + 1
<1>1. PICK progs \in Orders("entry") :
        thread' = [thread EXCEPT ![t] = [at |-> "call", call |-> n, op |-> op,
                                         point |-> "entry", progs |-> progs, start |-> 0]]
  BY DEF Call
<1>2. progs \in Seq(Progs) /\ \A i, j \in DOMAIN progs : progs[i] = progs[j] => i = j
  BY OrdersAreLists
<1>3. /\ calls \in Seq(Threads) /\ n - 1 = Len(calls) /\ Len(calls) \in Nat
      /\ calls' \in Seq(Threads) /\ Len(calls') = n /\ calls'[n] = t
      /\ \A c \in 1 .. Len(calls) : c \in 1 .. n /\ c # n /\ calls'[c] = calls[c]
  <2>1. calls \in Seq(Threads) /\ calls' = Append(calls, t)
    BY DEF IInv, TypeOK, Call
  <2>2. Len(calls) \in Nat
    BY <2>1, LenProperties
  <2> QED BY <2>1, <2>2, AppendProperties
<1> HIDE DEF n
<1>4. /\ thread'[t] = [at |-> "call", call |-> n, op |-> op, point |-> "entry",
                       progs |-> progs, start |-> 0]
      /\ thread'[t] \in InCall
      /\ \A u \in Threads : u # t => thread'[u] = thread[u]
  BY <1>1, <1>2, <1>3 DEF IInv, TypeOK, InCall
<1>5. TypeOK'
  <2>1. thread' \in [Threads -> {Outside} \cup InCall]
    BY <1>1, <1>4 DEF IInv, TypeOK
  <2> QED BY <1>3, <2>1 DEF IInv, TypeOK, Call
<1>6. UNCHANGED <<start_ts, stamp, target, refused, samples>> /\ thread[t].at = "outside"
  BY DEF Call
<1>7. /\ thread'[t].at = "call" /\ thread'[t].call = n /\ thread'[t].point = "entry"
      /\ thread'[t].progs = progs
  BY <1>4
<1>8. CallsAreNumbered'
  BY <1>3, <1>4, <1>7 DEF IInv, CallsAreNumbered
<1>9. ProgramsRunOnce'
  BY <1>2, <1>4, <1>7 DEF IInv, ProgramsRunOnce
<1>10. StampsNumbered' /\ ElementsOfOne' /\ StampsAreCalls' /\ PointersHeld'
  <2>1. StampsNumbered'
    BY <1>3, <1>6 DEF IInv, TypeOK, StampsNumbered
  <2>2. ElementsOfOne' /\ PointersHeld'
    BY <1>4, <1>6, <1>7 DEF IInv, ElementsOfOne, PointersHeld, Alone
  <2>3. ASSUME NEW p \in Pids, start_ts[p] # 0
        PROVE  Stamped(p)' # 0 /\ Pid[calls'[Stamped(p)']] = p
    <3>1. Stamped(p)' = Stamped(p)
      BY <1>6 DEF Stamped
    <3> QED BY <1>3, <2>3, <3>1, StampTypes
  <2>4. StampsAreCalls'
    BY <1>6, <2>3 DEF StampsAreCalls
  <2> QED BY <2>1, <2>2, <2>4
<1>11. \A u \in Threads : u # t => ToEnter(u)' = ToEnter(u)
  BY <1>4 DEF ToEnter
<1>12. StampsComeLater'
  <2> SUFFICES ASSUME NEW u \in Threads, ToEnter(u)'
               PROVE  Stamped(Pid[u])' # thread'[u].call
    BY DEF StampsComeLater
  <2>1. Stamped(Pid[u])' = Stamped(Pid[u]) /\ Pid[u] \in Pids
    BY <1>6 DEF Stamped, Pids
  <2>2. CASE u # t
    BY <1>4, <1>11, <2>1, <2>2 DEF IInv, StampsComeLater
  <2>3. CASE u = t
    <3>1. Stamped(Pid[t]) \in Nat /\ Stamped(Pid[t]) <= Len(calls)
      BY <2>1, <2>3, StampTypes
    <3>2. Stamped(Pid[t]) # n
      BY <1>3, <3>1
    <3> QED BY <1>7, <2>1, <2>3, <3>2
  <2> QED BY <2>2, <2>3
<1>13. SamplesAreOfCalls'
  <2>1. SUFFICES ASSUME NEW s \in samples, NEW u, u = calls[s.to]
                 PROVE  /\ s.from \in 1 .. Len(calls') /\ s.to \in 1 .. Len(calls')
                        /\ calls'[s.to] = u
                        /\ Alone(u) =>
                             /\ s.from = Stamped(Pid[u])' => thread'[u].at = "delete"
                             /\ ToEnter(u)' => s.from # thread'[u].call
    BY <1>6 DEF SamplesAreOfCalls, Alone, Stamped, ToEnter
  <2>2. /\ s.from \in 1 .. Len(calls) /\ s.from \in 1 .. Len(calls') /\ s.from # n
        /\ s.to \in 1 .. Len(calls) /\ s.to \in 1 .. Len(calls') /\ calls'[s.to] = u
    BY <1>3, <2>1, SampleThreads
  <2>3. u \in Threads
    BY <2>1, <2>2, CallThreads
  <2>4. Alone(u) => /\ s.from = Stamped(Pid[u]) => thread[u].at = "delete"
                    /\ ToEnter(u) => s.from # thread[u].call
    BY <2>1, SampleThreads
  <2>5. Stamped(Pid[u])' = Stamped(Pid[u])
    BY <1>6 DEF Stamped
  <2>6. CASE u = t
    BY <1>6, <1>7, <2>2, <2>4, <2>5, <2>6
  <2>7. CASE u # t
    BY <1>4, <1>11, <2>2, <2>3, <2>4, <2>5, <2>7
  <2> QED BY <2>6, <2>7
<1>14. StampUsedOnce'
  <2>1. \A s \in samples : calls'[s.from] = calls[s.from] /\ calls'[s.to] = calls[s.to]
    BY <1>3 DEF IInv, SamplesAreOfCalls
  <2> QED BY <1>6, <2>1 DEF IInv, StampUsedOnce, Alone
<1>15. MeasuringTargets'
  BY <1>4, <1>6, <1>7 DEF IInv, MeasuringTargets
<1>16. StampedTargets' /\ TargetsFit' /\ StampsFit'
  BY <1>6 DEF IInv, StampedTargets, TargetsFit, StampsFit, Keys
<1> QED BY <1>5, <1>8, <1>9, <1>10, <1>12, <1>13, <1>14, <1>15, <1>16 DEF IInv

(* What a running program has of its thread. *)
LEMMA RunningPrograms ==
  ASSUME IInv, NEW t \in Threads, NEW prog, Runs(t, prog)
  PROVE  /\ thread[t].at = "call" /\ thread[t].at # "outside"
         /\ thread[t].progs # <<>> /\ Head(thread[t].progs) = prog
         /\ thread[t] \in InCall /\ Pid[t] \in Pids
         /\ prog = "enter" => ToEnter(t)
<1>1. /\ thread[t].at = "call" /\ thread[t].at # "outside"
      /\ thread[t].progs # <<>> /\ Head(thread[t].progs) = prog
  BY DEF Runs
<1>2. thread[t] \in InCall /\ Pid[t] \in Pids
  BY <1>1, ThreadTypes DEF IInv
<1> DEFINE progs == thread[t].progs
<1>3. progs \in Seq(Progs) /\ progs # <<>>
  BY <1>1, <1>2 DEF InCall
<1>4. prog = "enter" => ToEnter(t)
  <2>1. Head(progs) = prog
    BY <1>1
  <2> HIDE DEF progs
  <2>2. 1 \in DOMAIN progs /\ progs[1] = prog
    BY <1>3, <2>1, EmptySeq, LenProperties
  <2> QED BY <1>1, <2>2 DEF ToEnter, progs
<1> QED BY <1>1, <1>2, <1>4

(* The same of the exit program after it has looked the stamp up. *)
LEMMA MeasuringPrograms ==
  ASSUME IInv, NEW t \in Threads, thread[t].at \in {"measure", "delete", "count", "emit"}
  PROVE  /\ thread[t].at # "outside"
         /\ thread[t].progs # <<>> /\ Head(thread[t].progs) = "exit"
         /\ thread[t] \in InCall /\ Pid[t] \in Pids
         /\ target[Pid[t]] \in Stacks
<1>1. thread[t].at # "outside" /\ thread[t].at # "call"
  OBVIOUS
<1>2. thread[t].progs # <<>> /\ Head(thread[t].progs) = "exit"
  BY <1>1 DEF IInv, ProgramsRunOnce
<1>3. thread[t] \in InCall /\ Pid[t] \in Pids
  BY <1>1, ThreadTypes DEF IInv
<1>4. target[Pid[t]] \in Stacks
  BY <1>3 DEF IInv, TypeOK, MeasuringTargets
<1> QED BY <1>1, <1>2, <1>3, <1>4

(* start_ts has room for the stamp of a target. *)
LEMMA StampHasRoom ==
  ASSUME IInv, NEW p \in Pids, target[p] # "none"
  PROVE  start_ts[p] # 0 \/ Cardinality(Keys(start_ts, 0)) < MapSize
<1> SUFFICES ASSUME start_ts[p] = 0
             PROVE  Cardinality(Keys(start_ts, 0)) < MapSize
  OBVIOUS
<1> DEFINE S == Keys(start_ts, 0)
           T == Keys(target, "none")
<1>1. S \in SUBSET T /\ p \in T /\ p \notin S
  BY DEF IInv, StampedTargets, Keys
<1>2. Cardinality(T) <= MapSize
  BY DEF IInv, TargetsFit
<1>3. IsFiniteSet(T) /\ Cardinality(T) \in Nat /\ Cardinality(S) \in Nat
  BY KeysAreFinite
<1> HIDE DEF S, T
<1>4. Cardinality(S) <= Cardinality(T) /\ (Cardinality(S) = Cardinality(T) => S = T)
  BY <1>1, <1>3, FS_Subset
<1>5. Cardinality(S) # Cardinality(T)
  BY <1>1, <1>4
<1>6. Cardinality(S) < MapSize
  BY <1>2, <1>3, <1>4, <1>5, LatencyProbeAssumption
<1> QED BY <1>6 DEF S

(* Enter stamps its process with the call of the thread. *)
LEMMA EnterKeeps ==
  ASSUME IInv, NEW t \in Threads, Enter(t)
  PROVE  IInv'
<1> DEFINE p == Pid[t]
           c == thread[t].call
<1>1. /\ thread[t].at = "call" /\ thread[t].progs # <<>> /\ Head(thread[t].progs) = "enter"
      /\ thread[t] \in InCall /\ p \in Pids /\ ToEnter(t)
  BY RunningPrograms DEF Enter
<1>2. GoesOn(t) /\ thread'[t].at = "call" /\ ~ ToEnter(t)'
  BY <1>1, DoneGoesOn DEF Enter
<1>3. c \in 1 .. Len(calls) /\ calls[c] = t /\ c \in Nat /\ c # 0
  BY <1>1 DEF IInv, CallsAreNumbered, InCall
<1>4. UNCHANGED <<attached, puts, target, hist, events, shown, dropped, samples, calls>>
  BY DEF Enter
<1>5. thread' \in [Threads -> {Outside} \cup InCall]
  BY <1>2 DEF GoesOn
<1>6. CASE target[p] = "none"
  <2>1. UNCHANGED <<start_ts, stamp, spare, refused>>
    BY <1>6 DEF Enter
  <2>2. TypeOK'
    BY <1>4, <1>5, <2>1 DEF IInv, TypeOK
  <2> QED BY <1>1, <1>2, <1>4, <2>1, <2>2, QuietStepKeeps
<1>7. CASE target[p] # "none"
  <2>1. Fits(p)
    BY <1>1, <1>7, StampHasRoom DEF Fits
  <2>2. PICK e \in Fresh(p) :
          /\ start_ts' = [start_ts EXCEPT ![p] = e]
          /\ stamp' = [stamp EXCEPT ![e] = c]
          /\ spare' = (IF e \in spare THEN (spare \ {e}) \cup {start_ts[p]} ELSE spare)
          /\ refused' = refused
    BY <1>7, <2>1 DEF Enter, Stamp
  <2>3. /\ e \in Elements /\ e # 0 /\ \A q \in Pids : start_ts[q] # e
        /\ e \in spare => start_ts[p] \in Elements
    BY <1>1, LatencyProbeAssumption DEF Fresh, IInv, TypeOK
  <2>4. /\ start_ts' \in [Pids -> {0} \cup Elements] /\ start_ts'[p] = e
        /\ \A q \in Pids : q # p => start_ts'[q] = start_ts[q]
        /\ stamp' \in [Elements -> Nat] /\ stamp'[e] = c
        /\ \A f \in Elements : f # e => stamp'[f] = stamp[f]
    BY <1>1, <1>3, <2>2, <2>3 DEF IInv, TypeOK
  <2>5. TypeOK'
    <3>1. spare' \subseteq Elements
      BY <2>2, <2>3 DEF IInv, TypeOK
    <3> QED BY <1>4, <1>5, <2>2, <2>4, <3>1 DEF IInv, TypeOK
  <2> HIDE DEF p, c
  <2>6. Stamped(p)' = c /\ \A q \in Pids : q # p => Stamped(q)' = Stamped(q)
    <3>1. Stamped(p)' = c
      BY <2>3, <2>4 DEF Stamped
    <3>2. ASSUME NEW q \in Pids, q # p PROVE Stamped(q)' = Stamped(q)
      <4>1. start_ts'[q] = start_ts[q] /\ start_ts[q] # e
        BY <2>3, <2>4, <3>2
      <4>2. start_ts[q] # 0 => stamp'[start_ts[q]] = stamp[start_ts[q]]
        BY <2>4, <4>1, StampTypes
      <4> QED BY <4>1, <4>2 DEF Stamped
    <3> QED BY <3>1, <3>2
  <2>7. CallsAreNumbered' /\ ProgramsRunOnce'
    BY <1>2, <1>4, GoingOnKeepsNumbers
  <2>8. StampsNumbered'
    <3>1. c <= Len(calls) /\ calls' = calls
      BY <1>3, <1>4
    <3> QED BY <2>4, <3>1 DEF IInv, StampsNumbered
  <2>9. ElementsOfOne'
    BY <2>3, <2>4 DEF IInv, ElementsOfOne
  <2>10. StampsAreCalls'
    <3>1. SUFFICES ASSUME NEW q \in Pids, start_ts'[q] # 0
                   PROVE  Stamped(q)' # 0 /\ Pid[calls[Stamped(q)']] = q
      BY <1>4 DEF StampsAreCalls
    <3>2. CASE q = p
      BY <1>3, <2>6, <3>2 DEF p
    <3>3. CASE q # p
      BY <2>4, <2>6, <3>1, <3>3 DEF IInv, StampsAreCalls
    <3> QED BY <3>2, <3>3
  <2>11. PointersHeld'
    <3>1. SUFFICES ASSUME NEW u \in Threads, thread'[u].at = "measure"
                   PROVE  /\ thread'[u].start \in Elements /\ stamp'[thread'[u].start] # 0
                          /\ Alone(u) => thread'[u].start = start_ts'[Pid[u]]
      BY DEF PointersHeld, Alone
    <3>2. u # t /\ thread'[u] = thread[u] /\ Pid[u] \in Pids
      BY <1>2, <3>1 DEF GoesOn, Pids
    <3>3. /\ thread[u].start \in Elements /\ stamp[thread[u].start] # 0
          /\ Alone(u) => thread[u].start = start_ts[Pid[u]]
      BY <3>1, <3>2 DEF IInv, PointersHeld
    <3>4. Alone(u) => Pid[u] # p
      BY <3>2 DEF Alone, p
    <3> QED BY <1>3, <2>4, <3>2, <3>3, <3>4
  <2>12. StampsComeLater'
    <3>1. SUFFICES ASSUME NEW u \in Threads, ToEnter(u)'
                   PROVE  Stamped(Pid[u])' # thread'[u].call
      BY DEF StampsComeLater
    <3>2. u # t /\ ToEnter(u) /\ thread'[u].call = thread[u].call /\ Pid[u] \in Pids
      BY <1>2, <3>1, GoesOnForAll DEF Pids
    <3>3. calls[thread[u].call] = u
      BY <3>2 DEF IInv, CallsAreNumbered, ToEnter
    <3>4. CASE Pid[u] = p
      BY <1>3, <2>6, <3>2, <3>3, <3>4
    <3>5. CASE Pid[u] # p
      BY <2>6, <3>2, <3>5 DEF IInv, StampsComeLater
    <3> QED BY <3>4, <3>5
  <2>13. SamplesAreOfCalls' /\ StampUsedOnce'
    <3>1. ASSUME NEW s \in samples, NEW u \in Threads, u = calls[s.to], Alone(u)
          PROVE  /\ s.from = Stamped(Pid[u])' => thread'[u].at = "delete"
                 /\ ToEnter(u)' => s.from # thread'[u].call
      <4>1. /\ Pid[u] \in Pids
            /\ s.from = Stamped(Pid[u]) => thread[u].at = "delete"
            /\ ToEnter(u) => s.from # thread[u].call
        BY <3>1, SampleThreads
      <4>2. CASE u = t
        <5>1. s.from # c
          BY <1>1, <4>1, <4>2 DEF c
        <5> QED BY <1>2, <2>6, <4>2, <5>1 DEF p
      <4>3. CASE u # t
        <5>1. Pid[u] # p /\ thread'[u] = thread[u]
          BY <1>2, <3>1, <4>3 DEF Alone, GoesOn, p
        <5> QED BY <2>6, <4>1, <5>1, GoesOnForAll, <1>2
      <4> QED BY <4>2, <4>3
    <3> QED BY <1>4, <3>1, SamplesStay
  <2>14. StampsFit'
    BY <2>2 DEF IInv, StampsFit
  <2>15. MeasuringTargets'
    BY <1>2, <1>4 DEF IInv, MeasuringTargets, GoesOn
  <2>16. StampedTargets' /\ TargetsFit'
    BY <1>4, <1>7, <2>4 DEF IInv, StampedTargets, TargetsFit, Keys
  <2> QED BY <2>5, <2>7, <2>8, <2>9, <2>10, <2>11, <2>12, <2>13, <2>14, <2>15, <2>16 DEF IInv
<1> QED BY <1>6, <1>7

(* Measure adds a sample, whose stamp it has still to delete. *)
LEMMA MeasureKeeps ==
  ASSUME IInv, NEW t \in Threads, Measure(t)
  PROVE  IInv'
<1> DEFINE p == Pid[t]
           new == [from |-> stamp[thread[t].start], to |-> thread[t].call,
                   point |-> thread[t].point]
<1>1. /\ thread[t].at = "measure" /\ thread[t].at # "outside"
      /\ thread[t].progs # <<>> /\ Head(thread[t].progs) = "exit"
      /\ thread[t] \in InCall /\ p \in Pids /\ target[p] # "none"
  BY MeasuringPrograms DEF Measure, Stacks
<1>2. GoesOn(t) /\ thread'[t].at = "delete"
  BY <1>1, MoveGoesOn DEF Measure
<1>3. /\ UNCHANGED <<attached, puts, target, start_ts, stamp, spare, hist, events, shown, dropped,
                     refused, calls>>
      /\ samples' = samples \cup {new}
  BY DEF Measure
<1>4. /\ new.to = thread[t].call /\ new.to \in 1 .. Len(calls) /\ calls[new.to] = t
      /\ new.from = stamp[thread[t].start] /\ new.from \in 1 .. Len(calls)
  <2>1. thread[t].call \in 1 .. Len(calls) /\ calls[thread[t].call] = t
    BY <1>1 DEF IInv, CallsAreNumbered
  <2>2. /\ thread[t].start \in Elements /\ stamp[thread[t].start] # 0
        /\ stamp[thread[t].start] \in Nat /\ stamp[thread[t].start] <= Len(calls)
    BY <1>1 DEF IInv, TypeOK, PointersHeld, StampsNumbered
  <2>3. Len(calls) \in Nat
    BY LenProperties DEF IInv, TypeOK
  <2> QED BY <2>1, <2>2, <2>3
<1>5. Alone(t) => new.from = Stamped(p) /\ calls[new.from] = t
  <2> SUFFICES ASSUME Alone(t) PROVE new.from = Stamped(p) /\ calls[new.from] = t
    OBVIOUS
  <2>1. thread[t].start = start_ts[p] /\ start_ts[p] # 0
    BY <1>1, LatencyProbeAssumption DEF IInv, PointersHeld
  <2>2. new.from = Stamped(p) /\ Pid[calls[new.from]] = p
    BY <1>1, <1>4, <2>1, StampTypes
  <2>3. calls[new.from] \in Threads
    BY <1>4, CallThreads
  <2> QED BY <2>2, <2>3 DEF Alone
<1>6. TypeOK'
  <2>1. new \in [from : Nat, to : Nat, point : {"entry", "return"}]
    BY <1>1, <1>4 DEF InCall
  <2> HIDE DEF new
  <2>2. samples' \subseteq [from : Nat, to : Nat, point : {"entry", "return"}]
    BY <1>3, <2>1 DEF IInv, TypeOK
  <2> QED BY <1>2, <1>3, <2>2 DEF IInv, TypeOK, GoesOn
<1> HIDE DEF p, new
<1>7. CallsAreNumbered' /\ ProgramsRunOnce'
  BY <1>2, <1>3, GoingOnKeepsNumbers
<1>8. \A q : Stamped(q)' = Stamped(q)
  BY <1>3 DEF Stamped
<1>9. StampsNumbered' /\ ElementsOfOne' /\ StampsAreCalls' /\ StampsFit'
  BY <1>3, <1>8 DEF IInv, StampsNumbered, ElementsOfOne, StampsAreCalls, StampsFit
<1>10. StampsComeLater'
  <2> SUFFICES ASSUME NEW u \in Threads, ToEnter(u)'
               PROVE  Stamped(Pid[u]) # thread'[u].call
    BY <1>8 DEF StampsComeLater
  <2> QED BY <1>2, GoesOnForAll DEF IInv, StampsComeLater
<1>11. PointersHeld'
  BY <1>2, <1>3 DEF IInv, PointersHeld, GoesOn, Alone
<1>12. ASSUME NEW s \in samples, NEW u \in Threads, u = calls[s.to], Alone(u)
       PROVE  /\ s.from = Stamped(Pid[u]) => u # t /\ thread'[u].at = "delete"
              /\ ToEnter(u)' => s.from # thread'[u].call
  <2>1. /\ s.from = Stamped(Pid[u]) => thread[u].at = "delete"
        /\ ToEnter(u) => s.from # thread[u].call
    BY <1>12, SampleThreads
  <2>2. thread[u].at = "delete" => u # t /\ thread'[u].at = "delete"
    BY <1>1, <1>2 DEF GoesOn
  <2> QED BY <1>2, <2>1, <2>2, GoesOnForAll
<1>13. SamplesAreOfCalls'
  <2>1. SUFFICES ASSUME NEW s \in samples', NEW u, u = calls[s.to]
                 PROVE  /\ s.from \in 1 .. Len(calls) /\ s.to \in 1 .. Len(calls)
                        /\ Alone(u) =>
                             /\ s.from = Stamped(Pid[u])' => thread'[u].at = "delete"
                             /\ ToEnter(u)' => s.from # thread'[u].call
    BY <1>3 DEF SamplesAreOfCalls, Alone, Stamped, ToEnter
  <2>2. CASE s \in samples
    <3>1. s.from \in 1 .. Len(calls) /\ s.to \in 1 .. Len(calls) /\ u \in Threads
      BY <2>1, <2>2, SampleThreads
    <3> QED BY <1>8, <1>12, <2>1, <2>2, <3>1
  <2>3. CASE s = new
    <3>1. u = t
      BY <1>4, <2>1, <2>3
    <3>2. ToEnter(t)' => Stamped(p) # thread'[t].call
      BY <1>2, GoesOnForAll DEF IInv, StampsComeLater, p
    <3> QED BY <1>2, <1>4, <1>5, <2>3, <3>1, <3>2
  <2> QED BY <1>3, <2>2, <2>3
<1>14. StampUsedOnce'
  <2>1. SUFFICES ASSUME NEW a \in samples', Alone(calls[a.to])
                 PROVE  /\ calls[a.from] = calls[a.to]
                        /\ \A b \in samples' : calls[b.to] = calls[a.to] /\ b.from = a.from => b = a
    BY <1>3 DEF StampUsedOnce, Alone
  <2>2. ASSUME NEW s \in samples, s.from = new.from, calls[s.to] = t, Alone(t) PROVE FALSE
    BY <1>5, <1>12, <2>2 DEF p
  <2>3. CASE a \in samples
    <3>1. /\ calls[a.from] = calls[a.to]
          /\ \A b \in samples : calls[b.to] = calls[a.to] /\ b.from = a.from => b = a
      BY <2>1, <2>3 DEF IInv, StampUsedOnce
    <3>2. ~ (calls[new.to] = calls[a.to] /\ new.from = a.from)
      BY <1>4, <2>1, <2>2, <2>3
    <3> QED BY <1>3, <3>1, <3>2
  <2>4. CASE a = new
    BY <1>3, <1>4, <1>5, <2>1, <2>2, <2>4
  <2> QED BY <1>3, <2>3, <2>4
<1>15. MeasuringTargets'
  BY <1>1, <1>2, <1>3 DEF IInv, MeasuringTargets, GoesOn, p
<1>16. StampedTargets' /\ TargetsFit'
  BY <1>3 DEF IInv, StampedTargets, TargetsFit, Keys
<1> QED BY <1>6, <1>7, <1>9, <1>10, <1>11, <1>13, <1>14, <1>15, <1>16 DEF IInv

(* Delete clears the stamp, whichever it is now. *)
LEMMA DeleteKeeps ==
  ASSUME IInv, NEW t \in Threads, Delete(t)
  PROVE  IInv'
<1> DEFINE p == Pid[t]
<1>1. /\ thread[t].at = "delete" /\ thread[t].at # "outside"
      /\ thread[t].progs # <<>> /\ Head(thread[t].progs) = "exit"
      /\ p \in Pids /\ target[p] \in Stacks
      /\ thread[t].start \in {0} \cup Elements
  BY MeasuringPrograms DEF Delete, InCall
<1>2. GoesOn(t) /\ thread'[t].at = "count"
  BY <1>1, MoveGoesOn DEF Delete
<1>3. /\ UNCHANGED <<attached, puts, target, stamp, spare, hist, events, shown, dropped, refused,
                     samples, calls>>
      /\ start_ts' \in [Pids -> {0} \cup Elements] /\ start_ts'[p] = 0
      /\ \A q \in Pids : q # p => start_ts'[q] = start_ts[q]
  BY <1>1 DEF IInv, TypeOK, Delete
<1> HIDE DEF p
<1>4. TypeOK'
  BY <1>2, <1>3 DEF IInv, TypeOK, GoesOn
<1>5. CallsAreNumbered' /\ ProgramsRunOnce'
  BY <1>2, <1>3, GoingOnKeepsNumbers
<1>6. Stamped(p)' = 0 /\ \A q \in Pids : q # p => Stamped(q)' = Stamped(q)
  BY <1>3 DEF Stamped
<1>7. StampsNumbered' /\ ElementsOfOne' /\ StampsAreCalls' /\ StampsFit'
  <2>1. StampsNumbered' /\ ElementsOfOne' /\ StampsFit'
    BY <1>3 DEF IInv, StampsNumbered, ElementsOfOne, StampsFit
  <2>2. StampsAreCalls'
    BY <1>3, <1>6 DEF IInv, StampsAreCalls
  <2> QED BY <2>1, <2>2
<1>8. PointersHeld'
  <2>1. SUFFICES ASSUME NEW u \in Threads, thread'[u].at = "measure"
                 PROVE  /\ thread'[u].start \in Elements /\ stamp[thread'[u].start] # 0
                        /\ Alone(u) => thread'[u].start = start_ts'[Pid[u]]
    BY <1>3 DEF PointersHeld, Alone
  <2>2. u # t /\ thread'[u] = thread[u] /\ Pid[u] \in Pids
    BY <1>2, <2>1 DEF GoesOn, Pids
  <2>3. Alone(u) => Pid[u] # p
    BY <2>2 DEF Alone, p
  <2> QED BY <1>3, <2>1, <2>2, <2>3 DEF IInv, PointersHeld
<1>9. StampsComeLater'
  <2>1. SUFFICES ASSUME NEW u \in Threads, ToEnter(u)'
                 PROVE  Stamped(Pid[u])' # thread'[u].call
    BY DEF StampsComeLater
  <2>2. ToEnter(u) /\ thread'[u].call = thread[u].call /\ Pid[u] \in Pids
    BY <1>2, <2>1, GoesOnForAll DEF Pids
  <2>3. thread[u].call \in 1 .. Len(calls) /\ Stamped(Pid[u]) # thread[u].call
    BY <2>2 DEF IInv, CallsAreNumbered, StampsComeLater, ToEnter
  <2> QED BY <1>6, <2>2, <2>3
<1>10. SamplesAreOfCalls' /\ StampUsedOnce'
  <2>1. ASSUME NEW s \in samples, NEW u \in Threads, u = calls[s.to], Alone(u)
        PROVE  /\ s.from = Stamped(Pid[u])' => thread'[u].at = "delete"
               /\ ToEnter(u)' => s.from # thread'[u].call
    <3>1. /\ Pid[u] \in Pids /\ s.from # 0
          /\ s.from = Stamped(Pid[u]) => thread[u].at = "delete"
          /\ ToEnter(u) => s.from # thread[u].call
      BY <2>1, SampleThreads
    <3>2. CASE s.from = Stamped(Pid[u])'
      <4>1. Pid[u] # p
        BY <1>6, <3>1, <3>2
      <4>2. u # t /\ s.from = Stamped(Pid[u])
        BY <1>6, <3>1, <3>2, <4>1 DEF p
      <4> QED BY <1>2, <3>1, <4>2, GoesOnForAll DEF GoesOn
    <3>3. CASE s.from # Stamped(Pid[u])'
      BY <1>2, <3>1, <3>3, GoesOnForAll
    <3> QED BY <3>2, <3>3
  <2> QED BY <1>3, <2>1, SamplesStay
<1>11. MeasuringTargets'
  BY <1>1, <1>2, <1>3 DEF IInv, MeasuringTargets, GoesOn, p
<1>12. StampedTargets' /\ TargetsFit'
  BY <1>3 DEF IInv, StampedTargets, TargetsFit, Keys
<1> QED BY <1>4, <1>5, <1>7, <1>8, <1>9, <1>10, <1>11, <1>12 DEF IInv

(* What a program reads of a target is a stack, and target_pids says which *)
(* one if the process was put once.                                        *)
LEMMA StacksRead ==
  ASSUME TypeOK, NEW p \in Pids, target[p] # "none"
  PROVE  StackRead(p) \in SUBSET Stacks
<1>1. target[p] \in Stacks
  BY DEF TypeOK
<1>2. ASSUME NEW i \in 1 .. puts PROVE Targets[i][2] \in Stacks
  <2>1. Targets \in Seq(Pids \X Stacks) /\ puts \in 0 .. Len(Targets)
    BY LatencyProbeAssumption DEF TypeOK
  <2>2. i \in 1 .. Len(Targets)
    BY <1>2, <2>1, LenProperties
  <2> QED BY <2>2, TargetTypes
<1> QED BY <1>1, <1>2 DEF StackRead

(* The exit program's other steps. *)
LEMMA QuietStepsKeep ==
  ASSUME IInv, NEW t \in Threads, ExitEarly(t) \/ Lookup(t) \/ Count(t) \/ Emit(t)
  PROVE  IInv'
<1>1. UNCHANGED <<attached, puts, target, start_ts, stamp, spare, shown, refused, samples, calls>>
  BY DEF ExitEarly, Lookup, Count, Emit
<1>2. CASE ExitEarly(t)
  <2>1. thread[t].at = "call" /\ thread[t].progs # <<>>
    BY <1>2, RunningPrograms DEF ExitEarly
  <2>2. GoesOn(t) /\ thread'[t].at = "call"
    BY <1>2, <2>1, DoneGoesOn DEF ExitEarly
  <2>3. TypeOK'
    BY <1>2, <2>2 DEF IInv, TypeOK, GoesOn, ExitEarly
  <2> QED BY <1>1, <2>1, <2>2, <2>3, QuietStepKeeps
<1>3. CASE Lookup(t)
  <2>1. /\ thread[t].at = "call" /\ thread[t].at # "outside" /\ thread[t].progs # <<>>
        /\ Head(thread[t].progs) = "exit" /\ Pid[t] \in Pids
    BY <1>3, RunningPrograms DEF Lookup
  <2>2. target[Pid[t]] # "none" /\ start_ts[Pid[t]] # 0 /\ start_ts[Pid[t]] \in {0} \cup Elements
    BY <1>3, <2>1 DEF Lookup, IInv, TypeOK
  <2>3. GoesOn(t) /\ thread'[t].at = "measure" /\ thread'[t].start = start_ts[Pid[t]]
    BY <1>3, <2>1, <2>2, MoveGoesOn DEF Lookup
  <2>4. TypeOK'
    BY <1>3, <2>3 DEF IInv, TypeOK, GoesOn, Lookup
  <2> QED BY <1>1, <2>1, <2>2, <2>3, <2>4, QuietStepKeeps
<1>4. CASE Count(t)
  <2>1. /\ thread[t].at = "count" /\ thread[t].at # "outside" /\ thread[t].progs # <<>>
        /\ Head(thread[t].progs) = "exit" /\ target[Pid[t]] # "none"
        /\ Pid[t] \in Pids /\ thread[t].start \in {0} \cup Elements
    BY <1>4, MeasuringPrograms DEF Count, Stacks, InCall
  <2>2. /\ GoesOn(t) /\ thread'[t].at \in {"call", "emit"}
        /\ thread'[t].at = "emit" => thread[t].op = "vfs_read"
        /\ hist' \in [Histograms -> Nat]
    <3>1. CASE thread[t].op = "vfs_read" /\ thread' = [thread EXCEPT ![t].at = "emit"]
      <4>1. PICK s \in StackRead(Pid[t]) : hist' = [hist EXCEPT ![s] = @ + 1]
        BY <1>4, <3>1 DEF Count
      <4>2. s \in Histograms
        BY <2>1, StacksRead DEF IInv, MeasuringTargets, Histograms
      <4>3. hist' \in [Histograms -> Nat]
        BY <4>1, <4>2 DEF IInv, TypeOK
      <4> QED BY <2>1, <3>1, <4>3, MoveGoesOn
    <3>2. CASE thread' = Done(t) /\ hist' = [hist EXCEPT !["tcp_send"] = @ + 1]
      <4>1. hist' \in [Histograms -> Nat]
        BY <3>2 DEF IInv, TypeOK, Histograms
      <4> QED BY <2>1, <3>2, <4>1, DoneGoesOn
    <3> QED BY <1>4, <3>1, <3>2 DEF Count
  <2>3. TypeOK'
    BY <1>4, <2>2 DEF IInv, TypeOK, GoesOn, Count
  <2> QED BY <1>1, <2>1, <2>2, <2>3, QuietStepKeeps
<1>5. CASE Emit(t)
  <2>1. /\ thread[t].at = "emit" /\ thread[t].at # "outside" /\ thread[t].progs # <<>>
        /\ target[Pid[t]] # "none" /\ Pid[t] \in Pids
    BY <1>5, MeasuringPrograms DEF Emit, Stacks
  <2>2. GoesOn(t) /\ thread'[t].at = "call"
    BY <1>5, <2>1, DoneGoesOn DEF Emit
  <2>3. events' \in Seq(Stacks) /\ dropped' \in [Stacks -> Nat]
    <3>1. PICK s \in StackRead(Pid[t]) :
            IF Len(events) < RingSize
            THEN events' = Append(events, s) /\ dropped' = dropped
            ELSE events' = events /\ dropped' = [dropped EXCEPT ![s] = @ + 1]
      BY <1>5 DEF Emit
    <3>2. s \in Stacks
      BY <2>1, StacksRead DEF IInv
    <3>3. dropped \in [Stacks -> Nat] /\ events \in Seq(Stacks)
      BY DEF IInv, TypeOK
    <3>4. Append(events, s) \in Seq(Stacks)
      BY <3>2, <3>3, AppendProperties
    <3>5. dropped[s] + 1 \in Nat
      BY <3>2, <3>3
    <3>6. CASE Len(events) < RingSize
      BY <3>1, <3>3, <3>4, <3>6
    <3>7. CASE ~ (Len(events) < RingSize)
      BY <3>1, <3>2, <3>3, <3>5, <3>7
    <3> QED BY <3>6, <3>7
  <2>4. TypeOK'
    BY <1>5, <2>2, <2>3 DEF IInv, TypeOK, GoesOn, Emit
  <2> QED BY <1>1, <2>1, <2>2, <2>4, QuietStepKeeps
<1> QED BY <1>2, <1>3, <1>4, <1>5

(* The traced function returns: no program is attached there. *)
LEMMA ReturnKeeps ==
  ASSUME IInv, NEW t \in Threads, Return(t)
  PROVE  IInv'
<1>1. thread[t].at = "call" /\ thread[t] \in InCall
  BY ThreadTypes DEF IInv, Return, Idle
<1>2. thread' = [thread EXCEPT ![t].point = "return", ![t].progs = <<>>]
  BY OrdersAreLists DEF Return
<1>3. /\ thread'[t] = [at |-> "call", call |-> thread[t].call, op |-> thread[t].op,
                       point |-> "return", progs |-> <<>>, start |-> thread[t].start]
      /\ thread'[t] \in InCall
      /\ \A u \in Threads : u # t => thread'[u] = thread[u]
  <2>1. thread'[t] = [at |-> "call", call |-> thread[t].call, op |-> thread[t].op,
                      point |-> "return", progs |-> <<>>, start |-> thread[t].start]
    BY <1>1, <1>2 DEF IInv, TypeOK, InCall
  <2>2. thread'[t] \in InCall
    <3>1. <<>> \in Seq(Progs)
      BY EmptySeq
    <3> QED BY <1>1, <2>1, <3>1 DEF InCall
  <2>3. \A u \in Threads : u # t => thread'[u] = thread[u]
    BY <1>2 DEF IInv, TypeOK
  <2> QED BY <2>1, <2>2, <2>3
<1>4. thread' \in [Threads -> {Outside} \cup InCall]
  <2>1. thread' = [thread EXCEPT ![t] = thread'[t]]
    BY <1>2 DEF IInv, TypeOK
  <2> QED BY <1>3, <2>1 DEF IInv, TypeOK
<1>5. ProgramsRunOnce'
  BY <1>3 DEF IInv, ProgramsRunOnce
<1>6. GoesOn(t) /\ thread'[t].at = "call"
  BY <1>1, <1>3, <1>4, <1>5 DEF GoesOn, ToEnter
<1>7. TypeOK'
  BY <1>4 DEF IInv, TypeOK, Return
<1> QED BY <1>1, <1>6, <1>7, QuietStepKeeps DEF Return

LEMMA LeaveKeeps ==
  ASSUME IInv, NEW t \in Threads, Leave(t)
  PROVE  IInv'
<1>1. thread[t].at = "call"
  BY DEF Leave, Idle
<1>2. /\ UNCHANGED <<attached, puts, target, start_ts, stamp, spare, hist, events, shown, dropped,
                     refused, samples, calls>>
      /\ thread' = [thread EXCEPT ![t] = Outside]
  BY DEF Leave
<1>3. thread'[t].at = "outside" /\ \A u \in Threads : u # t => thread'[u] = thread[u]
  BY <1>2 DEF IInv, TypeOK, Outside
<1>4. TypeOK'
  BY <1>2 DEF IInv, TypeOK
<1>5. CallsAreNumbered' /\ ProgramsRunOnce' /\ MeasuringTargets' /\ PointersHeld'
  BY <1>2, <1>3 DEF IInv, CallsAreNumbered, ProgramsRunOnce, MeasuringTargets, PointersHeld, Alone
<1>6. \A u \in Threads : ToEnter(u)' => u # t /\ ToEnter(u)
  BY <1>3 DEF ToEnter
<1>7. \A p : Stamped(p)' = Stamped(p)
  BY <1>2 DEF Stamped
<1>8. /\ StampsNumbered' /\ ElementsOfOne' /\ StampsAreCalls'
      /\ StampsFit' /\ StampedTargets' /\ TargetsFit'
  BY <1>2, <1>7 DEF IInv, StampsNumbered, ElementsOfOne, StampsAreCalls, StampsFit, StampedTargets,
                    TargetsFit, Keys
<1>9. StampsComeLater'
  BY <1>3, <1>6, <1>7 DEF IInv, StampsComeLater
<1>10. SamplesAreOfCalls' /\ StampUsedOnce'
  <2>1. ASSUME NEW s \in samples, NEW u \in Threads, u = calls[s.to], Alone(u)
        PROVE  /\ s.from = Stamped(Pid[u])' => thread'[u].at = "delete"
               /\ ToEnter(u)' => s.from # thread'[u].call
    BY <1>1, <1>3, <1>6, <1>7, <2>1, SampleThreads
  <2> QED BY <1>2, <2>1, SamplesStay
<1> QED BY <1>4, <1>5, <1>8, <1>9, <1>10 DEF IInv

LEMMA StutterKeeps == IInv /\ UNCHANGED vars => IInv'
<1> SUFFICES ASSUME IInv, UNCHANGED vars PROVE IInv'
  OBVIOUS
<1> QED BY DEF vars, IInv, TypeOK, ProgramsRunOnce, CallsAreNumbered, StampsNumbered, ElementsOfOne,
           StampsAreCalls, Stamped, PointersHeld, StampsComeLater, SamplesAreOfCalls, StampUsedOnce,
           StampsFit, MeasuringTargets, StampedTargets, TargetsFit, ToEnter, Alone, Keys

LEMMA NextKeeps == IInv /\ [Next]_vars => IInv'
BY RegisterKeeps, LoaderKeeps, CallKeeps, EnterKeeps, MeasureKeeps, DeleteKeeps,
   QuietStepsKeep, ReturnKeeps, LeaveKeeps, StutterKeeps DEF Next

(* The strengthened invariant holds in every reachable state: maps keyed   *)
(* by process, stamps that are numbers of calls of that process, samples   *)
(* whose stamp is gone or about to go.                                     *)
THEOREM IInvHolds == Spec => []IInv
BY InitHolds, NextKeeps, PTL DEF Spec

(* Every variable has its type: in particular a thread past the stamp      *)
(* check is still inside its call, and no event has the stack "none".      *)
THEOREM TypeCorrect == Spec => []TypeOK
<1>1. IInv => TypeOK
  BY DEF IInv
<1> QED BY <1>1, IInvHolds, PTL

(* A thread alone in its process measures only against stamps of its own,  *)
(* and against none twice, though the lookup, the read and the deletion    *)
(* are separate steps and elements are used again at once: no one but the  *)
(* thread itself can replace or delete the stamp of its process            *)
(* (nexuscore_probe.bpf.c:116, 129-133).                                   *)
THEOREM StampsAreUsedOnce == Spec => []StampUsedOnce
<1>1. IInv => StampUsedOnce
  BY DEF IInv
<1> QED BY <1>1, IInvHolds, PTL

(* start_ts takes every stamp, whatever its size and however many          *)
(* processes there are: only processes in target_pids are stamped, the     *)
(* loader removes none of them, and both maps have MAX_TRACKED_PIDS        *)
(* entries.                                                                *)
THEOREM StampsAlwaysFit == Spec => []StampsFit
<1>1. IInv => StampsFit
  BY DEF IInv
<1> QED BY <1>1, IInvHolds, PTL

-------------------------------------------------------------------------------
(* The balance of the histograms and the events.  The loader must not put  *)
(* one process twice: the stack is read through a pointer, once for the    *)
(* histogram and once more for the event.                                  *)

TargetsDistinct == \A i, j \in DOMAIN Targets : Targets[i][1] = Targets[j][1] => i = j
AlreadyPut == \A p \in Pids : target[p] # "none" => \E i \in 1 .. puts : Targets[i][1] = p

Balance == TargetsDistinct /\ IInv /\ AlreadyPut /\ CountedAsReported

(* The parts of the balance are numbers. *)
LEMMA PartsAreNumbers ==
  ASSUME TypeOK, NEW s \in Stacks
  PROVE  /\ IsFiniteSet(Emitting(s)) /\ Cardinality(Emitting(s)) \in Nat
         /\ Cardinality(InRing(s)) = Occurrences(events, s)
         /\ Occurrences(events, s) \in Nat
         /\ hist[s] \in Nat /\ shown[s] \in Nat /\ dropped[s] \in Nat
<1>1. Emitting(s) \subseteq Threads
  BY DEF Emitting
<1>2. IsFiniteSet(Emitting(s)) /\ Cardinality(Emitting(s)) \in Nat
  BY <1>1, LatencyProbeAssumption, FS_Subset, FS_CardinalityType
<1>3. Cardinality(InRing(s)) = Occurrences(events, s)
  BY DEF InRing, Occurrences
<1>4. Occurrences(events, s) \in Nat
  BY OccurrencesType DEF TypeOK
<1>5. hist[s] \in Nat /\ shown[s] \in Nat /\ dropped[s] \in Nat
  BY DEF TypeOK, Histograms
<1> QED BY <1>2, <1>3, <1>4, <1>5

(* A step that adds and sends no event. *)
LEMMA NothingCounted ==
  ASSUME Balance, UNCHANGED <<hist, events, shown, dropped>>,
         \A t \in Threads : thread'[t].at = "emit" <=> thread[t].at = "emit",
         \A t \in Threads : thread[t].at = "emit" => target'[Pid[t]] = target[Pid[t]]
  PROVE  CountedAsReported'
<1>1. ASSUME NEW s \in Stacks PROVE Emitting(s)' = Emitting(s)
  BY DEF Emitting
<1>2. ASSUME NEW s \in Stacks PROVE InRing(s)' = InRing(s)
  BY DEF InRing
<1> QED BY <1>1, <1>2 DEF Balance, CountedAsReported

LEMMA RegisterBalances ==
  ASSUME Balance, Register
  PROVE  CountedAsReported' /\ AlreadyPut'
<1> DEFINE p == Targets[puts + 1][1]
<1>1. /\ p \in Pids /\ \A q \in Pids : q # p => target'[q] = target[q]
      /\ UNCHANGED <<thread, hist, events, shown, dropped>> /\ puts' = puts + 1
  BY RegisterWrites DEF Balance, IInv, Register
<1>2. puts \in Nat /\ DOMAIN Targets = 1 .. Len(Targets) /\ puts + 1 \in DOMAIN Targets
      /\ \A i \in 1 .. puts : i \in DOMAIN Targets /\ i # puts + 1 /\ i \in 1 .. puts + 1
  <2>1. Targets \in Seq(Pids \X Stacks)
    BY LatencyProbeAssumption
  <2>2. Len(Targets) \in Nat /\ DOMAIN Targets = 1 .. Len(Targets)
    BY <2>1, LenProperties
  <2>3. puts \in 0 .. Len(Targets) /\ puts < Len(Targets)
    BY DEF Balance, IInv, TypeOK, Register
  <2> QED BY <2>2, <2>3
<1>3. ASSUME NEW q \in Pids, target[q] # "none" PROVE q # p
  <2>1. PICK i \in 1 .. puts : Targets[i][1] = q
    BY <1>3 DEF Balance, AlreadyPut
  <2> QED BY <1>2, <2>1 DEF Balance, TargetsDistinct
<1>4. AlreadyPut'
  <2>1. SUFFICES ASSUME NEW q \in Pids, target'[q] # "none"
                 PROVE  \E i \in 1 .. puts + 1 : Targets[i][1] = q
    BY <1>1 DEF AlreadyPut
  <2>2. CASE q = p
    BY <1>2, <2>2
  <2>3. CASE q # p
    <3>1. PICK i \in 1 .. puts : Targets[i][1] = q
      BY <1>1, <2>1, <2>3 DEF Balance, AlreadyPut
    <3> QED BY <1>2, <3>1
  <2> QED BY <2>2, <2>3
<1>5. ASSUME NEW t \in Threads, thread[t].at = "emit" PROVE target'[Pid[t]] = target[Pid[t]]
  <2>1. Pid[t] \in Pids /\ target[Pid[t]] # "none"
    BY <1>5 DEF Balance, IInv, MeasuringTargets, Pids
  <2> QED BY <1>1, <1>3, <2>1
<1> HIDE DEF p
<1>6. CountedAsReported'
  BY <1>1, <1>5, NothingCounted
<1> QED BY <1>4, <1>6

LEMMA ReadEventBalances ==
  ASSUME Balance, ReadEvent
  PROVE  CountedAsReported'
<1> DEFINE e == Head(events)
<1>1. /\ events \in Seq(Stacks) /\ events # <<>> /\ TypeOK /\ TypeOK'
      /\ UNCHANGED <<thread, target, hist, dropped>>
      /\ events' = Tail(events) /\ shown' = [shown EXCEPT ![e] = @ + 1]
  BY LoaderKeeps DEF Balance, IInv, TypeOK, ReadEvent
<1>2. SUFFICES ASSUME NEW s \in Stacks
               PROVE  hist[s] = Cardinality(Emitting(s)) + Cardinality(InRing(s)')
                                  + shown'[s] + dropped[s]
  BY <1>1 DEF CountedAsReported, Emitting
<1>3. Occurrences(events, s) = Occurrences(Tail(events), s) + (IF e = s THEN 1 ELSE 0)
  BY <1>1, TailOccurrences
<1>4. Tail(events) \in Seq(Stacks) /\ Cardinality(InRing(s)') = Occurrences(Tail(events), s)
  BY <1>1, HeadTailProperties DEF InRing, Occurrences
<1>5. Occurrences(Tail(events), s) \in Nat
  BY <1>4, OccurrencesType
<1> HIDE DEF e
<1>6. shown'[s] = shown[s] + (IF e = s THEN 1 ELSE 0)
  <2>1. shown \in [Stacks -> Nat]
    BY <1>1 DEF TypeOK
  <2> QED BY <1>1, <2>1
<1>7. hist[s] = Cardinality(Emitting(s)) + Cardinality(InRing(s)) + shown[s] + dropped[s]
  BY DEF Balance, CountedAsReported
<1> QED BY <1>1, <1>3, <1>4, <1>5, <1>6, <1>7, PartsAreNumbers

(* A process that is put once is read with its stack. *)
LEMMA StackReadOnce ==
  ASSUME Balance, NEW p \in Pids, target[p] # "none"
  PROVE  StackRead(p) = {target[p]}
<1>1. PICK i \in 1 .. puts : Targets[i][1] = p
  BY DEF Balance, AlreadyPut
<1>2. \A j \in 1 .. puts : j \in DOMAIN Targets
  <2>1. Targets \in Seq(Pids \X Stacks) /\ puts \in 0 .. Len(Targets)
    BY LatencyProbeAssumption DEF Balance, IInv, TypeOK
  <2> QED BY <2>1, LenProperties
<1>3. {j \in 1 .. puts : Targets[j][1] = p} = {i}
  BY <1>1, <1>2 DEF Balance, TargetsDistinct
<1>4. Cardinality({i}) = 1
  BY FS_Singleton
<1> QED BY <1>3, <1>4 DEF StackRead

(* Count adds a sample, and the thread is about to send its event. *)
LEMMA CountBalances ==
  ASSUME Balance, NEW t \in Threads, Count(t)
  PROVE  CountedAsReported'
<1> DEFINE e == target[Pid[t]]
<1>1. /\ thread[t].at = "count" /\ thread[t].at # "outside" /\ thread[t].progs # <<>>
      /\ Head(thread[t].progs) = "exit" /\ e \in Stacks /\ TypeOK
      /\ thread[t].start \in {0} \cup Elements /\ StackRead(Pid[t]) = {e}
      /\ UNCHANGED <<target, events, shown, dropped>>
  BY MeasuringPrograms, StackReadOnce DEF Balance, IInv, Count, InCall, Stacks
<1>2. CASE thread[t].op # "vfs_read"
  <2>1. GoesOn(t) /\ thread'[t].at = "call"
    BY <1>1, <1>2, DoneGoesOn DEF Balance, Count
  <2>2. \A s \in Stacks : hist'[s] = hist[s]
    BY <1>1, <1>2 DEF Balance, IInv, TypeOK, Count, Histograms, Stacks
  <2>3. \A s \in Stacks : Emitting(s)' = Emitting(s) /\ InRing(s)' = InRing(s)
    BY <1>1, <2>1 DEF Emitting, InRing, GoesOn
  <2> QED BY <1>1, <2>2, <2>3 DEF Balance, CountedAsReported
<1>3. CASE thread[t].op = "vfs_read"
  <2>1. GoesOn(t) /\ thread'[t].at = "emit"
    <3>1. thread' = [thread EXCEPT ![t].at = "emit"]
      BY <1>3 DEF Count
    <3> QED BY <1>1, <3>1, MoveGoesOn DEF Balance
  <2> SUFFICES ASSUME NEW s \in Stacks
               PROVE  hist'[s] = Cardinality(Emitting(s)') + Cardinality(InRing(s))
                                   + shown[s] + dropped[s]
    BY <1>1 DEF CountedAsReported, InRing
  <2>2. hist[s] = Cardinality(Emitting(s)) + Cardinality(InRing(s)) + shown[s] + dropped[s]
    BY DEF Balance, CountedAsReported
  <2>3. hist'[s] = hist[s] + (IF e = s THEN 1 ELSE 0)
    <3>1. hist \in [Histograms -> Nat] /\ s \in Histograms /\ e \in Histograms
      BY <1>1 DEF TypeOK, Histograms
    <3>2. hist' = [hist EXCEPT ![e] = @ + 1]
      <4> HIDE DEF e
      <4> QED BY <1>1, <1>3 DEF Count
    <3> HIDE DEF e
    <3> QED BY <3>1, <3>2
  <2>4. Cardinality(Emitting(s)') = Cardinality(Emitting(s)) + (IF e = s THEN 1 ELSE 0)
    <3>1. t \notin Emitting(s)
      BY <1>1 DEF Emitting
    <3>2. CASE e = s
      <4>1. Emitting(s)' = Emitting(s) \cup {t}
        BY <1>1, <2>1, <3>2 DEF Emitting, GoesOn
      <4> QED BY <1>1, <3>1, <3>2, <4>1, PartsAreNumbers, FS_AddElement
    <3>3. CASE e # s
      <4>1. Emitting(s)' = Emitting(s)
        BY <1>1, <2>1, <3>3 DEF Emitting, GoesOn
      <4> QED BY <1>1, <3>3, <4>1, PartsAreNumbers
    <3> QED BY <3>2, <3>3
  <2> HIDE DEF e
  <2> QED BY <1>1, <2>2, <2>3, <2>4, PartsAreNumbers
<1> QED BY <1>2, <1>3

(* Emit puts the event into the ring or drops it. *)
LEMMA EmitBalances ==
  ASSUME Balance, NEW t \in Threads, Emit(t)
  PROVE  CountedAsReported'
<1> DEFINE e == target[Pid[t]]
<1>1. /\ thread[t].at = "emit" /\ thread[t].at # "outside" /\ thread[t].progs # <<>>
      /\ e \in Stacks /\ TypeOK /\ events \in Seq(Stacks) /\ StackRead(Pid[t]) = {e}
      /\ UNCHANGED <<target, hist, shown>>
  BY MeasuringPrograms, StackReadOnce DEF Balance, IInv, TypeOK, Emit, Stacks
<1>2. GoesOn(t) /\ thread'[t].at = "call"
  BY <1>1, DoneGoesOn DEF Balance, Emit
<1> SUFFICES ASSUME NEW s \in Stacks
             PROVE  hist[s] = Cardinality(Emitting(s)') + Cardinality(InRing(s)')
                                + shown[s] + dropped'[s]
  BY <1>1 DEF CountedAsReported
<1>3. hist[s] = Cardinality(Emitting(s)) + Cardinality(InRing(s)) + shown[s] + dropped[s]
  BY DEF Balance, CountedAsReported
<1>4. Cardinality(Emitting(s)) = Cardinality(Emitting(s)') + (IF e = s THEN 1 ELSE 0)
      /\ Cardinality(Emitting(s)') \in Nat
  <2>1. CASE e = s
    <3>1. Emitting(s)' = Emitting(s) \ {t} /\ t \in Emitting(s)
      BY <1>1, <1>2, <2>1 DEF Emitting, GoesOn
    <3>2. Cardinality(Emitting(s) \ {t}) = Cardinality(Emitting(s)) - 1
          /\ IsFiniteSet(Emitting(s) \ {t})
      BY <1>1, <3>1, PartsAreNumbers, FS_RemoveElement
    <3>3. Cardinality(Emitting(s) \ {t}) \in Nat
      BY <3>2, FS_CardinalityType
    <3> QED BY <1>1, <2>1, <3>1, <3>2, <3>3, PartsAreNumbers
  <2>2. CASE e # s
    <3>1. Emitting(s)' = Emitting(s)
      BY <1>1, <1>2, <2>2 DEF Emitting, GoesOn
    <3> QED BY <1>1, <2>2, <3>1, PartsAreNumbers
  <2> QED BY <2>1, <2>2
<1>5. Cardinality(InRing(s)') = Occurrences(events', s)
  BY DEF InRing, Occurrences
<1>6. CASE Len(events) < RingSize
  <2> HIDE DEF e
  <2>1. events' = Append(events, e) /\ dropped' = dropped
    BY <1>1, <1>6 DEF Emit
  <2>2. Occurrences(Append(events, e), s) = Occurrences(events, s) + (IF e = s THEN 1 ELSE 0)
    BY <1>1, AppendOccurrences
  <2> QED BY <1>1, <1>3, <1>4, <1>5, <2>1, <2>2, PartsAreNumbers
<1>7. CASE ~ (Len(events) < RingSize)
  <2> HIDE DEF e
  <2>1. events' = events /\ dropped' = [dropped EXCEPT ![e] = @ + 1]
    BY <1>1, <1>7 DEF Emit
  <2>2. dropped \in [Stacks -> Nat]
    BY <1>1 DEF TypeOK
  <2>3. dropped'[s] = dropped[s] + (IF e = s THEN 1 ELSE 0)
    BY <1>1, <2>1, <2>2
  <2>4. Cardinality(InRing(s)') = Cardinality(InRing(s))
    BY <2>1 DEF InRing
  <2>5. /\ Cardinality(Emitting(s)) \in Nat /\ Cardinality(InRing(s)) \in Nat
        /\ hist[s] \in Nat /\ shown[s] \in Nat /\ dropped[s] \in Nat
    BY <1>1, PartsAreNumbers
  <2> QED BY <1>3, <1>4, <2>3, <2>4, <2>5
<1> QED BY <1>6, <1>7

(* Every other step of a thread leaves the sides of the balance alone. *)
LEMMA OthersBalance ==
  ASSUME Balance, NEW t \in Threads,
         \/ Enter(t) \/ ExitEarly(t) \/ Lookup(t) \/ Measure(t) \/ Delete(t) \/ Return(t) \/ Leave(t)
         \/ \E op \in Ops : Call(t, op)
  PROVE  CountedAsReported' /\ UNCHANGED <<puts, target>>
<1>1. /\ UNCHANGED <<puts, target, hist, events, shown, dropped>>
      /\ thread[t].at \in {"outside", "call", "measure", "delete"}
  BY DEF Enter, ExitEarly, Lookup, Measure, Delete, Return, Leave, Call, Runs, Idle
<1>2. /\ thread'[t].at # "emit"
      /\ \A u \in Threads : u # t => thread'[u] = thread[u]
  <2>1. CASE Enter(t) \/ ExitEarly(t)
    BY <2>1, RunningPrograms, DoneGoesOn DEF Balance, Enter, ExitEarly, GoesOn
  <2>2. CASE Lookup(t)
    <3>1. start_ts[Pid[t]] \in {0} \cup Elements
      BY <2>2, RunningPrograms DEF Balance, IInv, TypeOK, Lookup
    <3> QED BY <2>2, <3>1, RunningPrograms, MoveGoesOn DEF Balance, Lookup, GoesOn
  <2>3. CASE Measure(t) \/ Delete(t)
    <3>1. /\ thread[t].at \in {"measure", "delete"} /\ thread[t].at # "outside"
          /\ thread[t].progs # <<>> /\ Head(thread[t].progs) = "exit"
          /\ thread[t].start \in {0} \cup Elements
      BY <2>3, MeasuringPrograms DEF Balance, Measure, Delete, InCall
    <3>2. \/ thread' = [thread EXCEPT ![t].at = "delete", ![t].start = 0]
          \/ thread' = [thread EXCEPT ![t].at = "count"]
      BY <2>3 DEF Measure, Delete
    <3>3. CASE thread' = [thread EXCEPT ![t].at = "delete", ![t].start = 0]
      BY <3>1, <3>3, MoveGoesOn DEF Balance, GoesOn
    <3>4. CASE thread' = [thread EXCEPT ![t].at = "count"]
      BY <3>1, <3>4, MoveGoesOn DEF Balance, GoesOn
    <3> QED BY <3>2, <3>3, <3>4
  <2>4. CASE Return(t)
    BY <2>4, ThreadTypes DEF Balance, IInv, TypeOK, InCall, Return, Idle
  <2>5. CASE Leave(t)
    BY <2>5 DEF Balance, IInv, TypeOK, Leave, Outside
  <2>6. ASSUME NEW op \in Ops, Call(t, op)
        PROVE  thread'[t].at # "emit" /\ \A u \in Threads : u # t => thread'[u] = thread[u]
    BY <2>6 DEF Balance, IInv, TypeOK, Call
  <2> QED BY <2>1, <2>2, <2>3, <2>4, <2>5, <2>6
<1>3. CountedAsReported'
  <2>1. \A u \in Threads : thread'[u].at = "emit" <=> thread[u].at = "emit"
    BY <1>1, <1>2
  <2> QED BY <1>1, <2>1, NothingCounted
<1> QED BY <1>1, <1>3

LEMMA InitBalances == Init => AlreadyPut /\ CountedAsReported
<1> SUFFICES ASSUME Init PROVE AlreadyPut /\ CountedAsReported
  OBVIOUS
<1>1. AlreadyPut
  BY DEF Init, AlreadyPut
<1>2. ASSUME NEW s \in Stacks PROVE Emitting(s) = {} /\ InRing(s) = {}
  BY DEF Init, Emitting, InRing, Outside
<1>3. CountedAsReported
  <2>1. ASSUME NEW s \in Stacks
        PROVE  /\ hist[s] = 0 /\ shown[s] = 0 /\ dropped[s] = 0
               /\ Cardinality(Emitting(s)) = 0 /\ Cardinality(InRing(s)) = 0
    BY <1>2, FS_EmptySet DEF Init, Histograms
  <2> QED BY <2>1 DEF CountedAsReported
<1> QED BY <1>1, <1>3

LEMMA NextBalances == Balance /\ [Next]_vars => Balance'
<1> SUFFICES ASSUME Balance, [Next]_vars PROVE Balance'
  OBVIOUS
<1>1. IInv'
  BY NextKeeps DEF Balance
<1>2. TargetsDistinct'
  BY DEF Balance, TargetsDistinct
<1>3. CASE Register
  BY <1>1, <1>2, <1>3, RegisterBalances DEF Balance
<1>4. CASE ReadEvent
  BY <1>1, <1>2, <1>4, ReadEventBalances DEF Balance, AlreadyPut, ReadEvent
<1>5. CASE Stop
  <2>1. UNCHANGED <<puts, target, thread, hist, events, shown, dropped>>
    BY <1>5 DEF Stop
  <2> QED BY <1>1, <1>2, <2>1, NothingCounted DEF Balance, AlreadyPut
<1>6. ASSUME NEW t \in Threads, Count(t) PROVE Balance'
  BY <1>1, <1>2, <1>6, CountBalances DEF Balance, AlreadyPut, Count
<1>7. ASSUME NEW t \in Threads, Emit(t) PROVE Balance'
  BY <1>1, <1>2, <1>7, EmitBalances DEF Balance, AlreadyPut, Emit
<1>8. ASSUME NEW t \in Threads,
             \/ Enter(t) \/ ExitEarly(t) \/ Lookup(t) \/ Measure(t) \/ Delete(t) \/ Return(t) \/ Leave(t)
             \/ \E op \in Ops : Call(t, op)
      PROVE  Balance'
  BY <1>1, <1>2, <1>8, OthersBalance DEF Balance, AlreadyPut
<1>9. CASE UNCHANGED vars
  <2>1. UNCHANGED <<puts, target, thread, hist, events, shown, dropped>>
    BY <1>9 DEF vars
  <2> QED BY <1>1, <1>2, <2>1, NothingCounted DEF Balance, AlreadyPut
<1> QED BY <1>3, <1>4, <1>5, <1>6, <1>7, <1>8, <1>9 DEF Next

(* When no process is put twice, every sample of a stack's histogram has   *)
(* one event of that stack, about to be sent, in the ring, shown or        *)
(* dropped, for any number of threads and any size of the ring.            *)
THEOREM HistogramsBalance == TargetsDistinct /\ Spec => []CountedAsReported
<1>1. TargetsDistinct /\ Init => Balance
  BY InitHolds, InitBalances DEF Balance
<1>2. Balance => CountedAsReported
  BY DEF Balance
<1> QED BY <1>1, <1>2, NextBalances, PTL DEF Spec

-------------------------------------------------------------------------------
(* The load generator.                                                     *)

WorkerStates == {"new", "loop", "request", "count", "pace", "wait", "done"}

LoadTypeOK ==
  /\ now \in Nat
  /\ worker \in [Workers -> WorkerStates]
  /\ next_tick \in [Workers -> Nat] /\ begun \in [Workers -> Nat] /\ worker_hist \in [Workers -> Nat]
  /\ started \in [Workers -> Nat]
  /\ TOTAL_REQUESTS \in Nat /\ TOTAL_ERRORS \in Nat
  /\ joined \in 0 .. WorkerCount

(* The tick a worker waits for, or is past, counts its requests from its   *)
(* start; only while it waits may that tick be ahead of the clock.         *)
TicksCountRequests ==
  \A w \in Workers :
    LET pace == started[w] + begun[w] * Interval
    IN /\ started[w] <= now
       /\ worker[w] = "new" => begun[w] = 0 /\ started[w] = 0
       /\ worker[w] \in {"loop", "wait", "done"} => next_tick[w] = pace
       /\ worker[w] \in {"request", "count", "pace"} => next_tick[w] + Interval = pace
       /\ worker[w] \in WorkerStates \ {"new", "wait"} => next_tick[w] <= now
       /\ worker[w] = "wait" => next_tick[w] <= now + Interval

JoinedAreDone ==
  /\ \A w \in 1 .. joined : worker[w] = "done"
  /\ combined_hist = SumFunctionOnSet(worker_hist, 1 .. joined)

LoadInv == LoadTypeOK /\ TicksCountRequests /\ JoinedAreDone /\ EveryRequestCounted

(* There is a worker, and a pace for it. *)
LEMMA LoadConstants ==
  /\ WorkerCount \in Nat \ {0} /\ Interval \in Nat
  /\ Workers = 1 .. WorkerCount /\ IsFiniteSet(Workers)
<1>1. WorkerCount \in Nat \ {0}
  BY LoadGenAssumption DEF WorkerCount
<1>2. Rps \div WorkerCount \in Nat
  BY <1>1, LoadGenAssumption
<1>3. RpsPerWorker \in Nat \ {0}
  BY <1>2 DEF RpsPerWorker
<1>4. Second \div RpsPerWorker \in Nat
  BY <1>3, LoadGenAssumption
<1> QED BY <1>1, <1>4, FS_Interval DEF Interval, Workers

(* One request more is one interval more. *)
LEMMA OneMoreInterval ==
  ASSUME NEW n \in Nat, NEW i \in Nat
  PROVE  n * i \in Nat /\ 0 * i = 0 /\ (n + 1) * i = n * i + i
OBVIOUS

(* The types that a worker's variables have. *)
LEMMA LoadTypes ==
  ASSUME LoadTypeOK
  PROVE  /\ now \in Nat /\ joined \in 0 .. WorkerCount /\ WorkerCount \in Nat \ {0} /\ Interval \in Nat
         /\ TOTAL_REQUESTS \in Nat /\ TOTAL_ERRORS \in Nat
         /\ DOMAIN worker = Workers /\ DOMAIN worker_hist = Workers
         /\ \A w \in Workers : /\ worker[w] \in WorkerStates
                               /\ next_tick[w] \in Nat /\ begun[w] \in Nat /\ worker_hist[w] \in Nat
                               /\ started[w] \in Nat /\ begun[w] * Interval \in Nat
<1>1. Interval \in Nat /\ \A w \in Workers : begun[w] \in Nat
  BY LoadConstants DEF LoadTypeOK
<1>2. \A w \in Workers : begun[w] * Interval \in Nat
  BY <1>1, OneMoreInterval
<1> QED BY <1>1, <1>2, LoadConstants DEF LoadTypeOK

(* A step of one worker. *)
LEMMA WorkerStep ==
  ASSUME LoadTypeOK, NEW w \in Workers, NEW from, NEW to \in WorkerStates, Goes(w, from, to)
  PROVE  /\ worker' \in [Workers -> WorkerStates]
         /\ worker[w] = from /\ worker'[w] = to
         /\ \A v \in Workers \ {w} : worker'[v] = worker[v]
BY DEF LoadTypeOK, Goes

(* Threads that were joined take no more steps. *)
LEMMA JoinedStayDone ==
  ASSUME LoadTypeOK, JoinedAreDone, NEW w \in Workers, worker[w] # "done",
         \A v \in Workers \ {w} : worker'[v] = worker[v] /\ worker_hist'[v] = worker_hist[v],
         UNCHANGED <<joined, combined_hist>>
  PROVE  JoinedAreDone'
<1>1. 1 .. joined \in SUBSET Workers /\ w \notin 1 .. joined /\ joined \in Nat
  BY LoadConstants DEF JoinedAreDone, LoadTypeOK
<1>2. \A v \in 1 .. joined : /\ worker'[v] = "done"
                             /\ worker_hist'[v] = worker_hist[v] /\ worker_hist[v] \in Nat
  BY <1>1, LoadTypes DEF JoinedAreDone
<1>3. IsFiniteSet(1 .. joined)
  BY <1>1, FS_Interval
<1>4. SumFunctionOnSet(worker_hist', 1 .. joined) = SumFunctionOnSet(worker_hist, 1 .. joined)
  BY <1>2, <1>3, SumSame
<1> QED BY <1>2, <1>4 DEF JoinedAreDone

(* A step that neither records nor counts. *)
LEMMA CountersStay ==
  ASSUME EveryRequestCounted, UNCHANGED <<worker_hist, TOTAL_REQUESTS, TOTAL_ERRORS, final_report>>,
         \A v \in Workers : worker'[v] = "count" <=> worker[v] = "count"
  PROVE  EveryRequestCounted'
<1>1. Counting' = Counting
  BY DEF Counting
<1> QED BY <1>1 DEF EveryRequestCounted

(* A step of one worker that leaves the clock alone. *)
LEMMA OtherTicks ==
  ASSUME TicksCountRequests, NEW w \in Workers, UNCHANGED now,
         \A v \in Workers \ {w} :
           /\ worker'[v] = worker[v] /\ next_tick'[v] = next_tick[v]
           /\ begun'[v] = begun[v] /\ started'[v] = started[v],
         LET pace == started'[w] + begun'[w] * Interval
         IN /\ started'[w] <= now
            /\ worker'[w] = "new" => begun'[w] = 0 /\ started'[w] = 0
            /\ worker'[w] \in {"loop", "wait", "done"} => next_tick'[w] = pace
            /\ worker'[w] \in {"request", "count", "pace"} => next_tick'[w] + Interval = pace
            /\ worker'[w] \in WorkerStates \ {"new", "wait"} => next_tick'[w] <= now
            /\ worker'[w] = "wait" => next_tick'[w] <= now + Interval
  PROVE  TicksCountRequests'
BY DEF TicksCountRequests

(* Before any worker has started. *)
LEMMA InitEstablishesLoadInv == LoadInit => LoadInv
<1> SUFFICES ASSUME LoadInit PROVE LoadInv
  OBVIOUS
<1>1. LoadTypeOK
  BY LoadConstants DEF LoadInit, LoadTypeOK, WorkerStates, NoneYet
<1>2. TicksCountRequests
  BY <1>1, LoadTypes, OneMoreInterval DEF LoadInit, TicksCountRequests, WorkerStates, NoneYet
<1>3. JoinedAreDone
  <2>1. joined = 0 /\ combined_hist = 0 /\ 1 .. joined = {}
    BY DEF LoadInit
  <2>2. SumFunctionOnSet(worker_hist, {}) = 0
    BY FS_EmptySet, SumType
  <2> QED BY <2>1, <2>2 DEF JoinedAreDone
<1>4. EveryRequestCounted
  <2>1. Counting = {}
    BY DEF LoadInit, Counting
  <2>2. worker_hist = [w \in Workers |-> 0]
    BY DEF LoadInit, NoneYet
  <2>3. SumFunction(worker_hist) = 0
    <3>1. DOMAIN worker_hist = Workers /\ \A w \in Workers : worker_hist[w] = 0
      BY <2>2
    <3>2. SumFunctionOnSet(worker_hist, Workers) = 0
      BY <3>1, LoadConstants, SumType
    <3> QED BY <3>1, <3>2 DEF SumFunction
  <2>4. TOTAL_REQUESTS = 0 /\ TOTAL_ERRORS = 0 /\ ~ final_report.made
    BY DEF LoadInit, Unreported
  <2> QED BY <2>1, <2>3, <2>4, FS_EmptySet DEF EveryRequestCounted
<1> QED BY <1>1, <1>2, <1>3, <1>4 DEF LoadInv

(* The clock. *)
LEMMA TickPreservesLoadInv ==
  ASSUME LoadInv, Tick
  PROVE  LoadInv'
<1>1. /\ now' = now + 1
      /\ UNCHANGED <<worker, next_tick, begun, worker_hist, TOTAL_REQUESTS, TOTAL_ERRORS,
                     combined_hist, joined, final_report, started>>
  BY DEF Tick, counters, main
<1>2. LoadTypeOK /\ LoadTypeOK'
  BY <1>1 DEF LoadInv, LoadTypeOK
<1>3. TicksCountRequests'
  <2>1. now \in Nat /\ Interval \in Nat /\ \A w \in Workers : next_tick[w] \in Nat /\ started[w] \in Nat
    BY <1>2, LoadTypes
  <2>2. /\ \A w \in Workers : started[w] <= now => started[w] <= now'
        /\ \A w \in Workers : next_tick[w] <= now => next_tick[w] <= now'
        /\ \A w \in Workers : next_tick[w] <= now + Interval => next_tick[w] <= now' + Interval
    BY <1>1, <2>1
  <2> QED BY <1>1, <2>2 DEF LoadInv, TicksCountRequests
<1>4. JoinedAreDone' /\ EveryRequestCounted'
  BY <1>1, CountersStay DEF LoadInv, JoinedAreDone
<1> QED BY <1>2, <1>3, <1>4 DEF LoadInv

(* A worker starts, and with it its ticks. *)
LEMMA StartPreservesLoadInv ==
  ASSUME LoadInv, NEW w \in Workers, Start(w)
  PROVE  LoadInv'
<1>1. /\ Goes(w, "new", "loop")
      /\ next_tick' = [next_tick EXCEPT ![w] = now] /\ started' = [started EXCEPT ![w] = now]
      /\ UNCHANGED <<now, begun, worker_hist, TOTAL_REQUESTS, TOTAL_ERRORS, combined_hist, joined, final_report>>
  BY DEF Start, counters, main
<1>2. LoadTypeOK /\ TicksCountRequests /\ JoinedAreDone /\ EveryRequestCounted
  BY DEF LoadInv
<1>3. /\ worker' \in [Workers -> WorkerStates] /\ worker[w] = "new" /\ worker'[w] = "loop"
      /\ \A v \in Workers \ {w} : worker'[v] = worker[v]
  BY <1>1, <1>2, WorkerStep DEF WorkerStates
<1>4. LoadTypeOK'
  BY <1>1, <1>2, <1>3 DEF LoadTypeOK
<1>5. /\ next_tick'[w] = now /\ started'[w] = now /\ begun'[w] = 0
      /\ \A v \in Workers \ {w} : next_tick'[v] = next_tick[v] /\ started'[v] = started[v]
  BY <1>1, <1>2, <1>3 DEF LoadTypeOK, TicksCountRequests
<1>6. TicksCountRequests'
  <2>1. now \in Nat /\ Interval \in Nat
    BY <1>2, LoadTypes
  <2>2. started'[w] + begun'[w] * Interval = now
    BY <1>5, <2>1, OneMoreInterval
  <2> QED BY <1>1, <1>2, <1>3, <1>5, <2>1, <2>2, OtherTicks DEF WorkerStates
<1>7. JoinedAreDone'
  BY <1>1, <1>2, <1>3, JoinedStayDone
<1>8. EveryRequestCounted'
  BY <1>1, <1>2, <1>3, CountersStay
<1> QED BY <1>4, <1>6, <1>7, <1>8 DEF LoadInv

(* A request begins: one more interval is owed. *)
LEMMA BeginPreservesLoadInv ==
  ASSUME LoadInv, NEW w \in Workers, BeginRequest(w)
  PROVE  LoadInv'
<1>1. /\ Goes(w, "loop", "request")
      /\ begun' = [begun EXCEPT ![w] = @ + 1]
      /\ UNCHANGED <<now, next_tick, started, worker_hist, TOTAL_REQUESTS, TOTAL_ERRORS,
                     combined_hist, joined, final_report>>
  BY DEF BeginRequest, counters, main
<1>2. LoadTypeOK /\ TicksCountRequests /\ JoinedAreDone /\ EveryRequestCounted
  BY DEF LoadInv
<1>3. /\ worker' \in [Workers -> WorkerStates] /\ worker[w] = "loop" /\ worker'[w] = "request"
      /\ \A v \in Workers \ {w} : worker'[v] = worker[v]
  BY <1>1, <1>2, WorkerStep DEF WorkerStates
<1>4. begun'[w] = begun[w] + 1 /\ \A v \in Workers \ {w} : begun'[v] = begun[v]
  BY <1>1, <1>2 DEF LoadTypeOK
<1>5. LoadTypeOK'
  BY <1>1, <1>2, <1>3 DEF LoadTypeOK
<1>6. TicksCountRequests'
  <2>1. /\ Interval \in Nat /\ begun[w] \in Nat /\ started[w] \in Nat /\ next_tick[w] \in Nat
        /\ begun[w] * Interval \in Nat
    BY <1>2, LoadTypes
  <2>2. /\ started[w] <= now /\ next_tick[w] <= now
        /\ next_tick[w] = started[w] + begun[w] * Interval
    BY <1>2, <1>3 DEF TicksCountRequests, WorkerStates
  <2>3. begun'[w] * Interval = begun[w] * Interval + Interval
    BY <1>4, <2>1, OneMoreInterval
  <2>4. next_tick'[w] + Interval = started'[w] + begun'[w] * Interval
    BY <1>1, <2>1, <2>2, <2>3
  <2> QED BY <1>1, <1>2, <1>3, <1>4, <2>2, <2>4, OtherTicks DEF WorkerStates
<1>7. JoinedAreDone'
  BY <1>1, <1>2, <1>3, JoinedStayDone
<1>8. EveryRequestCounted'
  BY <1>1, <1>2, <1>3, CountersStay
<1> QED BY <1>5, <1>6, <1>7, <1>8 DEF LoadInv

(* A latency is recorded, and its worker is about to count it. *)
LEMMA RecordPreservesLoadInv ==
  ASSUME LoadInv, NEW w \in Workers, Record(w)
  PROVE  LoadInv'
<1>1. /\ Goes(w, "request", "count")
      /\ worker_hist' = [worker_hist EXCEPT ![w] = @ + 1]
      /\ UNCHANGED <<now, next_tick, begun, started, TOTAL_REQUESTS, TOTAL_ERRORS,
                     combined_hist, joined, final_report>>
  BY DEF Record, counters, main
<1>2. LoadTypeOK /\ TicksCountRequests /\ JoinedAreDone /\ EveryRequestCounted
  BY DEF LoadInv
<1>3. /\ worker' \in [Workers -> WorkerStates] /\ worker[w] = "request" /\ worker'[w] = "count"
      /\ \A v \in Workers \ {w} : worker'[v] = worker[v]
  BY <1>1, <1>2, WorkerStep DEF WorkerStates
<1>4. \A v \in Workers \ {w} : worker_hist'[v] = worker_hist[v]
  BY <1>1, <1>2 DEF LoadTypeOK
<1>5. LoadTypeOK'
  BY <1>1, <1>2, <1>3 DEF LoadTypeOK
<1>6. TicksCountRequests'
  <2>1. /\ started[w] <= now /\ next_tick[w] <= now
        /\ next_tick[w] + Interval = started[w] + begun[w] * Interval
    BY <1>2, <1>3 DEF TicksCountRequests, WorkerStates
  <2> QED BY <1>1, <1>2, <1>3, <2>1, OtherTicks DEF WorkerStates
<1>7. JoinedAreDone'
  BY <1>1, <1>2, <1>3, <1>4, JoinedStayDone
<1>8. EveryRequestCounted'
  <2>1. SumFunction(worker_hist') = SumFunction(worker_hist) + 1
    <3>1. DOMAIN worker_hist = Workers /\ DOMAIN worker_hist' = Workers
      BY <1>2, <1>5, LoadTypes DEF LoadTypeOK
    <3>2. \A v \in Workers : worker_hist[v] \in Nat
      BY <1>2, LoadTypes
    <3>3. SumFunctionOnSet(worker_hist', Workers) = SumFunctionOnSet(worker_hist, Workers) + 1
      <4>1. PICK f, g : f = worker_hist /\ g = worker_hist'
        OBVIOUS
      <4>2. IsFiniteSet(Workers) /\ 1 \in Nat /\ \A v \in Workers : f[v] \in Nat
        BY <3>2, <4>1, LoadConstants
      <4>3. g[w] = f[w] + 1 /\ \A v \in Workers \ {w} : g[v] = f[v]
        BY <1>1, <3>1, <4>1
      <4>4. SumFunctionOnSet(g, Workers) = SumFunctionOnSet(f, Workers) + 1
        BY <4>2, <4>3, SumChanges
      <4> QED BY <4>1, <4>4
    <3> QED BY <3>1, <3>3 DEF SumFunction
  <2>2. Cardinality(Counting') = Cardinality(Counting) + 1 /\ Cardinality(Counting) \in Nat
    <3>1. Counting' = Counting \cup {w} /\ w \notin Counting /\ Counting \in SUBSET Workers
      BY <1>3 DEF Counting
    <3>2. IsFiniteSet(Counting)
      BY <3>1, LoadConstants, FS_Subset
    <3> QED BY <3>1, <3>2, FS_AddElement, FS_CardinalityType
  <2>3. TOTAL_REQUESTS \in Nat /\ TOTAL_ERRORS \in Nat
    BY <1>2, LoadTypes
  <2>4. SumFunction(worker_hist) = TOTAL_REQUESTS + TOTAL_ERRORS + Cardinality(Counting)
    BY <1>2 DEF EveryRequestCounted
  <2>5. SumFunction(worker_hist') = TOTAL_REQUESTS + TOTAL_ERRORS + Cardinality(Counting')
    BY <2>1, <2>2, <2>3, <2>4
  <2> QED BY <1>1, <1>2, <2>5 DEF EveryRequestCounted
<1> QED BY <1>5, <1>6, <1>7, <1>8 DEF LoadInv

(* The request is counted, as one or the other. *)
LEMMA CountPreservesLoadInv ==
  ASSUME LoadInv, NEW w \in Workers, CountRequest(w)
  PROVE  LoadInv'
<1>1. /\ Goes(w, "count", "pace")
      /\ UNCHANGED <<now, next_tick, begun, started, worker_hist, combined_hist, joined, final_report>>
  BY DEF CountRequest, main
<1>2. LoadTypeOK /\ TicksCountRequests /\ JoinedAreDone /\ EveryRequestCounted
  BY DEF LoadInv
<1>3. /\ worker' \in [Workers -> WorkerStates] /\ worker[w] = "count" /\ worker'[w] = "pace"
      /\ \A v \in Workers \ {w} : worker'[v] = worker[v]
  BY <1>1, <1>2, WorkerStep DEF WorkerStates
<1>4. /\ TOTAL_REQUESTS' \in Nat /\ TOTAL_ERRORS' \in Nat
      /\ TOTAL_REQUESTS' + TOTAL_ERRORS' = TOTAL_REQUESTS + TOTAL_ERRORS + 1
      /\ TOTAL_REQUESTS + TOTAL_ERRORS \in Nat
  <2>1. TOTAL_REQUESTS \in Nat /\ TOTAL_ERRORS \in Nat
    BY <1>2, LoadTypes
  <2>2. \/ TOTAL_REQUESTS' = TOTAL_REQUESTS + 1 /\ TOTAL_ERRORS' = TOTAL_ERRORS
        \/ TOTAL_REQUESTS' = TOTAL_REQUESTS /\ TOTAL_ERRORS' = TOTAL_ERRORS + 1
    BY DEF CountRequest
  <2> QED BY <2>1, <2>2
<1>5. LoadTypeOK'
  BY <1>1, <1>2, <1>3, <1>4 DEF LoadTypeOK
<1>6. TicksCountRequests'
  <2>1. /\ started[w] <= now /\ next_tick[w] <= now
        /\ next_tick[w] + Interval = started[w] + begun[w] * Interval
    BY <1>2, <1>3 DEF TicksCountRequests, WorkerStates
  <2> QED BY <1>1, <1>2, <1>3, <2>1, OtherTicks DEF WorkerStates
<1>7. JoinedAreDone'
  BY <1>1, <1>2, <1>3, JoinedStayDone
<1>8. EveryRequestCounted'
  <2>1. Cardinality(Counting) = Cardinality(Counting') + 1 /\ Cardinality(Counting') \in Nat
    <3>1. Counting = Counting' \cup {w} /\ w \notin Counting' /\ Counting' \in SUBSET Workers
      BY <1>3 DEF Counting
    <3>2. IsFiniteSet(Counting')
      BY <3>1, LoadConstants, FS_Subset
    <3> QED BY <3>1, <3>2, FS_AddElement, FS_CardinalityType
  <2>2. SumFunction(worker_hist) = TOTAL_REQUESTS + TOTAL_ERRORS + Cardinality(Counting)
    BY <1>2 DEF EveryRequestCounted
  <2>3. SumFunction(worker_hist) = TOTAL_REQUESTS' + TOTAL_ERRORS' + Cardinality(Counting')
    BY <1>4, <2>1, <2>2
  <2>4. final_report.made => final_report.recorded = final_report.total_requests + final_report.errors
    BY <1>2 DEF EveryRequestCounted
  <2> QED BY <1>1, <2>3, <2>4 DEF EveryRequestCounted
<1> QED BY <1>5, <1>6, <1>7, <1>8 DEF LoadInv

(* The next tick moves on by one interval. *)
LEMMA PacePreservesLoadInv ==
  ASSUME LoadInv, NEW w \in Workers, Pace(w)
  PROVE  LoadInv'
<1>1. /\ Goes(w, "pace", "wait")
      /\ next_tick' = [next_tick EXCEPT ![w] = @ + Interval]
      /\ UNCHANGED <<now, begun, started, worker_hist, TOTAL_REQUESTS, TOTAL_ERRORS,
                     combined_hist, joined, final_report>>
  BY DEF Pace, counters, main
<1>2. LoadTypeOK /\ TicksCountRequests /\ JoinedAreDone /\ EveryRequestCounted
  BY DEF LoadInv
<1>3. /\ worker' \in [Workers -> WorkerStates] /\ worker[w] = "pace" /\ worker'[w] = "wait"
      /\ \A v \in Workers \ {w} : worker'[v] = worker[v]
  BY <1>1, <1>2, WorkerStep DEF WorkerStates
<1>4. next_tick'[w] = next_tick[w] + Interval /\ \A v \in Workers \ {w} : next_tick'[v] = next_tick[v]
  BY <1>1, <1>2 DEF LoadTypeOK
<1>5. LoadTypeOK'
  BY <1>1, <1>2, <1>3, LoadTypes DEF LoadTypeOK
<1>6. TicksCountRequests'
  <2>1. /\ started[w] <= now /\ next_tick[w] <= now
        /\ next_tick[w] + Interval = started[w] + begun[w] * Interval
    BY <1>2, <1>3 DEF TicksCountRequests, WorkerStates
  <2>2. next_tick'[w] <= now + Interval
    <3>1. next_tick[w] \in Nat /\ now \in Nat /\ Interval \in Nat
      BY <1>2, LoadTypes
    <3> QED BY <1>4, <2>1, <3>1
  <2> QED BY <1>1, <1>2, <1>3, <1>4, <2>1, <2>2, OtherTicks DEF WorkerStates
<1>7. JoinedAreDone'
  BY <1>1, <1>2, <1>3, JoinedStayDone
<1>8. EveryRequestCounted'
  BY <1>1, <1>2, <1>3, CountersStay
<1> QED BY <1>5, <1>6, <1>7, <1>8 DEF LoadInv

(* A worker that is not late any more goes on, or ends. *)
LEMMA WakeOrFinishPreservesLoadInv ==
  ASSUME LoadInv, NEW w \in Workers, Wake(w) \/ Finish(w)
  PROVE  LoadInv'
<1>1. /\ \/ Goes(w, "wait", "loop") /\ next_tick[w] <= now
         \/ Goes(w, "loop", "done")
      /\ UNCHANGED <<now, next_tick, begun, started, worker_hist, TOTAL_REQUESTS, TOTAL_ERRORS,
                     combined_hist, joined, final_report>>
  BY LoadTypes DEF LoadInv, Wake, Finish, counters, main
<1>2. LoadTypeOK /\ TicksCountRequests /\ JoinedAreDone /\ EveryRequestCounted
  BY DEF LoadInv
<1>3. /\ worker' \in [Workers -> WorkerStates]
      /\ \/ worker[w] = "wait" /\ worker'[w] = "loop" /\ next_tick[w] <= now
         \/ worker[w] = "loop" /\ worker'[w] = "done"
      /\ \A v \in Workers \ {w} : worker'[v] = worker[v]
  BY <1>1, <1>2, WorkerStep DEF WorkerStates
<1>4. LoadTypeOK'
  BY <1>1, <1>2, <1>3 DEF LoadTypeOK
<1>5. TicksCountRequests'
  <2>1. /\ started[w] <= now /\ next_tick[w] <= now
        /\ next_tick[w] = started[w] + begun[w] * Interval
    BY <1>2, <1>3 DEF TicksCountRequests, WorkerStates
  <2> QED BY <1>1, <1>2, <1>3, <2>1, OtherTicks DEF WorkerStates
<1>6. JoinedAreDone'
  BY <1>1, <1>2, <1>3, JoinedStayDone
<1>7. EveryRequestCounted'
  BY <1>1, <1>2, <1>3, CountersStay
<1> QED BY <1>4, <1>5, <1>6, <1>7 DEF LoadInv

(* main adds the histogram of a thread that has ended. *)
LEMMA JoinPreservesLoadInv ==
  ASSUME LoadInv, Join
  PROVE  LoadInv'
<1>1. /\ joined < WorkerCount /\ worker[joined + 1] = "done"
      /\ joined' = joined + 1 /\ combined_hist' = combined_hist + worker_hist[joined + 1]
      /\ UNCHANGED <<now, worker, next_tick, begun, started, worker_hist, TOTAL_REQUESTS,
                     TOTAL_ERRORS, final_report>>
  BY DEF Join, counters
<1>2. LoadTypeOK /\ TicksCountRequests /\ JoinedAreDone /\ EveryRequestCounted
  BY DEF LoadInv
<1>3. joined \in 0 .. WorkerCount /\ WorkerCount \in Nat
  BY <1>2, LoadTypes
<1> PICK w : w = joined + 1
  OBVIOUS
<1>4. /\ 1 .. (joined + 1) \in SUBSET Workers /\ w \in 1 .. (joined + 1)
      /\ (1 .. (joined + 1)) \ {w} = 1 .. joined
      /\ joined \in Int /\ joined + 1 \in 0 .. WorkerCount /\ 1 \in Int
  BY <1>1, <1>3, LoadConstants
<1>5. LoadTypeOK'
  BY <1>1, <1>2, <1>4 DEF LoadTypeOK
<1>6. TicksCountRequests'
  BY <1>1, <1>2 DEF TicksCountRequests
<1>7. JoinedAreDone'
  <2>1. IsFiniteSet(1 .. (joined + 1)) /\ IsFiniteSet(1 .. joined)
    BY <1>4, FS_Interval
  <2>2. \A v \in 1 .. (joined + 1) : worker_hist[v] \in Nat
    BY <1>2, <1>4, LoadTypes
  <2>3. SumFunctionOnSet(worker_hist, 1 .. (joined + 1))
          = worker_hist[w] + SumFunctionOnSet(worker_hist, (1 .. (joined + 1)) \ {w})
    BY <1>4, <2>1, <2>2, SumSplits
  <2>4. combined_hist = SumFunctionOnSet(worker_hist, 1 .. joined)
    BY <1>2 DEF JoinedAreDone
  <2>5. combined_hist \in Nat /\ worker_hist[w] \in Nat
    <3>1. \A v \in 1 .. joined : worker_hist[v] \in Nat
      BY <1>3, <2>2
    <3> QED BY <1>4, <2>1, <2>2, <2>4, <3>1, SumType
  <2>6. combined_hist' = SumFunctionOnSet(worker_hist', 1 .. joined')
    <3>1. combined_hist' = worker_hist[w] + combined_hist
      BY <1>1, <2>5
    <3>2. joined' = joined + 1 /\ worker_hist' = worker_hist
      BY <1>1
    <3> QED BY <1>4, <2>3, <2>4, <3>1, <3>2
  <2>7. \A v \in 1 .. (joined + 1) : worker[v] = "done"
    <3>1. \A v \in 1 .. (joined + 1) : v \in 1 .. joined \/ v = joined + 1
      BY <1>3
    <3> QED BY <1>1, <1>2, <3>1 DEF JoinedAreDone
  <2> QED BY <1>1, <2>6, <2>7 DEF JoinedAreDone
<1>8. EveryRequestCounted'
  BY <1>1, <1>2, CountersStay
<1> QED BY <1>5, <1>6, <1>7, <1>8 DEF LoadInv

(* The report: every thread has ended, so none is still counting. *)
LEMMA ReportPreservesLoadInv ==
  ASSUME LoadInv, Report
  PROVE  LoadInv'
<1>1. /\ joined = WorkerCount
      /\ final_report' = [made |-> TRUE, elapsed |-> now, total_requests |-> TOTAL_REQUESTS,
                    errors |-> TOTAL_ERRORS, recorded |-> combined_hist]
      /\ UNCHANGED <<now, worker, next_tick, begun, started, worker_hist, TOTAL_REQUESTS,
                     TOTAL_ERRORS, combined_hist, joined>>
  BY DEF Report, counters
<1>2. LoadTypeOK /\ TicksCountRequests /\ JoinedAreDone /\ EveryRequestCounted
  BY DEF LoadInv
<1>3. LoadTypeOK' /\ TicksCountRequests' /\ JoinedAreDone'
  BY <1>1, <1>2 DEF LoadTypeOK, TicksCountRequests, JoinedAreDone
<1>4. EveryRequestCounted'
  <2>1. Workers = 1 .. joined /\ DOMAIN worker_hist = Workers
    BY <1>1, <1>2, LoadConstants, LoadTypes
  <2>2. Counting = {} /\ Counting' = {}
    BY <1>1, <1>2, <2>1 DEF Counting, JoinedAreDone
  <2>3. Cardinality(Counting) = 0 /\ Cardinality(Counting') = 0
    BY <2>2, FS_EmptySet
  <2>4. combined_hist = SumFunction(worker_hist)
    BY <1>2, <2>1 DEF JoinedAreDone, SumFunction
  <2>5. SumFunction(worker_hist) = TOTAL_REQUESTS + TOTAL_ERRORS + Cardinality(Counting)
    BY <1>2 DEF EveryRequestCounted
  <2>6. TOTAL_REQUESTS \in Nat /\ TOTAL_ERRORS \in Nat
    BY <1>2, LoadTypes
  <2>7. combined_hist = TOTAL_REQUESTS + TOTAL_ERRORS
    BY <2>3, <2>4, <2>5, <2>6
  <2>8. /\ final_report'.recorded = combined_hist /\ final_report'.total_requests = TOTAL_REQUESTS
        /\ final_report'.errors = TOTAL_ERRORS
    BY <1>1
  <2> QED BY <1>1, <2>3, <2>5, <2>7, <2>8 DEF EveryRequestCounted
<1> QED BY <1>3, <1>4 DEF LoadInv

(* No step. *)
LEMMA LoadStutterPreservesLoadInv ==
  ASSUME LoadInv, UNCHANGED loadVars
  PROVE  LoadInv'
<1>1. LoadTypeOK' /\ TicksCountRequests' /\ JoinedAreDone'
  BY DEF LoadInv, loadVars, LoadTypeOK, TicksCountRequests, JoinedAreDone
<1>2. EveryRequestCounted'
  BY CountersStay DEF LoadInv, loadVars
<1> QED BY <1>1, <1>2 DEF LoadInv

(* LoadInv is an invariant of the load generator.                          *)
THEOREM LoadInvariant == LoadSpec => []LoadInv
<1>1. LoadInv /\ [LoadNext]_loadVars => LoadInv'
  BY TickPreservesLoadInv, JoinPreservesLoadInv, ReportPreservesLoadInv, StartPreservesLoadInv,
     BeginPreservesLoadInv, RecordPreservesLoadInv, CountPreservesLoadInv, PacePreservesLoadInv,
     WakeOrFinishPreservesLoadInv, LoadStutterPreservesLoadInv DEF LoadNext
<1> QED BY <1>1, InitEstablishesLoadInv, PTL DEF LoadSpec

(* No worker has begun more requests than one and one for every interval   *)
(* since it started, however late it was and however it caught up.         *)
THEOREM LoadIsPaced == LoadSpec => []PacedRequests
<1>1. LoadInv => PacedRequests
  <2> SUFFICES ASSUME LoadInv, NEW w \in Workers
               PROVE  begun[w] * Interval <= Interval + (now - started[w])
    BY DEF PacedRequests
  <2> PICK pace : pace = begun[w] * Interval
    OBVIOUS
  <2>1. /\ now \in Nat /\ Interval \in Nat /\ pace \in Nat /\ started[w] \in Nat /\ next_tick[w] \in Nat
        /\ worker[w] \in WorkerStates
    BY LoadTypes DEF LoadInv
  <2>2. started[w] <= now /\ \/ next_tick[w] = started[w] + pace /\ next_tick[w] <= now + Interval
                             \/ next_tick[w] + Interval = started[w] + pace /\ next_tick[w] <= now
                             \/ pace = 0
    <3>1. worker[w] = "new" => pace = 0
      BY <2>1, OneMoreInterval DEF LoadInv, TicksCountRequests
    <3>2. worker[w] \in {"loop", "done"} =>
            next_tick[w] = started[w] + pace /\ next_tick[w] <= now + Interval
      BY <2>1 DEF LoadInv, TicksCountRequests, WorkerStates
    <3> QED BY <2>1, <3>1, <3>2 DEF LoadInv, TicksCountRequests, WorkerStates
  <2>3. pace <= Interval + (now - started[w])
    BY <2>1, <2>2
  <2> QED BY <2>3
<1> QED BY <1>1, LoadInvariant, PTL

(* The shared counters miss no request, and the report has as many         *)
(* requests and errors as latencies.                                       *)
THEOREM EveryRequestIsCounted == LoadSpec => []EveryRequestCounted
<1>1. LoadInv => EveryRequestCounted
  BY DEF LoadInv
<1> QED BY <1>1, LoadInvariant, PTL
===============================================================================
