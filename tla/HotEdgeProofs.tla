---------------------------- MODULE HotEdgeProofs ----------------------------
(***************************************************************************)
(* Proofs about HotEdge, for any number of CPUs and nodes, any threshold   *)
(* and any size of the two maps.                                           *)
(*                                                                         *)
(* A count, in an element or about to be written to one, and the reads     *)
(* that have no count yet are never more than the reads that were made:    *)
(* those of its node, or, when the node took over a count of another, of   *)
(* all nodes.  This is said of a set of nodes, which is one node or all.   *)
(***************************************************************************)
EXTENDS HotEdge, CountingLemmas, TLAPS

(* The CPUs that state (a value of cpu) has in a read of N without a count. *)
Starting(state, N) ==
  {c \in Cpus : state[c].at \in {"lookup", "read"} /\ state[c].node \in N}

HasCount(state, c) == state[c].at \in {"update", "link"}

Started(N) == Cardinality(Starting(cpu, N))
ReadsOf(N) == SumFunctionOnSet(reads, N)

Covered(N) ==
  /\ Started(N) <= ReadsOf(N)
  /\ \A e \in Elements : elem[e].node \in N => elem[e].count + Started(N) <= ReadsOf(N)
  /\ \A c \in Cpus :
       HasCount(cpu, c) /\ cpu[c].node \in N => cpu[c].new_cnt + Started(N) <= ReadsOf(N)

CountsAreReads == Covered(Nodes) /\ \A n \in Nodes \ mixed : Covered({n})

(* An element that is linked, or about to be, is of the node it is for and *)
(* is given to no other.                                                   *)
Placed ==
  /\ \A n \in Nodes : entry[n] # 0 => elem[entry[n]].node = n
  /\ \A c \in Cpus : cpu[c].at = "link" =>
       /\ elem[cpu[c].elem].node = cpu[c].node
       /\ \A n \in Nodes : entry[n] # cpu[c].elem
       /\ \A d \in Cpus : cpu[d].at = "link" /\ cpu[d].elem = cpu[c].elem => d = c

Events == Sent \cup UnderWay

EventsAreHot == \A n \in Events : Behind(n) >= Threshold

CrossingsReported ==
  /\ \A e \in Elements : elem[e].count >= Threshold => Answers(Events, elem[e].node)
  /\ \A c \in Cpus : HasCount(cpu, c) /\ cpu[c].new_cnt > Threshold => Answers(Events, cpu[c].node)

IInv == TypeOK /\ Placed /\ CountsAreReads /\ EventsAreHot /\ CrossingsReported

-------------------------------------------------------------------------------
(* Sums of reads and numbers of CPUs are numbers. *)
LEMMA NumbersOf ==
  ASSUME TypeOK, NEW N \in SUBSET Nodes
  PROVE  /\ IsFiniteSet(N) /\ ReadsOf(N) \in Nat /\ \A n \in N : reads[n] \in Nat
         /\ \A state : /\ IsFiniteSet(Starting(state, N))
                       /\ Cardinality(Starting(state, N)) \in Nat
<1>1. IsFiniteSet(N)
  BY HotEdgeAssumption, FS_Subset
<1>2. \A n \in N : reads[n] \in Nat
  BY DEF TypeOK
<1>3. ReadsOf(N) \in Nat
  BY <1>1, <1>2, SumType DEF ReadsOf
<1>4. ASSUME NEW state
      PROVE  IsFiniteSet(Starting(state, N)) /\ Cardinality(Starting(state, N)) \in Nat
  <2>1. IsFiniteSet(Starting(state, N))
    BY HotEdgeAssumption, FS_Subset DEF Starting
  <2> QED BY <2>1, FS_CardinalityType
<1> QED BY <1>1, <1>2, <1>3, <1>4

(* The reads of one node, alone and among those of all. *)
LEMMA ReadsOfOne ==
  ASSUME TypeOK, NEW n \in Nodes
  PROVE  ReadsOf({n}) = reads[n] /\ reads[n] <= ReadsOf(Nodes) /\ reads[n] \in Nat
<1>1. /\ IsFiniteSet({n}) /\ IsFiniteSet({}) /\ {n} \ {n} = {}
      /\ reads[n] \in Nat /\ \A k \in {n} : reads[k] \in Nat
  BY FS_EmptySet, FS_Singleton DEF TypeOK
<1>2. SumFunctionOnSet(reads, {n}) = reads[n] + SumFunctionOnSet(reads, {n} \ {n})
  BY <1>1, SumSplits
<1>3. SumFunctionOnSet(reads, {}) = 0
  BY <1>1, SumType
<1>4. IsFiniteSet(Nodes) /\ \A k \in Nodes : reads[k] \in Nat
  BY HotEdgeAssumption DEF TypeOK
<1>5. {n} \in SUBSET Nodes /\ \A k \in {n} : reads[k] \in Nat /\ reads[k] <= reads[k]
  BY <1>4
<1>6. SumFunctionOnSet(reads, {n}) <= SumFunctionOnSet(reads, Nodes)
  BY <1>4, <1>5, SumGrows
<1> QED BY <1>1, <1>2, <1>3, <1>6 DEF ReadsOf

(* Nothing was read, counted or reported at first.                         *)
LEMMA InitEstablishesIInv == Init => IInv
<1> SUFFICES ASSUME Init PROVE IInv
  OBVIOUS
<1>1. TypeOK
  BY HotEdgeAssumption DEF Init, TypeOK, CpuState, Idle
<1>2. \A c \in Cpus : cpu[c].at = "idle"
  BY DEF Init, Idle
<1>3. \A e \in Elements : elem[e].count = 0
  BY DEF Init, Unused
<1>4. Placed
  BY <1>2 DEF Init, Placed
<1>5. \A N : Starting(cpu, N) = {} /\ Started(N) = 0
  BY <1>2, FS_EmptySet DEF Starting, Started
<1>6. \A N \in SUBSET Nodes : Covered(N)
  <2> SUFFICES ASSUME NEW N \in SUBSET Nodes PROVE Covered(N)
    OBVIOUS
  <2>1. Started(N) = 0 /\ ReadsOf(N) \in Nat
    BY <1>1, <1>5, NumbersOf
  <2> QED BY <1>2, <1>3, <2>1 DEF Covered, HasCount
<1>7. CountsAreReads
  <2>1. \A n \in Nodes : {n} \in SUBSET Nodes
    OBVIOUS
  <2> QED BY <1>6, <2>1 DEF CountsAreReads
<1>8. Events = {}
  BY <1>2 DEF Init, Events, Sent, Pending, UnderWay
<1>9. EventsAreHot
  BY <1>8 DEF EventsAreHot
<1>10. CrossingsReported
  BY <1>2, <1>3, HotEdgeAssumption DEF CrossingsReported, HasCount
<1> QED BY <1>1, <1>4, <1>7, <1>9, <1>10 DEF IInv

-------------------------------------------------------------------------------
(* A read of a node counts one read and one CPU in it.                     *)
LEMMA ReadPreservesIInv ==
  ASSUME IInv, NEW c \in Cpus, NEW fd \in DOMAIN NodeOf, Read(c, fd)
  PROVE  IInv'
<1> DEFINE n == NodeOf[fd]
<1>1. /\ n \in Nodes
      /\ cpu[c].at = "idle"
      /\ reads' = [reads EXCEPT ![n] = @ + 1]
      /\ cpu' = [cpu EXCEPT ![c] = Looking(n)]
      /\ UNCHANGED <<entry, elem, ring, printed, attached, lost, mixed>>
  BY HotEdgeAssumption DEF Read
<1> HIDE DEF n
<1>2. TypeOK'
  <2>1. Looking(n) \in CpuState
    BY <1>1 DEF CpuState, Looking
  <2>2. reads[n] + 1 \in Nat
    BY <1>1 DEF IInv, TypeOK
  <2> QED BY <1>1, <2>1, <2>2 DEF IInv, TypeOK
<1>3. /\ \A d \in Cpus \ {c} : cpu'[d] = cpu[d]
      /\ cpu'[c].at = "lookup" /\ cpu'[c].node = n
  BY <1>1 DEF IInv, TypeOK, Looking
<1>4. Placed'
  BY <1>1, <1>3 DEF IInv, Placed
<1>5. ASSUME NEW N \in SUBSET Nodes, Covered(N)
      PROVE  Covered(N)'
  <2>1. /\ IsFiniteSet(N) /\ ReadsOf(N) \in Nat /\ \A k \in N : reads[k] \in Nat
        /\ IsFiniteSet(Starting(cpu, N)) /\ Started(N) \in Nat
    BY NumbersOf DEF IInv, Started
  <2>2. \E k \in {0, 1} : Started(N)' = Started(N) + k /\ ReadsOf(N)' = ReadsOf(N) + k
    <3>1. CASE n \in N
      <4>1. Starting(cpu', N) = Starting(cpu, N) \cup {c} /\ c \notin Starting(cpu, N)
        BY <1>1, <1>3, <3>1 DEF Starting
      <4>2. Started(N)' = Started(N) + 1
        BY <2>1, <4>1, FS_AddElement DEF Started
      <4>3. reads'[n] = reads[n] + 1 /\ \A k \in N \ {n} : reads'[k] = reads[k]
        BY <1>1 DEF IInv, TypeOK
      <4>4. ReadsOf(N)' = ReadsOf(N) + 1
        BY <2>1, <3>1, <4>3, SumChanges DEF ReadsOf
      <4> QED BY <4>2, <4>4
    <3>2. CASE n \notin N
      <4>1. Starting(cpu', N) = Starting(cpu, N)
        BY <1>1, <1>3, <3>2 DEF Starting
      <4>2. \A k \in N : reads'[k] = reads[k]
        BY <1>1, <3>2 DEF IInv, TypeOK
      <4>3. ReadsOf(N)' = ReadsOf(N)
        BY <2>1, <4>2, SumSame DEF ReadsOf
      <4> QED BY <2>1, <4>1, <4>3 DEF Started
    <3> QED BY <3>1, <3>2
  <2>3. PICK k \in {0, 1} : Started(N)' = Started(N) + k /\ ReadsOf(N)' = ReadsOf(N) + k
    BY <2>2
  <2>4. Started(N)' <= ReadsOf(N)'
    BY <1>5, <2>1, <2>3 DEF Covered
  <2>5. ASSUME NEW count \in Nat, count + Started(N) <= ReadsOf(N)
        PROVE  count + Started(N)' <= ReadsOf(N)'
    BY <2>1, <2>3, <2>5
  <2>6. \A e \in Elements : elem'[e] = elem[e] /\ elem[e].count \in Nat
    BY <1>1 DEF IInv, TypeOK, Unused
  <2>7. \A d \in Cpus : HasCount(cpu', d) => HasCount(cpu, d) /\ cpu'[d] = cpu[d] /\ cpu[d].new_cnt \in Nat
    BY <1>3 DEF HasCount, IInv, TypeOK, CpuState
  <2> QED BY <1>5, <2>4, <2>5, <2>6, <2>7 DEF Covered, HasCount
<1>6. CountsAreReads'
  <2>1. \A k \in Nodes : {k} \in SUBSET Nodes
    OBVIOUS
  <2> QED BY <1>1, <1>5, <2>1 DEF IInv, CountsAreReads
<1>7. Events' = Events
  <2>1. UnderWay' = UnderWay
    BY <1>1, <1>3 DEF UnderWay
  <2> QED BY <1>1, <2>1 DEF Events, Sent, Pending
<1>8. EventsAreHot'
  <2>1. \A k \in Nodes : Behind(k) \in Nat /\ Behind(k)' \in Nat /\ Behind(k) <= Behind(k)'
    <3> SUFFICES ASSUME NEW k \in Nodes
                 PROVE  Behind(k) \in Nat /\ Behind(k)' \in Nat /\ Behind(k) <= Behind(k)'
      OBVIOUS
    <3>1. \A m \in Nodes : reads[m] \in Nat /\ reads'[m] \in Nat /\ reads[m] <= reads'[m]
      BY <1>1 DEF IInv, TypeOK
    <3>2. SumFunctionOnSet(reads, Nodes) <= SumFunctionOnSet(reads', Nodes)
      BY <3>1, HotEdgeAssumption, SumGrows
    <3>3. SumFunctionOnSet(reads, Nodes) \in Nat /\ SumFunctionOnSet(reads', Nodes) \in Nat
      BY <3>1, HotEdgeAssumption, SumType
    <3> QED BY <1>1, <3>1, <3>2, <3>3 DEF Behind
  <2>2. Events \subseteq Nodes
    BY DEF Events, Sent, Pending, UnderWay, IInv, TypeOK, CpuState
  <2> QED BY <1>7, <2>1, <2>2, HotEdgeAssumption DEF IInv, EventsAreHot
<1>9. CrossingsReported'
  BY <1>1, <1>3, <1>7 DEF IInv, CrossingsReported, Answers, HasCount
<1> QED BY <1>2, <1>4, <1>6, <1>8, <1>9 DEF IInv

(* A CPU takes on its count: that of an element, or none, and one more.  A *)
(* count of another node makes its node one of the mixed.                  *)
LEMMA CountingPreservesIInv ==
  ASSUME IInv, NEW c \in Cpus, c \in Starting(cpu, Nodes),
         NEW count \in Nat, NEW found \in BOOLEAN,
         cpu' = [cpu EXCEPT ![c] = Writing(cpu[c].node, found, count + 1)],
         mixed' \in {mixed, mixed \cup {cpu[c].node}},
         \/ count = 0
         \/ \E e \in Elements : /\ elem[e].count = count
                                /\ elem[e].node = cpu[c].node \/ cpu[c].node \in mixed',
         UNCHANGED <<entry, elem, ring, printed, attached, lost, reads>>
  PROVE  IInv'
<1>1. PICK n \in Nodes : n = cpu[c].node /\ cpu[c].at \in {"lookup", "read"}
  BY DEF Starting
<1> DEFINE Answered(m) == m \in Events' \/ (m \in mixed' /\ Events' # {})
<1>2. /\ \A d \in Cpus \ {c} : cpu'[d] = cpu[d]
      /\ cpu'[c].at = "update" /\ cpu'[c].node = n /\ cpu'[c].new_cnt = count + 1
  BY <1>1 DEF IInv, TypeOK, Writing
<1>3. mixed \subseteq mixed' /\ mixed' \subseteq mixed \cup {n}
  BY <1>1
<1>4. \/ count = 0
      \/ \E e \in Elements : /\ elem[e].count = count
                             /\ elem[e].node = n \/ n \in mixed'
  BY <1>1
<1>5. TypeOK'
  <2>1. Writing(n, found, count + 1) \in CpuState
    BY <1>1 DEF CpuState, Writing
  <2> QED BY <1>1, <1>3, <2>1 DEF IInv, TypeOK
<1>6. Placed'
  BY <1>2 DEF IInv, Placed
<1>7. ASSUME NEW N \in SUBSET Nodes, Covered(N),
             n \in N => \/ count = 0
                        \/ \E e \in Elements : elem[e].count = count /\ elem[e].node \in N
      PROVE  Covered(N)'
  <2>1. ReadsOf(N) \in Nat /\ IsFiniteSet(Starting(cpu, N)) /\ Started(N) \in Nat
    BY NumbersOf DEF IInv, Started
  <2>2. ReadsOf(N)' = ReadsOf(N)
    BY DEF ReadsOf
  <2>3. \A e \in Elements : elem'[e] = elem[e] /\ elem[e].count \in Nat
    BY DEF IInv, TypeOK, Unused
  <2>4. \A d \in Cpus \ {c} : HasCount(cpu', d) =>
           HasCount(cpu, d) /\ cpu'[d] = cpu[d] /\ cpu[d].new_cnt \in Nat
    BY <1>2 DEF HasCount, IInv, TypeOK, CpuState
  <2>5. CASE n \in N
    <3>1. Starting(cpu', N) = Starting(cpu, N) \ {c} /\ c \in Starting(cpu, N)
      BY <1>1, <1>2, <2>5 DEF Starting
    <3>2. Started(N)' = Started(N) - 1 /\ Started(N)' \in Nat
      <4>1. Cardinality(Starting(cpu, N) \ {c}) = Cardinality(Starting(cpu, N)) - 1
        BY <2>1, <3>1, FS_RemoveElement
      <4>2. Cardinality(Starting(cpu', N)) \in Nat
        BY NumbersOf DEF IInv
      <4> QED BY <3>1, <4>1, <4>2 DEF Started
    <3>3. count + Started(N) <= ReadsOf(N)
      BY <1>7, <2>1, <2>5 DEF Covered
    <3>4. cpu'[c].new_cnt + Started(N)' <= ReadsOf(N)'
      BY <1>2, <2>1, <2>2, <3>2, <3>3
    <3>5. ASSUME NEW k \in Nat, k + Started(N) <= ReadsOf(N)
          PROVE  k + Started(N)' <= ReadsOf(N)'
      BY <2>1, <2>2, <3>2, <3>5
    <3>6. Started(N)' <= ReadsOf(N)'
      BY <1>7, <2>1, <2>2, <3>2 DEF Covered
    <3> QED BY <1>7, <2>3, <2>4, <3>4, <3>5, <3>6 DEF Covered
  <2>6. CASE n \notin N
    <3>1. Starting(cpu', N) = Starting(cpu, N)
      BY <1>1, <1>2, <2>6 DEF Starting
    <3>2. Started(N)' = Started(N)
      BY <3>1 DEF Started
    <3> QED BY <1>2, <1>7, <2>2, <2>3, <2>4, <2>6, <3>2 DEF Covered
  <2> QED BY <2>5, <2>6
<1>8. CountsAreReads'
  <2>1. Covered(Nodes)'
    <3>1. \A e \in Elements : elem[e].count = 0 \/ elem[e].node \in Nodes
      BY DEF IInv, TypeOK, Unused
    <3> QED BY <1>4, <1>7, <3>1 DEF IInv, CountsAreReads
  <2>2. ASSUME NEW k \in Nodes \ mixed' PROVE Covered({k})'
    <3>1. Covered({k}) /\ {k} \in SUBSET Nodes
      BY <1>3, <2>2 DEF IInv, CountsAreReads
    <3> QED BY <1>4, <1>7, <2>2, <3>1
  <2> QED BY <2>1, <2>2 DEF CountsAreReads
<1>9. Events' = Events \cup (IF count + 1 = Threshold THEN {n} ELSE {})
  <2>1. UnderWay' = UnderWay \cup (IF count + 1 = Threshold THEN {n} ELSE {})
    BY <1>1, <1>2 DEF UnderWay, Crosses
  <2> QED BY <2>1 DEF Events, Sent, Pending
<1>10. EventsAreHot'
  <2>1. ASSUME NEW k \in Events PROVE Behind(k)' >= Threshold
    <3>1. k \in Nodes
      BY DEF Events, Sent, Pending, UnderWay, IInv, TypeOK, CpuState
    <3>2. Behind(k) >= Threshold
      BY DEF IInv, EventsAreHot
    <3>3. ReadsOf({k}) = reads[k] /\ reads[k] <= ReadsOf(Nodes) /\ reads[k] \in Nat /\ ReadsOf(Nodes) \in Nat
      BY <3>1, ReadsOfOne, NumbersOf DEF IInv
    <3> QED BY <1>3, <3>2, <3>3, HotEdgeAssumption DEF Behind, ReadsOf
  <2>2. ASSUME count + 1 = Threshold PROVE Behind(n)' >= Threshold
    <3>1. HasCount(cpu', c)
      BY <1>2 DEF HasCount
    <3>2. /\ reads' = reads /\ ReadsOf({n}) = reads[n] /\ reads[n] \in Nat /\ ReadsOf(Nodes) \in Nat
          /\ Cardinality(Starting(cpu', {n})) \in Nat /\ Cardinality(Starting(cpu', Nodes)) \in Nat
      BY <1>1, ReadsOfOne, NumbersOf DEF IInv
    <3>3. CASE n \in mixed'
      <4>1. cpu'[c].new_cnt + Started(Nodes)' <= ReadsOf(Nodes)'
        BY <1>1, <1>2, <1>8, <3>1 DEF CountsAreReads, Covered
      <4> QED BY <1>2, <2>2, <3>2, <3>3, <4>1 DEF Started, ReadsOf, Behind
    <3>4. CASE n \notin mixed'
      <4>1. cpu'[c].new_cnt + Started({n})' <= ReadsOf({n})'
        BY <1>1, <1>2, <1>8, <3>1, <3>4 DEF CountsAreReads, Covered
      <4> QED BY <1>2, <2>2, <3>2, <3>4, <4>1 DEF Started, ReadsOf, Behind
    <3> QED BY <3>3, <3>4
  <2> QED BY <1>9, <2>1, <2>2 DEF EventsAreHot
<1>11. CrossingsReported'
  <2>1. \A m : Answers(Events, m) => Answered(m)
    BY <1>3, <1>9 DEF Answers
  <2>2. \A e \in Elements : elem'[e].count >= Threshold => Answered(elem'[e].node)
    <3>1. \A e \in Elements : elem[e].count >= Threshold => Answers(Events, elem[e].node)
      BY DEF IInv, CrossingsReported
    <3> QED BY <2>1, <3>1
  <2>3. ASSUME count + 1 > Threshold PROVE Answered(n)
    <3>1. PICK e \in Elements : elem[e].count = count /\ (elem[e].node = n \/ n \in mixed')
      BY <1>4, <2>3, HotEdgeAssumption
    <3>2. Answers(Events, elem[e].node)
      BY <2>3, <3>1, HotEdgeAssumption DEF IInv, CrossingsReported
    <3>3. CASE elem[e].node = n
      BY <2>1, <3>2, <3>3
    <3>4. CASE n \in mixed'
      <4>1. Events # {}
        BY <3>2 DEF Answers
      <4> QED BY <1>9, <3>4, <4>1
    <3> QED BY <3>1, <3>3, <3>4
  <2>4. \A d \in Cpus \ {c} : HasCount(cpu', d) /\ cpu'[d].new_cnt > Threshold => Answered(cpu'[d].node)
    <3>1. \A d \in Cpus : HasCount(cpu, d) /\ cpu[d].new_cnt > Threshold => Answers(Events, cpu[d].node)
      BY DEF IInv, CrossingsReported
    <3> QED BY <1>2, <2>1, <3>1 DEF HasCount
  <2> HIDE DEF Answered
  <2>5. \A d \in Cpus : HasCount(cpu', d) /\ cpu'[d].new_cnt > Threshold => Answered(cpu'[d].node)
    BY <1>2, <2>3, <2>4
  <2> QED BY <2>2, <2>5 DEF CrossingsReported, Answers, HasCount, Answered
<1> QED BY <1>5, <1>6, <1>8, <1>10, <1>11 DEF IInv

(* NULL: the count starts at 1; else the pointer is held.                  *)
LEMMA LookupPreservesIInv ==
  ASSUME IInv, NEW c \in Cpus, Lookup(c)
  PROVE  IInv'
<1> DEFINE n == cpu[c].node
<1>1. cpu[c].at = "lookup" /\ UNCHANGED <<entry, elem, ring, printed, attached, lost, mixed, reads>>
  BY DEF Lookup
<1>2. n \in Nodes /\ c \in Starting(cpu, Nodes)
  BY <1>1 DEF IInv, TypeOK, CpuState, Starting
<1>3. CASE entry[n] = 0
  <2>1. cpu' = [cpu EXCEPT ![c] = Writing(n, FALSE, 0 + 1)]
    BY <1>3 DEF Lookup
  <2> QED BY <1>1, <1>2, <2>1, CountingPreservesIInv
<1>4. CASE entry[n] # 0
  <2>1. cpu' = [cpu EXCEPT ![c] = Holding(n, entry[n])]
    BY <1>4 DEF Lookup
  <2>2. /\ \A d \in Cpus \ {c} : cpu'[d] = cpu[d]
        /\ cpu'[c].at = "read" /\ cpu'[c].node = n
    BY <2>1 DEF IInv, TypeOK, Holding
  <2>3. TypeOK'
    <3>1. Holding(n, entry[n]) \in CpuState
      BY <1>2, <1>4 DEF IInv, TypeOK, CpuState, Holding
    <3> QED BY <1>1, <2>1, <3>1 DEF IInv, TypeOK
  <2>4. Placed'
    BY <1>1, <2>2 DEF IInv, Placed
  <2>5. \A N : Starting(cpu', N) = Starting(cpu, N)
    BY <1>1, <2>2 DEF Starting
  <2>6. \A d \in Cpus : HasCount(cpu', d) => HasCount(cpu, d) /\ cpu'[d] = cpu[d]
    BY <2>2 DEF HasCount
  <2>7. CountsAreReads'
    <3>1. \A N : Covered(N) => Covered(N)'
      BY <1>1, <2>5, <2>6 DEF Covered, Started, ReadsOf
    <3> QED BY <1>1, <3>1 DEF IInv, CountsAreReads
  <2>8. Events' = Events
    <3>1. UnderWay' = UnderWay
      BY <1>1, <2>2 DEF UnderWay
    <3> QED BY <1>1, <3>1 DEF Events, Sent, Pending
  <2>9. EventsAreHot' /\ CrossingsReported'
    BY <1>1, <2>6, <2>8 DEF IInv, EventsAreHot, CrossingsReported, Behind, Answers
  <2> QED BY <2>3, <2>4, <2>7, <2>9 DEF IInv
<1> QED BY <1>3, <1>4

(* The count read is that of the element held, whoever's it is.            *)
LEMMA ReadCountPreservesIInv ==
  ASSUME IInv, NEW c \in Cpus, ReadCount(c)
  PROVE  IInv'
<1> DEFINE n == cpu[c].node
           e == cpu[c].elem
<1>1. /\ cpu[c].at = "read"
      /\ cpu' = [cpu EXCEPT ![c] = Writing(n, TRUE, elem[e].count + 1)]
      /\ mixed' = IF elem[e].node = n THEN mixed ELSE mixed \cup {n}
      /\ UNCHANGED <<entry, elem, ring, printed, attached, lost, reads>>
  BY DEF ReadCount
<1>2. n \in Nodes /\ e \in Elements /\ c \in Starting(cpu, Nodes)
  BY <1>1 DEF IInv, TypeOK, CpuState, Starting
<1>3. elem[e].count \in Nat
  BY <1>2 DEF IInv, TypeOK, Unused
<1>4. elem[e].node = n \/ n \in mixed'
  BY <1>1
<1>5. mixed' \in {mixed, mixed \cup {n}}
  BY <1>1
<1> HIDE DEF e
<1> QED BY <1>1, <1>2, <1>3, <1>4, <1>5, CountingPreservesIInv

-------------------------------------------------------------------------------
(* A step that writes at most the count of a CPU to an element, and takes  *)
(* events from one place to another, keeps what is said of counts.         *)
LEMMA WritingKeepsCounts ==
  ASSUME IInv, reads' = reads, mixed' = mixed, Events' = Events,
         \A e \in Elements :
           \/ elem'[e] = elem[e]
           \/ \E d \in Cpus : /\ HasCount(cpu, d)
                              /\ elem'[e].node = cpu[d].node /\ elem'[e].count = cpu[d].new_cnt,
         \A d \in Cpus : HasCount(cpu', d) =>
           HasCount(cpu, d) /\ cpu'[d].node = cpu[d].node /\ cpu'[d].new_cnt = cpu[d].new_cnt,
         \A N : Starting(cpu', N) = Starting(cpu, N)
  PROVE  CountsAreReads' /\ EventsAreHot' /\ CrossingsReported'
<1>1. ASSUME NEW N, Covered(N) PROVE Covered(N)'
  <2>1. Started(N)' = Started(N) /\ ReadsOf(N)' = ReadsOf(N)
    BY DEF Started, ReadsOf
  <2> QED BY <1>1, <2>1 DEF Covered
<1>2. CountsAreReads'
  BY <1>1 DEF IInv, CountsAreReads
<1>3. EventsAreHot'
  BY DEF IInv, EventsAreHot, Behind
<1> DEFINE Answered(m) == m \in Events' \/ (m \in mixed' /\ Events' # {})
<1>4. \A m : Answers(Events, m) => Answered(m)
  BY DEF Answers
<1>5. ASSUME NEW d \in Cpus, HasCount(cpu, d), cpu[d].new_cnt >= Threshold
      PROVE  Answered(cpu[d].node)
  <2>1. CASE cpu[d].new_cnt = Threshold
    <3>1. cpu[d].node \in Events
      BY <1>5, <2>1 DEF Events, UnderWay, Crosses, HasCount
    <3> QED BY <3>1
  <2>2. CASE cpu[d].new_cnt # Threshold
    <3>1. cpu[d].new_cnt \in Nat
      BY <1>5 DEF IInv, TypeOK, CpuState, HasCount
    <3>2. cpu[d].new_cnt > Threshold
      BY <1>5, <2>2, <3>1, HotEdgeAssumption
    <3> QED BY <1>4, <1>5, <3>2 DEF IInv, CrossingsReported
  <2> QED BY <2>1, <2>2
<1>6. \A e \in Elements : elem[e].count >= Threshold => Answered(elem[e].node)
  BY <1>4 DEF IInv, CrossingsReported
<1> HIDE DEF Answered
<1>7. \A e \in Elements : elem'[e].count >= Threshold => Answered(elem'[e].node)
  BY <1>5, <1>6
<1>8. \A d \in Cpus : HasCount(cpu, d) /\ cpu[d].new_cnt > Threshold => Answered(cpu[d].node)
  BY <1>4 DEF IInv, CrossingsReported
<1>9. \A d \in Cpus : HasCount(cpu', d) /\ cpu'[d].new_cnt > Threshold => Answered(cpu'[d].node)
  BY <1>8
<1> QED BY <1>2, <1>3, <1>7, <1>9 DEF CrossingsReported, Answers, HasCount, Answered

(* An element is taken that is neither linked nor about to be.             *)
LEMMA AllocatePreservesIInv ==
  ASSUME IInv, NEW c \in Cpus, Allocate(c)
  PROVE  IInv'
<1> DEFINE n == cpu[c].node
           cnt == cpu[c].new_cnt
<1>1. PICK gone \in SUBSET {k \in Nodes : entry[k] # 0} :
        LET left == [k \in Nodes |-> IF k \in gone THEN 0 ELSE entry[k]]
        IN  \E e \in Elements \ (Linked(left) \cup Allocated) :
              /\ entry' = left
              /\ elem' = [elem EXCEPT ![e] = [node |-> n, count |-> cnt]]
              /\ cpu' = [cpu EXCEPT ![c] = [at |-> "link", node |-> n, found |-> cpu[c].found,
                                            new_cnt |-> cnt, elem |-> e]]
  BY DEF Allocate
<1> DEFINE left == [k \in Nodes |-> IF k \in gone THEN 0 ELSE entry[k]]
<1>2. PICK e \in Elements \ (Linked(left) \cup Allocated) :
        /\ entry' = left
        /\ elem' = [elem EXCEPT ![e] = [node |-> n, count |-> cnt]]
        /\ cpu' = [cpu EXCEPT ![c] = [at |-> "link", node |-> n, found |-> cpu[c].found,
                                      new_cnt |-> cnt, elem |-> e]]
  BY <1>1
<1>3. cpu[c].at = "update" /\ UNCHANGED <<ring, printed, attached, lost, mixed, reads>>
  BY DEF Allocate
<1>4. n \in Nodes /\ cnt \in Nat /\ cpu[c].found \in BOOLEAN
  BY <1>3 DEF IInv, TypeOK, CpuState
<1>5. \A k \in Nodes : entry'[k] \in {0, entry[k]} /\ entry'[k] # e
  BY <1>2 DEF Linked
<1>6. \A d \in Cpus : cpu[d].at = "link" => cpu[d].elem # e
  BY <1>2 DEF Allocated
<1>7. /\ elem'[e].node = n /\ elem'[e].count = cnt
      /\ \A f \in Elements \ {e} : elem'[f] = elem[f]
  BY <1>2 DEF IInv, TypeOK
<1>8. /\ \A d \in Cpus \ {c} : cpu'[d] = cpu[d]
      /\ cpu'[c].at = "link" /\ cpu'[c].node = n /\ cpu'[c].new_cnt = cnt /\ cpu'[c].elem = e
  BY <1>2 DEF IInv, TypeOK
<1>9. TypeOK'
  <2>1. entry' \in [Nodes -> {0} \cup Elements]
    BY <1>2 DEF IInv, TypeOK
  <2>2. elem' \in [Elements -> {Unused} \cup [node : Nodes, count : Nat]]
    <3>1. [node |-> n, count |-> cnt] \in [node : Nodes, count : Nat]
      BY <1>4
    <3> QED BY <1>2, <3>1 DEF IInv, TypeOK
  <2>3. cpu' \in [Cpus -> CpuState]
    <3>1. [at |-> "link", node |-> n, found |-> cpu[c].found, new_cnt |-> cnt, elem |-> e] \in CpuState
      BY <1>4 DEF CpuState
    <3> QED BY <1>2, <3>1 DEF IInv, TypeOK
  <2> QED BY <1>3, <2>1, <2>2, <2>3 DEF IInv, TypeOK
<1> HIDE DEF n, cnt, left
<1>10. Placed'
  <2>1. \A k \in Nodes : entry'[k] # 0 => elem'[entry'[k]].node = k
    <3> SUFFICES ASSUME NEW k \in Nodes, entry'[k] # 0
                 PROVE  elem'[entry'[k]].node = k
      OBVIOUS
    <3>1. entry'[k] = entry[k] /\ entry[k] # e /\ entry[k] \in Elements
      BY <1>5 DEF IInv, TypeOK
    <3> QED BY <1>7, <3>1 DEF IInv, Placed
  <2>2. ASSUME NEW d \in Cpus, cpu'[d].at = "link"
        PROVE  /\ elem'[cpu'[d].elem].node = cpu'[d].node
               /\ \A k \in Nodes : entry'[k] # cpu'[d].elem
               /\ \A b \in Cpus : cpu'[b].at = "link" /\ cpu'[b].elem = cpu'[d].elem => b = d
    <3>1. CASE d = c
      BY <1>5, <1>6, <1>7, <1>8, <3>1
    <3>2. CASE d # c
      <4>1. cpu'[d] = cpu[d] /\ cpu[d].at = "link" /\ cpu[d].elem \in Elements \ {e}
        BY <1>6, <1>8, <2>2, <3>2 DEF IInv, TypeOK, CpuState
      <4>2. elem'[cpu[d].elem].node = cpu[d].node
        BY <1>7, <4>1 DEF IInv, Placed
      <4>3. \A k \in Nodes : entry'[k] # cpu[d].elem
        <5>1. 0 \notin Elements
          BY DEF Elements
        <5> QED BY <1>5, <4>1, <5>1 DEF IInv, Placed
      <4>4. \A b \in Cpus : cpu'[b].at = "link" /\ cpu'[b].elem = cpu[d].elem => b = d
        BY <1>8, <4>1 DEF IInv, Placed
      <4> QED BY <4>1, <4>2, <4>3, <4>4
    <3> QED BY <3>1, <3>2
  <2> QED BY <2>1, <2>2 DEF Placed
<1>11. \A N : Starting(cpu', N) = Starting(cpu, N)
  BY <1>3, <1>8 DEF Starting
<1>12. \A d \in Cpus : HasCount(cpu', d) =>
         HasCount(cpu, d) /\ cpu'[d].node = cpu[d].node /\ cpu'[d].new_cnt = cpu[d].new_cnt
  BY <1>3, <1>8 DEF HasCount, n, cnt
<1>13. Events' = Events
  <2>1. UnderWay' = UnderWay
    <3>1. \A d \in Cpus \ {c} : cpu'[d] = cpu[d]
      BY <1>8
    <3>2. cpu'[c].at = "link" /\ cpu[c].at = "update" /\ cpu'[c].node = cpu[c].node /\ cpu'[c].new_cnt = cpu[c].new_cnt
      BY <1>3, <1>8 DEF n, cnt
    <3> QED BY <3>1, <3>2 DEF UnderWay
  <2> QED BY <1>3, <2>1 DEF Events, Sent, Pending
<1>14. HasCount(cpu, c) /\ elem'[e].node = cpu[c].node /\ elem'[e].count = cpu[c].new_cnt
  BY <1>3, <1>7 DEF HasCount, n, cnt
<1>15. CountsAreReads' /\ EventsAreHot' /\ CrossingsReported'
  BY <1>3, <1>7, <1>11, <1>12, <1>13, <1>14, WritingKeepsCounts
<1> QED BY <1>9, <1>10, <1>15 DEF IInv

(* After the update, or without it, the count is compared.                 *)
LEMMA ComparingKeepsCounts ==
  ASSUME IInv, NEW c \in Cpus, HasCount(cpu, c), cpu' = Compared(c),
         UNCHANGED <<elem, ring, printed, attached, lost, mixed, reads>>
  PROVE  /\ cpu' \in [Cpus -> CpuState]
         /\ cpu'[c].at # "link" /\ \A d \in Cpus \ {c} : cpu'[d] = cpu[d]
         /\ CountsAreReads' /\ EventsAreHot' /\ CrossingsReported'
<1> DEFINE n == cpu[c].node
<1>1. cpu' = [cpu EXCEPT ![c] = IF Crosses(cpu[c].new_cnt) THEN Reporting(n) ELSE Idle]
  BY DEF Compared
<1>2. n \in Nodes
  BY DEF IInv, TypeOK, CpuState, HasCount
<1>3. cpu' \in [Cpus -> CpuState]
  <2>1. Reporting(n) \in CpuState /\ Idle \in CpuState
    BY <1>2 DEF CpuState, Reporting, Idle
  <2> QED BY <1>1, <2>1 DEF IInv, TypeOK
<1>4. /\ \A d \in Cpus \ {c} : cpu'[d] = cpu[d]
      /\ cpu'[c].at \in {"idle", "report"}
      /\ cpu'[c].at = "report" <=> Crosses(cpu[c].new_cnt)
      /\ cpu'[c].at = "report" => cpu'[c].node = n
  BY <1>1 DEF IInv, TypeOK, Reporting, Idle
<1>5. \A N : Starting(cpu', N) = Starting(cpu, N)
  BY <1>4 DEF Starting, HasCount
<1>6. \A d \in Cpus : HasCount(cpu', d) =>
         HasCount(cpu, d) /\ cpu'[d].node = cpu[d].node /\ cpu'[d].new_cnt = cpu[d].new_cnt
  BY <1>4 DEF HasCount
<1>7. Events' = Events
  <2>1. \A k : k \in UnderWay' <=> k \in UnderWay
    <3>1. \A d \in Cpus :
             (cpu'[d].at = "report" \/ (cpu'[d].at \in {"update", "link"} /\ Crosses(cpu'[d].new_cnt)))
               <=> (cpu[d].at = "report" \/ (cpu[d].at \in {"update", "link"} /\ Crosses(cpu[d].new_cnt)))
      BY <1>4 DEF HasCount
    <3>2. \A d \in Cpus : cpu'[d].at # "idle" => cpu'[d].node = cpu[d].node
      BY <1>4
    <3> QED BY <3>1, <3>2 DEF UnderWay
  <2>2. UnderWay' = UnderWay
    BY <2>1 DEF UnderWay
  <2> QED BY <2>2 DEF Events, Sent, Pending
<1>8. CountsAreReads' /\ EventsAreHot' /\ CrossingsReported'
  BY <1>5, <1>6, <1>7, WritingKeepsCounts
<1> QED BY <1>3, <1>4, <1>8

LEMMA AllocateFailsPreservesIInv ==
  ASSUME IInv, NEW c \in Cpus, AllocateFails(c)
  PROVE  IInv'
<1>1. HasCount(cpu, c) /\ cpu' = Compared(c)
  BY DEF AllocateFails, HasCount
<1>2. UNCHANGED <<entry, elem, ring, printed, attached, lost, mixed, reads>>
  BY DEF AllocateFails
<1>3. /\ cpu' \in [Cpus -> CpuState]
      /\ cpu'[c].at # "link" /\ \A d \in Cpus \ {c} : cpu'[d] = cpu[d]
      /\ CountsAreReads' /\ EventsAreHot' /\ CrossingsReported'
  BY <1>1, <1>2, ComparingKeepsCounts
<1>4. TypeOK'
  BY <1>2, <1>3 DEF IInv, TypeOK
<1>5. Placed'
  BY <1>2, <1>3 DEF IInv, Placed
<1> QED BY <1>3, <1>4, <1>5 DEF IInv

(* The element that is linked is in flight no longer.                      *)
LEMMA LinkPreservesIInv ==
  ASSUME IInv, NEW c \in Cpus, Link(c)
  PROVE  IInv'
<1> DEFINE n == cpu[c].node
           e == cpu[c].elem
<1>1. /\ cpu[c].at = "link" /\ cpu' = Compared(c)
      /\ entry' \in {entry, [entry EXCEPT ![n] = e]}
      /\ UNCHANGED <<elem, ring, printed, attached, lost, mixed, reads>>
  BY DEF Link
<1>2. n \in Nodes /\ e \in Elements
  BY <1>1 DEF IInv, TypeOK, CpuState
<1>3. /\ cpu' \in [Cpus -> CpuState]
      /\ cpu'[c].at # "link" /\ \A d \in Cpus \ {c} : cpu'[d] = cpu[d]
      /\ CountsAreReads' /\ EventsAreHot' /\ CrossingsReported'
  BY <1>1, ComparingKeepsCounts DEF HasCount
<1>4. TypeOK'
  BY <1>1, <1>2, <1>3 DEF IInv, TypeOK
<1>5. Placed'
  <2>1. \A k \in Nodes : entry'[k] \in {entry[k], e} /\ (entry'[k] = e => k = n)
    BY <1>1, <1>2 DEF IInv, TypeOK, Placed
  <2>2. elem[e].node = n
    BY <1>1 DEF IInv, Placed
  <2>3. \A k \in Nodes : entry'[k] # 0 => elem'[entry'[k]].node = k
    BY <1>1, <2>1, <2>2 DEF IInv, Placed
  <2>4. ASSUME NEW d \in Cpus, cpu'[d].at = "link"
        PROVE  /\ elem'[cpu'[d].elem].node = cpu'[d].node
               /\ \A k \in Nodes : entry'[k] # cpu'[d].elem
               /\ \A b \in Cpus : cpu'[b].at = "link" /\ cpu'[b].elem = cpu'[d].elem => b = d
    <3>1. d # c /\ cpu'[d] = cpu[d] /\ cpu[d].at = "link"
      BY <1>3, <2>4
    <3>2. cpu[d].elem # e
      BY <1>1, <3>1 DEF IInv, Placed
    <3> QED BY <1>1, <1>3, <2>1, <3>1, <3>2 DEF IInv, Placed
  <2> QED BY <2>3, <2>4 DEF Placed
<1> QED BY <1>3, <1>4, <1>5 DEF IInv

-------------------------------------------------------------------------------
(* A step that takes an event from one place to another keeps the rest.    *)
LEMMA MovingEventsPreservesIInv ==
  ASSUME IInv, TypeOK', UNCHANGED <<entry, elem, mixed, reads>>, Events' = Events,
         \A d \in Cpus : cpu'[d] = cpu[d] \/ (cpu'[d].at = "idle" /\ cpu[d].at = "report")
  PROVE  IInv'
<1>1. Placed'
  BY DEF IInv, Placed
<1>2. \A N : Starting(cpu', N) = Starting(cpu, N)
  BY DEF Starting
<1>3. \A d \in Cpus : HasCount(cpu', d) => HasCount(cpu, d) /\ cpu'[d] = cpu[d]
  BY DEF HasCount
<1>4. CountsAreReads' /\ EventsAreHot' /\ CrossingsReported'
  BY <1>2, <1>3, WritingKeepsCounts
<1> QED BY <1>1, <1>4 DEF IInv

(* An event under way is in the ring or lost; then the loader prints it.   *)
LEMMA ReportPreservesIInv ==
  ASSUME IInv, NEW c \in Cpus, Report(c)
  PROVE  IInv'
<1> DEFINE n == cpu[c].node
<1>1. /\ cpu[c].at = "report"
      /\ cpu' = [cpu EXCEPT ![c] = Idle]
      /\ \/ Len(ring) < RingSize /\ ring' = Append(ring, n) /\ lost' = lost
         \/ ring' = ring /\ lost' = lost \cup {n}
      /\ UNCHANGED <<entry, elem, printed, attached, mixed, reads>>
  BY DEF Report
<1>2. n \in Nodes /\ n \in UnderWay
  BY <1>1 DEF IInv, TypeOK, CpuState, UnderWay
<1>3. cpu'[c].at = "idle" /\ \A d \in Cpus \ {c} : cpu'[d] = cpu[d]
  BY <1>1 DEF IInv, TypeOK, Idle
<1>4. ring \in Seq(Nodes) /\ Len(ring) <= RingSize /\ Len(ring) \in Nat /\ RingSize \in Nat
  BY HotEdgeAssumption DEF IInv, TypeOK
<1>5. TypeOK'
  <2>1. cpu' \in [Cpus -> CpuState]
    BY <1>1 DEF IInv, TypeOK, CpuState, Idle
  <2>2. ring' \in Seq(Nodes) /\ Len(ring') <= RingSize
    BY <1>1, <1>2, <1>4
  <2>3. lost' \subseteq Nodes
    BY <1>1, <1>2 DEF IInv, TypeOK
  <2> QED BY <1>1, <2>1, <2>2, <2>3 DEF IInv, TypeOK
<1>6. Events' = Events
  <2>1. UnderWay' \cup {n} = UnderWay
    BY <1>1, <1>2, <1>3 DEF UnderWay
  <2>2. Pending' \cup lost' = Pending \cup lost \cup {n}
    <3>1. CASE ring' = Append(ring, n) /\ lost' = lost
      <4>1. Pending' = Pending \cup {n}
        BY <1>2, <1>4, <3>1, RangeOfAppend DEF Pending
      <4> QED BY <3>1, <4>1
    <3>2. CASE ring' = ring /\ lost' = lost \cup {n}
      BY <3>2 DEF Pending
    <3> QED BY <1>1, <3>1, <3>2
  <2> QED BY <1>1, <2>1, <2>2 DEF Events, Sent
<1> HIDE DEF n
<1> QED BY <1>1, <1>3, <1>5, <1>6, MovingEventsPreservesIInv

LEMMA PrintEventPreservesIInv ==
  ASSUME IInv, PrintEvent
  PROVE  IInv'
<1>1. /\ ring # <<>> /\ ring' = Tail(ring) /\ printed' = printed \cup {Head(ring)}
      /\ UNCHANGED <<entry, elem, cpu, attached, lost, mixed, reads>>
  BY DEF PrintEvent
<1>2. ring \in Seq(Nodes) /\ Len(ring) <= RingSize /\ RingSize \in Nat
  BY HotEdgeAssumption DEF IInv, TypeOK
<1>3. TypeOK'
  BY <1>1, <1>2 DEF IInv, TypeOK
<1>4. Events' = Events
  <2>1. Pending' \cup {Head(ring)} = Pending
    BY <1>1, <1>2, RangeOfTail DEF Pending
  <2>2. UnderWay' = UnderWay
    BY <1>1 DEF UnderWay
  <2> QED BY <1>1, <2>1, <2>2 DEF Events, Sent
<1> QED BY <1>1, <1>3, <1>4, MovingEventsPreservesIInv

(* The loader stops, or nothing happens. *)
LEMMA StopPreservesIInv ==
  ASSUME IInv, attached' \in BOOLEAN,
         UNCHANGED <<entry, elem, cpu, ring, printed, lost, mixed, reads>>
  PROVE  IInv'
<1>1. TypeOK'
  BY DEF IInv, TypeOK
<1>2. Events' = Events
  BY DEF Events, Sent, Pending, UnderWay
<1> QED BY <1>1, <1>2, MovingEventsPreservesIInv

LEMMA NextPreservesIInv == IInv /\ [Next]_vars => IInv'
<1> SUFFICES ASSUME IInv, [Next]_vars PROVE IInv'
  OBVIOUS
<1>1. ASSUME NEW c \in Cpus, Program(c) PROVE IInv'
  BY <1>1, LookupPreservesIInv, ReadCountPreservesIInv, AllocatePreservesIInv,
     AllocateFailsPreservesIInv, LinkPreservesIInv, ReportPreservesIInv DEF Program
<1>2. ASSUME NEW c \in Cpus, NEW fd \in DOMAIN NodeOf, Read(c, fd) PROVE IInv'
  BY <1>2, ReadPreservesIInv
<1>3. CASE PrintEvent
  BY <1>3, PrintEventPreservesIInv
<1>4. CASE Stop
  BY <1>4, StopPreservesIInv DEF Stop
<1>5. CASE UNCHANGED vars
  <2>1. attached' \in BOOLEAN
    BY <1>5 DEF vars, IInv, TypeOK
  <2> QED BY <1>5, <2>1, StopPreservesIInv DEF vars
<1> QED BY <1>1, <1>2, <1>3, <1>4, <1>5 DEF Next

THEOREM HotEdgeInvariant == Spec => []IInv
  BY InitEstablishesIInv, NextPreservesIInv, PTL DEF Spec

(* Type correctness, with the ring within its size. *)
THEOREM HotEdgeTypeCorrect == Spec => []TypeOK
<1>1. IInv => TypeOK
  BY DEF IInv
<1> QED BY <1>1, HotEdgeInvariant, PTL

(* No false alarm: an event is sent only for a node read Threshold times,  *)
(* by itself or, if it took over a count through an element used again,    *)
(* together with the others (hot_edge.bpf.c:47-66).                        *)
THEOREM HotEventsWereRead == Spec => []HotWasRead
<1>1. IInv => HotWasRead
  BY DEF IInv, EventsAreHot, HotWasRead, Events
<1> QED BY <1>1, HotEdgeInvariant, PTL

(* No missed crossing: a stored count at or above the threshold has an     *)
(* event, its own or, if it was taken over, that of another node.          *)
THEOREM CrossingsAreReported == Spec => []CrossingReported
<1>1. IInv => CrossingReported
  <2> SUFFICES ASSUME IInv, NEW n \in Nodes, Heat(n) >= Threshold
               PROVE  Answers(Sent \cup UnderWay, n)
    BY DEF CrossingReported
  <2>1. entry[n] # 0 /\ elem[entry[n]].count >= Threshold
    BY HotEdgeAssumption DEF Heat
  <2>2. elem[entry[n]].node = n /\ entry[n] \in Elements
    BY <2>1 DEF IInv, Placed, TypeOK
  <2> QED BY <2>1, <2>2 DEF IInv, CrossingsReported, Events
<1> QED BY <1>1, HotEdgeInvariant, PTL
===============================================================================
