--------------------------- MODULE CsrGraphProofs ---------------------------
(***************************************************************************)
(* Proofs about CsrGraph, for every capacity and every set of batches.     *)
(*                                                                         *)
(* The argument: sorting is a permutation (SortedIsPermutation) whose      *)
(* result is ascending (SortedIsAscending); of an ascending list, the      *)
(* edges with a source below i are exactly the first RowPtr(all)[i]        *)
(* (RowPtrSplits), so the cursor of the k-th edge is k - 1                 *)
(* (CursorIsPosition) and the scatter never leaves the capacity.           *)
(***************************************************************************)
EXTENDS GraphBenchmark, CountingLemmas

(* The two components of an edge are nodes, and nodes are naturals. *)
LEMMA EdgeType ==
  /\ Node \subseteq Nat
  /\ \A e \in Edge : e = <<e[1], e[2]>> /\ e[1] \in Node /\ e[2] \in Node
  /\ \A s, d \in Node : <<s, d>> \in Edge
BY CapacityAssumption DEF Node, Edge

-------------------------------------------------------------------------------
(* Sorting                                                                 *)

Before(all, j, k) == Precedes(all[j], all[k]) \/ (all[j] = all[k] /\ j < k)

(* Before is a strict total order of the positions of a list. *)
LEMMA BeforeIsTotalOrder ==
  ASSUME NEW all \in Seq(Edge)
  PROVE  /\ \A k \in DOMAIN all : ~ Before(all, k, k)
         /\ \A j, k \in DOMAIN all : j # k => Before(all, j, k) \/ Before(all, k, j)
         /\ \A i, j, k \in DOMAIN all :
              Before(all, i, j) /\ Before(all, j, k) => Before(all, i, k)
<1>1. \A k \in DOMAIN all : /\ k \in Nat
                            /\ all[k] = <<all[k][1], all[k][2]>>
                            /\ all[k][1] \in Nat
                            /\ all[k][2] \in Nat
  BY EdgeType, LenProperties, ElementOfSeq
<1>2. \A k \in DOMAIN all : ~ Before(all, k, k)
  BY <1>1 DEF Before, Precedes
<1>3. ASSUME NEW j \in DOMAIN all, NEW k \in DOMAIN all, j # k
      PROVE  Before(all, j, k) \/ Before(all, k, j)
  <2>1. CASE all[j] = all[k]
    BY <1>1, <1>3, <2>1 DEF Before
  <2>2. CASE all[j] # all[k]
    <3>1. all[j][1] # all[k][1] \/ all[j][2] # all[k][2]
      BY <1>1, <2>2
    <3> QED BY <1>1, <3>1 DEF Before, Precedes
  <2> QED BY <2>1, <2>2
<1>4. ASSUME NEW i \in DOMAIN all, NEW j \in DOMAIN all, NEW k \in DOMAIN all,
             Before(all, i, j), Before(all, j, k)
      PROVE  Before(all, i, k)
  <2>1. CASE all[i] = all[j]
    BY <1>1, <1>4, <2>1 DEF Before
  <2>2. CASE all[i] # all[j] /\ all[j] = all[k]
    BY <1>1, <1>4, <2>2 DEF Before
  <2>3. CASE all[i] # all[j] /\ all[j] # all[k]
    BY <1>1, <1>4, <2>3 DEF Before, Precedes
  <2> QED BY <2>1, <2>2, <2>3
<1> QED BY <1>2, <1>3, <1>4

(* An edge that comes before another has a smaller rank. *)
LEMMA RankIsStrict ==
  ASSUME NEW all \in Seq(Edge)
  PROVE  /\ \A k \in DOMAIN all : Rank(all, k) \in 0 .. (Len(all) - 1)
         /\ \A j, k \in DOMAIN all : Before(all, j, k) => Rank(all, j) < Rank(all, k)
<1> DEFINE n == Len(all)
           B(k) == {j \in DOMAIN all : Before(all, j, k)}
<1>1. n \in Nat /\ DOMAIN all = 1 .. n
  BY LenProperties
<1>2. \A k : Rank(all, k) = Cardinality(B(k))
  BY DEF Rank, Before
<1>3. \A k \in DOMAIN all : IsFiniteSet(B(k)) /\ Cardinality(B(k)) \in 0 .. n
  BY <1>1, PartOfInterval
<1>4. ASSUME NEW k \in DOMAIN all PROVE Cardinality(B(k)) # n
  <2>1. k \notin B(k)
    BY <1>4, BeforeIsTotalOrder
  <2>2. IsFiniteSet(1 .. n) /\ Cardinality(1 .. n) = n
    <3> HIDE DEF n
    <3> QED BY <1>1, FS_Interval
  <2>3. B(k) \in SUBSET (1 .. n) /\ B(k) # 1 .. n
    BY <1>1, <1>4, <2>1
  <2> HIDE DEF B, n
  <2> QED BY <2>2, <2>3, FS_Subset
<1>5. ASSUME NEW j \in DOMAIN all, NEW k \in DOMAIN all, Before(all, j, k)
      PROVE  Cardinality(B(j)) < Cardinality(B(k))
  <2>1. B(j) \in SUBSET B(k)
    BY <1>5, BeforeIsTotalOrder
  <2>2. j \in B(k) /\ j \notin B(j)
    BY <1>5, BeforeIsTotalOrder
  <2>3. B(j) # B(k)
    BY <2>2
  <2> HIDE DEF B
  <2>4. Cardinality(B(j)) <= Cardinality(B(k)) /\ Cardinality(B(j)) # Cardinality(B(k))
    BY <1>3, <1>5, <2>1, <2>3, FS_Subset
  <2>5. Cardinality(B(j)) \in Nat /\ Cardinality(B(k)) \in Nat
    BY <1>1, <1>3, <1>5
  <2> QED BY <2>4, <2>5
<1> HIDE DEF B, n
<1>6. \A k \in DOMAIN all : Rank(all, k) \in 0 .. (n - 1)
  BY <1>1, <1>2, <1>3, <1>4
<1> QED BY <1>2, <1>5, <1>6 DEF n

(* Where Sorted puts the k-th edge, and that it puts one edge everywhere. *)
LEMMA SortedIsPermutation ==
  ASSUME NEW all \in Seq(Edge)
  PROVE  /\ Sorted(all) \in Seq(Edge)
         /\ Len(Sorted(all)) = Len(all)
         /\ \A k \in DOMAIN all : Sorted(all)[Rank(all, k) + 1] = all[k]
         /\ \A r \in 1 .. Len(all) : \E k \in DOMAIN all : Rank(all, k) = r - 1
         /\ \A j, k \in DOMAIN all : Rank(all, j) = Rank(all, k) => j = k
<1> DEFINE n == Len(all)
           f == [k \in 1 .. n |-> Rank(all, k)]
           At(r) == CHOOSE k \in DOMAIN all : Rank(all, k) = r - 1
<1>1. n \in Nat /\ DOMAIN all = 1 .. n /\ \A k \in 1 .. n : all[k] \in Edge
  BY LenProperties, ElementOfSeq
<1>2. \A k \in DOMAIN all : Rank(all, k) \in 0 .. (n - 1)
  BY RankIsStrict
<1>3. ASSUME NEW j \in DOMAIN all, NEW k \in DOMAIN all, Rank(all, j) = Rank(all, k)
      PROVE  j = k
  <2> SUFFICES ASSUME j # k PROVE FALSE
    OBVIOUS
  <2>1. Before(all, j, k) \/ Before(all, k, j)
    BY BeforeIsTotalOrder
  <2>2. Rank(all, j) < Rank(all, k) \/ Rank(all, k) < Rank(all, j)
    BY <2>1, RankIsStrict
  <2> QED BY <1>2, <1>3, <2>2
<1>4. ASSUME NEW r \in 1 .. n PROVE \E k \in DOMAIN all : Rank(all, k) = r - 1
  <2>1. f \in [1 .. n -> 0 .. (n - 1)]
    BY <1>1, <1>2
  <2>2. \A i, j \in 1 .. n : f[i] = f[j] => i = j
    BY <1>1, <1>3
  <2>3. \A v \in 0 .. (n - 1) : \E k \in 1 .. n : f[k] = v
    <3> HIDE DEF f, n
    <3> QED BY <1>1, <2>1, <2>2, InjectionIsOnto
  <2> QED BY <1>1, <2>3
<1>5. \A r \in 1 .. n : At(r) \in DOMAIN all /\ Rank(all, At(r)) = r - 1
  BY <1>4
<1>6. Sorted(all) = [r \in 1 .. n |-> all[At(r)]]
  BY DEF Sorted
<1>7. Sorted(all) \in Seq(Edge) /\ Len(Sorted(all)) = n
  <2>1. \A r \in 1 .. n : all[At(r)] \in Edge
    BY <1>1, <1>5
  <2> HIDE DEF At, n
  <2> QED BY <1>1, <1>6, <2>1
<1>8. ASSUME NEW k \in DOMAIN all PROVE Sorted(all)[Rank(all, k) + 1] = all[k]
  <2>1. Rank(all, k) + 1 \in 1 .. n
    BY <1>1, <1>2
  <2>2. At(Rank(all, k) + 1) \in DOMAIN all
        /\ Rank(all, At(Rank(all, k) + 1)) = Rank(all, k)
    BY <1>2, <1>5, <2>1
  <2>3. At(Rank(all, k) + 1) = k
    BY <1>3, <2>2
  <2> HIDE DEF At, n
  <2> QED BY <1>6, <2>1, <2>3
<1> QED BY <1>3, <1>4, <1>7, <1>8

(* The sorted list never steps down. *)
LEMMA SortedIsAscending ==
  ASSUME NEW all \in Seq(Edge)
  PROVE  \A p, q \in 1 .. Len(all) :
           p < q => ~ Precedes(Sorted(all)[q], Sorted(all)[p])
<1> SUFFICES ASSUME NEW p \in 1 .. Len(all), NEW q \in 1 .. Len(all), p < q,
                    Precedes(Sorted(all)[q], Sorted(all)[p])
             PROVE  FALSE
  OBVIOUS
<1>1. PICK j \in DOMAIN all : Rank(all, j) = p - 1
  BY SortedIsPermutation
<1>2. PICK k \in DOMAIN all : Rank(all, k) = q - 1
  BY SortedIsPermutation
<1>3. Sorted(all)[p] = all[j] /\ Sorted(all)[q] = all[k]
  <2>1. (p - 1) + 1 = p /\ (q - 1) + 1 = q
    BY LenProperties
  <2> QED BY <1>1, <1>2, <2>1, SortedIsPermutation
<1>4. Rank(all, k) < Rank(all, j)
  BY <1>3, RankIsStrict DEF Before
<1> QED BY <1>1, <1>2, <1>4, LenProperties
-------------------------------------------------------------------------------
(* Rows of an ascending list of edges                                      *)

IsAscending(list) ==
  \A p, q \in 1 .. Len(list) : p < q => ~ Precedes(list[q], list[p])

(* Sources never step down, and neither do the targets of one source. *)
LEMMA AscendingComponents ==
  ASSUME NEW list \in Seq(Edge), IsAscending(list)
  PROVE  \A p, q \in 1 .. Len(list) :
           p <= q => /\ list[p][1] <= list[q][1]
                     /\ list[p][1] = list[q][1] => list[p][2] <= list[q][2]
<1> SUFFICES ASSUME NEW p \in 1 .. Len(list), NEW q \in 1 .. Len(list), p <= q
             PROVE  /\ list[p][1] <= list[q][1]
                    /\ list[p][1] = list[q][1] => list[p][2] <= list[q][2]
  OBVIOUS
<1>1. /\ list[p][1] \in Nat /\ list[p][2] \in Nat
      /\ list[q][1] \in Nat /\ list[q][2] \in Nat
  BY EdgeType, ElementOfSeq
<1>2. p < q \/ p = q
  BY LenProperties
<1> QED BY <1>1, <1>2 DEF IsAscending, Precedes

(* RowPtr(list)[i] cuts the list at the first source that is not below i.  *)
LEMMA RowPtrSplits ==
  ASSUME NEW list \in Seq(Edge), IsAscending(list), NEW i \in 0 .. NodeCap
  PROVE  /\ RowPtr(list)[i] \in 0 .. Len(list)
         /\ \A k \in 1 .. Len(list) : list[k][1] < i <=> k <= RowPtr(list)[i]
<1> DEFINE n == Len(list)
           D == {k \in DOMAIN list : list[k][1] < i}
<1>1. n \in Nat /\ DOMAIN list = 1 .. n
  BY LenProperties
<1>2. \A k \in 1 .. n : list[k][1] \in Nat
  BY EdgeType, ElementOfSeq
<1>3. \A j, k \in 1 .. n : j <= k /\ k \in D => j \in D
  BY <1>1, <1>2, AscendingComponents
<1>4. RowPtr(list)[i] = Cardinality(D)
  BY DEF RowPtr
<1>5. Cardinality(D) \in 0 .. n /\ D = 1 .. Cardinality(D)
  <2>1. D \in SUBSET (1 .. n)
    BY <1>1
  <2> HIDE DEF D, n
  <2> QED BY <1>1, <1>3, <2>1, DownSetIsInterval
<1>6. ASSUME NEW k \in 1 .. n
      PROVE  list[k][1] < i <=> k <= Cardinality(D)
  <2>1. list[k][1] < i <=> k \in D
    BY <1>1, <1>6
  <2> HIDE DEF D
  <2> QED BY <1>1, <1>5, <1>6, <2>1
<1> HIDE DEF D
<1> QED BY <1>4, <1>5, <1>6

(* The offsets start at 0, never decrease and end at the number of edges.  *)
LEMMA RowPtrShape ==
  ASSUME NEW list \in Seq(Edge), IsAscending(list)
  PROVE  /\ RowPtr(list) \in [0 .. NodeCap -> 0 .. Len(list)]
         /\ RowPtr(list)[0] = 0
         /\ RowPtr(list)[NodeCap] = Len(list)
         /\ \A i, j \in 0 .. NodeCap : i <= j => RowPtr(list)[i] <= RowPtr(list)[j]
<1> DEFINE n == Len(list)
           R(i) == RowPtr(list)[i]
<1>1. n \in Nat /\ NodeCap \in Nat
  BY LenProperties, CapacityAssumption
<1>2. \A k \in 1 .. n : list[k][1] \in 0 .. (NodeCap - 1)
  BY ElementOfSeq, EdgeType DEF Node
<1>3. \A i \in 0 .. NodeCap :
        /\ R(i) \in 0 .. n
        /\ \A k \in 1 .. n : list[k][1] < i <=> k <= R(i)
  BY RowPtrSplits
<1>4. RowPtr(list) \in [0 .. NodeCap -> 0 .. n]
  <2>1. RowPtr(list) = [i \in 0 .. NodeCap |-> R(i)]
    BY DEF RowPtr
  <2> HIDE DEF R, n
  <2> QED BY <1>3, <2>1
<1> HIDE DEF R, n
<1>5. R(0) = 0
  <2> SUFFICES ASSUME R(0) # 0 PROVE FALSE
    OBVIOUS
  <2>1. 1 \in 1 .. n /\ 1 <= R(0) /\ 0 \in 0 .. NodeCap
    BY <1>1, <1>3
  <2>2. list[1][1] < 0
    BY <1>3, <2>1
  <2> QED BY <1>2, <2>1, <2>2
<1>6. R(NodeCap) = n
  <2> SUFFICES ASSUME R(NodeCap) # n PROVE FALSE
    OBVIOUS
  <2>1. NodeCap \in 0 .. NodeCap /\ R(NodeCap) \in 0 .. n
    BY <1>1, <1>3
  <2>2. n \in 1 .. n /\ ~ (n <= R(NodeCap))
    BY <1>1, <2>1
  <2>3. ~ (list[n][1] < NodeCap)
    BY <1>3, <2>1, <2>2
  <2>4. list[n][1] \in 0 .. (NodeCap - 1)
    BY <1>2, <2>2
  <2> QED BY <1>1, <2>3, <2>4
<1>7. ASSUME NEW i \in 0 .. NodeCap, NEW j \in 0 .. NodeCap, i <= j
      PROVE  R(i) <= R(j)
  <2> SUFFICES ASSUME ~ (R(i) <= R(j)) PROVE FALSE
    OBVIOUS
  <2>1. R(i) \in 1 .. n /\ R(i) \in Nat /\ R(j) \in Nat
    BY <1>1, <1>3, <1>7
  <2>2. list[R(i)][1] < i /\ ~ (list[R(i)][1] < j)
    BY <1>3, <2>1
  <2> QED BY <1>1, <1>2, <1>7, <2>1, <2>2
<1> QED BY <1>4, <1>5, <1>6, <1>7 DEF R, n

(* The scatter loop writes the k-th edge of an ascending list to slot k-1. *)
LEMMA CursorIsPosition ==
  ASSUME NEW list \in Seq(Edge), IsAscending(list), NEW k \in 1 .. Len(list)
  PROVE  Cursor(list, k) = k - 1
<1> DEFINE n == Len(list)
           s == list[k][1]
           r == RowPtr(list)[s]
           E == {j \in 1 .. (k - 1) : list[j][1] = s}
<1>1. n \in Nat /\ k \in 1 .. n /\ s \in 0 .. NodeCap /\ NodeCap \in Nat
  BY LenProperties, ElementOfSeq, EdgeType, CapacityAssumption DEF Node
<1>2. r \in 0 .. n /\ \A j \in 1 .. n : list[j][1] < s <=> j <= r
  BY <1>1, RowPtrSplits
<1>3. ~ (k <= r)
  BY <1>1, <1>2
<1>4. \A j \in 1 .. n : list[j][1] \in Nat
  BY ElementOfSeq, EdgeType
<1>5. E = (r + 1) .. (k - 1)
  <2>1. ASSUME NEW j \in 1 .. (k - 1)
        PROVE  list[j][1] = s <=> j > r
    <3>1. j \in 1 .. n /\ j <= k
      BY <1>1
    <3>2. list[j][1] <= s
      BY <3>1, AscendingComponents
    <3> QED BY <1>1, <1>2, <1>4, <3>1, <3>2
  <2> HIDE DEF s, r, n
  <2> QED BY <1>1, <1>2, <2>1
<1>6. Cardinality((r + 1) .. (k - 1)) = (k - 1) - r
  <2> HIDE DEF r, n
  <2>1. r + 1 \in Int /\ k - 1 \in Int
    BY <1>1, <1>2
  <2>2. Cardinality((r + 1) .. (k - 1)) =
          IF r + 1 > k - 1 THEN 0 ELSE (k - 1) - (r + 1) + 1
    BY <2>1, FS_Interval
  <2> QED BY <1>1, <1>2, <1>3, <2>2
<1>7. Cursor(list, k) = r + Cardinality(E)
  BY DEF Cursor
<1> HIDE DEF r, n, E
<1> QED BY <1>1, <1>2, <1>5, <1>6, <1>7
-------------------------------------------------------------------------------
(* A rebuild                                                               *)

(* Every slot below edge_count belongs to one row. *)
LEMMA RowOfSlot ==
  ASSUME TypeOK, RowsPartitionSlots, NEW p \in 0 .. (edge_count - 1)
  PROVE  /\ RowOf(p) \in Node
         /\ row_ptr[RowOf(p)] <= p
         /\ p < row_ptr[RowOf(p) + 1]
<1> DEFINE D == {i \in 1 .. NodeCap : row_ptr[i - 1] <= p}
           c == Cardinality(D)
<1>1. /\ NodeCap \in Nat \ {0}
      /\ \A i \in 0 .. NodeCap : row_ptr[i] \in Nat
      /\ edge_count \in Nat
  BY CapacityAssumption DEF TypeOK
<1>2. \A i, j \in 1 .. NodeCap : i <= j /\ j \in D => i \in D
  <2> SUFFICES ASSUME NEW i \in 1 .. NodeCap, NEW j \in 1 .. NodeCap,
                      i <= j, row_ptr[j - 1] <= p
               PROVE  row_ptr[i - 1] <= p
    OBVIOUS
  <2>1. i - 1 \in 0 .. NodeCap /\ j - 1 \in 0 .. NodeCap /\ i - 1 <= j - 1
    BY <1>1
  <2>2. row_ptr[i - 1] <= row_ptr[j - 1]
    BY <2>1 DEF RowsPartitionSlots
  <2> QED BY <1>1, <2>1, <2>2
<1>3. c \in 0 .. NodeCap /\ D = 1 .. c
  <2>1. D \in SUBSET (1 .. NodeCap)
    OBVIOUS
  <2> HIDE DEF D
  <2> QED BY <1>1, <1>2, <2>1, DownSetIsInterval
<1>4. 1 \in D
  BY <1>1 DEF RowsPartitionSlots
<1>5. c \in 1 .. NodeCap /\ row_ptr[c - 1] <= p
  <2>1. c \in 1 .. NodeCap
    <3> HIDE DEF D
    <3> QED BY <1>1, <1>3, <1>4
  <2>2. c \in D
    <3> HIDE DEF D
    <3> QED BY <1>3, <2>1
  <2> QED BY <2>1, <2>2
<1>6. p < row_ptr[c]
  <2>1. CASE c = NodeCap
    BY <1>1, <2>1 DEF RowsPartitionSlots
  <2>2. CASE c # NodeCap
    <3>1. c + 1 \in 1 .. NodeCap /\ c + 1 \notin 1 .. c
      <4> HIDE DEF D
      <4> QED BY <1>1, <1>3, <2>2
    <3>2. c + 1 \notin D
      <4> HIDE DEF D
      <4> QED BY <1>3, <3>1
    <3>3. ~ (row_ptr[(c + 1) - 1] <= p)
      BY <3>1, <3>2
    <3>4. (c + 1) - 1 = c /\ c \in 0 .. NodeCap
      <4> HIDE DEF D
      <4> QED BY <1>3
    <3> HIDE DEF c
    <3> QED BY <1>1, <3>3, <3>4
  <2> QED BY <2>1, <2>2
<1> HIDE DEF D, c
<1>7. c - 1 \in Node /\ row_ptr[c - 1] <= p /\ p < row_ptr[(c - 1) + 1]
  BY <1>1, <1>5, <1>6 DEF Node
<1> QED BY <1>7 DEF RowOf

(* The collected edges: one per slot below edge_count, all of them edges.  *)
LEMMA ExistingEdgesType ==
  ASSUME TypeOK, RowsPartitionSlots
  PROVE  /\ ExistingEdges \in Seq(Edge)
         /\ Len(ExistingEdges) = edge_count
         /\ \A k \in 1 .. edge_count :
              ExistingEdges[k] = <<RowOf(k - 1), col_idx[k - 1]>>
<1>1. edge_count \in 0 .. EdgeCap /\ EdgeCap \in Nat /\ row_ptr[NodeCap] = edge_count
  BY CapacityAssumption DEF TypeOK, RowsPartitionSlots
<1>2. \A k \in 1 .. edge_count : <<RowOf(k - 1), col_idx[k - 1]>> \in Edge
  <2> SUFFICES ASSUME NEW k \in 1 .. edge_count
               PROVE  <<RowOf(k - 1), col_idx[k - 1]>> \in Edge
    OBVIOUS
  <2>1. k - 1 \in 0 .. (edge_count - 1) /\ k - 1 \in Slot
    BY <1>1 DEF Slot
  <2> QED BY <2>1, RowOfSlot, EdgeType DEF TypeOK
<1> QED BY <1>1, <1>2 DEF ExistingEdges

(* What Rebuild does from a well-formed graph: the two late error returns  *)
(* are never taken, and slot p receives the (p + 1)-th edge.               *)
LEMMA RebuildEffect ==
  ASSUME TypeOK, RowsPartitionSlots, NEW batch \in Batches, Rebuild(batch)
  PROVE  LET all == Sorted(ExistingEdges \o batch) IN
         /\ batch \in Seq(Edge)
         /\ all \in Seq(Edge)
         /\ Len(all) = edge_count + Len(batch)
         /\ Len(all) \in 1 .. EdgeCap
         /\ IsAscending(all)
         /\ node_count' = NodeCount(all)
         /\ row_ptr' = RowPtr(all)
         /\ edge_count' = Len(all)
         /\ generation' = generation + 1
         /\ col_idx' = [p \in Slot |-> IF p < Len(all) THEN all[p + 1][2] ELSE col_idx[p]]
         /\ ret' = [op |-> "add", arg |-> batch, status |-> "ok", value |-> Len(batch)]
<1> DEFINE list == ExistingEdges \o batch
           all == Sorted(list)
<1>1. batch \in Seq(Edge)
  <2>1. batch \in Seq(Nat \X Nat)
    BY BatchAssumption
  <2>2. Len(batch) \in Nat /\ batch \in [1 .. Len(batch) -> Nat \X Nat]
        /\ DOMAIN batch = 1 .. Len(batch)
    BY <2>1, LenProperties
  <2>3. \A k \in 1 .. Len(batch) : batch[k][1] < NodeCap /\ batch[k][2] < NodeCap
    BY <2>2 DEF Rebuild
  <2>4. \A k \in 1 .. Len(batch) : batch[k] \in Edge
    BY <2>2, <2>3, CapacityAssumption DEF Edge, Node
  <2> QED BY <2>1, <2>2, <2>4
<1>2. list \in Seq(Edge) /\ Len(list) = edge_count + Len(batch)
  BY <1>1, ExistingEdgesType, ConcatProperties
<1>3. all \in Seq(Edge) /\ Len(all) = edge_count + Len(batch)
  <2> HIDE DEF list
  <2> QED BY <1>2, SortedIsPermutation
<1>4. IsAscending(all)
  <2> HIDE DEF list
  <2> QED BY <1>2, <1>3, SortedIsPermutation, SortedIsAscending DEF IsAscending
<1>5. Len(all) \in 1 .. EdgeCap
  <2>1. Len(batch) \in Nat \ {0}
    BY <1>1, EmptySeq DEF Rebuild
  <2>2. edge_count \in Nat /\ EdgeCap \in Nat /\ edge_count + Len(batch) <= EdgeCap
    BY CapacityAssumption DEF TypeOK, Rebuild
  <2> HIDE DEF list, all
  <2> QED BY <1>3, <2>1, <2>2
<1> HIDE DEF list
<1>6. RowsInRange
  <2> SUFFICES ASSUME NEW s \in Node PROVE row_ptr[s + 1] <= edge_count
    BY DEF RowsInRange
  <2>1. s + 1 \in 0 .. NodeCap /\ NodeCap \in 0 .. NodeCap /\ s + 1 <= NodeCap
    BY CapacityAssumption DEF Node
  <2> QED BY <2>1 DEF RowsPartitionSlots
<1>7. DOMAIN all = 1 .. Len(all)
  BY <1>3, LenProperties
<1>8. \A k \in DOMAIN all : Cursor(all, k) = k - 1
  <2> HIDE DEF all
  <2> QED BY <1>3, <1>4, <1>7, CursorIsPosition
<1>9. ScatterInRange(all) /\ Scattered(all) = DOMAIN all
  <2> HIDE DEF all
  <2>1. \A k \in DOMAIN all : k \in 1 .. EdgeCap /\ k - 1 < EdgeCap
    BY <1>5, <1>7, CapacityAssumption
  <2>2. \A k \in DOMAIN all : \A j \in 1 .. k : j \in DOMAIN all
    BY <1>5, <1>7
  <2>3. \A k \in DOMAIN all : Cursor(all, k) < EdgeCap
    BY <1>8, <2>1
  <2> QED BY <2>2, <2>3 DEF ScatterInRange, Scattered
<1>10. ColIdx(all) = [p \in Slot |-> IF p < Len(all) THEN all[p + 1][2] ELSE col_idx[p]]
  <2> HIDE DEF all
  <2>1. ASSUME NEW p \in Slot, p < Len(all)
        PROVE  /\ \E k \in DOMAIN all : Cursor(all, k) = p
               /\ (CHOOSE k \in DOMAIN all : Cursor(all, k) = p) = p + 1
    <3>1. p + 1 \in DOMAIN all /\ p \in Nat
      BY <1>5, <1>7, <2>1 DEF Slot
    <3>2. \A k \in DOMAIN all : Cursor(all, k) = p <=> k = p + 1
      BY <1>7, <1>8, <3>1
    <3> QED BY <3>1, <3>2
  <2>2. ASSUME NEW p \in Slot, ~ (p < Len(all))
        PROVE  ~ \E k \in DOMAIN all : Cursor(all, k) = p
    BY <1>5, <1>7, <1>8, <2>2 DEF Slot
  <2> QED BY <1>9, <2>1, <2>2 DEF ColIdx
<1>11. /\ node_count' = NodeCount(all)
       /\ row_ptr' = RowPtr(all)
       /\ edge_count' = Len(all)
       /\ generation' = generation + 1
       /\ col_idx' = ColIdx(all)
       /\ ret' = [op |-> "add", arg |-> batch, status |-> "ok", value |-> Len(batch)]
  BY <1>6, <1>9 DEF Rebuild, Return, list
<1> QED BY <1>1, <1>3, <1>4, <1>5, <1>10, <1>11 DEF list
(* The node count of a non-empty ascending list. *)
LEMMA NodeCountType ==
  ASSUME NEW list \in Seq(Edge), IsAscending(list), Len(list) \in Nat \ {0}
  PROVE  /\ NodeCount(list) \in 1 .. NodeCap
         /\ \A k \in DOMAIN list : list[k][1] < NodeCount(list)
<1> DEFINE n == Len(list)
<1>1. DOMAIN list = 1 .. n /\ n \in 1 .. n
  BY LenProperties
<1>2. \A k \in 1 .. n : list[k][1] \in 0 .. (NodeCap - 1)
  BY ElementOfSeq, EdgeType DEF Node
<1>3. \A k \in 1 .. n : list[k][1] <= list[n][1]
  <2>1. \A k \in 1 .. n : k <= n
    BY <1>1
  <2> QED BY <1>1, <2>1, AscendingComponents
<1>4. list[n][1] + 1 \in 1 .. NodeCap
  BY <1>1, <1>2, CapacityAssumption
<1>5. \A k \in DOMAIN list : list[k][1] < list[n][1] + 1
  BY <1>1, <1>2, <1>3
<1>6. list[n][1] = (list[n][1] + 1) - 1
  BY <1>1, <1>2
<1> HIDE DEF n
<1>7. \E m \in 1 .. NodeCap : /\ \A k \in DOMAIN list : list[k][1] < m
                              /\ \E k \in DOMAIN list : list[k][1] = m - 1
  BY <1>1, <1>4, <1>5, <1>6
<1> QED BY <1>7 DEF NodeCount

-------------------------------------------------------------------------------
(* The invariant                                                           *)

(* The invariant that is inductive: type correctness needs the rows to     *)
(* partition the slots (a rebuild reads the old edges through them), and   *)
(* every other part is established afresh by each rebuild.                 *)
IInv ==
  /\ TypeOK
  /\ RowsPartitionSlots
  /\ NeverCorrupted
  /\ RowsAscending
  /\ NodeCountCoversSources

(* init leaves an empty, well-formed graph. *)
LEMMA InitEstablishesIInv == Init => IInv
<1> SUFFICES ASSUME Init PROVE IInv
  OBVIOUS
<1>1. NodeCap \in Nat \ {0} /\ EdgeCap \in Nat
  BY CapacityAssumption
<1>2. TypeOK
  BY <1>1 DEF Init, TypeOK, Status
<1>3. RowsPartitionSlots /\ NodeCountCoversSources
  BY <1>1 DEF Init, RowsPartitionSlots, NodeCountCoversSources, Node
<1>4. NeverCorrupted /\ RowsAscending
  BY <1>1 DEF Init, NeverCorrupted, RowsAscending, Node, Slot
<1> QED BY <1>2, <1>3, <1>4 DEF IInv

(* A rebuild of a well-formed graph leaves a well-formed graph. *)
LEMMA RebuildPreservesIInv ==
  ASSUME IInv, NEW batch \in Batches, Rebuild(batch)
  PROVE  IInv'
<1> DEFINE all == Sorted(ExistingEdges \o batch)
           n == Len(all)
<1>1. /\ all \in Seq(Edge)
      /\ n \in 1 .. EdgeCap
      /\ IsAscending(all)
      /\ node_count' = NodeCount(all)
      /\ row_ptr' = RowPtr(all)
      /\ edge_count' = n
      /\ generation' = generation + 1
      /\ col_idx' = [p \in Slot |-> IF p < n THEN all[p + 1][2] ELSE col_idx[p]]
      /\ ret'.status = "ok"
  BY RebuildEffect DEF IInv
<1> HIDE DEF all
<1>2. NodeCap \in Nat \ {0} /\ EdgeCap \in Nat /\ n \in Nat \ {0}
  BY <1>1, CapacityAssumption
<1>3. \A k \in 1 .. n : /\ k \in DOMAIN all
                        /\ all[k][1] \in Node
                        /\ all[k][2] \in Node
                        /\ all[k][1] \in Nat
                        /\ all[k][2] \in Nat
  BY <1>1, EdgeType, ElementOfSeq, LenProperties
<1>4. TypeOK'
  <2>1. node_count' \in 0 .. NodeCap
    BY <1>1, <1>2, NodeCountType
  <2>2. row_ptr' \in [0 .. NodeCap -> 0 .. EdgeCap]
    <3>1. row_ptr' \in [0 .. NodeCap -> 0 .. n]
      BY <1>1, RowPtrShape
    <3>2. \A x \in 0 .. n : x \in 0 .. EdgeCap
      BY <1>1, <1>2
    <3> HIDE DEF n
    <3> QED BY <3>1, <3>2
  <2>3. col_idx' \in [Slot -> Node]
    <3>1. \A p \in Slot : p < n => p + 1 \in 1 .. n
      BY <1>2 DEF Slot
    <3> QED BY <1>1, <1>3, <3>1 DEF IInv, TypeOK
  <2>4. edge_count' \in 0 .. EdgeCap /\ generation' \in Nat
    BY <1>1, <1>2 DEF IInv, TypeOK
  <2> QED BY <1>1, <2>1, <2>2, <2>3, <2>4 DEF TypeOK, Status
<1>5. RowsPartitionSlots'
  BY <1>1, RowPtrShape DEF RowsPartitionSlots
<1>6. NeverCorrupted'
  BY <1>1 DEF NeverCorrupted
<1>7. RowsAscending'
  <2> SUFFICES ASSUME NEW s \in Node, NEW p \in Slot, NEW q \in Slot,
                      row_ptr'[s] <= p, p < q, q < row_ptr'[s + 1]
               PROVE  col_idx'[p] <= col_idx'[q]
    BY DEF RowsAscending
  <2>1. s \in 0 .. NodeCap /\ s + 1 \in 0 .. NodeCap /\ s \in Nat
    BY <1>2 DEF Node
  <2>2. /\ RowPtr(all)[s] \in 0 .. n
        /\ RowPtr(all)[s + 1] \in 0 .. n
        /\ \A k \in 1 .. n : all[k][1] < s <=> k <= RowPtr(all)[s]
        /\ \A k \in 1 .. n : all[k][1] < s + 1 <=> k <= RowPtr(all)[s + 1]
    BY <1>1, <2>1, RowPtrSplits
  <2>3. p \in Nat /\ q \in Nat
    BY <1>2 DEF Slot
  <2>4. p + 1 \in 1 .. n /\ q + 1 \in 1 .. n /\ p + 1 <= q + 1
    BY <1>1, <1>2, <2>2, <2>3
  <2>5. all[p + 1][1] = s /\ all[q + 1][1] = s
    <3>1. row_ptr' = RowPtr(all)
      BY <1>1
    <3>2. /\ ~ (p + 1 <= RowPtr(all)[s]) /\ p + 1 <= RowPtr(all)[s + 1]
          /\ ~ (q + 1 <= RowPtr(all)[s]) /\ q + 1 <= RowPtr(all)[s + 1]
      BY <3>1, <2>2, <2>3, <2>4
    <3>3. \A k \in {p + 1, q + 1} : ~ (all[k][1] < s) /\ all[k][1] < s + 1
      BY <3>2, <2>2, <2>4
    <3>4. all[p + 1][1] \in Nat /\ all[q + 1][1] \in Nat
      BY <1>3, <2>4, EdgeType
    <3> QED BY <3>3, <3>4, <2>1
  <2>6. all[p + 1][2] <= all[q + 1][2]
    BY <1>1, <2>4, <2>5, AscendingComponents
  <2>7. col_idx'[p] = all[p + 1][2] /\ col_idx'[q] = all[q + 1][2]
    BY <1>1, <1>2, <2>3, <2>4
  <2> QED BY <2>6, <2>7
<1>8. NodeCountCoversSources'
  <2> SUFFICES ASSUME NEW s \in Node, s >= node_count'
               PROVE  RowPtr(all)[s] = RowPtr(all)[s + 1]
    BY <1>1 DEF NodeCountCoversSources
  <2>1. \A k \in DOMAIN all : all[k][1] < s
    <3>1. NodeCount(all) \in Nat /\ s \in Nat
      BY <1>1, <1>2, NodeCountType DEF Node
    <3>2. \A k \in DOMAIN all : all[k][1] < NodeCount(all)
      BY <1>1, <1>2, NodeCountType
    <3>3. DOMAIN all = 1 .. n
      BY <1>1, LenProperties
    <3> QED BY <1>1, <1>3, <3>1, <3>2, <3>3
  <2>2. s \in 0 .. NodeCap /\ s + 1 \in 0 .. NodeCap /\ s \in Nat
    BY <1>2 DEF Node
  <2>3. DOMAIN all = 1 .. n
    BY <1>1, LenProperties
  <2>4. {k \in DOMAIN all : all[k][1] < s} = {k \in DOMAIN all : all[k][1] < s + 1}
    BY <1>3, <2>1, <2>2, <2>3
  <2> QED BY <2>2, <2>4 DEF RowPtr
<1> QED BY <1>4, <1>5, <1>6, <1>7, <1>8 DEF IInv

(* Everything but a rebuild leaves the graph alone and returns no late error. *)
LEMMA OtherStepsPreserveIInv ==
  ASSUME IInv, UNCHANGED graph, ret'.status \in Status \ {"corrupted"}
  PROVE  IInv'
BY DEF IInv, TypeOK, RowsPartitionSlots, NeverCorrupted, RowsAscending,
       NodeCountCoversSources, graph

(* So does every call. *)
LEMMA NextPreservesIInv == IInv /\ [Next]_vars => IInv'
<1> SUFFICES ASSUME IInv, [Next]_vars PROVE IInv'
  OBVIOUS
<1>1. ASSUME NEW batch \in Batches, AddNothing(batch) PROVE IInv'
  BY <1>1, OtherStepsPreserveIInv DEF AddNothing, Return, Status
<1>2. ASSUME NEW batch \in Batches, RefuseCapacity(batch) PROVE IInv'
  BY <1>2, OtherStepsPreserveIInv DEF RefuseCapacity, Return, Status
<1>3. ASSUME NEW batch \in Batches, RefuseNode(batch) PROVE IInv'
  BY <1>3, OtherStepsPreserveIInv DEF RefuseNode, Return, Status
<1>4. ASSUME NEW batch \in Batches, Rebuild(batch) PROVE IInv'
  BY <1>4, RebuildPreservesIInv
<1>5. ASSUME NEW m \in 0 .. NodeCap, GetFollowing(m) PROVE IInv'
  <2>1. UNCHANGED graph
    BY <1>5 DEF GetFollowing
  <2>2. ret'.status \in {"ok", "node_id"}
    <3>1. ASSUME m < NodeCap PROVE ret'.status = "ok"
      BY <1>5, <3>1 DEF GetFollowing, Return
    <3>2. ASSUME ~ (m < NodeCap) PROVE ret'.status = "node_id"
      BY <1>5, <3>2 DEF GetFollowing, Return
    <3> QED BY <3>1, <3>2
  <2> QED BY <2>1, <2>2, OtherStepsPreserveIInv DEF Status
<1>6. ASSUME NEW m \in 0 .. NodeCap, GetFollowers(m) PROVE IInv'
  <2>1. UNCHANGED graph
    BY <1>6 DEF GetFollowers
  <2>2. ret'.status \in {"ok", "node_id"}
    <3>1. ASSUME m < NodeCap PROVE ret'.status = "ok"
      BY <1>6, <3>1 DEF GetFollowers, Return
    <3>2. ASSUME ~ (m < NodeCap) PROVE ret'.status = "node_id"
      BY <1>6, <3>2 DEF GetFollowers, Return
    <3> QED BY <3>1, <3>2
  <2> QED BY <2>1, <2>2, OtherStepsPreserveIInv DEF Status
<1>7. ASSUME NEW s \in 0 .. NodeCap, NEW d \in 0 .. NodeCap, EdgeExists(s, d) PROVE IInv'
  BY <1>7, OtherStepsPreserveIInv DEF EdgeExists, Return, Status
<1>8. CASE UNCHANGED vars
  BY <1>8 DEF vars, IInv, TypeOK, RowsPartitionSlots, NeverCorrupted, RowsAscending,
              NodeCountCoversSources
<1> QED BY <1>1, <1>2, <1>3, <1>4, <1>5, <1>6, <1>7, <1>8 DEF Next, AddEdgeBatch

(* The graph stays well formed: types, rows, order and node count.         *)
THEOREM CsrInvariant == Spec => []IInv
BY InitEstablishesIInv, NextPreservesIInv, PTL DEF Spec

(* Fields and slots stay in their ranges, whatever the capacities.         *)
THEOREM CsrTypeCorrect == Spec => []TypeOK
BY CsrInvariant, PTL DEF IInv

(* The rows always partition the slots below edge_count, so the slices of  *)
(* get_following and of the collecting loop never panic.                   *)
THEOREM CsrRowsPartitionSlots == Spec => []RowsPartitionSlots
BY CsrInvariant, PTL DEF IInv

(* The late "corrupted CSR" errors of add_edge_batch are unreachable.      *)
THEOREM CsrNeverCorrupted == Spec => []NeverCorrupted
BY CsrInvariant, PTL DEF IInv

(* Every row is ascending, as the binary search of edge_exists requires.   *)
THEOREM CsrRowsAscending == Spec => []RowsAscending
BY CsrInvariant, PTL DEF IInv

(* The follower scan, bounded by node_count, reaches every source.         *)
THEOREM CsrNodeCountCoversSources == Spec => []NodeCountCoversSources
BY CsrInvariant, PTL DEF IInv

-------------------------------------------------------------------------------
(* The CSR graph implements the abstract edge store.  Each rebuild keeps   *)
(* count: an edge occurs in the new col_idx as often as in the sorted      *)
(* list, in the sorted list as often as in the collected one, and there as *)
(* often as in the old slots plus the batch.                               *)

(* The slots of row e[1] that hold e[2]. *)
SlotsOf(e) == {p \in Slot : /\ row_ptr[e[1]] <= p
                            /\ p < row_ptr[e[1] + 1]
                            /\ col_idx[p] = e[2]}

(* Sorting keeps every edge as often as it was there. *)
LEMMA SortedKeepsOccurrences ==
  ASSUME NEW all \in Seq(Edge), NEW e \in Edge
  PROVE  Occurrences(Sorted(all), e) = Occurrences(all, e)
<1> DEFINE S == {k \in DOMAIN all : all[k] = e}
           T == {r \in DOMAIN Sorted(all) : Sorted(all)[r] = e}
           f == [k \in S |-> Rank(all, k) + 1]
<1>1. /\ DOMAIN all = 1 .. Len(all)
      /\ DOMAIN Sorted(all) = 1 .. Len(all)
      /\ Len(all) \in Nat
  BY SortedIsPermutation, LenProperties
<1>2. \A k \in DOMAIN all : Rank(all, k) \in 0 .. (Len(all) - 1)
  BY RankIsStrict
<1>3. f \in [S -> T]
  <2> SUFFICES ASSUME NEW k \in S PROVE Rank(all, k) + 1 \in T
    OBVIOUS
  <2>1. Rank(all, k) + 1 \in DOMAIN Sorted(all)
    BY <1>1, <1>2
  <2> QED BY <2>1, SortedIsPermutation
<1>4. \A x, y \in S : f[x] = f[y] => x = y
  <2> SUFFICES ASSUME NEW x \in S, NEW y \in S, Rank(all, x) + 1 = Rank(all, y) + 1
               PROVE  x = y
    OBVIOUS
  <2>1. Rank(all, x) = Rank(all, y)
    BY <1>1, <1>2
  <2> QED BY <2>1, SortedIsPermutation
<1>5. \A t \in T : \E x \in S : f[x] = t
  <2> SUFFICES ASSUME NEW t \in T PROVE \E x \in S : Rank(all, x) + 1 = t
    OBVIOUS
  <2>1. PICK x \in DOMAIN all : Rank(all, x) = t - 1
    BY <1>1, SortedIsPermutation
  <2>2. Rank(all, x) + 1 = t
    BY <1>1, <2>1
  <2>3. Sorted(all)[Rank(all, x) + 1] = all[x]
    BY SortedIsPermutation
  <2>4. all[x] = e
    BY <2>2, <2>3
  <2> QED BY <2>2, <2>4
<1>6. IsFiniteSet(S)
  BY OccurrencesType
<1> HIDE DEF S, T, f
<1>7. Cardinality(T) = Cardinality(S)
  BY <1>3, <1>4, <1>5, <1>6, SameCardinality
<1> QED BY <1>7 DEF S, T, Occurrences

(* A slot is in a row's range exactly when RowOf says that row. *)
LEMMA RowOfIsUnique ==
  ASSUME TypeOK, RowsPartitionSlots, NEW p \in 0 .. (edge_count - 1), NEW s \in Node
  PROVE  RowOf(p) = s <=> row_ptr[s] <= p /\ p < row_ptr[s + 1]
<1> DEFINE r == RowOf(p)
<1>1. r \in Node /\ row_ptr[r] <= p /\ p < row_ptr[r + 1]
  BY RowOfSlot
<1> HIDE DEF r
<1>2. /\ \A i \in 0 .. NodeCap : row_ptr[i] \in Nat
      /\ NodeCap \in Nat \ {0} /\ edge_count \in Nat
  BY CapacityAssumption DEF TypeOK
<1>3. /\ s \in 0 .. NodeCap /\ s + 1 \in 0 .. NodeCap
      /\ r \in 0 .. NodeCap /\ r + 1 \in 0 .. NodeCap
  BY <1>1, <1>2 DEF Node
<1>4. r < s => row_ptr[r + 1] <= row_ptr[s]
  BY <1>3, <1>2 DEF RowsPartitionSlots
<1>5. s < r => row_ptr[s + 1] <= row_ptr[r]
  BY <1>3, <1>2 DEF RowsPartitionSlots
<1>6. ASSUME row_ptr[s] <= p /\ p < row_ptr[s + 1] PROVE r = s
  BY <1>1, <1>2, <1>3, <1>4, <1>5, <1>6
<1> QED BY <1>1, <1>6 DEF r

(* The slots of an edge are those below edge_count that read as it. *)
LEMMA SlotsOfType ==
  ASSUME TypeOK, RowsPartitionSlots, NEW e \in Edge
  PROVE  /\ SlotsOf(e) = {p \in 0 .. (edge_count - 1) : <<RowOf(p), col_idx[p]>> = e}
         /\ IsFiniteSet(SlotsOf(e))
         /\ Cardinality(SlotsOf(e)) \in Nat
<1>1. /\ edge_count \in 0 .. EdgeCap /\ EdgeCap \in Nat /\ NodeCap \in Nat \ {0}
      /\ e[1] \in Node /\ e[2] \in Node /\ e = <<e[1], e[2]>>
  BY CapacityAssumption, EdgeType DEF TypeOK
<1>2. e[1] + 1 \in 0 .. NodeCap /\ NodeCap \in 0 .. NodeCap /\ e[1] + 1 <= NodeCap
  BY <1>1 DEF Node
<1>3. row_ptr[e[1] + 1] \in 0 .. edge_count
  BY <1>1, <1>2 DEF RowsPartitionSlots, TypeOK
<1>4. ASSUME NEW p \in Slot
      PROVE  p \in SlotsOf(e) <=> /\ p \in 0 .. (edge_count - 1)
                                 /\ <<RowOf(p), col_idx[p]>> = e
  <2>1. p \in SlotsOf(e) => p \in 0 .. (edge_count - 1)
    BY <1>1, <1>3 DEF SlotsOf, Slot
  <2>2. ASSUME p \in 0 .. (edge_count - 1)
        PROVE  p \in SlotsOf(e) <=> <<RowOf(p), col_idx[p]>> = e
    <3>1. RowOf(p) = e[1] <=> row_ptr[e[1]] <= p /\ p < row_ptr[e[1] + 1]
      BY <1>1, <2>2, RowOfIsUnique
    <3> QED BY <1>1, <3>1 DEF SlotsOf
  <2> QED BY <2>1, <2>2
<1>5. \A p \in 0 .. (edge_count - 1) : p \in Slot
  BY <1>1 DEF Slot
<1>6. SlotsOf(e) \in SUBSET Slot
  BY DEF SlotsOf
<1>7. IsFiniteSet(Slot)
  <2>1. 0 \in Int /\ EdgeCap - 1 \in Int
    BY <1>1
  <2> QED BY <2>1, FS_Interval DEF Slot
<1>8. IsFiniteSet(SlotsOf(e)) /\ Cardinality(SlotsOf(e)) \in Nat
  BY <1>6, <1>7, FS_Subset, FS_CardinalityType
<1> QED BY <1>4, <1>5, <1>6, <1>8

(* The collected list holds each edge as often as the slots do. *)
LEMMA ExistingKeepsOccurrences ==
  ASSUME TypeOK, RowsPartitionSlots, NEW e \in Edge
  PROVE  Occurrences(ExistingEdges, e) = Cardinality(SlotsOf(e))
<1> DEFINE T == {k \in DOMAIN ExistingEdges : ExistingEdges[k] = e}
           S == SlotsOf(e)
           f == [p \in S |-> p + 1]
<1>1. edge_count \in Nat /\ DOMAIN ExistingEdges = 1 .. edge_count
  BY ExistingEdgesType, LenProperties DEF TypeOK
<1>2. S = {p \in 0 .. (edge_count - 1) : <<RowOf(p), col_idx[p]>> = e} /\ IsFiniteSet(S)
  BY SlotsOfType
<1>3. \A k \in 1 .. edge_count : ExistingEdges[k] = <<RowOf(k - 1), col_idx[k - 1]>>
  BY ExistingEdgesType
<1> HIDE DEF S
<1>4. f \in [S -> T]
  <2> SUFFICES ASSUME NEW p \in S PROVE p + 1 \in T
    OBVIOUS
  <2>1. p + 1 \in 1 .. edge_count /\ (p + 1) - 1 = p
    BY <1>1, <1>2
  <2> QED BY <1>1, <1>2, <1>3, <2>1
<1>5. \A x, y \in S : f[x] = f[y] => x = y
  BY <1>1, <1>2
<1>6. \A t \in T : \E x \in S : f[x] = t
  <2> SUFFICES ASSUME NEW t \in T PROVE \E x \in S : x + 1 = t
    OBVIOUS
  <2>1. t - 1 \in 0 .. (edge_count - 1) /\ (t - 1) + 1 = t
    BY <1>1
  <2>2. <<RowOf(t - 1), col_idx[t - 1]>> = e
    BY <1>1, <1>3
  <2> QED BY <1>2, <2>1, <2>2
<1> HIDE DEF T, f
<1>7. Cardinality(T) = Cardinality(S)
  BY <1>2, <1>4, <1>5, <1>6, SameCardinality
<1> QED BY <1>7 DEF S, T, Occurrences
(* After a rebuild the slots hold each edge as often as the sorted list.   *)
LEMMA ScatterKeepsOccurrences ==
  ASSUME NEW all \in Seq(Edge), IsAscending(all), Len(all) \in 1 .. EdgeCap,
         row_ptr' = RowPtr(all),
         col_idx' = [p \in Slot |-> IF p < Len(all) THEN all[p + 1][2] ELSE col_idx[p]],
         NEW e \in Edge
  PROVE  Cardinality(SlotsOf(e)') = Occurrences(all, e)
<1> DEFINE n == Len(all)
           S == {k \in DOMAIN all : all[k] = e}
           T == {p \in Slot : /\ row_ptr'[e[1]] <= p
                              /\ p < row_ptr'[e[1] + 1]
                              /\ col_idx'[p] = e[2]}
           f == [k \in S |-> k - 1]
<1>1. /\ n \in 1 .. EdgeCap /\ EdgeCap \in Nat /\ NodeCap \in Nat \ {0}
      /\ DOMAIN all = 1 .. n
      /\ e[1] \in Node /\ e[2] \in Node /\ e = <<e[1], e[2]>>
      /\ e[1] \in Nat /\ e[1] \in 0 .. NodeCap /\ e[1] + 1 \in 0 .. NodeCap
  BY CapacityAssumption, EdgeType, LenProperties DEF Node
<1>2. /\ row_ptr'[e[1]] \in 0 .. n /\ row_ptr'[e[1] + 1] \in 0 .. n
      /\ \A k \in 1 .. n : all[k][1] < e[1] <=> k <= row_ptr'[e[1]]
      /\ \A k \in 1 .. n : all[k][1] < e[1] + 1 <=> k <= row_ptr'[e[1] + 1]
  BY <1>1, RowPtrSplits
<1>3. \A k \in 1 .. n : all[k][1] \in Nat /\ all[k] = <<all[k][1], all[k][2]>>
  BY EdgeType, ElementOfSeq
<1>4. ASSUME NEW k \in 1 .. n
      PROVE  k - 1 \in T <=> all[k] = e
  <2>1. k - 1 \in Slot /\ k - 1 < n /\ (k - 1) + 1 = k
    BY <1>1 DEF Slot
  <2>2. col_idx'[k - 1] = all[k][2]
    BY <2>1
  <2>3. all[k][1] = e[1] <=> row_ptr'[e[1]] <= k - 1 /\ k - 1 < row_ptr'[e[1] + 1]
    BY <1>1, <1>2, <1>3
  <2> QED BY <1>1, <1>3, <2>1, <2>2, <2>3
<1>5. \A p \in T : p + 1 \in 1 .. n /\ (p + 1) - 1 = p
  BY <1>1, <1>2 DEF Slot
<1> HIDE DEF T
<1>6. f \in [S -> T]
  BY <1>1, <1>4
<1>7. \A x, y \in S : f[x] = f[y] => x = y
  BY <1>1
<1>8. \A t \in T : \E x \in S : f[x] = t
  <2> SUFFICES ASSUME NEW t \in T PROVE \E x \in S : x - 1 = t
    OBVIOUS
  <2>1. t + 1 \in S
    BY <1>1, <1>4, <1>5
  <2> QED BY <1>5, <2>1
<1>9. IsFiniteSet(S)
  BY OccurrencesType
<1> HIDE DEF S, f
<1>10. Cardinality(T) = Cardinality(S)
  BY <1>6, <1>7, <1>8, <1>9, SameCardinality
<1> QED BY <1>10 DEF S, T, SlotsOf, Occurrences

(* A rebuild adds the batch to the stored edges, copy by copy.             *)
LEMMA RebuildAddsBatch ==
  ASSUME TypeOK, RowsPartitionSlots, NEW batch \in Batches, Rebuild(batch), NEW e \in Edge
  PROVE  Cardinality(SlotsOf(e)') = Cardinality(SlotsOf(e)) + Occurrences(batch, e)
<1> DEFINE list == ExistingEdges \o batch
           all == Sorted(list)
<1>1. /\ batch \in Seq(Edge)
      /\ all \in Seq(Edge)
      /\ Len(all) \in 1 .. EdgeCap
      /\ IsAscending(all)
      /\ row_ptr' = RowPtr(all)
      /\ col_idx' = [p \in Slot |-> IF p < Len(all) THEN all[p + 1][2] ELSE col_idx[p]]
  BY RebuildEffect
<1>2. ExistingEdges \in Seq(Edge)
  BY ExistingEdgesType
<1>3. list \in Seq(Edge)
  BY <1>1, <1>2, ConcatProperties
<1>4. Cardinality(SlotsOf(e)') = Occurrences(all, e)
  <2> HIDE DEF all
  <2> QED BY <1>1, ScatterKeepsOccurrences
<1>5. Occurrences(all, e) = Occurrences(list, e)
  <2> HIDE DEF list
  <2> QED BY <1>3, SortedKeepsOccurrences
<1>6. Occurrences(list, e) = Occurrences(ExistingEdges, e) + Occurrences(batch, e)
  BY <1>1, <1>2, ConcatAddsOccurrences
<1>7. Occurrences(ExistingEdges, e) = Cardinality(SlotsOf(e))
  BY ExistingKeepsOccurrences
<1> QED BY <1>4, <1>5, <1>6, <1>7

-------------------------------------------------------------------------------
(* Queries                                                                 *)

(* A row lists its slots in order. *)
LEMMA RowLists ==
  ASSUME TypeOK, RowsPartitionSlots, RowsAscending, NEW s \in Node
  PROVE  /\ Row(s) \in Seq(Node)
         /\ Ascending(Row(s))
         /\ \A d \in Node : Occurrences(Row(s), d) = Cardinality(SlotsOf(<<s, d>>))
         /\ \A d \in Node : (\E k \in DOMAIN Row(s) : Row(s)[k] = d)
                              <=> Cardinality(SlotsOf(<<s, d>>)) > 0
<1> DEFINE lo == row_ptr[s]
           hi == row_ptr[s + 1]
<1>1. /\ NodeCap \in Nat \ {0} /\ EdgeCap \in Nat /\ edge_count \in 0 .. EdgeCap
      /\ s \in 0 .. NodeCap /\ s + 1 \in 0 .. NodeCap /\ s <= s + 1
      /\ NodeCap \in 0 .. NodeCap /\ s + 1 <= NodeCap
  BY CapacityAssumption DEF TypeOK, Node
<1>2. lo \in Nat /\ hi \in Nat /\ lo <= hi /\ hi <= edge_count
  BY <1>1 DEF TypeOK, RowsPartitionSlots
<1> HIDE DEF lo, hi
<1>3. Row(s) = [k \in 1 .. (hi - lo) |-> col_idx[lo + k - 1]]
  BY DEF Row, lo, hi
<1>4. \A k \in 1 .. (hi - lo) : lo + k - 1 \in Slot /\ lo <= lo + k - 1 /\ lo + k - 1 < hi
  BY <1>1, <1>2 DEF Slot
<1>5. Row(s) \in Seq(Node) /\ DOMAIN Row(s) = 1 .. (hi - lo)
  <2>1. \A k \in 1 .. (hi - lo) : col_idx[lo + k - 1] \in Node
    BY <1>4 DEF TypeOK
  <2>2. hi - lo \in Nat
    BY <1>2
  <2> QED BY <1>3, <2>1, <2>2
<1>6. Ascending(Row(s))
  <2> SUFFICES ASSUME NEW j \in 1 .. (hi - lo), NEW k \in 1 .. (hi - lo), j < k
               PROVE  col_idx[lo + j - 1] <= col_idx[lo + k - 1]
    BY <1>3, <1>5 DEF Ascending
  <2>1. lo + j - 1 < lo + k - 1
    BY <1>2
  <2> QED BY <1>4, <2>1 DEF RowsAscending, lo, hi
<1>7. ASSUME NEW d \in Node
      PROVE  /\ Occurrences(Row(s), d) = Cardinality(SlotsOf(<<s, d>>))
             /\ (\E k \in DOMAIN Row(s) : Row(s)[k] = d)
                  <=> Cardinality(SlotsOf(<<s, d>>)) > 0
  <2> DEFINE S == {k \in DOMAIN Row(s) : Row(s)[k] = d}
             T == SlotsOf(<<s, d>>)
             f == [k \in S |-> lo + k - 1]
  <2>1. T = {p \in Slot : lo <= p /\ p < hi /\ col_idx[p] = d}
    BY DEF SlotsOf, lo, hi
  <2> HIDE DEF T
  <2>2. f \in [S -> T]
    BY <1>3, <1>4, <1>5, <2>1
  <2>3. \A x, y \in S : f[x] = f[y] => x = y
    BY <1>2, <1>5
  <2>4. \A t \in T : \E x \in S : f[x] = t
    <3> SUFFICES ASSUME NEW t \in T PROVE \E x \in S : lo + x - 1 = t
      OBVIOUS
    <3>1. t - lo + 1 \in 1 .. (hi - lo) /\ lo + (t - lo + 1) - 1 = t
      BY <1>2, <2>1 DEF Slot
    <3> QED BY <1>3, <1>5, <2>1, <3>1
  <2>5. IsFiniteSet(S)
    BY <1>5, OccurrencesType
  <2>6. (\E k \in DOMAIN Row(s) : Row(s)[k] = d) <=> S # {}
    OBVIOUS
  <2> HIDE DEF S, f
  <2>7. IsFiniteSet(T) /\ Cardinality(T) = Cardinality(S)
    BY <2>2, <2>3, <2>4, <2>5, SameCardinality
  <2>8. S # {} <=> Cardinality(S) > 0
    BY <2>5, FS_EmptySet, FS_CardinalityType
  <2>9. Occurrences(Row(s), d) = Cardinality(S)
    BY DEF Occurrences, S
  <2> QED BY <2>6, <2>7, <2>8, <2>9 DEF T
<1> QED BY <1>5, <1>6, <1>7
-------------------------------------------------------------------------------
(* The step simulation                                                     *)

(* The refinement mapping counts the slots of each edge. *)
LEMMA StoreCopiesIs ==
  /\ StoreCopies = [e \in Edge |-> Cardinality(SlotsOf(e))]
  /\ StoreCopies' = [e \in Edge |-> Cardinality(SlotsOf(e)')]
BY DEF StoreCopies, SlotsOf

(* The abstract store and the graph mean the same by shared names. *)
LEMMA StoreNames ==
  /\ Store!Node = Node
  /\ Store!Edge = Edge
  /\ \A seq, x : Store!Occurrences(seq, x) = Occurrences(seq, x)
  /\ \A seq : Store!Ascending(seq) <=> Ascending(seq)
<1>1. Store!Node = Node
  BY DEF Store!Node, Node
<1>2. Store!Edge = Edge
  BY <1>1 DEF Store!Edge, Edge
<1>3. ASSUME NEW seq, NEW x
      PROVE  Store!Occurrences(seq, x) = Occurrences(seq, x)
  BY DEF Store!Occurrences, Occurrences, Store!Cardinality, Cardinality
<1>4. \A seq : Store!Ascending(seq) <=> Ascending(seq)
  BY DEF Store!Ascending, Ascending
<1> QED BY <1>1, <1>2, <1>3, <1>4

(* A step that leaves the graph alone leaves the abstract store alone. *)
LEMMA SameGraphSameStore ==
  ASSUME UNCHANGED graph
  PROVE  UNCHANGED <<StoreCopies, edge_count, generation>>
BY DEF graph, StoreCopies

(* init gives the empty store. *)
LEMMA InitRefines == Init => Store!Init
<1> SUFFICES ASSUME Init PROVE Store!Init
  OBVIOUS
<1>1. ASSUME NEW e \in Edge PROVE Cardinality(SlotsOf(e)) = 0
  <2>1. e[1] \in 0 .. NodeCap /\ e[1] + 1 \in 0 .. NodeCap
    BY <1>1, EdgeType, CapacityAssumption DEF Node
  <2>2. SlotsOf(e) = {}
    BY <2>1, CapacityAssumption DEF Init, SlotsOf, Slot
  <2> QED BY <2>2, FS_EmptySet
<1>2. StoreCopies = [e \in Store!Edge |-> 0]
  BY <1>1, StoreCopiesIs, StoreNames
<1> QED BY <1>2 DEF Init, Store!Init

(* A refused batch is refused by the store. *)
LEMMA RefusalRefines ==
  ASSUME IInv, NEW batch \in Batches, RefuseCapacity(batch) \/ RefuseNode(batch)
  PROVE  Store!Refuse(batch)
<1>1. UNCHANGED <<StoreCopies, edge_count, generation>> /\ batch # <<>>
  BY SameGraphSameStore DEF RefuseCapacity, RefuseNode
<1>2. CASE RefuseCapacity(batch)
  BY <1>1, <1>2 DEF RefuseCapacity, Store!Refuse, Store!Returned, Return
<1>3. CASE RefuseNode(batch)
  <2>1. PICK k \in DOMAIN batch : batch[k][1] >= NodeCap \/ batch[k][2] >= NodeCap
    BY <1>3 DEF RefuseNode
  <2>2. batch[k] \in Edge => batch[k][1] < NodeCap /\ batch[k][2] < NodeCap
    BY EdgeType, CapacityAssumption DEF Node
  <2>3. batch[k] \in Nat \X Nat
    BY BatchAssumption, ElementOfSeq, LenProperties
  <2>4. batch[k] \notin Store!Edge
    BY <2>1, <2>2, <2>3, StoreNames, CapacityAssumption
  <2>5. ~ (edge_count + Len(batch) > EdgeCap)
    <3>1. edge_count + Len(batch) <= EdgeCap
      BY <1>3 DEF RefuseNode
    <3>2. edge_count \in Nat /\ EdgeCap \in Nat /\ Len(batch) \in Nat
      BY BatchAssumption, LenProperties, CapacityAssumption DEF IInv, TypeOK
    <3> QED BY <3>1, <3>2
  <2> QED BY <1>1, <1>3, <2>4, <2>5 DEF RefuseNode, Store!Refuse, Store!Returned, Return
<1> QED BY <1>2, <1>3

(* A rebuild is an AddAll of the store. *)
LEMMA RebuildRefines ==
  ASSUME IInv, NEW batch \in Batches, Rebuild(batch)
  PROVE  Store!AddAll(batch)
<1>1. /\ batch \in Seq(Edge)
      /\ edge_count' = edge_count + Len(batch)
      /\ generation' = generation + 1
      /\ ret' = [op |-> "add", arg |-> batch, status |-> "ok", value |-> Len(batch)]
  BY RebuildEffect DEF IInv
<1>2. batch # <<>> /\ edge_count + Len(batch) <= EdgeCap
  BY DEF Rebuild
<1>3. \A k \in DOMAIN batch : batch[k] \in Store!Edge
  BY <1>1, StoreNames, LenProperties, ElementOfSeq
<1>4. \A e \in Edge : Cardinality(SlotsOf(e)') = Cardinality(SlotsOf(e)) + Occurrences(batch, e)
  BY RebuildAddsBatch DEF IInv
<1>5. StoreCopies' = [e \in Store!Edge |-> StoreCopies[e] + Store!Occurrences(batch, e)]
  BY <1>4, StoreCopiesIs, StoreNames
<1>6. Store!Returned("add", batch, "ok") /\ ret'.value = Len(batch)
  BY <1>1 DEF Store!Returned
<1> QED BY <1>1, <1>2, <1>3, <1>5, <1>6 DEF Store!AddAll

(* get_following answers what the store does. *)
LEMMA FollowingRefines ==
  ASSUME IInv, NEW n \in 0 .. NodeCap, GetFollowing(n)
  PROVE  Store!Following(n)
<1>1. UNCHANGED <<StoreCopies, edge_count, generation>>
  BY SameGraphSameStore DEF GetFollowing
<1>2. n < NodeCap <=> n \in Node
  BY CapacityAssumption DEF Node
<1>3. CASE n \in Node
  <2>1. ret' = [op |-> "following", arg |-> n, status |-> "ok", value |-> Row(n)]
    BY <1>2, <1>3 DEF GetFollowing, Return
  <2>2. ret'.value = Row(n) /\ Store!Returned("following", n, "ok")
    BY <2>1 DEF Store!Returned
  <2>3. Ascending(Row(n)) /\ \A d \in Node : Occurrences(Row(n), d) = StoreCopies[<<n, d>>]
    BY <1>3, RowLists, StoreCopiesIs, EdgeType DEF IInv
  <2> QED BY <1>1, <1>3, <2>2, <2>3, StoreNames DEF Store!Following
<1>4. CASE n \notin Node
  BY <1>1, <1>2, <1>4, StoreNames DEF GetFollowing, Return, Store!Following, Store!Returned
<1> QED BY <1>3, <1>4

(* edge_exists answers whether the store holds a copy. *)
LEMMA ExistsAnswersAre ==
  ASSUME IInv, NEW s \in 0 .. NodeCap, NEW d \in 0 .. NodeCap
  PROVE  ExistsAnswers(s, d) = {(<<s, d>> \in Edge /\ StoreCopies[<<s, d>>] > 0)}
<1>1. (s < NodeCap <=> s \in Node) /\ (d < NodeCap <=> d \in Node)
  BY CapacityAssumption DEF Node
<1>2. <<s, d>> \in Edge <=> s \in Node /\ d \in Node
  BY DEF Edge
<1>3. CASE s \in Node
  <2>1. Ascending(Row(s)) /\ Row(s) \in Seq(Node)
    BY <1>3, RowLists DEF IInv
  <2>2. (\E k \in DOMAIN Row(s) : Row(s)[k] = d)
          <=> <<s, d>> \in Edge /\ StoreCopies[<<s, d>>] > 0
    <3>1. CASE d \in Node
      <4>1. (\E k \in DOMAIN Row(s) : Row(s)[k] = d) <=> Cardinality(SlotsOf(<<s, d>>)) > 0
        BY <1>3, <3>1, RowLists DEF IInv
      <4>2. <<s, d>> \in Edge /\ StoreCopies[<<s, d>>] = Cardinality(SlotsOf(<<s, d>>))
        BY <1>2, <1>3, <3>1, StoreCopiesIs
      <4> QED BY <4>1, <4>2
    <3>2. CASE d \notin Node
      BY <1>2, <2>1, <3>2, LenProperties, ElementOfSeq
    <3> QED BY <3>1, <3>2
  <2> QED BY <1>1, <1>3, <2>1, <2>2 DEF ExistsAnswers, BinarySearch
<1>4. CASE s \notin Node
  BY <1>1, <1>2, <1>4 DEF ExistsAnswers
<1> QED BY <1>3, <1>4

(* The binary search of edge_exists finds what the store holds. *)
LEMMA ExistsRefines ==
  ASSUME IInv, NEW s \in 0 .. NodeCap, NEW d \in 0 .. NodeCap, EdgeExists(s, d)
  PROVE  Store!Exists(s, d)
<1>1. UNCHANGED <<StoreCopies, edge_count, generation>>
  BY SameGraphSameStore DEF EdgeExists
<1>2. PICK found \in ExistsAnswers(s, d) :
        ret' = [op |-> "exists", arg |-> <<s, d>>, status |-> "ok", value |-> found]
  BY DEF EdgeExists, Return
<1>3. found = (<<s, d>> \in Edge /\ StoreCopies[<<s, d>>] > 0)
  BY <1>2, ExistsAnswersAre
<1>4. ret'.value = found /\ Store!Returned("exists", <<s, d>>, "ok")
  BY <1>2 DEF Store!Returned
<1> QED BY <1>1, <1>3, <1>4, StoreNames DEF Store!Exists

(* The scan of the sources below node_count finds every source. *)
LEMMA FollowersRefines ==
  ASSUME IInv, NEW n \in 0 .. NodeCap, GetFollowers(n)
  PROVE  Store!Followers(n)
<1>1. UNCHANGED <<StoreCopies, edge_count, generation>>
  BY SameGraphSameStore DEF GetFollowers
<1>2. n < NodeCap <=> n \in Node
  BY CapacityAssumption DEF Node
<1>3. CASE n \in Node
  <2>1. PICK found \in [Scanned -> BOOLEAN] :
          /\ \A s \in Scanned : found[s] \in ExistsAnswers(s, n)
          /\ ret' = [op |-> "followers", arg |-> n, status |-> "ok",
                     value |-> {s \in Scanned : found[s]}]
    BY <1>2, <1>3 DEF GetFollowers, Return
  <2>2. \A s \in Node : s \in 0 .. NodeCap /\ <<s, n>> \in Edge
    BY <1>3, EdgeType, CapacityAssumption DEF Node
  <2>3. \A s \in Scanned : found[s] = (StoreCopies[<<s, n>>] > 0)
    BY <2>1, <2>2, ExistsAnswersAre DEF Scanned
  <2>4. ASSUME NEW s \in Node, s \notin Scanned PROVE ~ (StoreCopies[<<s, n>>] > 0)
    <3>1. s >= node_count /\ s \in 0 .. NodeCap /\ s + 1 \in 0 .. NodeCap
      BY <2>4, CapacityAssumption DEF Scanned, Node, IInv, TypeOK
    <3>2. row_ptr[s] = row_ptr[s + 1] /\ row_ptr[s] \in Nat
      BY <2>4, <3>1, CapacityAssumption DEF IInv, NodeCountCoversSources, TypeOK
    <3>3. SlotsOf(<<s, n>>) = {}
      BY <3>2, CapacityAssumption DEF SlotsOf, Slot
    <3>4. StoreCopies[<<s, n>>] = 0
      BY <2>2, <3>3, StoreCopiesIs, FS_EmptySet
    <3> QED BY <3>4
  <2>5. {s \in Scanned : found[s]} = {s \in Node : StoreCopies[<<s, n>>] > 0}
    BY <2>3, <2>4 DEF Scanned
  <2>6. /\ ret'.value = {s \in Node : StoreCopies[<<s, n>>] > 0}
        /\ Store!Returned("followers", n, "ok")
    BY <2>1, <2>5 DEF Store!Returned
  <2> QED BY <1>1, <1>3, <2>6, StoreNames DEF Store!Followers
<1>4. CASE n \notin Node
  BY <1>1, <1>2, <1>4, StoreNames DEF GetFollowers, Return, Store!Followers, Store!Returned
<1> QED BY <1>3, <1>4

(* Every call maps to a call of the store, or to a stutter. *)
LEMMA NextRefines == IInv /\ [Next]_vars => [Store!Next]_(Store!vars)
<1> SUFFICES ASSUME IInv, [Next]_vars PROVE [Store!Next]_(Store!vars)
  OBVIOUS
<1>1. ASSUME NEW batch \in Batches, AddNothing(batch) PROVE Store!AddNothing(batch)
  <2>1. UNCHANGED <<StoreCopies, edge_count, generation>>
    BY <1>1, SameGraphSameStore DEF AddNothing
  <2>2. batch = <<>> /\ ret'.value = 0 /\ Store!Returned("add", batch, "ok")
    BY <1>1 DEF AddNothing, Return, Store!Returned
  <2> QED BY <2>1, <2>2 DEF Store!AddNothing
<1>2. ASSUME NEW batch \in Batches, AddEdgeBatch(batch) PROVE Store!Next
  BY <1>1, <1>2, RefusalRefines, RebuildRefines DEF AddEdgeBatch, Store!Next
<1>3. ASSUME NEW n \in 0 .. NodeCap, GetFollowing(n) \/ GetFollowers(n) PROVE Store!Next
  BY <1>3, FollowingRefines, FollowersRefines DEF Store!Next
<1>4. ASSUME NEW s \in 0 .. NodeCap, NEW d \in 0 .. NodeCap, EdgeExists(s, d)
      PROVE  Store!Next
  BY <1>4, ExistsRefines DEF Store!Next
<1>5. CASE UNCHANGED vars
  <2>1. UNCHANGED graph /\ UNCHANGED ret
    BY <1>5 DEF vars, graph
  <2> QED BY <2>1, SameGraphSameStore DEF Store!vars
<1> QED BY <1>2, <1>3, <1>4, <1>5 DEF Next

(* The CSR graph implements the edge store: no batch loses, invents or     *)
(* moves an edge, no query misses one, an error changes nothing.           *)
THEOREM CsrImplementsEdgeStore == Spec => ImplementsEdgeStore
<1>1. Spec => []IInv
  BY CsrInvariant
<1>2. []IInv /\ [][Next]_vars => [][Store!Next]_(Store!vars)
  BY NextRefines, PTL
<1> QED BY <1>1, <1>2, InitRefines, PTL DEF Spec, ImplementsEdgeStore, Store!Spec

-------------------------------------------------------------------------------
(* The memory layout.                                                      *)

(* A number below a positive modulus is its own remainder. *)
LEMMA SmallModulo ==
  ASSUME NEW a \in Nat, NEW w \in Nat, a < w
  PROVE  a % w = a
OBVIOUS

(* No offset wraps when the bytes required fit a u32.                      *)
LEMMA OffsetsDoNotWrap ==
  /\ ColIdxOffset = HeaderBytes + 4 * (NodeCap + 1)
  /\ Watermark = RequiredBytes
  /\ ColIdxOffset \in Nat
<1> DEFINE r == (NodeCap + 1) * 4
           c == EdgeCap * 4
<1>1. /\ HeaderBytes \in Nat /\ Word \in Nat /\ r \in Nat /\ c \in Nat
      /\ HeaderBytes + r + c < Word
  BY LayoutFits, CapacityAssumption DEF RequiredBytes
<1>2. r % Word = r /\ c % Word = c
  <2> HIDE DEF r, c
  <2>1. r < Word /\ c < Word
    BY <1>1
  <2> QED BY <1>1, <2>1, SmallModulo
<1>3. (HeaderBytes + r) % Word = HeaderBytes + r
  <2> HIDE DEF r, c
  <2>1. HeaderBytes + r \in Nat /\ HeaderBytes + r < Word
    BY <1>1
  <2> QED BY <1>1, <2>1, SmallModulo
<1>4. (HeaderBytes + r + c) % Word = HeaderBytes + r + c
  <2> HIDE DEF r, c
  <2>1. HeaderBytes + r + c \in Nat
    BY <1>1
  <2> QED BY <1>1, <2>1, SmallModulo
<1>5. ColIdxOffset = HeaderBytes + r
  BY <1>2, <1>3 DEF ColIdxOffset
<1>6. Watermark = HeaderBytes + r + c
  BY <1>2, <1>4, <1>5 DEF Watermark
<1>7. r = 4 * (NodeCap + 1)
  BY CapacityAssumption
<1> QED BY <1>1, <1>5, <1>6, <1>7 DEF RequiredBytes

-------------------------------------------------------------------------------
(* The demo as a client.                                                   *)

LEMMA DrawnType ==
  ASSUME NEW batch \in Drawn
  PROVE  /\ batch \in Batches
         /\ batch \in Seq(Edge)
         /\ Len(batch) \in 0 .. BatchSize
<1>1. PICK n \in 0 .. BatchSize : batch \in [1 .. n -> {e \in Draws : e[1] # e[2]}]
  BY DEF Drawn
<1>2. n \in Nat
  BY <1>1, BenchmarkAssumption
<1>3. batch \in [1 .. n -> Edge]
  BY <1>1, DrawsAreEdges
<1>4. batch \in Seq(Edge) /\ Len(batch) = n
  BY <1>2, <1>3, SeqDef, LenProperties
<1> QED BY <1>1, <1>4, DrawnAreBatches

(* Every step of the demo is a call CsrGraph allows or leaves it alone.    *)
LEMMA BenchNextIsNext == [BenchNext]_benchVars => [Next]_vars
<1>1. ASSUME InsertBatch PROVE Next
  <2>1. PICK batch \in Drawn : AddEdgeBatch(batch)
    BY <1>1 DEF InsertBatch
  <2> QED BY <2>1, DrawnType DEF Next
<1> QED BY <1>1 DEF BenchNext, OpenCall, DetectHotNodes, benchVars

(* What a batch that fits returns, whether or not it is empty.             *)
LEMMA FittingBatch ==
  ASSUME IInv, NEW batch \in Drawn, AddEdgeBatch(batch),
         edge_count + Len(batch) <= EdgeCap
  PROVE  /\ ret'.status = "ok"
         /\ ret'.value = Len(batch)
         /\ edge_count' = edge_count + Len(batch)
<1>1. batch \in Batches /\ batch \in Seq(Edge) /\ Len(batch) \in Nat
  BY DrawnType
<1>2. edge_count \in Nat /\ EdgeCap \in Nat
  BY CapacityAssumption DEF IInv, TypeOK
<1>3. ~ RefuseCapacity(batch)
  BY <1>1, <1>2 DEF RefuseCapacity
<1>4. ~ RefuseNode(batch)
  <2>1. ASSUME NEW k \in DOMAIN batch PROVE ~ (batch[k][1] >= NodeCap \/ batch[k][2] >= NodeCap)
    <3>1. batch[k] \in Edge
      BY <1>1
    <3>2. batch[k][1] \in 0 .. (NodeCap - 1) /\ batch[k][2] \in 0 .. (NodeCap - 1)
      BY <3>1, EdgeType DEF Node
    <3> QED BY <3>2, CapacityAssumption
  <2> QED BY <2>1 DEF RefuseNode
<1>5. CASE AddNothing(batch)
  <2>1. batch = <<>> /\ edge_count' = edge_count
    BY <1>5 DEF AddNothing, graph
  <2>2. Len(batch) = 0
    BY <2>1
  <2> QED BY <1>2, <1>5, <2>1, <2>2 DEF AddNothing, Return
<1>6. CASE Rebuild(batch)
  BY <1>1, <1>6, RebuildEffect DEF IInv
<1> QED BY <1>3, <1>4, <1>5, <1>6 DEF AddEdgeBatch

-------------------------------------------------------------------------------
(* The invariant: the demo has used at most BatchSize slots per batch, so  *)
(* the next batch fits; node_count covers every source, so the scan that   *)
(* stops there misses no hot node.                                         *)
BenchIInv ==
  /\ IInv
  /\ stage \in {"open", "insert", "failed", "done"}
  /\ batches \in 0 .. BatchCount
  /\ total_inserted \in Nat
  /\ offsets = [row_ptr |-> HeaderBytes, col_idx |-> ColIdxOffset,
                watermark |-> Watermark]
  /\ BenchmarkAccounts
  /\ stage # "open" => edge_count <= batches * BatchSize
  /\ HotNodesFound

LEMMA BenchInitEstablishes == BenchInit => BenchIInv
<1> SUFFICES ASSUME BenchInit PROVE BenchIInv
  OBVIOUS
<1>1. edge_count = 0 /\ batches = 0 /\ total_inserted = 0
  BY DEF BenchInit, Init
<1>2. IInv
  BY InitEstablishesIInv DEF BenchInit
<1>3. batches \in 0 .. BatchCount /\ edge_count <= batches * BatchSize
  BY <1>1, BenchmarkAssumption
<1>4. BenchmarkAccounts /\ HotNodesFound
  BY <1>1 DEF BenchInit, BenchmarkAccounts, HotNodesFound
<1> QED BY <1>1, <1>2, <1>3, <1>4 DEF BenchInit, BenchIInv

(* The capacity left before a batch is at least BatchSize. *)
LEMMA RoomForABatch ==
  ASSUME BenchIInv, stage = "insert", batches < BatchCount
  PROVE  edge_count + BatchSize <= EdgeCap
<1>1. /\ batches \in Nat /\ BatchCount \in Nat /\ BatchSize \in Nat /\ EdgeCap \in Nat
      /\ edge_count \in Nat /\ batches + 1 <= BatchCount
      /\ edge_count <= batches * BatchSize
      /\ BatchCount * BatchSize <= EdgeCap
  BY BenchmarkAssumption, CapacityAssumption DEF BenchIInv, IInv, TypeOK
<1>2. (batches + 1) * BatchSize <= BatchCount * BatchSize
  BY <1>1
<1>3. (batches + 1) * BatchSize = batches * BatchSize + BatchSize
  BY <1>1
<1> QED BY <1>1, <1>2, <1>3

LEMMA BenchNextPreserves == BenchIInv /\ [BenchNext]_benchVars => BenchIInv'
<1> SUFFICES ASSUME BenchIInv, [BenchNext]_benchVars PROVE BenchIInv'
  OBVIOUS
<1>0. IInv'
  BY BenchNextIsNext, NextPreservesIInv DEF BenchIInv
<1>1. CASE OpenCall
  BY <1>0, <1>1 DEF OpenCall, BenchIInv, bench, BenchmarkAccounts, HotNodesFound
<1>2. CASE InsertBatch
  <2>1. PICK batch \in Drawn : AddEdgeBatch(batch)
    BY <1>2 DEF InsertBatch
  <2>2. /\ stage = "insert" /\ batches < BatchCount
        /\ offsets' = offsets
    BY <1>2 DEF InsertBatch
  <2>3. /\ edge_count \in Nat /\ Len(batch) \in Nat /\ BatchSize \in Nat
        /\ EdgeCap \in Nat /\ Len(batch) <= BatchSize
    BY DrawnType, BenchmarkAssumption, CapacityAssumption DEF BenchIInv, IInv, TypeOK
  <2>4. edge_count + Len(batch) <= EdgeCap
    BY <2>2, <2>3, RoomForABatch
  <2>5. /\ ret'.status = "ok" /\ ret'.value = Len(batch)
        /\ edge_count' = edge_count + Len(batch)
    BY <2>1, <2>4, FittingBatch DEF BenchIInv
  <2>6. /\ batches' = batches + 1
        /\ total_inserted' = total_inserted + Len(batch)
        /\ stage' = "insert"
    BY <1>2, <2>2, <2>5 DEF InsertBatch, Inserted
  <2>7. total_inserted = edge_count /\ edge_count <= batches * BatchSize
    BY <2>2 DEF BenchIInv, BenchmarkAccounts
  <2>8. batches \in Nat /\ BatchCount \in Nat
    BY BenchmarkAssumption DEF BenchIInv
  <2>9. batches' \in 0 .. BatchCount /\ total_inserted' = edge_count'
    BY <2>2, <2>5, <2>6, <2>7, <2>8
  <2>10. edge_count' <= batches' * BatchSize
    <3>1. (batches + 1) * BatchSize = batches * BatchSize + BatchSize
      BY <2>3, <2>8
    <3>2. batches * BatchSize \in Nat
      BY <2>3, <2>8
    <3>3. edge_count + Len(batch) <= batches * BatchSize + BatchSize
      BY <2>3, <2>7, <3>2
    <3> QED BY <2>5, <2>6, <3>1, <3>3
  <2>11. total_inserted' \in Nat
    BY <2>3, <2>5, <2>9
  <2>12. offsets' = [row_ptr |-> HeaderBytes, col_idx |-> ColIdxOffset,
                     watermark |-> Watermark]
    BY <2>2 DEF BenchIInv
  <2> QED BY <1>0, <2>6, <2>9, <2>10, <2>11, <2>12
          DEF BenchIInv, BenchmarkAccounts, HotNodesFound
<1>3. CASE DetectHotNodes
  <2>1. PICK list \in UNION {[1 .. n -> Hot] : n \in 0 .. Cardinality(Hot)} :
          Ranking(list) /\ hot_nodes' = list
    BY <1>3 DEF DetectHotNodes
  <2>2. /\ UNCHANGED <<vars, batches, total_inserted, offsets>>
        /\ stage = "insert" /\ stage' = "done"
    BY <1>3 DEF DetectHotNodes
  <2>3. Hot = {n \in Node : OutDegree(n) >= HotThreshold}
    <3>1. ASSUME NEW n \in Node, OutDegree(n) >= HotThreshold PROVE n < node_count
      <4>1. n \in Nat /\ node_count \in Nat /\ n \in 0 .. NodeCap
        BY CapacityAssumption DEF Node, BenchIInv, IInv, TypeOK
      <4>2. row_ptr[n] \in Nat
        BY <4>1, CapacityAssumption DEF BenchIInv, IInv, TypeOK
      <4>3. ASSUME n >= node_count PROVE FALSE
        <5>1. row_ptr[n + 1] = row_ptr[n]
          BY <4>3 DEF BenchIInv, IInv, NodeCountCoversSources
        <5>2. OutDegree(n) = 0
          BY <4>2, <5>1 DEF OutDegree
        <5> QED BY <3>1, <5>2, BenchmarkAssumption
      <4> QED BY <4>1, <4>3
    <3> QED BY <3>1 DEF Hot
  <2>4. row_ptr' = row_ptr
    BY <2>2 DEF vars
  <2>5. \A n \in Node : OutDegree(n)' = OutDegree(n)
    BY <2>4 DEF OutDegree
  <2>6. {hot_nodes'[k] : k \in DOMAIN hot_nodes'} = Hot
    BY <2>1 DEF Ranking
  <2>7. \A k \in DOMAIN hot_nodes' : hot_nodes'[k] \in Node
    BY <2>6 DEF Hot
  <2>8. \A j, k \in DOMAIN hot_nodes' :
          j < k => OutDegree(hot_nodes'[j]) >= OutDegree(hot_nodes'[k])
    BY <2>1 DEF Ranking
  <2>9. DOMAIN hot_nodes' \subseteq Nat
    BY <2>1
  <2>10. HotNodesFound'
    <3>1. {hot_nodes'[k] : k \in DOMAIN hot_nodes'} =
            {n \in Node : OutDegree(n)' >= HotThreshold}
      BY <2>3, <2>5, <2>6
    <3>2. ASSUME NEW j \in DOMAIN hot_nodes', NEW k \in DOMAIN hot_nodes',
                 j <= TopCount, TopCount < k
          PROVE  (OutDegree(hot_nodes[j]) >= OutDegree(hot_nodes[k]))'
      <4>1. j < k
        <5>1. j \in Nat /\ k \in Nat /\ TopCount \in Nat
          BY <2>9, <3>2, BenchmarkAssumption
        <5> QED BY <3>2, <5>1
      <4> QED BY <2>4, <2>8, <4>1 DEF OutDegree
    <3> QED BY <3>1, <3>2 DEF HotNodesFound
  <2>11. BenchmarkAccounts' /\ edge_count' = edge_count
    BY <2>2 DEF BenchIInv, BenchmarkAccounts, vars
  <2> QED BY <1>0, <2>2, <2>10, <2>11 DEF BenchIInv
<1>4. CASE UNCHANGED benchVars
  BY <1>0, <1>4 DEF benchVars, vars, bench, BenchIInv, BenchmarkAccounts, HotNodesFound,
                    OutDegree
<1> QED BY <1>1, <1>2, <1>3, <1>4 DEF BenchNext

LEMMA BenchInvariant == BenchSpec => []BenchIInv
BY BenchInitEstablishes, BenchNextPreserves, PTL DEF BenchSpec

(* The demo meets no error and prints the number of edges stored, for      *)
(* every capacity that holds its batches.                                  *)
THEOREM DemoAccounts == BenchSpec => []BenchmarkAccounts
BY BenchInvariant, PTL DEF BenchIInv

(* The scan finds exactly the hot nodes, greatest degrees first.           *)
THEOREM DemoFindsHotNodes == BenchSpec => []HotNodesFound
BY BenchInvariant, PTL DEF BenchIInv

(* No slot that holds an edge lies outside the memory or inside row_ptr,   *)
(* for every capacity whose bytes fit a u32.                               *)
THEOREM SlotsStayInMemory == BenchSpec => []SlotsInMemory
<1>1. ASSUME BenchIInv PROVE SlotsInMemory
  <2>1. /\ NodeCap \in Nat /\ EdgeCap \in Nat /\ HeaderBytes \in Nat /\ MemLen \in Nat
        /\ edge_count \in Nat /\ edge_count <= EdgeCap
        /\ HeaderBytes + (NodeCap + 1) * 4 + EdgeCap * 4 <= MemLen
    BY <1>1, LayoutFits, CapacityAssumption DEF RequiredBytes, BenchIInv, IInv, TypeOK
  <2>2. offsets.row_ptr = HeaderBytes /\ offsets.col_idx = HeaderBytes + 4 * (NodeCap + 1)
    BY <1>1, OffsetsDoNotWrap DEF BenchIInv
  <2> SUFFICES ASSUME NEW p \in 0 .. (edge_count - 1)
               PROVE  /\ offsets.col_idx + 4 * p + 4 <= MemLen
                      /\ offsets.row_ptr + 4 * NodeCap + 4 <= offsets.col_idx + 4 * p
    BY DEF SlotsInMemory
  <2> QED BY <2>1, <2>2
<1> QED BY <1>1, BenchInvariant, PTL

(* Every behaviour of the partition under the demo or an open client is    *)
(* a behaviour of the abstract edge store.                                 *)
THEOREM ClientsImplementEdgeStore == BenchSpec => ImplementsEdgeStore
<1>1. BenchSpec => Spec
  BY BenchNextIsNext, PTL DEF BenchSpec, BenchInit, Spec
<1> QED BY <1>1, CsrImplementsEdgeStore
===============================================================================
