------------------------------ MODULE CsrGraph ------------------------------
(***************************************************************************)
(* The CSR graph of lesson 2 (src/csr_graph.rs).  A CsrGraph is one region *)
(* of memory: a header, row_ptr[0..node_capacity] and                      *)
(* col_idx[0..edge_capacity-1].  Every batch rebuilds the whole structure: *)
(* collect the old edges row by row, append the new, sort, count degrees,  *)
(* prefix-sum them into row_ptr, scatter the targets into col_idx.         *)
(*                                                                         *)
(* The borrow checker makes add_edge_batch (&mut self) exclusive, so every *)
(* call is one atomic action.  The magic number, which only a write from   *)
(* outside could change, and the bump watermark, written once by init, are *)
(* left out.  Counters are natural numbers: edge_count stays below         *)
(* edge_capacity, a u32, and generation is a u64.                          *)
(***************************************************************************)
EXTENDS Naturals, Sequences, FiniteSets

CONSTANTS NodeCap,   \* hdr.node_capacity
          EdgeCap,   \* hdr.edge_capacity
          Batches    \* the slices callers pass to add_edge_batch

ASSUME CapacityAssumption == NodeCap \in Nat \ {0} /\ EdgeCap \in Nat

ASSUME BatchAssumption == Batches \subseteq Seq(Nat \X Nat)

VARIABLES node_count, edge_count, row_ptr, col_idx, generation,
          ret   \* the call made last and what it returned

graph == <<node_count, edge_count, row_ptr, col_idx, generation>>
vars == <<node_count, edge_count, row_ptr, col_idx, generation, ret>>

Node == 0 .. (NodeCap - 1)
Edge == Node \X Node
Slot == 0 .. (EdgeCap - 1)

Status == {"ok", "edge_capacity", "node_capacity", "node_id", "corrupted"}

Return(op, arg, status, value) ==
  ret' = [op |-> op, arg |-> arg, status |-> status, value |-> value]

-------------------------------------------------------------------------------
(* init zeroes row_ptr only: col_idx keeps whatever the memory held.       *)
Init ==
  /\ node_count = 0
  /\ edge_count = 0
  /\ row_ptr = [i \in 0 .. NodeCap |-> 0]
  /\ \E old \in Node : col_idx = [p \in Slot |-> old]
  /\ generation = 0
  /\ ret = [op |-> "init", arg |-> <<>>, status |-> "ok", value |-> 0]

-------------------------------------------------------------------------------
(* The steps of a rebuild.                                                 *)

(* The collecting loop refuses a row that ends past edge_count. *)
RowsInRange == \A s \in Node : row_ptr[s + 1] <= edge_count

(* The row whose range holds slot p. *)
RowOf(p) == CHOOSE s \in Node : row_ptr[s] <= p /\ p < row_ptr[s + 1]

(* The rows read one after the other cover slots 0 .. row_ptr[NodeCap]-1. *)
ExistingEdges ==
  [k \in 1 .. row_ptr[NodeCap] |-> <<RowOf(k - 1), col_idx[k - 1]>>]

Precedes(e, f) == e[1] < f[1] \/ (e[1] = f[1] /\ e[2] < f[2])

(* How many edges of all come before its k-th in ascending order. *)
Rank(all, k) ==
  Cardinality({j \in DOMAIN all :
                 Precedes(all[j], all[k]) \/ (all[j] = all[k] /\ j < k)})

(* Mutant of Sorted: the sort is forgotten. *)
SortedNotAtAll(all) == all

Sorted(all) ==
  [r \in 1 .. Len(all) |-> all[CHOOSE k \in DOMAIN all : Rank(all, k) = r - 1]]

(* hdr.node_count: one more than the greatest source. *)
NodeCount(all) ==
  CHOOSE n \in 1 .. NodeCap :
    /\ \A k \in DOMAIN all : all[k][1] < n
    /\ \E k \in DOMAIN all : all[k][1] = n - 1

(* Mutant of RowPtr: an inclusive prefix sum. *)
RowPtrInclusive(all) ==
  [i \in 0 .. NodeCap |-> Cardinality({k \in DOMAIN all : all[k][1] <= i})]

(* Degree counts and their exclusive prefix sums. *)
RowPtr(all) ==
  [i \in 0 .. NodeCap |-> Cardinality({k \in DOMAIN all : all[k][1] < i})]

(* Mutant of Cursor: advanced before it is used. *)
CursorPreIncremented(all, k) ==
  RowPtr(all)[all[k][1]] + Cardinality({j \in 1 .. k : all[j][1] = all[k][1]})

(* The cursor of the k-th edge's row when the scatter loop reaches it. *)
Cursor(all, k) ==
  RowPtr(all)[all[k][1]] + Cardinality({j \in 1 .. (k - 1) : all[j][1] = all[k][1]})

ScatterInRange(all) == \A k \in DOMAIN all : Cursor(all, k) < EdgeCap

(* The loop stops at the first edge whose cursor is out of capacity. *)
Scattered(all) == {k \in DOMAIN all : \A j \in 1 .. k : Cursor(all, j) < EdgeCap}

ColIdx(all) ==
  [p \in Slot |->
     IF \E k \in Scattered(all) : Cursor(all, k) = p
     THEN all[CHOOSE k \in Scattered(all) : Cursor(all, k) = p][2]
     ELSE col_idx[p]]

-------------------------------------------------------------------------------
(* add_edge_batch, in the order of its checks.                             *)

AddNothing(batch) ==
  /\ batch = <<>>
  /\ Return("add", batch, "ok", 0)
  /\ UNCHANGED graph

(* Mutant of RefuseCapacity: the last free slot is never used. *)
RefuseCapacityEarly(batch) ==
  /\ batch # <<>>
  /\ edge_count + Len(batch) >= EdgeCap
  /\ Return("add", batch, "edge_capacity", 0)
  /\ UNCHANGED graph

RefuseCapacity(batch) ==
  /\ batch # <<>>
  /\ edge_count + Len(batch) > EdgeCap
  /\ Return("add", batch, "edge_capacity", 0)
  /\ UNCHANGED graph

RefuseNode(batch) ==
  /\ batch # <<>>
  /\ edge_count + Len(batch) <= EdgeCap
  /\ \E k \in DOMAIN batch : batch[k][1] >= NodeCap \/ batch[k][2] >= NodeCap
  /\ Return("add", batch, "node_capacity", 0)
  /\ UNCHANGED graph

(* The two late errors leave the graph as it is (the collecting loop) or   *)
(* half rebuilt (the scatter loop): header counts and rows are new, the    *)
(* edge count and the generation are not.                                  *)
Rebuild(batch) ==
  LET all == Sorted(ExistingEdges \o batch) IN
  /\ batch # <<>>
  /\ edge_count + Len(batch) <= EdgeCap
  /\ \A k \in DOMAIN batch : batch[k][1] < NodeCap /\ batch[k][2] < NodeCap
  /\ IF RowsInRange
     THEN /\ node_count' = NodeCount(all)
          /\ row_ptr' = RowPtr(all)
          /\ col_idx' = ColIdx(all)
          /\ edge_count' = IF ScatterInRange(all) THEN Len(all) ELSE edge_count
          /\ generation' = IF ScatterInRange(all) THEN generation + 1 ELSE generation
          /\ IF ScatterInRange(all)
             THEN Return("add", batch, "ok", Len(batch))
             ELSE Return("add", batch, "corrupted", 0)
     ELSE /\ Return("add", batch, "corrupted", 0)
          /\ UNCHANGED graph

AddEdgeBatch(batch) ==
  AddNothing(batch) \/ RefuseCapacity(batch) \/ RefuseNode(batch) \/ Rebuild(batch)

-------------------------------------------------------------------------------
(* Queries.                                                                *)

Row(n) == [k \in 1 .. (row_ptr[n + 1] - row_ptr[n]) |-> col_idx[row_ptr[n] + k - 1]]

GetFollowing(n) ==
  /\ IF n < NodeCap
     THEN Return("following", n, "ok", Row(n))
     ELSE Return("following", n, "node_id", <<>>)
  /\ UNCHANGED graph

Ascending(seq) == \A j, k \in DOMAIN seq : j < k => seq[j] <= seq[k]

(* slice::binary_search decides membership of a sorted slice; of a slice   *)
(* that is not sorted its answer is unspecified.                           *)
BinarySearch(seq, x) ==
  IF Ascending(seq) THEN {\E k \in DOMAIN seq : seq[k] = x} ELSE BOOLEAN

ExistsAnswers(s, d) == IF s < NodeCap THEN BinarySearch(Row(s), d) ELSE {FALSE}

EdgeExists(s, d) ==
  /\ \E found \in ExistsAnswers(s, d) : Return("exists", <<s, d>>, "ok", found)
  /\ UNCHANGED graph

(* The inbound scan asks edge_exists of every source below node_count. *)
Scanned == {s \in Node : s < node_count}

GetFollowers(n) ==
  /\ IF n < NodeCap
     THEN \E found \in [Scanned -> BOOLEAN] :
            /\ \A s \in Scanned : found[s] \in ExistsAnswers(s, n)
            /\ Return("followers", n, "ok", {s \in Scanned : found[s]})
     ELSE Return("followers", n, "node_id", {})
  /\ UNCHANGED graph

Next ==
  \/ \E batch \in Batches : AddEdgeBatch(batch)
  \/ \E n \in 0 .. NodeCap : GetFollowing(n) \/ GetFollowers(n)
  \/ \E s, d \in 0 .. NodeCap : EdgeExists(s, d)

Spec == Init /\ [][Next]_vars

-------------------------------------------------------------------------------
TypeOK ==
  /\ node_count \in 0 .. NodeCap
  /\ edge_count \in 0 .. EdgeCap
  /\ row_ptr \in [0 .. NodeCap -> 0 .. EdgeCap]
  /\ col_idx \in [Slot -> Node]
  /\ generation \in Nat
  /\ ret.status \in Status

(* The rows partition exactly the slots below edge_count: the offsets      *)
(* never decrease, the first is 0 and the last is edge_count.  The slices  *)
(* &col_idx[start..end] of get_following and of the collecting loop panic  *)
(* without it.                                                             *)
RowsPartitionSlots ==
  /\ row_ptr[0] = 0
  /\ row_ptr[NodeCap] = edge_count
  /\ \A i, j \in 0 .. NodeCap : i <= j => row_ptr[i] <= row_ptr[j]

(* No call ever returns one of the two late "corrupted CSR" errors: a      *)
(* graph built through the API never meets them, so no batch is ever half  *)
(* applied.                                                                *)
NeverCorrupted == ret.status # "corrupted"

(* Each row is ascending, duplicates included (edges.wit:19 "Returns       *)
(* sorted list"; the binary search of edge_exists relies on it).           *)
RowsAscending ==
  \A s \in Node : \A p, q \in Slot :
    row_ptr[s] <= p /\ p < q /\ q < row_ptr[s + 1] => col_idx[p] <= col_idx[q]

(* The follower scan reaches every source: no node at or above node_count  *)
(* has an outgoing edge.                                                   *)
NodeCountCoversSources ==
  \A s \in Node : s >= node_count => row_ptr[s] = row_ptr[s + 1]

-------------------------------------------------------------------------------
(* Refinement: copies[<<s, d>>] is the number of slots of row s holding d. *)

StoreCopies ==
  [e \in Edge |-> Cardinality({p \in Slot : /\ row_ptr[e[1]] <= p
                                            /\ p < row_ptr[e[1] + 1]
                                            /\ col_idx[p] = e[2]})]

Store == INSTANCE EdgeStore WITH copies <- StoreCopies, size <- edge_count

(* Every call of the CSR graph, rebuild and queries, does what the same    *)
(* call of the abstract edge store does: no batch loses, invents or moves  *)
(* an edge, no query misses one, and an error is a stutter of the store.   *)
ImplementsEdgeStore == Store!Spec

-------------------------------------------------------------------------------
(* What edges.wit says of two results, and the code does not do.           *)

(* edges.wit:13 "Returns edges actually inserted (may be < batch.len() at  *)
(* capacity)": a batch beyond the capacity is cut, not refused.            *)
AddInsertsWhatFits ==
  [][ret'.op = "add" /\ edge_count + Len(ret'.arg) > EdgeCap
       => ret'.status = "ok"]_vars

===============================================================================
