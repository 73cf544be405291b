--------------------------- MODULE GraphBenchmark ---------------------------
(***************************************************************************)
(* The partition of lesson 2 in use (src/main.rs), and where it lies in    *)
(* memory (init and required_bytes of src/csr_graph.rs).  A partition is   *)
(* handed either to a caller who may make any call, the open client of     *)
(* CsrGraph, or to the demo: it inserts BatchCount batches of randomly     *)
(* drawn edges, then scans the out-degrees for hot nodes.                  *)
(*                                                                         *)
(* init computes the offsets in u32 and checks the memory in usize: Word   *)
(* is 2^32 in the code, small here, and the assumption LayoutFits is what  *)
(* main's constants satisfy.                                               *)
(***************************************************************************)
EXTENDS CsrGraph

CONSTANTS HeaderBytes,   \* size of CsrHeader: 64
          Word,          \* values of a u32: 2^32
          MemLen,        \* bytes handed to init
          BatchCount,    \* BENCH_EDGES / BATCH_SIZE
          BatchSize,     \* BATCH_SIZE
          Draws,         \* the pairs the random generator may draw
          HotThreshold,  \* HOT_THRESHOLD
          TopCount       \* nodes printed

RequiredBytes == HeaderBytes + (NodeCap + 1) * 4 + EdgeCap * 4

ASSUME LayoutFits ==
  /\ HeaderBytes \in Nat \ {0} /\ Word \in Nat /\ MemLen \in Nat
  /\ RequiredBytes <= MemLen /\ RequiredBytes < Word

ASSUME BenchmarkAssumption ==
  /\ BatchCount \in Nat /\ BatchSize \in Nat /\ HotThreshold \in Nat \ {0}
  /\ TopCount \in Nat
  /\ BatchCount * BatchSize <= EdgeCap

ASSUME DrawsAreEdges == Draws \subseteq Edge

VARIABLES stage,           \* what the partition's owner does next
          batches,         \* batches inserted so far
          total_inserted,  \* the sum of what add_edge_batch returned
          hot_nodes,       \* the scan's result, sorted
          offsets          \* the three offsets of the header

bench == <<batches, total_inserted, hot_nodes>>
benchVars == <<vars, bench, stage, offsets>>

(* A batch: BatchSize draws, of which any number are self-loops, dropped.  *)
Drawn == UNION {[1 .. n -> {e \in Draws : e[1] # e[2]}] : n \in 0 .. BatchSize}

ASSUME DrawnAreBatches == Drawn \subseteq Batches

-------------------------------------------------------------------------------
(* Mutant of ColIdxOffset: row_ptr is taken to have node_cap entries.      *)
ColIdxOffsetShort == (HeaderBytes + ((NodeCap * 4) % Word)) % Word

ColIdxOffset == (HeaderBytes + (((NodeCap + 1) * 4) % Word)) % Word
Watermark == (ColIdxOffset + ((EdgeCap * 4) % Word)) % Word

BenchInit ==
  /\ Init
  /\ stage \in {"open", "insert"}
  /\ batches = 0
  /\ total_inserted = 0
  /\ hot_nodes = <<>>
  /\ offsets = [row_ptr |-> HeaderBytes, col_idx |-> ColIdxOffset,
                watermark |-> Watermark]

(* Mutant of Inserted: the self-loops filtered out are counted. *)
InsertedDraws == BatchSize

Inserted == ret'.value

(* One round of the insertion loop; an error of add_edge_batch ends main.  *)
InsertBatch ==
  /\ stage = "insert" /\ batches < BatchCount
  /\ \E batch \in Drawn : AddEdgeBatch(batch)
  /\ IF ret'.status = "ok"
     THEN /\ batches' = batches + 1
          /\ total_inserted' = total_inserted + Inserted
          /\ stage' = stage
     ELSE /\ stage' = "failed"
          /\ UNCHANGED <<batches, total_inserted>>
  /\ UNCHANGED <<hot_nodes, offsets>>

OutDegree(n) == row_ptr[n + 1] - row_ptr[n]

(* Mutant of Hot: the last source is not scanned. *)
HotButTheLast == {n \in Node : n + 1 < node_count /\ OutDegree(n) >= HotThreshold}

Hot == {n \in Node : n < node_count /\ OutDegree(n) >= HotThreshold}

(* sort_unstable_by_key: any descending order, ties as they fall. *)
Ranking(list) ==
  /\ Len(list) = Cardinality(Hot)
  /\ {list[k] : k \in DOMAIN list} = Hot
  /\ \A j, k \in DOMAIN list : j < k => OutDegree(list[j]) >= OutDegree(list[k])

DetectHotNodes ==
  /\ stage = "insert" /\ batches = BatchCount
  /\ stage' = "done"
  /\ \E list \in UNION {[1 .. n -> Hot] : n \in 0 .. Cardinality(Hot)} :
       Ranking(list) /\ hot_nodes' = list
  /\ UNCHANGED <<vars, batches, total_inserted, offsets>>

OpenCall == stage = "open" /\ Next /\ UNCHANGED <<bench, stage, offsets>>

BenchNext == OpenCall \/ InsertBatch \/ DetectHotNodes

BenchSpec == BenchInit /\ [][BenchNext]_benchVars

-------------------------------------------------------------------------------
(* The demo never meets an error, although self-loops make its batches     *)
(* vary in length, and the total it prints is the number of edges stored.  *)
BenchmarkAccounts ==
  /\ stage # "failed"
  /\ stage # "open" => total_inserted = edge_count

(* The scan, which stops at node_count, finds every hot node of the whole  *)
(* partition, and no node below the five printed beats one of them.        *)
HotNodesFound ==
  stage = "done" =>
    /\ {hot_nodes[k] : k \in DOMAIN hot_nodes} =
         {n \in Node : OutDegree(n) >= HotThreshold}
    /\ \A j, k \in DOMAIN hot_nodes :
         j <= TopCount /\ TopCount < k =>
           OutDegree(hot_nodes[j]) >= OutDegree(hot_nodes[k])

(* Every slot that holds an edge lies in the memory handed to init, above  *)
(* the last entry of row_ptr.                                              *)
SlotsInMemory ==
  \A p \in 0 .. (edge_count - 1) :
    /\ offsets.col_idx + 4 * p + 4 <= MemLen
    /\ offsets.row_ptr + 4 * NodeCap + 4 <= offsets.col_idx + 4 * p
===============================================================================
