------------------------------ MODULE MCGraphBfs ------------------------------
(***************************************************************************)
(* GraphBfs on two families of graphs: all well-formed graphs of four      *)
(* nodes and five edges with two edges out of node 0, where the shortest   *)
(* way to a node need not be the first one scanned, and graphs of two      *)
(* nodes and two edges with any row_ptr at all.                            *)
(***************************************************************************)
EXTENDS GraphBfs

Csr(n, nnz, row_ptrs, targets, arenas) ==
  [n_nodes : {n}, nnz : {nnz}, row_ptr : row_ptrs,
   col_idx : [0 .. nnz - 1 -> targets], in_arena : arenas]

AllInArena(nnz) == [e \in 0 .. nnz - 1 |-> TRUE]

MCWellFormed ==
  Csr(4, 5,
      {r \in [0 .. 4 -> 0 .. 5] :
         /\ r[0] = 0 /\ r[1] = 2 /\ r[4] = 5
         /\ \A n \in 0 .. 3 : r[n] <= r[n + 1]},
      0 .. 3,
      {AllInArena(5), [AllInArena(5) EXCEPT ![1] = FALSE]})

MCAnyRows ==
  Csr(2, 2, [0 .. 2 -> 0 .. 3], 0 .. 2, {AllInArena(2)})

MCGraphs == MCWellFormed \cup MCAnyRows
===============================================================================
