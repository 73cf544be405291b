------------------------------ MODULE EdgeStore ------------------------------
(***************************************************************************)
(* What a graph partition promises its callers (lesson 2, the interface    *)
(* edge-store of wit/edges.wit as far as src/csr_graph.rs provides it): a  *)
(* bounded multiset of directed edges that only grows, in whole batches,   *)
(* and queries whose answers are the multiset's.  Nothing here knows of    *)
(* rows, offsets or sorting; CsrGraph is shown to implement this module.   *)
(***************************************************************************)
EXTENDS Naturals, Sequences, FiniteSets

CONSTANTS NodeCap,   \* node IDs are 0 .. NodeCap - 1
          EdgeCap,   \* the most edges the partition may hold
          Batches    \* the batches a caller may pass to add-edges

VARIABLES copies,      \* copies[e]: how many times edge e was inserted
          size,        \* the number of edges inserted, with repetition
          generation,  \* batches that changed the store
          ret          \* what the last call returned

vars == <<copies, size, generation, ret>>

Node == 0 .. (NodeCap - 1)
Edge == Node \X Node

Occurrences(seq, x) == Cardinality({k \in DOMAIN seq : seq[k] = x})
Ascending(seq) == \A j, k \in DOMAIN seq : j < k => seq[j] <= seq[k]

Returned(op, arg, status) ==
  ret' = [op |-> op, arg |-> arg, status |-> status, value |-> ret'.value]

Init ==
  /\ copies = [e \in Edge |-> 0]
  /\ size = 0
  /\ generation = 0
  /\ ret = [op |-> "init", arg |-> <<>>, status |-> "ok", value |-> 0]

(* An empty batch is accepted and is no new generation. *)
AddNothing(batch) ==
  /\ batch = <<>>
  /\ Returned("add", batch, "ok")
  /\ ret'.value = 0
  /\ UNCHANGED <<copies, size, generation>>

(* A batch that does not fit or names an unknown node changes nothing. *)
Refuse(batch) ==
  /\ batch # <<>>
  /\ IF size + Len(batch) > EdgeCap
     THEN Returned("add", batch, "edge_capacity")
     ELSE /\ \E k \in DOMAIN batch : batch[k] \notin Edge
          /\ Returned("add", batch, "node_capacity")
  /\ UNCHANGED <<copies, size, generation>>

(* Every edge of the batch is inserted, in one step. *)
AddAll(batch) ==
  /\ batch # <<>>
  /\ size + Len(batch) <= EdgeCap
  /\ \A k \in DOMAIN batch : batch[k] \in Edge
  /\ copies' = [e \in Edge |-> copies[e] + Occurrences(batch, e)]
  /\ size' = size + Len(batch)
  /\ generation' = generation + 1
  /\ Returned("add", batch, "ok")
  /\ ret'.value = Len(batch)

(* The targets of a node, in ascending order, one per inserted copy. *)
Following(n) ==
  /\ IF n \in Node
     THEN /\ Returned("following", n, "ok")
          /\ Ascending(ret'.value)
          /\ \A d \in Node : Occurrences(ret'.value, d) = copies[<<n, d>>]
     ELSE Returned("following", n, "node_id")
  /\ UNCHANGED <<copies, size, generation>>

Exists(s, d) ==
  /\ Returned("exists", <<s, d>>, "ok")
  /\ ret'.value = (<<s, d>> \in Edge /\ copies[<<s, d>>] > 0)
  /\ UNCHANGED <<copies, size, generation>>

(* All the sources of a node: none may be missed. *)
Followers(n) ==
  /\ IF n \in Node
     THEN /\ Returned("followers", n, "ok")
          /\ ret'.value = {s \in Node : copies[<<s, n>>] > 0}
     ELSE Returned("followers", n, "node_id")
  /\ UNCHANGED <<copies, size, generation>>

Next ==
  \/ \E batch \in Batches : AddNothing(batch) \/ Refuse(batch) \/ AddAll(batch)
  \/ \E n \in 0 .. NodeCap : Following(n) \/ Followers(n)
  \/ \E s, d \in 0 .. NodeCap : Exists(s, d)

Spec == Init /\ [][Next]_vars
===============================================================================
