----------------------------- MODULE MCCsrGraph -----------------------------
(***************************************************************************)
(* CsrGraph and its clients on a small instance.                           *)
(***************************************************************************)
EXTENDS GraphBenchmark

(* The open client's batches: zero, one and two edges, in descending and   *)
(* ascending order, with a repeated edge, with a self-loop, with an ID out *)
(* of range at either end and after a good edge, and one that exceeds the  *)
(* capacity unless the graph is nearly empty.  And every batch the demo    *)
(* may draw.                                                               *)
MCBatches ==
  Drawn \cup
  {<<>>, <<<<0, 1>>>>, <<<<2, 0>>>>, <<<<1, 2>>, <<1, 0>>>>, <<<<0, 2>>, <<0, 2>>>>,
   <<<<2, 2>>, <<0, 0>>, <<2, 1>>>>, <<<<0, 3>>>>, <<<<1, 1>>, <<3, 0>>>>}

(* Two sources, one of them the last node, and a self-loop to filter.      *)
MCDraws == {<<0, 1>>, <<1, 1>>, <<2, 0>>}
===============================================================================
