------------------------------ MODULE MCHotEdge ------------------------------
(***************************************************************************)
(* HotEdge on two CPUs and two nodes with a descriptor each, with a heat   *)
(* map of two elements and a ring of one event.  A count reaches the       *)
(* threshold of 3 through an element used again only if the threshold is   *)
(* above 2: a node whose pointer is held was read twice.                   *)
(***************************************************************************)
EXTENDS HotEdge, TLC

CONSTANTS c1, c2, n1, n2

MCNodeOf == 3 :> n1 @@ 4 :> n2
===============================================================================
