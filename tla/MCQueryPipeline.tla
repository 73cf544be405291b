--------------------------- MODULE MCQueryPipeline ---------------------------
(***************************************************************************)
(* QueryPipeline with a channel of two queries, four latency        *)
(* samples, and two tenants with a slot each.                              *)
(***************************************************************************)
EXTENDS QueryPipeline, TLC

CONSTANTS t1, t2, s1, s2

MCSlotOf == t1 :> s1 @@ t2 :> s2
===============================================================================
