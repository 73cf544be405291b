---------------------------- MODULE MCLatencyProbe ----------------------------
(***************************************************************************)
(* LatencyProbe on a SurrealDB process of two threads, a polyglot process  *)
(* of one thread, and a process that is no target.                         *)
(***************************************************************************)
EXTENDS LatencyProbe, TLC

CONSTANTS s1, s2, p1, o1, e1, e2, e3, e4

MCPid == s1 :> 1 @@ s2 :> 1 @@ p1 :> 2 @@ o1 :> 3
MCTargets == <<<<1, "surrealdb">>, <<2, "polyglot">>>>

Symmetry ==
  Permutations(Threads \cap {s1, s2}) \cup Permutations(Elements \ Spares) \cup Permutations(Spares)
===============================================================================
