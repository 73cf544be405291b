------------------------ MODULE MCSchemaPropagation ------------------------
(***************************************************************************)
(* SchemaPropagation with two tenants that compete for one map entry.      *)
(* Layouts are named by their size: "huge" has more fields than the        *)
(* component's arrays have entries.                                        *)
(***************************************************************************)
EXTENDS SchemaPropagation

CONSTANTS t1, t2, f1, f2, f3

MCLength == [l \in Layouts |-> CASE l = "short" -> 1 [] l = "long" -> 2 [] l = "huge" -> 3]

(* simulate's versions 1 and 2 carry different field lists. *)
MCSimLayout == <<"short", "long">>

MCOwner == [f \in Frames |-> IF f = f3 THEN t2 ELSE t1]
===============================================================================
