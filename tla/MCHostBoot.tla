------------------------------ MODULE MCHostBoot ------------------------------
(***************************************************************************)
(* TenantQueries, and with it HostBoot, on a small instance: tenants are   *)
(* model values, so they may be permuted.                                  *)
(***************************************************************************)
EXTENDS TenantQueries, TLC

Symmetry == Permutations(Callers)
===============================================================================
