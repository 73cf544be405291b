----------------------------- MODULE TenantQueries -----------------------------
(***************************************************************************)
(* The tenants of the lesson 1 host: exec and relate of adapter.rs, called *)
(* concurrently, on the connections of the pool of HostBoot.  The host     *)
(* runs on one thread, and every await lets another call go on.  Nothing   *)
(* in the repository calls the adapter yet; any number of tenants may call *)
(* at any time once run_host waits for ctrl-c.  What a query answers and   *)
(* the latency recorded for it are left out.                               *)
(***************************************************************************)
EXTENDS HostBoot

VARIABLE at  \* each tenant: "out" of a call, or in "get", "exec", "relate"

allVars == <<bootVars, at>>

Moves(t, from, to) == at[t] = from /\ at' = [at EXCEPT ![t] = to]

Call(t) ==
  /\ pc = "serving"
  /\ Moves(t, "out", "get")
  /\ UNCHANGED bootVars

Get(t) ==
  /\ \E op \in {"exec", "relate"} : Moves(t, "get", op)
  /\ Take(t)
  /\ UNCHANGED <<world, pc, stmt, label, data>>

(* The get returns an error, and so does the call. *)
GetFails(t) ==
  /\ Moves(t, "get", "out")
  /\ GetTimesOut
  /\ UNCHANGED <<world, pc, stmt, label, data>>

(* A call that returns drops its guard of the connection. *)
Ends(t, op) ==
  /\ Moves(t, op, "out")
  /\ GiveBack(t)
  /\ UNCHANGED <<world, pc, stmt, label, data>>

(* The answer, an empty one when the statement was rejected; also when it  *)
(* cannot be encoded, which ends the call in the same way.                 *)
Answered(t) == Reachable /\ (Ends(t, "exec") \/ Ends(t, "relate"))

(* The query fails: its error is passed on. *)
QueryFails(t) == ~ Reachable /\ (Ends(t, "exec") \/ Ends(t, "relate"))

(* relate cannot decode its data, and does not ask the server at all. *)
DecodeFails(t) == Ends(t, "relate")

TenantInit == BootInit /\ at = [t \in Callers |-> "out"]

TenantNext ==
  \/ BootNext /\ at' = at
  \/ \E t \in Callers :
       Call(t) \/ Get(t) \/ GetFails(t) \/ Answered(t) \/ QueryFails(t) \/ DecodeFails(t)
  \/ Open(\E t \in Callers : at[t] = "get") /\ at' = at
  \/ Restart /\ at' = [t \in Callers |-> "out"]

TenantSpec == TenantInit /\ [][TenantNext]_allVars

-------------------------------------------------------------------------------
(* What a tenant's query meets is the schema that the bootstrap reported:  *)
(* every statement that was not rejected, whichever connection of the one  *)
(* pool for all tenants it was given.                                      *)
TenantsSeeSchema ==
  \A t \in Callers :
    at[t] \in {"exec", "relate"} => 1..Statements \subseteq schema[Store(t)] \cup rejected
===============================================================================
