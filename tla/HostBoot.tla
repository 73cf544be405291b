------------------------------- MODULE HostBoot -------------------------------
(***************************************************************************)
(* The start of the lesson 1 host: run_host and bootstrap_schema of        *)
(* host/src/main.rs, the connection pool of pool.rs, and the event loop of *)
(* tenant.rs up to the point where it waits for ctrl-c.  The pool serves   *)
(* run_host and, in TenantQueries, the calls of the tenants.               *)
(*                                                                         *)
(* The host connects to SurrealDB over ws://, or, when that fails in some  *)
(* ways, to the mem:// engine, where every connection has a data store of  *)
(* its own, that goes with the connection.  The server may become          *)
(* unreachable, or its name unknown, at any time; idle connections expire; *)
(* the host may be killed and started again.                               *)
(***************************************************************************)
EXTENDS Naturals, FiniteSets, SequencesExt

CONSTANTS Callers,     \* the users of the pool besides run_host
          PoolSize,    \* --pool-size
          WarmIdle,    \* how many connections the pool keeps idle, at most: 4
          Statements,  \* how many statements bootstrap_schema has
          Rejects,     \* whether the server may reject a statement
          MaxChanges,  \* bound: how often the server's state changes
          MaxRestarts  \* bound: how often the host is started again

Host == "host"  \* run_host as a user of the pool

ASSUME HostBootAssumption ==
  /\ IsFiniteSet(Callers) /\ Host \notin Callers
  /\ PoolSize \in Nat \ {0} /\ WarmIdle \in Nat \ {0}
  /\ Statements \in Nat \ {0} /\ Rejects \in BOOLEAN
  /\ MaxChanges \in Nat /\ MaxRestarts \in Nat

VARIABLES server,    \* "up", "down", or "nameless" when it does not resolve
          changes,   \* bound: how often server has changed
          pc,        \* where run_host is
          stmt,      \* the next statement of bootstrap_schema
          label,     \* surreal_label: "ws" or "mem"
          idle,      \* the pool's idle connections, first out first
          held,      \* the connection each user holds, 0 for none
          opening,   \* connections the pool has decided to open
          schema,    \* the statements in force in each data store
          seeded,    \* the data stores that have the demo data
          rejected,  \* history: statements the server rejected when last asked
          expired,   \* history: a mem:// store with statements has expired
          restarts   \* bound: how often the host was started again

pool == <<idle, held, opening>>
data == <<schema, seeded, rejected, expired>>
world == <<server, changes, restarts>>
bootVars == <<world, pc, stmt, label, pool, data>>

Users == {Host} \cup Callers

(* Mutant of MaxSize: the builder is not told, and bb8 takes its default.  *)
MaxSizeDefault == 10

MaxSize == PoolSize

Connections == 1..MaxSize

Server == 0  \* the server's data store; a mem:// store is its connection's
Stores == {Server} \cup Connections
Store(user) == IF label = "mem" THEN held[user] ELSE Server

Reachable == label = "mem" \/ server = "up"

BootInit ==
  /\ server \in {"up", "down", "nameless"} /\ changes = 0 /\ restarts = 0
  /\ pc = "build" /\ stmt = 1 /\ label = "ws"
  /\ idle = <<>> /\ held = [u \in Users |-> 0] /\ opening = 0
  /\ schema = [s \in Stores |-> {}] /\ seeded = {} /\ rejected = {} /\ expired = FALSE

ServerChanges ==
  /\ changes < MaxChanges
  /\ changes' = changes + 1
  /\ server' \in {"up", "down", "nameless"} \ {server}
  /\ UNCHANGED <<pc, stmt, label, pool, data, restarts>>

-------------------------------------------------------------------------------
(* The pool.                                                               *)

Busy == Cardinality({u \in Users : held[u] # 0})

MinIdle == IF WarmIdle <= PoolSize THEN WarmIdle ELSE PoolSize

(* What the pool orders when n connections are idle: enough to have        *)
(* MinIdle, as far as there is room. *)
Order(n, others) ==
  LET lack == IF n + opening < MinIdle THEN MinIdle - n - opening ELSE 0
      room == MaxSize - n - opening - others
  IN  opening + (IF lack <= room THEN lack ELSE room)

(* Taking the first idle connection orders replacements for it. *)
Take(user) ==
  /\ Reachable /\ idle # <<>> /\ held[user] = 0
  /\ held' = [held EXCEPT ![user] = Head(idle)] /\ idle' = Tail(idle)
  /\ opening' = Order(Len(idle) - 1, Busy + 1)

(* The connection that was held goes to the end of the queue; an error of  *)
(* its user makes no difference, has_broken is always false.               *)
GiveBack(user) ==
  /\ idle' = Append(idle, held[user]) /\ held' = [held EXCEPT ![user] = 0]
  /\ opening' = opening

(* A connection that was ordered opens, or is given up; a get that waits   *)
(* in front of an empty queue orders one. *)
Open(waiting) ==
  /\ opening > 0 \/ (waiting /\ idle = <<>> /\ Busy < MaxSize)
  /\ opening' = IF opening > 0 THEN opening - 1 ELSE 0
  /\ IF Reachable
     THEN \E c \in Connections \ (ToSet(idle) \cup {held[u] : u \in Users}) :
            idle' = Append(idle, c)
     ELSE idle' = idle
  /\ UNCHANGED <<world, pc, stmt, label, held, data>>

(* A get that finds no working connection drops those it tried, orders new *)
(* ones, and gives up after the connection timeout; so does one that found *)
(* all connections in use all the time. *)
GetTimesOut ==
  /\ ~ Reachable \/ Busy = MaxSize
  /\ IF Reachable
     THEN UNCHANGED <<idle, opening>>
     ELSE idle' = <<>> /\ opening' = Order(0, Busy)
  /\ held' = held

(* A connection that has been idle for too long, or is too old, expires:   *)
(* on mem:// with its data store.  The pool orders replacements.           *)
Reap ==
  /\ pc \notin {"build", "failed"}
  /\ \E i \in DOMAIN idle :
       /\ idle' = RemoveAt(idle, i) /\ opening' = Order(Len(idle) - 1, Busy)
       /\ IF label = "mem"
          THEN /\ schema' = [schema EXCEPT ![idle[i]] = {}] /\ seeded' = seeded \ {idle[i]}
               /\ expired' = (expired \/ schema[idle[i]] # {})
          ELSE UNCHANGED <<schema, seeded, expired>>
  /\ UNCHANGED <<world, pc, stmt, label, held, rejected>>

-------------------------------------------------------------------------------
(* run_host.                                                               *)

Goes(from, to) == pc = from /\ pc' = to

(* The fallback decision; an error of the pool itself always reads "Timed  *)
(* out in bb8".                                                            *)
should_fallback_to_mem(err) == err \in {"name resolution", "Timed out in bb8"}

(* ConnectionPool::new opens the warm connections, or reports why not. *)
Build ==
  /\ Goes("build", "warmup")
  /\ Reachable
  /\ idle' = [i \in 1..MinIdle |-> i]
  /\ UNCHANGED <<world, stmt, label, held, opening, data>>

(* The pool is dropped, and built on mem:// if the error says so. *)
Fails(err) ==
  /\ ~ Reachable
  /\ idle' = <<>> /\ opening' = 0 /\ held' = held
  /\ IF should_fallback_to_mem(err)
     THEN pc' = "build" /\ label' = "mem"
     ELSE pc' = "failed" /\ label' = label
  /\ UNCHANGED <<world, stmt, data>>

BuildFails ==
  /\ pc = "build"
  /\ Fails(IF server = "nameless" THEN "name resolution" ELSE "connection refused")

(* A connection is taken and given back at once. *)
Warmup ==
  /\ Goes("warmup", "bootstrap")
  /\ Reachable /\ idle # <<>>
  /\ idle' = Append(Tail(idle), Head(idle)) /\ opening' = Order(Len(idle) - 1, 1)
  /\ UNCHANGED <<world, stmt, label, held, data>>

WarmupFails == pc = "warmup" /\ Fails("Timed out in bb8")

Bootstrap ==
  /\ Goes("bootstrap", "schema")
  /\ Take(Host)
  /\ UNCHANGED <<world, stmt, label, data>>

(* run_host returns the error; main keeps the dashboard up for a while. *)
BootstrapFails ==
  /\ Goes("bootstrap", "failed")
  /\ GetTimesOut
  /\ UNCHANGED <<world, stmt, label, data>>

(* Mutant of KeepConnection: every statement takes a connection of its     *)
(* own, the next in the queue. *)
NextConnection ==
  /\ held' = [held EXCEPT ![Host] = Head(Append(idle, held[Host]))]
  /\ idle' = Tail(Append(idle, held[Host]))
  /\ opening' = opening

KeepConnection == UNCHANGED pool

(* On to the next statement; the connection goes back after the last.      *)
NextStatement ==
  /\ stmt' = stmt + 1
  /\ IF stmt = Statements THEN pc' = "events" /\ GiveBack(Host) ELSE pc' = pc /\ KeepConnection

(* The response to a statement the server rejects is not looked at.        *)
Statement ==
  /\ pc = "schema" /\ Reachable
  /\ \/ /\ schema' = [schema EXCEPT ![Store(Host)] = @ \cup {stmt}]
        /\ rejected' = IF label = "ws" THEN rejected \ {stmt} ELSE rejected
     \/ /\ Rejects /\ label = "ws"
        /\ rejected' = rejected \cup {stmt}
        /\ schema' = schema
  /\ NextStatement
  /\ UNCHANGED <<world, label, seeded, expired>>

(* Mutant of QueryError: ignored, like the response. *)
QueryErrorIgnored == NextStatement

QueryError == pc' = "failed" /\ stmt' = stmt /\ GiveBack(Host)

(* An error of the query itself ends the start. *)
StatementFails ==
  /\ pc = "schema" /\ ~ Reachable
  /\ QueryError
  /\ UNCHANGED <<world, label, data>>

-------------------------------------------------------------------------------
(* run_event_loop.  Whatever goes wrong is logged, or not even that.       *)

EventLoop ==
  /\ Goes("events", "seed")
  /\ Take(Host)
  /\ UNCHANGED <<world, stmt, label, data>>

EventLoopFails ==
  /\ Goes("events", "serving")
  /\ GetTimesOut
  /\ UNCHANGED <<world, stmt, label, data>>

Seed ==
  /\ Goes("seed", "serving")
  /\ seeded' = IF Reachable THEN seeded \cup {Store(Host)} ELSE seeded
  /\ GiveBack(Host)
  /\ UNCHANGED <<world, stmt, label, schema, rejected, expired>>

(* The host is killed, or has ended, and is started again: what the mem:// *)
(* stores held is gone.                                                    *)
Restart ==
  /\ restarts < MaxRestarts
  /\ restarts' = restarts + 1
  /\ pc' = "build" /\ stmt' = 1 /\ label' = "ws"
  /\ idle' = <<>> /\ held' = [u \in Users |-> 0] /\ opening' = 0
  /\ schema' = [s \in Stores |-> IF s = Server THEN schema[s] ELSE {}]
  /\ seeded' = seeded \cap {Server} /\ expired' = FALSE
  /\ UNCHANGED <<server, changes, rejected>>

BootNext ==
  \/ Build \/ BuildFails \/ Warmup \/ WarmupFails
  \/ Bootstrap \/ BootstrapFails \/ Statement \/ StatementFails
  \/ EventLoop \/ EventLoopFails \/ Seed
  \/ Open(pc \in {"warmup", "bootstrap", "events"}) \/ Reap \/ ServerChanges

-------------------------------------------------------------------------------
(* The pool never holds or opens more connections than --pool-size (main's *)
(* verify: "should be <= pool_size"), and gives none to two users: the     *)
(* warm connections, the replacements ordered by a get and those of a get  *)
(* that waits are counted together, whoever takes and gives back.          *)
PoolWithinSize ==
  /\ Len(idle) + opening + Busy <= PoolSize
  /\ \A i, j \in DOMAIN idle : idle[i] = idle[j] => i = j
  /\ \A u \in Users : \A i \in DOMAIN idle : idle[i] # held[u]
  /\ \A u, v \in Users : held[u] = held[v] /\ held[u] # 0 => u = v

(* Past the bootstrap, and whenever the server holds demo data, the server *)
(* has every statement in force that it did not reject when it was last    *)
(* asked, whatever failed in this start or in those before it.             *)
ServerHasSchema ==
  Server \in seeded \/ (label = "ws" /\ pc \in {"events", "seed", "serving"}) =>
    1..Statements \subseteq schema[Server] \cup rejected

(* On mem://, where every connection has a data store of its own, the      *)
(* bootstrap holds one connection over all its statements: afterwards one  *)
(* data store has the whole schema, until its connection expires, and no   *)
(* other ever has any of it, although the first of the queue is another    *)
(* connection at every get and expired ones are replaced.                  *)
SchemaInOneStore ==
  label = "mem" /\ pc \in {"events", "seed", "serving"} =>
    /\ \A s, t \in Stores \ {Server} : schema[s] # {} /\ schema[t] # {} => s = t
    /\ \A s \in Stores \ {Server} : schema[s] \in {{}, 1..Statements}
    /\ expired \/ \E s \in Stores \ {Server} : schema[s] # {}
===============================================================================
