-------------------------- MODULE SchemaPropagation --------------------------
(***************************************************************************)
(* How a tenant's schema reaches its frames in lesson 4.  The control      *)
(* plane (main.go) writes a descriptor into a pinned BPF map; the XDP      *)
(* classifier stamps each frame with the version it reads there; a host    *)
(* that is not part of the repository hands descriptors to the tenant's    *)
(* WASI component (apply_schema_update) and stamped frames to              *)
(* process_frame.  The two paths are not synchronised: descriptors may be  *)
(* late, repeated or out of order, frames may overtake them.               *)
(*                                                                         *)
(* A layout stands for a field list: its offsets and types matter here     *)
(* only as "the same list or another", its length because the component    *)
(* indexes two arrays of MaxFields entries with it.                        *)
(***************************************************************************)
EXTENDS Naturals, FiniteSets

CONSTANTS Tenants,
          Layouts,      \* field lists a schema file may contain
          Length,       \* Length[l]: the number of fields of l
          MaxFields,    \* 64: entries of field_offsets and field_types
          Versions,     \* versions a schema file may contain (0 when omitted)
          SimLayout,    \* SimLayout[v]: the fields simulate pushes with version v
          MapEntries,   \* schema_map's max_entries
          Frames,       \* frames sent in a behaviour, each once
          Owner,        \* Owner[f]: the tenant_id in the header of f
          MaxPushes,    \* bound: schema files pushed in a behaviour
          MaxSims       \* bound: runs of simulate in a behaviour

ASSUME SchemaAssumption ==
  /\ Length \in [Layouts -> Nat]
  /\ "zero" \notin Layouts /\ "none" \notin Layouts
  /\ Owner \in [Frames -> Tenants]
  /\ Versions \subseteq Nat
  /\ MaxFields \in Nat
  /\ DOMAIN SimLayout \subseteq Nat \ {0} /\ 1 \in DOMAIN SimLayout
  /\ \A v \in DOMAIN SimLayout : SimLayout[v] \in Layouts

VARIABLES schema_map,  \* schema_map[t]: the descriptor in the map, or NoSchema
          sim,         \* sim[t]: the version simulate pushes next, 0 when not running
          pushes, sims,
          pushed,      \* history: every <<tenant, descriptor>> written to the map
          notices,     \* descriptors read by the host for a component
          frames,      \* where each frame is
          component    \* the statics of each tenant's component

vars == <<schema_map, sim, pushes, sims, pushed, notices, frames, component>>

SimVersions == DOMAIN SimLayout
Descriptor == [version : Versions \cup SimVersions, layout : Layouts]
ZeroSchema == [version |-> 0, layout |-> "zero"]     \* the static SCHEMA
NoSchema == [version |-> 0, layout |-> "none"]       \* no map entry

FieldCount(schema) == IF schema = ZeroSchema THEN 0 ELSE Length[schema.layout]

Init ==
  /\ schema_map = [t \in Tenants |-> NoSchema]
  /\ sim = [t \in Tenants |-> 0]
  /\ pushes = 0
  /\ sims = 0
  /\ pushed = {}
  /\ notices = {}
  /\ frames = [f \in Frames |->
                 [at |-> "unsent", stamped |-> ZeroSchema, used |-> ZeroSchema]]
  /\ component = [t \in Tenants |->
                    [schema |-> ZeroSchema, processed |-> 0, errors |-> 0,
                     updates |-> 0, trapped |-> FALSE]]

-------------------------------------------------------------------------------
(* Control plane.                                                          *)

Mapped == {t \in Tenants : schema_map[t] # NoSchema}

(* m.Put of an LRU hash: a new key evicts some other when the map is full. *)
Put(t, d) ==
  /\ IF schema_map[t] = NoSchema /\ Cardinality(Mapped) >= MapEntries
     THEN \E victim \in Mapped :
            schema_map' = [schema_map EXCEPT ![t] = d, ![victim] = NoSchema]
     ELSE schema_map' = [schema_map EXCEPT ![t] = d]
  /\ pushed' = pushed \cup {<<t, d>>}

(* push <spec.json>.  Nothing compares the version with the map's. *)
PushFile(t) ==
  /\ pushes < MaxPushes
  /\ pushes' = pushes + 1
  /\ \E v \in Versions, l \in Layouts : Put(t, [version |-> v, layout |-> l])
  /\ UNCHANGED <<sim, sims, notices, frames, component>>

Delete(t) ==
  /\ schema_map[t] # NoSchema
  /\ schema_map' = [schema_map EXCEPT ![t] = NoSchema]
  /\ UNCHANGED <<sim, pushes, sims, pushed, notices, frames, component>>

(* simulate <tenant> <count>: every run counts its versions from 1. *)
SimulateStart(t) ==
  /\ sim[t] = 0
  /\ sims < MaxSims
  /\ sims' = sims + 1
  /\ sim' = [sim EXCEPT ![t] = 1]
  /\ UNCHANGED <<schema_map, pushes, pushed, notices, frames, component>>

(* One turn of its loop.  A push that fails is only logged.                *)
SimulateStep(t) ==
  /\ sim[t] # 0
  /\ sim' = [sim EXCEPT ![t] = IF sim[t] + 1 \in SimVersions THEN sim[t] + 1 ELSE 0]
  /\ \/ Put(t, [version |-> sim[t], layout |-> SimLayout[sim[t]]])
     \/ UNCHANGED <<schema_map, pushed>>
  /\ UNCHANGED <<pushes, sims, notices, frames, component>>

-------------------------------------------------------------------------------
(* XDP classifier.                                                         *)

(* A frame of a tenant without a schema, or without headroom for metadata, *)
(* is passed on as it is; any other is stamped with the version the map    *)
(* holds at that moment.  stamped is the whole descriptor; the metadata    *)
(* carries its version.  (pkt_counters, which nothing reads, is left out.) *)
Classify(f) ==
  LET sd == schema_map[Owner[f]] IN
  /\ frames[f].at = "unsent"
  /\ \/ frames' = [frames EXCEPT ![f].at = "passed"]
     \/ /\ sd # NoSchema
        /\ frames' = [frames EXCEPT ![f].at = "stamped", ![f].stamped = sd]
  /\ UNCHANGED <<schema_map, sim, pushes, sims, pushed, notices, component>>

-------------------------------------------------------------------------------
(* The host between the map and the components (outside the repository).   *)

ReadSchema(t) ==
  /\ schema_map[t] # NoSchema
  /\ notices' = notices \cup {<<t, schema_map[t]>>}
  /\ UNCHANGED <<schema_map, sim, pushes, sims, pushed, frames, component>>

-------------------------------------------------------------------------------
(* Tenant component.                                                       *)

(* Mutant of IsNewer: another descriptor of the same or an older version   *)
(* replaces the schema.                                                    *)
IsOther(d, schema) == d # schema

(* Mutant of IsNewer: versions may not be skipped.                         *)
IsNext(d, schema) == d.version = schema.version + 1

IsNewer(d, schema) == d.version > schema.version

(* apply_schema_update.  A stale descriptor, like one shorter than the     *)
(* struct, is answered without a change.  The host may hand the same       *)
(* descriptor over again: it stays in notices.                             *)
ApplySchemaUpdate(t, d) ==
  /\ <<t, d>> \in notices
  /\ ~ component[t].trapped
  /\ IsNewer(d, component[t].schema)
  /\ component' = [component EXCEPT ![t].schema = d, ![t].updates = @ + 1]
  /\ UNCHANGED <<schema_map, sim, pushes, sims, pushed, notices, frames>>

(* Mutant of Accepts: frames stamped with an older version are decoded.    *)
AcceptsOlder(schema, version) == version <= schema.version

Accepts(schema, version) == version = schema.version

(* Mutant of Decodable: the field loop runs one index too far.             *)
DecodableInclusive(schema) == FieldCount(schema) < MaxFields

Decodable(schema) == FieldCount(schema) <= MaxFields

(* process_frame.  A field index of MaxFields or more panics, which traps  *)
(* the instance: it serves no further call.                                *)
ProcessFrame(f) ==
  LET t == Owner[f]
      schema == component[t].schema
  IN /\ frames[f].at = "stamped"
     /\ ~ component[t].trapped
     /\ \/ /\ ~ Accepts(schema, frames[f].stamped.version)
           /\ component' = [component EXCEPT ![t].errors = @ + 1]
           /\ frames' = [frames EXCEPT ![f].at = "rejected"]
        \/ /\ Accepts(schema, frames[f].stamped.version)
           /\ ~ Decodable(schema)
           /\ component' = [component EXCEPT ![t].trapped = TRUE]
           /\ frames' = [frames EXCEPT ![f].at = "trapped"]
        \/ /\ Accepts(schema, frames[f].stamped.version)
           /\ Decodable(schema)
           /\ component' = [component EXCEPT ![t].processed = @ + 1]
           /\ frames' = [frames EXCEPT ![f].at = "decoded", ![f].used = schema]
     /\ UNCHANGED <<schema_map, sim, pushes, sims, pushed, notices>>

-------------------------------------------------------------------------------
Next ==
  \/ \E t \in Tenants :
       PushFile(t) \/ Delete(t) \/ SimulateStart(t) \/ SimulateStep(t) \/ ReadSchema(t)
  \/ \E notice \in notices : ApplySchemaUpdate(notice[1], notice[2])
  \/ \E f \in Frames : Classify(f) \/ ProcessFrame(f)

Spec == Init /\ [][Next]_vars

(* The host polls the map and hands over what it read; a simulate run that *)
(* started goes on.  Nothing obliges anyone to push or to send frames.     *)
Fairness ==
  \A t \in Tenants :
    /\ WF_vars(SimulateStep(t))
    /\ WF_vars(ReadSchema(t))
    /\ \A d \in Descriptor : WF_vars(ApplySchemaUpdate(t, d))

FairSpec == Spec /\ Fairness

-------------------------------------------------------------------------------
Held == Descriptor \cup {ZeroSchema}
FrameState == [at : {"unsent", "passed", "stamped", "rejected", "trapped", "decoded"},
               stamped : Held, used : Held]
Statics == [schema : Held, processed : Nat, errors : Nat, updates : Nat, trapped : BOOLEAN]

TypeOK ==
  /\ schema_map \in [Tenants -> Descriptor \cup {NoSchema}]
  /\ sim \in [Tenants -> SimVersions \cup {0}]
  /\ pushes \in Nat /\ sims \in Nat
  /\ pushed \subseteq Tenants \X Descriptor
  /\ notices \subseteq pushed
  /\ frames \in [Frames -> FrameState]
  /\ component \in [Tenants -> Statics]

(* The descriptors that version v of tenant t may mean: those pushed, and  *)
(* the zeroed static the component starts with.                            *)
Meanings(t, v) ==
  {d \in {p[2] : p \in {q \in pushed : q[1] = t}} \cup {ZeroSchema} : d.version = v}

Unambiguous(t, v) == \A d, e \in Meanings(t, v) : d = e

(* process_frame decodes a frame with the very field list it was stamped   *)
(* with, however late and out of order descriptors and frames arrive, as   *)
(* long as no two descriptors of the tenant share that version number.     *)
DecodedAsStamped ==
  \A f \in Frames :
    frames[f].at = "decoded" /\ Unambiguous(Owner[f], frames[f].used.version)
      => frames[f].used = frames[f].stamped

(* Once a tenant's frame was decoded under a version, no frame of an older *)
(* version is: neither a delayed frame nor a map rolled back by a second   *)
(* run of simulate brings old layouts back.                                *)
DecodedVersionsAscend ==
  [][\A f, g \in Frames :
       /\ Owner[f] = Owner[g]
       /\ frames[g].at = "decoded"
       /\ frames[f].at # "decoded" /\ frames'[f].at = "decoded"
       => frames[g].used.version <= frames'[f].used.version]_vars

(* A component traps only when a schema of more than MaxFields fields was  *)
(* pushed for its own tenant (pushSchema copies MaxFields entries but      *)
(* writes the whole length).                                               *)
TrapsOnlyOnOversizedSchema ==
  \A t \in Tenants :
    component[t].trapped => \E p \in pushed : p[1] = t /\ Length[p[2].layout] > MaxFields

(* When the map holds, and keeps, the newest version ever pushed for a     *)
(* tenant, the component ends up with that version.                        *)
HoldsNewest(t) ==
  /\ schema_map[t] # NoSchema
  /\ \A p \in pushed : p[1] = t => p[2].version <= schema_map[t].version

CatchesUp ==
  \A t \in Tenants :
    <>[]HoldsNewest(t)
      => <>[](\/ component[t].trapped
              \/ component[t].schema.version = schema_map[t].version)
===============================================================================
