----------------------- MODULE SchemaPropagationProofs -----------------------
(***************************************************************************)
(* Proofs about SchemaPropagation, for any tenants, frames, layouts,       *)
(* versions and map size.  The invariant follows every descriptor from the *)
(* push that wrote it: what the map, the host, a frame or a component      *)
(* holds was pushed for that tenant (or is the zeroed static), and a frame *)
(* is decoded with a schema of the version it was stamped with.            *)
(***************************************************************************)
EXTENDS SchemaPropagation, TLAPS

(* Everything in transit was pushed for the tenant it is on its way to.    *)
MapWasPushed ==
  \A t \in Tenants : schema_map[t] # NoSchema => <<t, schema_map[t]>> \in pushed

ComponentWasPushed ==
  \A t \in Tenants :
    component[t].schema = ZeroSchema \/ <<t, component[t].schema>> \in pushed

FramesWerePushed ==
  \A f \in Frames :
    /\ frames[f].at \in {"stamped", "decoded"} => <<Owner[f], frames[f].stamped>> \in pushed
    /\ frames[f].at = "decoded" =>
         /\ frames[f].used = ZeroSchema \/ <<Owner[f], frames[f].used>> \in pushed
         /\ frames[f].used.version = frames[f].stamped.version
         /\ frames[f].used.version <= component[Owner[f]].schema.version

IInv == TypeOK /\ MapWasPushed /\ ComponentWasPushed /\ FramesWerePushed

(* The two pseudo-descriptors are no descriptors, and versions are numbers. *)
LEMMA SchemaTypes ==
  /\ NoSchema \notin Descriptor /\ ZeroSchema \notin Descriptor /\ NoSchema # ZeroSchema
  /\ \A d \in Descriptor \cup {ZeroSchema} : d.version \in Nat
  /\ SimVersions \subseteq Nat \ {0}
<1>1. NoSchema.layout = "none" /\ ZeroSchema.layout = "zero"
  BY DEF NoSchema, ZeroSchema
<1>2. \A d \in Descriptor : d.layout # "none" /\ d.layout # "zero"
  BY SchemaAssumption DEF Descriptor
<1>3. SimVersions \subseteq Nat \ {0}
  BY SchemaAssumption DEF SimVersions
<1>4. \A d \in Descriptor : d.version \in Nat
  BY SchemaAssumption, <1>3 DEF Descriptor
<1>5. ZeroSchema.version \in Nat
  BY DEF ZeroSchema
<1> QED BY <1>1, <1>2, <1>3, <1>4, <1>5

(* Nothing is in transit at first. *)
LEMMA InitEstablishesIInv == Init => IInv
BY SchemaTypes DEF Init, IInv, TypeOK, Held, FrameState, Statics, MapWasPushed,
                   ComponentWasPushed, FramesWerePushed

(* A write to the map touches nothing but the map and the history. *)
LEMMA PutPreservesIInv ==
  ASSUME IInv, NEW t \in Tenants, NEW d \in Descriptor, Put(t, d),
         sim' \in [Tenants -> SimVersions \cup {0}], pushes' \in Nat, sims' \in Nat,
         UNCHANGED <<notices, frames, component>>
  PROVE  IInv'
<1>1. /\ schema_map' \in [Tenants -> Descriptor \cup {NoSchema}]
      /\ \A u \in Tenants : schema_map'[u] \in {schema_map[u], NoSchema} \/ (u = t /\ schema_map'[u] = d)
  BY DEF Put, IInv, TypeOK, Mapped
<1>2. pushed' = pushed \cup {<<t, d>>}
  BY DEF Put
<1>3. TypeOK'
  BY <1>1, <1>2 DEF IInv, TypeOK
<1>4. MapWasPushed'
  BY <1>1, <1>2 DEF IInv, MapWasPushed
<1>5. ComponentWasPushed' /\ FramesWerePushed'
  BY <1>2 DEF IInv, ComponentWasPushed, FramesWerePushed
<1> QED BY <1>3, <1>4, <1>5 DEF IInv

(* apply_schema_update takes over a pushed descriptor of a newer version. *)
LEMMA ApplyPreservesIInv ==
  ASSUME IInv, NEW notice \in notices, ApplySchemaUpdate(notice[1], notice[2])
  PROVE  IInv'
<1>1. PICK t \in Tenants, d \in Descriptor : notice = <<t, d>> /\ <<t, d>> \in pushed
  <2>1. notice \in pushed /\ notice \in Tenants \X Descriptor
    BY DEF IInv, TypeOK
  <2>2. notice = <<notice[1], notice[2]>> /\ notice[1] \in Tenants /\ notice[2] \in Descriptor
    BY <2>1
  <2> QED BY <2>1, <2>2
<1>2. /\ component' = [component EXCEPT ![t].schema = d, ![t].updates = @ + 1]
      /\ d.version > component[t].schema.version
      /\ UNCHANGED <<schema_map, sim, pushes, sims, pushed, notices, frames>>
  BY <1>1 DEF ApplySchemaUpdate, IsNewer
<1>3. TypeOK'
  BY <1>1, <1>2 DEF IInv, TypeOK, Statics, Held
<1>4. /\ component'[t].schema = d
      /\ \A u \in Tenants \ {t} : component'[u].schema = component[u].schema
  BY <1>2 DEF IInv, TypeOK, Statics
<1>5. MapWasPushed'
  BY <1>2 DEF IInv, MapWasPushed
<1>6. ComponentWasPushed'
  <2> SUFFICES ASSUME NEW u \in Tenants
               PROVE  component'[u].schema = ZeroSchema \/ <<u, component'[u].schema>> \in pushed
    BY <1>2 DEF ComponentWasPushed
  <2>1. CASE u = t
    BY <1>1, <1>4, <2>1
  <2>2. CASE u # t
    BY <1>4, <2>2 DEF IInv, ComponentWasPushed
  <2> QED BY <2>1, <2>2
<1>7. FramesWerePushed'
  <2> SUFFICES ASSUME NEW f \in Frames, frames[f].at = "decoded"
               PROVE  frames[f].used.version <= component'[Owner[f]].schema.version
    BY <1>2 DEF IInv, FramesWerePushed
  <2>1. frames[f].used.version <= component[Owner[f]].schema.version
    BY DEF IInv, FramesWerePushed
  <2>2. Owner[f] \in Tenants
    BY SchemaAssumption
  <2>3. frames[f].used \in Held /\ component[t].schema \in Held
    BY DEF IInv, TypeOK, FrameState, Statics
  <2>4. frames[f].used.version \in Nat /\ component[t].schema.version \in Nat /\ d.version \in Nat
    BY <2>3, SchemaTypes DEF Held
  <2>5. CASE Owner[f] = t
    BY <1>2, <1>4, <2>1, <2>4, <2>5
  <2>6. CASE Owner[f] # t
    BY <1>4, <2>1, <2>2, <2>6
  <2> QED BY <2>5, <2>6
<1> QED BY <1>3, <1>5, <1>6, <1>7 DEF IInv

(* process_frame decodes only under the version the frame was stamped with. *)
LEMMA ProcessPreservesIInv ==
  ASSUME IInv, NEW f \in Frames, ProcessFrame(f)
  PROVE  IInv'
<1> DEFINE t == Owner[f]
           schema == component[t].schema
<1>1. /\ t \in Tenants
      /\ frames[f].at = "stamped"
      /\ UNCHANGED <<schema_map, sim, pushes, sims, pushed, notices>>
  BY SchemaAssumption DEF ProcessFrame
<1>2. \/ component' = [component EXCEPT ![t].errors = @ + 1]
      \/ component' = [component EXCEPT ![t].trapped = TRUE]
      \/ component' = [component EXCEPT ![t].processed = @ + 1]
  BY DEF ProcessFrame
<1>3. /\ component' \in [Tenants -> Statics]
      /\ \A u \in Tenants : component'[u].schema = component[u].schema
  <2>1. component \in [Tenants -> Statics]
    BY DEF IInv, TypeOK
  <2>2. component[t] \in Statics
    BY <1>1, <2>1
  <2>3. CASE component' = [component EXCEPT ![t].errors = @ + 1]
    BY <1>1, <2>1, <2>2, <2>3 DEF Statics
  <2>4. CASE component' = [component EXCEPT ![t].trapped = TRUE]
    BY <1>1, <2>1, <2>2, <2>4 DEF Statics
  <2>5. CASE component' = [component EXCEPT ![t].processed = @ + 1]
    BY <1>1, <2>1, <2>2, <2>5 DEF Statics
  <2> QED BY <1>2, <2>3, <2>4, <2>5
<1>4. schema \in Held /\ schema.version \in Nat
  <2>1. schema \in Held
    BY <1>1 DEF IInv, TypeOK, Statics
  <2> QED BY <2>1, SchemaTypes DEF Held
<1>5. \/ \E a \in {"rejected", "trapped"} : frames' = [frames EXCEPT ![f].at = a]
      \/ /\ frames' = [frames EXCEPT ![f].at = "decoded", ![f].used = schema]
         /\ frames[f].stamped.version = schema.version
  BY DEF ProcessFrame, Accepts
<1> HIDE DEF schema
<1>6. TypeOK'
  <2>1. frames' \in [Frames -> FrameState]
    BY <1>4, <1>5 DEF IInv, TypeOK, FrameState
  <2> QED BY <1>1, <1>3, <2>1 DEF IInv, TypeOK
<1>7. MapWasPushed' /\ ComponentWasPushed'
  BY <1>1, <1>3 DEF IInv, MapWasPushed, ComponentWasPushed
<1>8. FramesWerePushed'
  <2> SUFFICES ASSUME NEW g \in Frames
               PROVE  /\ frames'[g].at \in {"stamped", "decoded"}
                           => <<Owner[g], frames'[g].stamped>> \in pushed
                      /\ frames'[g].at = "decoded" =>
                           /\ \/ frames'[g].used = ZeroSchema
                              \/ <<Owner[g], frames'[g].used>> \in pushed
                           /\ frames'[g].used.version = frames'[g].stamped.version
                           /\ frames'[g].used.version <= component'[Owner[g]].schema.version
    BY <1>1 DEF FramesWerePushed
  <2>1. Owner[g] \in Tenants
    BY SchemaAssumption
  <2>2. CASE g # f
    <3>1. frames'[g] = frames[g]
      BY <1>5, <2>2 DEF IInv, TypeOK
    <3> QED BY <1>3, <2>1, <3>1 DEF IInv, FramesWerePushed
  <2>3. CASE g = f /\ \E a \in {"rejected", "trapped"} : frames' = [frames EXCEPT ![f].at = a]
    BY <2>3 DEF IInv, TypeOK, FrameState
  <2>4. CASE /\ g = f
             /\ frames' = [frames EXCEPT ![f].at = "decoded", ![f].used = schema]
             /\ frames[f].stamped.version = schema.version
    <3>1. frames'[g].stamped = frames[f].stamped /\ frames'[g].used = schema
      BY <2>4 DEF IInv, TypeOK, FrameState
    <3>2. <<t, frames[f].stamped>> \in pushed
      BY <1>1 DEF IInv, FramesWerePushed
    <3>3. schema = ZeroSchema \/ <<t, schema>> \in pushed
      BY <1>1 DEF IInv, ComponentWasPushed, schema
    <3>4. schema.version <= component'[t].schema.version
      BY <1>1, <1>3, <1>4 DEF schema
    <3> QED BY <2>4, <3>1, <3>2, <3>3, <3>4
  <2> QED BY <1>5, <2>2, <2>3, <2>4
<1> QED BY <1>6, <1>7, <1>8 DEF IInv

(* The classifier stamps what the map holds for the frame's tenant. *)
LEMMA ClassifyPreservesIInv ==
  ASSUME IInv, NEW f \in Frames, Classify(f)
  PROVE  IInv'
<1>1. /\ Owner[f] \in Tenants
      /\ frames[f].at = "unsent"
      /\ UNCHANGED <<schema_map, sim, pushes, sims, pushed, notices, component>>
      /\ \/ frames' = [frames EXCEPT ![f].at = "passed"]
         \/ /\ schema_map[Owner[f]] # NoSchema
            /\ frames' = [frames EXCEPT ![f].at = "stamped", ![f].stamped = schema_map[Owner[f]]]
  BY SchemaAssumption DEF Classify
<1>2. TypeOK'
  <2>1. schema_map[Owner[f]] # NoSchema => schema_map[Owner[f]] \in Held
    BY <1>1 DEF IInv, TypeOK, Held
  <2>2. frames' \in [Frames -> FrameState]
    BY <1>1, <2>1 DEF IInv, TypeOK, FrameState
  <2> QED BY <1>1, <2>2 DEF IInv, TypeOK
<1>3. MapWasPushed' /\ ComponentWasPushed'
  BY <1>1 DEF IInv, MapWasPushed, ComponentWasPushed
<1>4. FramesWerePushed'
  <2> SUFFICES ASSUME NEW g \in Frames
               PROVE  /\ frames'[g].at \in {"stamped", "decoded"}
                           => <<Owner[g], frames'[g].stamped>> \in pushed
                      /\ frames'[g].at = "decoded" => frames'[g] = frames[g]
    BY <1>1 DEF IInv, FramesWerePushed
  <2>1. CASE g # f
    <3>1. frames'[g] = frames[g]
      BY <1>1, <2>1 DEF IInv, TypeOK
    <3> QED BY <3>1 DEF IInv, FramesWerePushed
  <2>2. CASE g = f
    BY <1>1, <2>2 DEF IInv, TypeOK, FrameState, MapWasPushed
  <2> QED BY <2>1, <2>2
<1> QED BY <1>2, <1>3, <1>4 DEF IInv

(* Every step preserves where descriptors come from. *)
LEMMA NextPreservesIInv == IInv /\ [Next]_vars => IInv'
<1> SUFFICES ASSUME IInv, [Next]_vars PROVE IInv'
  OBVIOUS
<1>1. ASSUME NEW t \in Tenants, PushFile(t) PROVE IInv'
  <2>1. PICK v \in Versions, l \in Layouts : Put(t, [version |-> v, layout |-> l])
    BY <1>1 DEF PushFile
  <2>2. [version |-> v, layout |-> l] \in Descriptor
    BY DEF Descriptor
  <2> QED BY <1>1, <2>1, <2>2, PutPreservesIInv DEF PushFile, IInv, TypeOK
<1>2. ASSUME NEW t \in Tenants, Delete(t) PROVE IInv'
  BY <1>2 DEF Delete, IInv, TypeOK, MapWasPushed, ComponentWasPushed, FramesWerePushed
<1>3. ASSUME NEW t \in Tenants, SimulateStart(t) PROVE IInv'
  <2>1. 1 \in SimVersions
    BY SchemaAssumption DEF SimVersions
  <2> QED BY <1>3, <2>1 DEF SimulateStart, IInv, TypeOK, MapWasPushed, ComponentWasPushed, FramesWerePushed
<1>4. ASSUME NEW t \in Tenants, SimulateStep(t) PROVE IInv'
  <2>1. sim[t] \in SimVersions
    BY <1>4 DEF SimulateStep, IInv, TypeOK
  <2>2. sim' \in [Tenants -> SimVersions \cup {0}]
    BY <1>4 DEF SimulateStep, IInv, TypeOK
  <2>3. [version |-> sim[t], layout |-> SimLayout[sim[t]]] \in Descriptor
    BY <2>1, SchemaAssumption DEF Descriptor, SimVersions
  <2>4. CASE Put(t, [version |-> sim[t], layout |-> SimLayout[sim[t]]])
    BY <1>4, <2>2, <2>3, <2>4, PutPreservesIInv DEF SimulateStep, IInv, TypeOK
  <2>5. CASE UNCHANGED <<schema_map, pushed>>
    BY <1>4, <2>2, <2>5 DEF SimulateStep, IInv, TypeOK, MapWasPushed, ComponentWasPushed, FramesWerePushed
  <2> QED BY <1>4, <2>4, <2>5 DEF SimulateStep
<1>5. ASSUME NEW t \in Tenants, ReadSchema(t) PROVE IInv'
  BY <1>5 DEF ReadSchema, IInv, TypeOK, MapWasPushed, ComponentWasPushed, FramesWerePushed
<1>6. CASE UNCHANGED vars
  BY <1>6 DEF vars, IInv, TypeOK, MapWasPushed, ComponentWasPushed, FramesWerePushed
<1> QED BY <1>1, <1>2, <1>3, <1>4, <1>5, <1>6, ApplyPreservesIInv, ClassifyPreservesIInv,
           ProcessPreservesIInv DEF Next

(* Where each descriptor came from is an invariant of every behaviour.     *)
THEOREM SchemaInvariant == Spec => []IInv
BY InitEstablishesIInv, NextPreservesIInv, PTL DEF Spec

(* Types, whatever the tenants, layouts, versions and map size.            *)
THEOREM SchemaTypeCorrect == Spec => []TypeOK
BY SchemaInvariant, PTL DEF IInv

(* A frame is decoded with the field list it was stamped with, as long as  *)
(* its version number means one descriptor.                                *)
THEOREM FramesDecodedAsStamped == Spec => []DecodedAsStamped
<1>1. IInv => DecodedAsStamped
  <2> SUFFICES ASSUME IInv, NEW f \in Frames, frames[f].at = "decoded",
                      Unambiguous(Owner[f], frames[f].used.version)
               PROVE  frames[f].used = frames[f].stamped
    BY DEF DecodedAsStamped
  <2>1. /\ <<Owner[f], frames[f].stamped>> \in pushed
        /\ frames[f].used = ZeroSchema \/ <<Owner[f], frames[f].used>> \in pushed
        /\ frames[f].used.version = frames[f].stamped.version
    BY DEF IInv, FramesWerePushed
  <2>2. /\ frames[f].used \in Meanings(Owner[f], frames[f].used.version)
        /\ frames[f].stamped \in Meanings(Owner[f], frames[f].used.version)
    BY <2>1 DEF Meanings
  <2> QED BY <2>2 DEF Unambiguous
<1> QED BY <1>1, SchemaInvariant, PTL

(* No frame of an older version is decoded after one of a newer version.   *)
THEOREM DecodingNeverGoesBack == Spec => DecodedVersionsAscend
<1>1. ASSUME IInv, [Next]_vars, NEW f \in Frames, NEW g \in Frames, Owner[f] = Owner[g],
             frames[g].at = "decoded", frames[f].at # "decoded", frames'[f].at = "decoded"
      PROVE  frames[g].used.version <= frames'[f].used.version
  <2>1. ProcessFrame(f)
    <3>1. ASSUME frames' = frames PROVE FALSE
      BY <1>1, <3>1
    <3>2. ASSUME NEW h \in Frames, Classify(h) PROVE FALSE
      BY <1>1, <3>2 DEF Classify, IInv, TypeOK, FrameState
    <3>3. ASSUME NEW h \in Frames, ProcessFrame(h), h # f PROVE FALSE
      BY <1>1, <3>3 DEF ProcessFrame, IInv, TypeOK, FrameState
    <3> QED BY <1>1, <3>1, <3>2, <3>3
        DEF Next, vars, PushFile, Delete, SimulateStart, SimulateStep, ReadSchema, ApplySchemaUpdate
  <2>2. frames'[f].used = component[Owner[f]].schema
    BY <1>1, <2>1 DEF ProcessFrame, IInv, TypeOK, FrameState
  <2>3. frames[g].used.version <= component[Owner[g]].schema.version
    BY <1>1 DEF IInv, FramesWerePushed
  <2> QED BY <1>1, <2>2, <2>3
<1>2. IInv /\ [Next]_vars =>
        [\A f, g \in Frames :
           /\ Owner[f] = Owner[g]
           /\ frames[g].at = "decoded"
           /\ frames[f].at # "decoded" /\ frames'[f].at = "decoded"
           => frames[g].used.version <= frames'[f].used.version]_vars
  BY <1>1
<1> QED BY <1>2, SchemaInvariant, PTL DEF Spec, DecodedVersionsAscend

(* What pushed has it keeps. *)
LEMMA PushedGrows == [Next]_vars => pushed \subseteq pushed'
BY DEF Next, vars, PushFile, Delete, SimulateStart, SimulateStep, ReadSchema, ApplySchemaUpdate,
       Classify, ProcessFrame, Put

(* An instance traps in process_frame alone, under the schema it holds. *)
LEMMA TrappingStep ==
  ASSUME IInv, [Next]_vars, NEW t \in Tenants, component'[t].trapped, ~ component[t].trapped
  PROVE  ~ Decodable(component[t].schema)
<1>1. component \in [Tenants -> Statics]
  BY DEF IInv, TypeOK
<1>2. ASSUME component' = component PROVE FALSE
  BY <1>2
<1>3. ASSUME NEW notice \in notices, ApplySchemaUpdate(notice[1], notice[2]) PROVE FALSE
  <2>1. component' = [component EXCEPT ![notice[1]].schema = notice[2],
                                       ![notice[1]].updates = @ + 1]
    BY <1>3 DEF ApplySchemaUpdate
  <2> QED BY <1>1, <2>1 DEF Statics
<1>4. ASSUME NEW f \in Frames, ProcessFrame(f) PROVE ~ Decodable(component[t].schema)
  <2>1. Owner[f] \in Tenants
    BY SchemaAssumption
  <2>2. CASE component' = [component EXCEPT ![Owner[f]].errors = @ + 1]
    BY <1>1, <2>1, <2>2 DEF Statics
  <2>3. CASE component' = [component EXCEPT ![Owner[f]].processed = @ + 1]
    BY <1>1, <2>1, <2>3 DEF Statics
  <2>4. CASE /\ component' = [component EXCEPT ![Owner[f]].trapped = TRUE]
             /\ ~ Decodable(component[Owner[f]].schema)
    <3>1. t = Owner[f]
      BY <1>1, <2>1, <2>4 DEF Statics
    <3> QED BY <2>4, <3>1
  <2> QED BY <1>4, <2>2, <2>3, <2>4 DEF ProcessFrame
<1> QED BY <1>2, <1>3, <1>4
    DEF Next, vars, PushFile, Delete, SimulateStart, SimulateStep, ReadSchema, Classify

(* process_frame indexes past its arrays only under a schema that was      *)
(* pushed for its own tenant with more fields than they hold.              *)
THEOREM TrapsNeedOversizedSchema == Spec => []TrapsOnlyOnOversizedSchema
<1>1. Init => TrapsOnlyOnOversizedSchema
  BY DEF Init, TrapsOnlyOnOversizedSchema
<1>2. IInv /\ TrapsOnlyOnOversizedSchema /\ [Next]_vars => TrapsOnlyOnOversizedSchema'
  <2> SUFFICES ASSUME IInv, TrapsOnlyOnOversizedSchema, [Next]_vars,
                      NEW t \in Tenants, component'[t].trapped
               PROVE  \E p \in pushed' : p[1] = t /\ Length[p[2].layout] > MaxFields
    BY DEF TrapsOnlyOnOversizedSchema
  <2> DEFINE schema == component[t].schema
  <2>1. pushed \subseteq pushed'
    BY PushedGrows
  <2>2. CASE component[t].trapped
    BY <2>1, <2>2 DEF TrapsOnlyOnOversizedSchema
  <2>3. CASE ~ component[t].trapped
    <3>1. ~ Decodable(schema)
      BY <2>3, TrappingStep
    <3> HIDE DEF schema
    <3>2. schema # ZeroSchema
      BY <3>1, SchemaAssumption DEF Decodable, FieldCount
    <3>3. <<t, schema>> \in pushed /\ schema \in Descriptor
      BY <3>2 DEF IInv, TypeOK, ComponentWasPushed, schema
    <3>4. Length[schema.layout] > MaxFields
      <4>1. Length[schema.layout] \in Nat
        BY <3>3, SchemaAssumption DEF Descriptor
      <4>2. ~ (Length[schema.layout] <= MaxFields)
        BY <3>1, <3>2 DEF Decodable, FieldCount
      <4> QED BY <4>1, <4>2, SchemaAssumption
    <3>5. <<t, schema>>[1] = t /\ <<t, schema>>[2] = schema
      OBVIOUS
    <3> QED BY <2>1, <3>3, <3>4, <3>5
  <2> QED BY <2>2, <2>3
<1> QED BY <1>1, <1>2, SchemaInvariant, PTL DEF Spec
===============================================================================
