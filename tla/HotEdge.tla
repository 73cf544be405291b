------------------------------- MODULE HotEdge -------------------------------
(***************************************************************************)
(* The hot-node detector of lesson 2: the kprobe on sys_read in            *)
(* bpf/hot_edge.bpf.c, which counts reads per graph node, and the loader   *)
(* in bpf/hot_edge_loader.go, which prints the events.                     *)
(*                                                                         *)
(* The program runs on every CPU at once and has no lock.  A lookup        *)
(* returns a pointer to an element of the map, whose count is read later.  *)
(* An update takes an element that is free, or that it frees by evicting   *)
(* entries, and links it in place of the old one.  So the element behind a *)
(* pointer may have been given to another node when its count is read.     *)
(***************************************************************************)
EXTENDS Naturals, Sequences, FiniteSets, Functions

CONSTANTS Cpus,
          Nodes,
          NodeOf,     \* fd_to_node_map: a function from descriptors to Nodes
          Threshold,  \* HOT_NODE_THRESHOLD
          HeatSize,   \* max_entries of node_heat_map
          RingSize,   \* events that fit into heat_events
          MaxReads    \* bound: traced reads of a node in a behaviour

ASSUME HotEdgeAssumption ==
  /\ IsFiniteSet(Cpus) /\ IsFiniteSet(Nodes)
  /\ NodeOf \in [DOMAIN NodeOf -> Nodes]
  /\ Threshold \in Nat \ {0}
  /\ HeatSize \in Nat \ {0} /\ RingSize \in Nat /\ MaxReads \in Nat

VARIABLES entry,    \* node_heat_map: the element of each node, 0 for none
          elem,     \* what each element holds: a count, and the node it is of
          cpu,      \* what the program on each CPU is doing
          ring,     \* nodes of the events submitted and not read yet
          printed,  \* nodes the loader has printed
          attached, \* the loader runs and the kprobe is attached
          lost,     \* history: nodes with an event that found the ring full
          mixed,    \* history: nodes counted on from the count of another
          reads     \* history: how often each node's descriptors were read

vars == <<entry, elem, cpu, ring, printed, attached, lost, mixed, reads>>

Elements == 1 .. HeatSize  \* an LRU hash has as many as it may have entries
Unused == [node |-> "none", count |-> 0]

Idle == [at |-> "idle"]
Looking(n) == [at |-> "lookup", node |-> n]
Holding(n, e) == [at |-> "read", node |-> n, elem |-> e]
Writing(n, found, cnt) == [at |-> "update", node |-> n, found |-> found, new_cnt |-> cnt]
Reporting(n) == [at |-> "report", node |-> n]

Init ==
  /\ entry = [n \in Nodes |-> 0]
  /\ elem = [e \in Elements |-> Unused]
  /\ cpu = [c \in Cpus |-> Idle]
  /\ ring = <<>>
  /\ printed = {}
  /\ attached = TRUE
  /\ lost = {}
  /\ mixed = {}
  /\ reads = [n \in Nodes |-> 0]

-------------------------------------------------------------------------------
(* The kprobe.                                                             *)

(* read(fd) of a descriptor with a node; any other is not counted.         *)
Read(c, fd) ==
  /\ cpu[c].at = "idle"
  /\ attached
  /\ reads[NodeOf[fd]] < MaxReads
  /\ reads' = [reads EXCEPT ![NodeOf[fd]] = @ + 1]
  /\ cpu' = [cpu EXCEPT ![c] = Looking(NodeOf[fd])]
  /\ UNCHANGED <<entry, elem, ring, printed, attached, lost, mixed>>

(* The pointer to the node's element, or NULL: then the count starts at 1. *)
Lookup(c) ==
  /\ cpu[c].at = "lookup"
  /\ cpu' = [cpu EXCEPT ![c] = LET n == cpu[c].node
                               IN  IF entry[n] = 0 THEN Writing(n, FALSE, 1)
                                                   ELSE Holding(n, entry[n])]
  /\ UNCHANGED <<entry, elem, ring, printed, attached, lost, mixed, reads>>

(* *cnt + 1, whatever node the element is of by now. *)
ReadCount(c) ==
  /\ cpu[c].at = "read"
  /\ LET n == cpu[c].node
         found == elem[cpu[c].elem]
     IN  /\ cpu' = [cpu EXCEPT ![c] = Writing(n, TRUE, found.count + 1)]
         /\ mixed' = IF found.node = n THEN mixed ELSE mixed \cup {n}
  /\ UNCHANGED <<entry, elem, ring, printed, attached, lost, reads>>

(* Mutants of Crosses: the event is sent a read after, or before, the      *)
(* threshold is met.                                                       *)
CrossesAbove(cnt) == cnt = Threshold + 1
CrossesBelow(cnt) == cnt + 1 = Threshold

Crosses(cnt) == cnt = Threshold

Compared(c) ==
  [cpu EXCEPT ![c] = IF Crosses(cpu[c].new_cnt) THEN Reporting(cpu[c].node) ELSE Idle]

Linked(map) == {map[n] : n \in Nodes}
Allocated == {cpu[c].elem : c \in {d \in Cpus : cpu[d].at = "link"}}

(* The first half of an update: whatever entries the LRU lists evict, an   *)
(* element that is free then is filled with the node's new count.          *)
Allocate(c) ==
  /\ cpu[c].at = "update"
  /\ \E gone \in SUBSET {n \in Nodes : entry[n] # 0} :
       LET left == [n \in Nodes |-> IF n \in gone THEN 0 ELSE entry[n]]
       IN  \E e \in Elements \ (Linked(left) \cup Allocated) :
             /\ entry' = left
             /\ elem' = [elem EXCEPT ![e] = [node |-> cpu[c].node, count |-> cpu[c].new_cnt]]
             /\ cpu' = [cpu EXCEPT ![c] = [at |-> "link", node |-> cpu[c].node,
                                           found |-> cpu[c].found, new_cnt |-> cpu[c].new_cnt,
                                           elem |-> e]]
  /\ UNCHANGED <<ring, printed, attached, lost, mixed, reads>>

(* The lists, which are locked one at a time, have no element to give; the *)
(* error is not looked at. *)
AllocateFails(c) ==
  /\ cpu[c].at = "update"
  /\ cpu' = Compared(c)
  /\ UNCHANGED <<entry, elem, ring, printed, attached, lost, mixed, reads>>

(* The second half: BPF_EXIST needs an entry, BPF_NOEXIST none.  The       *)
(* element replaced, or the new one when the flag fails, is free at once.  *)
Link(c) ==
  /\ cpu[c].at = "link"
  /\ LET n == cpu[c].node IN
     entry' = IF cpu[c].found = (entry[n] # 0) THEN [entry EXCEPT ![n] = cpu[c].elem] ELSE entry
  /\ cpu' = Compared(c)
  /\ UNCHANGED <<elem, ring, printed, attached, lost, mixed, reads>>

(* An event that finds no room in the ring buffer is dropped. *)
Report(c) ==
  /\ cpu[c].at = "report"
  /\ IF Len(ring) < RingSize
     THEN ring' = Append(ring, cpu[c].node) /\ lost' = lost
     ELSE ring' = ring /\ lost' = lost \cup {cpu[c].node}
  /\ cpu' = [cpu EXCEPT ![c] = Idle]
  /\ UNCHANGED <<entry, elem, printed, attached, mixed, reads>>

-------------------------------------------------------------------------------
(* The loader.                                                             *)

(* Mutant of PrintEvent: the record is skipped like one that does not decode. *)
SkipEvent ==
  /\ attached
  /\ ring # <<>>
  /\ ring' = Tail(ring)
  /\ UNCHANGED <<entry, elem, cpu, printed, attached, lost, mixed, reads>>

PrintEvent ==
  /\ attached
  /\ ring # <<>>
  /\ printed' = printed \cup {Head(ring)}
  /\ ring' = Tail(ring)
  /\ UNCHANGED <<entry, elem, cpu, attached, lost, mixed, reads>>

(* SIGINT or SIGTERM: the reader is closed, main returns, the kprobe is    *)
(* detached.  Events still in the ring are never printed.                  *)
Stop ==
  /\ attached
  /\ attached' = FALSE
  /\ UNCHANGED <<entry, elem, cpu, ring, printed, lost, mixed, reads>>

Program(c) ==
  Lookup(c) \/ ReadCount(c) \/ Allocate(c) \/ AllocateFails(c) \/ Link(c) \/ Report(c)

Next ==
  \/ \E c \in Cpus : Program(c) \/ \E fd \in DOMAIN NodeOf : Read(c, fd)
  \/ PrintEvent
  \/ Stop

Spec == Init /\ [][Next]_vars

(* A BPF program that started runs to its end; the loader reads on.  No    *)
(* one is obliged to read a descriptor.                                    *)
FairSpec == Spec /\ WF_vars(PrintEvent) /\ \A c \in Cpus : WF_vars(Program(c))

-------------------------------------------------------------------------------
CpuState ==
  [at : {"idle"}] \cup [at : {"lookup", "report"}, node : Nodes]
    \cup [at : {"read"}, node : Nodes, elem : Elements]
    \cup [at : {"update"}, node : Nodes, found : BOOLEAN, new_cnt : Nat]
    \cup [at : {"link"}, node : Nodes, found : BOOLEAN, new_cnt : Nat, elem : Elements]

TypeOK ==
  /\ entry \in [Nodes -> {0} \cup Elements]
  /\ elem \in [Elements -> {Unused} \cup [node : Nodes, count : Nat]]
  /\ cpu \in [Cpus -> CpuState]
  /\ ring \in Seq(Nodes) /\ Len(ring) <= RingSize
  /\ printed \subseteq Nodes /\ lost \subseteq Nodes /\ mixed \subseteq Nodes
  /\ attached \in BOOLEAN
  /\ reads \in [Nodes -> Nat]

Heat(n) == IF entry[n] = 0 THEN 0 ELSE elem[entry[n]].count

Pending == {ring[i] : i \in DOMAIN ring}
Sent == printed \cup Pending \cup lost

(* The reads a count of n can come from: of the node alone, or of all.     *)
Behind(n) == IF n \in mixed THEN SumFunctionOnSet(reads, Nodes) ELSE reads[n]

(* No count is made up: an event is sent only for a node that was read at  *)
(* least Threshold times, however the CPUs interleave and whatever is      *)
(* evicted.  Only for a node that took over a count through an element     *)
(* used again, the reads of all nodes count.                               *)
HotWasRead == \A n \in Sent : Behind(n) >= Threshold

UnderWay ==
  {cpu[c].node : c \in {d \in Cpus : \/ cpu[d].at = "report"
                                     \/ cpu[d].at \in {"update", "link"} /\ Crosses(cpu[d].new_cnt)}}

(* n is in S; or it took over its count, and some node is.                 *)
Answers(S, n) == n \in S \/ (n \in mixed /\ S # {})

(* No missed crossing: a node whose stored count is at or above the        *)
(* threshold has an event that was printed, is under way, or found the     *)
(* ring full.  The test for equality skips none, although counts are lost; *)
(* but a node that took over a higher count has none of its own.           *)
CrossingReported ==
  \A n \in Nodes : Heat(n) >= Threshold => Answers(Sent \cup UnderWay, n)

(* A hot node is printed in the end, unless its event was lost or the      *)
(* loader was stopped.                                                     *)
HotIsPrinted ==
  \A n \in Nodes :
    Heat(n) >= Threshold ~> (Answers(printed \cup lost, n) \/ ~ attached)
===============================================================================
