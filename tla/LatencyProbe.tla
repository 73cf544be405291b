----------------------------- MODULE LatencyProbe -----------------------------
(***************************************************************************)
(* The latency probe of lesson 5: the four programs of                     *)
(* bpf/src/nexuscore_probe.bpf.c and the loader of bpf/main.go that        *)
(* attaches them, registers the target processes and reads the events.     *)
(*                                                                         *)
(* The loader attaches every program with link.Kprobe, which places it at  *)
(* the function's entry; the programs of one place run one after the       *)
(* other, in an order the kernel chooses.  Threads run on CPUs of their    *)
(* own, so the accesses of two programs to the shared maps interleave.  A  *)
(* time stamp is the call during which it was taken.                       *)
(*                                                                         *)
(* A lookup returns a pointer to an element of the map, which is read      *)
(* later.  The elements are preallocated, and one that is deleted or       *)
(* replaced may be used again at once: behind the pointer there may be the *)
(* stamp of another process when it is read.                               *)
(***************************************************************************)
EXTENDS Naturals, Sequences, FiniteSets

CONSTANTS Threads,
          Pid,       \* the process of each thread: the key of the maps
          Targets,   \* --surreal and --polyglot: <<pid, stack>> in Put order
          Ops,       \* traced functions: "vfs_read", "tcp_sendmsg"
          MapSize,   \* MAX_TRACKED_PIDS, of target_pids and of start_ts
          Elements,  \* of start_ts: MapSize, and one for each CPU
          Spares,    \* the latter, which a CPU uses to replace an element
          RingSize,  \* events that fit into events
          MaxCalls   \* bound: calls of traced functions in a behaviour

Pids == {Pid[t] : t \in Threads}
Stacks == {"surrealdb", "polyglot"}

ASSUME LatencyProbeAssumption ==
  /\ Threads \subseteq DOMAIN Pid /\ IsFiniteSet(Threads)
  /\ Targets \in Seq(Pids \X Stacks)
  /\ Ops \subseteq {"vfs_read", "tcp_sendmsg"}
  /\ MapSize \in Nat /\ 0 \notin Elements /\ Spares \subseteq Elements
  /\ IsFiniteSet(Elements) /\ Cardinality(Elements) = MapSize + Cardinality(Spares)
  /\ RingSize \in Nat /\ MaxCalls \in Nat

VARIABLES attached, \* the loader runs, the programs are attached
          puts,     \* how many of Targets the loader has put
          target,   \* target_pids: a stack, or "none"
          start_ts, \* start_ts: the element of a process, 0 for none
          stamp,    \* what each element of start_ts holds: a call
          spare,    \* the elements the CPUs keep now
          thread,   \* what each thread does
          hist,     \* the three histograms: how many samples each counts
          events,   \* the ring buffer: the stacks of the events in it
          shown,    \* history: events encoded by readEvents, by stack
          dropped,  \* history: events that found the ring full, by stack
          refused,  \* history: processes whose stamp start_ts did not take
          samples,  \* history: the time spans measured, and where each ended
          calls     \* history: the thread of every call so far

vars == <<attached, puts, target, start_ts, stamp, spare, thread, hist, events, shown, dropped,
          refused, samples, calls>>

Histograms == Stacks \cup {"tcp_send"}
Outside == [at |-> "outside"]

Init ==
  /\ attached = TRUE
  /\ puts = 0
  /\ target = [p \in Pids |-> "none"]
  /\ start_ts = [p \in Pids |-> 0]
  /\ stamp = [e \in Elements |-> 0]
  /\ spare = Spares
  /\ thread = [t \in Threads |-> Outside]
  /\ hist = [h \in Histograms |-> 0]
  /\ events = <<>>
  /\ shown = [s \in Stacks |-> 0]
  /\ dropped = [s \in Stacks |-> 0]
  /\ refused = {}
  /\ samples = {}
  /\ calls = <<>>

-------------------------------------------------------------------------------
(* The loader.                                                             *)

Keys(map, none) == {p \in Pids : map[p] # none}

(* Put of one target.  A full map refuses a new key: logged, and skipped.  *)
Register ==
  /\ attached /\ puts < Len(Targets)
  /\ puts' = puts + 1
  /\ LET p == Targets[puts + 1][1]
     IN  target' = IF target[p] # "none" \/ Cardinality(Keys(target, "none")) < MapSize
                   THEN [target EXCEPT ![p] = Targets[puts + 1][2]]
                   ELSE target
  /\ UNCHANGED <<attached, start_ts, stamp, spare, thread, hist, events,
                 shown, dropped, refused, samples, calls>>

(* readEvents starts after the last Put. *)
ReadEvent ==
  /\ attached /\ puts = Len(Targets)
  /\ events # <<>>
  /\ shown' = [shown EXCEPT ![Head(events)] = @ + 1]
  /\ events' = Tail(events)
  /\ UNCHANGED <<attached, puts, target, start_ts, stamp, spare, thread,
                 hist, dropped, refused, samples, calls>>

(* SIGINT or SIGTERM: the programs are detached, the maps closed. *)
Stop ==
  /\ attached /\ puts = Len(Targets)
  /\ attached' = FALSE
  /\ UNCHANGED <<puts, target, start_ts, stamp, spare, thread, hist, events,
                 shown, dropped, refused, samples, calls>>

-------------------------------------------------------------------------------
(* The programs.  A thread in a traced call has the call's number and its  *)
(* function, the point it has reached, and the programs still to run       *)
(* there, the running one first.                                           *)

Progs == {"enter", "exit"}

(* Where the loader's link.Kprobe puts a program, whatever its section. *)
Point(prog) == "entry"

(* The orders in which the programs of a point may run. *)
Orders(point) ==
  LET S == {prog \in Progs : attached /\ Point(prog) = point}
  IN {q \in [1..Cardinality(S) -> S] : \A i, j \in DOMAIN q : q[i] = q[j] => i = j}

Call(t, op) ==
  /\ thread[t].at = "outside"
  /\ Len(calls) < MaxCalls
  /\ calls' = Append(calls, t)
  /\ \E progs \in Orders("entry") :
       thread' = [thread EXCEPT ![t] = [at |-> "call", call |-> Len(calls) + 1, op |-> op,
                                        point |-> "entry", progs |-> progs, start |-> 0]]
  /\ UNCHANGED <<attached, puts, target, start_ts, stamp, spare, hist,
                 events, shown, dropped, refused, samples>>

Runs(t, prog) ==
  thread[t].at = "call" /\ thread[t].progs # <<>> /\ Head(thread[t].progs) = prog

(* The running program ends. *)
Done(t) == [thread EXCEPT ![t].at = "call", ![t].progs = Tail(@)]

(* A new key needs room and takes a free element; an update swaps the      *)
(* element for one that its CPU keeps.                                     *)
Fits(p) == start_ts[p] # 0 \/ Cardinality(Keys(start_ts, 0)) < MapSize
Fresh(p) == {e \in Elements : /\ e \in spare <=> start_ts[p] # 0
                              /\ \A q \in Pids : start_ts[q] # e}

Stamp(t) ==
  LET p == Pid[t]
  IN  \/ /\ Fits(p)
         /\ \E e \in Fresh(p) :
              /\ start_ts' = [start_ts EXCEPT ![p] = e]
              /\ stamp' = [stamp EXCEPT ![e] = thread[t].call]
              /\ spare' = IF e \in spare THEN (spare \ {e}) \cup {start_ts[p]} ELSE spare
         /\ refused' = refused
      \/ /\ ~ Fits(p)
         /\ refused' = refused \cup {p}
         /\ UNCHANGED <<start_ts, stamp, spare>>

(* Mutant of Enter: a process that is not a target is stamped too. *)
EnterUnfiltered(t) ==
  /\ Runs(t, "enter")
  /\ Stamp(t)
  /\ thread' = Done(t)
  /\ UNCHANGED <<attached, puts, target, hist, events, shown, dropped,
                 samples, calls>>

Enter(t) ==
  /\ Runs(t, "enter")
  /\ IF target[Pid[t]] = "none"
     THEN UNCHANGED <<start_ts, stamp, spare, refused>>
     ELSE Stamp(t)
  /\ thread' = Done(t)
  /\ UNCHANGED <<attached, puts, target, hist, events, shown, dropped,
                 samples, calls>>

(* The exit program finds no target or no stamp ... *)
ExitEarly(t) ==
  /\ Runs(t, "exit")
  /\ target[Pid[t]] = "none" \/ start_ts[Pid[t]] = 0
  /\ thread' = Done(t)
  /\ UNCHANGED <<attached, puts, target, start_ts, stamp, spare, hist,
                 events, shown, dropped, refused, samples, calls>>

(* ... or it has a pointer to the element of its process ... *)
Lookup(t) ==
  /\ Runs(t, "exit")
  /\ target[Pid[t]] # "none" /\ start_ts[Pid[t]] # 0
  /\ thread' = [thread EXCEPT ![t].at = "measure", ![t].start = start_ts[Pid[t]]]
  /\ UNCHANGED <<attached, puts, target, start_ts, stamp, spare, hist,
                 events, shown, dropped, refused, samples, calls>>

(* ... and measures against the stamp that is there now. *)
Measure(t) ==
  /\ thread[t].at = "measure"
  /\ samples' = samples \cup {[from |-> stamp[thread[t].start], to |-> thread[t].call,
                                   point |-> thread[t].point]}
  /\ thread' = [thread EXCEPT ![t].at = "delete", ![t].start = 0]
  /\ UNCHANGED <<attached, puts, target, start_ts, stamp, spare, hist,
                 events, shown, dropped, refused, calls>>

(* Mutant of Delete: the stamp stays in the map. *)
KeepStamp(t) ==
  /\ thread[t].at = "delete"
  /\ thread' = [thread EXCEPT ![t].at = "count"]
  /\ UNCHANGED <<attached, puts, target, start_ts, stamp, spare, hist,
                 events, shown, dropped, refused, samples, calls>>

(* The entry is deleted by its key, whoever has stamped it meanwhile. *)
Delete(t) ==
  /\ thread[t].at = "delete"
  /\ start_ts' = [start_ts EXCEPT ![Pid[t]] = 0]
  /\ thread' = [thread EXCEPT ![t].at = "count"]
  /\ UNCHANGED <<attached, puts, target, stamp, spare, hist, events, shown,
                 dropped, refused, samples, calls>>

(* The stack of a target, read through a pointer.  A second Put of its     *)
(* process replaces the element and lets a later one use it for any stack. *)
StackRead(p) ==
  IF Cardinality({i \in 1 .. puts : Targets[i][1] = p}) = 1 THEN {target[p]}
                                                            ELSE {Targets[i][2] : i \in 1 .. puts}

(* hist_update: an atomic addition.  A send has no event. *)
Count(t) ==
  /\ thread[t].at = "count"
  /\ \/ /\ thread[t].op = "vfs_read"
        /\ \E s \in StackRead(Pid[t]) : hist' = [hist EXCEPT ![s] = @ + 1]
        /\ thread' = [thread EXCEPT ![t].at = "emit"]
     \/ /\ thread[t].op = "tcp_sendmsg"
        /\ hist' = [hist EXCEPT !["tcp_send"] = @ + 1]
        /\ thread' = Done(t)
  /\ UNCHANGED <<attached, puts, target, start_ts, stamp, spare, events,
                 shown, dropped, refused, samples, calls>>

(* Mutant of Emit: a full ring overwrites its oldest event. *)
EmitOverwriting(t) ==
  /\ thread[t].at = "emit"
  /\ \E s \in StackRead(Pid[t]) :
       events' = Append(IF Len(events) < RingSize THEN events ELSE Tail(events), s)
  /\ thread' = Done(t)
  /\ UNCHANGED <<attached, puts, target, start_ts, stamp, spare, hist, shown,
                 dropped, refused, samples, calls>>

(* The event names the stack it reads once more. *)
Emit(t) ==
  /\ thread[t].at = "emit"
  /\ \E s \in StackRead(Pid[t]) :
       IF Len(events) < RingSize
       THEN events' = Append(events, s) /\ dropped' = dropped
       ELSE events' = events /\ dropped' = [dropped EXCEPT ![s] = @ + 1]
  /\ thread' = Done(t)
  /\ UNCHANGED <<attached, puts, target, start_ts, stamp, spare, hist, shown,
                 refused, samples, calls>>

Idle(t, point) ==
  thread[t].at = "call" /\ thread[t].point = point /\ thread[t].progs = <<>>

Return(t) ==
  /\ Idle(t, "entry")
  /\ \E progs \in Orders("return") :
       thread' = [thread EXCEPT ![t].point = "return", ![t].progs = progs]
  /\ UNCHANGED <<attached, puts, target, start_ts, stamp, spare, hist,
                 events, shown, dropped, refused, samples, calls>>

Leave(t) ==
  /\ Idle(t, "return")
  /\ thread' = [thread EXCEPT ![t] = Outside]
  /\ UNCHANGED <<attached, puts, target, start_ts, stamp, spare, hist,
                 events, shown, dropped, refused, samples, calls>>

Next ==
  \/ Register \/ ReadEvent \/ Stop
  \/ \E t \in Threads :
       \/ Enter(t) \/ ExitEarly(t) \/ Lookup(t) \/ Measure(t) \/ Delete(t) \/ Count(t) \/ Emit(t)
       \/ Return(t) \/ Leave(t)
       \/ \E op \in Ops : Call(t, op)

Spec == Init /\ [][Next]_vars

-------------------------------------------------------------------------------
InCall == [at : {"call", "measure", "delete", "count", "emit"}, call : Nat, op : Ops,
           point : {"entry", "return"}, progs : Seq(Progs), start : {0} \cup Elements]

TypeOK ==
  /\ attached \in BOOLEAN /\ puts \in 0 .. Len(Targets)
  /\ target \in [Pids -> Stacks \cup {"none"}]
  /\ start_ts \in [Pids -> {0} \cup Elements]
  /\ stamp \in [Elements -> Nat] /\ spare \subseteq Elements
  /\ thread \in [Threads -> {Outside} \cup InCall]
  /\ hist \in [Histograms -> Nat]
  /\ events \in Seq(Stacks)
  /\ shown \in [Stacks -> Nat] /\ dropped \in [Stacks -> Nat]
  /\ refused \subseteq Pids
  /\ samples \subseteq [from : Nat, to : Nat, point : {"entry", "return"}]
  /\ calls \in Seq(Threads)

Alone(t) == \A u \in Threads : Pid[u] = Pid[t] => u = t

(* A thread that is alone in its process measures against stamps of its    *)
(* own, and against none twice: the exit program that reads a stamp also   *)
(* deletes it, and no one else can free the element it reads.              *)
StampUsedOnce ==
  \A a \in samples :
    LET t == calls[a.to]
    IN  Alone(t) => /\ calls[a.from] = t
                    /\ \A b \in samples : calls[b.to] = t /\ b.from = a.from => b = a

(* start_ts never refuses a stamp: the enter programs stamp only targets,  *)
(* and both maps have the same size.                                       *)
StampsFit == refused = {}

Emitting(s) == {t \in Threads : thread[t].at = "emit" /\ target[Pid[t]] = s}
InRing(s) == {i \in DOMAIN events : events[i] = s}

(* Every vfs_read sample in a stack's histogram has one event: about to be *)
(* sent, in the ring, shown by the loader, or dropped by a full ring.      *)
CountedAsReported ==
  \A s \in Stacks :
    hist[s] = Cardinality(Emitting(s)) + Cardinality(InRing(s)) + shown[s] + dropped[s]

(* What the declaration of start_ts says of it ("kprobe entry -> kprobe    *)
(* exit pairing"): a sample is the time from the entry of a call to the    *)
(* return of the same call.                                                *)
PairsEntryWithExit == \A s \in samples : s.from = s.to /\ s.point = "return"
===============================================================================
