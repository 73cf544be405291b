# NexusCore in TLA+

A verification development of the five NexusCore lessons (Rust, Go and eBPF C
programs around SurrealDB, graphs, schemas and latency measurement).  Every
module is translated from the source; where code that the repository only uses
is modelled (BPF maps and ring buffers, bb8, SurrealDB), it is modelled as far
as the repository's code depends on it, and `PROJECT.json` marks it external.

Run a configuration with `tlc -config MCCsrGraph.cfg MCCsrGraph.tla`, check a
proof module with `tlapm CsrGraphProofs.tla`.  `PROJECT.json` lists all runs
with their module and configuration, the source lines each definition stands
for, the hazards, and the theorems.

## The system

The lessons share a theme, not a process: each is a program of its own, and
they meet at the kernel and at SurrealDB.

| Component | Source | State | Operations | Module |
|---|---|---|---|---|
| **L2 CSR graph** | `lesson2/.../src/csr_graph.rs`, `wit/edges.wit` | a header (counts, capacities, generation), `row_ptr`, `col_idx` in linear memory | `add_edge_batch` (four error returns, sort, rebuild, scatter), `get_following`, `edge_exists`, `get_followers` | `CsrGraph` |
| **L2 graph demo** | `lesson2/.../src/main.rs`, `init` of `csr_graph.rs` | the partition, a running total | insert random batches, scan for hot nodes | `GraphBenchmark` |
| **L2 hot-node detector** | `lesson2/.../bpf/hot_edge.bpf.c`, `hot_edge_loader.go` | LRU map of counts, ring buffer | a kprobe on every CPU; the loader's loop and shutdown | `HotEdge` |
| **L3 graph engine** | `lesson3/.../nexuscore_graph/src/lib.rs` | a graph loaded from a blob | `from_blob`, `bfs_posts` | `GraphBfs` |
| **L3 host** | `lesson3/.../host/src/main.rs` | bounded channel, `Agg` behind a mutex | ingest task, worker task, `/api/metrics` | `QueryPipeline` |
| **L4 control plane** | `lesson4/.../control-plane/main.go` | the pinned `schema_map` | `push`, `delete`, `simulate`, `list`, `payload` | `SchemaPropagation` |
| **L4 XDP classifier** | `lesson4/.../ebpf/src/nexuscore_xdp.bpf.c` | reads `schema_map`, writes frame metadata | one run per frame | `SchemaPropagation` |
| **L4 tenant component** | `lesson4/.../wasi-component/src/lib.rs` | the statics `SCHEMA` and three counters | `apply_schema_update`, `process_frame` | `SchemaPropagation` |
| **L5 latency probe** | `lesson5/.../bpf/src/nexuscore_probe.bpf.c`, `bpf/main.go` | `target_pids`, `start_ts`, histograms, ring | two enter and two exit programs on every CPU; registration, `readEvents` | `LatencyProbe` |
| **L5 histogram** | the same files | per-CPU slots | `log2_bucket`, `hist_update`, `reportHistogram`, `computePercentiles` | `LatencyHistogram` |
| **L5 web dashboard** | `lesson5/.../dashboard/src/web.rs`, `lib.rs` | three values behind three locks | two POST handlers, `/api/metrics`, a probing task | `WebDashboard` |
| **L5 load generator** | `lesson5/.../load-gen/src/main.rs` | two shared counters, a histogram per thread | worker threads, join, report | `LoadGen` |
| **L1 host start and pool** | `lesson1/.../host/src/main.rs`, `pool.rs`, `tenant.rs` | a bb8 pool, a data store or several | `run_host` with its fallback, `bootstrap_schema`, event loop | `HostBoot` |
| **L1 query adapter** | `lesson1/.../host/src/adapter.rs` | a connection of the pool per call | `exec`, `relate`, concurrently | `TenantQueries` |
| **L5 terminal dashboard** | `lesson5/.../dashboard/src/main.rs` | a line buffer | lines of stdin | `TerminalDashboard` |
| L1 kernel latency probe | `lesson1/.../ebpf/tenant_latency.bpf.c` | a map of stamps, a ring | two programs | - |
| L1 guest | `guest-component/src/lib.rs` | none between calls | `run` | - |
| L1 metrics, demo, stress | `host/src/metrics.rs`, `visualizer.rs`, `main.rs` | Prometheus counters | timers, rendering | - |
| L2 page | `web/` | in the browser | a drawing of its own | - |
| L3 generator, page | `scripts/gen_graph.py`, `data/visualizer.html` | none | writes one file | - |
| L4 pages | `dashboard/`, `visualizer/` | in the browser | a simulation of their own | - |
| L5 orchestrator | `orchestrator/src/lib.rs` | none | a pure function | - |
| scripts, build files | `scripts/`, lock files, `*.surql` | none | shell | - |

**Interactions.**  Kernel programs and their loaders share BPF maps (no lock,
every CPU at once) and a ring buffer (single consumer, lossy when full).  The
L4 control plane and classifier share `schema_map`, and the component learns of
it through a host that the repository does not contain.  The L3 tasks share a
channel and one mutex.  The L5 dashboard's handlers share three locks that they
take one after the other.  The L1 host reaches SurrealDB through a pool whose
behaviour (queue order, replenishment, timeouts) decides which connection, and
on `mem://` which data store, a call gets; the adapter's calls compete for
the same connections.  The L5 loader's standard output is what the terminal
dashboard reads, line by line, when the two are piped together; anything else may
be piped into it as well.

**What is hard.**

- *Lock-free counting in the kernel*: look a count up, read it through the
  pointer, add one, write it back, report on equality; evictions and reused
  elements in between (`HotEdge`).  Stamps taken and deleted by key while another
  thread of the process replaces them and another process takes over their
  elements (`LatencyProbe`).  A reader that sums per-CPU slots while they move
  (`LatencyHistogram`).
- *Two unsynchronised paths*: a schema descriptor and the frames stamped with
  its version overtake each other (`SchemaPropagation`).
- *Rebuilding a structure in place* with error returns in the middle
  (`CsrGraph`).
- *Loss and limits*: full rings, full channels, full maps, sample buffers that
  drop their oldest quarter (`HotEdge`, `QueryPipeline`, `LatencyProbe`).
- *A part that dies while the rest goes on*: the L3 worker, a `Lookup` that
  fails halfway, a bootstrap that ends between two statements, a host that is
  killed (`QueryPipeline`, `LatencyHistogram`, `HostBoot`).
- *Time*: windows rolled only when somebody asks, pacing that catches up after
  a stall, timeouts mistaken for name errors, connections that expire with the
  data behind them (`QueryPipeline`, `LoadGen`, `HostBoot`).

## The modules

### CsrGraph, EdgeStore and GraphBenchmark (lesson 2)

`CsrGraph` has the header fields and the two arrays as variables and one action
per return of `add_edge_batch` (empty batch, capacity, node out of range,
rebuild with its two "corrupted" returns), and one per query.  Calls are not
concurrent (`&mut self`), so each is one step; `ret` is what it returned.  The
rebuild is written as the code runs it: the existing edges are read back row by
row, concatenated with the batch, sorted (`Rank`, a counting definition of the
stable result of `sort_unstable` on pairs), `node_count` is set, `row_ptr`
counted and summed, and `col_idx` scattered through a cursor per row.  A scatter
out of range returns with the arrays half written, as in the code.  The binary
search of `edge_exists` is the core library's: unspecified unless the row
ascends.

`EdgeStore` is the abstract specification: a bag of edges with a capacity.
`ImplementsEdgeStore` is the refinement, with the bag computed from the arrays.

- `RowsPartitionSlots`: row bounds start at 0, never decrease and end at
  `edge_count`.
- `NeverCorrupted`: neither late error is reachable.
- `RowsAscending`: every row is sorted, the binary search's precondition.
- `NodeCountCoversSources`: the follower scan, bounded by `node_count`, misses
  no source.  Proved; the runs see it through the refinement.
- `AddInsertsWhatFits` states what `edges.wit` says of partial insertion; the
  code violates it (run `csr_capacity`, a finding).

`GraphBenchmark` is the partition in use.  Its owner is either an open client,
which may make any call of `CsrGraph` in any order, or the demo of `main.rs`:
`InsertBatch` draws a batch, drops its self-loops and stops at an error,
`DetectHotNodes` scans the out-degrees and ranks what it finds, with ties in any
order (`sort_unstable`).  The offsets of the header are computed as `init` does,
in words of `Word` values, while the memory is checked without wrapping;
`LayoutFits` says what `main`'s constants satisfy.

- `BenchmarkAccounts`: the demo meets no error, and its total is what is stored.
- `HotNodesFound`: the scan, bounded by `node_count`, finds every hot node of the
  partition, and the ones printed are the hottest.
- `SlotsInMemory`: every slot in use lies in the memory, above `row_ptr`.

Run `csr_graph`: 3 nodes, 5 edges.  The open client has batches of 0 to 3 edges,
ascending, descending, repeated, self-loops, out of range at both positions, and
too large, in every order until the graph is full: enough for a row in the
middle to grow and shift both neighbours, and for a batch to fill the last slot
exactly.  The demo inserts two batches of up to two edges drawn from three
pairs, one of them a self-loop, with a threshold of two that none, one or both
sources reach.  100 bytes are exactly what the layout needs.

### SchemaPropagation (lesson 4)

One module for the whole path: `Put` into the LRU map (`PushFile`, `Delete`,
`SimulateStart`/`SimulateStep`), `Classify` (the XDP program on one frame),
`ReadSchema` (the missing host reads the map and owes the component that
descriptor: never withdrawn, so it may arrive late, repeatedly and out of
order), `ApplySchemaUpdate` and `ProcessFrame` (the component; an index past
its arrays traps the instance for good).  A layout stands for a field list.

- `DecodedAsStamped`: a frame is decoded with the list it was stamped with,
  unless its version number has two meanings.  The exception is needed: the
  repository's own example file and `simulate` push two lists as version 1.
- `DecodedVersionsAscend` (action property): decoding never goes back, whatever
  a second `simulate` does to the map.
- `TrapsOnlyOnOversizedSchema`: a component traps only for a schema of its own
  tenant with more fields than the arrays hold.
- `CatchesUp` (liveness): if the map keeps the newest version, the component
  gets it.

Run `schema`: two tenants compete for one map entry (every push evicts the
other), three frames, three layouts of which one is oversized, versions 0 (the
zeroed static's) and 1 in files, one pushed file and one run of `simulate` at
the same time.  One file and one `simulate` are enough to give version 1 two
meanings, to let a version 0 follow a version 1, and to evict; three frames let
one tenant have two that overtake each other.
Fairness: the host goes on polling and delivering, and a `simulate` that was
started goes on; nobody is obliged to push or to send frames.

### HotEdge (lesson 2)

`Read` starts the program on a CPU; `Lookup`, `ReadCount`, `Allocate`, `Link` and
`Report` are its steps on the shared maps; `PrintEvent` and `Stop` are the loader.
A lookup returns a pointer to an element, and `ReadCount` reads the count that is
there later.  The elements of an LRU hash are preallocated and one that was
evicted or replaced is free at once, so it may belong to another node by then.
An update takes an element, evicting any entries for it (`Allocate`), and links it
in place of the old one (`Link`), where its flag may fail because the entry
appeared or vanished since the lookup.  `mixed` remembers the nodes whose count was
taken over from another.

- `HotWasRead`: no event without `Threshold` reads behind it: of the node, or of
  all nodes together if it took over a count.
- `CrossingReported`: a stored count at or above the threshold has an event that
  was printed, is under way or was lost to a full ring.  Counts are lost to races,
  yet the test for equality is never stepped over.  A node that took over a count
  from beyond the threshold may have no event of its own, but then another has.
- `HotIsPrinted` (liveness): the same of being printed, unless the event was lost
  or the loader stopped.

Without the exception for `mixed`, a printed node was not always read that often
itself; the code gives no more than the properties say.

Run `hot_edge`: two CPUs and two nodes over a map of two elements and a ring of
one event, threshold 3, up to three reads per node.  With two CPUs one can hold a
pointer while the other gives its element to the second node; a threshold of 3 is
the least that a node reaches in this way without having been read that often.
Fairness: a program that was started runs to its end and the loader reads on;
nobody is obliged to read a descriptor.

### GraphBfs (lesson 3)

The loop of `bfs_posts`: `Dequeue` (depth check, visited check, bounds check,
in the code's order), `ScanEdge`, `Return`, and `ScanPanics` for a row that
reaches past the edges, which `from_blob` accepts.

- `NoDocumentTwice`: along however many paths a node is reached.
- `WithinLimit`: at most `max_results` documents (proved, not a run's property).
- `AnswersTheQuery`: a search that was not cut short has exactly the documents
  on edges out of nodes within `max_depth - 1` steps of the root, measured
  against the ball defined without a queue.
- `NearestFirst`: a search that was cut short has the nearest ones.
- `PanicsOnlyOnOverrun`; `Terminates` (the call runs until it returns).

Run `graph_bfs`, over two families.  One is *all* well-formed graphs of four nodes and five edges with two
edges out of node 0, with and without a document outside the arena, two depths
and two limits.  Four nodes are the least where the first scanned way to a node
is not the shortest.  The other is two nodes and two edges with *any* `row_ptr`
and any targets, the blobs that pass the length checks only; the first three
properties are about well-formed graphs, the last two about all.

### QueryPipeline (lesson 3)

`MakeQuery`/`SendQuery` (the ingest task, held up by a full channel),
`Receive`/`Record`/`Panic` (the worker), `Metrics` (the handler: prune, roll,
answer), `Tick`.  The lock on `agg` is held over all of `record_query` and all
of the handler, so each is one step.

- `NoQueryLost`: while the worker lives, made = recorded, being worked on, in
  the channel and being sent, in order.
- `SamplesAreMostRecent`: draining a quarter leaves the most recent latencies.
- `WindowsPartitionQueries`: several pollers roll one window; every query is
  counted in exactly one.
- `ActiveSlotsAreRecent` (action property): no answer shows a silent slot.
- `QueriesGetRecorded` (liveness; both tasks are weakly fair: the runtime polls
  them; nobody is obliged to ask for metrics).

Run `query_pipeline`: a channel of two (so ingest does wait), four samples (the
least that can lose a quarter), six queries so that the samples drain more than
once, three ticks of half a second.

### LatencyProbe, LatencyHistogram and TerminalDashboard (lesson 5)

`LatencyProbe` runs the four programs on threads of target and other processes.
Of an exit program, the lookups of the target and the stamp (`Lookup`), the read
of the stamp (`Measure`), its deletion (`Delete`), the histogram (`Count`) and the
event (`Emit`) are separate steps.  `Measure` reads the element the lookup found:
it is free as soon as the entry is deleted or replaced and may hold the stamp of
another process by then.  Where the loader attaches a program is a constant of the
code (`Point`): all four sit at the *entry* of their function.  The stack is read
through a pointer as well.  Elements of `target_pids` are only freed by a second
`Put` of their process; `StackRead` then allows any stack that was put so far,
which is more than the code does.

- `StampUsedOnce`: a thread alone in its process is measured against stamps of its
  own only, and against none twice.  With two threads it is not so, and the
  property says only what holds.
- `CountedAsReported`: every counted sample has an event about to be sent, in
  the ring, shown, or dropped.
- `StampsFit`: the map of stamps never refuses one.
- `PairsEntryWithExit` is what the declaration of `start_ts` says; violated,
  because the exit programs run at entries (finding).

Run `latency_probe`: two threads of one target (sharing of stamps needs two
threads of one process), one of another, one of a process that is no target; room
for two stamps, two more elements that the CPUs keep for replacing, three calls of
either function, a ring of one event.  Three calls let one thread's element go to
another process while a second thread of its own holds the pointer.  Run
`latency_probe_pairing`: the three threads of targets.  Threads of one process, and
elements, are interchangeable and permuted.

`LatencyHistogram` takes `log2_bucket` and the percentile loop as operators and
the reporter as steps (`Begin`, `ReadSlot`, `Publish`), with the CPUs counting in
between and a `Lookup` that may fail.

- `ReportIsBetween`: a slot that was read has every sample of its power of two
  that was there when the reading began and none that came after its end, by
  `2^s <= v < 2^(s+1)` on the samples; one that was not read is empty.
- `PercentilesAreRanks`: each percentile's slot is that of the sample of that
  rank, by a definition on the samples themselves.

In run `measurements`: four-bit latencies 0, 3, 4, 15 (both ends, and both
sides of a boundary), two CPUs, three samples, a middle target of two thirds so
that three samples tell the percentiles apart.

`TerminalDashboard` is the loop of `dashboard/src/main.rs` on any sequence of
lines: a line that is a whole object (`ReadWhole`), a blank one (`ReadBlank`), any
other (`Collect`), named for what the loop and the parser tell apart.  Headers,
log lines and the pieces of the loader's own reports are among the kinds.

- `RenderedReports`: just these reports are rendered, once and in order: one on a
  single line, always; one on several lines, if it is all there is between two
  closing braces and every part before it began with an opening brace.  An inner
  closing brace or a header leaves a part behind that does not, and that is never
  got rid of.

In run `measurements`: every input of six lines of eight kinds.  A report takes
three lines, so there is room for whatever spoils it before, within and after it,
and for two of them.

### WebDashboard and LoadGen (lesson 5)

`WebDashboard`: `ingest_load`, `ingest_histogram` (one lock held over search
and change), a metrics request that reads three parts under three locks, the
task that connects and then writes the flag.

- `PayloadIsFresh`: no payload is older than its request.
- `LoadNotBehindHistograms`: a torn read still shows no load summary older than
  the one ingested before a histogram it shows; the order of the reads makes it
  so.
- `ReachabilitySettles` (liveness; the interval ticks for ever and a connection
  attempt ends).

Run `web_dashboard`: two concurrent requests, two series, three ingests, two
changes of SurrealDB (up, and down again).

`LoadGen`: workers with deadline and pace on a clock that may make any of them
late, the shared counters, joins and the report.

- `PacedRequests`: no worker is ever ahead of its pace, stalls included.
- `EveryRequestCounted`: counters and histograms agree, up to the requests
  being counted.

In run `measurements`: two workers, an odd rate that does not divide, a horizon beyond the
deadline so that workers finish late.

Run `measurements` checks `LatencyHistogram`, `TerminalDashboard` and `LoadGen`.
They share no state, so `MCMeasurements` lets one of them run in a behaviour while
the others stay as they started: every behaviour of each alone is checked, and
interleaving them would show nothing more.

### HostBoot and TenantQueries (lesson 1)

`run_host` from `build` to `serving` or `failed`; `Statement` is one turn of
`bootstrap_schema`; the pool is the queue of idle connections, the connections
ordered and not open yet, and the ones that are held.  A connection that was idle
for too long expires (`Reap`), on `mem://` with its data store, and is replaced.
The server changes state and the host is killed and started again at any time.

`TenantQueries` adds the tenants: any number of concurrent calls of `exec` and
`relate` once the host serves (`Call`, `Get`, `GetFails`, and the ends of a call:
`Answered`, `QueryFails`, `DecodeFails`).  Nothing in the repository calls the
adapter, so the tenants are an open client.

- `PoolWithinSize`: idle, ordered and held connections together never exceed
  `--pool-size`, and none is given to two users.  Much of this is bb8's work; the
  repository's part is the size it asks for and when it holds a connection.
- `ServerHasSchema`: past the bootstrap, and whenever the server holds demo data,
  a server that rejected nothing has every statement in force, whatever failed
  in this start or in those before it.
- `SchemaInOneStore`: on `mem://`, where every connection has a data store of
  its own, the bootstrap leaves one store with the whole schema, which is there
  until its connection expires, and no other ever has a part of it, because it
  holds one connection throughout.
- `TenantsSeeSchema` is what the host announces before it serves; violated on
  `mem://`, where a tenant is lent another connection (finding).

Run `host_boot`: three tenants, so that two hold the pool's two connections and
the third times out; a pool smaller than the four warm connections of the code;
three statements (a first, a middle and a last one to fail at); three changes of
the server, two restarts.  Callers are interchangeable, so they are permuted
(`Symmetry`); no property of the run is a liveness property.  Run
`host_boot_tenants`: the same instance.  Connections may expire at any time while
the pool is in use, whatever the 300 seconds are next to the rest.

## What the runs show

`PROJECT.json` says for each run what it asks.  Runs marked `pass` finish
without error; those marked `violation` check a sentence of the documentation
or a comment, and TLC finds a behaviour of the code that contradicts it.  The
three disagreements that are checked:

1. `edges.wit` promises partial insertion at capacity; the batch is refused
   (`csr_capacity`).
2. `start_ts` is declared for pairing entry with exit; the exit programs are
   attached at function entry (`latency_probe_pairing`).
3. The host announces that the schema is there and then waits for tenants; on
   `mem://` most of their connections lead to a store without it
   (`host_boot_tenants`).

Others met while modelling, and not checked by a run of their own:

- `start_ts` is declared to hold stamps "per-PID"; when a process has several
  threads, one can read an element that another has freed meanwhile, and be
  measured against the stamp of another process (`Measure`; so `StampUsedOnce` is
  about processes of one thread).
- The detector's loader prints `reads` of a node; a node can be printed for the
  reads of another, whose element its count was taken over from (`ReadCount`; so
  `HotWasRead` and `CrossingReported` have an exception for `mixed`).
- `edges.wit` promises a new generation for every successful batch; an empty
  one succeeds without (`AddNothing`).
- `queries_per_sec`, said to be over a window of about a second, averages over
  the time since somebody last asked (`Rolled`).
- `--rps` is exceeded when it is smaller than the number of workers, each of
  which sends at least one request a second (`RpsPerWorker`).
- On `mem://` the schema and the demo data go to different data stores, since
  the event loop gets another connection than the bootstrap (`Take`).
- A schema statement that the server rejects does not end the bootstrap
  (`Statement`: only a failed query does).
- The terminal dashboard renders none of the loader's reports: the closing brace
  of the inner `buckets` object ends the block early, it does not parse, and the
  brace left over spoils every block after it, as does a header line (`Collect`).
- A process named by `--surreal` and again by `--polyglot` is under the second
  stack from then on; a sample counted before and an event sent after name
  different stacks (`Register`, and the hypothesis of `HistogramsBalance`).
- The gauge described as "Active pool connections" is set to all the pool's
  connections, idle ones included (`host/src/main.rs:207`).
- `payload <spec.json>` of the control plane checks for two arguments and reads a
  third (`control-plane/main.go`), so the documented call panics.
- The orchestrator multiplies tenants by requests in 32 bits on one line
  (`orchestrator/src/lib.rs:62`) and in 64 a few lines later.
- A server that is merely down can be taken for one whose name does not resolve
  (`should_fallback_to_mem`).

Deadlock checking is off where the program ends (`GraphBfs`, `LoadGen`,
`HostBoot`, the demo of `GraphBenchmark`), or where its input, which the model
bounds, may run out (`HotEdge`, `LatencyProbe`, `SchemaPropagation`,
`LatencyHistogram`, `TerminalDashboard`).

Bounds on the number of calls, reads, pushes, samples, restarts and ticks
(`MaxReads`, `MaxPushes`, `MaxLines`, `MaxSims`, `MaxCalls`, `MaxSamples`, `MaxIngests`,
`MaxFlips`, `MaxQueries`, `MaxTime`, `Horizon`, `MaxChanges`, `MaxRestarts`)
are guards of the action they bound and are named in the `CONSTANTS` of their
module.  Numbers are small where only their order or equality matters; `2^32`
wrap-around of counters is not modelled (a count of `u64` reads or a `u32`
generation does not get there), and where width could matter it is a listed
hazard.

## What is proved

TLAPS checks the theorems for every value of the constants that satisfies the
modules' assumptions.  The invariants of the runs are not inductive by
themselves; each proof module defines strengthened ones (`IInv`, `HostInv`,
...) and proves that they hold initially, that every action keeps them, and
that they imply the property.

| Module | Theorems | Argument |
|---|---|---|
| `CountingLemmas` | on finite sets of naturals: a down-set is an interval, a least and a greatest element exist, an injection of `1..n` into `0..n-1` is onto; how often a value is in a list after `Append`, `Tail` and concatenation; the sum of a function on a finite set (`SumFunctionOnSet`): its type, one summand taken out, two disjoint sets, a function that changes at one point or is smaller everywhere | Each induction is the choice of a least natural or a smallest set that has no proper counterexample below it (`LeastNatural`, `SmallestSet`). A sum is the number of cells under the graph of the function, and this number satisfies the recursion of the fold, so the fold is that number. |
| `CsrGraphProofs` | `TypeOK`, `RowsPartitionSlots`, `NeverCorrupted`, `RowsAscending`, `NodeCountCoversSources` | The five are inductive together. The core is `Rebuild`: `Rank` is a permutation (counting lemmas), so `Sorted` is a sorted rearrangement; counting by source makes `row_ptr` split it; hence the cursor of the k-th edge is slot k, and the scatter writes each slot once, in range. |
| | `ImplementsEdgeStore`, of the graph alone and under both clients | Occurrences are preserved by sorting, reading rows back and scattering, so the bag after a rebuild is the bag before plus the batch; queries then answer from the bag. |
| | `BenchmarkAccounts`, `HotNodesFound`, `SlotsInMemory` | Every step of the demo is an `AddEdgeBatch`, so the graph's invariant carries over; the batches so far bound `edge_count`, which leaves room for the next. Rows at or above `node_count` are empty, so the scan misses none. Under `LayoutFits` no offset wraps. |
| `SchemaPropagationProofs` | `TypeOK`, `DecodedAsStamped`, `DecodedVersionsAscend`, `TrapsOnlyOnOversizedSchema` | Everything in the map, in flight, in a frame or in a component is a meaning of its version; the component's version never falls, and every decoded frame had its version. A step into the trap needs a held descriptor longer than the arrays, which was pushed for that tenant; what was pushed stays so. |
| `HotEdgeProofs` | `TypeOK`, `HotWasRead`, `CrossingReported` | Every count, in an element or about to be written, and the reads without a count yet are covered by the reads made: those of the node, or of all nodes once a count was taken over. An element that is linked is of its node and of no other. At or above the threshold a count comes from one that was written at it, whose writer has reported or is about to. |
| `GraphBfsProofs` | `TypeOK`, `NoDocumentTwice`, `WithinLimit`, `PanicsOnlyOnOverrun` | Rows of distinct nodes are disjoint, results come from rows of visited nodes, and the edges still to be scanned in the row under way are in no result. |
| | `NearestFirst`, `AnswersTheQuery` | `BallEquation`: the recursive function `Ball` exists and satisfies its equation. `AnswerInv`: the queue holds the depth of the row under way and then at most one more; the row under way belongs to a node that is in the ball of its depth and in no smaller one; where the edges of a visited node lead was visited too, or waits in the queue one step further out, and their documents were taken. So results come in the order of balls, and when the queue is empty the visited nodes are the ball of `max_depth`. |
| `HostProofs` | of the lesson 3 host: `TypeOK`, `NoQueryLost`, `SamplesAreMostRecent`, `WindowsPartitionQueries`, `ActiveSlotsAreRecent` | Recorded, working, channel and sending are consecutive runs of numbers that end at `made`; the samples are a run that ends at the last recorded one. What was pruned is older than a second and stays so, since time does not go back. |
| | of the lesson 1 host with its callers: `PoolWithinSize`, `ServerHasSchema`, `SchemaInOneStore` | Who holds a connection follows from where `run_host` and each call are; idle connections, those in use and those being opened are never more than the size of the pool, and no connection is in two places (`PoolInv`). Statement by statement, the server has what was sent and not rejected; on `mem://` the connection that `run_host` holds is the one with the schema, and being held it does not expire before the bootstrap ends. |
| `MeasurementProofs` | of the probe: `TypeOK`, `StampUsedOnce`, `StampsFit`, `CountedAsReported` | A stamp is the number of a call, set before the call's enter program ends; a thread alone in its process that has a pointer has the one of its process, whose element nobody else replaces or deletes; a sample whose stamp is still in the map is about to be deleted by that thread. Stamped processes are targets, so a stamp that is missing has room. Counts move from a thread that emits to the ring, and on; only a process put twice could change stacks in between. |
| | of the load generator: `PacedRequests`, `EveryRequestCounted` | The tick a worker waits for is its start plus an interval for each request it has begun; the histograms add up to the counters but for the workers between recording and counting. |
| `DashboardProofs` | of the page: `TypeOK`, `PayloadIsFresh`, `LoadNotBehindHistograms` | What a request has read of a part is no older than the part was at its arrival and no newer than it is now; parts only grow newer, and the histograms are read first. |
| | of the histogram: `ReportIsBetween`, `PercentilesAreRanks` | The columns of the CPUs add up to the samples counted so far, slot by slot, so a slot that is read lies between `before` and `counted`. When these are equal, the slots below j add up to the samples they stand for, and the first slot with the target's share is that of the least latency with this share, which is a sample. |
| | of the terminal: `RenderedReports` | The lines collected are those since the closing brace that last ended a block. If every part so far began with an opening brace they are the last part; otherwise they start with a line that is not one, and no line changes this. |

Assumptions: `CapacityAssumption`, `BatchAssumption`, `LayoutFits`, `BenchmarkAssumption`,
`DrawsAreEdges`, `DrawnAreBatches`, `SchemaAssumption`, `HotEdgeAssumption`,
`GraphBfsAssumption`, `QueryPipelineAssumption`, `HostBootAssumption`,
`LatencyProbeAssumption`, `LatencyHistogramAssumption`,
`TerminalDashboardAssumption`, `LoadGenAssumption` and `WebDashboardAssumption`, which the runs evaluate.  They say that sizes are
natural numbers (positive where the code divides or indexes by them), that sets
the models sum over are finite, and that inputs have the code's types;
`SampleCap >= 4` is needed because a smaller cap would drain nothing, and
`LayoutFits` is what makes 32-bit offsets the true ones.

Some theorems have a hypothesis of their own.  `HistogramsBalance` supposes
`TargetsDistinct`, that no process is on the command line twice.
`ReportsAreBetween` and `PercentilesAreOfRanks` suppose `SlotsArePowers`: that
`log2_bucket`, with the widths it is given, finds the slot of the latency's power
of two.  This is a statement about constants only; the provers know nothing of
`2 ^ n` for a variable `n`, so it is evaluated instead, for the widths and
latencies of the run (`MCSlotsArePowers`).  The bounds on behaviours
(`MaxSamples`, `MaxLines` and their like) are arbitrary naturals in every theorem.

**Only model-checked.**  The liveness properties `CatchesUp`, `HotIsPrinted`,
`Terminates`, `QueriesGetRecorded` and `ReachabilitySettles` (fairness and
`ENABLED` are beyond the prover), and `SlotsArePowers`.  Every other property of
the passing runs is a theorem.  No module that is proved about declares a
RECURSIVE operator.

**Only proved.**  `TypeOK` of the modules with a proof module,
`NodeCountCoversSources` and `WithinLimit` hold for every value of the
constants, so no run repeats them; TLC checked them on the small
instances before they were proved.

## What is not modelled

- Formatting, HTML, shell, build files; pages that animate invented data.
- The L1 guest component and the L5 orchestrator: pure functions of one input,
  with no state, called by nothing in the repository.  The orchestrator's
  32-bit product is a listed hazard, but its factors are beyond the integers TLC
  computes with.
- The L1 kernel latency probe: the same structure of stamps and a ring as
  `LatencyProbe`, keyed by thread, whose ring no program of the repository
  reads.
- The L1 metrics, demo and stress commands: counters incremented by timers, and
  rendering.
- How a report is drawn on the terminal or in the page.
- How the Go eBPF library decodes a per-CPU value into the reporter's type.
- In `HostBoot`: the times after which connections expire (they may at any time),
  the preflight connection, gauges.  The server's data is assumed to survive
  the server; with the in-memory server of `scripts/start.sh` it does not.  In
  `TenantQueries`: what a query answers, and its latency.
- In `GraphBenchmark`: the refusal of too little memory (`main` passes exactly
  `required_bytes`), progress bars and timing.
- In `QueryPipeline`: the smoothing in floating point, the start-up parameters
  (a rate above 10^9 gives an interval of zero, on which tokio panics).

## Plan

Done, in this order: `CsrGraph`/`EdgeStore` with proofs and refinement,
`SchemaPropagation`, `HotEdge`, `GraphBfs`, `QueryPipeline` with proofs,
`LatencyProbe`, `LatencyHistogram`, `WebDashboard`, `LoadGen`, `HostBoot`;
then `GraphBenchmark` (layout and demo, composed with `CsrGraph`),
`TerminalDashboard`, `TenantQueries` (composed with `HostBoot`), the proofs about the demo, the schema traps, the
latency probe and the web dashboard; then those about the answers of the
search, the first host, the load generator, the histogram and the terminal
dashboard; then elements of kernel maps that are used again (`HotEdge`,
`LatencyProbe`), the expiry of connections (`HostBoot`) and arbitrary input of the
terminal dashboard, with their proofs.

Left, to model:

1. A server that loses its data, in `HostBoot`.
2. An abstract "versioned register with lossy readers" that
   `SchemaPropagation` refines, and an abstract counter with an alarm that
   `HotEdge` refines.
3. The composition of `GraphBfs` into `QueryPipeline` through the panic.

Left, to prove: that the specifications of item 2 are refined, once they are
stated; the safety parts of the liveness properties, as step lemmas that say
what a step under way brings nearer.
