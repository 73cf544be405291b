------------------------------- MODULE GraphBfs -------------------------------
(***************************************************************************)
(* The query of lesson 3: GraphEngine::bfs_posts in nexuscore_graph        *)
(* (src/nexuscore_graph/src/lib.rs), a breadth-first search over a CSR     *)
(* graph that collects the document of every edge it scans.                *)
(*                                                                         *)
(* from_blob checks the lengths of the four arrays and nothing of what is  *)
(* in them, so a graph here is any row_ptr, any col_idx, and for each edge *)
(* whether its document lies inside the arena.                             *)
(*                                                                         *)
(* The state is that of one call, stopped after every node taken from the  *)
(* queue and every edge scanned.                                           *)
(***************************************************************************)
EXTENDS Naturals, Sequences

CONSTANTS Graphs,    \* the graphs that from_blob may have accepted
          Roots, MaxDepths,
          Limits     \* max_results, where 0 was replaced by u32::MAX

N(g) == g.n_nodes
Nnz(g) == g.nnz

IsGraph(g) ==
  /\ g.n_nodes \in Nat /\ g.nnz \in Nat
  /\ g.row_ptr \in [0 .. N(g) -> Nat]
  /\ g.col_idx \in [0 .. Nnz(g) - 1 -> Nat]
  /\ g.in_arena \in [0 .. Nnz(g) - 1 -> BOOLEAN]

ASSUME GraphBfsAssumption ==
  /\ \A g \in Graphs : IsGraph(g)
  /\ Roots \subseteq Nat /\ MaxDepths \subseteq Nat /\ Limits \subseteq Nat \ {0}

VARIABLES query,    \* graph, root, max_depth and limit of the call
          visited, queue, results,  \* results: the edges whose documents were taken
          row,      \* the edges of the current node still to scan, and its depth
          status    \* "running", "returned" or "panicked"

vars == <<query, visited, queue, results, row, status>>

graph == query.graph

NoRow == [i |-> 0, end |-> 0, depth |-> 0]
Scanning == row.i < row.end

Init ==
  /\ query \in [graph : Graphs, root : Roots, max_depth : MaxDepths, limit : Limits]
  /\ visited = {}
  /\ queue = <<[node |-> query.root, depth |-> 0]>>
  /\ results = <<>>
  /\ row = NoRow
  /\ status = "running"

(* Mutant of Rest: the node is looked at but stays in the queue. *)
RestKeepsHead == queue

Rest == Tail(queue)

(* Mutant of TooDeep: one level too many. *)
TooDeepLater(d) == d > query.max_depth

TooDeep(d) == d >= query.max_depth

(* The node at the head is too deep, was visited, or is not in the graph.  *)
(* The last kind is marked visited all the same.                           *)
Skip ==
  LET head == Head(queue)
  IN /\ TooDeep(head.depth) \/ head.node \in visited \/ head.node >= N(graph)
     /\ visited' = IF TooDeep(head.depth) THEN visited ELSE visited \cup {head.node}
     /\ row' = NoRow

RowOf(head) ==
  [i |-> graph.row_ptr[head.node], end |-> graph.row_ptr[head.node + 1], depth |-> head.depth]

(* Mutant of Expand: the node is not marked. *)
ExpandUnmarked ==
  LET head == Head(queue)
  IN /\ ~ TooDeep(head.depth) /\ head.node \notin visited /\ head.node < N(graph)
     /\ visited' = visited
     /\ row' = RowOf(head)

Expand ==
  LET head == Head(queue)
  IN /\ ~ TooDeep(head.depth) /\ head.node \notin visited /\ head.node < N(graph)
     /\ visited' = visited \cup {head.node}
     /\ row' = RowOf(head)

Dequeue ==
  /\ status = "running" /\ ~ Scanning /\ queue # <<>>
  /\ queue' = Rest
  /\ Skip \/ Expand
  /\ UNCHANGED <<query, results, status>>

(* Mutant of Enqueued: neighbours go to the front, a stack for a queue. *)
EnqueuedInFront(n, d) == <<[node |-> n, depth |-> d]>> \o queue

Enqueued(n, d) == Append(queue, [node |-> n, depth |-> d])

Full(res) == Len(res) >= query.limit

(* Mutant of InBounds: the last edge is taken for out of bounds. *)
InBoundsButLast(i) == i + 1 < Nnz(graph)

InBounds(i) == i < Nnz(graph)

(* An edge past the arrays panics: only lengths were checked at load time. *)
ScanPanics ==
  /\ status = "running" /\ Scanning
  /\ ~ InBounds(row.i)
  /\ status' = "panicked"
  /\ UNCHANGED <<query, visited, queue, results, row>>

ScanEdge ==
  /\ status = "running" /\ Scanning
  /\ InBounds(row.i)
  /\ results' = IF graph.in_arena[row.i] THEN Append(results, row.i) ELSE results
  /\ IF Full(results')
     THEN status' = "returned" /\ UNCHANGED <<queue, row>>
     ELSE /\ queue' = Enqueued(graph.col_idx[row.i], row.depth + 1)
          /\ row' = [row EXCEPT !.i = @ + 1]
          /\ status' = status
  /\ UNCHANGED <<query, visited>>

Return ==
  /\ status = "running" /\ ~ Scanning /\ queue = <<>>
  /\ status' = "returned"
  /\ UNCHANGED <<query, visited, queue, results, row>>

Next == Dequeue \/ ScanPanics \/ ScanEdge \/ Return

Spec == Init /\ [][Next]_vars

(* The call runs on a thread of its own until it returns. *)
FairSpec == Spec /\ WF_vars(Next)

-------------------------------------------------------------------------------
TypeOK ==
  /\ query \in [graph : Graphs, root : Roots, max_depth : MaxDepths, limit : Limits]
  /\ visited \subseteq Nat
  /\ queue \in Seq([node : Nat, depth : 0 .. query.max_depth])
  /\ results \in Seq(0 .. Nnz(graph) - 1)
  /\ row \in [i : Nat, end : Nat, depth : Nat]
  /\ status \in {"running", "returned", "panicked"}

(* A graph whose rows partition its edges, as gen_graph.py writes it. *)
WellFormed(g) ==
  /\ g.row_ptr[0] = 0 /\ g.row_ptr[N(g)] = Nnz(g)
  /\ \A m, n \in 0 .. N(g) : m <= n => g.row_ptr[m] <= g.row_ptr[n]

RowEdges(g, n) == g.row_ptr[n] .. g.row_ptr[n + 1] - 1

(* The nodes of g at most k edges away from the root. *)
Ball(g, root) ==
  LET ball[k \in Nat] ==
        {n \in 0 .. N(g) - 1 :
           IF k = 0 THEN n = root
           ELSE n \in ball[k - 1]
                \/ \E m \in ball[k - 1] : \E e \in RowEdges(g, m) : g.col_idx[e] = n}
  IN ball

(* The edges the documents of which the query asks for, by distance.       *)
EdgesWithin(k) ==
  IF k = 0 THEN {}
  ELSE UNION {{e \in RowEdges(graph, n) : graph.in_arena[e]} : n \in Ball(graph, query.root)[k - 1]}

Collected == {results[i] : i \in DOMAIN results}

(* No document is returned twice, along however many paths a node can be   *)
(* reached.                                                                *)
NoDocumentTwice ==
  WellFormed(graph) =>
    \A i, j \in DOMAIN results : results[i] = results[j] => i = j

(* What a call returns: no document from further away than max_depth, and  *)
(* all the others unless the limit cut the search short.                   *)
AnswersTheQuery ==
  status = "returned" /\ WellFormed(graph) =>
    /\ Collected \subseteq EdgesWithin(query.max_depth)
    /\ Len(results) = query.limit \/ EdgesWithin(query.max_depth) \subseteq Collected

(* A search cut short by the limit returns the nearest documents: one from *)
(* k edges away is taken only after all from fewer than k.                 *)
NearestFirst ==
  WellFormed(graph) =>
    \A i \in DOMAIN results : \A k \in 1 .. query.max_depth :
      results[i] \notin EdgesWithin(k) => EdgesWithin(k) \subseteq {results[j] : j \in 1 .. i - 1}

(* Never more documents than the caller asked for. *)
WithinLimit == Len(results) <= query.limit

(* The call panics only if some row of the graph reaches past its edges.   *)
PanicsOnlyOnOverrun ==
  status = "panicked" => \E n \in 0 .. N(graph) : graph.row_ptr[n] > Nnz(graph)

(* Every call comes to an end, on graphs with cycles too. *)
Terminates == <>(status # "running")
===============================================================================
