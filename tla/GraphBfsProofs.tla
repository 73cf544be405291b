---------------------------- MODULE GraphBfsProofs ----------------------------
(***************************************************************************)
(* Proofs about GraphBfs, for all graphs that from_blob may accept and all *)
(* queries.  The invariant says of the row that is being scanned that it   *)
(* is the row of a visited node, and of the results that each comes from   *)
(* such a row and from none of the edges still to scan; then, of the       *)
(* search, that it goes outward and leaves nothing behind.                 *)
(***************************************************************************)
EXTENDS GraphBfs, CountingLemmas, TLAPS

InRow(e, n) == n \in 0 .. N(graph) - 1 /\ graph.row_ptr[n] <= e /\ e < graph.row_ptr[n + 1]

RowUnderWay ==
  Scanning =>
    /\ row.depth < query.max_depth
    /\ \E n \in visited : /\ n \in 0 .. N(graph) - 1
                          /\ graph.row_ptr[n] <= row.i
                          /\ row.end = graph.row_ptr[n + 1]

Overrun == \E n \in 0 .. N(graph) : graph.row_ptr[n] > Nnz(graph)

LimitHeld ==
  /\ Len(results) <= query.limit
  /\ status = "running" => Len(results) < query.limit

ResultsFromRows ==
  \A i \in DOMAIN results : \E n \in visited : InRow(results[i], n)

EdgesLeftAreNew ==
  status = "running" /\ Scanning =>
    \A i \in DOMAIN results : results[i] < row.i \/ row.end <= results[i]

DocumentsOnce ==
  WellFormed(graph) =>
    /\ \A i, j \in DOMAIN results : results[i] = results[j] => i = j
    /\ ResultsFromRows
    /\ EdgesLeftAreNew

IInv ==
  /\ TypeOK
  /\ RowUnderWay
  /\ LimitHeld
  /\ status = "panicked" => Overrun
  /\ DocumentsOnce

(* The graph of a call is one of the graphs. *)
LEMMA QueryType ==
  ASSUME TypeOK
  PROVE  /\ N(graph) \in Nat /\ Nnz(graph) \in Nat
         /\ graph.row_ptr \in [0 .. N(graph) -> Nat]
         /\ graph.col_idx \in [0 .. Nnz(graph) - 1 -> Nat]
         /\ query.max_depth \in Nat /\ query.limit \in Nat \ {0} /\ query.root \in Nat
<1>1. query.graph \in Graphs /\ query.max_depth \in MaxDepths /\ query.limit \in Limits /\ query.root \in Roots
  BY DEF TypeOK
<1>2. IsGraph(graph)
  BY <1>1, GraphBfsAssumption DEF graph
<1>3. query.max_depth \in Nat /\ query.limit \in Nat \ {0} /\ query.root \in Nat
  BY <1>1, GraphBfsAssumption
<1> QED BY <1>2, <1>3 DEF IsGraph, N, Nnz

(* An edge is in the row of one node only. *)
LEMMA RowsAreDisjoint ==
  ASSUME TypeOK, WellFormed(graph), NEW m, NEW n, NEW e \in Nat, InRow(e, m), InRow(e, n)
  PROVE  m = n
<1>1. /\ m \in 0 .. N(graph) - 1 /\ n \in 0 .. N(graph) - 1
      /\ graph.row_ptr[m] <= e /\ e < graph.row_ptr[m + 1]
      /\ graph.row_ptr[n] <= e /\ e < graph.row_ptr[n + 1]
  BY DEF InRow
<1>2. N(graph) \in Nat /\ \A k \in 0 .. N(graph) : graph.row_ptr[k] \in Nat
  BY QueryType
<1>3. \A k, l \in 0 .. N(graph) : k <= l => graph.row_ptr[k] <= graph.row_ptr[l]
  BY DEF WellFormed
<1>4. ASSUME NEW k \in 0 .. N(graph) - 1, NEW l \in 0 .. N(graph) - 1, k < l,
             e < graph.row_ptr[k + 1], graph.row_ptr[l] <= e
      PROVE  FALSE
  <2>1. k + 1 \in 0 .. N(graph) /\ l \in 0 .. N(graph) /\ k + 1 <= l
    BY <1>2, <1>4
  <2>2. graph.row_ptr[k + 1] <= graph.row_ptr[l]
    BY <1>3, <2>1
  <2> QED BY <1>2, <1>4, <2>1, <2>2
<1> QED BY <1>1, <1>2, <1>4

(* A call starts with the root in the queue and nothing else. *)
LEMMA InitEstablishesIInv == Init => IInv
<1> SUFFICES ASSUME Init PROVE IInv
  OBVIOUS
<1>1. query \in [graph : Graphs, root : Roots, max_depth : MaxDepths, limit : Limits]
  BY DEF Init
<1>2. query.max_depth \in Nat /\ query.limit \in Nat \ {0} /\ query.root \in Nat
  BY <1>1, GraphBfsAssumption
<1>3. TypeOK
  <2>1. [node |-> query.root, depth |-> 0] \in [node : Nat, depth : 0 .. query.max_depth]
    BY <1>2
  <2>2. queue \in Seq([node : Nat, depth : 0 .. query.max_depth])
    BY <2>1 DEF Init
  <2> QED BY <1>1, <2>2 DEF Init, TypeOK, NoRow
<1>4. ~ Scanning /\ Len(results) = 0 /\ DOMAIN results = {} /\ status = "running"
  BY DEF Init, Scanning, NoRow
<1> QED BY <1>2, <1>3, <1>4 DEF IInv, RowUnderWay, LimitHeld, DocumentsOnce, ResultsFromRows, EdgesLeftAreNew

(* A node that is expanded was not visited before, so none of its edges    *)
(* has been scanned.                                                       *)
LEMMA DequeuePreservesIInv ==
  ASSUME IInv, Dequeue
  PROVE  IInv'
<1>1. /\ status = "running" /\ ~ Scanning /\ queue # <<>>
      /\ queue' = Tail(queue)
      /\ UNCHANGED <<query, results, status>>
      /\ Skip \/ Expand
  BY DEF Dequeue, Rest
<1>2. TypeOK
  BY DEF IInv
<1>3. Head(queue) \in [node : Nat, depth : 0 .. query.max_depth]
  <2> DEFINE Entry == [node : Nat, depth : 0 .. query.max_depth]
  <2>1. queue \in Seq(Entry)
    BY <1>2 DEF TypeOK
  <2> HIDE DEF Entry
  <2>2. Head(queue) \in Entry
    BY <1>1, <2>1
  <2> QED BY <2>2 DEF Entry
<1>4. /\ visited \subseteq visited' /\ visited' \subseteq visited \cup {Head(queue).node}
  BY <1>1 DEF Skip, Expand
<1>5. graph' = graph
  BY <1>1 DEF graph
<1>6. queue' \in Seq([node : Nat, depth : 0 .. query.max_depth])
  BY <1>1, <1>2 DEF TypeOK
<1>7. LimitHeld' /\ status' # "panicked"
  BY <1>1 DEF IInv, LimitHeld
<1>8. WellFormed(graph) => ResultsFromRows'
  BY <1>1, <1>4, <1>5 DEF IInv, DocumentsOnce, ResultsFromRows, InRow
<1>9. CASE Skip
  <2>1. row' = NoRow
    BY <1>9 DEF Skip
  <2>2. TypeOK'
    BY <1>1, <1>2, <1>3, <1>4, <1>6, <2>1 DEF TypeOK, NoRow, graph
  <2>3. ~ Scanning'
    BY <2>1 DEF Scanning, NoRow
  <2>4. RowUnderWay' /\ EdgesLeftAreNew'
    BY <2>3 DEF RowUnderWay, EdgesLeftAreNew
  <2> QED BY <1>1, <1>5, <1>7, <1>8, <2>2, <2>4 DEF IInv, DocumentsOnce
<1>10. CASE Expand
  <2> DEFINE n == Head(queue).node
  <2> DEFINE d == Head(queue).depth
  <2>1. /\ n \in 0 .. N(graph) - 1 /\ n \notin visited /\ n \in visited'
        /\ d \in Nat /\ d < query.max_depth
        /\ row' = [i |-> graph.row_ptr[n], end |-> graph.row_ptr[n + 1], depth |-> d]
    <3>1. n < N(graph) /\ n \notin visited /\ visited' = visited \cup {n} /\ ~ (d >= query.max_depth)
      BY <1>10 DEF Expand, TooDeep
    <3>2. row' = RowOf(Head(queue))
      BY <1>10 DEF Expand
    <3> QED BY <1>2, <1>3, <3>1, <3>2, QueryType DEF RowOf
  <2> HIDE DEF n, d
  <2>2. /\ row'.i = graph.row_ptr[n] /\ row'.end = graph.row_ptr[n + 1] /\ row'.depth = d
        /\ graph.row_ptr[n] \in Nat /\ graph.row_ptr[n + 1] \in Nat
    <3>1. n \in 0 .. N(graph) /\ n + 1 \in 0 .. N(graph)
      BY <1>2, <2>1, QueryType
    <3> QED BY <1>2, <2>1, <3>1, QueryType
  <2>3. TypeOK'
    <3>1. row' \in [i : Nat, end : Nat, depth : Nat]
      BY <2>1, <2>2
    <3>2. visited' \subseteq Nat
      BY <1>2, <1>3, <1>4 DEF TypeOK
    <3> QED BY <1>1, <1>2, <1>6, <3>1, <3>2 DEF TypeOK, graph
  <2>4. RowUnderWay'
    BY <1>1, <1>5, <2>1, <2>2 DEF RowUnderWay, N
  <2>5. ASSUME WellFormed(graph), NEW i \in DOMAIN results
        PROVE  results[i] < row'.i \/ row'.end <= results[i]
    <3>1. PICK m \in visited : InRow(results[i], m)
      BY <2>5 DEF IInv, DocumentsOnce, ResultsFromRows
    <3>2. m # n
      BY <2>1, <3>1
    <3>3. results[i] \in Nat
      <4>1. results \in Seq(0 .. Nnz(graph) - 1) /\ Nnz(graph) \in Nat
        BY <1>2, QueryType DEF TypeOK
      <4> DEFINE Range0 == 0 .. Nnz(graph) - 1
      <4>2. results[i] \in Range0
        <5> HIDE DEF Range0
        <5>1. results \in Seq(Range0)
          BY <4>1 DEF Range0
        <5> QED BY <2>5, <5>1
      <4> QED BY <4>1, <4>2
    <3>4. ~ InRow(results[i], n)
      BY <1>2, <2>5, <3>1, <3>2, <3>3, RowsAreDisjoint
    <3> QED BY <2>1, <2>2, <3>3, <3>4 DEF InRow
  <2>6. WellFormed(graph) => EdgesLeftAreNew'
    BY <1>1, <2>5 DEF EdgesLeftAreNew
  <2> QED BY <1>1, <1>5, <1>7, <1>8, <2>3, <2>4, <2>6 DEF IInv, DocumentsOnce
<1> QED BY <1>1, <1>9, <1>10

(* The scan of an edge takes it from the edges left to the results.        *)
LEMMA ScanEdgePreservesIInv ==
  ASSUME IInv, ScanEdge
  PROVE  IInv'
<1> DEFINE e == row.i
<1>1. /\ status = "running" /\ Scanning
      /\ e < Nnz(graph)
      /\ results' = IF graph.in_arena[e] THEN Append(results, e) ELSE results
      /\ \/ /\ Len(results') >= query.limit
            /\ status' = "returned" /\ UNCHANGED <<queue, row>>
         \/ /\ ~ (Len(results') >= query.limit)
            /\ queue' = Append(queue, [node |-> graph.col_idx[e], depth |-> row.depth + 1])
            /\ row' = [row EXCEPT !.i = @ + 1]
            /\ status' = status
      /\ UNCHANGED <<query, visited>>
  BY DEF ScanEdge, InBounds, Full, Enqueued
<1>2. TypeOK
  BY DEF IInv
<1>3. graph' = graph
  BY <1>1 DEF graph
<1>4. /\ row \in [i : Nat, end : Nat, depth : Nat]
      /\ e \in Nat /\ row.end \in Nat /\ e < row.end
      /\ e \in 0 .. Nnz(graph) - 1
  BY <1>1, <1>2, QueryType DEF TypeOK, Scanning
<1>5. row.depth < query.max_depth /\ row.depth \in Nat /\ query.max_depth \in Nat
  BY <1>1, <1>2, QueryType DEF IInv, RowUnderWay, TypeOK
<1>6. PICK n \in visited : /\ n \in 0 .. N(graph) - 1
                           /\ graph.row_ptr[n] <= e
                           /\ row.end = graph.row_ptr[n + 1]
  BY <1>1 DEF IInv, RowUnderWay
<1>7. InRow(e, n)
  BY <1>4, <1>6 DEF InRow
<1>8. results \in Seq(0 .. Nnz(graph) - 1) /\ Len(results) \in Nat /\ Len(results) < query.limit
  BY <1>1, <1>2 DEF IInv, LimitHeld, TypeOK
<1> HIDE DEF e
<1>9. /\ results' \in Seq(0 .. Nnz(graph) - 1)
      /\ Len(results') \in {Len(results), Len(results) + 1}
      /\ \A i \in DOMAIN results' :
           \/ i \in DOMAIN results /\ results'[i] = results[i]
           \/ i = Len(results) + 1 /\ results'[i] = e
  <2>1. CASE results' = Append(results, e)
    BY <1>4, <1>8, <2>1
  <2>2. CASE results' = results
    BY <1>8, <2>2
  <2> QED BY <1>1, <2>1, <2>2
<1>10. row' \in [i : Nat, end : Nat, depth : Nat]
       /\ row'.i \in {e, e + 1} /\ row'.end = row.end /\ row'.depth = row.depth
       /\ (status' = "running" => row'.i = e + 1)
  BY <1>1, <1>4 DEF e
<1>11. queue' \in Seq([node : Nat, depth : 0 .. query.max_depth])
  <2> DEFINE Entry == [node : Nat, depth : 0 .. query.max_depth]
             entry == [node |-> graph.col_idx[e], depth |-> row.depth + 1]
  <2>1. entry \in Entry
    <3>1. graph.col_idx[e] \in Nat
      BY <1>2, <1>4, QueryType
    <3>2. row.depth + 1 \in 0 .. query.max_depth
      BY <1>5
    <3> QED BY <3>1, <3>2
  <2>2. queue \in Seq(Entry)
    BY <1>2 DEF TypeOK
  <2>3. queue' = queue \/ queue' = Append(queue, entry)
    BY <1>1
  <2> HIDE DEF Entry, entry
  <2>4. queue' \in Seq(Entry)
    BY <2>1, <2>2, <2>3
  <2> QED BY <2>4 DEF Entry
<1>12. TypeOK'
  BY <1>1, <1>2, <1>3, <1>9, <1>10, <1>11 DEF TypeOK
<1>13. RowUnderWay'
  <2>1. graph.row_ptr[n] \in Nat
    <3>1. n \in 0 .. N(graph)
      BY <1>2, <1>6, QueryType
    <3> QED BY <1>2, <3>1, QueryType
  <2>2. /\ row'.depth < query'.max_depth /\ n \in visited' /\ n \in 0 .. N(graph') - 1
        /\ graph'.row_ptr[n] <= row'.i /\ row'.end = graph'.row_ptr[n + 1]
    BY <1>1, <1>3, <1>4, <1>5, <1>6, <1>10, <2>1
  <2> QED BY <2>2 DEF RowUnderWay
<1>14. LimitHeld' /\ status' # "panicked"
  <2>1. query.limit \in Nat /\ query' = query
    BY <1>1, <1>2, QueryType
  <2> QED BY <1>1, <1>8, <1>9, <2>1 DEF LimitHeld
<1>15. ASSUME WellFormed(graph) PROVE \A i, j \in DOMAIN results' : results'[i] = results'[j] => i = j
  <2>1. \A i, j \in DOMAIN results : results[i] = results[j] => i = j
    BY <1>15 DEF IInv, DocumentsOnce
  <2>2. \A i \in DOMAIN results : results[i] # e
    <3>1. \A i \in DOMAIN results : results[i] < e \/ row.end <= results[i]
      BY <1>1, <1>15 DEF IInv, DocumentsOnce, EdgesLeftAreNew, e
    <3>2. \A i \in DOMAIN results : results[i] \in Nat
      BY <1>2, <1>8, QueryType
    <3> QED BY <1>4, <3>1, <3>2
  <2> QED BY <1>9, <2>1, <2>2
<1>16. ASSUME WellFormed(graph) PROVE ResultsFromRows'
  <2>1. \A i \in DOMAIN results : \E m \in visited : InRow(results[i], m)
    BY <1>16 DEF IInv, DocumentsOnce, ResultsFromRows
  <2>2. \A i \in DOMAIN results' : \E m \in visited : InRow(results'[i], m)
    BY <1>6, <1>7, <1>9, <2>1
  <2> QED BY <1>1, <1>3, <2>2 DEF ResultsFromRows, InRow
<1>17. ASSUME WellFormed(graph), status' = "running" PROVE EdgesLeftAreNew'
  <2>1. \A i \in DOMAIN results : results[i] < e \/ row.end <= results[i]
    BY <1>1, <1>17 DEF IInv, DocumentsOnce, EdgesLeftAreNew, e
  <2>2. \A i \in DOMAIN results' : results'[i] < e + 1 \/ row.end <= results'[i]
    <3>1. \A i \in DOMAIN results : results[i] \in Nat
      BY <1>2, <1>8, QueryType
    <3> QED BY <1>4, <1>9, <2>1, <3>1
  <2> QED BY <1>10, <1>17, <2>2 DEF EdgesLeftAreNew
<1>18. WellFormed(graph) => EdgesLeftAreNew'
  BY <1>17 DEF EdgesLeftAreNew
<1>19. DocumentsOnce'
  BY <1>3, <1>15, <1>16, <1>18 DEF DocumentsOnce
<1> QED BY <1>12, <1>13, <1>14, <1>19 DEF IInv

(* An edge out of bounds lies in a row that reaches past the edges.        *)
LEMMA ScanPanicsPreservesIInv ==
  ASSUME IInv, ScanPanics
  PROVE  IInv'
<1>1. /\ Scanning /\ ~ (row.i < Nnz(graph))
      /\ status' = "panicked"
      /\ UNCHANGED <<query, visited, queue, results, row>>
  BY DEF ScanPanics, InBounds
<1>2. TypeOK /\ graph' = graph
  BY <1>1 DEF IInv, graph
<1>3. Overrun
  <2>1. PICK n \in visited : n \in 0 .. N(graph) - 1 /\ row.end = graph.row_ptr[n + 1]
    BY <1>1 DEF IInv, RowUnderWay
  <2>2. n + 1 \in 0 .. N(graph) /\ Nnz(graph) \in Nat
    BY <1>2, <2>1, QueryType
  <2>3. graph.row_ptr[n + 1] > Nnz(graph)
    BY <1>1, <1>2, <2>1, <2>2 DEF Scanning, TypeOK
  <2> QED BY <2>2, <2>3 DEF Overrun
<1>4. TypeOK' /\ RowUnderWay' /\ LimitHeld'
  BY <1>1, <1>2 DEF IInv, TypeOK, RowUnderWay, LimitHeld, Scanning
<1>5. DocumentsOnce'
  BY <1>1, <1>2 DEF IInv, DocumentsOnce, ResultsFromRows, EdgesLeftAreNew, InRow
<1>6. Overrun'
  BY <1>2, <1>3 DEF Overrun
<1> QED BY <1>4, <1>5, <1>6 DEF IInv

(* Returning changes the status only.                                      *)
LEMMA ReturnPreservesIInv ==
  ASSUME IInv, Return \/ UNCHANGED vars
  PROVE  IInv'
<1>1. /\ status' = "returned" \/ status' = status
      /\ UNCHANGED <<query, visited, queue, results, row>>
  BY DEF Return, vars
<1>2. graph' = graph
  BY <1>1 DEF graph
<1>3. TypeOK' /\ RowUnderWay' /\ LimitHeld'
  BY <1>1, <1>2 DEF IInv, TypeOK, RowUnderWay, LimitHeld, Scanning
<1>4. DocumentsOnce'
  BY <1>1, <1>2 DEF IInv, DocumentsOnce, ResultsFromRows, EdgesLeftAreNew, InRow, Scanning
<1>5. status' = "panicked" => Overrun'
  BY <1>1, <1>2 DEF IInv, Overrun
<1> QED BY <1>3, <1>4, <1>5 DEF IInv

(* Every step keeps the invariant.                                         *)
LEMMA NextPreservesIInv == IInv /\ [Next]_vars => IInv'
<1> QED BY DequeuePreservesIInv, ScanPanicsPreservesIInv, ScanEdgePreservesIInv,
           ReturnPreservesIInv DEF Next

(* IInv is an invariant of bfs_posts.                                      *)
THEOREM BfsInvariant == Spec => []IInv
<1> QED BY InitEstablishesIInv, NextPreservesIInv, PTL DEF Spec

(* The queue holds no node deeper than max_depth and the results are       *)
(* edges of the graph, for every graph and query.                          *)
THEOREM BfsTypeCorrect == Spec => []TypeOK
<1>1. IInv => TypeOK
  BY DEF IInv
<1> QED BY <1>1, BfsInvariant, PTL

(* bfs_posts returns no document twice on a well-formed graph.             *)
THEOREM BfsNoDocumentTwice == Spec => []NoDocumentTwice
<1>1. IInv => NoDocumentTwice
  BY DEF IInv, DocumentsOnce, NoDocumentTwice
<1> QED BY <1>1, BfsInvariant, PTL

(* bfs_posts never returns more documents than max_results.                *)
THEOREM BfsWithinLimit == Spec => []WithinLimit
<1>1. IInv => WithinLimit
  BY DEF IInv, LimitHeld, WithinLimit
<1> QED BY <1>1, BfsInvariant, PTL

(* bfs_posts panics only on a graph one of whose rows reaches past the     *)
(* edges, whatever from_blob accepted.                                     *)
THEOREM BfsPanicsOnlyOnOverrun == Spec => []PanicsOnlyOnOverrun
<1>1. IInv => PanicsOnlyOnOverrun
  BY DEF IInv, Overrun, PanicsOnlyOnOverrun
<1> QED BY <1>1, BfsInvariant, PTL
-------------------------------------------------------------------------------
(* Which documents are returned: the nearest ones.  Distance is the        *)
(* recursive Ball of GraphBfs.  AnswerInv says of a running search where   *)
(* the nodes within each distance are: visited, in the queue, or at the    *)
(* other end of an edge of the row that is being scanned.                  *)

(* The recursive definition of Ball has a solution: the ends of the paths  *)
(* of k steps, each along an edge or none.  So Ball is what it says.       *)
LEMMA BallEquation ==
  ASSUME NEW g, NEW root
  PROVE  \A k \in Nat : Ball(g, root)[k] =
           {n \in 0 .. N(g) - 1 :
              IF k = 0 THEN n = root
              ELSE n \in Ball(g, root)[k - 1]
                   \/ \E m \in Ball(g, root)[k - 1] : \E e \in RowEdges(g, m) : g.col_idx[e] = n}
<1> DEFINE nodes == 0 .. N(g) - 1
           Edge(m, n) == \E e \in RowEdges(g, m) : g.col_idx[e] = n
           Leads(p, k, n) ==
             /\ p \in [0 .. k -> nodes] /\ p[0] = root /\ p[k] = n
             /\ \A i \in 0 .. (k - 1) : p[i + 1] = p[i] \/ Edge(p[i], p[i + 1])
           Ends(k) == {n \in nodes : \E p : Leads(p, k, n)}
           Step(ball, k) ==
             {n \in nodes :
                IF k = 0 THEN n = root
                ELSE n \in ball[k - 1] \/ \E m \in ball[k - 1] : Edge(m, n)}
           paths == [k \in Nat |-> Ends(k)]
<1>1. Ball(g, root) = CHOOSE ball : ball = [k \in Nat |-> Step(ball, k)]
  BY DEF Ball
<1>2. ASSUME NEW k \in Nat PROVE Ends(k) = Step(paths, k)
  <2> HIDE DEF Edge, nodes
  <2>1. CASE k = 0
    <3>1. ASSUME NEW n \in nodes, n = root PROVE Leads([i \in 0 .. 0 |-> n], 0, n)
      BY <3>1
    <3>2. ASSUME NEW n \in nodes, NEW p, Leads(p, 0, n) PROVE n = root
      BY <3>2
    <3> QED BY <2>1, <3>1, <3>2
  <2>2. CASE k # 0
    <3>1. k - 1 \in Nat /\ paths[k - 1] = Ends(k - 1) /\ (k - 1) + 1 = k
      BY <2>2
    <3>2. ASSUME NEW n \in nodes, NEW p, Leads(p, k, n)
          PROVE  n \in Ends(k - 1) \/ \E m \in Ends(k - 1) : Edge(m, n)
      <4> DEFINE q == [i \in 0 .. (k - 1) |-> p[i]]
                 m == p[k - 1]
      <4>1. m \in nodes /\ (n = m \/ Edge(m, n))
        <5>1. k - 1 \in 0 .. k /\ k - 1 \in 0 .. (k - 1)
          BY <3>1
        <5> QED BY <3>1, <3>2, <5>1
      <4>2. Leads(q, k - 1, m)
        <5>1. \A i \in 0 .. (k - 1) : i \in 0 .. k /\ q[i] = p[i]
          OBVIOUS
        <5>2. \A i \in 0 .. ((k - 1) - 1) : i \in 0 .. (k - 1) /\ i + 1 \in 0 .. (k - 1)
          BY <3>1
        <5>3. q \in [0 .. (k - 1) -> nodes]
          BY <3>2, <5>1
        <5>4. 0 \in 0 .. (k - 1) /\ k - 1 \in 0 .. (k - 1)
          BY <3>1
        <5> QED BY <3>2, <5>1, <5>2, <5>3, <5>4
      <4> HIDE DEF q, m, Leads
      <4>3. m \in Ends(k - 1)
        BY <4>1, <4>2
      <4> QED BY <4>1, <4>3
    <3>3. ASSUME NEW n \in nodes, NEW m \in nodes, n = m \/ Edge(m, n), NEW q, Leads(q, k - 1, m)
          PROVE  \E p : Leads(p, k, n)
      <4> DEFINE p == [i \in 0 .. k |-> IF i = k THEN n ELSE q[i]]
      <4>1. \A i \in 0 .. (k - 1) : i \in 0 .. k /\ i # k /\ p[i] = q[i]
        BY <3>1
      <4>2. p \in [0 .. k -> nodes] /\ p[k] = n
        BY <3>1, <3>3, <4>1
      <4>3. p[0] = root
        BY <3>1, <3>3, <4>1
      <4>4. ASSUME NEW i \in 0 .. (k - 1) PROVE p[i + 1] = p[i] \/ Edge(p[i], p[i + 1])
        <5>1. CASE i = k - 1
          BY <3>1, <3>3, <4>1, <4>2, <5>1
        <5>2. CASE i # k - 1
          <6>1. i \in 0 .. ((k - 1) - 1) /\ i + 1 \in 0 .. (k - 1)
            BY <3>1, <5>2
          <6> QED BY <3>3, <4>1, <6>1
        <5> QED BY <5>1, <5>2
      <4>5. Leads(p, k, n)
        BY <4>2, <4>3, <4>4
      <4> QED BY <4>5
    <3> HIDE DEF Leads
    <3> QED BY <2>2, <3>1, <3>2, <3>3
  <2> QED BY <2>1, <2>2
<1>3. paths = [k \in Nat |-> Step(paths, k)]
  <2> HIDE DEF Ends, Step
  <2>1. \A k \in Nat : Ends(k) = Step(paths, k)
    BY <1>2
  <2> QED BY <2>1
<1> DEFINE ball == Ball(g, root)
<1>4. ball = [k \in Nat |-> Step(ball, k)]
  <2> HIDE DEF Step, paths
  <2> QED BY <1>1, <1>3
<1>5. \A k \in Nat : ball[k] = Step(ball, k)
  <2> HIDE DEF Step, ball
  <2> QED BY <1>4
<1> HIDE DEF ball
<1> QED BY <1>5 DEF ball

Nodes == 0 .. N(graph) - 1
Within(k) == Ball(graph, query.root)[k]
Target(e) == graph.col_idx[e]

(* The nodes within k edges of the root: the root, and those one edge away *)
(* from the ones within k - 1.                                             *)
LEMMA WithinSteps ==
  /\ \A n \in Nodes : n \in Within(0) <=> n = query.root
  /\ \A k \in Nat : Within(k) \in SUBSET Nodes
  /\ \A k \in Nat : \A n \in Within(k) : n \in Within(k + 1)
  /\ \A k \in Nat : \A m \in Within(k) : \A e \in RowEdges(graph, m) :
       Target(e) \in Nodes => Target(e) \in Within(k + 1)
  /\ \A k \in Nat : \A n \in Within(k + 1) :
       n \in Within(k) \/ \E m \in Within(k) : \E e \in RowEdges(graph, m) : Target(e) = n
<1> DEFINE Near(k, n) ==
             n \in Within(k) \/ \E m \in Within(k) : \E e \in RowEdges(graph, m) : Target(e) = n
<1>1. \A k \in Nat : Within(k) = {n \in Nodes : IF k = 0 THEN n = query.root ELSE Near(k - 1, n)}
  BY BallEquation DEF Within, Nodes, Target
<1>2. Within(0) = {n \in Nodes : n = query.root}
  BY <1>1
<1>3. \A k \in Nat : Within(k + 1) = {n \in Nodes : Near(k, n)}
  <2> SUFFICES ASSUME NEW k \in Nat PROVE Within(k + 1) = {n \in Nodes : Near(k, n)}
    OBVIOUS
  <2>1. k + 1 \in Nat /\ k + 1 # 0 /\ (k + 1) - 1 = k
    OBVIOUS
  <2>2. Within(k + 1) = {n \in Nodes : IF k + 1 = 0 THEN n = query.root ELSE Near((k + 1) - 1, n)}
    BY <1>1, <2>1
  <2> QED BY <2>1, <2>2
<1>4. \A k \in Nat : Within(k) \in SUBSET Nodes
  BY <1>1
<1> QED BY <1>2, <1>3, <1>4

(* A node near the root stays near, whatever the distance asked for. *)
LEMMA WithinGrows ==
  ASSUME NEW j \in Nat, NEW k \in Nat, j <= k, NEW n \in Within(j)
  PROVE  n \in Within(k)
<1> SUFFICES ASSUME n \notin Within(k) PROVE FALSE
  OBVIOUS
<1> DEFINE T == {i \in Nat : j <= i /\ n \notin Within(i)}
<1>1. PICK l \in T : \A i \in T : l <= i
  <2>1. k \in T /\ T \in SUBSET Nat
    OBVIOUS
  <2> HIDE DEF T
  <2> QED BY <2>1, LeastNatural
<1>2. l \in Nat /\ j <= l /\ n \notin Within(l) /\ l # j
  BY <1>1
<1>3. l - 1 \in Nat /\ j <= l - 1 /\ (l - 1) + 1 = l /\ ~ (l <= l - 1)
  BY <1>2
<1>4. n \in Within(l - 1)
  BY <1>1, <1>3
<1> QED BY <1>2, <1>3, <1>4, WithinSteps

-------------------------------------------------------------------------------
(* The edges of the current node that are still to be scanned. *)
Pending(e) == Scanning /\ row.i <= e /\ e < row.end

Waits(n, k) == \E i \in DOMAIN queue : queue[i].node = n /\ queue[i].depth <= k

(* The queue holds nodes at most as far away as they say, nearest first,   *)
(* and of two distances at most.                                           *)
QueueSound ==
  \A i \in DOMAIN queue : queue[i].node \in Nodes => queue[i].node \in Within(queue[i].depth)

QueueSorted ==
  /\ \A i, j \in DOMAIN queue : i <= j => queue[i].depth <= queue[j].depth
  /\ \A i, j \in DOMAIN queue : queue[j].depth <= queue[i].depth + 1
  /\ Scanning => \A i \in DOMAIN queue : row.depth <= queue[i].depth /\ queue[i].depth <= row.depth + 1

(* The current node is exactly as far away as it says. *)
RowNearest ==
  Scanning =>
    \E n \in visited : /\ n \in Nodes
                       /\ graph.row_ptr[n] <= row.i /\ row.end = graph.row_ptr[n + 1]
                       /\ n \in Within(row.depth)
                       /\ \A k \in Nat : n \in Within(k) => row.depth <= k

RootKnown ==
  query.root \in Nodes /\ 0 < query.max_depth => query.root \in visited \/ Waits(query.root, 0)

VisitedWithin ==
  \A n \in visited : n \in Nodes => 0 < query.max_depth /\ n \in Within(query.max_depth - 1)

(* Where the edges of a visited node lead was visited too, or waits in the *)
(* queue at the right distance; and their documents were taken.            *)
TargetsKnown ==
  \A n \in visited : \A k \in Nat :
    n \in Within(k) /\ k + 1 < query.max_depth =>
      \A e \in RowEdges(graph, n) :
        ~ Pending(e) /\ Target(e) \in Nodes => Target(e) \in visited \/ Waits(Target(e), k + 1)

RowsTaken ==
  \A n \in visited : n \in Nodes =>
    \A e \in RowEdges(graph, n) : ~ Pending(e) /\ graph.in_arena[e] => e \in Collected

Searching ==
  /\ QueueSound /\ QueueSorted /\ RowNearest /\ RootKnown
  /\ VisitedWithin /\ TargetsKnown /\ RowsTaken

AnswerInv ==
  /\ IInv
  /\ WellFormed(graph) =>
       /\ Collected \subseteq EdgesWithin(query.max_depth)
       /\ NearestFirst
       /\ status = "running" => Searching
       /\ AnswersTheQuery

-------------------------------------------------------------------------------
(* An entry of the queue is a node and a depth. *)
LEMMA QueueEntries ==
  ASSUME TypeOK
  PROVE  /\ Len(queue) \in Nat /\ DOMAIN queue = 1 .. Len(queue)
         /\ \A i \in DOMAIN queue : /\ queue[i].node \in Nat /\ queue[i].depth \in Nat
                                    /\ queue[i].depth <= query.max_depth
<1> DEFINE Entry == [node : Nat, depth : 0 .. query.max_depth]
<1>1. queue \in Seq(Entry)
  BY DEF TypeOK
<1> HIDE DEF Entry
<1>2. Len(queue) \in Nat /\ DOMAIN queue = 1 .. Len(queue) /\ \A i \in DOMAIN queue : queue[i] \in Entry
  BY <1>1
<1>3. query.max_depth \in Nat
  BY QueryType
<1> QED BY <1>2, <1>3 DEF Entry

(* No row that is scanned belongs to a node nearer than its depth. *)
LEMMA PendingIsOfRow ==
  ASSUME TypeOK, WellFormed(graph), RowNearest, NEW n \in Nodes, NEW e \in RowEdges(graph, n), Pending(e)
  PROVE  /\ n \in visited /\ n \in Within(row.depth)
         /\ graph.row_ptr[n] <= row.i /\ row.end = graph.row_ptr[n + 1]
         /\ \A k \in Nat : n \in Within(k) => row.depth <= k
<1>1. PICK m \in visited : /\ m \in Nodes
                           /\ graph.row_ptr[m] <= row.i /\ row.end = graph.row_ptr[m + 1]
                           /\ m \in Within(row.depth)
                           /\ \A k \in Nat : m \in Within(k) => row.depth <= k
  BY DEF RowNearest, Pending
<1>2. N(graph) \in Nat /\ graph.row_ptr \in [0 .. N(graph) -> Nat] /\ row.i \in Nat
  BY QueryType DEF TypeOK
<1>3. /\ m \in 0 .. N(graph) /\ m + 1 \in 0 .. N(graph)
      /\ n \in 0 .. N(graph) /\ n + 1 \in 0 .. N(graph)
  BY <1>1, <1>2 DEF Nodes
<1>4. /\ graph.row_ptr[m] \in Nat /\ graph.row_ptr[m + 1] \in Nat
      /\ graph.row_ptr[n] \in Nat /\ graph.row_ptr[n + 1] \in Nat
  BY <1>2, <1>3
<1>5. e \in Nat /\ InRow(e, n)
  BY <1>4 DEF RowEdges, InRow, Nodes
<1>6. InRow(e, m)
  BY <1>1, <1>2, <1>4, <1>5 DEF Pending, InRow, Nodes
<1>7. m = n
  BY <1>5, <1>6, RowsAreDisjoint
<1> QED BY <1>1, <1>7

Closed(k) ==
  /\ \A i \in DOMAIN queue : k <= queue[i].depth
  /\ Scanning => k <= row.depth

(* The search goes outward: when nothing nearer than k is in the queue,    *)
(* or being scanned, every node within k edges was visited or waits.       *)
LEMMA Frontier ==
  ASSUME TypeOK, WellFormed(graph), Searching,
         NEW k \in Nat, k < query.max_depth, Closed(k), NEW n \in Within(k)
  PROVE  n \in visited \/ Waits(n, k)
<1> DEFINE Known(j) == \A m \in Within(j) : m \in visited \/ Waits(m, j)
           T == {j \in Nat : j <= k /\ ~ Known(j)}
<1>1. SUFFICES ASSUME T # {} PROVE FALSE
  <2>1. k \in T \/ Known(k)
    OBVIOUS
  <2> QED BY <1>1, <2>1
<1>2. PICK l \in T : \A j \in T : l <= j
  <2>1. T \in SUBSET Nat
    OBVIOUS
  <2> HIDE DEF T
  <2> QED BY <1>1, <2>1, LeastNatural
<1>3. l \in Nat /\ l <= k /\ ~ Known(l) /\ query.max_depth \in Nat
  BY <1>2, QueryType
<1>4. \A i \in DOMAIN queue : queue[i].depth \in Nat
  BY QueueEntries
<1>5. Closed(l)
  BY <1>3, <1>4 DEF Closed, TypeOK
<1>6. CASE l = 0
  <2>1. \A m \in Within(0) : m = query.root /\ m \in Nodes
    BY WithinSteps
  <2>2. 0 < query.max_depth
    BY <1>3
  <2> QED BY <1>3, <1>6, <2>1, <2>2 DEF Searching, RootKnown
<1>7. CASE l # 0
  <2> DEFINE h == l - 1
  <2>1. h \in Nat /\ h < l /\ h + 1 = l /\ h < query.max_depth /\ h + 1 < query.max_depth
    BY <1>3, <1>7
  <2> HIDE DEF h
  <2>2. Known(h)
    <3>1. ~ (l <= h) /\ h <= k
      BY <1>3, <2>1
    <3> QED BY <1>2, <2>1, <3>1
  <2>3. ASSUME NEW m \in Within(h) PROVE m \in visited
    <3>1. ~ Waits(m, h)
      BY <1>4, <1>5, <1>3, <2>1 DEF Waits, Closed
    <3> QED BY <2>2, <3>1
  <2>4. ASSUME NEW m \in Within(l) PROVE m \in visited \/ Waits(m, l)
    <3>1. CASE m \in Within(h)
      BY <2>3, <3>1
    <3>2. CASE m \notin Within(h)
      <4>1. PICK p \in Within(h) : \E e \in RowEdges(graph, p) : Target(e) = m
        BY <2>1, <3>2, WithinSteps
      <4>2. PICK e \in RowEdges(graph, p) : Target(e) = m
        BY <4>1
      <4>3. m \in Nodes /\ p \in Nodes
        BY <1>3, <2>1, WithinSteps
      <4>4. ~ Pending(e)
        <5> SUFFICES ASSUME Pending(e) PROVE FALSE
          OBVIOUS
        <5>1. row.depth <= h
          BY <2>1, <4>3, PendingIsOfRow DEF Searching
        <5>2. l <= row.depth /\ row.depth \in Nat
          BY <1>5 DEF Closed, Pending, TypeOK
        <5> QED BY <1>3, <2>1, <5>1, <5>2
      <4>5. p \in visited
        BY <2>3
      <4> QED BY <2>1, <4>2, <4>3, <4>4, <4>5 DEF Searching, TargetsKnown
    <3> QED BY <3>1, <3>2
  <2> QED BY <1>3, <2>4
<1> QED BY <1>6, <1>7

(* A step keeps the query, and with it the distances. *)
LEMMA SameQuery ==
  ASSUME UNCHANGED query
  PROVE  /\ graph' = graph /\ Nodes' = Nodes
         /\ \A k : Within(k)' = Within(k)
         /\ \A k : EdgesWithin(k)' = EdgesWithin(k)
         /\ \A e : Target(e)' = Target(e)
<1>1. graph' = graph
  BY DEF graph
<1>2. \A k : Within(k)' = Within(k)
  BY <1>1 DEF Within
<1>3. \A k : EdgesWithin(k)' = EdgesWithin(k)
  BY <1>1 DEF EdgesWithin
<1> QED BY <1>1, <1>2, <1>3 DEF Nodes, Target

(* The head of the queue, and what is left of it. *)
LEMMA QueueTail ==
  ASSUME TypeOK, queue # <<>>, queue' = Tail(queue)
  PROVE  /\ 1 \in DOMAIN queue /\ Head(queue) = queue[1]
         /\ \A i \in DOMAIN queue' : i + 1 \in DOMAIN queue /\ queue'[i] = queue[i + 1]
         /\ \A i \in DOMAIN queue : i = 1 \/ (i - 1 \in DOMAIN queue' /\ queue'[i - 1] = queue[i])
         /\ \A n, k : Waits(n, k) => Waits(n, k)' \/ (Head(queue).node = n /\ Head(queue).depth <= k)
<1> DEFINE Entry == [node : Nat, depth : 0 .. query.max_depth]
<1>1. queue \in Seq(Entry)
  BY DEF TypeOK
<1> HIDE DEF Entry
<1>2. /\ Len(queue) \in Nat \ {0} /\ DOMAIN queue = 1 .. Len(queue) /\ Head(queue) = queue[1]
      /\ DOMAIN queue' = 1 .. (Len(queue) - 1)
      /\ \A i \in 1 .. (Len(queue) - 1) : queue'[i] = queue[i + 1]
  BY <1>1
<1>3. \A i \in DOMAIN queue' : i + 1 \in DOMAIN queue /\ queue'[i] = queue[i + 1]
  BY <1>2
<1>4. \A i \in DOMAIN queue : i = 1 \/ (i - 1 \in DOMAIN queue' /\ queue'[i - 1] = queue[i])
  <2> SUFFICES ASSUME NEW i \in DOMAIN queue, i # 1
               PROVE  i - 1 \in DOMAIN queue' /\ queue'[i - 1] = queue[i]
    OBVIOUS
  <2>1. i - 1 \in 1 .. (Len(queue) - 1) /\ (i - 1) + 1 = i
    BY <1>2
  <2> QED BY <1>2, <2>1
<1>5. 1 \in DOMAIN queue
  BY <1>2
<1>6. \A n, k : Waits(n, k) => Waits(n, k)' \/ (Head(queue).node = n /\ Head(queue).depth <= k)
  BY <1>2, <1>4 DEF Waits
<1> QED BY <1>2, <1>3, <1>4, <1>5, <1>6

(* What is left of the queue is as sound and sorted as all of it. *)
LEMMA QueueTailSorted ==
  ASSUME TypeOK, QueueSound, QueueSorted, queue # <<>>, queue' = Tail(queue), UNCHANGED query
  PROVE  /\ QueueSound'
         /\ \A i, j \in DOMAIN queue' : i <= j => queue'[i].depth <= queue'[j].depth
         /\ \A i, j \in DOMAIN queue' : queue'[j].depth <= queue'[i].depth + 1
         /\ \A i \in DOMAIN queue' : /\ Head(queue).depth <= queue'[i].depth
                                     /\ queue'[i].depth <= Head(queue).depth + 1
<1>1. /\ 1 \in DOMAIN queue /\ Head(queue) = queue[1]
      /\ \A i \in DOMAIN queue' : i + 1 \in DOMAIN queue /\ queue'[i] = queue[i + 1]
  BY QueueTail
<1>2. DOMAIN queue = 1 .. Len(queue) /\ Len(queue) \in Nat
  BY QueueEntries
<1>3. QueueSound'
  <2>1. Nodes' = Nodes /\ \A k : Within(k)' = Within(k)
    BY SameQuery
  <2>2. \A i \in DOMAIN queue' : queue'[i].node \in Nodes => queue'[i].node \in Within(queue'[i].depth)
    BY <1>1 DEF QueueSound
  <2> QED BY <2>1, <2>2 DEF QueueSound
<1>4. DOMAIN queue' \subseteq Int
  <2>1. \A i \in DOMAIN queue' : i \in 1 .. (Len(queue) - 1)
    <3> DEFINE Entry == [node : Nat, depth : 0 .. query.max_depth]
    <3>1. queue \in Seq(Entry)
      BY DEF TypeOK
    <3> HIDE DEF Entry
    <3> QED BY <3>1
  <2> QED BY <2>1
<1>5. \A i, j \in DOMAIN queue' : i <= j => queue'[i].depth <= queue'[j].depth
  <2> SUFFICES ASSUME NEW i \in DOMAIN queue', NEW j \in DOMAIN queue', i <= j
               PROVE  queue'[i].depth <= queue'[j].depth
    OBVIOUS
  <2>1. i + 1 <= j + 1
    BY <1>4
  <2> QED BY <1>1, <2>1 DEF QueueSorted
<1>6. \A i, j \in DOMAIN queue' : queue'[j].depth <= queue'[i].depth + 1
  BY <1>1 DEF QueueSorted
<1>7. \A i \in DOMAIN queue' : /\ Head(queue).depth <= queue'[i].depth
                              /\ queue'[i].depth <= Head(queue).depth + 1
  <2> SUFFICES ASSUME NEW i \in DOMAIN queue'
               PROVE  queue[1].depth <= queue[i + 1].depth /\ queue[i + 1].depth <= queue[1].depth + 1
    BY <1>1
  <2>1. i + 1 \in DOMAIN queue /\ 1 \in DOMAIN queue /\ 1 <= i + 1
    BY <1>1, <1>2
  <2> QED BY <2>1 DEF QueueSorted
<1> QED BY <1>3, <1>5, <1>6, <1>7

(* Skipping an entry loses nothing. *)
LEMMA SkipKeepsSearching ==
  ASSUME TypeOK, WellFormed(graph), Searching, ~ Scanning, queue # <<>>, queue' = Tail(queue),
         UNCHANGED <<query, results>>, Skip
  PROVE  Searching'
<1> DEFINE head == Head(queue)
<1>1. /\ graph' = graph /\ Nodes' = Nodes /\ \A k : Within(k)' = Within(k) /\ \A e : Target(e)' = Target(e)
      /\ \A n, k : Waits(n, k) => Waits(n, k)' \/ (head.node = n /\ head.depth <= k)
  BY SameQuery, QueueTail
<1>2. head.node \in Nat /\ head.depth \in Nat /\ query.max_depth \in Nat /\ N(graph) \in Nat
  <2>1. 1 \in DOMAIN queue /\ head = queue[1]
    BY QueueTail
  <2> QED BY <2>1, QueueEntries, QueryType
<1>3. /\ ~ Scanning'
      /\ visited \subseteq visited' /\ \A n \in Nodes : n \in visited' => n \in visited
      /\ head.depth < query.max_depth /\ head.node \in Nodes => head.node \in visited
  <2>1. ~ Scanning'
    BY DEF Skip, Scanning, NoRow
  <2>2. CASE head.depth >= query.max_depth
    BY <1>2, <2>1, <2>2 DEF Skip, TooDeep
  <2>3. CASE ~ (head.depth >= query.max_depth)
    <3>1. (head.node \in visited \/ head.node >= N(graph)) /\ visited' = visited \cup {head.node}
      BY <2>3 DEF Skip, TooDeep
    <3>2. head.node \in Nodes => head.node \in visited
      BY <1>2, <3>1 DEF Nodes
    <3> QED BY <2>1, <3>1, <3>2
  <2> QED BY <2>2, <2>3
<1> HIDE DEF head
<1>4. \A e : ~ Pending(e) /\ ~ Pending(e)'
  BY <1>3 DEF Pending
<1>5. QueueSound' /\ QueueSorted' /\ RowNearest'
  <2>1. QueueSound' /\ \A i, j \in DOMAIN queue' : /\ i <= j => queue'[i].depth <= queue'[j].depth
                                                  /\ queue'[j].depth <= queue'[i].depth + 1
    BY QueueTailSorted DEF Searching
  <2> QED BY <1>3, <2>1 DEF QueueSorted, RowNearest
<1>6. ASSUME NEW n \in Nodes, NEW k \in Nat, k < query.max_depth, n \in visited \/ Waits(n, k)
      PROVE  n \in visited' \/ Waits(n, k)'
  <2>1. CASE head.node = n /\ head.depth <= k
    <3>1. head.depth < query.max_depth
      BY <1>2, <1>6, <2>1
    <3> QED BY <1>3, <2>1, <3>1
  <2> QED BY <1>1, <1>3, <1>6, <2>1
<1>7. RootKnown'
  <2>1. 0 \in Nat
    OBVIOUS
  <2> QED BY <1>1, <1>6, <2>1 DEF Searching, RootKnown
<1>8. VisitedWithin'
  BY <1>1, <1>3 DEF Searching, VisitedWithin
<1>9. TargetsKnown'
  <2> SUFFICES ASSUME NEW n \in visited', NEW k \in Nat, n \in Within(k), k + 1 < query.max_depth,
                      NEW e \in RowEdges(graph, n), NEW t \in Nodes, t = Target(e)
               PROVE  t \in visited' \/ Waits(t, k + 1)'
    BY <1>1 DEF TargetsKnown
  <2>1. n \in visited
    BY <1>3, WithinSteps
  <2>2. t \in visited \/ Waits(t, k + 1)
    BY <1>4, <2>1 DEF Searching, TargetsKnown
  <2>3. k + 1 \in Nat
    OBVIOUS
  <2> QED BY <1>6, <2>2, <2>3
<1>10. RowsTaken'
  <2>1. Collected' = Collected
    BY DEF Collected
  <2> QED BY <1>1, <1>3, <1>4, <2>1 DEF Searching, RowsTaken
<1> QED BY <1>5, <1>7, <1>8, <1>9, <1>10 DEF Searching

(* The first entry of a node that was not visited is a nearest one.        *)
LEMMA HeadIsNearest ==
  ASSUME TypeOK, WellFormed(graph), Searching, ~ Scanning, queue # <<>>,
         Head(queue).node \notin visited, Head(queue).depth < query.max_depth,
         NEW k \in Nat, Head(queue).node \in Within(k)
  PROVE  Head(queue).depth <= k
<1>1. 1 \in DOMAIN queue /\ Head(queue) = queue[1] /\ DOMAIN queue = 1 .. Len(queue) /\ Len(queue) \in Nat
  <2>1. DOMAIN queue = 1 .. Len(queue) /\ Len(queue) \in Nat
    BY QueueEntries
  <2> DEFINE Entry == [node : Nat, depth : 0 .. query.max_depth]
  <2>2. queue \in Seq(Entry)
    BY DEF TypeOK
  <2> HIDE DEF Entry
  <2>3. Len(queue) # 0 /\ Head(queue) = queue[1]
    BY <2>2
  <2> QED BY <2>1, <2>3
<1> DEFINE n == queue[1].node
           d == queue[1].depth
<1>2. d \in Nat /\ d < query.max_depth /\ query.max_depth \in Nat /\ n \notin visited /\ n \in Within(k)
  BY <1>1, QueueEntries, QueryType
<1>3. \A i \in DOMAIN queue : d <= queue[i].depth /\ queue[i].depth \in Nat
  <2>1. \A i \in DOMAIN queue : 1 <= i
    BY <1>1
  <2> QED BY <1>1, <2>1, QueueEntries DEF Searching, QueueSorted
<1> SUFFICES ASSUME k < d PROVE FALSE
  BY <1>1, <1>2
<1> HIDE DEF n, d
<1>4. Closed(k) /\ k < query.max_depth
  BY <1>2, <1>3 DEF Closed
<1>5. ~ Waits(n, k)
  BY <1>2, <1>3 DEF Waits
<1> QED BY <1>2, <1>4, <1>5, Frontier

(* Expanding a node: its edges are all pending. *)
LEMMA ExpandKeepsSearching ==
  ASSUME TypeOK, WellFormed(graph), Searching, ~ Scanning, queue # <<>>, queue' = Tail(queue),
         UNCHANGED <<query, results>>, Expand
  PROVE  Searching'
<1> PICK head, n, d : head = Head(queue) /\ n = head.node /\ d = head.depth
  OBVIOUS
<1>1. /\ graph' = graph /\ Nodes' = Nodes /\ \A k : Within(k)' = Within(k) /\ \A e : Target(e)' = Target(e)
      /\ \A m, k : Waits(m, k) => Waits(m, k)' \/ (n = m /\ d <= k)
      /\ 1 \in DOMAIN queue /\ head = queue[1]
  BY SameQuery, QueueTail
<1>2. n \in Nat /\ d \in Nat /\ query.max_depth \in Nat /\ N(graph) \in Nat
  BY <1>1, QueueEntries, QueryType
<1>3. /\ n \in Nodes /\ n \notin visited /\ visited' = visited \cup {n} /\ d < query.max_depth
      /\ row' = [i |-> graph.row_ptr[n], end |-> graph.row_ptr[n + 1], depth |-> d]
  BY <1>2 DEF Expand, TooDeep, RowOf, Nodes
<1>4. n \in Within(d) /\ \A k \in Nat : n \in Within(k) => d <= k
  <2>1. n \in Within(d)
    BY <1>1, <1>3 DEF Searching, QueueSound
  <2>2. \A k \in Nat : n \in Within(k) => d <= k
    BY <1>3, HeadIsNearest
  <2> QED BY <2>1, <2>2
<1>5. /\ row'.i = graph.row_ptr[n] /\ row'.end = graph.row_ptr[n + 1] /\ row'.depth = d
      /\ graph.row_ptr[n] \in Nat /\ graph.row_ptr[n + 1] \in Nat
  <2>1. n \in 0 .. N(graph) /\ n + 1 \in 0 .. N(graph)
    BY <1>2, <1>3 DEF Nodes
  <2> QED BY <1>3, <2>1, QueryType
<1>6. \A e \in RowEdges(graph, n) : Pending(e)'
  <2>1. \A e \in RowEdges(graph, n) : graph.row_ptr[n] <= e /\ e < graph.row_ptr[n + 1] /\ e \in Nat
    BY <1>5 DEF RowEdges
  <2>2. \A e \in RowEdges(graph, n) : row'.i < row'.end
    BY <1>5, <2>1
  <2> QED BY <1>5, <2>1, <2>2 DEF Pending, Scanning
<1>7. \A e : ~ Pending(e)
  BY DEF Pending
<1>8. QueueSound' /\ QueueSorted'
  <2>1. /\ QueueSound'
        /\ \A i, j \in DOMAIN queue' : i <= j => queue'[i].depth <= queue'[j].depth
        /\ \A i, j \in DOMAIN queue' : queue'[j].depth <= queue'[i].depth + 1
        /\ \A i \in DOMAIN queue' : d <= queue'[i].depth /\ queue'[i].depth <= d + 1
    BY QueueTailSorted DEF Searching
  <2> QED BY <1>5, <2>1 DEF QueueSorted
<1>9. RowNearest'
  <2>1. /\ n \in visited' /\ n \in Nodes' /\ graph'.row_ptr[n] <= row'.i
        /\ row'.end = graph'.row_ptr[n + 1] /\ n \in Within(d)' /\ row'.depth = d
        /\ \A k \in Nat : n \in Within(k)' => d <= k
    BY <1>1, <1>3, <1>4, <1>5
  <2> QED BY <2>1 DEF RowNearest
<1>10. \A m, k : m \in visited \/ Waits(m, k) => m \in visited' \/ Waits(m, k)'
  BY <1>1, <1>3
<1>11. RootKnown'
  BY <1>1, <1>10 DEF Searching, RootKnown
<1>12. VisitedWithin'
  <2>1. 0 < query.max_depth /\ n \in Within(query.max_depth - 1)
    <3>1. query.max_depth - 1 \in Nat /\ d <= query.max_depth - 1 /\ 0 < query.max_depth
      BY <1>2, <1>3
    <3> QED BY <1>2, <1>4, <3>1, WithinGrows
  <2> QED BY <1>1, <1>3, <2>1 DEF Searching, VisitedWithin
<1>13. TargetsKnown'
  <2> SUFFICES ASSUME NEW m \in visited', NEW k \in Nat, m \in Within(k), k + 1 < query.max_depth,
                      NEW e \in RowEdges(graph, m), ~ Pending(e)', NEW t \in Nodes, t = Target(e)
               PROVE  t \in visited' \/ Waits(t, k + 1)'
    BY <1>1 DEF TargetsKnown
  <2>1. m \in visited
    BY <1>3, <1>6
  <2>2. t \in visited \/ Waits(t, k + 1)
    BY <1>7, <2>1 DEF Searching, TargetsKnown
  <2> QED BY <1>10, <2>2
<1>14. RowsTaken'
  <2> SUFFICES ASSUME NEW m \in visited', m \in Nodes, NEW e \in RowEdges(graph, m),
                      ~ Pending(e)', graph.in_arena[e]
               PROVE  e \in Collected
    <3>1. Collected' = Collected
      BY DEF Collected
    <3> QED BY <1>1, <3>1 DEF RowsTaken
  <2>1. m \in visited
    BY <1>3, <1>6
  <2> QED BY <1>7, <2>1 DEF Searching, RowsTaken
<1> QED BY <1>8, <1>9, <1>11, <1>12, <1>13, <1>14 DEF Searching

(* What is nearer than everything in the queue and the current row has     *)
(* been taken.                                                             *)
LEMMA InnerRowsTaken ==
  ASSUME TypeOK, WellFormed(graph), Searching, NEW k \in Nat, k < query.max_depth,
         \A i \in DOMAIN queue : k < queue[i].depth, Scanning => k < row.depth
  PROVE  EdgesWithin(k + 1) \subseteq Collected
<1>1. \A i \in DOMAIN queue : queue[i].depth \in Nat
  BY QueueEntries
<1>2. row.depth \in Nat
  BY DEF TypeOK
<1>3. Closed(k)
  BY <1>1, <1>2 DEF Closed
<1>4. ASSUME NEW n \in Within(k), NEW e \in RowEdges(graph, n), graph.in_arena[e]
      PROVE  e \in Collected
  <2>1. n \in Nodes
    BY WithinSteps
  <2>2. ~ Waits(n, k)
    BY <1>1 DEF Waits
  <2>3. n \in visited
    BY <1>3, <2>2, Frontier
  <2>4. ~ Pending(e)
    <3> SUFFICES ASSUME Pending(e) PROVE FALSE
      OBVIOUS
    <3>1. row.depth <= k
      BY <2>1, PendingIsOfRow DEF Searching
    <3> QED BY <1>2, <3>1 DEF Pending
  <2> QED BY <1>4, <2>1, <2>3, <2>4 DEF Searching, RowsTaken
<1>5. EdgesWithin(k + 1) = UNION {{e \in RowEdges(graph, n) : graph.in_arena[e]} : n \in Within(k)}
  <2>1. k + 1 # 0 /\ (k + 1) - 1 = k
    OBVIOUS
  <2> QED BY <2>1 DEF EdgesWithin, Within
<1> QED BY <1>4, <1>5

(* The document of the edge at hand is added to those collected. *)
LEMMA ScanCollects ==
  ASSUME TypeOK, InBounds(row.i), NEW e, e = row.i,
         results' = IF graph.in_arena[row.i] THEN Append(results, row.i) ELSE results
  PROVE  /\ Len(results) \in Nat /\ DOMAIN results = 1 .. Len(results)
         /\ \A i \in 1 .. Len(results) : results'[i] = results[i]
         /\ \/ graph.in_arena[e] /\ DOMAIN results' = 1 .. (Len(results) + 1) /\ results'[Len(results) + 1] = e
            \/ ~ graph.in_arena[e] /\ results' = results
         /\ Collected' = Collected \cup (IF graph.in_arena[e] THEN {e} ELSE {})
<1> DEFINE Edges == 0 .. Nnz(graph) - 1
<1>1. results \in Seq(Edges) /\ e \in Edges
  <2>1. row.i \in Nat /\ Nnz(graph) \in Nat
    BY QueryType DEF TypeOK
  <2> QED BY <2>1 DEF TypeOK, InBounds
<1> HIDE DEF Edges
<1>2. Len(results) \in Nat /\ DOMAIN results = 1 .. Len(results)
  BY <1>1
<1>3. CASE graph.in_arena[e]
  <2>1. results' = Append(results, e)
    BY <1>3
  <2>2. /\ DOMAIN results' = 1 .. (Len(results) + 1) /\ results'[Len(results) + 1] = e
        /\ \A i \in 1 .. Len(results) : results'[i] = results[i]
    BY <1>1, <1>2, <2>1
  <2>3. 1 .. (Len(results) + 1) = 1 .. Len(results) \cup {Len(results) + 1}
    BY <1>2
  <2>4. Collected' = Collected \cup {e}
    BY <1>2, <2>2, <2>3 DEF Collected
  <2> QED BY <1>2, <1>3, <2>2, <2>4
<1>4. CASE ~ graph.in_arena[e]
  BY <1>2, <1>4 DEF Collected
<1> QED BY <1>3, <1>4

(* What the scan collects is asked for, and nothing nearer is left.        *)
LEMMA ScanTakesNearest ==
  ASSUME TypeOK, WellFormed(graph), Searching, NearestFirst, Scanning, InBounds(row.i),
         Collected \subseteq EdgesWithin(query.max_depth), UNCHANGED query,
         results' = IF graph.in_arena[row.i] THEN Append(results, row.i) ELSE results
  PROVE  /\ Collected' \subseteq EdgesWithin(query.max_depth)
         /\ NearestFirst'
<1> PICK e, r, last : e = row.i /\ r = row.depth /\ last = Len(results)
  OBVIOUS
<1>1. /\ last \in Nat /\ DOMAIN results = 1 .. last
      /\ \A i \in 1 .. last : results'[i] = results[i]
      /\ \/ graph.in_arena[e] /\ DOMAIN results' = 1 .. (last + 1) /\ results'[last + 1] = e
         \/ ~ graph.in_arena[e] /\ results' = results
      /\ Collected' = Collected \cup (IF graph.in_arena[e] THEN {e} ELSE {})
  BY ScanCollects
<1>2. /\ \A k : EdgesWithin(k)' = EdgesWithin(k) /\ query' = query
      /\ r \in Nat /\ e \in Nat /\ query.max_depth \in Nat /\ N(graph) \in Nat
  BY SameQuery, QueryType DEF TypeOK
<1>3. PICK n \in visited : /\ n \in Nodes
                           /\ graph.row_ptr[n] <= row.i /\ row.end = graph.row_ptr[n + 1]
                           /\ n \in Within(row.depth)
  BY DEF Searching, RowNearest
<1>4. e \in RowEdges(graph, n)
  <2>1. n \in 0 .. N(graph) /\ n + 1 \in 0 .. N(graph)
    BY <1>2, <1>3 DEF Nodes
  <2>2. graph.row_ptr[n] \in Nat /\ graph.row_ptr[n + 1] \in Nat
    BY <2>1, QueryType
  <2> QED BY <1>2, <1>3, <2>2 DEF RowEdges, Scanning
<1>5. ASSUME NEW k \in Nat, n \in Within(k), graph.in_arena[e] PROVE e \in EdgesWithin(k + 1)
  <2>1. k + 1 # 0 /\ (k + 1) - 1 = k
    OBVIOUS
  <2>2. EdgesWithin(k + 1) = UNION {{f \in RowEdges(graph, m) : graph.in_arena[f]} : m \in Within(k)}
    BY <2>1 DEF EdgesWithin, Within
  <2> QED BY <1>4, <1>5, <2>2
<1>6. Collected' \subseteq EdgesWithin(query.max_depth)
  <2>1. 0 < query.max_depth /\ n \in Within(query.max_depth - 1)
    BY <1>3 DEF Searching, VisitedWithin
  <2>2. query.max_depth - 1 \in Nat /\ (query.max_depth - 1) + 1 = query.max_depth
    BY <1>2, <2>1
  <2>3. graph.in_arena[e] => e \in EdgesWithin(query.max_depth)
    BY <1>5, <2>1, <2>2
  <2> QED BY <1>1, <2>3
<1>7. ASSUME graph.in_arena[e], NEW k \in 1 .. query.max_depth, e \notin EdgesWithin(k)
      PROVE  EdgesWithin(k) \subseteq Collected
  <2>1. k - 1 \in Nat /\ k - 1 < query.max_depth /\ (k - 1) + 1 = k
    BY <1>2
  <2>2. n \notin Within(k - 1)
    BY <1>5, <1>7, <2>1
  <2>3. k - 1 < r
    BY <1>2, <1>3, <2>1, <2>2, WithinGrows
  <2>4. \A i \in DOMAIN queue : k - 1 < queue[i].depth
    <3>1. \A i \in DOMAIN queue : r <= queue[i].depth /\ queue[i].depth \in Nat
      BY QueueEntries DEF Searching, QueueSorted
    <3> QED BY <1>2, <2>1, <2>3, <3>1
  <2> QED BY <2>1, <2>3, <2>4, InnerRowsTaken
<1>8. NearestFirst'
  <2> SUFFICES ASSUME NEW i \in DOMAIN results', NEW k \in 1 .. query.max_depth,
                      results'[i] \notin EdgesWithin(k)
               PROVE  EdgesWithin(k) \subseteq {results'[j] : j \in 1 .. i - 1}
    BY <1>2 DEF NearestFirst
  <2>1. CASE i \in 1 .. last
    <3>1. \A j \in 1 .. i - 1 : j \in 1 .. last
      BY <1>1, <2>1
    <3>2. {results'[j] : j \in 1 .. i - 1} = {results[j] : j \in 1 .. i - 1}
      BY <1>1, <3>1
    <3>3. results[i] \notin EdgesWithin(k) /\ i \in DOMAIN results
      BY <1>1, <2>1
    <3>4. EdgesWithin(k) \subseteq {results[j] : j \in 1 .. i - 1}
      BY <3>3 DEF NearestFirst
    <3> QED BY <3>2, <3>4
  <2>2. CASE i \notin 1 .. last
    <3>1. graph.in_arena[e] /\ i = last + 1 /\ results'[i] = e
      BY <1>1, <2>2
    <3>2. EdgesWithin(k) \subseteq Collected
      BY <1>7, <3>1
    <3>3. i - 1 = last
      BY <1>1, <3>1
    <3>4. {results'[j] : j \in 1 .. last} = Collected
      BY <1>1 DEF Collected
    <3> QED BY <3>2, <3>3, <3>4
  <2> QED BY <2>1, <2>2
<1> QED BY <1>6, <1>8

(* Depths no more than one above a common bound are at most one apart. *)
LEMMA OneApart ==
  ASSUME NEW r \in Nat, NEW a \in Nat, NEW b \in Nat, r <= a, b <= r + 1
  PROVE  b <= a + 1
<1> QED OBVIOUS

(* The scan goes on: the edge is no longer pending, what it leads to is in *)
(* the queue and its document was taken.                                   *)
LEMMA ScanKeepsSearching ==
  ASSUME TypeOK, WellFormed(graph), Searching, Scanning, InBounds(row.i), UNCHANGED <<query, visited>>,
         results' = IF graph.in_arena[row.i] THEN Append(results, row.i) ELSE results,
         queue' = Enqueued(graph.col_idx[row.i], row.depth + 1), row' = [row EXCEPT !.i = @ + 1]
  PROVE  Searching'
<1> PICK e, r, t, last : e = row.i /\ r = row.depth /\ t = Target(row.i) /\ last = Len(queue) + 1
  OBVIOUS
<1>1. /\ graph' = graph /\ Nodes' = Nodes /\ \A k : Within(k)' = Within(k) /\ \A f : Target(f)' = Target(f)
  BY SameQuery
<1>2. /\ r \in Nat /\ e \in Nat /\ query.max_depth \in Nat /\ N(graph) \in Nat /\ row.end \in Nat
      /\ e < row.end /\ row'.i = e + 1 /\ row'.end = row.end /\ row'.depth = r
      /\ row \in [i : Nat, end : Nat, depth : Nat]
  <2>1. row \in [i : Nat, end : Nat, depth : Nat]
    BY DEF TypeOK
  <2> QED BY <2>1, QueryType DEF Scanning
<1>3. /\ Collected' = Collected \cup (IF graph.in_arena[e] THEN {e} ELSE {})
  BY ScanCollects
<1>4. /\ last \in Nat \ {0} /\ DOMAIN queue = 1 .. (last - 1) /\ DOMAIN queue' = 1 .. last
      /\ \A i \in 1 .. (last - 1) : queue'[i] = queue[i]
      /\ queue'[last].node = t /\ queue'[last].depth = r + 1
  <2> DEFINE Entry == [node : Nat, depth : 0 .. query.max_depth]
             entry == [node |-> t, depth |-> r + 1]
  <2>1. t \in Nat
    <3>1. e \in 0 .. Nnz(graph) - 1
      BY <1>2, QueryType DEF InBounds
    <3> QED BY <3>1, QueryType DEF Target
  <2>2. entry \in Entry /\ entry.node = t /\ entry.depth = r + 1
    <3>1. PICK m \in visited : m \in Nodes /\ \A k \in Nat : m \in Within(k) => r <= k
      BY DEF Searching, RowNearest
    <3>2. 0 < query.max_depth /\ m \in Within(query.max_depth - 1)
      BY <3>1 DEF Searching, VisitedWithin
    <3>3. query.max_depth - 1 \in Nat
      BY <1>2, <3>2
    <3>4. r <= query.max_depth - 1
      BY <3>1, <3>2, <3>3
    <3>5. r + 1 \in 0 .. query.max_depth
      BY <1>2, <3>4
    <3> QED BY <2>1, <3>5
  <2>3. queue \in Seq(Entry)
    BY DEF TypeOK
  <2>4. queue' = Append(queue, entry)
    BY DEF Enqueued, Target
  <2> HIDE DEF Entry, entry
  <2>5. Len(queue) \in Nat /\ DOMAIN queue = 1 .. Len(queue)
    BY <2>3
  <2>6. /\ DOMAIN queue' = 1 .. (Len(queue) + 1) /\ queue'[Len(queue) + 1] = entry
        /\ \A i \in 1 .. Len(queue) : queue'[i] = queue[i]
    BY <2>2, <2>3, <2>4
  <2>7. last \in Nat \ {0} /\ last - 1 = Len(queue)
    BY <2>5
  <2> QED BY <2>2, <2>5, <2>6, <2>7
<1>5. \A i \in 1 .. last : i \in 1 .. (last - 1) \/ i = last
  BY <1>4
<1>6. PICK n \in visited : /\ n \in Nodes
                           /\ graph.row_ptr[n] <= e /\ row.end = graph.row_ptr[n + 1]
                           /\ n \in Within(r)
                           /\ \A k \in Nat : n \in Within(k) => r <= k
  BY DEF Searching, RowNearest
<1>7. graph.row_ptr[n] \in Nat /\ graph.row_ptr[n + 1] \in Nat /\ e \in RowEdges(graph, n)
  <2>1. n \in 0 .. N(graph) /\ n + 1 \in 0 .. N(graph)
    BY <1>2, <1>6 DEF Nodes
  <2>2. graph.row_ptr[n] \in Nat /\ graph.row_ptr[n + 1] \in Nat
    BY <2>1, QueryType
  <2> QED BY <1>2, <1>6, <2>2 DEF RowEdges
<1>8. \A f \in Int : ~ Pending(f)' => ~ Pending(f) \/ f = e
  BY <1>2 DEF Pending, Scanning
<1>9. Pending(e)
  BY <1>2 DEF Pending
<1>10. /\ \A m, k : Waits(m, k) => Waits(m, k)'
       /\ \A k \in Nat : r <= k => Waits(t, k + 1)'
  <2>1. ASSUME NEW m, NEW k, Waits(m, k) PROVE Waits(m, k)'
    <3>1. PICK i \in 1 .. (last - 1) : queue[i].node = m /\ queue[i].depth <= k
      BY <1>4, <2>1 DEF Waits
    <3>2. i \in DOMAIN queue' /\ queue'[i] = queue[i]
      BY <1>4
    <3> QED BY <3>1, <3>2 DEF Waits
  <2>2. ASSUME NEW k \in Nat, r <= k PROVE Waits(t, k + 1)'
    <3>1. last \in DOMAIN queue' /\ queue'[last].depth <= k + 1
      BY <1>2, <1>4, <2>2
    <3> QED BY <1>4, <3>1 DEF Waits
  <2> QED BY <2>1, <2>2
<1>11. QueueSound'
  <2>1. t \in Nodes => t \in Within(r + 1)
    BY <1>2, <1>6, <1>7, WithinSteps
  <2> QED BY <1>1, <1>4, <1>5, <2>1 DEF Searching, QueueSound
<1>12. QueueSorted'
  <2>1. \A i \in 1 .. last : queue'[i].depth \in Nat /\ r <= queue'[i].depth /\ queue'[i].depth <= r + 1
    <3>1. \A i \in 1 .. (last - 1) : queue[i].depth \in Nat /\ r <= queue[i].depth /\ queue[i].depth <= r + 1
      BY <1>4, QueueEntries DEF Searching, QueueSorted
    <3>2. r \in Nat /\ r + 1 \in Nat /\ r <= r + 1
      BY <1>2
    <3>3. queue'[last].depth \in Nat /\ r <= queue'[last].depth /\ queue'[last].depth <= r + 1
      BY <1>4, <3>2
    <3>4. ASSUME NEW i \in 1 .. (last - 1)
          PROVE  queue'[i].depth \in Nat /\ r <= queue'[i].depth /\ queue'[i].depth <= r + 1
      BY <1>4, <3>1
    <3> QED BY <1>5, <3>3, <3>4
  <2>2. \A i, j \in 1 .. last : i <= j => queue'[i].depth <= queue'[j].depth
    <3> SUFFICES ASSUME NEW i \in 1 .. last, NEW j \in 1 .. last, i <= j
                 PROVE  queue'[i].depth <= queue'[j].depth
      OBVIOUS
    <3>1. CASE j = last
      BY <1>4, <2>1, <3>1
    <3>2. CASE j # last
      <4>1. i \in 1 .. (last - 1) /\ j \in 1 .. (last - 1)
        BY <1>4, <3>2
      <4> QED BY <1>4, <4>1 DEF Searching, QueueSorted
    <3> QED BY <3>1, <3>2
  <2>3. ASSUME NEW i \in 1 .. last, NEW j \in 1 .. last
        PROVE  queue'[j].depth <= queue'[i].depth + 1
    <3> PICK a, b : a = queue'[i].depth /\ b = queue'[j].depth
      OBVIOUS
    <3>1. a \in Nat /\ b \in Nat /\ r <= a /\ b <= r + 1
      BY <2>1
    <3>2. r \in Nat
      BY <1>2
    <3>3. b \in Nat
      BY <2>1
    <3> QED BY <3>1, <3>2, <3>3, OneApart
  <2> QED BY <1>2, <1>4, <2>1, <2>2, <2>3 DEF QueueSorted
<1>13. RowNearest'
  <2>1. /\ n \in visited' /\ n \in Nodes' /\ graph'.row_ptr[n] <= row'.i
        /\ row'.end = graph'.row_ptr[n + 1] /\ n \in Within(r)' /\ row'.depth = r
        /\ \A k \in Nat : n \in Within(k)' => r <= k
    BY <1>1, <1>2, <1>6, <1>7
  <2> QED BY <2>1 DEF RowNearest
<1>14. RootKnown' /\ VisitedWithin'
  BY <1>1, <1>10 DEF Searching, RootKnown, VisitedWithin
<1>15. TargetsKnown'
  <2> SUFFICES ASSUME NEW m \in visited, NEW k \in Nat, m \in Within(k), k + 1 < query.max_depth,
                      NEW f \in RowEdges(graph, m), ~ Pending(f)', NEW s \in Nodes, s = Target(f)
               PROVE  s \in visited' \/ Waits(s, k + 1)'
    BY <1>1 DEF TargetsKnown
  <2>1. f \in Int /\ m \in Nodes
    BY WithinSteps DEF RowEdges
  <2>2. CASE ~ Pending(f)
    <3>1. s \in visited \/ Waits(s, k + 1)
      BY <2>2 DEF Searching, TargetsKnown
    <3> QED BY <1>10, <3>1
  <2>3. CASE f = e
    <3>1. r <= k
      BY <1>9, <2>1, <2>3, PendingIsOfRow DEF Searching
    <3> QED BY <1>10, <2>3, <3>1
  <2> QED BY <1>8, <2>1, <2>2, <2>3
<1>16. RowsTaken'
  <2> SUFFICES ASSUME NEW m \in visited, m \in Nodes, NEW f \in RowEdges(graph, m),
                      ~ Pending(f)', graph.in_arena[f]
               PROVE  f \in Collected'
    BY <1>1 DEF RowsTaken
  <2>1. f \in Int
    BY DEF RowEdges
  <2>2. CASE ~ Pending(f)
    BY <1>3, <2>2 DEF Searching, RowsTaken
  <2>3. CASE f = e
    BY <1>3, <2>3
  <2> QED BY <1>8, <2>1, <2>2, <2>3
<1> QED BY <1>11, <1>12, <1>13, <1>14, <1>15, <1>16 DEF Searching

(* The search starts with the root in the queue, and nothing collected. *)
LEMMA InitEstablishesAnswerInv == Init => AnswerInv
<1> SUFFICES ASSUME Init PROVE AnswerInv
  OBVIOUS
<1>1. IInv
  BY InitEstablishesIInv
<1>2. /\ visited = {} /\ results = <<>> /\ row = NoRow /\ status = "running"
      /\ queue = <<[node |-> query.root, depth |-> 0]>>
  BY DEF Init
<1>3. /\ DOMAIN queue = {1} /\ queue[1].node = query.root /\ queue[1].depth = 0
      /\ DOMAIN results = {} /\ ~ Scanning
  BY <1>2 DEF Scanning, NoRow
<1>4. Collected = {}
  BY <1>3 DEF Collected
<1>5. NearestFirst /\ AnswersTheQuery
  BY <1>2, <1>3 DEF NearestFirst, AnswersTheQuery
<1>6. QueueSound /\ QueueSorted
  <2>1. query.root \in Nodes => query.root \in Within(0)
    BY WithinSteps
  <2> QED BY <1>3, <2>1 DEF QueueSound, QueueSorted
<1>7. RowNearest /\ RootKnown /\ VisitedWithin /\ TargetsKnown /\ RowsTaken
  BY <1>2, <1>3 DEF RowNearest, RootKnown, VisitedWithin, TargetsKnown, RowsTaken, Waits
<1> QED BY <1>1, <1>4, <1>5, <1>6, <1>7 DEF AnswerInv, Searching

(* Taking a node from the queue returns no document. *)
LEMMA DequeuePreservesAnswerInv ==
  ASSUME AnswerInv, Dequeue
  PROVE  AnswerInv'
<1>1. /\ IInv /\ TypeOK /\ IInv'
  BY DequeuePreservesIInv DEF AnswerInv, IInv
<1>2. /\ status = "running" /\ ~ Scanning /\ queue # <<>> /\ queue' = Tail(queue)
      /\ UNCHANGED <<query, results, status>>
      /\ Skip \/ Expand
  BY DEF Dequeue, Rest
<1>3. graph' = graph /\ \A k : EdgesWithin(k)' = EdgesWithin(k)
  BY <1>2, SameQuery
<1>4. ASSUME WellFormed(graph)
      PROVE  /\ Collected' \subseteq EdgesWithin(query.max_depth)'
             /\ NearestFirst' /\ Searching' /\ AnswersTheQuery'
  <2>1. Searching /\ NearestFirst /\ Collected \subseteq EdgesWithin(query.max_depth)
    BY <1>2, <1>4 DEF AnswerInv
  <2>2. Searching'
    <3>1. CASE Skip
      BY <1>1, <1>2, <1>4, <2>1, <3>1, SkipKeepsSearching
    <3>2. CASE Expand
      BY <1>1, <1>2, <1>4, <2>1, <3>2, ExpandKeepsSearching
    <3> QED BY <1>2, <3>1, <3>2
  <2>3. Collected' = Collected
    BY <1>2 DEF Collected
  <2>4. EdgesWithin(query.max_depth)' = EdgesWithin(query.max_depth)
    BY <1>2, <1>3 DEF EdgesWithin
  <2>5. NearestFirst'
    BY <1>2, <1>3, <2>1, <1>4 DEF NearestFirst
  <2>6. AnswersTheQuery'
    BY <1>2 DEF AnswersTheQuery
  <2> QED BY <2>1, <2>2, <2>3, <2>4, <2>5, <2>6
<1>5. WellFormed(graph)' => WellFormed(graph)
  BY <1>3
<1> QED BY <1>1, <1>4, <1>5 DEF AnswerInv

(* Scanning an edge: the document is a nearest one of those left, and a    *)
(* call that returns here has as many as it may.                           *)
LEMMA ScanEdgePreservesAnswerInv ==
  ASSUME AnswerInv, ScanEdge
  PROVE  AnswerInv'
<1>1. /\ IInv /\ TypeOK /\ IInv'
  BY ScanEdgePreservesIInv DEF AnswerInv, IInv
<1>2. /\ status = "running" /\ Scanning /\ InBounds(row.i)
      /\ results' = IF graph.in_arena[row.i] THEN Append(results, row.i) ELSE results
      /\ UNCHANGED <<query, visited>>
      /\ \/ Full(results') /\ status' = "returned"
         \/ /\ status' = "running"
            /\ queue' = Enqueued(graph.col_idx[row.i], row.depth + 1)
            /\ row' = [row EXCEPT !.i = @ + 1]
  BY DEF ScanEdge
<1>3. graph' = graph /\ \A k : EdgesWithin(k)' = EdgesWithin(k)
  BY <1>2, SameQuery
<1>4. ASSUME WellFormed(graph)
      PROVE  /\ Collected' \subseteq EdgesWithin(query.max_depth)'
             /\ NearestFirst' /\ AnswersTheQuery'
             /\ status' = "running" => Searching'
  <2>1. Searching /\ NearestFirst /\ Collected \subseteq EdgesWithin(query.max_depth)
    BY <1>2, <1>4 DEF AnswerInv
  <2>2. Collected' \subseteq EdgesWithin(query.max_depth) /\ NearestFirst'
    BY <1>1, <1>2, <1>4, <2>1, ScanTakesNearest
  <2>3. EdgesWithin(query.max_depth)' = EdgesWithin(query.max_depth)
    BY <1>2, <1>3 DEF EdgesWithin
  <2>4. status' = "running" => Searching'
    BY <1>1, <1>2, <1>4, <2>1, ScanKeepsSearching
  <2>5. status' = "returned" => Len(results') = query'.limit
    <3> SUFFICES ASSUME status' = "returned" PROVE Len(results') = query'.limit
      OBVIOUS
    <3>1. Full(results')
      BY <1>2
    <3>2. Len(results') <= query'.limit
      BY <1>1 DEF IInv, LimitHeld
    <3>3. query.limit \in Nat /\ Len(results') \in Nat
      <4> DEFINE Edges == 0 .. Nnz(graph') - 1
      <4>1. results' \in Seq(Edges)
        BY <1>1 DEF IInv, TypeOK
      <4> HIDE DEF Edges
      <4> QED BY <1>1, <4>1, QueryType
    <3> QED BY <1>2, <3>1, <3>2, <3>3 DEF Full
  <2> QED BY <2>2, <2>3, <2>4, <2>5 DEF AnswersTheQuery
<1>5. WellFormed(graph)' => WellFormed(graph)
  BY <1>3
<1> QED BY <1>1, <1>4, <1>5 DEF AnswerInv

(* With nothing in the queue every edge asked for was scanned. *)
LEMMA ReturnPreservesAnswerInv ==
  ASSUME AnswerInv, Return
  PROVE  AnswerInv'
<1>1. /\ IInv /\ TypeOK /\ IInv'
  BY ReturnPreservesIInv DEF AnswerInv, IInv
<1>2. /\ status = "running" /\ ~ Scanning /\ queue = <<>> /\ status' = "returned"
      /\ UNCHANGED <<query, visited, queue, results, row>>
  BY DEF Return
<1>3. graph' = graph /\ (\A k : EdgesWithin(k)' = EdgesWithin(k)) /\ Collected' = Collected
  BY <1>2, SameQuery DEF Collected
<1>4. ASSUME WellFormed(graph)
      PROVE  /\ Collected' \subseteq EdgesWithin(query.max_depth)'
             /\ NearestFirst' /\ AnswersTheQuery'
  <2>1. Searching /\ NearestFirst /\ Collected \subseteq EdgesWithin(query.max_depth)
    BY <1>2, <1>4 DEF AnswerInv
  <2>2. EdgesWithin(query.max_depth)' = EdgesWithin(query.max_depth)
    BY <1>2, <1>3 DEF EdgesWithin
  <2>3. NearestFirst'
    BY <1>2, <1>3, <1>4, <2>1 DEF NearestFirst
  <2>4. EdgesWithin(query.max_depth) \subseteq Collected
    <3>1. query.max_depth \in Nat
      BY <1>1, QueryType
    <3>2. CASE query.max_depth = 0
      BY <3>2 DEF EdgesWithin
    <3>3. CASE query.max_depth # 0
      <4> DEFINE k == query.max_depth - 1
      <4>1. k \in Nat /\ k < query.max_depth /\ k + 1 = query.max_depth
        BY <3>1, <3>3
      <4>2. DOMAIN queue = {}
        BY <1>2
      <4> HIDE DEF k
      <4>3. EdgesWithin(k + 1) \subseteq Collected
        BY <1>1, <1>2, <1>4, <2>1, <4>1, <4>2, InnerRowsTaken
      <4> QED BY <4>1, <4>3
    <3> QED BY <3>2, <3>3
  <2> QED BY <1>3, <2>1, <2>2, <2>3, <2>4 DEF AnswersTheQuery
<1>5. WellFormed(graph)' => WellFormed(graph)
  BY <1>3
<1> QED BY <1>1, <1>2, <1>4, <1>5 DEF AnswerInv

(* A panic, or no step, changes nothing of the answer. *)
LEMMA PanicPreservesAnswerInv ==
  ASSUME AnswerInv, ScanPanics \/ UNCHANGED vars
  PROVE  AnswerInv'
<1>1. /\ IInv /\ IInv'
  BY ScanPanicsPreservesIInv, ReturnPreservesIInv DEF AnswerInv
<1>2. /\ status' = "panicked" \/ status' = status
      /\ UNCHANGED <<query, visited, queue, results, row>>
  BY DEF ScanPanics, vars
<1>3. graph' = graph /\ (\A k : EdgesWithin(k)' = EdgesWithin(k)) /\ Collected' = Collected
  BY <1>2, SameQuery DEF Collected
<1>4. /\ EdgesWithin(query.max_depth)' = EdgesWithin(query.max_depth)
      /\ WellFormed(graph)' = WellFormed(graph)
  BY <1>2, <1>3 DEF EdgesWithin
<1>5. NearestFirst => NearestFirst'
  BY <1>2, <1>3 DEF NearestFirst
<1>6. AnswersTheQuery => AnswersTheQuery'
  BY <1>2, <1>3, <1>4 DEF AnswersTheQuery
<1>7. status' = "running" => status = "running"
  BY <1>2
<1>8. Searching => Searching'
  <2>1. /\ Nodes' = Nodes /\ (\A k : Within(k)' = Within(k)) /\ \A f : Target(f)' = Target(f)
    BY <1>2, SameQuery
  <2>2. Scanning' = Scanning /\ \A f : Pending(f)' = Pending(f)
    BY <1>2 DEF Scanning, Pending
  <2>3. \A n, k : Waits(n, k)' = Waits(n, k)
    BY <1>2 DEF Waits
  <2>4. \A n : RowEdges(graph, n)' = RowEdges(graph, n)
    BY <1>3 DEF RowEdges
  <2>5. /\ QueueSound => QueueSound'
        /\ QueueSorted => QueueSorted'
    BY <1>2, <2>1, <2>2 DEF QueueSound, QueueSorted
  <2>6. /\ RowNearest => RowNearest'
        /\ RootKnown => RootKnown'
        /\ VisitedWithin => VisitedWithin'
    BY <1>2, <1>3, <2>1, <2>2, <2>3 DEF RowNearest, RootKnown, VisitedWithin
  <2>7. TargetsKnown => TargetsKnown'
    BY <1>2, <1>3, <2>1, <2>2, <2>3 DEF TargetsKnown
  <2>8. RowsTaken => RowsTaken'
    BY <1>2, <1>3, <2>1, <2>2 DEF RowsTaken
  <2> QED BY <2>5, <2>6, <2>7, <2>8 DEF Searching
<1> QED BY <1>1, <1>3, <1>4, <1>5, <1>6, <1>7, <1>8 DEF AnswerInv

LEMMA NextPreservesAnswerInv == AnswerInv /\ [Next]_vars => AnswerInv'
<1> QED BY DequeuePreservesAnswerInv, PanicPreservesAnswerInv, ScanEdgePreservesAnswerInv,
           ReturnPreservesAnswerInv DEF Next

(* AnswerInv is an invariant of bfs_posts.                                 *)
THEOREM BfsAnswerInvariant == Spec => []AnswerInv
<1> QED BY InitEstablishesAnswerInv, NextPreservesAnswerInv, PTL DEF Spec

(* A document k edges from the root is taken only after all from fewer     *)
(* than k, so that a search cut short by max_results has the nearest.      *)
THEOREM BfsNearestFirst == Spec => []NearestFirst
<1>1. AnswerInv => NearestFirst
  BY DEF AnswerInv, NearestFirst
<1> QED BY <1>1, BfsAnswerInvariant, PTL

(* On a well-formed graph bfs_posts returns the documents within           *)
(* max_depth edges of the root and no others, unless max_results cut it    *)
(* short.                                                                  *)
THEOREM BfsAnswersTheQuery == Spec => []AnswersTheQuery
<1>1. AnswerInv => AnswersTheQuery
  BY DEF AnswerInv, AnswersTheQuery
<1> QED BY <1>1, BfsAnswerInvariant, PTL
===============================================================================
