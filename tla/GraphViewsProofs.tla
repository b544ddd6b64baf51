-------------------------- MODULE GraphViewsProofs --------------------------
(***************************************************************************)
(* What the cuts of GraphViews preserve, for every graph, every limit and  *)
(* every order in which ids are kept.                                      *)
(***************************************************************************)
EXTENDS GraphViews, TLAPS

LEMMA FirstIsSubset == \A S, n : First(S, n) \subseteq S
BY DEF First

LEMMA AmongIsClosed ==
  ASSUME NEW edges, NEW nodes, NEW kept \in SUBSET Among(edges, nodes)
  PROVE  Closed([nodes |-> nodes, edges |-> kept])
BY DEF Closed, Among

\* The cut of the 3D view keeps both ends of every edge it keeps.
LEMMA PreparedIsClosed == \A g : Closed(prepareGraph(g))
<1> SUFFICES ASSUME NEW g PROVE Closed(prepareGraph(g))
  OBVIOUS
<1> DEFINE nodes == First(g.nodes, DrawNodes)
           edges == First(Among(g.edges, nodes), DrawEdges)
<1>1. edges \in SUBSET Among(g.edges, nodes)
  BY FirstIsSubset
<1>2. prepareGraph(g) = [nodes |-> nodes, edges |-> edges]
  BY DEF prepareGraph
<1> HIDE DEF nodes, edges
<1> QED
  BY <1>1, <1>2, AmongIsClosed

\* So does the call flow, although it picks its nodes lane by lane.
LEMMA ProjectionIsClosed == \A g, anchor : Closed(callflowProjection(g, anchor))
<1> SUFFICES ASSUME NEW g, NEW anchor PROVE Closed(callflowProjection(g, anchor))
  OBVIOUS
<1> DEFINE nodes == UNION {First({n \in g.nodes : lane(g.edges, anchor, n) = l}, Quota[l]) : l \in Lanes}
<1>1. callflowProjection(g, anchor) = [nodes |-> nodes, edges |-> Among(g.edges, nodes)]
  BY DEF callflowProjection
<1> HIDE DEF nodes
<1> QED
  BY <1>1, AmongIsClosed

\* Merging loses no ends: expanding a closed graph by a closed answer is closed.
LEMMA MergeIsClosed ==
  ASSUME NEW left, NEW right, Closed(left), Closed(right)
  PROVE  Closed(mergeGraphs(left, right))
BY DEF Closed, Among, mergeGraphs

\* A node's lane names a chain of edges between it and the anchor.
LEMMA LanesAreChains ==
  ASSUME NEW edges, NEW a, NEW n, a # n
  PROVE  /\ lane(edges, a, n) = "up1" => \E e \in edges : Source[e] = n /\ Target[e] = a
         /\ lane(edges, a, n) = "down1" => \E e \in edges : Source[e] = a /\ Target[e] = n
         /\ lane(edges, a, n) = "up2" =>
              \E d, e \in edges : Source[d] = n /\ Target[d] = Source[e] /\ Target[e] = a
         /\ lane(edges, a, n) = "down2" =>
              \E d, e \in edges : Source[d] = a /\ Target[d] = Source[e] /\ Target[e] = n
<1>1. /\ lane(edges, a, n) = "up1" => n \in Hop1(edges, a, TRUE)
      /\ lane(edges, a, n) = "down1" => n \in Hop1(edges, a, FALSE)
      /\ lane(edges, a, n) = "up2" => n \in Hop2(edges, a, TRUE)
      /\ lane(edges, a, n) = "down2" => n \in Hop2(edges, a, FALSE)
  BY DEF lane
<1>2. \A m : m \in Hop1(edges, a, TRUE) => \E e \in edges : Source[e] = m /\ Target[e] = a
  BY DEF Hop1, Step, From, To
<1>3. \A m : m \in Hop1(edges, a, FALSE) => \E e \in edges : Source[e] = a /\ Target[e] = m
  BY DEF Hop1, Step, From, To
<1>4. n \in Hop2(edges, a, TRUE) =>
        \E d \in edges : Source[d] = n /\ Target[d] \in Hop1(edges, a, TRUE)
  BY DEF Hop2, Step, From, To
<1>5. n \in Hop2(edges, a, FALSE) =>
        \E e \in edges : Target[e] = n /\ Source[e] \in Hop1(edges, a, FALSE)
  BY DEF Hop2, Step, From, To
<1>6. ASSUME lane(edges, a, n) = "up2"
      PROVE  \E d, e \in edges : Source[d] = n /\ Target[d] = Source[e] /\ Target[e] = a
  <2>1. PICK d \in edges : Source[d] = n /\ Target[d] \in Hop1(edges, a, TRUE)
    BY <1>1, <1>4, <1>6
  <2>2. PICK e \in edges : Source[e] = Target[d] /\ Target[e] = a
    BY <1>2, <2>1
  <2> QED
    BY <2>1, <2>2
<1>7. ASSUME lane(edges, a, n) = "down2"
      PROVE  \E d, e \in edges : Source[d] = a /\ Target[d] = Source[e] /\ Target[e] = n
  <2>1. PICK e \in edges : Target[e] = n /\ Source[e] \in Hop1(edges, a, FALSE)
    BY <1>1, <1>5, <1>7
  <2>2. PICK d \in edges : Source[d] = a /\ Target[d] = Source[e]
    BY <1>3, <2>1
  <2> QED
    BY <2>1, <2>2
<1>8. /\ lane(edges, a, n) = "up1" => \E e \in edges : Source[e] = n /\ Target[e] = a
      /\ lane(edges, a, n) = "down1" => \E e \in edges : Source[e] = a /\ Target[e] = n
  BY <1>1, <1>2, <1>3
<1> QED
  BY <1>6, <1>7, <1>8

\* A neighbourhood is part of the graph and holds its centre.  The hops are a
\* recursive function; there are at most two.
Hops == [seen : SUBSET Nodes, frontier : SUBSET Nodes, edges : SUBSET Edges]

LEMMA FollowedAreEdges ==
  ASSUME NEW frontier, NEW direction
  PROVE  /\ Followed(frontier, direction) \subseteq Edges
         /\ EndsOf(Followed(frontier, direction)) \subseteq Nodes
BY GraphAssumption DEF GraphAssumption, Followed, EndsOf, Ends

LEMMA NeighborsAreGraph ==
  ASSUME NEW center \in Nodes, NEW depth \in {1, 2}, NEW direction
  PROVE  /\ neighbors(center, depth, direction) \in Graph
         /\ center \in neighbors(center, depth, direction).nodes
<1> DEFINE start == [seen |-> {center}, frontier |-> {center}, edges |-> {}]
           next(h) == LET rows == Followed(h.frontier, direction)
                          new == First(EndsOf(rows) \ h.seen, AnswerNodes - Cardinality(h.seen))
                      IN  [seen |-> h.seen \cup new, frontier |-> new, edges |-> h.edges \cup rows]
           after(h) == IF h.frontier = {} \/ Cardinality(h.seen) >= AnswerNodes THEN h ELSE next(h)
           hop[k \in 0..depth] == IF k = 0 THEN start ELSE after(hop[k - 1])
<1>1. neighbors(center, depth, direction) = [nodes |-> hop[depth].seen, edges |-> hop[depth].edges]
  BY DEF neighbors
<1>2. start \in Hops /\ center \in start.seen
  BY DEF Hops
<1>3. ASSUME NEW h \in Hops, center \in h.seen
      PROVE  after(h) \in Hops /\ center \in after(h).seen
  <2> DEFINE rows == Followed(h.frontier, direction)
             new == First(EndsOf(rows) \ h.seen, AnswerNodes - Cardinality(h.seen))
  <2>1. rows \subseteq Edges /\ new \subseteq Nodes
    BY FollowedAreEdges, FirstIsSubset
  <2>2. next(h) = [seen |-> h.seen \cup new, frontier |-> new, edges |-> h.edges \cup rows]
    OBVIOUS
  <2> HIDE DEF rows, new, next
  <2>3. next(h) \in Hops /\ center \in next(h).seen
    BY <1>3, <2>1, <2>2 DEF Hops
  <2> QED
    BY <1>3, <2>3
<1> HIDE DEF start, after
<1>4. hop = [k \in 0..depth |-> IF k = 0 THEN start ELSE after(hop[k - 1])]
  <2> DEFINE first == after(start)
             second == after(first)
             f == [k \in 0..depth |-> IF k = 0 THEN start ELSE IF k = 1 THEN first ELSE second]
  <2>1. f = [k \in 0..depth |-> IF k = 0 THEN start ELSE after(f[k - 1])]
    OBVIOUS
  <2> HIDE DEF f
  <2>2. \E g : g = [k \in 0..depth |-> IF k = 0 THEN start ELSE after(g[k - 1])]
    BY <2>1
  <2> QED
    BY <2>2
<1> HIDE DEF hop
<1>5. hop[0] = start /\ hop[1] = after(start) /\ (depth = 2 => hop[2] = after(hop[1]))
  BY <1>4
<1>6. hop[depth] \in Hops /\ center \in hop[depth].seen
  BY <1>2, <1>3, <1>5
<1> QED
  BY <1>1, <1>6 DEF Hops, Graph

LEMMA CutsAreGraphs ==
  ASSUME NEW g \in Graph, NEW other \in Graph, NEW x
  PROVE  /\ mergeGraphs(g, other) \in Graph
         /\ focusedGraph(g, x) \in Graph
         /\ callflowProjection(g, x) \in Graph
         /\ prepareGraph(g) \in Graph
<1>1. g.nodes \subseteq Nodes /\ g.edges \subseteq Edges
  BY DEF Graph
<1>2. mergeGraphs(g, other) \in Graph
  BY DEF mergeGraphs, Graph
<1>3. focusedGraph(g, x) \in Graph
  <2>1. \A S, n : First(S, n) \subseteq S
    BY FirstIsSubset
  <2>2. focusedGraph(g, x).nodes \subseteq Nodes /\ focusedGraph(g, x).edges \subseteq Edges
    BY <1>1, <2>1 DEF focusedGraph, Touching
  <2> QED
    BY <2>2 DEF focusedGraph, Graph
<1>4. callflowProjection(g, x) \in Graph
  <2> DEFINE chosen == UNION {First({n \in g.nodes : lane(g.edges, x, n) = l}, Quota[l]) : l \in Lanes}
  <2>1. callflowProjection(g, x) = [nodes |-> chosen, edges |-> Among(g.edges, chosen)]
    BY DEF callflowProjection
  <2>2. chosen \subseteq Nodes
    <3> DEFINE part(l) == First({n \in g.nodes : lane(g.edges, x, n) = l}, Quota[l])
    <3>1. ASSUME NEW l PROVE part(l) \subseteq Nodes
      BY <1>1, FirstIsSubset
    <3>2. chosen = UNION {part(l) : l \in Lanes}
      OBVIOUS
    <3> HIDE DEF part, chosen
    <3> QED
      BY <3>1, <3>2
  <2> HIDE DEF chosen
  <2> QED
    BY <1>1, <2>1, <2>2 DEF Among, Graph
<1>5. prepareGraph(g) \in Graph
  <2> DEFINE kept == First(g.nodes, DrawNodes)
             edges == First(Among(g.edges, kept), DrawEdges)
  <2>1. prepareGraph(g) = [nodes |-> kept, edges |-> edges]
    BY DEF prepareGraph
  <2>2. kept \subseteq g.nodes /\ edges \subseteq Among(g.edges, kept)
    BY FirstIsSubset
  <2> HIDE DEF kept, edges
  <2> QED
    BY <1>1, <2>1, <2>2 DEF Among, Graph
<1> QED
  BY <1>2, <1>3, <1>4, <1>5

=============================================================================
