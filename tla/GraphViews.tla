----------------------------- MODULE GraphViews -----------------------------
(***************************************************************************)
(* What is drawn of a code graph: the neighbourhood that                   *)
(* KnowledgeGraphStore.neighbors of clangwiki/graph.py answers, the search *)
(* filter, the call-flow projection and the merge of two answers in        *)
(* frontend/src/GraphWorkbench.tsx, the roles of frontend/src/             *)
(* GraphCanvas.tsx and the cut of frontend/src/Graph3D.tsx.                *)
(*                                                                         *)
(* All of them cut their graph at a limit.  A graph is a set of nodes and  *)
(* a set of edges; an id stands for its record, so the maps of the code,   *)
(* which are keyed by id, are sets here.  The order in which a cut prefers *)
(* ids (their place in an answer, their degree) is the constant Place.     *)
(***************************************************************************)
EXTENDS Naturals, FiniteSets

CONSTANTS
  Nodes, Edges,         \* ids of the repository's graph
  Source, Target,       \* the ends of an edge
  Callbacks,            \* the REGISTER_CALLBACK and INVOKES_CALLBACK edges
  Place,                \* the order in which ids are kept when there are too many
  AnswerNodes,          \* limit of a neighbourhood (80)
  FoundNodes,           \* limits of the search filter (120
  FoundEdges,           \*   and 180)
  Quota,                \* lane -> nodes of the call flow that are drawn
  DrawNodes, DrawEdges  \* limits of the 3D view (1500 and 3500)

Lanes == {"up2", "up1", "anchor", "down1", "down2", "callback", "related"}

ASSUME GraphAssumption ==
  /\ IsFiniteSet(Nodes) /\ IsFiniteSet(Edges)
  /\ Source \in [Edges -> Nodes] /\ Target \in [Edges -> Nodes]
  /\ Callbacks \subseteq Edges
  /\ Place \in [Nodes \cup Edges -> Nat]
  /\ \A x, y \in Nodes \cup Edges : Place[x] = Place[y] => x = y
  /\ Quota \in [Lanes -> Nat] /\ Quota["anchor"] = 1
  /\ {AnswerNodes, FoundNodes, FoundEdges, DrawNodes, DrawEdges} \subseteq Nat

Graph == [nodes : SUBSET Nodes, edges : SUBSET Edges]
EmptyGraph == [nodes |-> {}, edges |-> {}]

Ends(e) == {Source[e], Target[e]}
Among(edges, nodes) == {e \in edges : Ends(e) \subseteq nodes}

\* Every edge has both of its nodes.
Closed(g) == g.edges = Among(g.edges, g.nodes)

\* slice(0, n) of S in the order of Place.
First(S, n) == {x \in S : Cardinality({y \in S : Place[y] < Place[x]}) < n}

-----------------------------------------------------------------------------
(***************************************************************************)
(* The server's answer.                                                    *)
(***************************************************************************)

Touching(edges, nodes) == {e \in edges : Ends(e) \cap nodes # {}}
EndsOf(edges) == UNION {Ends(e) : e \in edges}

Followed(frontier, direction) ==
  {e \in Edges : \/ direction # "incoming" /\ Source[e] \in frontier
                 \/ direction # "outgoing" /\ Target[e] \in frontier}

\* Every edge at the frontier is taken, but no node beyond the limit.  The limits of
\* the callers (40 and 80) and of the SELECT (four times as many rows) are one here,
\* and the kinds asked for and the path over projected edges are left out.
neighbors(center, depth, direction) ==
  LET start == [seen |-> {center}, frontier |-> {center}, edges |-> {}]
      next(h) == LET rows == Followed(h.frontier, direction)
                     new == First(EndsOf(rows) \ h.seen, AnswerNodes - Cardinality(h.seen))
                 IN  [seen |-> h.seen \cup new, frontier |-> new, edges |-> h.edges \cup rows]
      hop[k \in 0..depth] ==
        IF k = 0 THEN start
        ELSE IF hop[k - 1].frontier = {} \/ Cardinality(hop[k - 1].seen) >= AnswerNodes
             THEN hop[k - 1] ELSE next(hop[k - 1])
  IN  [nodes |-> hop[depth].seen, edges |-> hop[depth].edges]

-----------------------------------------------------------------------------
(***************************************************************************)
(* The workbench.                                                          *)
(***************************************************************************)

mergeGraphs(left, right) ==
  [nodes |-> left.nodes \cup right.nodes, edges |-> left.edges \cup right.edges]

\* The search box keeps the nodes that match, their edges and the edges' other
\* ends, and cuts the nodes and the edges each by itself.
focusedGraph(g, hits) ==
  LET found == g.nodes \cap hits
      edges == Touching(g.edges, found)
  IN  [nodes |-> First(g.nodes \cap (found \cup EndsOf(edges)), FoundNodes),
       edges |-> First(edges, FoundEdges)]

\* Two hops against the edges (callers) or along them (callees).
From(e, reverse) == IF reverse THEN Target[e] ELSE Source[e]
To(e, reverse) == IF reverse THEN Source[e] ELSE Target[e]
Step(edges, frontier, reverse) ==
  {To(e, reverse) : e \in {d \in edges : From(d, reverse) \in frontier}}
Hop1(edges, anchor, reverse) == Step(edges, {anchor}, reverse) \ {anchor}
Hop2(edges, anchor, reverse) ==
  Step(edges, Hop1(edges, anchor, reverse), reverse)
    \ (Hop1(edges, anchor, reverse) \cup {anchor})

callbackIds(edges, anchor) == EndsOf(edges \cap Callbacks) \ {anchor}

\* The first of these that fits: a callback is not shown as caller or callee,
\* and a node on both sides is on the nearer one.
lane(edges, anchor, n) ==
  IF n = anchor THEN "anchor"
  ELSE IF n \in callbackIds(edges, anchor) THEN "callback"
  ELSE IF n \in Hop1(edges, anchor, TRUE) THEN "up1"
  ELSE IF n \in Hop1(edges, anchor, FALSE) THEN "down1"
  ELSE IF n \in Hop2(edges, anchor, TRUE) THEN "up2"
  ELSE IF n \in Hop2(edges, anchor, FALSE) THEN "down2"
  ELSE "related"

\* Mutant: an edge is kept for one end that is drawn.
callflowProjectionHalf(g, anchor) ==
  LET bucket(l) == {n \in g.nodes : lane(g.edges, anchor, n) = l}
      chosen == UNION {First(bucket(l), Quota[l]) : l \in Lanes}
  IN  [nodes |-> chosen, edges |-> Touching(g.edges, chosen)]

\* The early return for a graph without nodes, which has no edges, is the same.
callflowProjection(g, anchor) ==
  LET bucket(l) == {n \in g.nodes : lane(g.edges, anchor, n) = l}
      chosen == UNION {First(bucket(l), Quota[l]) : l \in Lanes}
  IN  [nodes |-> chosen, edges |-> Among(g.edges, chosen)]

-----------------------------------------------------------------------------
(***************************************************************************)
(* The two canvases.                                                       *)
(***************************************************************************)

\* The column of a node in the 2D call flow, found anew in the drawn edges.
callflowModel(g, anchor) == [n \in g.nodes |-> lane(g.edges, anchor, n)]

\* Mutant: an edge is kept for one end that is drawn.
prepareGraphHalf(g) ==
  LET kept == First(g.nodes, DrawNodes)
  IN  [nodes |-> kept, edges |-> First(Touching(g.edges, kept), DrawEdges)]

prepareGraph(g) ==
  LET kept == First(g.nodes, DrawNodes)
  IN  [nodes |-> kept, edges |-> First(Among(g.edges, kept), DrawEdges)]

=============================================================================
