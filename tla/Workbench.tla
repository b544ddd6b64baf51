----------------------------- MODULE Workbench ------------------------------
(***************************************************************************)
(* The graph workbench of the browser, for one repository:                 *)
(* frontend/src/GraphWorkbench.tsx with the two canvases it shows.         *)
(*                                                                         *)
(* A user's event changes the state of the component; after the commit     *)
(* React runs the effects, which may change it again and which start the   *)
(* loading of the graph.  Requests are in flight together and are answered *)
(* in any order.  The answers of load carry a version; all the others      *)
(* write whatever is on the screen when they arrive.                       *)
(*                                                                         *)
(* Left out: what is only displayed (detail, snippet, diagnostics, lists,  *)
(* the path and its two ends) and hence the requests that only fill it.    *)
(***************************************************************************)
EXTENDS GraphViews

CONSTANTS
  Callable,     \* nodes that are functions, methods or callbacks
  Modules,      \* nodes that are modules
  Communities,  \* nodes that stand for a community
  Entries,      \* functions among the search results and recommended entries
  Hubs, Listed, \* nodes in the insight lists, nodes in the rows of a list
  Surprises,    \* edges in the list of surprising connections
  Maps,         \* the graphs that /api/graph, impact and path may answer
  Searches,     \* for each keyword that may be typed, the nodes it matches
  None,         \* nothing selected, no search, no key
  MaxEvents     \* bound: events of the user

Views == {"hierarchy", "callflow", "dataflow", "impact"}
Levels == {"module", "symbol"}  \* file and repository are loaded like module
Presets == {"universe", "community", "ego", "impact", "surprise"}
Directions == {"incoming", "outgoing", "both"}
Depths == {1, 2}                \* the code also offers 3

ASSUME WorkbenchAssumption ==
  /\ None \notin Nodes \cup Edges \cup Searches
  /\ Callable \cup Modules \cup Communities \subseteq Nodes
  /\ Callable \cap (Modules \cup Communities) = {}
  /\ Modules \cap Communities = {}
  /\ Entries \subseteq Callable /\ Surprises \subseteq Edges
  /\ Hubs \cup Listed \subseteq Nodes \ Communities
  /\ Maps \subseteq Graph
  /\ Searches \subseteq SUBSET Nodes
  /\ MaxEvents \in Nat

VARIABLES
  ui,       \* the state hooks that handlers, effects and canvases read
  effects,  \* what the effects that have run last depended on
  shown,    \* the hook graph: the graph, who wrote it, for which key
  loading,  \* the hook of that name (spinner, disabled buttons)
  version,  \* the ref loadVersion
  missed,   \* the newest load has failed
  pending,  \* requests in flight
  tapped,   \* what the user's last event tapped on the 2D canvas (history)
  events

requests == <<shown, loading, version, missed, pending>>
vars == <<ui, effects, requests, tapped, events>>

callableSelected(u) == u.selected \in Callable
threeDEligible(u) ==
  \/ u.view = "hierarchy"
  \/ u.view = "callflow" /\ callableSelected(u)
  \/ u.view = "impact" /\ u.impact
callAnchorId(u) == IF u.view = "callflow" /\ callableSelected(u) THEN u.selected ELSE None

\* What load reads: its dependency list.
Key(u) ==
  [view |-> u.view, level |-> u.level, mode |-> u.mode, preset |-> u.preset,
   community |-> u.community, options |-> u.options, anchor |-> callAnchorId(u)]

\* The dependencies of all effects (the view and the mode are part of the key).
Dependencies(u) == [key |-> Key(u), eligible |-> threeDEligible(u)]
Settled == effects = Dependencies(ui)

UiType ==
  [view : Views, level : Levels, mode : {"2d", "3d"}, preset : Presets,
   community : Communities \cup {None},
   options : BOOLEAN,  \* includeCandidates, layers and neighborDepth together
   selected : Nodes \cup {None}, edge : Edges \cup {None}, inspector : BOOLEAN,
   impact : BOOLEAN,   \* there is an impactSummary
   hits : Searches \cup {None}]

KeyType ==
  [view : Views, level : Levels, mode : {"2d", "3d"}, preset : Presets,
   community : Communities \cup {None}, options : BOOLEAN, anchor : Callable \cup {None}]

Writers == {"nobody", "load", "focus", "drill", "impact", "expand", "path"}

\* Only a load has a key, only the others have a node or the graph they merge
\* their answer into.
Request(kind, tag, key, node, base) ==
  [kind |-> kind, tag |-> tag, key |-> key, node |-> node, base |-> base]

-----------------------------------------------------------------------------
(***************************************************************************)
(* Loading.                                                                *)
(***************************************************************************)

\* Mutant: the early return of the impact view leaves the spinner on.
loadSpinning(k) ==
  /\ version' = version + 1
  /\ missed' = FALSE
  /\ IF k.view = "impact"
     THEN UNCHANGED <<loading, pending>>
     ELSE /\ loading' = TRUE
          /\ pending' = pending \cup {Request("load", version + 1, k, None, EmptyGraph)}
  /\ UNCHANGED shown

load(k) ==
  /\ version' = version + 1
  /\ missed' = FALSE
  /\ IF k.view = "impact"
     THEN loading' = FALSE /\ pending' = pending
     ELSE /\ loading' = TRUE
          /\ pending' = pending \cup {Request("load", version + 1, k, None, EmptyGraph)}
  /\ UNCHANGED shown

presetLevel(v) == IF v = "hierarchy" THEN "module" ELSE "symbol"

\* The effects of one commit, in their order: [view], [renderMode,
\* threeDEligible], [load].  They read the committed state, so a load may start
\* for a level that the same commit's [view] effect replaces.
viewEffect(u) ==
  [u EXCEPT
     !.level = presetLevel(u.view),
     !.impact = u.impact /\ u.view = "impact",
     !.mode = IF \/ u.view = "dataflow"
                 \/ u.view = "callflow" /\ u.selected = None
                 \/ u.view = "impact" /\ ~u.impact
              THEN "2d" ELSE u.mode,
     !.edge = None]

\* Mutant: the 3D view is left only when the view changes.
modeEffectNever(u, committed) == u

modeEffect(u, committed) ==
  IF /\ committed.mode # effects.key.mode \/ threeDEligible(committed) # effects.eligible
     /\ committed.mode = "3d" /\ ~threeDEligible(committed)
  THEN [u EXCEPT !.mode = "2d"] ELSE u

RunEffects ==
  /\ ~Settled
  /\ ui' = modeEffect(IF ui.view # effects.key.view THEN viewEffect(ui) ELSE ui, ui)
  /\ effects' = Dependencies(ui)
  /\ IF effects.key # Key(ui) THEN load(Key(ui)) ELSE UNCHANGED requests
  /\ UNCHANGED <<tapped, events>>

\* The first render with a repository has run its effects.
Init ==
  /\ ui = [view |-> "hierarchy", level |-> "module", mode |-> "2d", preset |-> "universe",
           community |-> None, options |-> FALSE, selected |-> None, edge |-> None,
           inspector |-> FALSE, impact |-> FALSE, hits |-> None]
  /\ effects = Dependencies(ui)
  /\ shown = [graph |-> EmptyGraph, by |-> "nobody", key |-> None]
  /\ loading = TRUE
  /\ version = 1
  /\ missed = FALSE
  /\ pending = {Request("load", 1, Key(ui), None, EmptyGraph)}
  /\ tapped = None
  /\ events = 0

-----------------------------------------------------------------------------
(***************************************************************************)
(* What is drawn.                                                          *)
(***************************************************************************)

renderedGraph ==
  LET focused == IF ui.hits = None THEN shown.graph ELSE focusedGraph(shown.graph, ui.hits)
  IN  IF callAnchorId(ui) # None THEN callflowProjection(focused, callAnchorId(ui)) ELSE focused

\* Without an analysis or an entry function there is a picker in its place.
CanvasShown ==
  /\ ui.view = "impact" => ui.impact
  /\ ui.view = "callflow" => callAnchorId(ui) # None

Drawn == IF ui.mode = "3d" THEN prepareGraph(renderedGraph) ELSE renderedGraph

-----------------------------------------------------------------------------
(***************************************************************************)
(* Events of the user.  React has run the effects of earlier events first. *)
(***************************************************************************)

Event(what) ==
  /\ events' = events + 1
  /\ tapped' = what
  /\ UNCHANGED effects

Become(u) == ui' = u /\ UNCHANGED requests

\* A request that answers a user's event; the busy ones show the spinner.
Send(kind, key, node, base) ==
  /\ pending' = pending \cup {Request(kind, events', key, node, base)}
  /\ UNCHANGED <<shown, version, missed>>
SendBusy(kind, node, base) == Send(kind, None, node, base) /\ loading' = TRUE
SendQuiet(kind, node) == Send(kind, None, node, EmptyGraph) /\ UNCHANGED loading

selectNode(u, n) == [u EXCEPT !.selected = n, !.edge = None, !.inspector = TRUE]
deselect(u) ==
  IF u.view = "callflow" /\ callableSelected(u)
  THEN [u EXCEPT !.edge = None, !.inspector = FALSE]
  ELSE [u EXCEPT !.selected = None, !.edge = None, !.inspector = FALSE]
selectEdge(u, e) ==
  [u EXCEPT !.edge = e, !.inspector = e # None,
            !.selected = IF u.view = "callflow" THEN u.selected ELSE None]

activateView(v) ==
  /\ Event(None)
  /\ Become([ui EXCEPT !.mode = "2d", !.community = None, !.view = v,
                       !.preset = CASE v = "callflow" -> "ego"
                                    [] v = "impact" -> "impact"
                                    [] OTHER -> "universe"])

openCommunityUniverse(c) ==
  /\ Event(None)
  /\ Become([ui EXCEPT !.view = "hierarchy", !.level = "module", !.community = c,
                       !.preset = "community", !.mode = "3d"])

openInsightNode(n) ==
  /\ Event(None)
  /\ Become(selectNode([ui EXCEPT !.view = "hierarchy", !.community = None,
                                  !.preset = "universe", !.mode = "3d"], n))

openSurpriseUniverse(e) ==
  /\ Event(None)
  /\ Become([selectEdge(ui, e) EXCEPT !.view = "hierarchy", !.community = None,
                                      !.preset = "surprise", !.mode = "3d"])

\* A row of the cycles, of the orphans or of a node's relations.
selectListed(n) == Event(None) /\ Become(selectNode(ui, n))

setLevel(l) ==
  /\ ui.view \notin {"impact", "callflow"} /\ ui.mode = "2d" /\ ui.level # l
  /\ Event(None)
  /\ Become([ui EXCEPT !.level = l])

toggleOptions == Event(None) /\ Become([ui EXCEPT !.options = ~ui.options])

typeSearch(hits) ==
  /\ ui.hits # hits
  /\ Event(None)
  /\ Become([ui EXCEPT !.hits = hits])

clearCommunity ==
  /\ ui.community # None
  /\ Event(None)
  /\ Become([ui EXCEPT !.community = None])

closeInspector ==
  /\ ui.edge # None \/ (ui.inspector /\ ui.selected # None)
  /\ Event(None)
  /\ Become([ui EXCEPT !.inspector = FALSE, !.edge = None])

changeEntry ==
  /\ callAnchorId(ui) # None
  /\ Event(None)
  /\ Become([ui EXCEPT !.selected = None, !.inspector = FALSE, !.mode = "2d"])

set2D ==
  /\ ui.mode = "3d"
  /\ Event(None)
  /\ Become([ui EXCEPT !.mode = "2d"])

set3D ==
  /\ threeDEligible(ui)
  /\ Event(None)
  /\ Become([ui EXCEPT !.mode = "3d",
                       !.preset = CASE ui.view = "callflow" -> "ego"
                                    [] ui.view = "impact" -> "impact"
                                    [] OTHER -> ui.preset])

refresh == Event(None) /\ load(Key(ui)) /\ UNCHANGED ui

-----------------------------------------------------------------------------
(***************************************************************************)
(* The canvases' events.  A tap of the 2D canvas calls both onSelect and   *)
(* onSelectEdge, one of them with null.                                    *)
(***************************************************************************)

TapNode(n) ==
  /\ ui.mode = "2d"
  /\ Event(n)
  /\ Become(selectEdge(selectNode(ui, n), None))

TapEdge(e) ==
  /\ ui.mode = "2d"
  /\ Event(e)
  /\ Become(deselect(selectEdge(ui, e)))

TapBackground ==
  /\ ui.mode = "2d"
  /\ Event(None)
  /\ Become(selectEdge(deselect(ui), None))

ClickNode3D(n) ==
  /\ ui.mode = "3d"
  /\ Event(None)
  /\ Become(selectNode(ui, n))

\* Mutant: every double click opens a community.
drill3DNodeUnchecked(n) ==
  /\ ui.mode = "3d"
  /\ Event(None)
  /\ Become([ui EXCEPT !.community = n, !.preset = "community"])

\* A double click; its neighbours are asked for when selectNode has returned.
drill3DNode(n) ==
  /\ ui.mode = "3d"
  /\ Event(None)
  /\ IF n \in Communities
     THEN Become([ui EXCEPT !.community = n, !.preset = "community"])
     ELSE ui' = selectNode(ui, n) /\ SendQuiet("drilldetail", n)

-----------------------------------------------------------------------------
(***************************************************************************)
(* Events that ask the server for more of the graph.                       *)
(***************************************************************************)

\* From the search results or, in the call flow, from the recommended entries.
focusSymbol(n) ==
  /\ Event(None)
  /\ ui' = [ui EXCEPT !.mode = "2d", !.preset = "ego", !.view = "callflow",
                      !.level = "symbol", !.selected = n, !.hits = None]
  /\ SendQuiet("focus", n)

runImpact ==
  /\ ui.view = "impact" /\ ui.selected # None /\ ~loading
  /\ Event(None)
  /\ SendBusy("impact", ui.selected, EmptyGraph)
  /\ UNCHANGED ui

expand ==
  /\ ui.inspector /\ ui.selected # None /\ ui.edge = None /\ ~loading
  /\ Event(None)
  /\ SendBusy("expand", ui.selected, shown.graph)
  /\ UNCHANGED ui

findPath ==
  /\ ui.view = "callflow" => callAnchorId(ui) # None
  /\ ~loading
  /\ Event(None)
  /\ SendBusy("path", None, shown.graph)
  /\ UNCHANGED ui

compareVersions == Event(None) /\ SendBusy("diff", None, EmptyGraph) /\ UNCHANGED ui

CanvasEvent ==
  LET drawn == Drawn
  IN  \/ \E n \in drawn.nodes : TapNode(n) \/ ClickNode3D(n) \/ drill3DNode(n)
      \/ \E e \in drawn.edges : TapEdge(e)
      \/ TapBackground

ControlEvent ==
  \/ \E v \in Views : activateView(v)
  \/ \E c \in Communities : openCommunityUniverse(c)
  \/ \E n \in Hubs : openInsightNode(n)
  \/ \E n \in Listed : selectListed(n)
  \/ \E e \in Surprises : openSurpriseUniverse(e)
  \/ \E l \in Levels : setLevel(l)
  \/ \E h \in Searches \cup {None} : typeSearch(h)
  \/ toggleOptions \/ clearCommunity \/ closeInspector \/ changeEntry
  \/ set2D \/ set3D \/ refresh
  \/ \E n \in Entries : focusSymbol(n)
  \/ runImpact \/ expand \/ findPath \/ compareVersions

UserEvent ==
  /\ Settled
  /\ events < MaxEvents
  /\ \/ ControlEvent
     \/ CanvasShown /\ CanvasEvent

-----------------------------------------------------------------------------
(***************************************************************************)
(* Answers.                                                                *)
(***************************************************************************)

Answered(r) == pending' = pending \ {r} /\ UNCHANGED <<effects, version, tapped, events>>

Show(g, by, key) == shown' = [graph |-> g, by |-> by, key |-> key]

\* A repository's call flow without an entry lists core functions and draws
\* nothing; one with an entry draws its neighbourhood.
LoadedGraphs(k) ==
  IF k.view = "callflow" /\ k.anchor # None
  THEN {neighbors(k.anchor, d, "both") : d \in Depths}
  ELSE IF k.view = "callflow" /\ k.level = "symbol" /\ k.community = None
       THEN {EmptyGraph} ELSE Maps

\* Mutant: an overtaken answer is applied.
LoadAnswerAnyVersion(r) ==
  /\ r.kind = "load"
  /\ Answered(r)
  /\ UNCHANGED ui
  /\ loading' = FALSE
  /\ \/ \E g \in LoadedGraphs(r.key) : Show(g, "load", r.key) /\ UNCHANGED missed
     \/ missed' = TRUE /\ UNCHANGED shown

LoadAnswer(r) ==
  /\ r.kind = "load"
  /\ Answered(r)
  /\ UNCHANGED ui
  /\ IF r.tag # version THEN UNCHANGED <<shown, loading, missed>>
     ELSE /\ loading' = FALSE
          /\ \/ \E g \in LoadedGraphs(r.key) : Show(g, "load", r.key) /\ UNCHANGED missed
             \/ missed' = TRUE /\ UNCHANGED shown

FocusAnswer(r) ==
  /\ r.kind = "focus"
  /\ Answered(r)
  /\ UNCHANGED <<loading, missed>>
  /\ \/ Show(neighbors(r.node, 1, "both"), "focus", None) /\ ui' = selectNode(ui, r.node)
     \/ UNCHANGED <<shown, ui>>

\* The details have arrived or failed: selectNode returns, and the neighbours
\* are asked for.
DrillDetailAnswer(r) ==
  /\ r.kind = "drilldetail"
  /\ pending' = (pending \ {r}) \cup {[r EXCEPT !.kind = "drill"]}
  /\ UNCHANGED <<ui, effects, shown, loading, version, missed, tapped, events>>

DrillAnswer(r) ==
  /\ r.kind = "drill"
  /\ Answered(r)
  /\ UNCHANGED <<loading, missed>>
  /\ \/ /\ Show(neighbors(r.node, 1, "both"), "drill", None)
        /\ ui' = IF r.node \in Modules THEN ui ELSE [ui EXCEPT !.preset = "ego"]
     \/ UNCHANGED <<shown, ui>>

ImpactAnswer(r) ==
  /\ r.kind = "impact"
  /\ Answered(r)
  /\ loading' = FALSE
  /\ UNCHANGED missed
  /\ \/ /\ \E g \in Maps : Show(g, "impact", None)
        /\ ui' = [ui EXCEPT !.impact = TRUE, !.selected = r.node, !.edge = None]
     \/ UNCHANGED <<shown, ui>>

ExpandAnswer(r) ==
  /\ r.kind = "expand"
  /\ Answered(r)
  /\ loading' = FALSE
  /\ UNCHANGED <<ui, missed>>
  /\ \/ \E d \in Depths, w \in Directions :
          Show(mergeGraphs(r.base, neighbors(r.node, d, w)), "expand", None)
     \/ UNCHANGED shown

PathAnswer(r) ==
  /\ r.kind = "path"
  /\ Answered(r)
  /\ loading' = FALSE
  /\ UNCHANGED <<ui, missed>>
  /\ \/ \E g \in Maps : Show(mergeGraphs(r.base, g), "path", None)
     \/ UNCHANGED shown

DiffAnswer(r) ==
  /\ r.kind = "diff"
  /\ Answered(r)
  /\ loading' = FALSE
  /\ UNCHANGED <<ui, shown, missed>>

Answer(r) ==
  \/ LoadAnswer(r) \/ FocusAnswer(r) \/ DrillDetailAnswer(r) \/ DrillAnswer(r)
  \/ ImpactAnswer(r) \/ ExpandAnswer(r) \/ PathAnswer(r) \/ DiffAnswer(r)

Next == RunEffects \/ UserEvent \/ \E r \in pending : Answer(r)

Spec == Init /\ [][Next]_vars

-----------------------------------------------------------------------------
(***************************************************************************)
(* Properties.                                                             *)
(***************************************************************************)

TypeOK ==
  /\ ui \in UiType
  /\ effects \in [key : KeyType, eligible : BOOLEAN]
  /\ shown.graph \in Graph /\ shown.by \in Writers /\ shown.key \in KeyType \cup {None}
  /\ loading \in BOOLEAN /\ missed \in BOOLEAN
  /\ version \in Nat /\ events \in 0..MaxEvents
  /\ tapped \in Nodes \cup Edges \cup {None}

\* The graph that load has put on the screen is the one the settings ask for:
\* when the effects have run it was loaded for the current key, or a newer load
\* is under way or has failed.  No answer that was overtaken is applied.
LoadedIsCurrent ==
  Settled /\ shown.by = "load" /\ ui.view # "impact" /\ ~missed
    => \/ shown.key = Key(ui)
       \/ \E r \in pending : r.kind = "load" /\ r.tag = version

\* The spinner, which also disables buttons, is always turned off again:
\* some request in flight will do it, whatever has been started since.
NoOrphanSpinner ==
  loading => \E r \in pending :
    \/ r.kind \in {"impact", "expand", "path", "diff"}
    \/ r.kind = "load" /\ r.tag = version

\* After the effects the 3D view is only on where its button is offered.
ThreeDIsEligible == Settled /\ ui.mode = "3d" => threeDEligible(ui)

\* The graphs that are cut, the call flow and the 3D view, have both ends of
\* every edge they draw, whatever the answer and the search filter cut before.
CutIsClosed ==
  CanvasShown /\ (ui.mode = "3d" \/ ui.view = "callflow") => Closed(Drawn)

\* A call flow's columns tell the truth: a node in the second column from the
\* entry is connected to it by two drawn edges in that direction.
RolesAreChains ==
  CanvasShown /\ ui.mode = "2d" /\ ui.view = "callflow" =>
    LET entry == callAnchorId(ui)
        role == callflowModel(Drawn, entry)
        edge(x, y) == \E e \in Drawn.edges : Source[e] = x /\ Target[e] = y
    IN  \A n \in Drawn.nodes :
          /\ role[n] = "up1" => edge(n, entry)
          /\ role[n] = "down1" => edge(entry, n)
          /\ role[n] = "up2" => \E m \in Drawn.nodes : edge(n, m) /\ edge(m, entry)
          /\ role[n] = "down2" => \E m \in Drawn.nodes : edge(entry, m) /\ edge(m, n)

\* The 2D canvas is given both ends of every edge; cytoscape throws otherwise.
DrawnEdgesHaveEnds == CanvasShown => Closed(Drawn)

\* A tap on a node or an edge of the 2D canvas opens the inspector on it.
TapOpensInspector ==
  tapped # None => ui.inspector /\ tapped \in {ui.selected, ui.edge}

=============================================================================
