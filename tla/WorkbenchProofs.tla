-------------------------- MODULE WorkbenchProofs ---------------------------
(***************************************************************************)
(* What holds of Workbench for every graph, every limit, any number of     *)
(* events and any order of answers.                                        *)
(***************************************************************************)
EXTENDS Workbench, GraphViewsProofs

-----------------------------------------------------------------------------
(***************************************************************************)
(* What is drawn.                                                          *)
(***************************************************************************)

LEMMA DrawnIsClosed == CutIsClosed
<1> SUFFICES ASSUME CanvasShown, ui.mode = "3d" \/ ui.view = "callflow"
             PROVE  Closed(Drawn)
  BY DEF CutIsClosed
<1>1. CASE ui.mode = "3d"
  BY <1>1, PreparedIsClosed DEF Drawn
<1>2. CASE ui.mode # "3d" /\ ui.view = "callflow"
  BY <1>2, ProjectionIsClosed DEF CanvasShown, Drawn, renderedGraph
<1> QED
  BY <1>1, <1>2

\* Every graph that is cut for the call flow or the 3D view is drawn with both
\* ends of its edges.
THEOREM CutsAreClosed == Spec => []CutIsClosed
BY DrawnIsClosed, PTL

LEMMA DrawnRolesAreChains == RolesAreChains
<1> SUFFICES ASSUME CanvasShown, ui.mode = "2d", ui.view = "callflow", NEW n \in Drawn.nodes
             PROVE  LET entry == callAnchorId(ui)
                        role == callflowModel(Drawn, entry)
                        edge(x, y) == \E e \in Drawn.edges : Source[e] = x /\ Target[e] = y
                    IN  /\ role[n] = "up1" => edge(n, entry)
                        /\ role[n] = "down1" => edge(entry, n)
                        /\ role[n] = "up2" => \E m \in Drawn.nodes : edge(n, m) /\ edge(m, entry)
                        /\ role[n] = "down2" => \E m \in Drawn.nodes : edge(entry, m) /\ edge(m, n)
  BY DEF RolesAreChains
<1> DEFINE entry == callAnchorId(ui)
           edges == Drawn.edges
<1>1. callflowModel(Drawn, entry)[n] = lane(edges, entry, n)
  BY DEF callflowModel
<1>2. \A e \in edges : Source[e] \in Drawn.nodes /\ Target[e] \in Drawn.nodes
  BY DrawnIsClosed DEF CutIsClosed, Closed, Among, Ends
<1>3. CASE n = entry
  BY <1>1, <1>3 DEF lane
<1>4. CASE n # entry
  <2> HIDE DEF entry, edges
  <2>1. /\ lane(edges, entry, n) = "up1" => \E e \in edges : Source[e] = n /\ Target[e] = entry
        /\ lane(edges, entry, n) = "down1" => \E e \in edges : Source[e] = entry /\ Target[e] = n
        /\ lane(edges, entry, n) = "up2" =>
             \E d, e \in edges : Source[d] = n /\ Target[d] = Source[e] /\ Target[e] = entry
        /\ lane(edges, entry, n) = "down2" =>
             \E d, e \in edges : Source[d] = entry /\ Target[d] = Source[e] /\ Target[e] = n
    BY <1>4, LanesAreChains
  <2> QED
    BY <1>1, <1>2, <2>1 DEF entry, edges
<1> QED
  BY <1>3, <1>4

\* The columns of the call flow are what they say: the second ones are two
\* drawn edges away from the entry, whatever the limits have cut.
THEOREM ColumnsAreChains == Spec => []RolesAreChains
BY DrawnRolesAreChains, PTL

-----------------------------------------------------------------------------
(***************************************************************************)
(* The spinner.                                                            *)
(***************************************************************************)

Busy == {"impact", "expand", "path", "diff"}
TurnsOff(r) == r.kind \in Busy \/ (r.kind = "load" /\ r.tag = version)

LEMMA LoadKeepsSpinner ==
  ASSUME NEW k, load(k)
  PROVE  NoOrphanSpinner'
<1>1. CASE k.view = "impact"
  BY <1>1 DEF load, NoOrphanSpinner
<1>2. CASE k.view # "impact"
  <2> DEFINE r == Request("load", version + 1, k, None, EmptyGraph)
  <2>1. r \in pending' /\ version' = version + 1
    BY <1>2 DEF load
  <2>2. r.kind = "load" /\ r.tag = version + 1
    BY DEF Request
  <2> QED
    BY <2>1, <2>2 DEF NoOrphanSpinner
<1> QED
  BY <1>1, <1>2

\* A request that is added leaves the others in flight.
LEMMA SendKeepsSpinner ==
  ASSUME NoOrphanSpinner, NEW kind, NEW key, NEW node, NEW base, Send(kind, key, node, base),
         loading' => loading \/ kind \in Busy
  PROVE  NoOrphanSpinner'
<1> DEFINE r == Request(kind, events', key, node, base)
<1>1. r \in pending' /\ pending \subseteq pending' /\ version' = version
  BY DEF Send
<1>2. r.kind = kind
  BY DEF Request
<1> HIDE DEF r
<1> QED
  BY <1>1, <1>2 DEF NoOrphanSpinner, Busy

LEMMA EventKeepsSpinner ==
  ASSUME NoOrphanSpinner, UserEvent
  PROVE  NoOrphanSpinner'
<1>1. ASSUME UNCHANGED requests PROVE NoOrphanSpinner'
  BY <1>1 DEF requests, NoOrphanSpinner
<1>2. CASE CanvasShown /\ CanvasEvent
  <2>1. ASSUME NEW n, drill3DNode(n) PROVE NoOrphanSpinner'
    <3>1. CASE n \in Communities
      BY <1>1, <2>1, <3>1 DEF drill3DNode, Become
    <3>2. CASE n \notin Communities
      BY <2>1, <3>2, SendKeepsSpinner DEF drill3DNode, SendQuiet
    <3> QED
      BY <3>1, <3>2
  <2>2. ASSUME NEW n, TapNode(n) \/ ClickNode3D(n) \/ TapEdge(n) \/ TapBackground
        PROVE NoOrphanSpinner'
    BY <1>1, <2>2 DEF TapNode, ClickNode3D, TapEdge, TapBackground, Become
  <2> QED
    BY <1>2, <2>1, <2>2 DEF CanvasEvent
<1>3. CASE ControlEvent
  <2>1. ASSUME NEW x, \/ activateView(x) \/ openCommunityUniverse(x) \/ openInsightNode(x)
                      \/ selectListed(x) \/ openSurpriseUniverse(x) \/ setLevel(x)
                      \/ typeSearch(x)
        PROVE NoOrphanSpinner'
    BY <1>1, <2>1 DEF activateView, openCommunityUniverse, openInsightNode, selectListed,
      openSurpriseUniverse, setLevel, typeSearch, Become
  <2>2. CASE toggleOptions \/ clearCommunity \/ closeInspector \/ changeEntry \/ set2D \/ set3D
    BY <1>1, <2>2 DEF toggleOptions, clearCommunity, closeInspector, changeEntry, set2D, set3D,
      Become
  <2>3. CASE refresh
    BY <2>3, LoadKeepsSpinner DEF refresh
  <2>4. ASSUME NEW n, focusSymbol(n) PROVE NoOrphanSpinner'
    BY <2>4, SendKeepsSpinner DEF focusSymbol, SendQuiet
  <2>5. CASE runImpact \/ expand \/ findPath \/ compareVersions
    BY <2>5, SendKeepsSpinner DEF runImpact, expand, findPath, compareVersions, SendBusy, Busy
  <2> QED
    BY <1>3, <2>1, <2>2, <2>3, <2>4, <2>5 DEF ControlEvent
<1> QED
  BY <1>2, <1>3 DEF UserEvent

LEMMA AnswerKeepsSpinner ==
  ASSUME NoOrphanSpinner, NEW r \in pending, Answer(r)
  PROVE  NoOrphanSpinner'
<1>1. ASSUME ~TurnsOff(r), UNCHANGED <<loading, version>>, pending \ {r} \subseteq pending'
      PROVE  NoOrphanSpinner'
  <2> SUFFICES ASSUME loading PROVE \E s \in pending' : s.kind \in Busy \/ (s.kind = "load" /\ s.tag = version)
    BY <1>1 DEF NoOrphanSpinner, Busy
  <2>1. PICK s \in pending : s.kind \in Busy \/ (s.kind = "load" /\ s.tag = version)
    BY DEF NoOrphanSpinner, Busy
  <2> QED
    BY <1>1, <2>1 DEF TurnsOff
<1>2. ASSUME loading' = FALSE PROVE NoOrphanSpinner'
  BY <1>2 DEF NoOrphanSpinner
<1>3. CASE LoadAnswer(r)
  <2>1. CASE r.tag = version
    BY <1>2, <1>3, <2>1 DEF LoadAnswer
  <2>2. CASE r.tag # version
    BY <1>1, <1>3, <2>2 DEF LoadAnswer, Answered, TurnsOff, Busy
  <2> QED
    BY <2>1, <2>2
<1>4. CASE FocusAnswer(r) \/ DrillAnswer(r)
  BY <1>1, <1>4 DEF FocusAnswer, DrillAnswer, Answered, TurnsOff, Busy
<1>5. CASE DrillDetailAnswer(r)
  BY <1>1, <1>5 DEF DrillDetailAnswer, TurnsOff, Busy
<1>6. CASE ImpactAnswer(r) \/ ExpandAnswer(r) \/ PathAnswer(r) \/ DiffAnswer(r)
  BY <1>2, <1>6 DEF ImpactAnswer, ExpandAnswer, PathAnswer, DiffAnswer
<1> QED
  BY <1>3, <1>4, <1>5, <1>6 DEF Answer

\* The spinner is never left on: while it shows, a request is in flight whose
\* answer turns it off, through any number of overtaken loads.
THEOREM SpinnerStops == Spec => []NoOrphanSpinner
<1>1. Init => NoOrphanSpinner
  <2> SUFFICES ASSUME Init PROVE NoOrphanSpinner
    OBVIOUS
  <2> DEFINE r == Request("load", 1, Key(ui), None, EmptyGraph)
  <2>1. r \in pending /\ version = 1
    BY DEF Init
  <2>2. r.kind = "load" /\ r.tag = 1
    BY DEF Request
  <2> QED
    BY <2>1, <2>2 DEF NoOrphanSpinner
<1>2. NoOrphanSpinner /\ [Next]_vars => NoOrphanSpinner'
  <2> SUFFICES ASSUME NoOrphanSpinner, [Next]_vars PROVE NoOrphanSpinner'
    OBVIOUS
  <2>1. CASE RunEffects
    <3>1. CASE effects.key # Key(ui)
      BY <2>1, <3>1, LoadKeepsSpinner DEF RunEffects
    <3>2. CASE effects.key = Key(ui)
      BY <2>1, <3>2 DEF RunEffects, requests, NoOrphanSpinner
    <3> QED
      BY <3>1, <3>2
  <2>2. CASE UNCHANGED vars
    BY <2>2 DEF vars, requests, NoOrphanSpinner
  <2> QED
    BY <2>1, <2>2, EventKeepsSpinner, AnswerKeepsSpinner DEF Next
<1> QED
  BY <1>1, <1>2, PTL DEF Spec

-----------------------------------------------------------------------------
(***************************************************************************)
(* The 3D view.                                                            *)
(***************************************************************************)

\* The effects that have seen the 3D view without a reason for it have left it,
\* and no answer turns it on again.
LeftThreeD == effects.key.mode = "3d" /\ ~effects.eligible => ui.mode = "2d"

\* All that is needed of the type of ui.
HasMode == "mode" \in DOMAIN ui

LEMMA EventKeepsFields ==
  ASSUME UserEvent
  PROVE  DOMAIN ui' = DOMAIN ui /\ effects' = effects
<1> USE DEF Event, Become
<1>1. CASE CanvasShown /\ CanvasEvent
  BY <1>1 DEF CanvasEvent, TapNode, TapEdge, TapBackground, ClickNode3D, drill3DNode,
    selectNode, selectEdge, deselect
<1>2. CASE ControlEvent
  <2>1. ASSUME NEW x, \/ activateView(x) \/ openCommunityUniverse(x) \/ openInsightNode(x)
                      \/ selectListed(x) \/ openSurpriseUniverse(x)
        PROVE DOMAIN ui' = DOMAIN ui /\ effects' = effects
    BY <2>1 DEF activateView, openCommunityUniverse, openInsightNode, selectListed,
      openSurpriseUniverse, selectNode, selectEdge
  <2>2. ASSUME NEW x, setLevel(x) \/ typeSearch(x) \/ focusSymbol(x)
        PROVE DOMAIN ui' = DOMAIN ui /\ effects' = effects
    BY <2>2 DEF setLevel, typeSearch, focusSymbol
  <2>3. CASE toggleOptions \/ clearCommunity \/ closeInspector \/ changeEntry \/ set2D \/ set3D
    BY <2>3 DEF toggleOptions, clearCommunity, closeInspector, changeEntry, set2D, set3D
  <2>4. CASE refresh \/ runImpact \/ expand \/ findPath \/ compareVersions
    BY <2>4 DEF refresh, runImpact, expand, findPath, compareVersions
  <2> QED
    BY <1>2, <2>1, <2>2, <2>3, <2>4 DEF ControlEvent
<1> QED
  BY <1>1, <1>2 DEF UserEvent

LEMMA AnswerKeepsMode ==
  ASSUME HasMode, NEW r, Answer(r)
  PROVE  DOMAIN ui' = DOMAIN ui /\ ui'.mode = ui.mode /\ effects' = effects
<1> USE DEF Answered, HasMode
<1>1. CASE LoadAnswer(r) \/ ExpandAnswer(r) \/ PathAnswer(r) \/ DiffAnswer(r) \/ DrillDetailAnswer(r)
  BY <1>1 DEF LoadAnswer, ExpandAnswer, PathAnswer, DiffAnswer, DrillDetailAnswer
<1>2. CASE FocusAnswer(r)
  BY <1>2 DEF FocusAnswer, selectNode
<1>3. CASE DrillAnswer(r) \/ ImpactAnswer(r)
  BY <1>3 DEF DrillAnswer, ImpactAnswer
<1> QED
  BY <1>1, <1>2, <1>3 DEF Answer

\* The last effect of a commit sees what the commit showed, not what the effect
\* of the view has set since, and leaves the 3D view in either case.
LEMMA EffectsLeaveThreeD ==
  ASSUME HasMode, LeftThreeD, RunEffects
  PROVE  DOMAIN ui' = DOMAIN ui /\ LeftThreeD'
<1> DEFINE u == IF ui.view # effects.key.view THEN viewEffect(ui) ELSE ui
<1>1. DOMAIN u = DOMAIN ui
  BY DEF viewEffect
<1>2. ui' = modeEffect(u, ui)
  BY DEF RunEffects
<1>3. effects' = Dependencies(ui)
  BY DEF RunEffects
<1> HIDE DEF u
<1>4. DOMAIN ui' = DOMAIN ui
  BY <1>1, <1>2 DEF modeEffect
<1>5. ASSUME ui.mode = "3d", ~threeDEligible(ui) PROVE ui'.mode = "2d"
  <2>1. effects.key.mode # "3d" \/ threeDEligible(ui) # effects.eligible
    BY <1>5 DEF LeftThreeD
  <2>2. ui' = [u EXCEPT !.mode = "2d"]
    BY <1>2, <1>5, <2>1 DEF modeEffect
  <2> QED
    BY <1>1, <2>2 DEF HasMode
<1>6. effects'.key.mode = ui.mode /\ effects'.eligible = threeDEligible(ui)
  BY <1>3 DEF Dependencies, Key
<1> QED
  BY <1>4, <1>5, <1>6 DEF LeftThreeD

\* When the effects have run, the 3D view is on only where its button is
\* offered, although the view, the selection and the analysis that allow it
\* are changed by different handlers and late answers.
THEOREM ThreeDNeedsReason == Spec => []ThreeDIsEligible
<1> DEFINE Inv == HasMode /\ LeftThreeD
<1>1. Init => Inv
  BY DEF Init, HasMode, LeftThreeD, Dependencies, Key
<1>2. Inv /\ [Next]_vars => Inv'
  <2> SUFFICES ASSUME HasMode, LeftThreeD, [Next]_vars PROVE HasMode' /\ LeftThreeD'
    OBVIOUS
  <2>1. CASE RunEffects
    BY <2>1, EffectsLeaveThreeD DEF HasMode
  <2>2. CASE UserEvent
    <3>1. ~(effects.key.mode = "3d" /\ ~effects.eligible)
      BY <2>2 DEF UserEvent, Settled, Dependencies, Key, LeftThreeD
    <3> QED
      BY <2>2, <3>1, EventKeepsFields DEF HasMode, LeftThreeD
  <2>3. ASSUME NEW r \in pending, Answer(r) PROVE HasMode' /\ LeftThreeD'
    BY <2>3, AnswerKeepsMode DEF HasMode, LeftThreeD
  <2>4. CASE UNCHANGED vars
    BY <2>4 DEF vars, HasMode, LeftThreeD
  <2> QED
    BY <2>1, <2>2, <2>3, <2>4 DEF Next
<1>3. Inv => ThreeDIsEligible
  BY DEF LeftThreeD, ThreeDIsEligible, Settled, Dependencies, Key
<1> QED
  BY <1>1, <1>2, <1>3, PTL DEF Spec

-----------------------------------------------------------------------------
(***************************************************************************)
(* The loads.                                                              *)
(***************************************************************************)

Newest(r) == r.kind = "load" /\ r.tag = version

\* The newest load was sent for the key that the effects saw last, and a graph
\* that load has shown is the one for that key unless a newer load is on its
\* way.  The impact view loads nothing.
LoadInv ==
  /\ version \in Nat
  /\ \A r \in pending :
       /\ "kind" \in DOMAIN r
       /\ r.kind = "load" => r.tag \in Nat /\ r.tag <= version
       /\ Newest(r) => r.key = effects.key
  /\ shown.by = "load" /\ ~missed /\ effects.key.view # "impact"
       => shown.key = effects.key \/ \E r \in pending : Newest(r)

LEMMA LoadKeepsLoads ==
  ASSUME LoadInv, NEW k, load(k), effects'.key = k
  PROVE  LoadInv'
<1> DEFINE new == Request("load", version + 1, k, None, EmptyGraph)
<1>1. version' = version + 1 /\ version' \in Nat
  BY DEF load, LoadInv
<1>2. /\ "kind" \in DOMAIN new /\ new.kind = "load" /\ new.tag = version + 1
      /\ new.key = k
  BY DEF Request
<1>3. pending' \subseteq pending \cup {new}
  BY DEF load
<1>4. k.view # "impact" => new \in pending'
  BY DEF load
<1> HIDE DEF new
<1>5. ASSUME NEW r \in pending'
      PROVE  /\ "kind" \in DOMAIN r
             /\ r.kind = "load" => r.tag \in Nat /\ r.tag <= version'
             /\ Newest(r)' => r.key = effects'.key
  <2>1. CASE r = new
    BY <1>1, <1>2, <2>1 DEF Newest
  <2>2. CASE r \in pending
    BY <1>1, <2>2 DEF LoadInv, Newest
  <2> QED
    BY <1>3, <2>1, <2>2
<1>6. k.view # "impact" => \E r \in pending' : Newest(r)'
  BY <1>1, <1>2, <1>4 DEF Newest
<1> QED
  BY <1>1, <1>5, <1>6 DEF LoadInv

\* A step that neither loads nor shows a loaded graph.
LEMMA OtherKeepsLoads ==
  ASSUME LoadInv, UNCHANGED <<version, effects>>, missed' = missed,
         shown' = shown \/ shown'.by # "load",
         \A r \in pending : r.kind = "load" => r \in pending',
         \A r \in pending' : r \in pending \/ ("kind" \in DOMAIN r /\ r.kind # "load")
  PROVE  LoadInv'
BY DEF LoadInv, Newest

LEMMA SendKeepsLoads ==
  ASSUME LoadInv, effects' = effects, NEW kind, kind # "load", NEW key, NEW node, NEW base,
         Send(kind, key, node, base)
  PROVE  LoadInv'
<1>1. /\ "kind" \in DOMAIN Request(kind, events', key, node, base)
      /\ Request(kind, events', key, node, base).kind # "load"
  BY DEF Request
<1> QED
  BY <1>1, OtherKeepsLoads DEF Send

LEMMA EventKeepsLoads ==
  ASSUME LoadInv, UserEvent
  PROVE  LoadInv'
<1>1. ASSUME UNCHANGED <<requests, effects>> PROVE LoadInv'
  BY <1>1, OtherKeepsLoads DEF requests
<1> USE DEF Event
<1>2. CASE CanvasShown /\ CanvasEvent
  <2>1. ASSUME NEW n, drill3DNode(n) PROVE LoadInv'
    <3>1. CASE n \in Communities
      BY <1>1, <2>1, <3>1 DEF drill3DNode, Become
    <3>2. CASE n \notin Communities
      BY <2>1, <3>2, SendKeepsLoads DEF drill3DNode, SendQuiet
    <3> QED
      BY <3>1, <3>2
  <2>2. ASSUME NEW n, TapNode(n) \/ ClickNode3D(n) \/ TapEdge(n) \/ TapBackground
        PROVE LoadInv'
    BY <1>1, <2>2 DEF TapNode, ClickNode3D, TapEdge, TapBackground, Become
  <2> QED
    BY <1>2, <2>1, <2>2 DEF CanvasEvent
<1>3. CASE ControlEvent
  <2>1. ASSUME NEW x, \/ activateView(x) \/ openCommunityUniverse(x) \/ openInsightNode(x)
                      \/ selectListed(x) \/ openSurpriseUniverse(x) \/ setLevel(x)
                      \/ typeSearch(x)
        PROVE LoadInv'
    BY <1>1, <2>1 DEF activateView, openCommunityUniverse, openInsightNode, selectListed,
      openSurpriseUniverse, setLevel, typeSearch, Become
  <2>2. CASE toggleOptions \/ clearCommunity \/ closeInspector \/ changeEntry \/ set2D \/ set3D
    BY <1>1, <2>2 DEF toggleOptions, clearCommunity, closeInspector, changeEntry, set2D, set3D,
      Become
  <2>3. CASE refresh
    <3>1. effects'.key = Key(ui)
      BY <2>3 DEF refresh, UserEvent, Settled, Dependencies
    <3> QED
      BY <2>3, <3>1, LoadKeepsLoads DEF refresh
  <2>4. ASSUME NEW n, focusSymbol(n) PROVE LoadInv'
    BY <2>4, SendKeepsLoads DEF focusSymbol, SendQuiet
  <2>5. CASE runImpact \/ expand \/ findPath \/ compareVersions
    BY <2>5, SendKeepsLoads DEF runImpact, expand, findPath, compareVersions, SendBusy
  <2> QED
    BY <1>3, <2>1, <2>2, <2>3, <2>4, <2>5 DEF ControlEvent
<1> QED
  BY <1>2, <1>3 DEF UserEvent

LEMMA AnswerKeepsLoads ==
  ASSUME LoadInv, NEW r \in pending, Answer(r)
  PROVE  LoadInv'
<1>1. CASE LoadAnswer(r)
  <2>1. CASE r.tag # version
    <3>1. pending' = pending \ {r} /\ UNCHANGED <<version, effects, shown, missed>>
      BY <1>1, <2>1 DEF LoadAnswer, Answered
    <3> QED
      BY <2>1, <3>1 DEF LoadInv, Newest
  <2>2. CASE r.tag = version
    <3>1. r.key = effects.key
      BY <1>1, <2>2 DEF LoadAnswer, LoadInv, Newest
    <3>2. pending' \subseteq pending /\ UNCHANGED <<version, effects>>
      BY <1>1 DEF LoadAnswer, Answered
    <3>3. missed' \/ shown'.key = effects'.key
      BY <1>1, <2>2, <3>1, <3>2 DEF LoadAnswer, Show
    <3> QED
      BY <3>2, <3>3 DEF LoadInv, Newest
  <2> QED
    BY <2>1, <2>2
<1>2. CASE DrillDetailAnswer(r)
  <2> DEFINE next == [r EXCEPT !.kind = "drill"]
  <2>1. "kind" \in DOMAIN r
    BY DEF LoadInv
  <2>2. "kind" \in DOMAIN next /\ next.kind = "drill"
    BY <2>1
  <2>3. /\ r.kind # "load" /\ pending' = (pending \ {r}) \cup {next}
        /\ UNCHANGED <<version, effects, shown, missed>>
    BY <1>2 DEF DrillDetailAnswer
  <2> HIDE DEF next
  <2> QED
    BY <2>2, <2>3, OtherKeepsLoads
<1>3. CASE FocusAnswer(r) \/ DrillAnswer(r) \/ ImpactAnswer(r) \/ ExpandAnswer(r)
           \/ PathAnswer(r) \/ DiffAnswer(r)
  <2>1. /\ r.kind # "load" /\ pending' = pending \ {r}
        /\ UNCHANGED <<version, effects, missed>>
    BY <1>3 DEF FocusAnswer, DrillAnswer, ImpactAnswer, ExpandAnswer, PathAnswer, DiffAnswer,
      Answered
  <2>2. shown' = shown \/ shown'.by # "load"
    BY <1>3 DEF FocusAnswer, DrillAnswer, ImpactAnswer, ExpandAnswer, PathAnswer, DiffAnswer, Show
  <2> QED
    BY <2>1, <2>2, OtherKeepsLoads
<1> QED
  BY <1>1, <1>2, <1>3 DEF Answer

\* No overtaken answer of load is ever on the screen: a loaded graph is the one
\* for the current settings, unless the newest load is still on its way.
THEOREM NoStaleLoad == Spec => []LoadedIsCurrent
<1>1. Init => LoadInv
  <2> SUFFICES ASSUME Init PROVE LoadInv
    OBVIOUS
  <2> DEFINE r == Request("load", 1, Key(ui), None, EmptyGraph)
  <2>1. /\ pending = {r} /\ version = 1 /\ shown.by = "nobody"
        /\ effects.key = Key(ui)
    BY DEF Init, Dependencies
  <2>2. "kind" \in DOMAIN r /\ r.tag = 1 /\ r.key = Key(ui)
    BY DEF Request
  <2> HIDE DEF r
  <2> QED
    BY <2>1, <2>2 DEF LoadInv, Newest
<1>2. LoadInv /\ [Next]_vars => LoadInv'
  <2> SUFFICES ASSUME LoadInv, [Next]_vars PROVE LoadInv'
    OBVIOUS
  <2>1. CASE RunEffects
    <3>1. effects'.key = Key(ui)
      BY <2>1 DEF RunEffects, Dependencies
    <3>2. CASE effects.key # Key(ui)
      BY <2>1, <3>1, <3>2, LoadKeepsLoads DEF RunEffects
    <3>3. CASE effects.key = Key(ui)
      BY <2>1, <3>1, <3>3 DEF RunEffects, requests, LoadInv, Newest
    <3> QED
      BY <3>2, <3>3
  <2>2. CASE UNCHANGED vars
    BY <2>2, OtherKeepsLoads DEF vars, requests
  <2> QED
    BY <2>1, <2>2, EventKeepsLoads, AnswerKeepsLoads DEF Next
<1>3. LoadInv => LoadedIsCurrent
  BY DEF LoadInv, LoadedIsCurrent, Newest, Settled, Dependencies, Key
<1> QED
  BY <1>1, <1>2, <1>3, PTL DEF Spec

-----------------------------------------------------------------------------
(***************************************************************************)
(* The types.                                                              *)
(***************************************************************************)

\* A request in flight: a load has the key it was started for, and the requests
\* whose answer is drawn around a node have that node.
Around == {"focus", "drilldetail", "drill", "impact", "expand"}
Requests ==
  [kind : Around \cup {"load", "path", "diff"}, tag : Nat, key : KeyType \cup {None},
   node : Nodes \cup {None}, base : Graph]
Sound(r) ==
  /\ r \in Requests
  /\ r.kind = "load" => r.key \in KeyType
  /\ r.kind \in Around => r.node \in Nodes

\* The part of the state that answers write.
Served ==
  /\ shown.graph \in Graph /\ shown.by \in Writers /\ shown.key \in KeyType \cup {None}
  /\ loading \in BOOLEAN /\ missed \in BOOLEAN
  /\ version \in Nat
  /\ \A r \in pending : Sound(r)

LEMMA AnchorIsCallable ==
  ASSUME NEW u
  PROVE  callAnchorId(u) \in Callable \cup {None}
BY DEF callAnchorId, callableSelected

LEMMA DependenciesAreTyped ==
  ASSUME NEW u \in UiType
  PROVE  Key(u) \in KeyType /\ Dependencies(u) \in [key : KeyType, eligible : BOOLEAN]
<1>1. Key(u) \in KeyType
  BY AnchorIsCallable DEF Key, KeyType, UiType
<1>2. threeDEligible(u) \in BOOLEAN
  BY DEF threeDEligible
<1> QED
  BY <1>1, <1>2 DEF Dependencies

LEMMA SelectionsAreTyped ==
  ASSUME NEW u \in UiType
  PROVE  /\ \A n \in Nodes : selectNode(u, n) \in UiType
         /\ \A e \in Edges \cup {None} : selectEdge(u, e) \in UiType
         /\ deselect(u) \in UiType
<1>1. ASSUME NEW n \in Nodes PROVE selectNode(u, n) \in UiType
  BY DEF selectNode, UiType
<1>2. ASSUME NEW e \in Edges \cup {None} PROVE selectEdge(u, e) \in UiType
  BY DEF selectEdge, UiType
<1>3. deselect(u) \in UiType
  BY DEF deselect, UiType
<1> QED
  BY <1>1, <1>2, <1>3

LEMMA EffectsAreTyped ==
  ASSUME ui \in UiType
  PROVE  modeEffect(IF ui.view # effects.key.view THEN viewEffect(ui) ELSE ui, ui) \in UiType
<1>1. viewEffect(ui) \in UiType
  <2> DEFINE mode == IF \/ ui.view = "dataflow"
                        \/ ui.view = "callflow" /\ ui.selected = None
                        \/ ui.view = "impact" /\ ~ui.impact
                     THEN "2d" ELSE ui.mode
             impact == ui.impact /\ ui.view = "impact"
  <2>1. presetLevel(ui.view) \in Levels /\ mode \in {"2d", "3d"} /\ impact \in BOOLEAN
    BY DEF presetLevel, Levels, UiType
  <2>2. viewEffect(ui) = [ui EXCEPT !.level = presetLevel(ui.view), !.impact = impact,
                                    !.mode = mode, !.edge = None]
    BY DEF viewEffect
  <2> HIDE DEF mode, impact
  <2> QED
    BY <2>1, <2>2 DEF UiType
<1>2. ASSUME NEW u \in UiType PROVE modeEffect(u, ui) \in UiType
  <2>1. [u EXCEPT !.mode = "2d"] \in UiType
    BY DEF UiType
  <2> QED
    BY <2>1 DEF modeEffect
<1> QED
  BY <1>1, <1>2

\* Every graph that can be drawn is made of the repository's nodes and edges.
LEMMA DrawnIsGraph ==
  ASSUME shown.graph \in Graph
  PROVE  Drawn \in Graph
<1>1. renderedGraph \in Graph
  <2> DEFINE focused == IF ui.hits = None THEN shown.graph ELSE focusedGraph(shown.graph, ui.hits)
  <2>1. focused \in Graph
    BY CutsAreGraphs
  <2> HIDE DEF focused
  <2>2. callflowProjection(focused, callAnchorId(ui)) \in Graph
    BY <2>1, CutsAreGraphs
  <2>3. renderedGraph = IF callAnchorId(ui) # None THEN callflowProjection(focused, callAnchorId(ui))
                        ELSE focused
    BY DEF renderedGraph, focused
  <2> QED
    BY <2>1, <2>2, <2>3
<1>2. prepareGraph(renderedGraph) \in Graph
  BY <1>1, CutsAreGraphs
<1> QED
  BY <1>1, <1>2 DEF Drawn

LEMMA EmptyIsGraph == EmptyGraph \in Graph
BY DEF EmptyGraph, Graph

\* What a load can bring for its key.
LEMMA LoadedAreGraphs ==
  ASSUME NEW k \in KeyType
  PROVE  LoadedGraphs(k) \subseteq Graph
<1>1. CASE k.view = "callflow" /\ k.anchor # None
  <2>1. k.anchor \in Nodes
    BY <1>1, WorkbenchAssumption DEF WorkbenchAssumption, KeyType
  <2>2. \A d \in Depths : neighbors(k.anchor, d, "both") \in Graph
    BY <2>1, NeighborsAreGraph DEF Depths
  <2> QED
    BY <1>1, <2>2 DEF LoadedGraphs
<1>2. CASE ~(k.view = "callflow" /\ k.anchor # None)
  BY <1>2, EmptyIsGraph, WorkbenchAssumption DEF LoadedGraphs, WorkbenchAssumption
<1> QED
  BY <1>1, <1>2

LEMMA LoadIsServed ==
  ASSUME Served, NEW k \in KeyType, load(k)
  PROVE  Served'
<1>1. CASE k.view = "impact"
  <2>1. loading' = FALSE /\ pending' = pending /\ missed' = FALSE /\ UNCHANGED shown
    BY <1>1 DEF load
  <2>2. version' \in Nat
    BY DEF load, Served
  <2> QED
    BY <2>1, <2>2 DEF Served
<1>2. CASE k.view # "impact"
  <2> DEFINE r == Request("load", version + 1, k, None, EmptyGraph)
  <2>1. version' = version + 1 /\ version' \in Nat
    BY DEF load, Served
  <2>2. Sound(r)
    <3>1. /\ r = [kind |-> "load", tag |-> version', key |-> k, node |-> None, base |-> EmptyGraph]
      BY <2>1 DEF Request
    <3> HIDE DEF r
    <3> QED
      BY <2>1, <3>1, EmptyIsGraph DEF Sound, Requests, Around
  <2>3. pending' = pending \cup {r} /\ loading' = TRUE /\ missed' = FALSE /\ UNCHANGED shown
    BY <1>2 DEF load
  <2> HIDE DEF r
  <2>4. \A q \in pending' : Sound(q)
    BY <2>2, <2>3 DEF Served
  <2> QED
    BY <2>1, <2>3, <2>4 DEF Served
<1> QED
  BY <1>1, <1>2

LEMMA SendIsServed ==
  ASSUME Served, NEW kind, NEW node \in Nodes \cup {None}, NEW base \in Graph,
         kind \in Around \cup {"path", "diff"}, kind \in Around => node \in Nodes,
         Send(kind, None, node, base), events' \in Nat, loading' \in BOOLEAN
  PROVE  Served'
<1> DEFINE r == Request(kind, events', None, node, base)
<1>1. Sound(r)
  <2>1. r = [kind |-> kind, tag |-> events', key |-> None, node |-> node, base |-> base]
    BY DEF Request
  <2> HIDE DEF r
  <2> QED
    BY <2>1 DEF Sound, Requests, Around
<1>2. pending' = pending \cup {r} /\ UNCHANGED <<shown, version, missed>>
  BY DEF Send
<1> HIDE DEF r
<1>3. \A q \in pending' : Sound(q)
  BY <1>1, <1>2 DEF Served
<1> QED
  BY <1>2, <1>3 DEF Served

LEMMA ControlIsTyped ==
  ASSUME ui \in UiType, Served, events \in Nat, ControlEvent
  PROVE  ui' \in UiType /\ Served' /\ tapped' = None /\ events' = events + 1
<1> USE DEF Event, Become
<1>1. ASSUME UNCHANGED requests PROVE Served'
  BY <1>1 DEF requests, Served
<1>2. Listed \subseteq Nodes /\ Hubs \subseteq Nodes /\ Surprises \subseteq Edges /\ Entries \subseteq Nodes
  BY WorkbenchAssumption DEF WorkbenchAssumption
<1>3. ASSUME NEW v \in Views, activateView(v) PROVE ui' \in UiType
  <2> DEFINE p == CASE v = "callflow" -> "ego" [] v = "impact" -> "impact" [] OTHER -> "universe"
  <2>1. p \in Presets
    BY DEF Presets
  <2>2. ui' = [ui EXCEPT !.mode = "2d", !.community = None, !.view = v, !.preset = p]
    BY <1>3 DEF activateView
  <2> HIDE DEF p
  <2> QED
    BY <2>1, <2>2 DEF UiType
<1>4. ASSUME NEW c \in Communities, openCommunityUniverse(c) PROVE ui' \in UiType
  BY <1>4 DEF openCommunityUniverse, UiType, Views, Levels, Presets
<1>5. ASSUME NEW n \in Hubs, openInsightNode(n) PROVE ui' \in UiType
  <2> DEFINE u == [ui EXCEPT !.view = "hierarchy", !.community = None, !.preset = "universe",
                             !.mode = "3d"]
  <2>1. u \in UiType
    BY DEF UiType, Views, Presets
  <2>2. ui' = selectNode(u, n)
    BY <1>5 DEF openInsightNode
  <2> HIDE DEF u
  <2> QED
    BY <1>2, <2>1, <2>2, SelectionsAreTyped
<1>6. ASSUME NEW n \in Listed, selectListed(n) PROVE ui' \in UiType
  BY <1>2, <1>6, SelectionsAreTyped DEF selectListed
<1>7. ASSUME NEW e \in Surprises, openSurpriseUniverse(e) PROVE ui' \in UiType
  <2> DEFINE u == selectEdge(ui, e)
  <2>1. u \in UiType
    BY <1>2, SelectionsAreTyped
  <2>2. ui' = [u EXCEPT !.view = "hierarchy", !.community = None, !.preset = "surprise",
                        !.mode = "3d"]
    BY <1>7 DEF openSurpriseUniverse
  <2> HIDE DEF u
  <2> QED
    BY <2>1, <2>2 DEF UiType, Views, Presets
<1>8. ASSUME NEW l \in Levels, setLevel(l) PROVE ui' \in UiType
  BY <1>8 DEF setLevel, UiType
<1>9. ASSUME NEW h \in Searches \cup {None}, typeSearch(h) PROVE ui' \in UiType
  BY <1>9 DEF typeSearch, UiType
<1>10. ASSUME toggleOptions \/ clearCommunity \/ closeInspector PROVE ui' \in UiType
  BY <1>10 DEF toggleOptions, clearCommunity, closeInspector, UiType
<1>11. ASSUME changeEntry \/ set2D PROVE ui' \in UiType
  BY <1>11 DEF changeEntry, set2D, UiType
<1>12. ASSUME set3D PROVE ui' \in UiType
  <2> DEFINE p == CASE ui.view = "callflow" -> "ego" [] ui.view = "impact" -> "impact"
                    [] OTHER -> ui.preset
  <2>1. p \in Presets
    BY DEF Presets, UiType
  <2>2. ui' = [ui EXCEPT !.mode = "3d", !.preset = p]
    BY <1>12 DEF set3D
  <2> HIDE DEF p
  <2> QED
    BY <2>1, <2>2 DEF UiType
<1>13. ASSUME NEW x, \/ activateView(x) \/ openCommunityUniverse(x) \/ openInsightNode(x)
                     \/ selectListed(x) \/ openSurpriseUniverse(x) \/ setLevel(x) \/ typeSearch(x)
       PROVE Served' /\ tapped' = None /\ events' = events + 1
  BY <1>1, <1>13 DEF activateView, openCommunityUniverse, openInsightNode, selectListed,
    openSurpriseUniverse, setLevel, typeSearch
<1>14. CASE toggleOptions \/ clearCommunity \/ closeInspector \/ changeEntry \/ set2D \/ set3D
  BY <1>1, <1>10, <1>11, <1>12, <1>14 DEF toggleOptions, clearCommunity, closeInspector,
    changeEntry, set2D, set3D
<1>15. CASE refresh
  BY <1>15, DependenciesAreTyped, LoadIsServed DEF refresh
<1>16. ASSUME NEW n \in Entries, focusSymbol(n)
       PROVE ui' \in UiType /\ Served' /\ tapped' = None /\ events' = events + 1
  <2>1. ui' \in UiType
    BY <1>2, <1>16 DEF focusSymbol, UiType, Views, Levels, Presets
  <2>2. events' = events + 1 /\ tapped' = None /\ Send("focus", None, n, EmptyGraph)
        /\ loading' = loading
    BY <1>16 DEF focusSymbol, SendQuiet
  <2>3. loading' \in BOOLEAN
    BY <2>2 DEF Served
  <2> QED
    BY <1>2, <2>1, <2>2, <2>3, EmptyIsGraph, SendIsServed DEF Around
<1>17. CASE runImpact \/ expand \/ findPath \/ compareVersions
  <2>1. UNCHANGED ui /\ tapped' = None /\ events' = events + 1 /\ loading' = TRUE
    BY <1>17 DEF runImpact, expand, findPath, compareVersions, SendBusy
  <2>2. ui.selected # None => ui.selected \in Nodes
    BY DEF UiType
  <2>3. shown.graph \in Graph /\ events' \in Nat
    BY <2>1 DEF Served
  <2>4. CASE runImpact
    BY <2>1, <2>2, <2>3, <2>4, EmptyIsGraph, SendIsServed DEF runImpact, SendBusy, Around
  <2>5. CASE expand
    BY <2>1, <2>2, <2>3, <2>5, SendIsServed DEF expand, SendBusy, Around
  <2>6. CASE findPath
    BY <2>1, <2>3, <2>6, SendIsServed DEF findPath, SendBusy, Around
  <2>7. CASE compareVersions
    BY <2>1, <2>3, <2>7, EmptyIsGraph, SendIsServed DEF compareVersions, SendBusy, Around
  <2> QED
    BY <1>17, <2>1, <2>4, <2>5, <2>6, <2>7
<1> QED
  BY <1>3, <1>4, <1>5, <1>6, <1>7, <1>8, <1>9, <1>13, <1>14, <1>15, <1>16, <1>17 DEF ControlEvent

LEMMA CanvasIsTyped ==
  ASSUME ui \in UiType, Served, events \in Nat, CanvasEvent
  PROVE  /\ ui' \in UiType /\ Served'
         /\ tapped' \in Nodes \cup Edges \cup {None} /\ events' = events + 1
<1> USE DEF Event, Become
<1>1. ASSUME UNCHANGED requests PROVE Served'
  BY <1>1 DEF requests, Served
<1>2. Drawn.nodes \subseteq Nodes /\ Drawn.edges \subseteq Edges
  BY DrawnIsGraph DEF Served, Graph
<1>3. ASSUME NEW n \in Nodes, TapNode(n) \/ ClickNode3D(n)
      PROVE /\ ui' \in UiType /\ Served'
            /\ tapped' \in Nodes \cup Edges \cup {None} /\ events' = events + 1
  <2>1. selectNode(ui, n) \in UiType
    BY SelectionsAreTyped
  <2>2. selectEdge(selectNode(ui, n), None) \in UiType
    BY <2>1, SelectionsAreTyped
  <2> QED
    BY <1>1, <1>3, <2>1, <2>2 DEF TapNode, ClickNode3D
<1>4. ASSUME NEW n \in Nodes, drill3DNode(n)
      PROVE /\ ui' \in UiType /\ Served'
            /\ tapped' \in Nodes \cup Edges \cup {None} /\ events' = events + 1
  <2>1. tapped' = None /\ events' = events + 1 /\ events' \in Nat
    BY <1>4 DEF drill3DNode
  <2>2. CASE n \in Communities
    <3>1. ui' = [ui EXCEPT !.community = n, !.preset = "community"] /\ UNCHANGED requests
      BY <1>4, <2>2 DEF drill3DNode
    <3>2. ui' \in UiType
      BY <2>2, <3>1 DEF UiType, Presets
    <3> QED
      BY <1>1, <2>1, <3>1, <3>2
  <2>3. CASE n \notin Communities
    <3>1. /\ ui' = selectNode(ui, n) /\ loading' = loading
          /\ Send("drilldetail", None, n, EmptyGraph)
      BY <1>4, <2>3 DEF drill3DNode, SendQuiet
    <3>2. loading' \in BOOLEAN
      BY <3>1 DEF Served
    <3> QED
      BY <2>1, <3>1, <3>2, SelectionsAreTyped, EmptyIsGraph, SendIsServed DEF Around
  <2> QED
    BY <2>2, <2>3
<1>5. ASSUME NEW e \in Edges, TapEdge(e)
      PROVE /\ ui' \in UiType /\ Served'
            /\ tapped' \in Nodes \cup Edges \cup {None} /\ events' = events + 1
  <2>1. selectEdge(ui, e) \in UiType
    BY SelectionsAreTyped
  <2>2. deselect(selectEdge(ui, e)) \in UiType
    BY <2>1, SelectionsAreTyped
  <2> QED
    BY <1>1, <1>5, <2>2 DEF TapEdge
<1>6. ASSUME TapBackground
      PROVE /\ ui' \in UiType /\ Served'
            /\ tapped' \in Nodes \cup Edges \cup {None} /\ events' = events + 1
  <2>1. deselect(ui) \in UiType
    BY SelectionsAreTyped
  <2>2. selectEdge(deselect(ui), None) \in UiType
    BY <2>1, SelectionsAreTyped
  <2> QED
    BY <1>1, <1>6, <2>2 DEF TapBackground
<1> QED
  BY <1>2, <1>3, <1>4, <1>5, <1>6 DEF CanvasEvent

LEMMA AnswerIsTyped ==
  ASSUME ui \in UiType, Served, NEW r \in pending, Answer(r)
  PROVE  ui' \in UiType /\ Served' /\ UNCHANGED <<effects, tapped, events>>
<1>1. Sound(r)
  BY DEF Served
<1>2. ASSUME NEW g \in Graph, NEW by \in Writers, NEW key \in KeyType \cup {None}, Show(g, by, key)
      PROVE shown'.graph \in Graph /\ shown'.by \in Writers /\ shown'.key \in KeyType \cup {None}
  BY <1>2 DEF Show
<1>3. ASSUME pending' \subseteq pending, UNCHANGED version,
             loading' \in BOOLEAN, missed' \in BOOLEAN,
             shown'.graph \in Graph /\ shown'.by \in Writers /\ shown'.key \in KeyType \cup {None}
      PROVE Served'
  BY <1>3 DEF Served
<1>4. pending \ {r} \subseteq pending
  OBVIOUS
<1>5. /\ shown.graph \in Graph /\ shown.by \in Writers /\ shown.key \in KeyType \cup {None}
      /\ loading \in BOOLEAN /\ missed \in BOOLEAN
  BY DEF Served
<1>6. TRUE \in BOOLEAN /\ FALSE \in BOOLEAN
  OBVIOUS
<1>7. {"load", "focus", "drill", "impact", "expand", "path"} \subseteq Writers
  BY DEF Writers
<1>8. ASSUME r.node \in Nodes
      PROVE  \A d \in Depths, w \in Directions : neighbors(r.node, d, w) \in Graph
  BY <1>8, NeighborsAreGraph DEF Depths
<1>9. 1 \in Depths /\ "both" \in Directions
  BY DEF Depths, Directions
<1> USE DEF Answered
<1> HIDE DEF Writers, Depths, Directions
<1>10. CASE LoadAnswer(r)
  <2>1. r.kind = "load" /\ r.key \in KeyType
    BY <1>1, <1>10 DEF LoadAnswer, Sound
  <2>2. LoadedGraphs(r.key) \subseteq Graph
    BY <2>1, LoadedAreGraphs
  <2>3. CASE r.tag # version
    BY <1>3, <1>4, <1>5, <1>10, <2>3 DEF LoadAnswer
  <2>4. CASE r.tag = version
    <3>1. CASE \E g \in LoadedGraphs(r.key) : Show(g, "load", r.key) /\ UNCHANGED missed
      <4>1. shown'.graph \in Graph /\ shown'.by \in Writers /\ shown'.key \in KeyType \cup {None}
        BY <1>2, <1>7, <2>1, <2>2, <3>1
      <4> QED
        BY <1>3, <1>4, <1>5, <1>6, <1>10, <2>4, <3>1, <4>1 DEF LoadAnswer
    <3>2. CASE missed' = TRUE /\ UNCHANGED shown
      BY <1>3, <1>4, <1>5, <1>6, <1>10, <2>4, <3>2 DEF LoadAnswer
    <3> QED
      BY <1>10, <2>4, <3>1, <3>2 DEF LoadAnswer
  <2> QED
    BY <2>3, <2>4
<1>11. CASE FocusAnswer(r)
  <2>1. r.node \in Nodes
    BY <1>1, <1>11 DEF FocusAnswer, Sound, Around
  <2>2. selectNode(ui, r.node) \in UiType
    BY <2>1, SelectionsAreTyped
  <2>3. CASE Show(neighbors(r.node, 1, "both"), "focus", None)
    <3>1. shown'.graph \in Graph /\ shown'.by \in Writers /\ shown'.key \in KeyType \cup {None}
      BY <1>2, <1>7, <1>8, <1>9, <2>1, <2>3
    <3> QED
      BY <1>3, <1>4, <1>5, <1>11, <2>2, <3>1 DEF FocusAnswer
  <2>4. CASE UNCHANGED <<shown, ui>>
    BY <1>3, <1>4, <1>5, <1>11, <2>4 DEF FocusAnswer
  <2> QED
    BY <1>11, <2>3, <2>4 DEF FocusAnswer
<1>12. CASE DrillDetailAnswer(r)
  <2> DEFINE q == [r EXCEPT !.kind = "drill"]
  <2>1. r.kind = "drilldetail" /\ r \in Requests /\ r.node \in Nodes
    BY <1>1, <1>12 DEF DrillDetailAnswer, Sound, Around
  <2>2. Sound(q)
    BY <2>1 DEF Sound, Requests, Around
  <2>3. pending' = (pending \ {r}) \cup {q} /\ UNCHANGED <<ui, effects, shown, loading, version, missed, tapped, events>>
    BY <1>12 DEF DrillDetailAnswer
  <2> HIDE DEF q
  <2>4. \A s \in pending' : Sound(s)
    BY <2>2, <2>3 DEF Served
  <2>5. Served'
    BY <2>3, <2>4 DEF Served
  <2> QED
    BY <2>3, <2>5
<1>13. CASE DrillAnswer(r)
  <2>1. r.node \in Nodes
    BY <1>1, <1>13 DEF DrillAnswer, Sound, Around
  <2>2. (IF r.node \in Modules THEN ui ELSE [ui EXCEPT !.preset = "ego"]) \in UiType
    BY DEF UiType, Presets
  <2>3. CASE Show(neighbors(r.node, 1, "both"), "drill", None)
    <3>1. shown'.graph \in Graph /\ shown'.by \in Writers /\ shown'.key \in KeyType \cup {None}
      BY <1>2, <1>7, <1>8, <1>9, <2>1, <2>3
    <3> QED
      BY <1>3, <1>4, <1>5, <1>13, <2>2, <3>1 DEF DrillAnswer
  <2>4. CASE UNCHANGED <<shown, ui>>
    BY <1>3, <1>4, <1>5, <1>13, <2>4 DEF DrillAnswer
  <2> QED
    BY <1>13, <2>3, <2>4 DEF DrillAnswer
<1>14. CASE ImpactAnswer(r)
  <2>1. r.node \in Nodes
    BY <1>1, <1>14 DEF ImpactAnswer, Sound, Around
  <2>2. [ui EXCEPT !.impact = TRUE, !.selected = r.node, !.edge = None] \in UiType
    BY <2>1 DEF UiType
  <2>3. CASE /\ \E g \in Maps : Show(g, "impact", None)
             /\ ui' = [ui EXCEPT !.impact = TRUE, !.selected = r.node, !.edge = None]
    <3>1. shown'.graph \in Graph /\ shown'.by \in Writers /\ shown'.key \in KeyType \cup {None}
      BY <1>2, <1>7, <2>3, WorkbenchAssumption DEF WorkbenchAssumption
    <3> QED
      BY <1>3, <1>4, <1>5, <1>6, <1>14, <2>2, <2>3, <3>1 DEF ImpactAnswer
  <2>4. CASE UNCHANGED <<shown, ui>>
    BY <1>3, <1>4, <1>5, <1>6, <1>14, <2>4 DEF ImpactAnswer
  <2> QED
    BY <1>14, <2>3, <2>4 DEF ImpactAnswer
<1>15. CASE ExpandAnswer(r) \/ PathAnswer(r)
  <2>1. r.base \in Graph
    BY <1>1 DEF Sound, Requests
  <2>2. \A g \in Graph : mergeGraphs(r.base, g) \in Graph
    BY <2>1, CutsAreGraphs
  <2>3. shown'.graph \in Graph /\ shown'.by \in Writers /\ shown'.key \in KeyType \cup {None}
    <3>1. CASE UNCHANGED shown
      BY <1>5, <3>1
    <3>2. ASSUME ExpandAnswer(r), NEW d \in Depths, NEW w \in Directions,
                 Show(mergeGraphs(r.base, neighbors(r.node, d, w)), "expand", None)
          PROVE  shown'.graph \in Graph /\ shown'.by \in Writers /\ shown'.key \in KeyType \cup {None}
      <4>1. r.node \in Nodes
        BY <1>1, <3>2 DEF ExpandAnswer, Sound, Around
      <4> QED
        BY <1>2, <1>7, <1>8, <2>2, <3>2, <4>1
    <3>3. ASSUME NEW g \in Maps, Show(mergeGraphs(r.base, g), "path", None)
          PROVE  shown'.graph \in Graph /\ shown'.by \in Writers /\ shown'.key \in KeyType \cup {None}
      BY <1>2, <1>7, <2>2, <3>3, WorkbenchAssumption DEF WorkbenchAssumption
    <3> QED
      BY <1>15, <3>1, <3>2, <3>3 DEF ExpandAnswer, PathAnswer
  <2> QED
    BY <1>3, <1>4, <1>5, <1>6, <1>15, <2>3 DEF ExpandAnswer, PathAnswer
<1>16. CASE DiffAnswer(r)
  BY <1>3, <1>4, <1>5, <1>6, <1>16 DEF DiffAnswer
<1> QED
  BY <1>10, <1>11, <1>12, <1>13, <1>14, <1>15, <1>16 DEF Answer

\* The state of the component has its type: a selected node or edge, and
\* everything that is drawn, belongs to the repository's graph, whichever
\* answers have been merged, filtered and cut.
THEOREM TypesAreKept == Spec => []TypeOK
<1> DEFINE Inv == TypeOK /\ Served
<1>1. Init => Inv
  <2> SUFFICES ASSUME Init PROVE Inv
    OBVIOUS
  <2> DEFINE r == Request("load", 1, Key(ui), None, EmptyGraph)
  <2>1. ui \in UiType
    BY DEF Init, UiType, Views, Levels, Presets
  <2>2. effects \in [key : KeyType, eligible : BOOLEAN] /\ Key(ui) \in KeyType
    BY <2>1, DependenciesAreTyped DEF Init
  <2>3. Sound(r)
    <3>1. r = [kind |-> "load", tag |-> 1, key |-> Key(ui), node |-> None, base |-> EmptyGraph]
      BY DEF Request
    <3> HIDE DEF r
    <3> QED
      BY <2>2, <3>1, EmptyIsGraph DEF Sound, Requests, Around
  <2>4. pending = {r} /\ version = 1 /\ events = 0 /\ tapped = None
    BY DEF Init
  <2>5. /\ shown.graph \in Graph /\ shown.by \in Writers /\ shown.key \in KeyType \cup {None}
        /\ loading \in BOOLEAN /\ missed \in BOOLEAN
    <3>1. shown = [graph |-> EmptyGraph, by |-> "nobody", key |-> None]
      BY DEF Init
    <3>2. loading = TRUE /\ missed = FALSE
      BY DEF Init
    <3> QED
      BY <3>1, <3>2, EmptyIsGraph DEF Writers
  <2> HIDE DEF r
  <2>6. events \in 0..MaxEvents
    BY <2>4, WorkbenchAssumption DEF WorkbenchAssumption
  <2>7. version \in Nat /\ \A q \in pending : Sound(q)
    BY <2>3, <2>4
  <2>8. Served
    BY <2>5, <2>7 DEF Served
  <2> QED
    BY <2>1, <2>2, <2>4, <2>6, <2>8 DEF TypeOK, Served
<1>2. Inv /\ [Next]_vars => Inv'
  <2> SUFFICES ASSUME TypeOK, Served, [Next]_vars PROVE TypeOK' /\ Served'
    OBVIOUS
  <2>1. /\ ui \in UiType /\ events \in Nat /\ events \in 0..MaxEvents
        /\ tapped \in Nodes \cup Edges \cup {None}
        /\ effects \in [key : KeyType, eligible : BOOLEAN]
    BY DEF TypeOK
  <2>2. ASSUME ui' \in UiType, effects' \in [key : KeyType, eligible : BOOLEAN], Served',
               events' \in 0..MaxEvents, tapped' \in Nodes \cup Edges \cup {None}
        PROVE  TypeOK'
    BY <2>2 DEF TypeOK, Served
  <2>3. CASE RunEffects
    <3>1. ui' \in UiType
      BY <2>1, <2>3, EffectsAreTyped DEF RunEffects
    <3>2. Key(ui) \in KeyType /\ effects' \in [key : KeyType, eligible : BOOLEAN]
      BY <2>1, <2>3, DependenciesAreTyped DEF RunEffects
    <3>3. ASSUME load(Key(ui)) PROVE Served'
      BY <3>2, <3>3, LoadIsServed
    <3>4. ASSUME UNCHANGED requests PROVE Served'
      BY <3>4 DEF requests, Served
    <3> QED
      BY <2>1, <2>2, <2>3, <3>1, <3>2, <3>3, <3>4 DEF RunEffects
  <2>4. CASE UserEvent
    <3>1. effects' = effects
      BY <2>4, EventKeepsFields
    <3>2. /\ ui' \in UiType /\ Served' /\ tapped' \in Nodes \cup Edges \cup {None}
          /\ events' = events + 1
      BY <2>1, <2>4, ControlIsTyped, CanvasIsTyped DEF UserEvent
    <3>3. events' \in 0..MaxEvents
      BY <2>1, <2>4, <3>2, WorkbenchAssumption DEF UserEvent, WorkbenchAssumption
    <3> QED
      BY <2>1, <2>2, <3>1, <3>2, <3>3
  <2>5. ASSUME NEW r \in pending, Answer(r) PROVE TypeOK' /\ Served'
    BY <2>1, <2>2, <2>5, AnswerIsTyped
  <2>6. CASE UNCHANGED vars
    BY <2>1, <2>2, <2>6 DEF vars, requests, Served
  <2> QED
    BY <2>3, <2>4, <2>5, <2>6 DEF Next
<1> QED
  BY <1>1, <1>2, PTL DEF Spec

=============================================================================
