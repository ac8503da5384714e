-------------------------------- MODULE Canvas --------------------------------
(***************************************************************************)
(* The canvas of one browser client: the two behaviour statecharts of the  *)
(* GUI (client/behavioursc_canvas.js and behavioursc_dialog.js, one of     *)
(* which is active), what their handlers keep (the selection, the overlays *)
(* of a gesture, the stack of dialogs), and the changelogs of the csworker *)
(* that are applied in the middle of it all (client/query_response.js).    *)
(*                                                                         *)
(* An exception of a handler is not caught: what it did before stays done. *)
(* In the handler of a changelog, the sequence number that is waited for   *)
(* does not move, and every later changelog is kept pending for ever.      *)
(*                                                                         *)
(* Not here: geometry, containers (nothing is selected along with another),*)
(* toolbars, the numbers of changelogs (module ChangelogSync orders them). *)
(* A request is only its effect on the model, which anyone may change.     *)
(***************************************************************************)
EXTENDS Integers, Sequences, FiniteSets, Functions, SequencesExt

CONSTANTS
  Icon,       \* icons that are not links
  Link,       \* links: the icon in the middle of a connection
  From, To,   \* the ends of each link
  NoIcon,
  MaxChange,  \* changes to the model
  MaxDialog   \* dialogs open at the same time

Node == Icon \cup Link
Edge == {<<From[l], l>> : l \in Link} \cup {<<l, To[l]>> : l \in Link}

ASSUME CanvasAssumption ==
  /\ Icon \cap Link = {}
  /\ From \in [Link -> Icon] /\ To \in [Link -> Icon]
  /\ NoIcon \notin Icon \cup Link
  /\ IsFiniteSet(Link)
  /\ Node \cap Edge = {}  \* an edge id is "id1--id2"
  /\ {MaxChange, MaxDialog} \subseteq Nat

VARIABLES
  model,      \* the nodes the csworker has
  changes,    \* how many times it changed
  wire,       \* its changelogs on their way, oldest first
  icons, edges,    \* __icons, __edges: what the client shows
  stuck,      \* an exception ended the handling of a changelog
  selection,  \* __selection['items']; {} when __selection is undefined
  timer,      \* the call of __select that is to be made in 5 ms
  state,      \* of the statechart of the canvas
  docked,     \* the dock is enabled
  lasso,      \* __selectionOverlay is defined
  ghost,      \* transformationPreviewOverlay is defined
  controls,   \* geometryControlsOverlay is displayed
  source,     \* connectionSource; NoIcon when connectionPath is undefined
  points,     \* connectionPathEditingOverlay: the edges that have points
  current,    \* the edge that currentControlPoint belongs to
  dialogs,    \* __dialog_stack
  chart,      \* the state of the statechart of dialogs
  active,     \* activeBehaviourStatechart
  pressed     \* where the right button was pressed, in this gesture

shown == <<icons, edges>>
select == <<selection, ghost, controls>>
gesture == <<lasso, source, points, current, pressed>>
popups == <<dialogs, chart, active>>
server == <<model, changes, wire>>
vars == <<server, shown, stuck, select, timer, state, docked, gesture, popups>>

NoEdge == <<NoIcon, NoIcon>>
Displayed == icons \cup edges

\* __currentState
States == {"idle", "lassoing", "selected", "dragging", "drawing", "editing", "bending"}

\* The states whose entry disables the dock, and whose exit enables it.
Busy == {"lassoing", "dragging", "drawing", "bending"}

\* drop: the choice of a containment; entry: anything whose callback may
\* object and open another one; note: errors, the choice of a connection.
DialogKinds == {"drop", "entry", "note"}

NoTimer == [on |-> FALSE, items |-> {}, same |-> FALSE]
-----------------------------------------------------------------------------
(* What a changelog does.  A view is the part of the state it works on.    *)

View == [icons |-> icons, edges |-> edges, selection |-> selection,
         ghost |-> ghost, controls |-> controls, timer |-> timer,
         state |-> state, failed |-> FALSE]

EdgesAt(n, es) == {e \in es : e[1] = n \/ e[2] = n}
Connection(l, es) == {l} \cup EdgesAt(l, es)

\* A mutant: the rectangle goes, the overlays stay.
Deselected_KeepsOverlays(v) == [v EXCEPT !.selection = {}, !.timer.same = FALSE]

\* __select without an argument
Deselected(v) ==
  [v EXCEPT !.selection = {},
            !.ghost = IF v.selection = {} THEN @ ELSE FALSE,
            !.controls = IF v.selection = {} THEN @ ELSE FALSE,
            !.timer.same = FALSE]

\* An array loses the connections that it has no more than a part of.
Complete(items, es) ==
  {i \in items : \A l \in Link :
      i \in Connection(l, es) => Connection(l, es) \subseteq items}

\* Without a bounding box there is no selection, and an exception.
SelectItems(v, items) ==
  LET picked == Complete(items, v.edges) IN
  IF picked \subseteq v.icons \cup v.edges
    THEN [Deselected(v) EXCEPT !.selection = picked]
    ELSE [Deselected(v) EXCEPT !.failed = TRUE]

\* A node leaves the selection.  The array a timer holds is changed in place,
\* as long as it is the one that is selected.  A mutant: it does not leave.
Forget_Keeps(v, n) == v

\* Another: what is to leave is undefined, as it is for edges.
Forget_Undefined(v, n) ==
  IF v.selection = {} THEN v ELSE SelectItems(v, v.selection)

Forget(v, n) ==
  LET w == IF v.timer.same THEN [v EXCEPT !.timer.items = @ \ {n}] ELSE v IN
  IF v.selection = {} THEN v ELSE SelectItems(w, v.selection \ {n})

ApplyRMEDGE(v, e) ==
  IF e \notin v.edges THEN [v EXCEPT !.failed = TRUE]
  ELSE LET w == [v EXCEPT !.edges = @ \ {e}] IN
       \* the edge that is to leave the selection is "undefined"
       IF v.selection = {} THEN w ELSE SelectItems(w, v.selection)

ApplyMKNODE(v, n) == [v EXCEPT !.icons = @ \cup {n}]

\* $segments: an edge is drawn between icons that are there.
ApplySegments(v, l) ==
  IF l \notin v.icons THEN [v EXCEPT !.failed = TRUE]
  ELSE [v EXCEPT !.edges = @ \cup {e \in EdgesAt(l, Edge) : {e[1], e[2]} \subseteq v.icons}]

ApplyRMNODE(v, n) ==
  IF n \notin v.icons THEN [v EXCEPT !.failed = TRUE]
  ELSE Forget([v EXCEPT !.icons = @ \ {n}, !.edges = @ \ EdgesAt(n, v.edges)], n)

ApplyCHATTR(v, n) ==
  IF n \notin v.icons THEN [v EXCEPT !.failed = TRUE]
  ELSE IF n \notin v.selection THEN v
  ELSE [v EXCEPT !.timer = [on |-> TRUE, items |-> v.selection, same |-> TRUE]]

AllEdges(ns) == {e \in Edge : {e[1], e[2]} \subseteq ns}

\* A mutant: __edges is not cleared.
ApplyRESETM_KeepsEdges(v, ns) ==
  [Deselected(v) EXCEPT !.icons = ns, !.edges = @ \cup AllEdges(ns), !.state = "idle"]

\* resetCanvas, then the new model
ApplyRESETM(v, ns) ==
  [Deselected(v) EXCEPT !.icons = ns, !.edges = AllEdges(ns), !.state = "idle"]

ApplyStep(v, step) ==
  IF v.failed THEN v
  ELSE CASE step.op = "RMEDGE"    -> ApplyRMEDGE(v, step.edge)
         [] step.op = "MKNODE"    -> ApplyMKNODE(v, step.id)
         [] step.op = "$segments" -> ApplySegments(v, step.id)
         [] step.op = "RMNODE"    -> ApplyRMNODE(v, step.id)
         [] step.op = "CHATTR"    -> ApplyCHATTR(v, step.id)
         [] step.op = "RESETM"    -> ApplyRESETM(v, step.nodes)

\* The steps in order; a function of k, which can be reasoned about.
Applied(v, changelog) ==
  LET after[k \in 0..Len(changelog)] ==
        IF k = 0 THEN v ELSE ApplyStep(after[k - 1], changelog[k])
  IN  after[Len(changelog)]

\* The view v becomes the state.
Shows(v) ==
  /\ icons' = v.icons
  /\ edges' = v.edges
  /\ selection' = v.selection
  /\ ghost' = v.ghost
  /\ controls' = v.controls
  /\ timer' = v.timer

Select(items) == Shows(SelectItems(View, items))
Deselect == Shows(Deselected(View))
-----------------------------------------------------------------------------
\* The model that is there when the client joins is what it shows first.
Init ==
  /\ model \in {ns \in SUBSET Node : \A l \in ns \cap Link : {From[l], To[l]} \subseteq ns}
  /\ icons = model /\ edges = AllEdges(model) /\ stuck = FALSE
  /\ changes = 0 /\ wire = <<>>
  /\ selection = {} /\ timer = NoTimer
  /\ state = "idle" /\ docked = TRUE
  /\ lasso = FALSE /\ ghost = FALSE /\ controls = FALSE
  /\ source = NoIcon /\ points = {} /\ current = NoEdge
  /\ dialogs = <<>> /\ chart = "closed" /\ active = "canvas"
  /\ pressed = NoIcon

(* The csworker.  The changelogs of edits of this user, of others and of   *)
(* transformations look the same.                                          *)

RemovalOf(l) ==
  <<[op |-> "RMEDGE", edge |-> <<From[l], l>>], [op |-> "RMEDGE", edge |-> <<l, To[l]>>],
    [op |-> "RMNODE", id |-> l]>>

LinksAt(n) == {l \in Link \cap model : n \in {l, From[l], To[l]}}

Changes(ns, changelog) ==
  /\ changes < MaxChange
  /\ model' = ns
  /\ changes' = changes + 1
  /\ wire' = Append(wire, changelog)
  /\ UNCHANGED <<shown, stuck, select, timer, state, docked, gesture, popups>>

Create(n) == n \notin model /\ Changes(model \cup {n}, <<[op |-> "MKNODE", id |-> n]>>)

Connect(l) ==
  /\ l \notin model /\ {From[l], To[l]} \subseteq model
  /\ Changes(model \cup {l},
             <<[op |-> "MKNODE", id |-> l], [op |-> "$segments", id |-> l]>>)

RemoveNode(n) ==
  LET gone == SetToSeq(LinksAt(n))
      links == FlattenSeq([k \in DOMAIN gone |-> RemovalOf(gone[k])]) IN
  /\ n \in model
  /\ Changes(model \ ({n} \cup LinksAt(n)),
             IF n \in Link THEN links
             ELSE Append(links, [op |-> "RMNODE", id |-> n]))

Update(n) == n \in model /\ Changes(model, <<[op |-> "CHATTR", id |-> n]>>)

Load(ns) ==
  /\ \A l \in ns \cap Link : {From[l], To[l]} \subseteq ns
  /\ Changes(ns, <<[op |-> "RESETM", nodes |-> ns]>>)

ServerNext ==
  \/ \E i \in Icon : Create(i)
  \/ \E l \in Link : Connect(l)
  \/ \E n \in Node : RemoveNode(n) \/ Update(n)
  \/ \E ns \in SUBSET Node : Load(ns)

\* __handleChangelog: a pending changelog waits for the one that failed.
HandleChangelog ==
  /\ wire # <<>> /\ ~ stuck
  /\ LET v == Applied(View, Head(wire)) IN
       /\ Shows(v)
       /\ state' = v.state
       /\ stuck' = v.failed
  /\ wire' = Tail(wire)
  /\ UNCHANGED <<model, changes, docked, gesture, popups>>

\* doAfterUnlessRepeated(__select, __selection['items'], 5)
Reselect ==
  /\ timer.on
  /\ Shows([SelectItems(View, timer.items) EXCEPT !.timer = NoTimer])
  /\ UNCHANGED <<server, stuck, state, docked, gesture, popups>>
-----------------------------------------------------------------------------
(* The statechart of the canvas: events reach it when it is active.        *)

\* __T
T(s) ==
  /\ state' = s
  /\ docked' = IF s \in Busy THEN FALSE ELSE IF state \in Busy THEN TRUE ELSE docked

Quiet == active = "canvas" /\ UNCHANGED <<server, stuck>>
SameView == UNCHANGED <<shown, select, timer>>

PressCanvas ==
  /\ Quiet /\ state = "idle"
  /\ T("lassoing")
  /\ lasso' = TRUE
  /\ SameView
  /\ UNCHANGED <<source, points, current, pressed, popups>>

\* LEFT_RELEASE_ICON, with a middle button or shift as well: the target is an
\* icon, or a connection by any of its parts.
ClickIcon(n) ==
  /\ Quiet /\ state = "idle" /\ n \in icons
  /\ Select(IF n \in Link THEN Connection(n, edges) ELSE {n})
  /\ T("selected")
  /\ UNCHANGED <<gesture, popups>>

\* CODED_SELECTION: the results of a search.
CodedSelection(items) ==
  /\ Quiet /\ state \in {"idle", "selected", "editing"} /\ items \subseteq icons
  /\ Select(items \cup UNION {Connection(l, edges) : l \in items \cap Link})
  /\ T("selected")
  /\ points' = IF state = "editing" THEN {} ELSE points
  /\ current' = IF state = "editing" THEN NoEdge ELSE current
  /\ UNCHANGED <<lasso, source, pressed, popups>>

\* RIGHT_PRESS_ICON; initConnectionPath keeps a path that is there already.
PressRight(n) ==
  /\ Quiet /\ state = "idle" /\ n \in icons
  /\ T("drawing")
  /\ source' = IF source = NoIcon THEN n ELSE source
  /\ pressed' = n
  /\ SameView
  /\ UNCHANGED <<lasso, points, current, popups>>

\* __selectSelection
ReleaseLasso(items) ==
  /\ Quiet /\ state = "lassoing" /\ items \subseteq Displayed
  /\ Select(items)
  /\ T(IF selection' = {} THEN "idle" ELSE "selected")
  /\ lasso' = FALSE
  /\ UNCHANGED <<source, points, current, pressed, popups>>

\* DEL: without a selection, del throws.
Delete ==
  /\ Quiet /\ state = "selected" /\ selection # {}
  /\ Deselect
  /\ T("idle")
  /\ UNCHANGED <<gesture, popups>>

\* ESC, the mouse elsewhere, undo, redo
Leave ==
  /\ Quiet /\ state = "selected"
  /\ Deselect
  /\ T("idle")
  /\ UNCHANGED <<gesture, popups>>

areTransformationsAllowed ==
  /\ ~ controls
  /\ \A e \in selection \cap Edge : {e[1], e[2]} \subseteq selection

\* LEFT_PRESS_SELECTION: on the rectangle of the selection
PressSelection ==
  /\ Quiet /\ state = "selected" /\ selection # {} /\ areTransformationsAllowed
  /\ T("dragging")
  /\ ghost' = TRUE
  /\ UNCHANGED <<shown, selection, controls, timer, gesture, popups>>

ShowGeometryControls ==
  /\ Quiet /\ state = "selected" /\ selection # {} /\ areTransformationsAllowed
  /\ controls' = TRUE /\ ghost' = TRUE
  /\ UNCHANGED <<shown, selection, timer, state, docked, gesture, popups>>

HideGeometryControls ==
  /\ Quiet /\ state = "selected"
  /\ controls' = FALSE /\ ghost' = FALSE
  /\ UNCHANGED <<shown, selection, timer, state, docked, gesture, popups>>

\* TAB: the preview stays until the change comes back.
SnapSelectionToGrid ==
  /\ Quiet /\ state = "selected" /\ selection # {} /\ areTransformationsAllowed
  /\ ghost' = TRUE
  /\ UNCHANGED <<shown, selection, controls, timer, state, docked, gesture, popups>>

\* transformSelection: nothing moved and the overlays go, or a request is
\* sent for the icons selected and they stay.
TransformSelection ==
  \/ UNCHANGED <<ghost, controls>>
  \/ ghost /\ ghost' = FALSE /\ controls' = FALSE

\* The button of the geometry controls
ConfirmTransformation ==
  /\ controls /\ active = "canvas"
  /\ TransformSelection
  /\ UNCHANGED <<server, shown, stuck, selection, timer, state, docked, gesture, popups>>

CancelDrag ==
  /\ Quiet /\ state = "dragging"
  /\ ghost' = FALSE
  /\ T("selected")
  /\ UNCHANGED <<shown, selection, controls, timer, gesture, popups>>

\* The callback of getInsertConnectionType is called at once, when there is
\* nothing to choose.
Drop ==
  /\ Quiet /\ state = "dragging"
  /\ TransformSelection
  /\ T("selected")
  /\ UNCHANGED <<shown, selection, timer, gesture, popups>>

\* A mutant: points for everything that is selected.
EditConnectionPaths_All ==
  /\ Quiet /\ state = "selected" /\ selection \cap Edge # {}
  /\ points' = selection
  /\ Deselect
  /\ T("editing")
  /\ UNCHANGED <<lasso, source, current, pressed, popups>>

\* SHIFT: showConnectionPathEditingOverlay
EditConnectionPaths ==
  /\ Quiet /\ state = "selected" /\ selection \cap Edge # {}
  /\ points' = selection \cap edges
  /\ Deselect
  /\ T("editing")
  /\ UNCHANGED <<lasso, source, current, pressed, popups>>

\* hideConnectionPath
CancelPath ==
  /\ Quiet /\ state = "drawing"
  /\ source' = NoIcon /\ pressed' = NoIcon
  /\ T("idle")
  /\ SameView
  /\ UNCHANGED <<lasso, points, current, popups>>

\* RIGHT_RELEASE_ICON, less than 5 pixels away: the path is not hidden.
ReleaseShort ==
  /\ Quiet /\ state = "drawing"
  /\ pressed' = NoIcon
  /\ T("idle")
  /\ SameView
  /\ UNCHANGED <<lasso, source, points, current, popups>>

HideConnectionPathEditingOverlay == points' = {} /\ current' = NoEdge

StopEditing ==
  /\ Quiet /\ state = "editing"
  /\ HideConnectionPathEditingOverlay
  /\ T("idle")
  /\ SameView
  /\ UNCHANGED <<lasso, source, pressed, popups>>

\* addOrDeleteControlPoint: the points are shown again, for the edges left.
AddOrDeleteControlPoint(e) ==
  /\ Quiet /\ state = "editing" /\ e \in points \cap edges
  /\ points' = points \cap edges
  /\ current' = NoEdge
  /\ SameView
  /\ UNCHANGED <<state, docked, lasso, source, pressed, popups>>

PressControlPoint(e) ==
  /\ Quiet /\ state = "editing" /\ e \in points
  /\ current' = e
  /\ T("bending")
  /\ SameView
  /\ UNCHANGED <<lasso, source, points, pressed, popups>>

\* updateConnectionPath throws when the edge is not there any more.
ReleaseControlPoint ==
  /\ Quiet /\ state = "bending" /\ current \in edges
  /\ T("editing")
  /\ SameView
  /\ UNCHANGED <<gesture, popups>>
-----------------------------------------------------------------------------
(* Dialogs.                                                                *)

\* setupAndShowDialog on top of the stack d
Pushed(d, k) ==
  /\ dialogs' = Append(d, k)
  /\ active' = "dialog"
  /\ chart' = "open"

\* A mutant: the canvas is active again while dialogs are left.
Popped_Wakes(d) ==
  /\ dialogs' = Front(d)
  /\ active' = "canvas"
  /\ chart' = IF Len(dialogs) = 1 THEN "closed" ELSE chart

\* closeDialog with the stack d
Popped(d) ==
  /\ dialogs' = Front(d)
  /\ active' = IF Len(d) = 1 THEN "canvas" ELSE active
  /\ chart' = IF Len(dialogs) = 1 THEN "closed" ELSE chart

Room == Len(dialogs) < MaxDialog

\* An answer of the server, an error, or a toolbar opens one at any time.
OpenDialog(k) ==
  /\ Room
  /\ Pushed(dialogs, k)
  /\ UNCHANGED <<server, shown, stuck, select, timer, state, docked, gesture>>

\* connect: the path is hidden; a request, an error or a choice.
ReleaseOnIcon ==
  /\ Quiet /\ state = "drawing"
  /\ source' = NoIcon /\ pressed' = NoIcon
  /\ T("idle")
  /\ \/ UNCHANGED popups
     \/ Room /\ Pushed(dialogs, "note")
  /\ SameView
  /\ UNCHANGED <<lasso, points, current>>

\* LEFT_RELEASE_ICON: several containments to choose from
DropAndChoose ==
  /\ Quiet /\ state = "dragging" /\ selection # {}
  /\ T("selected")
  /\ Room /\ Pushed(dialogs, "drop")
  /\ SameView
  /\ UNCHANGED gesture

\* ESC or the cancel button
CancelDialog ==
  /\ active = "dialog"
  /\ Popped(dialogs)
  /\ UNCHANGED <<server, shown, stuck, select, timer, state, docked, gesture>>

\* The callback of a dialog that has none of its own to open.
CallBack(kind) ==
  IF kind = "drop" THEN TransformSelection ELSE UNCHANGED <<ghost, controls>>

\* The ok button of any dialog closes the one on top; then its callback runs.
ClickOk(k) ==
  /\ active = "dialog" /\ k \in DOMAIN dialogs
  /\ CallBack(dialogs[k])
  /\ \/ Popped(dialogs)
     \/ dialogs[k] = "entry" /\ Pushed(Front(dialogs), "note")
  /\ UNCHANGED <<server, shown, stuck, selection, timer, state, docked, gesture>>

\* ENTER: with several dialogs, the top one goes.  With one, the chart closes
\* before ok is clicked: the callback runs first, and what it opened is
\* popped in place of the dialog.
PressEnter ==
  /\ active = "dialog"
  /\ IF Len(dialogs) > 1
       THEN Popped(dialogs) /\ UNCHANGED <<ghost, controls>>
       ELSE \/ Popped(dialogs) /\ CallBack(dialogs[1])
            \/ /\ dialogs[1] = "entry"
               /\ chart' = "open"
               /\ UNCHANGED <<dialogs, active, ghost, controls>>
  /\ UNCHANGED <<server, shown, stuck, selection, timer, state, docked, gesture>>
-----------------------------------------------------------------------------
CanvasNext ==
  \/ PressCanvas \/ Delete \/ Leave \/ PressSelection
  \/ ShowGeometryControls \/ HideGeometryControls \/ SnapSelectionToGrid
  \/ ConfirmTransformation \/ CancelDrag \/ Drop \/ DropAndChoose
  \/ EditConnectionPaths \/ StopEditing \/ ReleaseControlPoint
  \/ CancelPath \/ ReleaseShort \/ ReleaseOnIcon
  \/ \E n \in Node : ClickIcon(n) \/ PressRight(n)
  \/ \E items \in SUBSET Node : CodedSelection(items)
  \/ \E items \in SUBSET (Node \cup Edge) : ReleaseLasso(items)
  \/ \E e \in Edge : AddOrDeleteControlPoint(e) \/ PressControlPoint(e)

DialogNext ==
  \/ \E k \in DialogKinds \ {"drop"} : OpenDialog(k)
  \/ CancelDialog \/ PressEnter
  \/ \E k \in 1..MaxDialog : ClickOk(k)

Next == ServerNext \/ HandleChangelog \/ Reselect \/ CanvasNext \/ DialogNext

Spec == Init /\ [][Next]_vars
-----------------------------------------------------------------------------
(* Properties.                                                             *)

TypeOK ==
  /\ model \subseteq Node /\ changes \in 0..MaxChange
  /\ icons \subseteq Node /\ edges \subseteq Edge
  /\ {stuck, docked, lasso, ghost, controls} \subseteq BOOLEAN
  /\ selection \subseteq Node \cup Edge
  /\ timer \in [on : BOOLEAN, items : SUBSET (Node \cup Edge), same : BOOLEAN]
  /\ state \in States
  /\ {source, pressed} \subseteq Node \cup {NoIcon}
  /\ points \subseteq Edge /\ current \in Edge \cup {NoEdge}
  /\ dialogs \in BoundedSeq(DialogKinds, MaxDialog)
  /\ chart \in {"open", "closed"} /\ active \in {"canvas", "dialog"}

\* Whatever comes in between, what is selected is on the canvas, and a
\* connection is selected as a whole or not at all: the requests made for
\* __selection['items'] and the box drawn around them find every item.  A
\* preview or the geometry controls are there only for a selection, even when
\* a dialog is answered late: transformSelection looks at its overlay and
\* then reads __selection['items'] without a check.
SelectionShown ==
  /\ selection \subseteq Displayed
  /\ Complete(selection, edges) = selection
  /\ ghost \/ controls => selection # {}

\* A view when all changelogs have been applied
AppliedAll(v, changelogs) ==
  LET after[k \in 0..Len(changelogs)] ==
        IF k = 0 THEN v ELSE Applied(after[k - 1], changelogs[k])
  IN  after[Len(changelogs)]

\* Unless it is stuck, the client that applies what is on its way, with nothing
\* selected, shows what the csworker has: icons of the same nodes, and both
\* edges of every link.
ViewFollowsModel ==
  ~ stuck =>
    LET v == AppliedAll(Deselected(View), wire) IN
    ~ v.failed /\ v.icons = model /\ v.edges = AllEdges(model)

\* Events go to the dialogs if and only if there is one, and their
\* statechart is then open: a gesture is never taken away from the canvas,
\* nor a dialog left deaf.
DialogsHaveEvents ==
  /\ active = "dialog" <=> dialogs # <<>>
  /\ chart = "open" <=> dialogs # <<>>

\* Every other exception leaves the client in order: it stops following the
\* model only by the removal of an edge that is selected at that time.
OnlySelectedEdgesFreeze ==
  [][stuck' /\ ~ stuck =>
       \E k \in DOMAIN Head(wire) :
          LET step == Head(wire)[k] IN step.op = "RMEDGE" /\ step.edge \in selection]_vars

\* "apply next pending changelog, if any": a client keeps up with the model.
NeverStuck == ~ stuck

\* "connectionSource is used to remember the uri of the icon at the start of
\* the path": a connection starts where the button was pressed.
DrawsFromPressed == state = "drawing" => source = pressed
===============================================================================
