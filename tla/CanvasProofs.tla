---------------------------- MODULE CanvasProofs ----------------------------
(***************************************************************************)
(* Proofs about the canvas of a browser client, for any icons, links and   *)
(* number of changes and dialogs: it shows the model that the changelogs   *)
(* make, what is selected is shown, and it stops following the model only  *)
(* by the removal of an edge that is selected.                             *)
(***************************************************************************)
EXTENDS Canvas, SequenceTheorems, FiniteSetTheorems, WellFoundedInduction, TLAPS

\* Induction over the natural numbers, for a set of them.
LEMMA NatSetInduction ==
    ASSUME NEW S, 0 \in S, \A n \in Nat : n \in S => n + 1 \in S
    PROVE  Nat \subseteq S
<1> DEFINE R == { ss \in Nat \X Nat : ss[1] < ss[2] }
           V == Nat \ S
<1>1. SUFFICES ASSUME V # {} PROVE FALSE
  OBVIOUS
<1>2. IsWellFoundedOn(R, Nat)
  BY NatLessThanWellFounded DEF OpToRel
<1> HIDE DEF R
<1>3. \E x \in V : \A y \in V : ~ (<<y, x>> \in R)
  <2>1. V \subseteq Nat
    OBVIOUS
  <2> HIDE DEF V
  <2> QED BY <1>1, <1>2, <2>1, WFMin
<1>4. PICK x \in V : \A y \in V : <<y, x>> \notin R
  BY <1>3
<1>5. x # 0 /\ x \in Nat
  OBVIOUS
<1>6. x - 1 \in V
  <2>1. x - 1 \in Nat /\ (x - 1) + 1 = x
    BY <1>5
  <2> QED BY <2>1
<1>7. <<x - 1, x>> \in R
  BY <1>5 DEF R
<1> QED BY <1>4, <1>6, <1>7

-----------------------------------------------------------------------------
(* Links, edges and connections.                                           *)

Item  == Node \cup Edge
Timer == [on : BOOLEAN, items : SUBSET Item, same : BOOLEAN]

\* the edges of one link
EdgesOf(l) == {<<From[l], l>>, <<l, To[l]>>}

\* An edge has one link among its ends, and is no node.
LEMMA EdgeEnds ==
    /\ \A e \in Edge : e \notin Node /\ \E l \in Link : e \in EdgesOf(l)
    /\ \A l \in Link : /\ EdgesOf(l) \subseteq Edge /\ From[l] \in Icon /\ To[l] \in Icon
                       /\ l \notin Icon /\ <<From[l], l>> # <<l, To[l]>>
<1>1. \A l \in Link : From[l] \in Icon /\ To[l] \in Icon /\ l \notin Icon
  BY CanvasAssumption
<1>2. \A e \in Edge : e \notin Node
  BY CanvasAssumption
<1>3. \A e \in Edge : \E l \in Link : e \in EdgesOf(l)
  BY DEF Edge, EdgesOf
<1>4. \A l \in Link : EdgesOf(l) \subseteq Edge
  BY DEF Edge, EdgesOf
<1>5. \A l \in Link : <<From[l], l>> # <<l, To[l]>>
  BY <1>1
<1> QED BY <1>1, <1>2, <1>3, <1>4, <1>5

\* The edges at a link are its own.
LEMMA EdgesAtLink ==
    ASSUME NEW l \in Link
    PROVE  /\ \A e \in Edge : (e[1] = l \/ e[2] = l) <=> e \in EdgesOf(l)
           /\ \A es \in SUBSET Edge : EdgesAt(l, es) = es \cap EdgesOf(l)
<1>1. ASSUME NEW e \in Edge PROVE (e[1] = l \/ e[2] = l) <=> e \in EdgesOf(l)
  <2>1. PICK m \in Link : e = <<From[m], m>> \/ e = <<m, To[m]>>
    BY EdgeEnds DEF EdgesOf
  <2>2. m = l \/ (m # l /\ From[m] # l /\ To[m] # l)
    BY EdgeEnds
  <2>3. CASE e = <<From[m], m>>
    <3>1. e[1] = From[m] /\ e[2] = m
      BY <2>3
    <3>2. e \in EdgesOf(l) <=> m = l
      BY <2>2, <2>3, EdgeEnds DEF EdgesOf
    <3> QED BY <2>2, <3>1, <3>2
  <2>4. CASE e = <<m, To[m]>>
    <3>1. e[1] = m /\ e[2] = To[m]
      BY <2>4
    <3>2. e \in EdgesOf(l) <=> m = l
      BY <2>2, <2>4, EdgeEnds DEF EdgesOf
    <3> QED BY <2>2, <3>1, <3>2
  <2> QED BY <2>1, <2>3, <2>4
<1>2. ASSUME NEW es \in SUBSET Edge PROVE EdgesAt(l, es) = es \cap EdgesOf(l)
  BY <1>1 DEF EdgesAt
<1> QED BY <1>1, <1>2

LEMMA OneLink ==
    ASSUME NEW l \in Link, NEW m \in Link, NEW e \in EdgesOf(l), e \in EdgesOf(m)
    PROVE  l = m
<1>1. From[l] # m /\ To[l] # m /\ From[m] # l /\ To[m] # l
  BY EdgeEnds
<1>2. CASE e = <<From[l], l>>
  <2>1. e[1] = From[l] /\ e[2] = l
    BY <1>2
  <2>2. e = <<From[m], m>> \/ e = <<m, To[m]>>
    BY DEF EdgesOf
  <2> QED BY <1>1, <2>1, <2>2
<1>3. CASE e = <<l, To[l]>>
  <2>1. e[1] = l /\ e[2] = To[l]
    BY <1>3
  <2>2. e = <<From[m], m>> \/ e = <<m, To[m]>>
    BY DEF EdgesOf
  <2> QED BY <1>1, <2>1, <2>2
<1> QED BY <1>2, <1>3 DEF EdgesOf

\* No item is in two connections.
LEMMA ConnectionsApart ==
    ASSUME NEW es \in SUBSET Edge, NEW l \in Link, NEW m \in Link,
           NEW i \in Connection(l, es), i \in Connection(m, es)
    PROVE  l = m
<1>1. Connection(l, es) = {l} \cup (es \cap EdgesOf(l)) /\ Connection(m, es) = {m} \cup (es \cap EdgesOf(m))
  BY EdgesAtLink DEF Connection
<1>2. \A e \in es : e # l /\ e # m
  BY EdgeEnds DEF Node
<1>3. CASE i \in Edge
  <2>1. i \in EdgesOf(l) /\ i \in EdgesOf(m)
    BY <1>1, <1>3, EdgeEnds DEF Node
  <2> QED BY <2>1, OneLink
<1>4. CASE i \notin Edge
  BY <1>1, <1>4
<1> QED BY <1>3, <1>4

\* An array that has lost its broken connections loses nothing more, even when edges
\* have gone that are not in it.
LEMMA CompleteTwice ==
    ASSUME NEW es \in SUBSET Edge, NEW items
    PROVE  Complete(Complete(items, es), es) = Complete(items, es)
<1>1. SUFFICES ASSUME NEW i \in Complete(items, es), NEW l \in Link, i \in Connection(l, es),
                      NEW k \in Connection(l, es)
               PROVE  k \in Complete(items, es)
  BY DEF Complete
<1>2. Connection(l, es) \subseteq items
  BY <1>1 DEF Complete
<1>3. \A m \in Link : k \in Connection(m, es) => m = l
  BY <1>1, ConnectionsApart
<1> QED BY <1>2, <1>3 DEF Complete

LEMMA CompleteStays ==
    ASSUME NEW es \in SUBSET Edge, NEW fs \in SUBSET es, NEW items, Complete(items, es) = items
    PROVE  Complete(items, fs) = items
<1>1. \A l \in Link : Connection(l, fs) \subseteq Connection(l, es)
  BY DEF Connection, EdgesAt
<1> QED BY <1>1 DEF Complete

\* What a link that is in the array, or one of its edges, says of the others.
LEMMA CompleteWhole ==
    ASSUME NEW es \in SUBSET Edge, NEW items, Complete(items, es) = items, NEW l \in Link,
           NEW e \in es \cap EdgesOf(l)
    PROVE  l \in items <=> e \in items
<1>1. l \in Connection(l, es) /\ e \in Connection(l, es)
  BY EdgesAtLink DEF Connection
<1> QED BY <1>1 DEF Complete

-----------------------------------------------------------------------------
(* Models.                                                                 *)

\* the ends of a link are there
Closed(ns) == ns \subseteq Node /\ \A l \in ns \cap Link : {From[l], To[l]} \subseteq ns

LEMMA AllEdgesAre ==
    ASSUME NEW ns
    PROVE  /\ AllEdges(ns) \subseteq Edge
           /\ \A l \in Link : \A e \in EdgesOf(l) :
                 e \in AllEdges(ns) <=> {e[1], e[2]} \subseteq ns
           /\ Closed(ns) => \A l \in Link : \A e \in EdgesOf(l) : e \in AllEdges(ns) <=> l \in ns
<1>1. AllEdges(ns) \subseteq Edge
  BY DEF AllEdges
<1>2. ASSUME NEW l \in Link, NEW e \in EdgesOf(l)
      PROVE  e \in AllEdges(ns) <=> {e[1], e[2]} \subseteq ns
  BY EdgeEnds DEF AllEdges
<1>3. ASSUME Closed(ns), NEW l \in Link, NEW e \in EdgesOf(l) PROVE e \in AllEdges(ns) <=> l \in ns
  <2>1. {e[1], e[2]} = {From[l], l} \/ {e[1], e[2]} = {l, To[l]}
    BY <1>3 DEF EdgesOf
  <2> QED BY <1>2, <1>3, <2>1 DEF Closed
<1> QED BY <1>1, <1>2, <1>3

\* An icon that comes has no edges yet, and one that no link needs goes without any.
LEMMA IconComes ==
    ASSUME NEW ns, Closed(ns), NEW n \in Icon
    PROVE  Closed(ns \cup {n}) /\ AllEdges(ns \cup {n}) = AllEdges(ns)
<1>1. Closed(ns \cup {n})
  BY EdgeEnds DEF Closed, Node
<1>2. ASSUME NEW e \in Edge PROVE e \in AllEdges(ns \cup {n}) <=> e \in AllEdges(ns)
  <2>1. PICK l \in Link : e \in EdgesOf(l)
    BY EdgeEnds
  <2>2. l # n
    BY EdgeEnds
  <2> QED BY <1>1, <2>1, <2>2, AllEdgesAre
<1> QED BY <1>1, <1>2, AllEdgesAre

LEMMA LinkComes ==
    ASSUME NEW ns, Closed(ns), NEW l \in Link, {From[l], To[l]} \subseteq ns
    PROVE  Closed(ns \cup {l}) /\ AllEdges(ns \cup {l}) = AllEdges(ns) \cup EdgesOf(l)
<1>1. Closed(ns \cup {l})
  BY DEF Closed, Node
<1>2. ASSUME NEW e \in Edge PROVE e \in AllEdges(ns \cup {l}) <=> e \in AllEdges(ns) \cup EdgesOf(l)
  <2>1. PICK m \in Link : e \in EdgesOf(m)
    BY EdgeEnds
  <2>2. e \in EdgesOf(l) <=> m = l
    BY <2>1, OneLink
  <2> QED BY <1>1, <2>1, <2>2, AllEdgesAre
<1>3. EdgesOf(l) \subseteq Edge
  BY EdgeEnds
<1> QED BY <1>1, <1>2, <1>3, AllEdgesAre

LEMMA LinkGoes ==
    ASSUME NEW ns, Closed(ns), NEW l \in Link
    PROVE  Closed(ns \ {l}) /\ AllEdges(ns \ {l}) = AllEdges(ns) \ EdgesOf(l)
<1>1. Closed(ns \ {l})
  BY EdgeEnds DEF Closed
<1>2. ASSUME NEW e \in Edge PROVE e \in AllEdges(ns \ {l}) <=> e \in AllEdges(ns) \ EdgesOf(l)
  <2>1. PICK m \in Link : e \in EdgesOf(m)
    BY EdgeEnds
  <2>2. e \in EdgesOf(l) <=> m = l
    BY <2>1, OneLink
  <2> QED BY <1>1, <2>1, <2>2, AllEdgesAre
<1> QED BY <1>1, <1>2, AllEdgesAre

LEMMA IconGoes ==
    ASSUME NEW ns, Closed(ns), NEW n \in Icon, \A l \in ns \cap Link : n \notin {From[l], To[l]}
    PROVE  /\ Closed(ns \ {n}) /\ AllEdges(ns \ {n}) = AllEdges(ns)
           /\ \A e \in AllEdges(ns) : e[1] # n /\ e[2] # n
<1>1. Closed(ns \ {n})
  BY DEF Closed
<1>2. ASSUME NEW e \in Edge PROVE e \in AllEdges(ns \ {n}) <=> e \in AllEdges(ns)
  <2>1. PICK l \in Link : e \in EdgesOf(l)
    BY EdgeEnds
  <2>2. l # n
    BY EdgeEnds
  <2> QED BY <1>1, <2>1, <2>2, AllEdgesAre
<1>3. ASSUME NEW e \in AllEdges(ns) PROVE e[1] # n /\ e[2] # n
  <2>1. PICK l \in Link : e \in EdgesOf(l)
    BY EdgeEnds, AllEdgesAre
  <2>2. l # n /\ l \in ns
    BY <2>1, EdgeEnds, AllEdgesAre
  <2>3. {e[1], e[2]} = {From[l], l} \/ {e[1], e[2]} = {l, To[l]}
    BY <2>1 DEF EdgesOf
  <2> QED BY <2>2, <2>3
<1> QED BY <1>1, <1>2, <1>3, AllEdgesAre

-----------------------------------------------------------------------------
(* Views.                                                                  *)

ViewType == [icons : SUBSET Node, edges : SUBSET Edge, selection : SUBSET Item,
             ghost : BOOLEAN, controls : BOOLEAN, timer : Timer,
             state : States, failed : BOOLEAN]

\* SelectionShown, of a view
Overlaid(v) == v.ghost \/ v.controls => v.selection # {}
GoodView(v) ==
  /\ v.selection \subseteq v.icons \cup v.edges
  /\ Complete(v.selection, v.edges) = v.selection
  /\ Overlaid(v)

\* The rectangle and its overlays go together.
LEMMA DeselectedIs ==
    ASSUME NEW v \in ViewType, Overlaid(v)
    PROVE  \E t \in Timer :
             Deselected(v) = [icons |-> v.icons, edges |-> v.edges, selection |-> {}, ghost |-> FALSE,
                              controls |-> FALSE, timer |-> t, state |-> v.state, failed |-> v.failed]
<1> DEFINE t == [v.timer EXCEPT !.same = FALSE]
<1>1. t \in Timer
  <2>1. v.timer \in Timer
    BY DEF ViewType
  <2> QED BY <2>1 DEF Timer
<1>2. /\ v.ghost \in BOOLEAN /\ v.controls \in BOOLEAN
      /\ (IF v.selection = {} THEN v.ghost ELSE FALSE) = FALSE
      /\ (IF v.selection = {} THEN v.controls ELSE FALSE) = FALSE
  BY DEF Overlaid, ViewType
<1>3. Deselected(v) = [v EXCEPT !.selection = {}, !.ghost = FALSE, !.controls = FALSE, !.timer = t]
  BY <1>2 DEF Deselected, ViewType
<1> HIDE DEF t
<1>4. Deselected(v) = [icons |-> v.icons, edges |-> v.edges, selection |-> {}, ghost |-> FALSE,
                       controls |-> FALSE, timer |-> t, state |-> v.state, failed |-> v.failed]
  BY <1>3 DEF ViewType
<1> QED BY <1>1, <1>4

\* Whatever is to be selected: all of it, but for broken connections, or nothing.
LEMMA SelectItemsIs ==
    ASSUME NEW v \in ViewType, Overlaid(v), NEW items \in SUBSET Item
    PROVE  LET w == SelectItems(v, items)
               picked == Complete(items, v.edges)
           IN  /\ w \in ViewType /\ GoodView(w)
               /\ w.icons = v.icons /\ w.edges = v.edges /\ w.state = v.state
               /\ IF picked \subseteq v.icons \cup v.edges
                  THEN w.selection = picked /\ w.failed = v.failed
                  ELSE w.selection = {} /\ w.failed
<1> DEFINE picked == Complete(items, v.edges)
           w == SelectItems(v, items)
<1>1. PICK t \in Timer :
        Deselected(v) = [icons |-> v.icons, edges |-> v.edges, selection |-> {}, ghost |-> FALSE,
                         controls |-> FALSE, timer |-> t, state |-> v.state, failed |-> v.failed]
  BY DeselectedIs
<1>0. PICK d : d = Deselected(v)
  OBVIOUS
<1>2. /\ v.icons \subseteq Node /\ v.edges \in SUBSET Edge /\ v.state \in States /\ v.failed \in BOOLEAN
  BY DEF ViewType
<1>3. picked \subseteq Item /\ Complete(picked, v.edges) = picked
  <2>1. picked \subseteq items
    BY DEF Complete
  <2> QED BY <1>2, <2>1, CompleteTwice
<1>4. Complete({}, v.edges) = {}
  BY DEF Complete
<1> HIDE DEF picked
<1>5. CASE picked \subseteq v.icons \cup v.edges
  <2>1. w = [icons |-> v.icons, edges |-> v.edges, selection |-> picked, ghost |-> FALSE,
             controls |-> FALSE, timer |-> t, state |-> v.state, failed |-> v.failed]
    <3>1. w = [d EXCEPT !.selection = picked]
      BY <1>5, <1>0 DEF SelectItems, picked
    <3>2. d = [icons |-> v.icons, edges |-> v.edges, selection |-> {}, ghost |-> FALSE,
               controls |-> FALSE, timer |-> t, state |-> v.state, failed |-> v.failed]
      BY <1>1, <1>0
    <3> HIDE DEF w
    <3> QED BY <3>1, <3>2
  <2> HIDE DEF w
  <2>2. w \in ViewType
    BY <1>2, <1>3, <2>1 DEF ViewType
  <2>3. GoodView(w)
    BY <1>3, <1>5, <2>1 DEF GoodView, Overlaid
  <2> QED BY <1>5, <2>1, <2>2, <2>3 DEF w, picked
<1>6. CASE ~(picked \subseteq v.icons \cup v.edges)
  <2>1. w = [icons |-> v.icons, edges |-> v.edges, selection |-> {}, ghost |-> FALSE,
             controls |-> FALSE, timer |-> t, state |-> v.state, failed |-> TRUE]
    <3>1. w = [d EXCEPT !.failed = TRUE]
      BY <1>6, <1>0 DEF SelectItems, picked
    <3>2. d = [icons |-> v.icons, edges |-> v.edges, selection |-> {}, ghost |-> FALSE,
               controls |-> FALSE, timer |-> t, state |-> v.state, failed |-> v.failed]
      BY <1>1, <1>0
    <3> HIDE DEF w
    <3> QED BY <3>1, <3>2
  <2> HIDE DEF w
  <2>2. w \in ViewType
    BY <1>2, <2>1 DEF ViewType
  <2>3. GoodView(w)
    BY <1>4, <2>1 DEF GoodView, Overlaid
  <2> QED BY <1>6, <2>1, <2>2, <2>3 DEF w, picked
<1> QED BY <1>5, <1>6

\* What stays selected when items leave the canvas that are not selected.
LEMMA SameSelection ==
    ASSUME NEW v \in ViewType, GoodView(v), NEW w \in ViewType,
           w.edges \subseteq v.edges, w.selection = v.selection, w.ghost = v.ghost, w.controls = v.controls,
           v.selection \subseteq w.icons \cup w.edges, ~w.failed
    PROVE  LET u == SelectItems(w, w.selection)
           IN  /\ GoodView(w) /\ u \in ViewType /\ GoodView(u)
               /\ u.icons = w.icons /\ u.edges = w.edges /\ u.selection = v.selection /\ ~u.failed
<1>1. Overlaid(w)
  BY DEF GoodView, Overlaid
<1>2. w.selection \in SUBSET Item /\ v.edges \in SUBSET Edge
  BY DEF ViewType
<1>3. Complete(w.selection, w.edges) = v.selection
  BY <1>2, CompleteStays DEF GoodView
<1> QED BY <1>1, <1>2, <1>3, SelectItemsIs DEF GoodView

-----------------------------------------------------------------------------
(* Steps of a changelog.                                                   *)

RmEdge(e)   == [op |-> "RMEDGE", edge |-> e]
MkNode(n)   == [op |-> "MKNODE", id |-> n]
Segments(l) == [op |-> "$segments", id |-> l]
RmNode(n)   == [op |-> "RMNODE", id |-> n]
ChAttr(n)   == [op |-> "CHATTR", id |-> n]
Resetm(ns)  == [op |-> "RESETM", nodes |-> ns]

Step ==
  { RmEdge(e) : e \in Edge } \cup { MkNode(n) : n \in Node } \cup { Segments(n) : n \in Node }
  \cup { RmNode(n) : n \in Node } \cup { ChAttr(n) : n \in Node } \cup { Resetm(ns) : ns \in SUBSET Node }

\* What a step does to a view that has not failed.
LEMMA StepIs ==
    ASSUME NEW v, ~v.failed
    PROVE  /\ \A e : ApplyStep(v, RmEdge(e)) = ApplyRMEDGE(v, e)
           /\ \A n : ApplyStep(v, MkNode(n)) = ApplyMKNODE(v, n)
           /\ \A l : ApplyStep(v, Segments(l)) = ApplySegments(v, l)
           /\ \A n : ApplyStep(v, RmNode(n)) = ApplyRMNODE(v, n)
           /\ \A n : ApplyStep(v, ChAttr(n)) = ApplyCHATTR(v, n)
           /\ \A ns : ApplyStep(v, Resetm(ns)) = ApplyRESETM(v, ns)
<1>1. ASSUME NEW e PROVE ApplyStep(v, RmEdge(e)) = ApplyRMEDGE(v, e)
  <2>1. PICK s : s = RmEdge(e)
    OBVIOUS
  <2>2. s.op = "RMEDGE" /\ s.edge = e
    BY <2>1 DEF RmEdge
  <2> QED BY <2>1, <2>2 DEF ApplyStep
<1>2. ASSUME NEW n PROVE ApplyStep(v, MkNode(n)) = ApplyMKNODE(v, n)
  <2>1. PICK s : s = MkNode(n)
    OBVIOUS
  <2>2. s.op = "MKNODE" /\ s.id = n
    BY <2>1 DEF MkNode
  <2> QED BY <2>1, <2>2 DEF ApplyStep
<1>3. ASSUME NEW l PROVE ApplyStep(v, Segments(l)) = ApplySegments(v, l)
  <2>1. PICK s : s = Segments(l)
    OBVIOUS
  <2>2. s.op = "$segments" /\ s.id = l
    BY <2>1 DEF Segments
  <2> QED BY <2>1, <2>2 DEF ApplyStep
<1>4. ASSUME NEW n PROVE ApplyStep(v, RmNode(n)) = ApplyRMNODE(v, n)
  <2>1. PICK s : s = RmNode(n)
    OBVIOUS
  <2>2. s.op = "RMNODE" /\ s.id = n
    BY <2>1 DEF RmNode
  <2> QED BY <2>1, <2>2 DEF ApplyStep
<1>5. ASSUME NEW n PROVE ApplyStep(v, ChAttr(n)) = ApplyCHATTR(v, n)
  <2>1. PICK s : s = ChAttr(n)
    OBVIOUS
  <2>2. s.op = "CHATTR" /\ s.id = n
    BY <2>1 DEF ChAttr
  <2> QED BY <2>1, <2>2 DEF ApplyStep
<1>6. ASSUME NEW ns PROVE ApplyStep(v, Resetm(ns)) = ApplyRESETM(v, ns)
  <2>1. PICK s : s = Resetm(ns)
    OBVIOUS
  <2>2. s.op = "RESETM" /\ s.nodes = ns
    BY <2>1 DEF Resetm
  <2> QED BY <2>1, <2>2 DEF ApplyStep
<1> QED BY <1>1, <1>2, <1>3, <1>4, <1>5, <1>6

\* Changes of one field.
LEMMA ViewsChanged ==
    ASSUME NEW v \in ViewType
    PROVE  /\ \A ns \in SUBSET Node : [v EXCEPT !.icons = ns] \in ViewType
           /\ \A es \in SUBSET Edge : [v EXCEPT !.edges = es] \in ViewType
           /\ \A ns \in SUBSET Node, es \in SUBSET Edge : [v EXCEPT !.icons = ns, !.edges = es] \in ViewType
           /\ \A t \in Timer : [v EXCEPT !.timer = t] \in ViewType
           /\ [v EXCEPT !.failed = TRUE] \in ViewType
           /\ DOMAIN v = {"icons", "edges", "selection", "ghost", "controls", "timer", "state", "failed"}
           /\ v.icons \in SUBSET Node /\ v.edges \in SUBSET Edge /\ v.selection \in SUBSET Item
           /\ v.timer \in Timer /\ v.failed \in BOOLEAN /\ v.state \in States
<1>1. /\ \A ns \in SUBSET Node : [v EXCEPT !.icons = ns] \in ViewType
      /\ \A es \in SUBSET Edge : [v EXCEPT !.edges = es] \in ViewType
      /\ \A ns \in SUBSET Node, es \in SUBSET Edge : [v EXCEPT !.icons = ns, !.edges = es] \in ViewType
  BY DEF ViewType
<1>2. \A t \in Timer : [v EXCEPT !.timer = t] \in ViewType
  BY DEF ViewType
<1>3. [v EXCEPT !.failed = TRUE] \in ViewType
  BY DEF ViewType
<1> QED BY <1>1, <1>2, <1>3 DEF ViewType

\* The removal of an edge fails when it is selected, and else keeps the selection.
LEMMA RmEdgeIs ==
    ASSUME NEW v \in ViewType, GoodView(v), ~v.failed, NEW e \in v.edges
    PROVE  LET u == ApplyStep(v, RmEdge(e))
           IN  /\ u \in ViewType /\ GoodView(u)
               /\ IF e \in v.selection THEN u.failed
                  ELSE /\ ~u.failed /\ u.icons = v.icons /\ u.edges = v.edges \ {e}
                       /\ u.selection = v.selection
<1>1. PICK w : w = [v EXCEPT !.edges = @ \ {e}]
  OBVIOUS
<1>2. /\ w \in ViewType /\ w.icons = v.icons /\ w.edges = v.edges \ {e} /\ w.selection = v.selection
      /\ w.ghost = v.ghost /\ w.controls = v.controls /\ w.failed = v.failed
  <2>1. w = [v EXCEPT !.edges = v.edges \ {e}] /\ v.edges \ {e} \in SUBSET Edge
    BY <1>1, ViewsChanged
  <2> QED BY <2>1, ViewsChanged
<1>3. PICK u : u = ApplyStep(v, RmEdge(e))
  OBVIOUS
<1>4. u = IF v.selection = {} THEN w ELSE SelectItems(w, v.selection)
  <2>1. u = ApplyRMEDGE(v, e)
    BY <1>3, StepIs
  <2> QED BY <1>1, <2>1 DEF ApplyRMEDGE
<1>5. CASE e \in v.selection
  <2>1. w.selection \in SUBSET Item /\ Overlaid(w)
    BY <1>2, ViewsChanged DEF GoodView, Overlaid
  <2>2. e \in Complete(w.selection, w.edges)
    <3>1. e \in Edge /\ \A l \in Link : e # l
      BY ViewsChanged, EdgeEnds DEF Node
    <3>2. \A l \in Link : e \notin Connection(l, w.edges)
      BY <1>2, <3>1 DEF Connection, EdgesAt
    <3> QED BY <1>2, <1>5, <3>2 DEF Complete
  <2>3. e \notin w.icons \cup w.edges
    BY <1>2, ViewsChanged, EdgeEnds
  <2>4. u = SelectItems(w, w.selection)
    BY <1>2, <1>4, <1>5
  <2>5. ~(Complete(w.selection, w.edges) \subseteq w.icons \cup w.edges)
    BY <2>2, <2>3
  <2>6. u \in ViewType /\ GoodView(u) /\ u.failed
    BY <1>2, <2>1, <2>4, <2>5, SelectItemsIs
  <2> QED BY <1>3, <1>5, <2>6
<1>6. CASE e \notin v.selection
  <2>1. v.selection \subseteq w.icons \cup w.edges /\ w.edges \subseteq v.edges
    BY <1>2, <1>6 DEF GoodView
  <2>2. PICK x : x = SelectItems(w, w.selection)
    OBVIOUS
  <2>3. /\ GoodView(w) /\ x \in ViewType /\ GoodView(x) /\ ~x.failed
        /\ x.icons = w.icons /\ x.edges = w.edges /\ x.selection = v.selection
    BY <1>2, <2>1, <2>2, SameSelection
  <2>4. u = w \/ u = x
    BY <1>2, <1>4, <2>2
  <2> QED BY <1>2, <1>3, <1>6, <2>3, <2>4
<1> QED BY <1>5, <1>6

\* A node without edges leaves the canvas and the selection.
LEMMA RmNodeIs ==
    ASSUME NEW v \in ViewType, GoodView(v), ~v.failed, NEW n \in v.icons, EdgesAt(n, v.edges) = {}
    PROVE  LET u == ApplyStep(v, RmNode(n))
           IN  /\ u \in ViewType /\ GoodView(u) /\ ~u.failed
               /\ u.icons = v.icons \ {n} /\ u.edges = v.edges /\ u.selection = v.selection \ {n}
<1>1. PICK w : w = [v EXCEPT !.icons = @ \ {n}, !.edges = @ \ EdgesAt(n, v.edges)]
  OBVIOUS
<1>2. /\ w \in ViewType /\ w.icons = v.icons \ {n} /\ w.edges = v.edges /\ w.selection = v.selection
      /\ w.ghost = v.ghost /\ w.controls = v.controls /\ w.failed = v.failed
  <2>1. /\ w = [v EXCEPT !.icons = v.icons \ {n}, !.edges = v.edges]
        /\ v.icons \ {n} \in SUBSET Node /\ v.edges \in SUBSET Edge
    BY <1>1, ViewsChanged
  <2>2. w \in ViewType
    BY <2>1, ViewsChanged
  <2>3. /\ w.icons = v.icons \ {n} /\ w.edges = v.edges /\ w.selection = v.selection
        /\ w.ghost = v.ghost /\ w.controls = v.controls /\ w.failed = v.failed
    <3>1. DOMAIN v = {"icons", "edges", "selection", "ghost", "controls", "timer", "state", "failed"}
      BY ViewsChanged
    <3> QED BY <2>1, <3>1
  <2> QED BY <2>2, <2>3
<1>3. PICK x : x = IF w.timer.same THEN [w EXCEPT !.timer.items = @ \ {n}] ELSE w
  OBVIOUS
<1>4. /\ x \in ViewType /\ x.icons = w.icons /\ x.edges = w.edges /\ x.selection = w.selection
      /\ x.ghost = w.ghost /\ x.controls = w.controls /\ x.failed = w.failed
  <2>1. PICK t : t = [w.timer EXCEPT !.items = @ \ {n}]
    OBVIOUS
  <2>2. t \in Timer
    <3>1. PICK z \in Timer : z = w.timer
      BY <1>2, ViewsChanged
    <3>2. t = [z EXCEPT !.items = z.items \ {n}]
      BY <2>1, <3>1
    <3> QED BY <3>2 DEF Timer
  <2>3. x = w \/ x = [w EXCEPT !.timer = t]
    BY <1>2, <1>3, <2>1, ViewsChanged
  <2> QED BY <1>2, <2>2, <2>3, ViewsChanged
<1>5. PICK u : u = ApplyStep(v, RmNode(n))
  OBVIOUS
<1>6. u = IF v.selection = {} THEN w ELSE SelectItems(x, v.selection \ {n})
  <2>1. u = ApplyRMNODE(v, n)
    BY <1>5, StepIs
  <2>2. u = Forget(w, n)
    BY <1>1, <2>1 DEF ApplyRMNODE
  <2> QED BY <1>2, <1>3, <2>2 DEF Forget
<1>7. n \in Node /\ \A e \in v.edges : e # n
  BY ViewsChanged, EdgeEnds
<1>8. Complete(v.selection \ {n}, v.edges) = v.selection \ {n}
  <2>1. ASSUME NEW i \in v.selection \ {n}, NEW l \in Link, i \in Connection(l, v.edges)
        PROVE  Connection(l, v.edges) \subseteq v.selection \ {n}
    <3>1. Connection(l, v.edges) \subseteq v.selection
      BY <2>1 DEF GoodView, Complete
    <3>2. n \notin Connection(l, v.edges)
      <4>1. n = l => Connection(l, v.edges) = {n}
        BY DEF Connection
      <4>2. n \notin EdgesAt(l, v.edges)
        BY <1>7 DEF EdgesAt
      <4> QED BY <2>1, <4>1, <4>2 DEF Connection
    <3> QED BY <3>1, <3>2
  <2> QED BY <2>1 DEF Complete
<1>9. CASE v.selection = {}
  <2>1. u = w /\ v.selection \ {n} = {}
    BY <1>6, <1>9
  <2>2. GoodView(w)
    BY <1>2, <1>9 DEF GoodView, Overlaid
  <2> QED BY <1>2, <1>5, <1>9, <2>1, <2>2
<1>10. CASE v.selection # {}
  <2>1. Overlaid(x) /\ v.selection \ {n} \in SUBSET Item
    BY <1>2, <1>4, ViewsChanged DEF GoodView, Overlaid
  <2>2. v.selection \ {n} \subseteq x.icons \cup x.edges
    BY <1>2, <1>4 DEF GoodView
  <2>3. Complete(v.selection \ {n}, x.edges) = v.selection \ {n}
    BY <1>2, <1>4, <1>8
  <2>4. u = SelectItems(x, v.selection \ {n})
    BY <1>6, <1>10
  <2>5. /\ u \in ViewType /\ GoodView(u) /\ u.icons = x.icons /\ u.edges = x.edges
        /\ u.selection = v.selection \ {n} /\ u.failed = x.failed
    BY <1>4, <2>1, <2>2, <2>3, <2>4, SelectItemsIs
  <2> QED BY <1>2, <1>4, <1>5, <2>5
<1> QED BY <1>9, <1>10

\* A node comes, a link gets its edges, an icon changes, a new model is loaded: the
\* selection stays what it is, or goes as a whole.
LEMMA MkNodeIs ==
    ASSUME NEW v \in ViewType, GoodView(v), ~v.failed, NEW n \in Node
    PROVE  LET u == ApplyStep(v, MkNode(n))
           IN  /\ u \in ViewType /\ GoodView(u) /\ ~u.failed
               /\ u.icons = v.icons \cup {n} /\ u.edges = v.edges /\ u.selection = v.selection
<1>1. PICK u : u = ApplyStep(v, MkNode(n))
  OBVIOUS
<1>2. u = [v EXCEPT !.icons = v.icons \cup {n}] /\ v.icons \cup {n} \in SUBSET Node
  <2>1. u = ApplyMKNODE(v, n)
    BY <1>1, StepIs
  <2> QED BY <2>1, ViewsChanged DEF ApplyMKNODE
<1>3. u \in ViewType
  BY <1>2, ViewsChanged
<1>4. /\ u.icons = v.icons \cup {n} /\ u.edges = v.edges /\ u.selection = v.selection
      /\ u.ghost = v.ghost /\ u.controls = v.controls /\ u.failed = v.failed
  <2>1. DOMAIN v = {"icons", "edges", "selection", "ghost", "controls", "timer", "state", "failed"}
    BY ViewsChanged
  <2> QED BY <1>2, <2>1
<1>5. GoodView(u)
  BY <1>4 DEF GoodView, Overlaid
<1> QED BY <1>1, <1>3, <1>4, <1>5

LEMMA SegmentsIs ==
    ASSUME NEW v \in ViewType, GoodView(v), ~v.failed, NEW l \in Link,
           l \in v.icons, From[l] \in v.icons, To[l] \in v.icons, l \notin v.selection, \A e \in EdgesOf(l) : e \notin v.edges
    PROVE  LET u == ApplyStep(v, Segments(l))
           IN  /\ u \in ViewType /\ GoodView(u) /\ ~u.failed
               /\ u.icons = v.icons /\ u.edges = v.edges \cup EdgesOf(l) /\ u.selection = v.selection
<1>1. PICK u : u = ApplyStep(v, Segments(l))
  OBVIOUS
<1>2. PICK es \in SUBSET Edge : es = v.edges \cup EdgesOf(l)
  BY ViewsChanged, EdgeEnds
<1>3. { e \in EdgesAt(l, Edge) : {e[1], e[2]} \subseteq v.icons } = EdgesOf(l)
  <2>1. EdgesAt(l, Edge) = EdgesOf(l)
    <3>1. EdgesOf(l) \subseteq Edge /\ \A e \in Edge : (e[1] = l \/ e[2] = l) <=> e \in EdgesOf(l)
      BY EdgeEnds, EdgesAtLink
    <3> QED BY <3>1 DEF EdgesAt
  <2>2. \A e \in EdgesOf(l) : {e[1], e[2]} = {From[l], l} \/ {e[1], e[2]} = {l, To[l]}
    BY DEF EdgesOf
  <2> QED BY <2>1, <2>2
<1>4. u = [v EXCEPT !.edges = es]
  <2>1. u = ApplySegments(v, l)
    BY <1>1, StepIs
  <2> QED BY <1>2, <1>3, <2>1 DEF ApplySegments
<1>5. u \in ViewType
  BY <1>4, ViewsChanged
<1>6. /\ u.icons = v.icons /\ u.edges = es /\ u.selection = v.selection
      /\ u.ghost = v.ghost /\ u.controls = v.controls /\ u.failed = v.failed
  <2>1. DOMAIN v = {"icons", "edges", "selection", "ghost", "controls", "timer", "state", "failed"}
    BY ViewsChanged
  <2> QED BY <1>4, <2>1
<1>7. Complete(v.selection, es) = v.selection
  <2>1. ASSUME NEW i \in v.selection, NEW m \in Link, i \in Connection(m, es)
        PROVE  Connection(m, es) = Connection(m, v.edges)
    <3>1. m # l
      <4>1. v.edges \in SUBSET Edge /\ EdgesAt(l, es) = es \cap EdgesOf(l)
        BY ViewsChanged, EdgesAtLink
      <4>2. i # l /\ i \in v.icons \cup v.edges /\ \A e \in EdgesOf(l) : e \notin v.icons
        BY ViewsChanged, EdgeEnds DEF GoodView
      <4> QED BY <1>2, <2>1, <4>1, <4>2 DEF Connection
    <3>2. EdgesAt(m, es) = es \cap EdgesOf(m) /\ EdgesAt(m, v.edges) = v.edges \cap EdgesOf(m)
      BY ViewsChanged, EdgesAtLink
    <3>3. EdgesOf(l) \cap EdgesOf(m) = {}
      BY <3>1, OneLink
    <3> QED BY <1>2, <3>2, <3>3 DEF Connection
  <2>2. \A i \in v.selection, m \in Link : i \in Connection(m, v.edges) => Connection(m, v.edges) \subseteq v.selection
    BY DEF GoodView, Complete
  <2> QED BY <2>1, <2>2 DEF Complete
<1>8. GoodView(u)
  BY <1>2, <1>6, <1>7 DEF GoodView, Overlaid
<1> QED BY <1>1, <1>2, <1>5, <1>6, <1>8

LEMMA ChAttrIs ==
    ASSUME NEW v \in ViewType, GoodView(v), ~v.failed, NEW n \in v.icons
    PROVE  LET u == ApplyStep(v, ChAttr(n))
           IN  /\ u \in ViewType /\ GoodView(u) /\ ~u.failed
               /\ u.icons = v.icons /\ u.edges = v.edges /\ u.selection = v.selection
<1>1. PICK u : u = ApplyStep(v, ChAttr(n))
  OBVIOUS
<1>2. PICK t \in Timer : t = [on |-> TRUE, items |-> v.selection, same |-> TRUE]
  BY ViewsChanged DEF Timer
<1>3. u = v \/ u = [v EXCEPT !.timer = t]
  <2>1. u = ApplyCHATTR(v, n)
    BY <1>1, StepIs
  <2> QED BY <1>2, <2>1 DEF ApplyCHATTR
<1>4. u \in ViewType
  BY <1>3, ViewsChanged
<1>5. /\ u.icons = v.icons /\ u.edges = v.edges /\ u.selection = v.selection
      /\ u.ghost = v.ghost /\ u.controls = v.controls /\ u.failed = v.failed
  <2>1. DOMAIN v = {"icons", "edges", "selection", "ghost", "controls", "timer", "state", "failed"}
    BY ViewsChanged
  <2> QED BY <1>3, <2>1
<1>6. GoodView(u)
  BY <1>5 DEF GoodView, Overlaid
<1> QED BY <1>1, <1>4, <1>5, <1>6

LEMMA ResetmIs ==
    ASSUME NEW v \in ViewType, Overlaid(v), ~v.failed, NEW ns \in SUBSET Node
    PROVE  LET u == ApplyStep(v, Resetm(ns))
           IN  /\ u \in ViewType /\ GoodView(u) /\ ~u.failed
               /\ u.icons = ns /\ u.edges = AllEdges(ns) /\ u.selection = {}
<1>1. PICK u : u = ApplyStep(v, Resetm(ns))
  OBVIOUS
<1>2. PICK d : d = Deselected(v)
  OBVIOUS
<1>3. PICK t \in Timer :
        d = [icons |-> v.icons, edges |-> v.edges, selection |-> {}, ghost |-> FALSE,
             controls |-> FALSE, timer |-> t, state |-> v.state, failed |-> v.failed]
  BY <1>2, DeselectedIs
<1>4. u = [d EXCEPT !.icons = ns, !.edges = AllEdges(ns), !.state = "idle"]
  <2>1. u = ApplyRESETM(v, ns)
    BY <1>1, StepIs
  <2> QED BY <1>2, <2>1 DEF ApplyRESETM
<1>5. u = [icons |-> ns, edges |-> AllEdges(ns), selection |-> {}, ghost |-> FALSE,
           controls |-> FALSE, timer |-> t, state |-> "idle", failed |-> v.failed]
  BY <1>3, <1>4
<1>6. AllEdges(ns) \in SUBSET Edge /\ Complete({}, AllEdges(ns)) = {} /\ v.failed \in BOOLEAN
  BY AllEdgesAre, ViewsChanged DEF Complete
<1>7. u \in ViewType
  BY <1>5, <1>6 DEF ViewType, States
<1>8. GoodView(u)
  BY <1>5, <1>6 DEF GoodView, Overlaid
<1> QED BY <1>1, <1>5, <1>7, <1>8

\* Any step on any view leaves a view, and overlays only with a selection.
LEMMA StepKeeps ==
    ASSUME NEW v \in ViewType, Overlaid(v), NEW s \in Step
    PROVE  ApplyStep(v, s) \in ViewType /\ Overlaid(ApplyStep(v, s))
<1>1. CASE v.failed
  BY <1>1 DEF ApplyStep
<1>2. PICK u : u = ApplyStep(v, s)
  OBVIOUS
<1>3. SUFFICES ASSUME ~v.failed PROVE u \in ViewType /\ Overlaid(u)
  BY <1>1, <1>2
<1>4. /\ DOMAIN v = {"icons", "edges", "selection", "ghost", "controls", "timer", "state", "failed"}
      /\ v.icons \in SUBSET Node /\ v.edges \in SUBSET Edge /\ v.selection \in SUBSET Item
      /\ v.timer \in Timer
  BY ViewsChanged
<1>5. PICK f : f = [v EXCEPT !.failed = TRUE]
  OBVIOUS
<1>6. f \in ViewType /\ Overlaid(f)
  <2>1. f.ghost = v.ghost /\ f.controls = v.controls /\ f.selection = v.selection
    BY <1>4, <1>5
  <2> QED BY <1>5, <2>1, ViewsChanged DEF Overlaid
<1>7. ASSUME NEW e \in Edge, s = RmEdge(e) PROVE u \in ViewType /\ Overlaid(u)
  <2>1. u = ApplyRMEDGE(v, e)
    BY <1>2, <1>3, <1>7, StepIs
  <2>2. PICK w : w = [v EXCEPT !.edges = v.edges \ {e}]
    OBVIOUS
  <2>3. w \in ViewType /\ Overlaid(w)
    <3>1. w.ghost = v.ghost /\ w.controls = v.controls /\ w.selection = v.selection
      BY <1>4, <2>2
    <3> QED BY <1>4, <2>2, <3>1, ViewsChanged DEF Overlaid
  <2>4. PICK x : x = SelectItems(w, v.selection)
    OBVIOUS
  <2>5. x \in ViewType /\ Overlaid(x)
    BY <1>4, <2>3, <2>4, SelectItemsIs DEF GoodView
  <2>6. u = f \/ u = w \/ u = x
    BY <1>5, <2>1, <2>2, <2>4 DEF ApplyRMEDGE
  <2> QED BY <1>6, <2>3, <2>5, <2>6
<1>8. ASSUME NEW n \in Node, s = MkNode(n) PROVE u \in ViewType /\ Overlaid(u)
  <2>1. u = [v EXCEPT !.icons = v.icons \cup {n}] /\ v.icons \cup {n} \in SUBSET Node
    <3>1. u = ApplyMKNODE(v, n)
      BY <1>2, <1>3, <1>8, StepIs
    <3> QED BY <1>4, <3>1 DEF ApplyMKNODE
  <2>2. u.ghost = v.ghost /\ u.controls = v.controls /\ u.selection = v.selection
    BY <1>4, <2>1
  <2> QED BY <2>1, <2>2, ViewsChanged DEF Overlaid
<1>9. ASSUME NEW n \in Node, s = Segments(n) PROVE u \in ViewType /\ Overlaid(u)
  <2>1. u = ApplySegments(v, n)
    BY <1>2, <1>3, <1>9, StepIs
  <2>2. PICK es \in SUBSET Edge : es = v.edges \cup {e \in EdgesAt(n, Edge) : {e[1], e[2]} \subseteq v.icons}
    BY <1>4 DEF EdgesAt
  <2>3. PICK w : w = [v EXCEPT !.edges = es]
    OBVIOUS
  <2>4. w \in ViewType /\ Overlaid(w)
    <3>1. w.ghost = v.ghost /\ w.controls = v.controls /\ w.selection = v.selection
      BY <1>4, <2>3
    <3> QED BY <2>3, <3>1, ViewsChanged DEF Overlaid
  <2>5. u = f \/ u = w
    BY <1>5, <2>1, <2>2, <2>3 DEF ApplySegments
  <2> QED BY <1>6, <2>4, <2>5
<1>10. ASSUME NEW n \in Node, s = RmNode(n) PROVE u \in ViewType /\ Overlaid(u)
  <2>1. u = ApplyRMNODE(v, n)
    BY <1>2, <1>3, <1>10, StepIs
  <2>2. PICK ns \in SUBSET Node, es \in SUBSET Edge : ns = v.icons \ {n} /\ es = v.edges \ EdgesAt(n, v.edges)
    BY <1>4
  <2>3. PICK w : w = [v EXCEPT !.icons = ns, !.edges = es]
    OBVIOUS
  <2>4. w \in ViewType /\ Overlaid(w) /\ w.selection = v.selection /\ w.timer = v.timer
    <3>1. w.ghost = v.ghost /\ w.controls = v.controls /\ w.selection = v.selection /\ w.timer = v.timer
      BY <1>4, <2>3
    <3> QED BY <2>3, <3>1, ViewsChanged DEF Overlaid
  <2>5. PICK x : x = IF w.timer.same THEN [w EXCEPT !.timer.items = @ \ {n}] ELSE w
    OBVIOUS
  <2>6. x \in ViewType /\ Overlaid(x)
    <3>1. PICK z \in Timer : z = w.timer
      BY <1>4, <2>4
    <3>2. PICK t : t = [z EXCEPT !.items = z.items \ {n}]
      OBVIOUS
    <3>3. t \in Timer
      BY <3>2 DEF Timer
    <3>4. x = w \/ x = [w EXCEPT !.timer = t]
      BY <2>4, <2>5, <3>1, <3>2, ViewsChanged
    <3>5. x.ghost = w.ghost /\ x.controls = w.controls /\ x.selection = w.selection
      BY <2>4, <3>4, ViewsChanged
    <3> QED BY <2>4, <3>3, <3>4, <3>5, ViewsChanged DEF Overlaid
  <2>7. PICK y : y = SelectItems(x, v.selection \ {n})
    OBVIOUS
  <2>8. y \in ViewType /\ Overlaid(y)
    <3>1. v.selection \ {n} \in SUBSET Item
      BY <1>4
    <3> QED BY <2>6, <2>7, <3>1, SelectItemsIs DEF GoodView
  <2>9. u = f \/ u = w \/ u = y
    <3>1. w = [v EXCEPT !.icons = @ \ {n}, !.edges = @ \ EdgesAt(n, v.edges)]
      BY <2>2, <2>3
    <3>2. u = f \/ u = Forget(w, n)
      BY <1>5, <2>1, <3>1 DEF ApplyRMNODE
    <3> QED BY <2>4, <2>5, <2>7, <3>2 DEF Forget
  <2> QED BY <1>6, <2>4, <2>8, <2>9
<1>11. ASSUME NEW n \in Node, s = ChAttr(n) PROVE u \in ViewType /\ Overlaid(u)
  <2>1. u = ApplyCHATTR(v, n)
    BY <1>2, <1>3, <1>11, StepIs
  <2>2. PICK t \in Timer : t = [on |-> TRUE, items |-> v.selection, same |-> TRUE]
    BY <1>4 DEF Timer
  <2>3. PICK w : w = [v EXCEPT !.timer = t]
    OBVIOUS
  <2>4. w \in ViewType /\ Overlaid(w)
    <3>1. w.ghost = v.ghost /\ w.controls = v.controls /\ w.selection = v.selection
      BY <1>4, <2>3
    <3> QED BY <2>3, <3>1, ViewsChanged DEF Overlaid
  <2>5. u = f \/ u = v \/ u = w
    BY <1>5, <2>1, <2>2, <2>3 DEF ApplyCHATTR
  <2> QED BY <1>6, <2>4, <2>5
<1>12. ASSUME NEW ns \in SUBSET Node, s = Resetm(ns) PROVE u \in ViewType /\ Overlaid(u)
  BY <1>2, <1>3, <1>12, ResetmIs DEF GoodView
<1> QED BY <1>7, <1>8, <1>9, <1>10, <1>11, <1>12 DEF Step

-----------------------------------------------------------------------------
(* Steps one after another.                                                *)

SoundView == { v \in ViewType : Overlaid(v) }

\* Sequences of views along a changelog.
Along(V, n, c) ==
    /\ V \in [0 .. n -> SoundView]
    /\ \A k \in 1 .. n : V[k] = ApplyStep(V[k - 1], c[k])

LEMMA AlongLonger ==
    ASSUME NEW n \in Nat, NEW c, NEW V, Along(V, n, c), c[n + 1] \in Step
    PROVE  LET w == ApplyStep(V[n], c[n + 1])
           IN  w \in SoundView /\ Along([k \in 0 .. n + 1 |-> IF k = n + 1 THEN w ELSE V[k]], n + 1, c)
<1>1. PICK w : w = ApplyStep(V[n], c[n + 1])
  OBVIOUS
<1>2. w \in SoundView
  <2>1. V[n] \in SoundView
    BY DEF Along
  <2> QED BY <1>1, <2>1, StepKeeps DEF SoundView
<1>3. PICK U : U = [k \in 0 .. n + 1 |-> IF k = n + 1 THEN w ELSE V[k]]
  OBVIOUS
<1>4. U \in [0 .. n + 1 -> SoundView] /\ U[n + 1] = w /\ \A k \in 0 .. n : U[k] = V[k]
  <2>1. \A k \in 0 .. n + 1 : k # n + 1 => k \in 0 .. n
    OBVIOUS
  <2>2. \A k \in 0 .. n : V[k] \in SoundView
    BY DEF Along
  <2> QED BY <1>2, <1>3, <2>1, <2>2
<1>5. ASSUME NEW k \in 1 .. n + 1 PROVE U[k] = ApplyStep(U[k - 1], c[k])
  <2>1. CASE k = n + 1
    <3>1. k - 1 = n /\ n \in 0 .. n
      BY <2>1
    <3> QED BY <1>1, <1>4, <2>1, <3>1
  <2>2. CASE k # n + 1
    <3>1. k \in 1 .. n /\ k \in 0 .. n /\ k - 1 \in 0 .. n
      BY <2>2
    <3> QED BY <1>4, <3>1 DEF Along
  <2> QED BY <2>1, <2>2
<1> QED BY <1>1, <1>2, <1>3, <1>4, <1>5 DEF Along

LEMMA AlongExists ==
    ASSUME NEW c \in Seq(Step), NEW v \in SoundView
    PROVE  \E V \in [0 .. Len(c) -> SoundView] : V[0] = v /\ Along(V, Len(c), c)
<1> DEFINE Some(n) == \E V \in [0 .. n -> SoundView] : V[0] = v /\ Along(V, n, c)
           P == { n \in Nat : n <= Len(c) => Some(n) }
<1>1. Len(c) \in Nat /\ \A k \in 1 .. Len(c) : c[k] \in Step
  BY LenProperties, ElementOfSeq
<1>2. 0 \in P
  <2>1. PICK V : V = [k \in 0 .. 0 |-> v]
    OBVIOUS
  <2>2. V \in [0 .. 0 -> SoundView] /\ V[0] = v
    BY <2>1
  <2>3. Along(V, 0, c)
    BY <2>2 DEF Along
  <2>4. Some(0)
    BY <2>2, <2>3
  <2> HIDE DEF Some
  <2> QED BY <2>4
<1>3. ASSUME NEW n \in Nat, n \in P PROVE n + 1 \in P
  <2> HIDE DEF Some
  <2>1. SUFFICES ASSUME n + 1 <= Len(c) PROVE Some(n + 1)
    OBVIOUS
  <2>2. PICK V \in [0 .. n -> SoundView] : V[0] = v /\ Along(V, n, c)
    BY <1>1, <1>3, <2>1 DEF Some
  <2>3. c[n + 1] \in Step
    BY <1>1, <2>1
  <2>4. PICK U : U = [k \in 0 .. n + 1 |-> IF k = n + 1 THEN ApplyStep(V[n], c[n + 1]) ELSE V[k]]
    OBVIOUS
  <2>5. Along(U, n + 1, c)
    BY <2>2, <2>3, <2>4, AlongLonger
  <2>6. U[0] = v
    BY <2>2, <2>4
  <2>7. U \in [0 .. n + 1 -> SoundView]
    BY <2>5 DEF Along
  <2> QED BY <2>5, <2>6, <2>7 DEF Some
<1> HIDE DEF P, Some
<1>4. Len(c) \in P
  BY <1>1, <1>2, <1>3, NatSetInduction
<1> QED BY <1>1, <1>4 DEF P, Some

\* Such a sequence ends in what the changelog makes of its first view.
LEMMA AlongApplied ==
    ASSUME NEW c, Len(c) \in Nat, NEW V, Along(V, Len(c), c)
    PROVE  Applied(V[0], c) = V[Len(c)]
<1> DEFINE n == Len(c)
           F(g) == [k \in 0 .. n |-> IF k = 0 THEN V[0] ELSE ApplyStep(g[k - 1], c[k])]
           r == CHOOSE g : g = F(g)
<1>1. Applied(V[0], c) = r[n]
  BY DEF Applied
<1>2. V = F(V)
  <2>1. V \in [0 .. n -> SoundView]
    BY DEF Along
  <2>2. ASSUME NEW k \in 0 .. n
        PROVE  V[k] = IF k = 0 THEN V[0] ELSE ApplyStep(V[k - 1], c[k])
    <3>1. k = 0 \/ k \in 1 .. n
      OBVIOUS
    <3> QED BY <3>1 DEF Along
  <2> QED BY <2>1, <2>2
<1>3. r = F(r)
  BY <1>2
<1> HIDE DEF r
<1> DEFINE P == { k \in Nat : k <= n => r[k] = V[k] }
<1>4. 0 \in P
  <2>1. 0 \in 0 .. n
    OBVIOUS
  <2>2. r[0] = V[0]
    BY <1>3, <2>1
  <2> QED BY <2>2
<1>5. ASSUME NEW k \in Nat, k \in P PROVE k + 1 \in P
  <2>1. SUFFICES ASSUME k + 1 <= n PROVE r[k + 1] = V[k + 1]
    OBVIOUS
  <2>2. r[k + 1] = ApplyStep(r[k], c[k + 1])
    <3>1. k + 1 \in 0 .. n /\ k + 1 # 0 /\ (k + 1) - 1 = k
      BY <2>1
    <3> QED BY <3>1, <1>3
  <2>3. V[k + 1] = ApplyStep(V[k], c[k + 1])
    <3>1. k + 1 \in 1 .. n /\ (k + 1) - 1 = k
      BY <2>1
    <3> QED BY <3>1 DEF Along
  <2> QED BY <1>5, <2>1, <2>2, <2>3
<1>6. n \in P
  <2> HIDE DEF P
  <2> QED BY <1>4, <1>5, NatSetInduction
<1> QED BY <1>1, <1>6

\* Applying no step, and one step more.
LEMMA AppliedNothing ==
    ASSUME NEW v \in SoundView
    PROVE  Applied(v, <<>>) = v
<1>1. PICK c \in Seq(Step) : c = <<>> /\ Len(c) = 0
  BY EmptySeq
<1>2. PICK V \in [0 .. Len(c) -> SoundView] : V[0] = v /\ Along(V, Len(c), c)
  BY AlongExists
<1> QED BY <1>1, <1>2, AlongApplied

LEMMA AppliedMore ==
    ASSUME NEW v \in SoundView, NEW c \in Seq(Step), NEW s \in Step
    PROVE  /\ Applied(v, c) \in SoundView
           /\ Applied(v, Append(c, s)) = ApplyStep(Applied(v, c), s)
<1>1. PICK V \in [0 .. Len(c) -> SoundView] : V[0] = v /\ Along(V, Len(c), c)
  BY AlongExists
<1>2. Len(c) \in Nat
  BY LenProperties
<1>3. Applied(v, c) = V[Len(c)]
  BY <1>1, <1>2, AlongApplied
<1>4. PICK d : d = Append(c, s)
  OBVIOUS
<1>5. Len(d) = Len(c) + 1 /\ d[Len(c) + 1] = s /\ \A k \in 1 .. Len(c) : d[k] = c[k]
  BY <1>4, AppendProperties
<1>6. Along(V, Len(c), d)
  BY <1>1, <1>5 DEF Along
<1>7. PICK U : U = [k \in 0 .. Len(c) + 1 |-> IF k = Len(c) + 1 THEN ApplyStep(V[Len(c)], d[Len(c) + 1]) ELSE V[k]]
  OBVIOUS
<1>8. Along(U, Len(d), d)
  BY <1>2, <1>5, <1>6, <1>7, AlongLonger
<1>9. U[0] = v /\ U[Len(d)] = ApplyStep(V[Len(c)], s)
  <2>1. 0 \in 0 .. Len(c) + 1 /\ 0 # Len(c) + 1 /\ Len(c) + 1 \in 0 .. Len(c) + 1
    BY <1>2
  <2> QED BY <1>1, <1>5, <1>7, <2>1
<1>10. Len(d) \in Nat
  BY <1>2, <1>5
<1>11. Applied(U[0], d) = U[Len(d)]
  BY <1>8, <1>10, AlongApplied
<1>12. V[Len(c)] \in SoundView
  BY <1>1, <1>2
<1> QED BY <1>3, <1>4, <1>9, <1>11, <1>12

\* Changelogs of one, two and three steps more.
LEMMA AppliedOne ==
    ASSUME NEW v \in SoundView, NEW s \in Step
    PROVE  Applied(v, <<s>>) = ApplyStep(v, s) /\ <<s>> \in Seq(Step)
<1>1. <<s>> = Append(<<>>, s) /\ <<>> \in Seq(Step) /\ <<s>> \in Seq(Step)
  OBVIOUS
<1> QED BY <1>1, AppliedMore, AppliedNothing

LEMMA AppliedTwo ==
    ASSUME NEW v \in SoundView, NEW s \in Step, NEW t \in Step
    PROVE  Applied(v, <<s, t>>) = ApplyStep(ApplyStep(v, s), t) /\ <<s, t>> \in Seq(Step)
<1>1. <<s, t>> = Append(<<s>>, t) /\ <<s, t>> \in Seq(Step)
  OBVIOUS
<1>2. PICK c \in Seq(Step) : c = <<s>> /\ Applied(v, c) = ApplyStep(v, s)
  BY AppliedOne
<1>3. Applied(v, Append(c, t)) = ApplyStep(Applied(v, c), t)
  BY AppliedMore
<1> QED BY <1>1, <1>2, <1>3

LEMMA AppliedThreeMore ==
    ASSUME NEW v \in SoundView, NEW c \in Seq(Step), NEW s \in Step, NEW t \in Step, NEW u \in Step
    PROVE  /\ c \o <<s, t, u>> \in Seq(Step)
           /\ Applied(v, c \o <<s, t, u>>) = ApplyStep(ApplyStep(ApplyStep(Applied(v, c), s), t), u)
<1>1. PICK d \in Seq(Step) : d = Append(c, s)
  BY AppendProperties
<1>2. PICK e \in Seq(Step) : e = Append(d, t)
  BY AppendProperties
<1>3. PICK f \in Seq(Step) : f = Append(e, u)
  BY AppendProperties
<1>4. PICK z \in Seq(Step) : /\ z = <<s, t, u>> /\ Len(z) = 3
                             /\ z[1] = s /\ z[2] = t /\ z[3] = u
  <2>1. <<s, t, u>> \in Seq(Step) /\ Len(<<s, t, u>>) = 3
    OBVIOUS
  <2>2. <<s, t, u>>[1] = s /\ <<s, t, u>>[2] = t /\ <<s, t, u>>[3] = u
    OBVIOUS
  <2> QED BY <2>1, <2>2
<1>5. c \o z = f
  <2> DEFINE g == c \o z
  <2>1. Len(c) \in Nat
    BY LenProperties
  <2>2. g \in Seq(Step) /\ Len(g) = Len(c) + 3
        /\ \A i \in 1 .. Len(c) + 3 : g[i] = IF i <= Len(c) THEN c[i] ELSE z[i - Len(c)]
    BY <1>4, ConcatProperties
  <2>3. Len(d) = Len(c) + 1 /\ d[Len(c) + 1] = s /\ \A i \in 1 .. Len(c) : d[i] = c[i]
    BY <1>1, AppendProperties
  <2>4. Len(e) = Len(c) + 2 /\ e[Len(c) + 2] = t /\ \A i \in 1 .. Len(c) + 1 : e[i] = d[i]
    BY <1>2, <2>1, <2>3, AppendProperties
  <2>5. Len(f) = Len(c) + 3 /\ f[Len(c) + 3] = u /\ \A i \in 1 .. Len(c) + 2 : f[i] = e[i]
    BY <1>3, <2>1, <2>4, AppendProperties
  <2> HIDE DEF g
  <2>6. ASSUME NEW i \in 1 .. Len(c) + 3 PROVE g[i] = f[i]
    <3>1. i \in 1 .. Len(c) \/ i = Len(c) + 1 \/ i = Len(c) + 2 \/ i = Len(c) + 3
      BY <2>1
    <3>2. CASE i \in 1 .. Len(c)
      <4>1. i \in 1 .. Len(c) + 1 /\ i \in 1 .. Len(c) + 2 /\ i <= Len(c)
        BY <2>1, <3>2
      <4> QED BY <2>2, <2>3, <2>4, <2>5, <3>2, <4>1
    <3>3. CASE i = Len(c) + 1
      <4>1. i \in 1 .. Len(c) + 1 /\ i \in 1 .. Len(c) + 2 /\ ~(i <= Len(c)) /\ i - Len(c) = 1
        BY <2>1, <3>3
      <4> QED BY <1>4, <2>2, <2>3, <2>4, <2>5, <3>3, <4>1
    <3>4. CASE i = Len(c) + 2
      <4>1. i \in 1 .. Len(c) + 2 /\ ~(i <= Len(c)) /\ i - Len(c) = 2
        BY <2>1, <3>4
      <4> QED BY <1>4, <2>2, <2>4, <2>5, <3>4, <4>1
    <3>5. CASE i = Len(c) + 3
      <4>1. ~(i <= Len(c)) /\ i - Len(c) = 3
        BY <2>1, <3>5
      <4> QED BY <1>4, <2>2, <2>5, <3>5, <4>1
    <3> QED BY <3>1, <3>2, <3>3, <3>4, <3>5
  <2>7. g = f
    BY <2>2, <2>5, <2>6, SeqEqual
  <2> QED BY <2>7 DEF g
<1>6. /\ Applied(v, d) = ApplyStep(Applied(v, c), s) /\ Applied(v, e) = ApplyStep(Applied(v, d), t)
      /\ Applied(v, f) = ApplyStep(Applied(v, e), u)
  BY <1>1, <1>2, <1>3, AppliedMore
<1> QED BY <1>3, <1>4, <1>5, <1>6

-----------------------------------------------------------------------------
(* Changelogs.                                                             *)

\* The view shows this model.
Shown(v, ns) == ~v.failed /\ v.icons = ns /\ v.edges = AllEdges(ns)

\* The changelog removes an edge that is selected.
Hits(v, c) == \E k \in DOMAIN c : c[k].op = "RMEDGE" /\ c[k].edge \in v.selection

\* What may become of the view v that is given the changelog c: it shows the new
\* model, or it has failed because of its selection.
Outcome(v, w, ns, c) ==
  /\ w \in ViewType /\ GoodView(w)
  /\ (Shown(w, ns) /\ w.selection \subseteq v.selection) \/ (w.failed /\ Hits(v, c))

\* The changelog c makes ns2 of ns.
Leads(ns, c, ns2) ==
  \A v \in ViewType : GoodView(v) /\ Shown(v, ns) => Outcome(v, Applied(v, c), ns2, c)

LEMMA CreateLeads ==
    ASSUME NEW ns, Closed(ns), NEW n \in Icon
    PROVE  Leads(ns, <<MkNode(n)>>, ns \cup {n}) /\ <<MkNode(n)>> \in Seq(Step)
<1>1. n \in Node /\ MkNode(n) \in Step
  BY DEF Node, Step
<1>2. <<MkNode(n)>> \in Seq(Step)
  BY <1>1
<1>3. ASSUME NEW v \in ViewType, GoodView(v), Shown(v, ns)
      PROVE  Outcome(v, Applied(v, <<MkNode(n)>>), ns \cup {n}, <<MkNode(n)>>)
  <2>1. v \in SoundView /\ ~v.failed
    BY <1>3 DEF SoundView, GoodView, Shown
  <2>2. PICK u : u = ApplyStep(v, MkNode(n)) /\ u = Applied(v, <<MkNode(n)>>)
    BY <1>1, <2>1, AppliedOne
  <2>3. /\ u \in ViewType /\ GoodView(u) /\ ~u.failed
        /\ u.icons = v.icons \cup {n} /\ u.edges = v.edges /\ u.selection = v.selection
    BY <1>1, <1>3, <2>1, <2>2, MkNodeIs
  <2>4. AllEdges(ns \cup {n}) = AllEdges(ns)
    BY IconComes
  <2>5. Shown(u, ns \cup {n})
    BY <1>3, <2>3, <2>4 DEF Shown
  <2> QED BY <2>2, <2>3, <2>5 DEF Outcome
<1> QED BY <1>2, <1>3 DEF Leads

LEMMA UpdateLeads ==
    ASSUME NEW ns, Closed(ns), NEW n \in ns
    PROVE  Leads(ns, <<ChAttr(n)>>, ns) /\ <<ChAttr(n)>> \in Seq(Step)
<1>1. n \in Node /\ ChAttr(n) \in Step
  BY DEF Closed, Step
<1>2. <<ChAttr(n)>> \in Seq(Step)
  BY <1>1
<1>3. ASSUME NEW v \in ViewType, GoodView(v), Shown(v, ns)
      PROVE  Outcome(v, Applied(v, <<ChAttr(n)>>), ns, <<ChAttr(n)>>)
  <2>1. v \in SoundView /\ ~v.failed /\ n \in v.icons
    BY <1>3 DEF SoundView, GoodView, Shown
  <2>2. PICK u : u = ApplyStep(v, ChAttr(n)) /\ u = Applied(v, <<ChAttr(n)>>)
    BY <1>1, <2>1, AppliedOne
  <2>3. /\ u \in ViewType /\ GoodView(u) /\ ~u.failed
        /\ u.icons = v.icons /\ u.edges = v.edges /\ u.selection = v.selection
    BY <1>3, <2>1, <2>2, ChAttrIs
  <2>4. Shown(u, ns)
    BY <1>3, <2>3 DEF Shown
  <2> QED BY <2>2, <2>3, <2>4 DEF Outcome
<1> QED BY <1>2, <1>3 DEF Leads

LEMMA LoadLeads ==
    ASSUME NEW ns, NEW ns2 \in SUBSET Node
    PROVE  Leads(ns, <<Resetm(ns2)>>, ns2) /\ <<Resetm(ns2)>> \in Seq(Step)
<1>1. Resetm(ns2) \in Step
  BY DEF Step
<1>2. <<Resetm(ns2)>> \in Seq(Step)
  BY <1>1
<1>3. ASSUME NEW v \in ViewType, GoodView(v), Shown(v, ns)
      PROVE  Outcome(v, Applied(v, <<Resetm(ns2)>>), ns2, <<Resetm(ns2)>>)
  <2>1. v \in SoundView /\ ~v.failed /\ Overlaid(v)
    BY <1>3 DEF SoundView, GoodView, Shown
  <2>2. PICK u : u = ApplyStep(v, Resetm(ns2)) /\ u = Applied(v, <<Resetm(ns2)>>)
    BY <1>1, <2>1, AppliedOne
  <2>3. /\ u \in ViewType /\ GoodView(u) /\ ~u.failed
        /\ u.icons = ns2 /\ u.edges = AllEdges(ns2) /\ u.selection = {}
    <3>1. PICK x : x = ApplyStep(v, Resetm(ns2))
      OBVIOUS
    <3>2. x \in ViewType
      BY <2>1, <3>1, ResetmIs
    <3>3. GoodView(x) /\ ~x.failed
      BY <2>1, <3>1, ResetmIs
    <3>4. x.icons = ns2
      BY <2>1, <3>1, ResetmIs
    <3>5. x.edges = AllEdges(ns2)
      BY <2>1, <3>1, ResetmIs
    <3>6. x.selection = {}
      BY <2>1, <3>1, ResetmIs
    <3> QED BY <2>2, <3>1, <3>2, <3>3, <3>4, <3>5, <3>6
  <2> QED BY <2>2, <2>3 DEF Outcome, Shown
<1> QED BY <1>2, <1>3 DEF Leads

LEMMA ConnectLeads ==
    ASSUME NEW ns, Closed(ns), NEW l \in Link, l \notin ns, {From[l], To[l]} \subseteq ns
    PROVE  /\ Leads(ns, <<MkNode(l), Segments(l)>>, ns \cup {l})
           /\ <<MkNode(l), Segments(l)>> \in Seq(Step)
<1>1. l \in Node /\ MkNode(l) \in Step /\ Segments(l) \in Step
  BY DEF Node, Step
<1>2. <<MkNode(l), Segments(l)>> \in Seq(Step)
  BY <1>1
<1>3. ASSUME NEW v \in ViewType, GoodView(v), Shown(v, ns)
      PROVE  Outcome(v, Applied(v, <<MkNode(l), Segments(l)>>), ns \cup {l}, <<MkNode(l), Segments(l)>>)
  <2>1. v \in SoundView /\ ~v.failed
    BY <1>3 DEF SoundView, GoodView, Shown
  <2>2. PICK u : u = ApplyStep(v, MkNode(l))
    OBVIOUS
  <2>3. /\ u \in ViewType /\ GoodView(u) /\ ~u.failed
        /\ u.icons = v.icons \cup {l} /\ u.edges = v.edges /\ u.selection = v.selection
    BY <1>1, <1>3, <2>1, <2>2, MkNodeIs
  <2>4. PICK w : w = ApplyStep(u, Segments(l)) /\ w = Applied(v, <<MkNode(l), Segments(l)>>)
    BY <1>1, <2>1, <2>2, AppliedTwo
  <2>5. AllEdges(ns) \cap EdgesOf(l) = {}
    BY AllEdgesAre
  <2>6. l \notin v.selection
    <3>1. v.selection \subseteq ns \cup AllEdges(ns)
      BY <1>3 DEF GoodView, Shown
    <3>2. l \notin AllEdges(ns)
      BY <1>1, EdgeEnds, AllEdgesAre
    <3> QED BY <3>1, <3>2
  <2>7. /\ (\A e \in EdgesOf(l) : e \notin u.edges) /\ l \notin u.selection
        /\ l \in u.icons /\ From[l] \in u.icons /\ To[l] \in u.icons
    BY <1>3, <2>3, <2>5, <2>6 DEF Shown
  <2>8. /\ w \in ViewType /\ GoodView(w) /\ ~w.failed
        /\ w.icons = u.icons /\ w.edges = u.edges \cup EdgesOf(l) /\ w.selection = u.selection
    <3>1. u \in ViewType
      BY <2>3
    <3>2. GoodView(u) /\ ~u.failed
      BY <2>3
    <3>3. w = ApplyStep(u, Segments(l))
      BY <2>4
    <3>4. l \notin u.selection /\ \A e \in EdgesOf(l) : e \notin u.edges
      BY <2>7
    <3>5. l \in u.icons /\ From[l] \in u.icons /\ To[l] \in u.icons
      BY <2>7
    <3> QED BY <3>1, <3>2, <3>3, <3>4, <3>5, SegmentsIs, SMTT(30), ZenonT(30)
  <2>9. AllEdges(ns \cup {l}) = AllEdges(ns) \cup EdgesOf(l)
    BY LinkComes
  <2>10. Shown(w, ns \cup {l})
    BY <1>3, <2>3, <2>8, <2>9 DEF Shown
  <2> QED BY <2>3, <2>4, <2>8, <2>10 DEF Outcome
<1> QED BY <1>2, <1>3 DEF Leads

\* The steps that remove a link, when it and its edges are there.
LEMMA LinkRemoved ==
    ASSUME NEW ns, Closed(ns), NEW l \in Link \cap ns,
           NEW v \in ViewType, GoodView(v), Shown(v, ns)
    PROVE  LET w == ApplyStep(ApplyStep(ApplyStep(v, RmEdge(<<From[l], l>>)),
                                        RmEdge(<<l, To[l]>>)), RmNode(l))
           IN  /\ w \in ViewType /\ GoodView(w)
               /\ \/ Shown(w, ns \ {l}) /\ w.selection \subseteq v.selection
                  \/ w.failed /\ EdgesOf(l) \cap v.selection # {}
<1>1. PICK e, f : e = <<From[l], l>> /\ f = <<l, To[l]>>
  OBVIOUS
<1>2. EdgesOf(l) = {e, f} /\ e # f
  BY <1>1, EdgeEnds DEF EdgesOf
<1>3. v.icons = ns /\ v.edges = AllEdges(ns) /\ ~v.failed /\ e \in v.edges /\ f \in v.edges
  BY <1>2, AllEdgesAre DEF Shown
<1>4. PICK a : a = ApplyStep(v, RmEdge(e))
  OBVIOUS
<1>5. PICK b : b = ApplyStep(a, RmEdge(f))
  OBVIOUS
<1>6. PICK w : w = ApplyStep(b, RmNode(l))
  OBVIOUS
<1>7. /\ a \in ViewType /\ GoodView(a)
      /\ IF e \in v.selection THEN a.failed
         ELSE ~a.failed /\ a.icons = v.icons /\ a.edges = v.edges \ {e} /\ a.selection = v.selection
  BY <1>3, <1>4, RmEdgeIs
<1>8. CASE e \in v.selection
  <2>1. b = a
    BY <1>5, <1>7, <1>8 DEF ApplyStep
  <2>2. w = a
    BY <1>6, <1>7, <1>8, <2>1 DEF ApplyStep
  <2> QED BY <1>1, <1>2, <1>4, <1>5, <1>6, <1>7, <1>8, <2>2
<1>9. CASE e \notin v.selection
  <2>1. f \in a.edges
    BY <1>2, <1>3, <1>7, <1>9
  <2>2. /\ b \in ViewType /\ GoodView(b)
        /\ IF f \in a.selection THEN b.failed
           ELSE ~b.failed /\ b.icons = a.icons /\ b.edges = a.edges \ {f} /\ b.selection = a.selection
    BY <1>5, <1>7, <1>9, <2>1, RmEdgeIs
  <2>3. CASE f \in a.selection
    <3>1. w = b
      BY <1>6, <2>2, <2>3 DEF ApplyStep
    <3>2. EdgesOf(l) \cap v.selection # {}
      BY <1>2, <1>7, <1>9, <2>3
    <3> QED BY <1>1, <1>4, <1>5, <1>6, <2>2, <2>3, <3>1, <3>2
  <2>4. CASE f \notin a.selection
    <3>1. b.icons = ns /\ b.edges = AllEdges(ns) \ EdgesOf(l) /\ b.selection = v.selection /\ ~b.failed
      BY <1>2, <1>3, <1>7, <1>9, <2>2, <2>4
    <3>2. EdgesAt(l, b.edges) = {}
      <4>1. b.edges \in SUBSET Edge
        BY <2>2 DEF ViewType
      <4> QED BY <3>1, <4>1, EdgesAtLink
    <3>3. /\ w \in ViewType /\ GoodView(w) /\ ~w.failed
          /\ w.icons = b.icons \ {l} /\ w.edges = b.edges /\ w.selection = b.selection \ {l}
      BY <1>6, <2>2, <3>1, <3>2, RmNodeIs
    <3>4. Shown(w, ns \ {l})
      BY <3>1, <3>3, LinkGoes DEF Shown
    <3>5. w.selection \subseteq v.selection
      BY <3>1, <3>3
    <3> QED BY <1>1, <1>4, <1>5, <1>6, <3>3, <3>4, <3>5
  <2> QED BY <2>3, <2>4
<1> QED BY <1>8, <1>9

\* One link more is removed.
LEMMA RemovalLeads ==
    ASSUME NEW ns, NEW c \in Seq(Step), NEW ns2, Closed(ns2), Leads(ns, c, ns2), NEW l \in Link \cap ns2
    PROVE  c \o RemovalOf(l) \in Seq(Step) /\ Leads(ns, c \o RemovalOf(l), ns2 \ {l})
<1>1. PICK s, t, u : s = RmEdge(<<From[l], l>>) /\ t = RmEdge(<<l, To[l]>>) /\ u = RmNode(l)
  OBVIOUS
<1>2. s \in Step /\ t \in Step /\ u \in Step
  <2>1. <<From[l], l>> \in Edge /\ <<l, To[l]>> \in Edge /\ l \in Node
    BY DEF Edge, Node
  <2> QED BY <1>1, <2>1 DEF Step
<1>3. RemovalOf(l) = <<s, t, u>>
  BY <1>1 DEF RemovalOf, RmEdge, RmNode
<1>4. PICK d : d = c \o RemovalOf(l)
  OBVIOUS
<1>5. PICK z \in Seq(Step) : z = <<s, t, u>> /\ Len(z) = 3 /\ z[1] = s /\ z[2] = t /\ z[3] = u
  <2>1. <<s, t, u>> \in Seq(Step) /\ Len(<<s, t, u>>) = 3
    BY <1>2
  <2>2. <<s, t, u>>[1] = s /\ <<s, t, u>>[2] = t /\ <<s, t, u>>[3] = u
    OBVIOUS
  <2> QED BY <2>1, <2>2
<1>6. /\ d \in Seq(Step) /\ Len(d) = Len(c) + 3 /\ Len(c) \in Nat
      /\ \A k \in 1 .. Len(c) : d[k] = c[k]
      /\ d[Len(c) + 1] = s /\ d[Len(c) + 2] = t
  <2>1. d = c \o z
    BY <1>3, <1>4, <1>5
  <2>2. Len(c) \in Nat
    BY LenProperties
  <2>3. d \in Seq(Step) /\ Len(d) = Len(c) + 3
    BY <1>5, <2>1, ConcatProperties
  <2>4. \A k \in 1 .. Len(c) + 3 : d[k] = IF k <= Len(c) THEN c[k] ELSE z[k - Len(c)]
    BY <1>5, <2>1, ConcatProperties
  <2>5. \A k \in 1 .. Len(c) : d[k] = c[k]
    BY <2>2, <2>4
  <2>6. /\ Len(c) + 1 \in 1 .. Len(c) + 3 /\ ~(Len(c) + 1 <= Len(c)) /\ (Len(c) + 1) - Len(c) = 1
        /\ Len(c) + 2 \in 1 .. Len(c) + 3 /\ ~(Len(c) + 2 <= Len(c)) /\ (Len(c) + 2) - Len(c) = 2
    BY <2>2
  <2>7. d[Len(c) + 1] = s /\ d[Len(c) + 2] = t
    BY <1>5, <2>4, <2>6
  <2> QED BY <2>2, <2>3, <2>5, <2>7
<1>7. DOMAIN d = 1 .. Len(c) + 3 /\ DOMAIN c = 1 .. Len(c)
  BY <1>6, LenProperties
<1>8. ASSUME NEW v \in ViewType, GoodView(v), Shown(v, ns)
      PROVE  Outcome(v, Applied(v, d), ns2 \ {l}, d)
  <2>1. v \in SoundView
    BY <1>8 DEF SoundView, GoodView
  <2>2. PICK w : w = Applied(v, c)
    OBVIOUS
  <2>3. PICK x : x = Applied(v, d) /\ x = ApplyStep(ApplyStep(ApplyStep(w, s), t), u)
    BY <1>2, <1>3, <1>4, <2>1, <2>2, AppliedThreeMore
  <2>4. Outcome(v, w, ns2, c)
    BY <1>8, <2>2 DEF Leads
  <2>5. w \in ViewType /\ GoodView(w)
    BY <2>4 DEF Outcome
  <2>6. CASE w.failed /\ Hits(v, c)
    <3>1. ApplyStep(w, s) = w
      BY <2>6 DEF ApplyStep
    <3>2. ApplyStep(w, t) = w /\ ApplyStep(w, u) = w
      BY <2>6 DEF ApplyStep
    <3>3. x = w
      BY <2>3, <3>1, <3>2
    <3>4. Hits(v, d)
      <4>1. PICK k \in DOMAIN c : c[k].op = "RMEDGE" /\ c[k].edge \in v.selection
        BY <2>6 DEF Hits
      <4>2. k \in DOMAIN d /\ d[k] = c[k]
        BY <1>6, <1>7, <4>1
      <4> QED BY <4>1, <4>2 DEF Hits
    <3> QED BY <2>3, <2>5, <2>6, <3>3, <3>4 DEF Outcome
  <2>7. CASE Shown(w, ns2) /\ w.selection \subseteq v.selection
    <3>1. /\ x \in ViewType /\ GoodView(x)
          /\ \/ Shown(x, ns2 \ {l}) /\ x.selection \subseteq w.selection
             \/ x.failed /\ EdgesOf(l) \cap w.selection # {}
      BY <1>1, <2>3, <2>5, <2>7, LinkRemoved
    <3>2. CASE Shown(x, ns2 \ {l}) /\ x.selection \subseteq w.selection
      BY <2>3, <2>7, <3>1, <3>2 DEF Outcome
    <3>3. CASE x.failed /\ EdgesOf(l) \cap w.selection # {}
      <4>1. PICK e \in EdgesOf(l) : e \in v.selection
        BY <2>7, <3>3
      <4>2. /\ s.op = "RMEDGE" /\ s.edge = <<From[l], l>>
            /\ t.op = "RMEDGE" /\ t.edge = <<l, To[l]>>
        BY <1>1 DEF RmEdge
      <4>3. e = s.edge \/ e = t.edge
        BY <4>2 DEF EdgesOf
      <4>4. Len(c) + 1 \in DOMAIN d /\ Len(c) + 2 \in DOMAIN d
        BY <1>6, <1>7
      <4>5. Hits(v, d)
        BY <1>6, <4>1, <4>2, <4>3, <4>4 DEF Hits
      <4> QED BY <2>3, <3>1, <3>3, <4>5 DEF Outcome
    <3> QED BY <3>1, <3>2, <3>3
  <2> QED BY <2>4, <2>6, <2>7 DEF Outcome
<1> QED BY <1>4, <1>6, <1>8 DEF Leads

\* A sequence of changelogs put together, from the first to the last.
LEMMA Flattened ==
    ASSUME NEW seqs \in Seq(Seq(Step))
    PROVE  \E G \in [0 .. Len(seqs) -> Seq(Step)] :
              /\ G[0] = <<>> /\ G[Len(seqs)] = FlattenSeq(seqs)
              /\ \A i \in 1 .. Len(seqs) : G[i] = G[i - 1] \o seqs[i]
<1> DEFINE n == Len(seqs)
           Puts(G, m) == G[0] = <<>> /\ \A i \in 1 .. m : G[i] = G[i - 1] \o seqs[i]
           Some(m) == \E G \in [0 .. m -> Seq(Step)] : Puts(G, m)
           P == { m \in Nat : m <= n => Some(m) }
<1>1. n \in Nat /\ \A i \in 1 .. n : seqs[i] \in Seq(Step)
  BY LenProperties, ElementOfSeq
<1>2. 0 \in P
  <2>1. PICK e \in Seq(Step) : e = <<>>
    BY EmptySeq
  <2>2. PICK G : G = [i \in 0 .. 0 |-> e]
    OBVIOUS
  <2>3. G \in [0 .. 0 -> Seq(Step)] /\ G[0] = <<>>
    BY <2>1, <2>2
  <2>4. Puts(G, 0)
    BY <2>3
  <2>5. Some(0)
    BY <2>3, <2>4
  <2> HIDE DEF Some
  <2> QED BY <2>5
<1>3. ASSUME NEW m \in Nat, m \in P PROVE m + 1 \in P
  <2> HIDE DEF Some
  <2>1. SUFFICES ASSUME m + 1 <= n PROVE Some(m + 1)
    OBVIOUS
  <2>0. Some(m)
    <3>1. m <= n
      BY <1>1, <2>1
    <3> QED BY <1>3, <3>1
  <2>2. PICK G \in [0 .. m -> Seq(Step)] : Puts(G, m)
    BY <2>0 DEF Some
  <2>3. PICK h \in Seq(Step) : h = G[m] \o seqs[m + 1]
    <3>1. G[m] \in Seq(Step) /\ seqs[m + 1] \in Seq(Step)
      BY <1>1, <2>1
    <3> QED BY <3>1, ConcatProperties
  <2>4. PICK H : H = [i \in 0 .. m + 1 |-> IF i = m + 1 THEN h ELSE G[i]]
    OBVIOUS
  <2>5. H \in [0 .. m + 1 -> Seq(Step)] /\ H[m + 1] = h /\ \A i \in 0 .. m : H[i] = G[i]
    <3>1. \A i \in 0 .. m + 1 : i # m + 1 => i \in 0 .. m
      OBVIOUS
    <3> QED BY <2>3, <2>4, <3>1
  <2>6. ASSUME NEW i \in 1 .. m + 1 PROVE H[i] = H[i - 1] \o seqs[i]
    <3>1. CASE i = m + 1
      <4>1. i - 1 = m /\ m \in 0 .. m
        BY <3>1
      <4> QED BY <2>3, <2>5, <3>1, <4>1
    <3>2. CASE i # m + 1
      <4>1. i \in 1 .. m /\ i \in 0 .. m /\ i - 1 \in 0 .. m
        BY <3>2
      <4> QED BY <2>2, <2>5, <4>1
    <3> QED BY <3>1, <3>2
  <2>7. H[0] = <<>>
    <3>1. 0 \in 0 .. m
      OBVIOUS
    <3> QED BY <2>2, <2>5, <3>1
  <2>8. Puts(H, m + 1)
    BY <2>6, <2>7
  <2> HIDE DEF Puts
  <2> QED BY <2>5, <2>8 DEF Some
<1> HIDE DEF P, Some
<1>4. n \in P
  BY <1>1, <1>2, <1>3, NatSetInduction
<1>5. PICK G \in [0 .. n -> Seq(Step)] : Puts(G, n)
  <2>1. Some(n)
    BY <1>1, <1>4 DEF P
  <2> QED BY <2>1 DEF Some
<1>6. CASE n = 0
  <2>1. FlattenSeq(seqs) = <<>>
    BY <1>6, EmptySeq DEF FlattenSeq
  <2> QED BY <1>5, <1>6, <2>1
<1>7. CASE n # 0
  <2> DEFINE F(g) == [i \in 1 .. n |-> IF i = 1 THEN seqs[i] ELSE g[i - 1] \o seqs[i]]
             r == CHOOSE g : g = F(g)
  <2>1. FlattenSeq(seqs) = r[n]
    BY <1>7 DEF FlattenSeq
  <2>2. PICK K : K = [i \in 1 .. n |-> G[i]]
    OBVIOUS
  <2>3. K = F(K)
    <3>1. ASSUME NEW i \in 1 .. n PROVE K[i] = IF i = 1 THEN seqs[i] ELSE K[i - 1] \o seqs[i]
      <4>1. CASE i = 1
        <5>1. G[1] = <<>> \o seqs[1] /\ seqs[1] \in Seq(Step)
          <6>1. 1 \in 1 .. n /\ 1 - 1 = 0
            BY <4>1
          <6>2. G[1] = G[1 - 1] \o seqs[1] /\ G[0] = <<>>
            BY <1>5, <6>1
          <6> QED BY <1>1, <6>1, <6>2
        <5> QED BY <2>2, <4>1, <5>1, ConcatEmptySeq
      <4>2. CASE i # 1
        <5>1. i - 1 \in 1 .. n
          BY <4>2
        <5> QED BY <1>5, <2>2, <4>2, <5>1
      <4> QED BY <4>1, <4>2
    <3> QED BY <2>2, <3>1
  <2>4. r = F(r)
    BY <2>3
  <2> HIDE DEF r
  <2> DEFINE Q == { i \in Nat : i + 1 <= n => r[i + 1] = G[i + 1] }
  <2>5. 0 \in Q
    <3>1. 1 \in 1 .. n
      BY <1>1, <1>7
    <3>2. r[1] = seqs[1]
      BY <2>4, <3>1
    <3>3. G[1] = <<>> \o seqs[1] /\ seqs[1] \in Seq(Step)
      <4>1. 1 - 1 = 0
        OBVIOUS
      <4>2. G[1] = G[1 - 1] \o seqs[1] /\ G[0] = <<>>
        BY <1>5, <3>1
      <4> QED BY <1>1, <3>1, <4>1, <4>2
    <3>4. r[1] = G[1]
      BY <3>2, <3>3, ConcatEmptySeq
    <3> QED BY <3>4
  <2>6. ASSUME NEW i \in Nat, i \in Q PROVE i + 1 \in Q
    <3>1. SUFFICES ASSUME (i + 1) + 1 <= n PROVE r[(i + 1) + 1] = G[(i + 1) + 1]
      OBVIOUS
    <3>2. (i + 1) + 1 \in 1 .. n /\ (i + 1) + 1 # 1 /\ ((i + 1) + 1) - 1 = i + 1 /\ i + 1 <= n
      BY <3>1
    <3>3. r[(i + 1) + 1] = r[i + 1] \o seqs[(i + 1) + 1]
      BY <2>4, <3>2
    <3>4. G[(i + 1) + 1] = G[i + 1] \o seqs[(i + 1) + 1]
      BY <1>5, <3>2
    <3> QED BY <2>6, <3>2, <3>3, <3>4
  <2>7. n - 1 \in Q
    <3>1. n - 1 \in Nat
      BY <1>1, <1>7
    <3> HIDE DEF Q
    <3> QED BY <2>5, <2>6, <3>1, NatSetInduction
  <2>8. r[n] = G[n]
    <3>1. (n - 1) + 1 = n
      BY <1>1
    <3> QED BY <1>1, <2>7, <3>1
  <2> QED BY <1>5, <2>1, <2>8
<1> QED BY <1>6, <1>7

\* All links of a set are removed, in the order in which they come.
LEMMA LinksRemoved ==
    ASSUME NEW ns, Closed(ns), NEW S, S \subseteq Link \cap ns,
           NEW gone, gone = SetToSeq(S),
           NEW links, links = FlattenSeq([k \in DOMAIN gone |-> RemovalOf(gone[k])])
    PROVE  links \in Seq(Step) /\ Closed(ns \ S) /\ Leads(ns, links, ns \ S)
<1>1. PICK n \in Nat : n = Cardinality(S)
  <2>1. IsFiniteSet(S)
    <3>1. IsFiniteSet(Link) /\ S \in SUBSET Link
      BY CanvasAssumption
    <3> QED BY <3>1, FS_Subset
  <2> QED BY <2>1, FS_CardinalityType
<1>2. /\ gone \in [1 .. n -> S]
      /\ \A i, j \in 1 .. n : gone[i] = gone[j] => i = j
      /\ \A l \in S : \E i \in 1 .. n : gone[i] = l
  <2>1. IsFiniteSet(S)
    <3>1. IsFiniteSet(Link) /\ S \in SUBSET Link
      BY CanvasAssumption
    <3> QED BY <3>1, FS_Subset
  <2>2. ExistsBijection(1 .. n, S)
    BY <1>1, <2>1, FS_CardinalityType
  <2>3. \E f \in [1 .. n -> S] : IsInjective(f)
    BY <2>2 DEF ExistsBijection, Bijection, Injection
  <2>4. gone \in [1 .. n -> S] /\ IsInjective(gone)
    BY <1>1, <2>3 DEF SetToSeq
  <2>5. gone \in Injection(1 .. n, S)
    BY <2>4 DEF Injection
  <2>6. Cardinality(1 .. n) = n
    <3>1. 1 \in Int /\ n \in Int
      BY <1>1
    <3>2. Cardinality(1 .. n) = IF 1 > n THEN 0 ELSE n - 1 + 1
      BY <3>1, FS_Interval
    <3> QED BY <1>1, <3>2
  <2>7. gone \in Surjection(1 .. n, S)
    BY <1>1, <2>1, <2>5, <2>6, FS_Injection
  <2>8. \A i, j \in 1 .. n : gone[i] = gone[j] => i = j
    BY <2>4 DEF IsInjective
  <2>9. \A l \in S : \E i \in 1 .. n : gone[i] = l
    BY <2>7 DEF Surjection
  <2> QED BY <2>4, <2>8, <2>9
<1>3. PICK seqs : seqs = [k \in 1 .. n |-> RemovalOf(gone[k])]
  OBVIOUS
<1>4. links = FlattenSeq(seqs)
  <2>1. DOMAIN gone = 1 .. n
    BY <1>2
  <2> QED BY <1>3, <2>1
<1>5. seqs \in Seq(Seq(Step)) /\ Len(seqs) = n /\ \A k \in 1 .. n : seqs[k] = RemovalOf(gone[k])
  <2>1. ASSUME NEW k \in 1 .. n PROVE RemovalOf(gone[k]) \in Seq(Step)
    <3>1. PICK l \in Link : l = gone[k]
      BY <1>2
    <3>2. PICK s, t, u : s = RmEdge(<<From[l], l>>) /\ t = RmEdge(<<l, To[l]>>) /\ u = RmNode(l)
      OBVIOUS
    <3>3. s \in Step /\ t \in Step /\ u \in Step
      <4>1. <<From[l], l>> \in Edge /\ <<l, To[l]>> \in Edge /\ l \in Node
        BY DEF Edge, Node
      <4> QED BY <3>2, <4>1 DEF Step
    <3>4. RemovalOf(l) = <<s, t, u>>
      BY <3>2 DEF RemovalOf, RmEdge, RmNode
    <3> QED BY <3>1, <3>3, <3>4
  <2>2. seqs \in [1 .. n -> Seq(Step)]
    BY <1>3, <2>1
  <2> QED BY <1>1, <1>3, <2>2
<1>6. PICK G \in [0 .. n -> Seq(Step)] :
         G[0] = <<>> /\ G[n] = links /\ \A i \in 1 .. n : G[i] = G[i - 1] \o seqs[i]
  BY <1>4, <1>5, Flattened
<1> DEFINE Left(m) == ns \ { gone[j] : j \in 1 .. m }
           Q == { m \in Nat : m <= n => Closed(Left(m)) /\ Leads(ns, G[m], Left(m)) }
<1>7. 0 \in Q
  <2>1. Left(0) = ns
    OBVIOUS
  <2>2. Leads(ns, G[0], ns)
    <3>1. ASSUME NEW v \in ViewType, GoodView(v), Shown(v, ns) PROVE Outcome(v, Applied(v, <<>>), ns, <<>>)
      <4>1. Applied(v, <<>>) = v
        BY <3>1, AppliedNothing DEF SoundView, GoodView
      <4>2. Outcome(v, v, ns, <<>>)
        BY <3>1 DEF Outcome
      <4> QED BY <4>1, <4>2
    <3> QED BY <1>6, <3>1 DEF Leads
  <2> HIDE DEF Left
  <2> QED BY <2>1, <2>2
<1>8. ASSUME NEW m \in Nat, m \in Q PROVE m + 1 \in Q
  <2>1. SUFFICES ASSUME m + 1 <= n PROVE Closed(Left(m + 1)) /\ Leads(ns, G[m + 1], Left(m + 1))
    OBVIOUS
  <2>2. m \in 0 .. n /\ m + 1 \in 1 .. n /\ (m + 1) - 1 = m
    BY <1>1, <2>1
  <2>3. PICK l : l = gone[m + 1]
    OBVIOUS
  <2>4. l \in Link \cap ns
    BY <1>2, <2>2, <2>3
  <2>5. l \in Left(m)
    <3>1. \A j \in 1 .. m : j \in 1 .. n /\ j # m + 1
      BY <2>2
    <3> QED BY <1>2, <2>2, <2>3, <2>4, <3>1
  <2>6. Left(m + 1) = Left(m) \ {l}
    <3>1. 1 .. m + 1 = (1 .. m) \cup {m + 1}
      BY <2>2
    <3> QED BY <2>3, <3>1
  <2>7. G[m + 1] = G[m] \o RemovalOf(l)
    BY <1>5, <1>6, <2>2, <2>3
  <2>8. Closed(Left(m)) /\ Leads(ns, G[m], Left(m))
    BY <1>8, <2>2
  <2> HIDE DEF Left
  <2>9. Closed(Left(m) \ {l})
    BY <2>4, <2>8, LinkGoes
  <2>10. G[m] \in Seq(Step) /\ l \in Link \cap Left(m)
    BY <1>6, <2>2, <2>4, <2>5
  <2>11. Leads(ns, G[m] \o RemovalOf(l), Left(m) \ {l})
    BY <2>8, <2>10, RemovalLeads
  <2> QED BY <2>6, <2>7, <2>9, <2>11
<1>9. n \in Q
  <2> HIDE DEF Q
  <2> QED BY <1>1, <1>7, <1>8, NatSetInduction
<1>10. Left(n) = ns \ S
  BY <1>2
<1>11. links \in Seq(Step)
  BY <1>1, <1>6
<1>12. Closed(Left(n)) /\ Leads(ns, G[n], Left(n))
  <2>1. n <= n
    BY <1>1
  <2> HIDE DEF Left
  <2> QED BY <1>9, <2>1
<1> HIDE DEF Left, Q
<1> QED BY <1>6, <1>10, <1>11, <1>12

\* Then the icon itself.
LEMMA IconRemovalLeads ==
    ASSUME NEW ns, NEW c \in Seq(Step), NEW ns2, Closed(ns2), Leads(ns, c, ns2),
           NEW n \in Icon, n \in ns2, \A l \in ns2 \cap Link : n \notin {From[l], To[l]}
    PROVE  Append(c, RmNode(n)) \in Seq(Step) /\ Leads(ns, Append(c, RmNode(n)), ns2 \ {n})
<1>1. PICK d, s : d = Append(c, s) /\ s = RmNode(n)
  OBVIOUS
<1>2. s \in Step
  BY <1>1 DEF Step, Node
<1>3. d \in Seq(Step) /\ Len(d) = Len(c) + 1 /\ \A k \in 1 .. Len(c) : d[k] = c[k]
  BY <1>1, <1>2, AppendProperties
<1>4. Len(c) \in Nat /\ DOMAIN d = 1 .. Len(c) + 1 /\ DOMAIN c = 1 .. Len(c)
  BY <1>3, LenProperties
<1>5. AllEdges(ns2 \ {n}) = AllEdges(ns2) /\ \A e \in AllEdges(ns2) : e[1] # n /\ e[2] # n
  BY IconGoes
<1>6. ASSUME NEW v \in ViewType, GoodView(v), Shown(v, ns)
      PROVE  Outcome(v, Applied(v, d), ns2 \ {n}, d)
  <2>1. v \in SoundView
    BY <1>6 DEF SoundView, GoodView
  <2>2. PICK w : w = Applied(v, c)
    OBVIOUS
  <2>3. PICK x : x = Applied(v, d) /\ x = ApplyStep(w, s)
    BY <1>1, <1>2, <2>1, <2>2, AppliedMore
  <2>4. Outcome(v, w, ns2, c)
    BY <1>6, <2>2 DEF Leads
  <2>5. w \in ViewType /\ GoodView(w)
    BY <2>4 DEF Outcome
  <2>6. CASE w.failed /\ Hits(v, c)
    <3>1. x = w
      BY <2>3, <2>6 DEF ApplyStep
    <3>2. Hits(v, d)
      <4>1. PICK k \in DOMAIN c : c[k].op = "RMEDGE" /\ c[k].edge \in v.selection
        BY <2>6 DEF Hits
      <4>2. k \in DOMAIN d /\ d[k] = c[k]
        BY <1>3, <1>4, <4>1
      <4> QED BY <4>1, <4>2 DEF Hits
    <3> QED BY <2>3, <2>5, <2>6, <3>1, <3>2 DEF Outcome
  <2>7. CASE Shown(w, ns2) /\ w.selection \subseteq v.selection
    <3>1. n \in w.icons /\ ~w.failed
      BY <2>7 DEF Shown
    <3>2. EdgesAt(n, w.edges) = {}
      BY <1>5, <2>7 DEF Shown, EdgesAt
    <3>3. x = ApplyStep(w, RmNode(n))
      BY <1>1, <2>3
    <3>4. /\ x \in ViewType /\ GoodView(x) /\ ~x.failed
          /\ x.icons = w.icons \ {n} /\ x.edges = w.edges /\ x.selection = w.selection \ {n}
      BY <2>5, <3>1, <3>2, <3>3, RmNodeIs
    <3>5. Shown(x, ns2 \ {n})
      BY <1>5, <2>7, <3>4 DEF Shown
    <3> QED BY <2>3, <2>7, <3>4, <3>5 DEF Outcome
  <2> QED BY <2>4, <2>6, <2>7 DEF Outcome
<1> QED BY <1>1, <1>3, <1>6 DEF Leads

-----------------------------------------------------------------------------
(* The invariant.                                                          *)

\* the csworker
Served ==
  /\ model \subseteq Node /\ changes \in 0..MaxChange
  /\ wire \in Seq(Seq(Step)) /\ stuck \in BOOLEAN

\* what the client shows and has selected
Viewed == View \in ViewType /\ GoodView(View)

\* The models between the changelogs that are on their way: the client shows the first.
Between(M) ==
  /\ M \in [0 .. Len(wire) -> SUBSET Node] /\ M[Len(wire)] = model
  /\ \A i \in 0 .. Len(wire) : Closed(M[i])
  /\ \A i \in 1 .. Len(wire) : Leads(M[i - 1], wire[i], M[i])
  /\ ~stuck => icons = M[0] /\ edges = AllEdges(M[0])
Follows == \E M : Between(M)

\* the gestures, and the dialogs
Gestured ==
  /\ docked \in BOOLEAN /\ lasso \in BOOLEAN
  /\ source \in Node \cup {NoIcon} /\ pressed \in Node \cup {NoIcon}
  /\ points \subseteq Edge /\ current \in Edge \cup {NoEdge}
Talks ==
  /\ dialogs \in Seq(DialogKinds) /\ Len(dialogs) <= MaxDialog
  /\ chart \in {"open", "closed"} /\ active \in {"canvas", "dialog"}
  /\ DialogsHaveEvents

IInv == Served /\ Viewed /\ Follows /\ Gestured /\ Talks

\* The view that the state is.
LEMMA ViewIs ==
    /\ View.icons = icons /\ View.edges = edges /\ View.selection = selection
    /\ View.ghost = ghost /\ View.controls = controls /\ View.timer = timer
    /\ View.state = state /\ View.failed = FALSE
BY DEF View

LEMMA ViewedIs ==
    Viewed <=> /\ icons \subseteq Node /\ edges \subseteq Edge /\ selection \subseteq Item
               /\ ghost \in BOOLEAN /\ controls \in BOOLEAN /\ timer \in Timer /\ state \in States
               /\ SelectionShown
<1>1. GoodView(View) <=> SelectionShown
  BY ViewIs DEF GoodView, Overlaid, SelectionShown, Displayed
<1>2. View \in ViewType <=> /\ icons \subseteq Node /\ edges \subseteq Edge /\ selection \subseteq Item
                            /\ ghost \in BOOLEAN /\ controls \in BOOLEAN /\ timer \in Timer /\ state \in States
  <2>1. ASSUME View \in ViewType
        PROVE  /\ icons \subseteq Node /\ edges \subseteq Edge /\ selection \subseteq Item
               /\ ghost \in BOOLEAN /\ controls \in BOOLEAN /\ timer \in Timer /\ state \in States
    <3>1. /\ View.icons \in SUBSET Node /\ View.edges \in SUBSET Edge /\ View.selection \in SUBSET Item
          /\ View.ghost \in BOOLEAN /\ View.controls \in BOOLEAN /\ View.timer \in Timer /\ View.state \in States
      BY <2>1 DEF ViewType
    <3> QED BY <3>1, ViewIs
  <2>2. ASSUME /\ icons \subseteq Node /\ edges \subseteq Edge /\ selection \subseteq Item
               /\ ghost \in BOOLEAN /\ controls \in BOOLEAN /\ timer \in Timer /\ state \in States
        PROVE  View \in ViewType
    BY <2>2 DEF View, ViewType
  <2> QED BY <2>1, <2>2
<1> QED BY <1>1, <1>2 DEF Viewed

\* A good view that is shown.
LEMMA ShowsViewed ==
    ASSUME NEW v \in ViewType, GoodView(v), Shows(v), state' \in States
    PROVE  Viewed'
<1>1. /\ v.icons \in SUBSET Node /\ v.edges \in SUBSET Edge /\ v.selection \in SUBSET Item
      /\ v.ghost \in BOOLEAN /\ v.controls \in BOOLEAN /\ v.timer \in Timer
  BY DEF ViewType
<1>2. /\ icons' = v.icons /\ edges' = v.edges /\ selection' = v.selection /\ ghost' = v.ghost
      /\ controls' = v.controls /\ timer' = v.timer
  BY DEF Shows
<1>3. icons' \subseteq Node /\ edges' \subseteq Edge /\ selection' \subseteq Item
  BY <1>1, <1>2
<1>4. ghost' \in BOOLEAN /\ controls' \in BOOLEAN /\ timer' \in Timer
  BY <1>1, <1>2
<1>5. SelectionShown'
  BY <1>2 DEF GoodView, Overlaid, SelectionShown, Displayed
<1>6. (Viewed <=> /\ icons \subseteq Node /\ edges \subseteq Edge /\ selection \subseteq Item
                  /\ ghost \in BOOLEAN /\ controls \in BOOLEAN /\ timer \in Timer /\ state \in States
                  /\ SelectionShown)'
  BY ViewedIs, PTL
<1> QED BY <1>3, <1>4, <1>5, <1>6

\* What may be selected, when the state is typed: a good view, of the same canvas.
LEMMA SelectShows ==
    ASSUME Viewed, NEW items, items \subseteq Item, Select(items), state' \in States
    PROVE  Viewed' /\ UNCHANGED shown
<1>1. PICK w : w = SelectItems(View, items)
  OBVIOUS
<1>2. View \in ViewType /\ Overlaid(View)
  BY DEF Viewed, GoodView
<1>3. w \in ViewType /\ GoodView(w) /\ w.icons = View.icons /\ w.edges = View.edges
  <2>1. items \in SUBSET Item
    OBVIOUS
  <2> QED BY <1>1, <1>2, <2>1, SelectItemsIs
<1>4. Shows(w)
  BY <1>1 DEF Select
<1>5. UNCHANGED shown
  BY <1>3, <1>4, ViewIs DEF Shows, shown
<1> QED BY <1>3, <1>4, <1>5, ShowsViewed

LEMMA DeselectShows ==
    ASSUME Viewed, Deselect, state' \in States
    PROVE  Viewed' /\ UNCHANGED shown
<1>1. PICK w : w = Deselected(View)
  OBVIOUS
<1>2. View \in ViewType /\ Overlaid(View)
  BY DEF Viewed, GoodView
<1>3. PICK t \in Timer :
        w = [icons |-> View.icons, edges |-> View.edges, selection |-> {}, ghost |-> FALSE,
             controls |-> FALSE, timer |-> t, state |-> View.state, failed |-> View.failed]
  BY <1>1, <1>2, DeselectedIs
<1>4. /\ View.icons \in SUBSET Node /\ View.edges \in SUBSET Edge
      /\ View.state \in States /\ View.failed \in BOOLEAN
  BY <1>2 DEF ViewType
<1>5. w \in ViewType
  BY <1>3, <1>4 DEF ViewType
<1>6. GoodView(w)
  <2>1. Complete({}, View.edges) = {}
    BY DEF Complete
  <2> QED BY <1>3, <2>1 DEF GoodView, Overlaid
<1>7. Shows(w)
  BY <1>1 DEF Deselect
<1>8. UNCHANGED shown
  BY <1>3, <1>7, ViewIs DEF Shows, shown
<1> QED BY <1>5, <1>6, <1>7, <1>8, ShowsViewed

\* Nothing that is shown or selected changes, but for the overlays.
LEMMA OverlaysViewed ==
    ASSUME Viewed, UNCHANGED <<shown, selection, timer>>, state' \in States,
           ghost' \in BOOLEAN, controls' \in BOOLEAN, ghost' \/ controls' => selection # {}
    PROVE  Viewed'
<1>1. (Viewed <=> /\ icons \subseteq Node /\ edges \subseteq Edge /\ selection \subseteq Item
                  /\ ghost \in BOOLEAN /\ controls \in BOOLEAN /\ timer \in Timer /\ state \in States
                  /\ SelectionShown)'
  BY ViewedIs, PTL
<1>2. icons' = icons /\ edges' = edges /\ selection' = selection /\ timer' = timer
  BY DEF shown
<1>3. SelectionShown'
  BY <1>2, ViewedIs DEF SelectionShown, Displayed
<1> QED BY <1>1, <1>2, <1>3, ViewedIs

LEMMA SameViewed ==
    ASSUME Viewed, UNCHANGED <<shown, select, timer>>, state' \in States
    PROVE  Viewed'
<1>1. UNCHANGED <<shown, selection, timer>> /\ ghost' = ghost /\ controls' = controls
  BY DEF select
<1>2. ghost \in BOOLEAN /\ controls \in BOOLEAN /\ (ghost \/ controls => selection # {})
  BY ViewedIs DEF SelectionShown
<1> QED BY <1>1, <1>2, OverlaysViewed

\* The other parts of the invariant, when nothing of theirs changes.
LEMMA SameFollows ==
    ASSUME Served, Follows, UNCHANGED <<server, stuck, shown>>
    PROVE  Served' /\ Follows'
<1>1. /\ model' = model /\ changes' = changes /\ wire' = wire /\ stuck' = stuck
      /\ icons' = icons /\ edges' = edges
  BY DEF server, shown
<1>2. Served'
  BY <1>1 DEF Served
<1>3. PICK M : Between(M)
  BY DEF Follows
<1>4. Between(M)'
  BY <1>1, <1>3 DEF Between
<1> QED BY <1>2, <1>4 DEF Follows

LEMMA SameGestured ==
    ASSUME Gestured, UNCHANGED <<gesture, docked>>
    PROVE  Gestured'
BY DEF Gestured, gesture

LEMMA SameTalks ==
    ASSUME Talks, UNCHANGED popups
    PROVE  Talks'
BY DEF Talks, popups, DialogsHaveEvents

\* The states of the statechart, and the dock.
LEMMA TIs ==
    ASSUME docked \in BOOLEAN, NEW s \in States, T(s)
    PROVE  state' \in States /\ docked' \in BOOLEAN
BY DEF T

-----------------------------------------------------------------------------
(* Steps of the csworker.                                                  *)

LEMMA ChangesKeeps ==
    ASSUME IInv, NEW ns \in SUBSET Node, NEW c \in Seq(Step), Changes(ns, c),
           Closed(ns), Leads(model, c, ns)
    PROVE  IInv'
<1>1. /\ changes < MaxChange /\ model' = ns /\ changes' = changes + 1 /\ wire' = Append(wire, c)
      /\ UNCHANGED <<shown, stuck, select, timer, state, docked, gesture, popups>>
  BY DEF Changes
<1>2. UNCHANGED <<shown, select, timer>> /\ state' = state
  BY <1>1
<1>3. Viewed'
  <2>1. state \in States
    BY ViewedIs DEF IInv
  <2> QED BY <1>2, <2>1, SameViewed DEF IInv
<1>4. Gestured' /\ Talks'
  BY <1>1, SameGestured, SameTalks DEF IInv
<1>5. wire \in Seq(Seq(Step))
  BY DEF IInv, Served
<1>6. /\ wire' \in Seq(Seq(Step)) /\ Len(wire') = Len(wire) + 1 /\ Len(wire) \in Nat
      /\ wire'[Len(wire) + 1] = c /\ \A i \in 1 .. Len(wire) : wire'[i] = wire[i]
  BY <1>1, <1>5, AppendProperties, LenProperties
<1>7. Served'
  <2>1. MaxChange \in Nat /\ changes \in 0 .. MaxChange
    BY CanvasAssumption DEF IInv, Served
  <2>2. changes' \in 0 .. MaxChange
    BY <1>1, <2>1
  <2>3. stuck' \in BOOLEAN
    BY <1>1 DEF IInv, Served
  <2> QED BY <1>1, <1>6, <2>2, <2>3 DEF Served
<1>8. PICK M : Between(M)
  BY DEF IInv, Follows
<1>9. PICK N : N = [i \in 0 .. Len(wire) + 1 |-> IF i = Len(wire) + 1 THEN ns ELSE M[i]]
  OBVIOUS
<1>10. /\ N \in [0 .. Len(wire) + 1 -> SUBSET Node] /\ N[Len(wire) + 1] = ns
       /\ \A i \in 0 .. Len(wire) : N[i] = M[i]
  <2>1. \A i \in 0 .. Len(wire) + 1 : i # Len(wire) + 1 => i \in 0 .. Len(wire)
    BY <1>6
  <2>2. M \in [0 .. Len(wire) -> SUBSET Node]
    BY <1>8 DEF Between
  <2> QED BY <1>6, <1>9, <2>1, <2>2
<1>11. \A i \in 0 .. Len(wire) + 1 : Closed(N[i])
  <2>1. ASSUME NEW i \in 0 .. Len(wire) + 1 PROVE Closed(N[i])
    <3>1. i = Len(wire) + 1 \/ i \in 0 .. Len(wire)
      BY <1>6
    <3> QED BY <1>8, <1>10, <3>1 DEF Between
  <2> QED BY <2>1
<1>12. \A i \in 1 .. Len(wire) + 1 : Leads(N[i - 1], wire'[i], N[i])
  <2>1. ASSUME NEW i \in 1 .. Len(wire) + 1 PROVE Leads(N[i - 1], wire'[i], N[i])
    <3>1. CASE i = Len(wire) + 1
      <4>1. i - 1 = Len(wire) /\ Len(wire) \in 0 .. Len(wire)
        BY <1>6, <3>1
      <4>2. N[i - 1] = model
        BY <1>8, <1>10, <4>1 DEF Between
      <4> QED BY <1>6, <1>10, <3>1, <4>2
    <3>2. CASE i # Len(wire) + 1
      <4>1. i \in 1 .. Len(wire) /\ i \in 0 .. Len(wire) /\ i - 1 \in 0 .. Len(wire)
        BY <1>6, <3>2
      <4>2. Leads(M[i - 1], wire[i], M[i])
        BY <1>8, <4>1 DEF Between
      <4> QED BY <1>6, <1>10, <4>1, <4>2
    <3> QED BY <3>1, <3>2
  <2> QED BY <2>1
<1>13. ~stuck' => icons' = N[0] /\ edges' = AllEdges(N[0])
  <2>1. icons' = icons /\ edges' = edges /\ stuck' = stuck
    BY <1>1 DEF shown
  <2>2. N[0] = M[0]
    BY <1>6, <1>10
  <2> QED BY <1>8, <2>1, <2>2 DEF Between
<1>14. Between(N)'
  BY <1>1, <1>6, <1>10, <1>11, <1>12, <1>13 DEF Between
<1>15. Follows'
  BY <1>14 DEF Follows
<1> QED BY <1>3, <1>4, <1>7, <1>15 DEF IInv

LEMMA ModelClosed ==
    ASSUME Served, Follows
    PROVE  Closed(model)
<1>1. PICK M : Between(M)
  BY DEF Follows
<1>2. Len(wire) \in 0 .. Len(wire)
  <2>1. wire \in Seq(Seq(Step))
    BY DEF Served
  <2>2. Len(wire) \in Nat
    BY <2>1, LenProperties
  <2> QED BY <2>2
<1> QED BY <1>1, <1>2 DEF Between

LEMMA CreateKeeps ==
    ASSUME IInv, NEW i \in Icon, Create(i)
    PROVE  IInv'
<1>1. PICK c : c = <<MkNode(i)>>
  OBVIOUS
<1>2. Changes(model \cup {i}, c)
  BY <1>1 DEF Create, MkNode
<1>3. Closed(model) /\ Closed(model \cup {i})
  BY ModelClosed, IconComes DEF IInv
<1>4. Leads(model, c, model \cup {i}) /\ c \in Seq(Step)
  BY <1>1, <1>3, CreateLeads
<1>5. model \cup {i} \in SUBSET Node
  BY <1>3 DEF Closed
<1> QED BY <1>2, <1>3, <1>4, <1>5, ChangesKeeps

LEMMA ConnectKeeps ==
    ASSUME IInv, NEW l \in Link, Connect(l)
    PROVE  IInv'
<1>1. PICK c : c = <<MkNode(l), Segments(l)>>
  OBVIOUS
<1>2. Changes(model \cup {l}, c) /\ l \notin model /\ {From[l], To[l]} \subseteq model
  BY <1>1 DEF Connect, MkNode, Segments
<1>3. Closed(model)
  BY ModelClosed DEF IInv
<1>4. Closed(model \cup {l})
  BY <1>2, <1>3, LinkComes
<1>5. Leads(model, c, model \cup {l}) /\ c \in Seq(Step)
  BY <1>1, <1>2, <1>3, ConnectLeads
<1>6. model \cup {l} \in SUBSET Node
  BY <1>4 DEF Closed
<1> QED BY <1>2, <1>4, <1>5, <1>6, ChangesKeeps

LEMMA RemoveNodeKeeps ==
    ASSUME IInv, NEW n \in Node, RemoveNode(n)
    PROVE  IInv'
<1>1. PICK S : S = LinksAt(n)
  OBVIOUS
<1>2. PICK gone : gone = SetToSeq(S)
  OBVIOUS
<1>3. PICK links : links = FlattenSeq([k \in DOMAIN gone |-> RemovalOf(gone[k])])
  OBVIOUS
<1>4. /\ n \in model
      /\ Changes(model \ ({n} \cup S), IF n \in Link THEN links ELSE Append(links, RmNode(n)))
  BY <1>1, <1>2, <1>3 DEF RemoveNode, RmNode
<1>5. Closed(model)
  BY ModelClosed DEF IInv
<1>6. S \subseteq Link \cap model /\ \A l \in Link \cap model : l \in S <=> n \in {l, From[l], To[l]}
  BY <1>1 DEF LinksAt
<1>7. links \in Seq(Step) /\ Closed(model \ S) /\ Leads(model, links, model \ S)
  BY <1>2, <1>3, <1>5, <1>6, LinksRemoved
<1>8. CASE n \in Link
  <2>1. model \ ({n} \cup S) = model \ S
    BY <1>4, <1>6, <1>8
  <2>2. Changes(model \ S, links)
    BY <1>4, <1>8, <2>1
  <2>3. model \ S \in SUBSET Node
    BY <1>5 DEF Closed
  <2> QED BY <1>7, <2>2, <2>3, ChangesKeeps
<1>9. CASE n \notin Link
  <2>1. PICK ns, c : ns = (model \ S) \ {n} /\ c = Append(links, RmNode(n))
    OBVIOUS
  <2>2. n \in Icon /\ n \in model \ S
    BY <1>4, <1>6, <1>9 DEF Node
  <2>3. \A l \in (model \ S) \cap Link : n \notin {From[l], To[l]}
    BY <1>6
  <2>4. c \in Seq(Step) /\ Leads(model, c, ns)
    BY <1>7, <2>1, <2>2, <2>3, IconRemovalLeads
  <2>5. Closed(ns)
    BY <1>7, <2>1, <2>2, <2>3, IconGoes
  <2>6. Changes(ns, c)
    <3>1. model \ ({n} \cup S) = ns
      BY <2>1
    <3> QED BY <1>4, <1>9, <2>1, <3>1
  <2>7. ns \in SUBSET Node
    BY <2>5 DEF Closed
  <2> QED BY <2>4, <2>5, <2>6, <2>7, ChangesKeeps
<1> QED BY <1>8, <1>9

LEMMA UpdateKeeps ==
    ASSUME IInv, NEW n \in Node, Update(n)
    PROVE  IInv'
<1>1. PICK c : c = <<ChAttr(n)>>
  OBVIOUS
<1>2. Changes(model, c) /\ n \in model
  BY <1>1 DEF Update, ChAttr
<1>3. Closed(model)
  BY ModelClosed DEF IInv
<1>4. Leads(model, c, model) /\ c \in Seq(Step)
  BY <1>1, <1>2, <1>3, UpdateLeads
<1>5. model \in SUBSET Node
  BY <1>3 DEF Closed
<1> QED BY <1>2, <1>3, <1>4, <1>5, ChangesKeeps

LEMMA LoadKeeps ==
    ASSUME IInv, NEW ns \in SUBSET Node, Load(ns)
    PROVE  IInv'
<1>1. PICK c : c = <<Resetm(ns)>>
  OBVIOUS
<1>2. Changes(ns, c)
  BY <1>1 DEF Load, Resetm
<1>3. Closed(ns)
  BY DEF Load, Closed
<1>4. Leads(model, c, ns) /\ c \in Seq(Step)
  BY <1>1, LoadLeads
<1> QED BY <1>2, <1>3, <1>4, ChangesKeeps

-----------------------------------------------------------------------------
(* Steps that show something else.                                         *)

\* What a changelog makes of the client that it reaches.
LEMMA HandledIs ==
    ASSUME IInv, HandleChangelog
    PROVE  /\ Head(wire) = wire[1] /\ Len(wire) \in Nat \ {0}
           /\ \E M : Between(M) /\ Outcome(View, Applied(View, Head(wire)), M[1], Head(wire))
<1>1. wire \in Seq(Seq(Step)) /\ wire # <<>> /\ ~stuck
  BY DEF IInv, Served, HandleChangelog
<1>2. Len(wire) \in Nat \ {0} /\ Head(wire) = wire[1]
  BY <1>1, EmptySeq
<1>3. PICK M : Between(M)
  BY DEF IInv, Follows
<1>4. Leads(M[0], wire[1], M[1])
  <2>1. 1 \in 1 .. Len(wire) /\ 1 - 1 = 0
    BY <1>2
  <2>2. Leads(M[1 - 1], wire[1], M[1])
    BY <1>3, <2>1 DEF Between
  <2> QED BY <2>1, <2>2
<1>5. Shown(View, M[0])
  BY <1>1, <1>3, ViewIs DEF Between, Shown
<1>6. View \in ViewType /\ GoodView(View)
  BY DEF IInv, Viewed
<1>7. Outcome(View, Applied(View, wire[1]), M[1], wire[1])
  BY <1>4, <1>5, <1>6 DEF Leads
<1> QED BY <1>2, <1>3, <1>7

LEMMA HandleChangelogKeeps ==
    ASSUME IInv, HandleChangelog
    PROVE  IInv'
<1>1. PICK v : v = Applied(View, Head(wire))
  OBVIOUS
<1>2. Head(wire) = wire[1] /\ Len(wire) \in Nat \ {0}
  BY HandledIs
<1>3. PICK M : Between(M) /\ Outcome(View, v, M[1], Head(wire))
  BY <1>1, HandledIs
<1>4. /\ Shows(v) /\ state' = v.state /\ stuck' = v.failed /\ wire' = Tail(wire)
      /\ UNCHANGED <<model, changes, docked, gesture, popups>>
  BY <1>1 DEF HandleChangelog
<1>5. v \in ViewType /\ GoodView(v)
  BY <1>3 DEF Outcome
<1>6. state' \in States /\ stuck' \in BOOLEAN
  <2>1. v.state \in States /\ v.failed \in BOOLEAN
    BY <1>5 DEF ViewType
  <2> QED BY <1>4, <2>1
<1>7. Viewed'
  BY <1>4, <1>5, <1>6, ShowsViewed
<1>8. Gestured' /\ Talks'
  <2>1. UNCHANGED <<gesture, docked>> /\ UNCHANGED popups
    BY <1>4
  <2> QED BY <2>1, SameGestured, SameTalks DEF IInv
<1>9. wire \in Seq(Seq(Step)) /\ wire # <<>>
  BY DEF IInv, Served, HandleChangelog
<1>10. /\ wire' \in Seq(Seq(Step)) /\ Len(wire') = Len(wire) - 1
       /\ \A i \in 1 .. Len(wire) - 1 : wire'[i] = wire[i + 1]
  BY <1>4, <1>9, HeadTailProperties
<1>11. Served'
  BY <1>4, <1>6, <1>10 DEF IInv, Served
<1>12. PICK N : N = [i \in 0 .. Len(wire) - 1 |-> M[i + 1]]
  OBVIOUS
<1>13. N \in [0 .. Len(wire) - 1 -> SUBSET Node] /\ \A i \in 0 .. Len(wire) - 1 : N[i] = M[i + 1]
  <2>1. M \in [0 .. Len(wire) -> SUBSET Node]
    BY <1>3 DEF Between
  <2>2. \A i \in 0 .. Len(wire) - 1 : i + 1 \in 0 .. Len(wire)
    BY <1>2
  <2> QED BY <1>12, <2>1, <2>2
<1>14. N[Len(wire) - 1] = model
  <2>1. Len(wire) - 1 \in 0 .. Len(wire) - 1 /\ (Len(wire) - 1) + 1 = Len(wire)
    BY <1>2
  <2> QED BY <1>3, <1>13, <2>1 DEF Between
<1>15. \A i \in 0 .. Len(wire) - 1 : Closed(N[i])
  <2>1. \A i \in 0 .. Len(wire) - 1 : i + 1 \in 0 .. Len(wire)
    BY <1>2
  <2> QED BY <1>3, <1>13, <2>1 DEF Between
<1>16. ASSUME NEW i \in 1 .. Len(wire) - 1 PROVE Leads(N[i - 1], wire'[i], N[i])
  <2>1. /\ i - 1 \in 0 .. Len(wire) - 1 /\ i \in 0 .. Len(wire) - 1
        /\ i + 1 \in 1 .. Len(wire) /\ (i - 1) + 1 = i /\ (i + 1) - 1 = i
    BY <1>2
  <2>2. Leads(M[(i + 1) - 1], wire[i + 1], M[i + 1])
    BY <1>3, <2>1 DEF Between
  <2>3. N[i - 1] = M[i] /\ N[i] = M[i + 1] /\ wire'[i] = wire[i + 1]
    BY <1>10, <1>13, <2>1
  <2> QED BY <2>1, <2>2, <2>3
<1>17. ~stuck' => icons' = N[0] /\ edges' = AllEdges(N[0])
  <2>1. 0 \in 0 .. Len(wire) - 1 /\ 0 + 1 = 1
    BY <1>2
  <2>2. N[0] = M[1]
    BY <1>13, <2>1
  <2>3. ~v.failed => v.icons = M[1] /\ v.edges = AllEdges(M[1])
    BY <1>3 DEF Outcome, Shown
  <2>4. icons' = v.icons /\ edges' = v.edges
    BY <1>4 DEF Shows
  <2> QED BY <1>4, <2>2, <2>3, <2>4
<1>18. model' = model
  BY <1>4
<1>19. Between(N)'
  BY <1>10, <1>13, <1>14, <1>15, <1>16, <1>17, <1>18 DEF Between
<1>20. Follows'
  BY <1>19 DEF Follows
<1> QED BY <1>7, <1>8, <1>11, <1>20 DEF IInv

LEMMA ReselectKeeps ==
    ASSUME IInv, Reselect
    PROVE  IInv'
<1>1. PICK w : w = SelectItems(View, timer.items)
  OBVIOUS
<1>2. PICK u : u = [w EXCEPT !.timer = NoTimer]
  OBVIOUS
<1>3. Shows(u) /\ UNCHANGED <<server, stuck, state, docked, gesture, popups>>
  BY <1>1, <1>2 DEF Reselect
<1>4. View \in ViewType /\ Overlaid(View)
  BY DEF IInv, Viewed, GoodView
<1>5. timer.items \in SUBSET Item
  BY ViewedIs DEF IInv, Timer
<1>6. w \in ViewType /\ GoodView(w) /\ w.icons = View.icons /\ w.edges = View.edges
  BY <1>1, <1>4, <1>5, SelectItemsIs
<1>7. NoTimer \in Timer
  BY DEF NoTimer, Timer
<1>8. u \in ViewType
  BY <1>2, <1>6, <1>7, ViewsChanged
<1>9. /\ u.icons = w.icons /\ u.edges = w.edges /\ u.selection = w.selection
      /\ u.ghost = w.ghost /\ u.controls = w.controls
  <2>1. DOMAIN w = {"icons", "edges", "selection", "ghost", "controls", "timer", "state", "failed"}
    BY <1>6, ViewsChanged
  <2> QED BY <1>2, <2>1
<1>10. GoodView(u)
  BY <1>6, <1>9 DEF GoodView, Overlaid
<1>11. Viewed'
  <2>1. state' \in States
    BY <1>3, ViewedIs DEF IInv
  <2> QED BY <1>3, <1>8, <1>10, <2>1, ShowsViewed
<1>12. UNCHANGED shown
  BY <1>3, <1>6, <1>9, ViewIs DEF Shows, shown
<1>13. UNCHANGED <<server, stuck, shown>> /\ UNCHANGED <<gesture, docked>> /\ UNCHANGED popups
  BY <1>3, <1>12
<1> QED BY <1>11, <1>13, SameFollows, SameGestured, SameTalks DEF IInv

-----------------------------------------------------------------------------
(* Steps of the statechart of the canvas.                                  *)

LEMMA CanvasKeeps ==
    ASSUME IInv, UNCHANGED <<server, stuck, shown>>, Viewed', Gestured', Talks'
    PROVE  IInv'
BY SameFollows DEF IInv

LEMMA StateTyped ==
    ASSUME IInv
    PROVE  /\ state \in States /\ docked \in BOOLEAN
           /\ \A s \in States : T(s) => state' \in States /\ docked' \in BOOLEAN
<1>1. state \in States /\ docked \in BOOLEAN
  BY ViewedIs DEF IInv, Gestured
<1> QED BY <1>1, TIs

LEMMA PressCanvasKeeps ==
    ASSUME IInv, PressCanvas
    PROVE  IInv'
<1>1. state' \in States /\ docked' \in BOOLEAN
  <2>1. "lassoing" \in States
    BY DEF States
  <2> QED BY <2>1, StateTyped DEF PressCanvas
<1>2. Viewed' /\ UNCHANGED shown
  <2>1. UNCHANGED <<shown, select, timer>>
    BY DEF PressCanvas, SameView
  <2> QED BY <1>1, <2>1, SameViewed DEF IInv
<1>3. Gestured'
  BY <1>1 DEF IInv, Gestured, gesture, PressCanvas
<1>4. Talks'
  <2>1. UNCHANGED popups
    BY DEF PressCanvas
  <2> QED BY <2>1, SameTalks DEF IInv
<1>5. UNCHANGED <<server, stuck>>
  BY DEF PressCanvas, Quiet
<1> QED BY <1>2, <1>3, <1>4, <1>5, CanvasKeeps

LEMMA PressRightKeeps ==
    ASSUME IInv, NEW n \in Node, PressRight(n)
    PROVE  IInv'
<1>1. state' \in States /\ docked' \in BOOLEAN
  <2>1. "drawing" \in States
    BY DEF States
  <2> QED BY <2>1, StateTyped DEF PressRight
<1>2. Viewed' /\ UNCHANGED shown
  <2>1. UNCHANGED <<shown, select, timer>>
    BY DEF PressRight, SameView
  <2> QED BY <1>1, <2>1, SameViewed DEF IInv
<1>3. Gestured'
  BY <1>1 DEF IInv, Gestured, gesture, PressRight
<1>4. Talks'
  <2>1. UNCHANGED popups
    BY DEF PressRight
  <2> QED BY <2>1, SameTalks DEF IInv
<1>5. UNCHANGED <<server, stuck>>
  BY DEF PressRight, Quiet
<1> QED BY <1>2, <1>3, <1>4, <1>5, CanvasKeeps

LEMMA CancelPathKeeps ==
    ASSUME IInv, CancelPath
    PROVE  IInv'
<1>1. state' \in States /\ docked' \in BOOLEAN
  <2>1. "idle" \in States
    BY DEF States
  <2> QED BY <2>1, StateTyped DEF CancelPath
<1>2. Viewed' /\ UNCHANGED shown
  <2>1. UNCHANGED <<shown, select, timer>>
    BY DEF CancelPath, SameView
  <2> QED BY <1>1, <2>1, SameViewed DEF IInv
<1>3. Gestured'
  BY <1>1 DEF IInv, Gestured, gesture, CancelPath
<1>4. Talks'
  <2>1. UNCHANGED popups
    BY DEF CancelPath
  <2> QED BY <2>1, SameTalks DEF IInv
<1>5. UNCHANGED <<server, stuck>>
  BY DEF CancelPath, Quiet
<1> QED BY <1>2, <1>3, <1>4, <1>5, CanvasKeeps

LEMMA ReleaseShortKeeps ==
    ASSUME IInv, ReleaseShort
    PROVE  IInv'
<1>1. state' \in States /\ docked' \in BOOLEAN
  <2>1. "idle" \in States
    BY DEF States
  <2> QED BY <2>1, StateTyped DEF ReleaseShort
<1>2. Viewed' /\ UNCHANGED shown
  <2>1. UNCHANGED <<shown, select, timer>>
    BY DEF ReleaseShort, SameView
  <2> QED BY <1>1, <2>1, SameViewed DEF IInv
<1>3. Gestured'
  BY <1>1 DEF IInv, Gestured, gesture, ReleaseShort
<1>4. Talks'
  <2>1. UNCHANGED popups
    BY DEF ReleaseShort
  <2> QED BY <2>1, SameTalks DEF IInv
<1>5. UNCHANGED <<server, stuck>>
  BY DEF ReleaseShort, Quiet
<1> QED BY <1>2, <1>3, <1>4, <1>5, CanvasKeeps

LEMMA StopEditingKeeps ==
    ASSUME IInv, StopEditing
    PROVE  IInv'
<1>1. state' \in States /\ docked' \in BOOLEAN
  <2>1. "idle" \in States
    BY DEF States
  <2> QED BY <2>1, StateTyped DEF StopEditing
<1>2. Viewed' /\ UNCHANGED shown
  <2>1. UNCHANGED <<shown, select, timer>>
    BY DEF StopEditing, SameView
  <2> QED BY <1>1, <2>1, SameViewed DEF IInv
<1>3. Gestured'
  BY <1>1 DEF IInv, Gestured, gesture, StopEditing, HideConnectionPathEditingOverlay
<1>4. Talks'
  <2>1. UNCHANGED popups
    BY DEF StopEditing
  <2> QED BY <2>1, SameTalks DEF IInv
<1>5. UNCHANGED <<server, stuck>>
  BY DEF StopEditing, Quiet
<1> QED BY <1>2, <1>3, <1>4, <1>5, CanvasKeeps

LEMMA AddOrDeleteControlPointKeeps ==
    ASSUME IInv, NEW e \in Edge, AddOrDeleteControlPoint(e)
    PROVE  IInv'
<1>1. state' \in States /\ docked' \in BOOLEAN
  BY StateTyped DEF AddOrDeleteControlPoint
<1>2. Viewed' /\ UNCHANGED shown
  <2>1. UNCHANGED <<shown, select, timer>>
    BY DEF AddOrDeleteControlPoint, SameView
  <2> QED BY <1>1, <2>1, SameViewed DEF IInv
<1>3. Gestured'
  BY <1>1 DEF IInv, Gestured, gesture, AddOrDeleteControlPoint
<1>4. Talks'
  <2>1. UNCHANGED popups
    BY DEF AddOrDeleteControlPoint
  <2> QED BY <2>1, SameTalks DEF IInv
<1>5. UNCHANGED <<server, stuck>>
  BY DEF AddOrDeleteControlPoint, Quiet
<1> QED BY <1>2, <1>3, <1>4, <1>5, CanvasKeeps

LEMMA PressControlPointKeeps ==
    ASSUME IInv, NEW e \in Edge, PressControlPoint(e)
    PROVE  IInv'
<1>1. state' \in States /\ docked' \in BOOLEAN
  <2>1. "bending" \in States
    BY DEF States
  <2> QED BY <2>1, StateTyped DEF PressControlPoint
<1>2. Viewed' /\ UNCHANGED shown
  <2>1. UNCHANGED <<shown, select, timer>>
    BY DEF PressControlPoint, SameView
  <2> QED BY <1>1, <2>1, SameViewed DEF IInv
<1>3. Gestured'
  BY <1>1 DEF IInv, Gestured, gesture, PressControlPoint
<1>4. Talks'
  <2>1. UNCHANGED popups
    BY DEF PressControlPoint
  <2> QED BY <2>1, SameTalks DEF IInv
<1>5. UNCHANGED <<server, stuck>>
  BY DEF PressControlPoint, Quiet
<1> QED BY <1>2, <1>3, <1>4, <1>5, CanvasKeeps

LEMMA ReleaseControlPointKeeps ==
    ASSUME IInv, ReleaseControlPoint
    PROVE  IInv'
<1>1. state' \in States /\ docked' \in BOOLEAN
  <2>1. "editing" \in States
    BY DEF States
  <2> QED BY <2>1, StateTyped DEF ReleaseControlPoint
<1>2. Viewed' /\ UNCHANGED shown
  <2>1. UNCHANGED <<shown, select, timer>>
    BY DEF ReleaseControlPoint, SameView
  <2> QED BY <1>1, <2>1, SameViewed DEF IInv
<1>3. Gestured'
  BY <1>1 DEF IInv, Gestured, gesture, ReleaseControlPoint
<1>4. Talks'
  <2>1. UNCHANGED popups
    BY DEF ReleaseControlPoint
  <2> QED BY <2>1, SameTalks DEF IInv
<1>5. UNCHANGED <<server, stuck>>
  BY DEF ReleaseControlPoint, Quiet
<1> QED BY <1>2, <1>3, <1>4, <1>5, CanvasKeeps

LEMMA DeleteKeeps ==
    ASSUME IInv, Delete
    PROVE  IInv'
<1>1. state' \in States /\ docked' \in BOOLEAN
  <2>1. "idle" \in States
    BY DEF States
  <2> QED BY <2>1, StateTyped DEF Delete
<1>2. Viewed' /\ UNCHANGED shown
  <2>1. Deselect
    BY DEF Delete
  <2> QED BY <1>1, <2>1, DeselectShows DEF IInv
<1>3. Gestured'
  BY <1>1 DEF IInv, Gestured, gesture, Delete
<1>4. Talks'
  <2>1. UNCHANGED popups
    BY DEF Delete
  <2> QED BY <2>1, SameTalks DEF IInv
<1>5. UNCHANGED <<server, stuck>>
  BY DEF Delete, Quiet
<1> QED BY <1>2, <1>3, <1>4, <1>5, CanvasKeeps

LEMMA LeaveKeeps ==
    ASSUME IInv, Leave
    PROVE  IInv'
<1>1. state' \in States /\ docked' \in BOOLEAN
  <2>1. "idle" \in States
    BY DEF States
  <2> QED BY <2>1, StateTyped DEF Leave
<1>2. Viewed' /\ UNCHANGED shown
  <2>1. Deselect
    BY DEF Leave
  <2> QED BY <1>1, <2>1, DeselectShows DEF IInv
<1>3. Gestured'
  BY <1>1 DEF IInv, Gestured, gesture, Leave
<1>4. Talks'
  <2>1. UNCHANGED popups
    BY DEF Leave
  <2> QED BY <2>1, SameTalks DEF IInv
<1>5. UNCHANGED <<server, stuck>>
  BY DEF Leave, Quiet
<1> QED BY <1>2, <1>3, <1>4, <1>5, CanvasKeeps

LEMMA EditConnectionPathsKeeps ==
    ASSUME IInv, EditConnectionPaths
    PROVE  IInv'
<1>1. state' \in States /\ docked' \in BOOLEAN
  <2>1. "editing" \in States
    BY DEF States
  <2> QED BY <2>1, StateTyped DEF EditConnectionPaths
<1>2. Viewed' /\ UNCHANGED shown
  <2>1. Deselect
    BY DEF EditConnectionPaths
  <2> QED BY <1>1, <2>1, DeselectShows DEF IInv
<1>3. Gestured'
  <2>1. selection \cap edges \subseteq Edge
    BY ViewedIs DEF IInv
  <2> QED BY <1>1, <2>1 DEF IInv, Gestured, EditConnectionPaths
<1>4. Talks'
  <2>1. UNCHANGED popups
    BY DEF EditConnectionPaths
  <2> QED BY <2>1, SameTalks DEF IInv
<1>5. UNCHANGED <<server, stuck>>
  BY DEF EditConnectionPaths, Quiet
<1> QED BY <1>2, <1>3, <1>4, <1>5, CanvasKeeps

LEMMA PressSelectionKeeps ==
    ASSUME IInv, PressSelection
    PROVE  IInv'
<1>1. state' \in States /\ docked' \in BOOLEAN
  <2>1. "dragging" \in States
    BY DEF States
  <2> QED BY <2>1, StateTyped DEF PressSelection
<1>2. Viewed' /\ UNCHANGED shown
  <2>1. ghost \in BOOLEAN /\ controls \in BOOLEAN /\ (ghost \/ controls => selection # {})
    BY ViewedIs DEF IInv, SelectionShown
  <2>2. /\ UNCHANGED <<shown, selection, timer>> /\ ghost' \in BOOLEAN /\ controls' \in BOOLEAN
        /\ ghost' \/ controls' => selection # {}
    BY <2>1 DEF PressSelection
  <2> QED BY <1>1, <2>2, OverlaysViewed DEF IInv
<1>3. Gestured'
  BY <1>1 DEF IInv, Gestured, gesture, PressSelection
<1>4. Talks'
  <2>1. UNCHANGED popups
    BY DEF PressSelection
  <2> QED BY <2>1, SameTalks DEF IInv
<1>5. UNCHANGED <<server, stuck>>
  BY DEF PressSelection, Quiet
<1> QED BY <1>2, <1>3, <1>4, <1>5, CanvasKeeps

LEMMA ShowGeometryControlsKeeps ==
    ASSUME IInv, ShowGeometryControls
    PROVE  IInv'
<1>1. state' \in States /\ docked' \in BOOLEAN
  BY StateTyped DEF ShowGeometryControls
<1>2. Viewed' /\ UNCHANGED shown
  <2>1. ghost \in BOOLEAN /\ controls \in BOOLEAN /\ (ghost \/ controls => selection # {})
    BY ViewedIs DEF IInv, SelectionShown
  <2>2. /\ UNCHANGED <<shown, selection, timer>> /\ ghost' \in BOOLEAN /\ controls' \in BOOLEAN
        /\ ghost' \/ controls' => selection # {}
    BY <2>1 DEF ShowGeometryControls
  <2> QED BY <1>1, <2>2, OverlaysViewed DEF IInv
<1>3. Gestured'
  BY <1>1 DEF IInv, Gestured, gesture, ShowGeometryControls
<1>4. Talks'
  <2>1. UNCHANGED popups
    BY DEF ShowGeometryControls
  <2> QED BY <2>1, SameTalks DEF IInv
<1>5. UNCHANGED <<server, stuck>>
  BY DEF ShowGeometryControls, Quiet
<1> QED BY <1>2, <1>3, <1>4, <1>5, CanvasKeeps

LEMMA HideGeometryControlsKeeps ==
    ASSUME IInv, HideGeometryControls
    PROVE  IInv'
<1>1. state' \in States /\ docked' \in BOOLEAN
  BY StateTyped DEF HideGeometryControls
<1>2. Viewed' /\ UNCHANGED shown
  <2>1. ghost \in BOOLEAN /\ controls \in BOOLEAN /\ (ghost \/ controls => selection # {})
    BY ViewedIs DEF IInv, SelectionShown
  <2>2. /\ UNCHANGED <<shown, selection, timer>> /\ ghost' \in BOOLEAN /\ controls' \in BOOLEAN
        /\ ghost' \/ controls' => selection # {}
    BY <2>1 DEF HideGeometryControls
  <2> QED BY <1>1, <2>2, OverlaysViewed DEF IInv
<1>3. Gestured'
  BY <1>1 DEF IInv, Gestured, gesture, HideGeometryControls
<1>4. Talks'
  <2>1. UNCHANGED popups
    BY DEF HideGeometryControls
  <2> QED BY <2>1, SameTalks DEF IInv
<1>5. UNCHANGED <<server, stuck>>
  BY DEF HideGeometryControls, Quiet
<1> QED BY <1>2, <1>3, <1>4, <1>5, CanvasKeeps

LEMMA SnapSelectionToGridKeeps ==
    ASSUME IInv, SnapSelectionToGrid
    PROVE  IInv'
<1>1. state' \in States /\ docked' \in BOOLEAN
  BY StateTyped DEF SnapSelectionToGrid
<1>2. Viewed' /\ UNCHANGED shown
  <2>1. ghost \in BOOLEAN /\ controls \in BOOLEAN /\ (ghost \/ controls => selection # {})
    BY ViewedIs DEF IInv, SelectionShown
  <2>2. /\ UNCHANGED <<shown, selection, timer>> /\ ghost' \in BOOLEAN /\ controls' \in BOOLEAN
        /\ ghost' \/ controls' => selection # {}
    BY <2>1 DEF SnapSelectionToGrid
  <2> QED BY <1>1, <2>2, OverlaysViewed DEF IInv
<1>3. Gestured'
  BY <1>1 DEF IInv, Gestured, gesture, SnapSelectionToGrid
<1>4. Talks'
  <2>1. UNCHANGED popups
    BY DEF SnapSelectionToGrid
  <2> QED BY <2>1, SameTalks DEF IInv
<1>5. UNCHANGED <<server, stuck>>
  BY DEF SnapSelectionToGrid, Quiet
<1> QED BY <1>2, <1>3, <1>4, <1>5, CanvasKeeps

LEMMA ConfirmTransformationKeeps ==
    ASSUME IInv, ConfirmTransformation
    PROVE  IInv'
<1>1. state' \in States /\ docked' \in BOOLEAN
  BY StateTyped DEF ConfirmTransformation
<1>2. Viewed' /\ UNCHANGED shown
  <2>1. ghost \in BOOLEAN /\ controls \in BOOLEAN /\ (ghost \/ controls => selection # {})
    BY ViewedIs DEF IInv, SelectionShown
  <2>2. /\ UNCHANGED <<shown, selection, timer>> /\ ghost' \in BOOLEAN /\ controls' \in BOOLEAN
        /\ ghost' \/ controls' => selection # {}
    BY <2>1 DEF ConfirmTransformation, TransformSelection
  <2> QED BY <1>1, <2>2, OverlaysViewed DEF IInv
<1>3. Gestured'
  BY <1>1 DEF IInv, Gestured, gesture, ConfirmTransformation
<1>4. Talks'
  <2>1. UNCHANGED popups
    BY DEF ConfirmTransformation
  <2> QED BY <2>1, SameTalks DEF IInv
<1>5. UNCHANGED <<server, stuck>>
  BY DEF ConfirmTransformation, Quiet
<1> QED BY <1>2, <1>3, <1>4, <1>5, CanvasKeeps

LEMMA CancelDragKeeps ==
    ASSUME IInv, CancelDrag
    PROVE  IInv'
<1>1. state' \in States /\ docked' \in BOOLEAN
  <2>1. "selected" \in States
    BY DEF States
  <2> QED BY <2>1, StateTyped DEF CancelDrag
<1>2. Viewed' /\ UNCHANGED shown
  <2>1. ghost \in BOOLEAN /\ controls \in BOOLEAN /\ (ghost \/ controls => selection # {})
    BY ViewedIs DEF IInv, SelectionShown
  <2>2. /\ UNCHANGED <<shown, selection, timer>> /\ ghost' \in BOOLEAN /\ controls' \in BOOLEAN
        /\ ghost' \/ controls' => selection # {}
    BY <2>1 DEF CancelDrag
  <2> QED BY <1>1, <2>2, OverlaysViewed DEF IInv
<1>3. Gestured'
  BY <1>1 DEF IInv, Gestured, gesture, CancelDrag
<1>4. Talks'
  <2>1. UNCHANGED popups
    BY DEF CancelDrag
  <2> QED BY <2>1, SameTalks DEF IInv
<1>5. UNCHANGED <<server, stuck>>
  BY DEF CancelDrag, Quiet
<1> QED BY <1>2, <1>3, <1>4, <1>5, CanvasKeeps

LEMMA DropKeeps ==
    ASSUME IInv, Drop
    PROVE  IInv'
<1>1. state' \in States /\ docked' \in BOOLEAN
  <2>1. "selected" \in States
    BY DEF States
  <2> QED BY <2>1, StateTyped DEF Drop
<1>2. Viewed' /\ UNCHANGED shown
  <2>1. ghost \in BOOLEAN /\ controls \in BOOLEAN /\ (ghost \/ controls => selection # {})
    BY ViewedIs DEF IInv, SelectionShown
  <2>2. UNCHANGED <<shown, selection, timer>> /\ TransformSelection
    BY DEF Drop
  <2>3. ghost' \in BOOLEAN /\ controls' \in BOOLEAN /\ (ghost' \/ controls' => selection # {})
    <3>1. CASE ghost' = ghost /\ controls' = controls
      BY <2>1, <3>1
    <3>2. CASE ghost' = FALSE /\ controls' = FALSE
      BY <3>2
    <3> QED BY <2>2, <3>1, <3>2 DEF TransformSelection
  <2> QED BY <1>1, <2>2, <2>3, OverlaysViewed DEF IInv
<1>3. Gestured'
  BY <1>1 DEF IInv, Gestured, gesture, Drop
<1>4. Talks'
  <2>1. UNCHANGED popups
    BY DEF Drop
  <2> QED BY <2>1, SameTalks DEF IInv
<1>5. UNCHANGED <<server, stuck>>
  BY DEF Drop, Quiet
<1> QED BY <1>2, <1>3, <1>4, <1>5, CanvasKeeps

LEMMA ClickIconKeeps ==
    ASSUME IInv, NEW n \in Node, ClickIcon(n)
    PROVE  IInv'
<1>1. state' \in States /\ docked' \in BOOLEAN
  <2>1. "selected" \in States
    BY DEF States
  <2> QED BY <2>1, StateTyped DEF ClickIcon
<1>2. Viewed' /\ UNCHANGED shown
  <2>1. PICK items : items = (IF n \in Link THEN Connection(n, edges) ELSE {n}) /\ items \subseteq Item
    <3>1. edges \subseteq Edge
      BY ViewedIs DEF IInv
    <3>2. (IF n \in Link THEN Connection(n, edges) ELSE {n}) \subseteq Item
      BY <3>1 DEF Connection, EdgesAt, Item
    <3> QED BY <3>2
  <2>2. Select(items)
    BY <2>1 DEF ClickIcon
  <2> QED BY <1>1, <2>1, <2>2, SelectShows DEF IInv
<1>3. Gestured'
  BY <1>1 DEF IInv, Gestured, gesture, ClickIcon
<1>4. Talks'
  <2>1. UNCHANGED popups
    BY DEF ClickIcon
  <2> QED BY <2>1, SameTalks DEF IInv
<1>5. UNCHANGED <<server, stuck>>
  BY DEF ClickIcon, Quiet
<1> QED BY <1>2, <1>3, <1>4, <1>5, CanvasKeeps

LEMMA CodedSelectionKeeps ==
    ASSUME IInv, NEW found \in SUBSET Node, CodedSelection(found)
    PROVE  IInv'
<1>1. state' \in States /\ docked' \in BOOLEAN
  <2>1. "selected" \in States
    BY DEF States
  <2> QED BY <2>1, StateTyped DEF CodedSelection
<1>2. Viewed' /\ UNCHANGED shown
  <2>1. PICK items : items = found \cup UNION { Connection(l, edges) : l \in found \cap Link } /\ items \subseteq Item
    <3>1. edges \subseteq Edge
      BY ViewedIs DEF IInv
    <3>2. \A l \in found \cap Link : Connection(l, edges) \subseteq Item
      BY <3>1 DEF Connection, EdgesAt, Item
    <3>3. found \cup UNION { Connection(l, edges) : l \in found \cap Link } \subseteq Item
      BY <3>2 DEF Item
    <3> QED BY <3>3
  <2>2. Select(items)
    BY <2>1 DEF CodedSelection
  <2> QED BY <1>1, <2>1, <2>2, SelectShows DEF IInv
<1>3. Gestured'
  BY <1>1 DEF IInv, Gestured, gesture, CodedSelection
<1>4. Talks'
  <2>1. UNCHANGED popups
    BY DEF CodedSelection
  <2> QED BY <2>1, SameTalks DEF IInv
<1>5. UNCHANGED <<server, stuck>>
  BY DEF CodedSelection, Quiet
<1> QED BY <1>2, <1>3, <1>4, <1>5, CanvasKeeps

LEMMA ReleaseLassoKeeps ==
    ASSUME IInv, NEW items \in SUBSET (Node \cup Edge), ReleaseLasso(items)
    PROVE  IInv'
<1>1. state' \in States /\ docked' \in BOOLEAN
  <2>1. PICK s \in States : T(s)
    <3>1. (IF selection' = {} THEN "idle" ELSE "selected") \in States
      BY DEF States
    <3> QED BY <3>1 DEF ReleaseLasso
  <2> QED BY <2>1, StateTyped
<1>2. Viewed' /\ UNCHANGED shown
  <2>1. items \subseteq Item /\ Select(items)
    BY DEF ReleaseLasso, Item
  <2> QED BY <1>1, <2>1, SelectShows DEF IInv
<1>3. Gestured'
  BY <1>1 DEF IInv, Gestured, ReleaseLasso
<1>4. Talks'
  <2>1. UNCHANGED popups
    BY DEF ReleaseLasso
  <2> QED BY <2>1, SameTalks DEF IInv
<1>5. UNCHANGED <<server, stuck>>
  BY DEF ReleaseLasso, Quiet
<1> QED BY <1>2, <1>3, <1>4, <1>5, CanvasKeeps

-----------------------------------------------------------------------------
(* Steps of the dialogs.                                                   *)

LEMMA FrontIs ==
    ASSUME NEW S, NEW d \in Seq(S), d # <<>>
    PROVE  Front(d) \in Seq(S) /\ Len(Front(d)) = Len(d) - 1 /\ Len(d) \in Nat \ {0}
<1>1. Len(d) \in Nat \ {0}
  BY EmptySeq
<1>2. PICK s \in Seq(S), e \in S : d = Append(s, e)
  BY SequenceEmptyOrAppend
<1>3. Len(d) = Len(s) + 1 /\ Len(s) \in Nat
  BY <1>2, AppendProperties, LenProperties
<1>4. Front(d) = SubSeq(d, 1, Len(d) - 1)
  BY DEF Front
<1>5. SubSeq(d, 1, Len(d) - 1) \in Seq(S) /\ Len(SubSeq(d, 1, Len(d) - 1)) = Len(d) - 1
  <2>1. PICK m : m = Len(d) - 1
    OBVIOUS
  <2>2. 1 \in Int /\ m \in Int /\ m \in Nat /\ \A i \in 1 .. m : i \in 1 .. Len(d)
    BY <1>1, <2>1
  <2>3. \A i \in 1 .. m : d[i] \in S
    BY <2>2, ElementOfSeq
  <2>4. SubSeq(d, 1, m) \in Seq(S) /\ Len(SubSeq(d, 1, m)) = IF 1 <= m THEN m - 1 + 1 ELSE 0
    BY <2>2, <2>3, SubSeqProperties
  <2> QED BY <2>1, <2>2, <2>4
<1> QED BY <1>1, <1>4, <1>5

\* A dialog is opened, on a stack d that is typed and has room.
LEMMA PushedTalks ==
    ASSUME NEW d \in Seq(DialogKinds), Len(d) < MaxDialog, NEW k \in DialogKinds, Pushed(d, k)
    PROVE  Talks'
<1>1. dialogs' = Append(d, k) /\ active' = "dialog" /\ chart' = "open"
  BY DEF Pushed
<1>2. dialogs' \in Seq(DialogKinds) /\ Len(dialogs') = Len(d) + 1 /\ dialogs' # <<>>
  BY <1>1, AppendProperties
<1>3. Len(dialogs') <= MaxDialog
  <2>1. Len(d) \in Nat /\ MaxDialog \in Nat
    BY CanvasAssumption, LenProperties
  <2> QED BY <1>2, <2>1
<1> QED BY <1>1, <1>2, <1>3 DEF Talks, DialogsHaveEvents

\* The one on top is closed.
LEMMA PoppedTalks ==
    ASSUME Talks, active = "dialog", Popped(dialogs)
    PROVE  Talks'
<1>1. dialogs \in Seq(DialogKinds) /\ dialogs # <<>> /\ chart = "open" /\ Len(dialogs) <= MaxDialog
  BY DEF Talks, DialogsHaveEvents
<1>2. Front(dialogs) \in Seq(DialogKinds) /\ Len(Front(dialogs)) = Len(dialogs) - 1 /\ Len(dialogs) \in Nat \ {0}
  BY <1>1, FrontIs
<1>3. /\ dialogs' = Front(dialogs)
      /\ active' = IF Len(dialogs) = 1 THEN "canvas" ELSE active
      /\ chart' = IF Len(dialogs) = 1 THEN "closed" ELSE chart
  BY DEF Popped
<1>4. dialogs' \in Seq(DialogKinds) /\ Len(dialogs') = Len(dialogs) - 1 /\ Len(dialogs') <= MaxDialog
  <2>1. MaxDialog \in Nat
    BY CanvasAssumption
  <2> QED BY <1>1, <1>2, <1>3, <2>1
<1>5. dialogs' = <<>> <=> Len(dialogs) = 1
  <2>1. dialogs' = <<>> => Len(dialogs') = 0
    BY EmptySeq
  <2>2. dialogs' # <<>> => Len(dialogs') # 0
    BY <1>4, EmptySeq
  <2> QED BY <1>2, <1>4, <2>1, <2>2
<1> QED BY <1>1, <1>3, <1>4, <1>5 DEF Talks, DialogsHaveEvents

\* The overlays, after the callback of a dialog
LEMMA CalledBack ==
    ASSUME IInv, UNCHANGED <<ghost, controls>> \/ TransformSelection,
           UNCHANGED <<shown, selection, timer, state>>
    PROVE  Viewed'
<1>1. ghost \in BOOLEAN /\ controls \in BOOLEAN /\ (ghost \/ controls => selection # {}) /\ state \in States
  BY ViewedIs DEF IInv, SelectionShown
<1>2. ghost' \in BOOLEAN /\ controls' \in BOOLEAN /\ (ghost' \/ controls' => selection # {})
  <2>1. CASE ghost' = ghost /\ controls' = controls
    BY <1>1, <2>1
  <2>2. CASE ghost' = FALSE /\ controls' = FALSE
    BY <2>2
  <2> QED BY <2>1, <2>2 DEF TransformSelection
<1>3. UNCHANGED <<shown, selection, timer>> /\ state' \in States
  BY <1>1
<1> QED BY <1>2, <1>3, OverlaysViewed DEF IInv

LEMMA OpenDialogKeeps ==
    ASSUME IInv, NEW k \in DialogKinds, OpenDialog(k)
    PROVE  IInv'
<1>1. dialogs \in Seq(DialogKinds) /\ Len(dialogs) < MaxDialog /\ Pushed(dialogs, k)
  BY DEF IInv, Talks, OpenDialog, Room
<1>2. Talks'
  BY <1>1, PushedTalks
<1>3. UNCHANGED <<server, shown, stuck, select, timer, state, docked, gesture>>
  BY DEF OpenDialog
<1>4. Viewed'
  <2>1. UNCHANGED <<shown, select, timer>> /\ state' \in States
    BY <1>3, ViewedIs DEF IInv
  <2> QED BY <2>1, SameViewed DEF IInv
<1>5. Gestured' /\ UNCHANGED <<server, stuck, shown>>
  BY <1>3, SameGestured DEF IInv
<1> QED BY <1>2, <1>4, <1>5, CanvasKeeps

LEMMA ReleaseOnIconKeeps ==
    ASSUME IInv, ReleaseOnIcon
    PROVE  IInv'
<1>1. state' \in States /\ docked' \in BOOLEAN
  <2>1. "idle" \in States
    BY DEF States
  <2> QED BY <2>1, StateTyped DEF ReleaseOnIcon
<1>2. Viewed' /\ UNCHANGED shown
  <2>1. UNCHANGED <<shown, select, timer>>
    BY DEF ReleaseOnIcon, SameView
  <2> QED BY <1>1, <2>1, SameViewed DEF IInv
<1>3. Gestured'
  BY <1>1 DEF IInv, Gestured, ReleaseOnIcon
<1>4. Talks'
  <2>1. CASE UNCHANGED popups
    BY <2>1, SameTalks DEF IInv
  <2>2. CASE Room /\ Pushed(dialogs, "note")
    <3>1. dialogs \in Seq(DialogKinds) /\ Len(dialogs) < MaxDialog /\ "note" \in DialogKinds
      BY <2>2 DEF IInv, Talks, Room, DialogKinds
    <3> QED BY <2>2, <3>1, PushedTalks
  <2> QED BY <2>1, <2>2 DEF ReleaseOnIcon
<1>5. UNCHANGED <<server, stuck>>
  BY DEF ReleaseOnIcon, Quiet
<1> QED BY <1>2, <1>3, <1>4, <1>5, CanvasKeeps

LEMMA DropAndChooseKeeps ==
    ASSUME IInv, DropAndChoose
    PROVE  IInv'
<1>1. state' \in States /\ docked' \in BOOLEAN
  <2>1. "selected" \in States
    BY DEF States
  <2> QED BY <2>1, StateTyped DEF DropAndChoose
<1>2. Viewed' /\ UNCHANGED shown
  <2>1. UNCHANGED <<shown, select, timer>>
    BY DEF DropAndChoose, SameView
  <2> QED BY <1>1, <2>1, SameViewed DEF IInv
<1>3. Gestured'
  BY <1>1 DEF IInv, Gestured, gesture, DropAndChoose
<1>4. Talks'
  <2>1. dialogs \in Seq(DialogKinds) /\ Len(dialogs) < MaxDialog /\ "drop" \in DialogKinds
    BY DEF IInv, Talks, Room, DialogKinds, DropAndChoose
  <2>2. Pushed(dialogs, "drop")
    BY DEF DropAndChoose
  <2> QED BY <2>1, <2>2, PushedTalks
<1>5. UNCHANGED <<server, stuck>>
  BY DEF DropAndChoose, Quiet
<1> QED BY <1>2, <1>3, <1>4, <1>5, CanvasKeeps

LEMMA CancelDialogKeeps ==
    ASSUME IInv, CancelDialog
    PROVE  IInv'
<1>1. Talks'
  <2>1. active = "dialog" /\ Popped(dialogs)
    BY DEF CancelDialog
  <2> QED BY <2>1, PoppedTalks DEF IInv
<1>2. UNCHANGED <<server, shown, stuck, select, timer, state, docked, gesture>>
  BY DEF CancelDialog
<1>3. Viewed'
  <2>1. UNCHANGED <<shown, select, timer>> /\ state' \in States
    BY <1>2, ViewedIs DEF IInv
  <2> QED BY <2>1, SameViewed DEF IInv
<1>4. Gestured' /\ UNCHANGED <<server, stuck, shown>>
  BY <1>2, SameGestured DEF IInv
<1> QED BY <1>1, <1>3, <1>4, CanvasKeeps

LEMMA ClickOkKeeps ==
    ASSUME IInv, NEW k, ClickOk(k)
    PROVE  IInv'
<1>1. /\ active = "dialog" /\ CallBack(dialogs[k])
      /\ Popped(dialogs) \/ Pushed(Front(dialogs), "note")
      /\ UNCHANGED <<server, shown, stuck, selection, timer, state, docked, gesture>>
  BY DEF ClickOk
<1>2. Talks'
  <2>1. CASE Popped(dialogs)
    BY <1>1, <2>1, PoppedTalks DEF IInv
  <2>2. CASE Pushed(Front(dialogs), "note")
    <3>1. dialogs \in Seq(DialogKinds) /\ dialogs # <<>> /\ Len(dialogs) <= MaxDialog
      BY <1>1 DEF IInv, Talks, DialogsHaveEvents
    <3>2. PICK d \in Seq(DialogKinds) : d = Front(dialogs) /\ Len(d) = Len(dialogs) - 1 /\ Len(dialogs) \in Nat
      BY <3>1, FrontIs
    <3>3. Len(d) < MaxDialog /\ "note" \in DialogKinds
      <4>1. MaxDialog \in Nat
        BY CanvasAssumption
      <4> QED BY <3>1, <3>2, <4>1 DEF DialogKinds
    <3> QED BY <2>2, <3>2, <3>3, PushedTalks
  <2> QED BY <1>1, <2>1, <2>2
<1>3. UNCHANGED <<ghost, controls>> \/ TransformSelection
  BY <1>1 DEF CallBack
<1>4. Viewed'
  <2>1. UNCHANGED <<shown, selection, timer, state>>
    BY <1>1
  <2> QED BY <1>3, <2>1, CalledBack
<1>5. Gestured' /\ UNCHANGED <<server, stuck, shown>>
  BY <1>1, SameGestured DEF IInv
<1> QED BY <1>2, <1>4, <1>5, CanvasKeeps

LEMMA PressEnterKeeps ==
    ASSUME IInv, PressEnter
    PROVE  IInv'
<1>1. /\ active = "dialog"
      /\ UNCHANGED <<server, shown, stuck, selection, timer, state, docked, gesture>>
  BY DEF PressEnter
<1>2. \/ Popped(dialogs) /\ UNCHANGED <<ghost, controls>>
      \/ Popped(dialogs) /\ CallBack(dialogs[1])
      \/ chart' = "open" /\ UNCHANGED <<dialogs, active, ghost, controls>>
  BY DEF PressEnter
<1>3. Talks'
  <2>1. CASE Popped(dialogs)
    BY <1>1, <2>1, PoppedTalks DEF IInv
  <2>2. CASE chart' = "open" /\ UNCHANGED <<dialogs, active, ghost, controls>>
    BY <1>1, <2>2 DEF IInv, Talks, DialogsHaveEvents
  <2> QED BY <1>2, <2>1, <2>2
<1>4. UNCHANGED <<ghost, controls>> \/ TransformSelection
  BY <1>2 DEF CallBack
<1>5. Viewed'
  <2>1. UNCHANGED <<shown, selection, timer, state>>
    BY <1>1
  <2> QED BY <1>4, <2>1, CalledBack
<1>6. Gestured' /\ UNCHANGED <<server, stuck, shown>>
  BY <1>1, SameGestured DEF IInv
<1> QED BY <1>3, <1>5, <1>6, CanvasKeeps

-----------------------------------------------------------------------------
(* The invariant holds.                                                    *)

LEMMA InitInvariant == Init => IInv
<1> SUFFICES ASSUME Init PROVE IInv
  OBVIOUS
<1>1. Closed(model)
  BY DEF Init, Closed
<1>2. wire = <<>> /\ wire \in Seq(Seq(Step)) /\ Len(wire) = 0
  BY EmptySeq DEF Init
<1>3. Served
  <2>1. MaxChange \in Nat
    BY CanvasAssumption
  <2>2. 0 \in 0 .. MaxChange
    BY <2>1
  <2> QED BY <1>1, <1>2, <2>2 DEF Init, Served, Closed
<1>4. Viewed
  <2>1. icons \subseteq Node /\ edges \subseteq Edge /\ selection \subseteq Item
    BY <1>1, AllEdgesAre DEF Init, Closed
  <2>2. ghost \in BOOLEAN /\ controls \in BOOLEAN /\ timer \in Timer /\ state \in States
    BY DEF Init, NoTimer, Timer, States
  <2>3. SelectionShown
    BY DEF Init, SelectionShown, Complete
  <2> QED BY <2>1, <2>2, <2>3, ViewedIs
<1>5. Follows
  <2>1. PICK M : M = [i \in 0 .. 0 |-> model]
    OBVIOUS
  <2>2. M \in [0 .. 0 -> SUBSET Node] /\ M[0] = model
    BY <1>1, <2>1 DEF Closed
  <2>3. Between(M)
    BY <1>1, <1>2, <2>2 DEF Between, Init
  <2> QED BY <2>3 DEF Follows
<1>6. Gestured
  BY DEF Init, Gestured
<1>7. Talks
  <2>1. dialogs \in Seq(DialogKinds) /\ Len(dialogs) = 0 /\ MaxDialog \in Nat
    BY EmptySeq, CanvasAssumption DEF Init
  <2> QED BY <2>1 DEF Init, Talks, DialogsHaveEvents
<1> QED BY <1>3, <1>4, <1>5, <1>6, <1>7 DEF IInv

LEMMA SameKeeps ==
    ASSUME IInv, UNCHANGED vars
    PROVE  IInv'
<1>1. UNCHANGED <<server, shown, stuck, select, timer, state, docked, gesture, popups>>
  BY DEF vars
<1>2. Viewed'
  <2>1. UNCHANGED <<shown, select, timer>> /\ state' \in States
    BY <1>1, ViewedIs DEF IInv
  <2> QED BY <2>1, SameViewed DEF IInv
<1>3. Gestured' /\ Talks'
  BY <1>1, SameGestured, SameTalks DEF IInv
<1>4. UNCHANGED <<server, stuck, shown>>
  BY <1>1
<1> QED BY <1>2, <1>3, <1>4, CanvasKeeps

LEMMA NextKeeps ==
    ASSUME IInv, Next
    PROVE  IInv'
<1>1. CASE ServerNext
  BY <1>1, CreateKeeps, ConnectKeeps, RemoveNodeKeeps, UpdateKeeps, LoadKeeps DEF ServerNext
<1>2. CASE HandleChangelog
  BY <1>2, HandleChangelogKeeps
<1>3. CASE Reselect
  BY <1>3, ReselectKeeps
<1>4. CASE CanvasNext
  <2>1. CASE \/ PressCanvas \/ Delete \/ Leave \/ PressSelection
             \/ ShowGeometryControls \/ HideGeometryControls \/ SnapSelectionToGrid
    BY <2>1, PressCanvasKeeps, DeleteKeeps, LeaveKeeps, PressSelectionKeeps,
       ShowGeometryControlsKeeps, HideGeometryControlsKeeps, SnapSelectionToGridKeeps
  <2>2. CASE \/ ConfirmTransformation \/ CancelDrag \/ Drop \/ DropAndChoose
             \/ EditConnectionPaths \/ StopEditing \/ ReleaseControlPoint
             \/ CancelPath \/ ReleaseShort \/ ReleaseOnIcon
    BY <2>2, ConfirmTransformationKeeps, CancelDragKeeps, DropKeeps, DropAndChooseKeeps,
       EditConnectionPathsKeeps, StopEditingKeeps, ReleaseControlPointKeeps,
       CancelPathKeeps, ReleaseShortKeeps, ReleaseOnIconKeeps
  <2>3. CASE \E n \in Node : ClickIcon(n) \/ PressRight(n)
    BY <2>3, ClickIconKeeps, PressRightKeeps
  <2>4. CASE \E items \in SUBSET Node : CodedSelection(items)
    BY <2>4, CodedSelectionKeeps
  <2>5. CASE \E items \in SUBSET (Node \cup Edge) : ReleaseLasso(items)
    BY <2>5, ReleaseLassoKeeps
  <2>6. CASE \E e \in Edge : AddOrDeleteControlPoint(e) \/ PressControlPoint(e)
    BY <2>6, AddOrDeleteControlPointKeeps, PressControlPointKeeps
  <2> QED BY <1>4, <2>1, <2>2, <2>3, <2>4, <2>5, <2>6 DEF CanvasNext
<1>5. CASE DialogNext
  BY <1>5, OpenDialogKeeps, CancelDialogKeeps, PressEnterKeeps, ClickOkKeeps DEF DialogNext
<1> QED BY <1>1, <1>2, <1>3, <1>4, <1>5 DEF Next

LEMMA Invariant == Spec => []IInv
<1>1. IInv /\ [Next]_vars => IInv'
  BY NextKeeps, SameKeeps
<1> QED BY InitInvariant, <1>1, PTL DEF Spec

\* What the client keeps is what its handlers take it for: icons, edges and an array
\* of them, a stack of dialogs, the edges whose points are shown.
THEOREM TypesKept == Spec => []TypeOK
<1>1. IInv => TypeOK
  <2> SUFFICES ASSUME IInv PROVE TypeOK
    OBVIOUS
  <2>1. model \subseteq Node /\ changes \in 0 .. MaxChange /\ stuck \in BOOLEAN
    BY DEF IInv, Served
  <2>2. /\ icons \subseteq Node /\ edges \subseteq Edge /\ selection \subseteq Item
        /\ ghost \in BOOLEAN /\ controls \in BOOLEAN /\ timer \in Timer /\ state \in States
    BY ViewedIs DEF IInv
  <2>3. /\ docked \in BOOLEAN /\ lasso \in BOOLEAN
        /\ source \in Node \cup {NoIcon} /\ pressed \in Node \cup {NoIcon}
        /\ points \subseteq Edge /\ current \in Edge \cup {NoEdge}
    BY DEF IInv, Gestured
  <2>4. chart \in {"open", "closed"} /\ active \in {"canvas", "dialog"}
    BY DEF IInv, Talks
  <2>5. dialogs \in BoundedSeq(DialogKinds, MaxDialog)
    <3>1. dialogs \in Seq(DialogKinds) /\ Len(dialogs) <= MaxDialog /\ MaxDialog \in Nat
      BY CanvasAssumption DEF IInv, Talks
    <3>2. Len(dialogs) \in 0 .. MaxDialog /\ dialogs \in [1 .. Len(dialogs) -> DialogKinds]
      BY <3>1, LenProperties
    <3> QED BY <3>2 DEF BoundedSeq, SeqOf
  <2>6. {stuck, docked, lasso, ghost, controls} \subseteq BOOLEAN
    BY <2>1, <2>2, <2>3
  <2>7. {source, pressed} \subseteq Node \cup {NoIcon}
    BY <2>3
  <2>8. timer \in [on : BOOLEAN, items : SUBSET (Node \cup Edge), same : BOOLEAN]
    BY <2>2 DEF Timer, Item
  <2>9. selection \subseteq Node \cup Edge
    BY <2>2 DEF Item
  <2> QED BY <2>1, <2>2, <2>3, <2>4, <2>5, <2>6, <2>7, <2>8, <2>9 DEF TypeOK
<1> QED BY Invariant, <1>1, PTL

\* What is selected is on the canvas, whole connections of it, and overlays are there
\* only with a selection - whatever changelogs, late timers and late answers come.
THEOREM SelectionAlwaysShown == Spec => []SelectionShown
<1>1. IInv => SelectionShown
  BY ViewedIs DEF IInv
<1> QED BY Invariant, <1>1, PTL

\* Events go to a dialog if and only if there is one, and its statechart hears them.
THEOREM DialogsAlwaysHear == Spec => []DialogsHaveEvents
<1>1. IInv => DialogsHaveEvents
  BY DEF IInv, Talks
<1> QED BY Invariant, <1>1, PTL

\* A client stops following the model only by the removal of an edge it has selected.
THEOREM FreezesOnlyOnSelectedEdges == Spec => OnlySelectedEdgesFreeze
<1> DEFINE Freezes == stuck' /\ ~ stuck =>
                        \E k \in DOMAIN Head(wire) :
                          LET step == Head(wire)[k] IN step.op = "RMEDGE" /\ step.edge \in selection
<1>1. ASSUME IInv, Next PROVE Freezes
  <2>1. CASE HandleChangelog
    <3>1. PICK v : v = Applied(View, Head(wire))
      OBVIOUS
    <3>2. stuck' = v.failed
      BY <2>1, <3>1 DEF HandleChangelog
    <3>3. PICK M : Outcome(View, v, M[1], Head(wire))
      BY <1>1, <2>1, <3>1, HandledIs
    <3>4. v.failed => Hits(View, Head(wire))
      BY <3>3 DEF Outcome, Shown
    <3> QED BY <3>2, <3>4, ViewIs DEF Hits
  <2>2. CASE ServerNext
    <3>1. UNCHANGED stuck
      BY <2>2 DEF ServerNext, Create, Connect, RemoveNode, Update, Load, Changes
    <3> QED BY <3>1
  <2>3. CASE Reselect
    BY <2>3 DEF Reselect
  <2>4. CASE CanvasNext
    <3>1. UNCHANGED stuck
      BY <2>4 DEF CanvasNext, Quiet, PressCanvas, Delete, Leave, PressSelection, ShowGeometryControls,
         HideGeometryControls, SnapSelectionToGrid, ConfirmTransformation, CancelDrag, Drop, DropAndChoose,
         EditConnectionPaths, StopEditing, ReleaseControlPoint, CancelPath, ReleaseShort, ReleaseOnIcon,
         ClickIcon, PressRight, CodedSelection, ReleaseLasso, AddOrDeleteControlPoint, PressControlPoint
    <3> QED BY <3>1
  <2>5. CASE DialogNext
    <3>1. UNCHANGED stuck
      BY <2>5 DEF DialogNext, OpenDialog, CancelDialog, PressEnter, ClickOk
    <3> QED BY <3>1
  <2> QED BY <1>1, <2>1, <2>2, <2>3, <2>4, <2>5 DEF Next
<1>2. UNCHANGED vars => Freezes
  BY DEF vars
<1>3. IInv /\ [Next]_vars => [Freezes]_vars
  BY <1>1, <1>2
<1> QED BY Invariant, <1>3, PTL DEF Spec, OnlySelectedEdgesFreeze

-----------------------------------------------------------------------------
(* All changelogs that are on their way.                                   *)

\* Nothing is selected, and the model ns is shown.
Clean(v, ns) == v \in ViewType /\ GoodView(v) /\ Shown(v, ns) /\ v.selection = {}

LEMMA CleanStays ==
    ASSUME NEW ns, NEW c, NEW ns2, Leads(ns, c, ns2), NEW v, Clean(v, ns)
    PROVE  Clean(Applied(v, c), ns2)
<1>1. PICK w : w = Applied(v, c)
  OBVIOUS
<1>2. Outcome(v, w, ns2, c)
  BY <1>1 DEF Clean, Leads
<1>3. ~Hits(v, c)
  BY DEF Hits, Clean
<1>4. Clean(w, ns2)
  BY <1>2, <1>3 DEF Outcome, Clean
<1> QED BY <1>1, <1>4

\* Views that follow each other along the changelogs
LEMMA CleanViews ==
    ASSUME Served, NEW M, Between(M), NEW v, Clean(v, M[0])
    PROVE  \E R \in [0 .. Len(wire) -> ViewType] :
             /\ R[0] = v /\ Clean(R[Len(wire)], M[Len(wire)])
             /\ \A k \in 1 .. Len(wire) : R[k] = Applied(R[k - 1], wire[k])
<1> DEFINE n == Len(wire)
           Goes(R, m) == /\ R[0] = v /\ Clean(R[m], M[m])
                         /\ \A k \in 1 .. m : R[k] = Applied(R[k - 1], wire[k])
           Some(m) == \E R \in [0 .. m -> ViewType] : Goes(R, m)
           P == { m \in Nat : m <= n => Some(m) }
<1>1. n \in Nat
  <2>1. wire \in Seq(Seq(Step))
    BY DEF Served
  <2> QED BY <2>1, LenProperties
<1>2. \A k \in 1 .. n : Leads(M[k - 1], wire[k], M[k])
  BY DEF Between
<1>3. 0 \in P
  <2>1. PICK R : R = [k \in 0 .. 0 |-> v]
    OBVIOUS
  <2>2. R \in [0 .. 0 -> ViewType] /\ R[0] = v
    BY <2>1 DEF Clean
  <2>3. Goes(R, 0)
    BY <2>2
  <2>4. Some(0)
    BY <2>2, <2>3
  <2> HIDE DEF Some
  <2> QED BY <2>4
<1>4. ASSUME NEW m \in Nat, m \in P PROVE m + 1 \in P
  <2> HIDE DEF Some
  <2>1. SUFFICES ASSUME m + 1 <= n PROVE Some(m + 1)
    OBVIOUS
  <2>2. Some(m)
    <3>1. m <= n
      BY <1>1, <2>1
    <3> QED BY <1>4, <3>1
  <2>3. PICK R \in [0 .. m -> ViewType] : Goes(R, m)
    BY <2>2 DEF Some
  <2>4. m + 1 \in 1 .. n /\ (m + 1) - 1 = m
    BY <1>1, <2>1
  <2>5. PICK w : w = Applied(R[m], wire[m + 1])
    OBVIOUS
  <2>6. Clean(w, M[m + 1])
    <3>1. Leads(M[m], wire[m + 1], M[m + 1])
      BY <1>2, <2>4
    <3> QED BY <2>3, <2>5, <3>1, CleanStays
  <2>7. PICK U : U = [k \in 0 .. m + 1 |-> IF k = m + 1 THEN w ELSE R[k]]
    OBVIOUS
  <2>8. U \in [0 .. m + 1 -> ViewType] /\ U[m + 1] = w /\ \A k \in 0 .. m : U[k] = R[k]
    <3>1. \A k \in 0 .. m + 1 : k # m + 1 => k \in 0 .. m
      OBVIOUS
    <3>2. w \in ViewType
      BY <2>6 DEF Clean
    <3> QED BY <2>3, <2>7, <3>1, <3>2
  <2>9. ASSUME NEW k \in 1 .. m + 1 PROVE U[k] = Applied(U[k - 1], wire[k])
    <3>1. CASE k = m + 1
      <4>1. k - 1 = m /\ m \in 0 .. m
        BY <3>1
      <4> QED BY <2>5, <2>8, <3>1, <4>1
    <3>2. CASE k # m + 1
      <4>1. k \in 1 .. m /\ k \in 0 .. m /\ k - 1 \in 0 .. m
        BY <3>2
      <4> QED BY <2>3, <2>8, <4>1
    <3> QED BY <3>1, <3>2
  <2>10. U[0] = v
    <3>1. 0 \in 0 .. m
      OBVIOUS
    <3> QED BY <2>3, <2>8, <3>1
  <2>11. Goes(U, m + 1)
    BY <2>6, <2>8, <2>9, <2>10
  <2> HIDE DEF Goes
  <2> QED BY <2>8, <2>11 DEF Some
<1> HIDE DEF P, Some
<1>5. n \in P
  BY <1>1, <1>3, <1>4, NatSetInduction
<1>6. Some(n)
  BY <1>1, <1>5 DEF P
<1> QED BY <1>6 DEF Some

LEMMA AppliedAllIs ==
    ASSUME NEW cs, Len(cs) \in Nat, NEW R \in [0 .. Len(cs) -> ViewType],
           \A k \in 1 .. Len(cs) : R[k] = Applied(R[k - 1], cs[k])
    PROVE  AppliedAll(R[0], cs) = R[Len(cs)]
<1> DEFINE n == Len(cs)
           F(g) == [k \in 0 .. n |-> IF k = 0 THEN R[0] ELSE Applied(g[k - 1], cs[k])]
           r == CHOOSE g : g = F(g)
<1>1. AppliedAll(R[0], cs) = r[n]
  BY DEF AppliedAll
<1>2. R = F(R)
  <2>1. ASSUME NEW k \in 0 .. n
        PROVE  R[k] = IF k = 0 THEN R[0] ELSE Applied(R[k - 1], cs[k])
    <3>1. k = 0 \/ k \in 1 .. n
      OBVIOUS
    <3> QED BY <3>1
  <2> QED BY <2>1
<1>3. r = F(r)
  BY <1>2
<1> HIDE DEF r
<1> DEFINE P == { k \in Nat : k <= n => r[k] = R[k] }
<1>4. 0 \in P
  <2>1. 0 \in 0 .. n
    OBVIOUS
  <2>2. r[0] = R[0]
    BY <1>3, <2>1
  <2> QED BY <2>2
<1>5. ASSUME NEW k \in Nat, k \in P PROVE k + 1 \in P
  <2>1. SUFFICES ASSUME k + 1 <= n PROVE r[k + 1] = R[k + 1]
    OBVIOUS
  <2>2. k + 1 \in 0 .. n /\ k + 1 # 0 /\ (k + 1) - 1 = k /\ k + 1 \in 1 .. n
    BY <2>1
  <2>3. r[k + 1] = Applied(r[k], cs[k + 1])
    BY <1>3, <2>2
  <2>4. R[k + 1] = Applied(R[k], cs[k + 1])
    BY <2>2
  <2> QED BY <1>5, <2>1, <2>3, <2>4
<1>6. n \in P
  <2> HIDE DEF P
  <2> QED BY <1>4, <1>5, NatSetInduction
<1> QED BY <1>1, <1>6

\* Unless it is stuck, a client shows what the csworker has, once it has applied what
\* is on its way: icons of the same nodes, and both edges of every link.
THEOREM ViewsFollow == Spec => []ViewFollowsModel
<1>1. IInv => ViewFollowsModel
  <2> SUFFICES ASSUME IInv, ~stuck
               PROVE  LET v == AppliedAll(Deselected(View), wire) IN
                      ~ v.failed /\ v.icons = model /\ v.edges = AllEdges(model)
    BY DEF ViewFollowsModel
  <2>1. PICK M : Between(M)
    BY DEF IInv, Follows
  <2>2. PICK v : v = Deselected(View)
    OBVIOUS
  <2>3. Clean(v, M[0])
    <3>1. View \in ViewType /\ Overlaid(View)
      BY DEF IInv, Viewed, GoodView
    <3>2. PICK t \in Timer :
            v = [icons |-> View.icons, edges |-> View.edges, selection |-> {}, ghost |-> FALSE,
                 controls |-> FALSE, timer |-> t, state |-> View.state, failed |-> View.failed]
      BY <2>2, <3>1, DeselectedIs
    <3>3. /\ View.icons \in SUBSET Node /\ View.edges \in SUBSET Edge
          /\ View.state \in States /\ View.failed \in BOOLEAN
      BY <3>1 DEF ViewType
    <3>4. v \in ViewType
      BY <3>2, <3>3 DEF ViewType
    <3>5. GoodView(v)
      <4>1. Complete({}, View.edges) = {}
        BY DEF Complete
      <4> QED BY <3>2, <4>1 DEF GoodView, Overlaid
    <3>6. Shown(v, M[0])
      <4>1. icons = M[0] /\ edges = AllEdges(M[0])
        BY <2>1 DEF Between
      <4> QED BY <3>2, <4>1, ViewIs DEF Shown
    <3> QED BY <3>2, <3>4, <3>5, <3>6 DEF Clean
  <2>4. Len(wire) \in Nat
    <3>1. wire \in Seq(Seq(Step))
      BY DEF IInv, Served
    <3> QED BY <3>1, LenProperties
  <2>5. PICK R \in [0 .. Len(wire) -> ViewType] :
          /\ R[0] = v /\ Clean(R[Len(wire)], M[Len(wire)])
          /\ \A k \in 1 .. Len(wire) : R[k] = Applied(R[k - 1], wire[k])
    BY <2>1, <2>3, CleanViews DEF IInv
  <2>6. AppliedAll(v, wire) = R[Len(wire)]
    BY <2>4, <2>5, AppliedAllIs
  <2>7. M[Len(wire)] = model
    BY <2>1 DEF Between
  <2>8. Shown(R[Len(wire)], model)
    BY <2>5, <2>7 DEF Clean
  <2> QED BY <2>2, <2>6, <2>8 DEF Shown
<1> QED BY Invariant, <1>1, PTL
=============================================================================
