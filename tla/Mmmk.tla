-------------------------------- MODULE Mmmk --------------------------------
(***************************************************************************)
(* The modelling kernel, src/mmmk.js: a graph of nodes and edges, the      *)
(* operations on it, and the journal that makes them atomic and undoable.  *)
(*                                                                         *)
(* A user operation is a program of kernel calls, run one per step so that *)
(* an event handler (designer code of the metamodel) or a check can fail   *)
(* at any of them.  __crudOp nests: `open` counts the calls in progress.   *)
(* Loading a model or a metamodel is one call.                             *)
(***************************************************************************)
EXTENDS Journal, FiniteSets

CONSTANTS
    MaxId,     \* bound: node ids are below it
    MM,        \* metamodels
    Val,       \* attribute values
    Default,   \* the value a new node has
    Absent,    \* no node
    Loadable,  \* models that loadModel may load or insert
    Handled,   \* bound: nodes whose attribute the handlers' designer code may set
    MaxOps,    \* bound: user operations, undos and redos in a behaviour
    MaxLoads,  \* bound: metamodels loaded and unloaded
    MayReload, \* is a metamodel loaded again
    MayUndo,   \* are there undos and redos
    MayFail    \* do handlers and checks fail

Id   == 0 .. MaxId - 1
Kind == {"node", "connector"}
Node == [kind : Kind, mm : MM, val : Val]
Edge(a, b) == [src |-> a, dest |-> b]

\* this.model, and the names in this.metamodels
Model == [nodes : [Id -> Node \cup {Absent}], edges : Seq([src : Id, dest : Id]),
          metamodels : SUBSET MM, loaded : SUBSET MM]

NoNodes    == [i \in Id |-> Absent]
EmptyModel == [nodes |-> NoNodes, edges |-> <<>>, metamodels |-> {}, loaded |-> {}]
Nodes(m)   == { i \in Id : m.nodes[i] # Absent }
NodesOf(m, mm)     == { i \in Nodes(m) : m.nodes[i].mm = mm }
IsConnector(m, id) == m.nodes[id] # Absent /\ m.nodes[id].kind = "connector"
\* edges that touch a node of ids
EdgesOf(m, ids) == { i \in DOMAIN m.edges : m.edges[i].src \in ids \/ m.edges[i].dest \in ids }
\* nodes whose metamodel is loaded: what is asked of others is refused
Typed(m) == { i \in Nodes(m) : m.nodes[i].mm \in m.loaded }

\* both ends of an edge exist, and one of them is a connector
Joins(m, e) == /\ e.src \in Nodes(m) /\ e.dest \in Nodes(m)
               /\ IsConnector(m, e.src) # IsConnector(m, e.dest)
NoDanglingEdge(m) == \A i \in DOMAIN m.edges : Joins(m, m.edges[i])

\* Loadable: files, models that were saved
ASSUME MmmkAssumption ==
    /\ MaxId \in Nat /\ MaxOps \in Nat /\ MaxLoads \in Nat
    /\ Default \in Val /\ Handled \subseteq Id /\ Absent \notin Node
    /\ \A m \in Loadable :
          /\ m \in Model /\ NoDanglingEdge(m)
          /\ \A i \in Nodes(m) : m.nodes[i].mm \in m.metamodels
    /\ {MayReload, MayUndo, MayFail} \subseteq BOOLEAN

VARIABLES
    model,     \* [nodes, edges, metamodels] of this.model, and the names in this.metamodels
    next_id,   \* this.next_id
    journal,   \* this.journal and this.journalIndex
    program,   \* kernel calls the operation in progress has still to make
    open,      \* __crudOp calls in progress
    status,    \* "idle", "running", "failing", or how the last operation ended
    changelog, \* what it returned
    before,    \* model when it started
    done,      \* operations that succeeded and are not undone
    undone,    \* operations undone since the last one that succeeded
    zombie,    \* it began with a step-checkpoint that is beyond the index
    ops, loads \* operations so far, and those on metamodels

cursor == <<done, undone>>
counts == <<ops, loads>>
vars == <<model, next_id, journal, program, open, status, changelog, before, cursor, zombie, counts>>

-----------------------------------------------------------------------------
(* Internal cud: what a journal entry does to a model, and undoes.         *)

InsertEdge(s, i, e) == SubSeq(s, 1, i - 1) \o <<e>> \o SubSeq(s, i, Len(s))

\* __resetm__: this.model is replaced and lists every metamodel that is loaded
Resetm(m, new) == [new EXCEPT !.loaded = m.loaded, !.metamodels = @ \cup m.loaded]

LoadMM(m, name) == [m EXCEPT !.metamodels = @ \cup {name}, !.loaded = @ \cup {name}]
DumpMM(m, name) == [m EXCEPT !.metamodels = @ \ {name}, !.loaded = @ \ {name}]

Redo(m, e) ==
    CASE e.op = "CHATTR" -> [m EXCEPT !.nodes[e.id].val = e.new]
      [] e.op = "MKNODE" -> [m EXCEPT !.nodes[e.id] = e.node]
      [] e.op = "RMNODE" -> [m EXCEPT !.nodes[e.id] = Absent]
      [] e.op = "MKEDGE" -> [m EXCEPT !.edges = InsertEdge(@, e.i, e.edge)]
      [] e.op = "RMEDGE" -> [m EXCEPT !.edges = RemoveAt(@, e.i)]
      [] e.op = "RESETM" -> Resetm(m, e.new)
      [] e.op = "LOADMM" -> LoadMM(m, e.name)
      [] e.op = "DUMPMM" -> DumpMM(m, e.name)
      [] OTHER -> m

\* mutant: a removed edge comes back at the end of the list
Undo_AppendsEdge(m, e) ==
    CASE e.op = "CHATTR" -> [m EXCEPT !.nodes[e.id].val = e.old]
      [] e.op = "MKNODE" -> [m EXCEPT !.nodes[e.id] = Absent]
      [] e.op = "RMNODE" -> [m EXCEPT !.nodes[e.id] = e.node]
      [] e.op = "MKEDGE" -> [m EXCEPT !.edges = RemoveAt(@, e.i)]
      [] e.op = "RMEDGE" -> [m EXCEPT !.edges = Append(@, e.edge)]
      [] e.op = "RESETM" -> Resetm(m, e.old)
      [] e.op = "LOADMM" -> DumpMM(m, e.name)
      [] e.op = "DUMPMM" -> LoadMM(m, e.name)
      [] OTHER -> m

Undo(m, e) ==
    CASE e.op = "CHATTR" -> [m EXCEPT !.nodes[e.id].val = e.old]
      [] e.op = "MKNODE" -> [m EXCEPT !.nodes[e.id] = Absent]
      [] e.op = "RMNODE" -> [m EXCEPT !.nodes[e.id] = e.node]
      [] e.op = "MKEDGE" -> [m EXCEPT !.edges = RemoveAt(@, e.i)]
      [] e.op = "RMEDGE" -> [m EXCEPT !.edges = InsertEdge(@, e.i, e.edge)]
      [] e.op = "RESETM" -> Resetm(m, e.old)
      [] e.op = "LOADMM" -> DumpMM(m, e.name)
      [] e.op = "DUMPMM" -> LoadMM(m, e.name)
      [] OTHER -> m

\* es[1], then es[2], ... is redone; es[Len(es)] is undone first
RedoAll(m, es) ==
    LET r[i \in 0 .. Len(es)] == IF i = 0 THEN m ELSE Redo(r[i - 1], es[i])
    IN  r[Len(es)]
UndoAll(m, es) ==
    LET u[i \in 0 .. Len(es)] == IF i = 0 THEN m ELSE Undo(u[i - 1], es[Len(es) + 1 - i])
    IN  u[Len(es)]

\* a cud function changes the model and logs the entry that says how
Cud(e) == /\ model' = Redo(model, e)
          /\ journal' = Log(journal, e)

MkNode(id, kind, mm) ==
    Cud([op |-> "MKNODE", id |-> id, node |-> [kind |-> kind, mm |-> mm, val |-> Default]])
RmNode(id)   == Cud([op |-> "RMNODE", id |-> id, node |-> model.nodes[id]])
MkEdge(a, b) == Cud([op |-> "MKEDGE", i |-> Len(model.edges) + 1, edge |-> Edge(a, b)])
RmEdge(i)    == Cud([op |-> "RMEDGE", i |-> i, edge |-> model.edges[i]])

\* __chattr__ logs nothing when the value stays the same
ChAttr(id, v) ==
    IF model.nodes[id].val = v THEN UNCHANGED <<model, journal>>
    ELSE Cud([op |-> "CHATTR", id |-> id, new |-> v, old |-> model.nodes[id].val])

-----------------------------------------------------------------------------
(* User operations as programs of kernel calls.  "open" and "close" are    *)
(* the ends of a __crudOp, "handlers" its pre- and its post-event          *)
(* constraints and actions; "cascade" deletes the neighbours of a node.    *)

Call == [call : {"open", "close", "handlers"}]
          \cup [call : {"mknode"}, id : Id, kind : Kind, mm : MM]
          \cup [call : {"mkedge"}, src : Id, dest : Id]
          \cup [call : {"chattr"}, id : Id, val : Val]
          \cup [call : {"rmedges", "rmnodes"}, ids : SUBSET Id]
          \cup [call : {"cascade"}, id : Id]
          \cup [call : {"dumpmm"}, mm : MM]

OpenCall     == [call |-> "open"]
CloseCall    == [call |-> "close"]
HandlersCall == [call |-> "handlers"]
MkNodeCall(id, kind, mm) == [call |-> "mknode", id |-> id, kind |-> kind, mm |-> mm]
MkEdgeCall(a, b)  == [call |-> "mkedge", src |-> a, dest |-> b]
ChAttrCall(id, v) == [call |-> "chattr", id |-> id, val |-> v]
RmEdgesCall(ids)  == [call |-> "rmedges", ids |-> ids]
RmNodesCall(ids)  == [call |-> "rmnodes", ids |-> ids]
CascadeCall(id)   == [call |-> "cascade", id |-> id]
DumpMMCall(mm)    == [call |-> "dumpmm", mm |-> mm]

Crud(calls) == <<OpenCall, HandlersCall>> \o calls \o <<HandlersCall, CloseCall>>

\* a connector and its two edges, in a crudOp of their own
ConnectNNCalls(a, b, mm) ==
    Crud(<< MkNodeCall(next_id, "connector", mm), MkEdgeCall(a, next_id), MkEdgeCall(next_id, b) >>)

\* __delete of a connector: crudOp(disconnect) around __deleteConnector
DeleteConnectorCalls(id) == Crud(<< RmEdgesCall({id}), RmNodesCall({id}) >>)

\* mutant: the connectors of a deleted node stay
DeleteCalls_NoCascade(id) ==
    IF IsConnector(model, id) THEN DeleteConnectorCalls(id) ELSE << RmNodesCall({id}) >>

\* __delete: a node takes its connectors with it
DeleteCalls(id) ==
    IF IsConnector(model, id) THEN DeleteConnectorCalls(id)
                              ELSE << CascadeCall(id), RmNodesCall({id}) >>

\* unloadMetamodel: no crudOp and no handlers
UnloadCalls(mm) ==
    << RmEdgesCall(NodesOf(model, mm)), RmNodesCall(NodesOf(model, mm)), DumpMMCall(mm) >>

-----------------------------------------------------------------------------
Init ==
    /\ model = EmptyModel
    /\ next_id = 0
    /\ journal = EmptyJournal
    /\ program = <<>>
    /\ open = 0
    /\ status = "idle"
    /\ changelog = <<>>
    /\ before = EmptyModel
    /\ done = 0 /\ undone = 0 /\ zombie = FALSE /\ ops = 0 /\ loads = 0

AtRest == program = <<>> /\ status # "failing"

\* what every user operation begins with, its step-checkpoint apart
Begins ==
    /\ AtRest
    /\ before' = model
    /\ zombie' = (SetStepCheckpoint(journal) = journal /\ journal.index < Len(journal.log))

\* and what it ends with when it succeeds
Returns(j) ==
    /\ status' = "done"
    /\ done' = done + 1 /\ undone' = 0
    /\ changelog' = Changelog(j)

Counted  == ops < MaxOps /\ ops' = ops + 1 /\ UNCHANGED loads
CountedMM == loads < MaxLoads /\ loads' = loads + 1 /\ UNCHANGED ops

\* step-checkpoint, then the operation's calls
Start(calls) ==
    /\ Begins
    /\ journal' = SetStepCheckpoint(journal)
    /\ program' = calls
    /\ status' = "running"
    /\ UNCHANGED <<model, next_id, open, changelog, cursor>>

\* create: crudOp around __create
Create(mm) ==
    /\ next_id < MaxId /\ mm \in model.loaded
    /\ Counted
    /\ Start(Crud(<< MkNodeCall(next_id, "node", mm) >>))

\* connect of two nodes
ConnectNN(a, b, mm) ==
    /\ next_id < MaxId /\ mm \in model.loaded
    /\ ~IsConnector(model, a) /\ ~IsConnector(model, b)
    /\ Counted
    /\ Start(Crud(ConnectNNCalls(a, b, mm)))

\* connect of a node and a connector
ConnectCN(a, b) ==
    /\ {a, b} \subseteq Typed(model)
    /\ IsConnector(model, a) # IsConnector(model, b)
    /\ Counted
    /\ Start(Crud(<< MkEdgeCall(a, b) >>))

Update(id, v) ==
    /\ id \in Typed(model)
    /\ Counted
    /\ Start(Crud(<< ChAttrCall(id, v) >>))

Delete(id) ==
    /\ id \in Typed(model)
    /\ \A i \in EdgesOf(model, {id}) : {model.edges[i].src, model.edges[i].dest} \subseteq Typed(model)
    /\ Counted
    /\ Start(Crud(DeleteCalls(id)))

\* unloadMetamodel (bound: of a metamodel that is loaded)
UnloadMetamodel(mm) ==
    /\ mm \in model.loaded
    /\ CountedMM
    /\ Start(UnloadCalls(mm))

\* an operation refused after its step-checkpoint and before its crudOp (invalid
\* id, illegal connection, maximum cardinality, metamodel not loaded)
Refuse ==
    /\ Begins /\ Counted /\ MayFail
    /\ journal' = SetStepCheckpoint(journal)
    /\ status' = "failed"
    /\ UNCHANGED <<model, next_id, program, open, changelog, cursor>>

\* an operation that is one call: it logs its entry and returns it
AtOnce(e) ==
    /\ Begins
    /\ model' = Redo(model, e)
    /\ journal' = Log(SetStepCheckpoint(journal), e)
    /\ next_id' = Highest({next_id} \cup { i + 1 : i \in Nodes(model') })
    /\ Returns(journal')
    /\ UNCHANGED <<program, open>>

\* loadModel, in place of what is there: one RESETM, no crudOp
LoadModel(m) ==
    /\ Counted
    /\ m.metamodels \subseteq model.loaded
    /\ AtOnce([op |-> "RESETM", new |-> Resetm(model, m), old |-> model])

\* loadModel beside what is there: its ids move up by next_id
Inserted(m) ==
    LET nodes == [i \in Id |-> IF i >= next_id /\ i - next_id \in Nodes(m)
                               THEN m.nodes[i - next_id] ELSE model.nodes[i]]
        edges == [i \in DOMAIN m.edges |-> Edge(m.edges[i].src + next_id, m.edges[i].dest + next_id)]
    IN  [model EXCEPT !.nodes = nodes, !.edges = @ \o edges]

InsertModel(m) ==
    /\ Counted
    /\ m.metamodels \subseteq model.loaded
    /\ \A i \in Nodes(m) : i + next_id < MaxId
    /\ AtOnce([op |-> "RESETM", new |-> Inserted(m), old |-> model])

\* loadMetamodel, and again when it has changed
LoadMetamodel(mm) ==
    /\ CountedMM
    /\ mm \notin model.loaded \/ MayReload
    /\ AtOnce([op |-> "LOADMM", name |-> mm])

-----------------------------------------------------------------------------
(* The next kernel call of the operation in progress.                      *)

Now == Head(program)
Running(name) == status = "running" /\ program # <<>> /\ Now.call = name
Advance == program' = Tail(program)

OpenCrudOp ==
    /\ Running("open")
    /\ journal' = Log(journal, MKCHKPT)
    /\ open' = open + 1
    /\ Advance
    /\ UNCHANGED <<model, next_id, status, changelog, before, cursor, zombie, counts>>

\* edges and nodes are removed one by one, the first one first
RmEdges(ids) ==
    LET es == EdgesOf(model, ids)
    IN  IF es = {} THEN UNCHANGED <<model, journal>> /\ Advance
                   ELSE RmEdge(Lowest(es, 0)) /\ UNCHANGED program
RmNodes(ids) ==
    LET ns == Nodes(model) \cap ids
    IN  IF ns = {} THEN UNCHANGED <<model, journal>> /\ Advance
                   ELSE RmNode(Lowest(ns, 0)) /\ UNCHANGED program

\* the neighbour that the first edge names is deleted, in a crudOp of its own
OtherEnd(e, id) == IF e.src = id THEN e.dest ELSE e.src
Cascade(id) ==
    LET es == EdgesOf(model, {id})
    IN  /\ IF es = {} THEN Advance
           ELSE program' = Crud(DeleteConnectorCalls(OtherEnd(model.edges[Lowest(es, 0)], id)))
                             \o program
        /\ UNCHANGED <<model, journal>>

Perform ==
    /\ \/ Running("mknode") /\ MkNode(Now.id, Now.kind, Now.mm) /\ Advance
       \/ Running("mkedge") /\ MkEdge(Now.src, Now.dest) /\ Advance
       \/ Running("chattr") /\ ChAttr(Now.id, Now.val) /\ Advance
       \/ Running("rmedges") /\ RmEdges(Now.ids)
       \/ Running("rmnodes") /\ RmNodes(Now.ids)
       \/ Running("cascade") /\ Cascade(Now.id)
    /\ UNCHANGED <<next_id, open, status, changelog, before, cursor, zombie, counts>>

\* the last call of unloadMetamodel
DumpMetamodel ==
    /\ Running("dumpmm")
    /\ Cud([op |-> "DUMPMM", name |-> Now.mm])
    /\ Advance
    /\ Returns(journal')
    /\ UNCHANGED <<next_id, open, before, zombie, counts>>

\* designer code in an action sets an attribute, or does not (bound: one)
Handlers ==
    /\ Running("handlers")
    /\ \/ UNCHANGED <<model, journal>>
       \/ \E id \in Nodes(model) \cap Handled, v \in Val : ChAttr(id, v)
    /\ Advance
    /\ UNCHANGED <<next_id, open, status, changelog, before, cursor, zombie, counts>>

\* the end of a __crudOp; after the outermost one the operation returns its changelog
CloseCrudOp ==
    /\ Running("close")
    /\ journal' = ClearCheckpoint(journal)
    /\ open' = open - 1
    /\ Advance
    /\ IF Tail(program) # <<>> THEN UNCHANGED <<next_id, status, changelog, cursor>>
       ELSE /\ Returns(journal')
            /\ next_id' = IF next_id \in Nodes(model) THEN next_id + 1 ELSE next_id
    /\ UNCHANGED <<model, before, zombie, counts>>

\* a handler, a constraint or the operation itself fails inside a crudOp: it
\* restores its checkpoint, and so do the crudOps around it
RestoreCrudOp ==
    /\ open > 0
    /\ status = "failing" \/ (status = "running" /\ MayFail)
    /\ model' = UndoAll(model, RestoredEntries(journal))
    /\ journal' = RestoreCheckpoint(journal)
    /\ open' = open - 1
    /\ program' = <<>>
    /\ status' = IF open = 1 THEN "failed" ELSE "failing"
    /\ UNCHANGED <<next_id, changelog, before, cursor, zombie, counts>>

(* undo() and redo(), as csworkers ask for them: only for an operation they *)
(* were told of and have not undone (redone) yet.                          *)
UndoStep ==
    /\ AtRest /\ Counted /\ MayUndo /\ done > 0
    /\ LET k == UndoneStep(journal) IN
         /\ model' = UndoAll(model, UndoneEntries(journal, k))
         /\ journal' = k
    /\ done' = done - 1 /\ undone' = undone + 1
    /\ status' = "idle"
    /\ UNCHANGED <<next_id, program, open, changelog, before, zombie>>

RedoStep ==
    /\ AtRest /\ Counted /\ undone > 0
    /\ LET k == RedoneStep(journal) IN
         /\ model' = RedoAll(model, RedoneEntries(journal, k))
         /\ journal' = k
    /\ done' = done + 1 /\ undone' = undone - 1
    /\ status' = "idle"
    /\ UNCHANGED <<next_id, program, open, changelog, before, zombie>>

Next ==
    \/ \E mm \in MM : \/ Create(mm) \/ LoadMetamodel(mm) \/ UnloadMetamodel(mm)
                      \/ \E a, b \in Nodes(model) : ConnectNN(a, b, mm)
    \/ \E a, b \in Nodes(model) : ConnectCN(a, b)
    \/ \E id \in Nodes(model) : Delete(id) \/ \E v \in Val : Update(id, v)
    \/ \E m \in Loadable : LoadModel(m) \/ InsertModel(m)
    \/ Refuse
    \/ OpenCrudOp
    \/ Perform
    \/ DumpMetamodel
    \/ Handlers
    \/ CloseCrudOp
    \/ RestoreCrudOp
    \/ UndoStep
    \/ RedoStep

Spec == Init /\ [][Next]_vars

-----------------------------------------------------------------------------
(* Properties.                                                             *)

Entry == [op : {"MKCHKPT", "MKSTPCHKPT"}]
           \cup [op : {"CHATTR"}, id : Id, new : Val, old : Val]
           \cup [op : {"MKNODE", "RMNODE"}, id : Id, node : Node]
           \cup [op : {"MKEDGE", "RMEDGE"}, i : Nat, edge : [src : Id, dest : Id]]
           \cup [op : {"RESETM"}, new : Model, old : Model]
           \cup [op : {"LOADMM", "DUMPMM"}, name : MM]

\* Every variable has its type; the journal index stays inside the journal.
TypeOK ==
    /\ model \in Model /\ before \in Model
    /\ journal \in [log : Seq(Entry), index : Nat] /\ journal.index <= Len(journal.log)
    /\ program \in Seq(Call) /\ changelog \in Seq(Entry)
    /\ next_id \in Nat /\ open \in Nat /\ ops \in 0 .. MaxOps /\ loads \in 0 .. MaxLoads
    /\ done \in Nat /\ undone \in Nat /\ zombie \in BOOLEAN
    /\ status \in {"idle", "running", "failing", "done", "failed"}

\* The first entry of the journal is a marker, which redo may skip.  It is not after an
\* operation has begun at index 0 with the checkpoint of a failed one, beyond the index.
Anchored == journal.log # <<>> => IsMarker(journal.log[1])

\* Replaying the applied entries from the empty model gives this.model.
JournalExplainsModel == RedoAll(EmptyModel, Applied(journal)) = model

\* What is beyond the index can be redone: it replays from the present model to
\* one that undoing takes back to the present one.
FutureIsRedoable ==
    AtRest =>
      LET future == SubSeq(journal.log, journal.index + 1, Len(journal.log))
      IN  UndoAll(RedoAll(model, future), future) = model

\* While the journal begins with a marker, it and the model tell the same story on
\* both sides of journalIndex, in the middle of an operation and after any mix of
\* failures, undos and redos: what is before the index explains the model, what is
\* after it can be redone.  (A redo skips a first entry that is no marker.)
JournalIsComplete == Anchored => JournalExplainsModel /\ FutureIsRedoable

\* A user operation that fails leaves the model as it found it, however deep in
\* nested crudOps, cascading deletes and handlers it failed.  There are always as
\* many crudOp checkpoints as crudOps in progress, so that a restore never goes
\* past its own and the next operation does not find one of this one.
FailureIsAtomic ==
    /\ status = "failed" => model = before
    /\ Cardinality(CrudCheckpoints(journal)) = open

\* The metamodel of every node is loaded, so that every node can be read, edited and
\* deleted; the model lists the metamodels that are loaded.
NodesHaveMetamodels(m) == Typed(m) = Nodes(m) /\ m.metamodels = m.loaded

\* While the journal begins with a marker, no mix of operations, loading and unloading
\* of models and metamodels, failures, undos and redos leaves edges without ends or nodes
\* without a metamodel; nor is there one in the middle of an operation, where handlers
\* read the model.  (A redo that skips a first entry LOADMM leaves nodes without it.)
WellFormed == Anchored => NoDanglingEdge(model) /\ NodesHaveMetamodels(model)

\* "returns a copy of the portion of the journal that describes the changes made by
\* the last user-operation" (comment at __changelog): the changelog a subscriber
\* gets turns the model before the operation into the model after it.
ChangelogIsLastOperation ==
    status = "done" => /\ UndoAll(model, changelog) = before
                       /\ RedoAll(before, changelog) = model

\* The step an undo takes back is the operation just made, all of it and nothing more.
UndoRevertsLastOperation ==
    status = "done" => UndoAll(model, UndoneEntries(journal, UndoneStep(journal))) = before

\* What __changelog tells subscribers and what undo takes back are the same step, the
\* operation just made, whatever failed or was undone before; unless the operation began
\* with the checkpoint of a failed one that is beyond the index.
StepIsLastOperation == ~zombie => ChangelogIsLastOperation /\ UndoRevertsLastOperation
=============================================================================
