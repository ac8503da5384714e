------------------------------ MODULE UndoRedo ------------------------------
(***************************************************************************)
(* Undo and redo across an asworker and its csworkers (POST /undo, POST    *)
(* /redo, __undoredo, __checkpointUserOperation of src/csworker.js, the    *)
(* same requests in src/asworker.js, batchEdit of src/__worker.js).        *)
(*                                                                         *)
(* A csworker remembers the names of the user operations it has seen: the  *)
(* sequence numbers of changelogs, its own or the asworker's, and the two  *)
(* checkpoints of each batchEdit.  Each name is also a user-checkpoint of  *)
(* its journal.  An undo or redo of an operation of the asworker is sent   *)
(* to the asworker, which undoes its own last step, or a whole batch, and  *)
(* tells every csworker under which name to do likewise.                   *)
(*                                                                         *)
(* Changelogs are applied in the order of their numbers (ChangelogSync);   *)
(* a model is the set of user operations in effect in it.                  *)
(***************************************************************************)
EXTENDS Journal, FiniteSets

CONSTANTS
    CSWorker, \* csworkers subscribed to the asworker
    MaxOps,   \* bound: requests made by clients
    BatchLen, \* edits in a batchEdit
    MayLocal, \* may an edit concern the concrete syntax only
    MayBatch, \* are there batchEdits
    MayFail,  \* may the asworker refuse an edit, or find nothing to change
    MayRedo,  \* are there redos
    Patient   \* do clients wait until a changelog of what they asked for is applied

ASSUME UndoRedoAssumption ==
    /\ IsFiniteSet(CSWorker)
    /\ MaxOps \in Nat /\ BatchLen \in Nat \ {0}
    /\ {MayLocal, MayBatch, MayFail, MayRedo, Patient} \subseteq BOOLEAN

VARIABLES
    asJournal, asContent, \* the asworker's journal, and the operations in effect
    asSeq,     \* its last sequence number
    csJournal, csContent, \* the same of each csworker
    csSeq,     \* its last sequence number
    names,     \* __handledSeqNums['#s']
    cursor,    \* __handledSeqNums['i'] + 1, the length of names if undefined
    chan,      \* changelogs on their way to each csworker
    request,   \* what the handler of each csworker has asked the asworker for
    batch,     \* the batchEdit that each csworker carries out
    before,    \* history: contents when its last batchEdit began
    outcome,   \* history: of its last request, if that concerned a batchEdit
    crashed,   \* has the csworker thrown out of its message handler
    smooth,    \* history: no edit refused or without effect, no batch redone
    early,     \* history: in what batchEdits have overtaken their own changelogs
    ops        \* requests so far

asw     == <<asJournal, asContent, asSeq>>
model   == <<csJournal, csContent, csSeq>>
history == <<names, cursor>>
vars    == <<asw, model, history, chan, request, batch, before, outcome, crashed, smooth, early, ops>>

\* names of operations and checkpoints
AsName(n)  == [kind |-> "as", n |-> n]
CsName(n)  == [kind |-> "cs", n |-> n]
StartOf(b) == [kind |-> "start", n |-> b]
EndOf(b)   == [kind |-> "end", n |-> b]
Marks(name, b) == name \in {StartOf(b), EndOf(b)}

\* what a handler of a csworker waits for: nothing, or a request to the asworker
Nothing == [func |-> "none"]
Edit    == [func |-> "edit"]
Mark(name) == [func |-> "mark", name |-> name]
\* name goes along as hitchhiker; undoUntil/redoUntil is sent for a batch only
UndoRedo(func, name) == [func |-> func, name |-> name]
IsWhole(r) == r.name.kind \in {"start", "end"}

\* id 0: no batchEdit; step k: its k-th edit is asked for, 0 the start checkpoint,
\* BatchLen + 1 the end checkpoint, BatchLen + 2 the rollback; reply of the last request
NoBatch == [id |-> 0, step |-> 0, reply |-> "none"]

Init ==
    /\ asJournal = EmptyJournal /\ asContent = {} /\ asSeq = 0
    /\ csJournal = [c \in CSWorker |-> EmptyJournal]
    /\ csContent = [c \in CSWorker |-> {}]
    /\ csSeq = [c \in CSWorker |-> 0]
    /\ names = [c \in CSWorker |-> <<>>]
    /\ cursor = [c \in CSWorker |-> 0]
    /\ chan = [c \in CSWorker |-> <<>>]
    /\ request = [c \in CSWorker |-> Nothing]
    /\ batch = [c \in CSWorker |-> NoBatch]
    /\ before = [c \in CSWorker |-> [as |-> {}, cs |-> {}]]
    /\ outcome = [c \in CSWorker |-> "none"]
    /\ crashed = [c \in CSWorker |-> FALSE]
    /\ smooth = TRUE
    /\ early = {}
    /\ ops = 0

-----------------------------------------------------------------------------
(* What happens to a journal and a content.                                *)

\* a user operation of the kernel: its step-checkpoint and what it did
Done(j, name) == Log(SetStepCheckpoint(j), [op |-> "DO", name |-> name])

OpsIn(entries) == { entries[i].name : i \in { k \in DOMAIN entries : entries[k].op = "DO" } }

Without(content, j, k) == content \ OpsIn(UndoneEntries(j, k))
With(content, j, k)    == content \cup OpsIn(RedoneEntries(j, k))

\* mutant: the operations that were undone stay in the list
Recorded_NoSplice(c, name) ==
    /\ names' = [names EXCEPT ![c] = Append(@, name)]
    /\ cursor' = [cursor EXCEPT ![c] = Len(names[c]) + 1]

\* __checkpointUserOperation, apart from its setUserCheckpoint
Recorded(c, name) ==
    /\ names' = [names EXCEPT ![c] = Append(SubSeq(@, 1, cursor[c]), name)]
    /\ cursor' = [cursor EXCEPT ![c] = @ + 1]

-----------------------------------------------------------------------------
(* The asworker.                                                           *)

Broadcast(changelog) ==
    /\ asSeq' = asSeq + 1
    /\ chan' = [c \in CSWorker |-> Append(chan[c], changelog)]

\* the response to c: its handler ends, or its batchEdit goes on
Respond(c, reply) ==
    /\ request' = [request EXCEPT ![c] = Nothing]
    /\ batch' = IF batch[c] = NoBatch THEN batch ELSE [batch EXCEPT ![c].reply = reply]

EditSucceeds(c) ==
    /\ request[c] = Edit
    /\ asJournal' = Done(asJournal, AsName(asSeq + 1))
    /\ asContent' = asContent \cup {AsName(asSeq + 1)}
    /\ Broadcast([func |-> "do", name |-> AsName(asSeq + 1), empty |-> FALSE])
    /\ Respond(c, "ok")
    /\ UNCHANGED <<model, history, before, outcome, crashed, smooth, early, ops>>

\* an edit that sets what is set already: an empty changelog
EditChangesNothing(c) ==
    /\ request[c] = Edit /\ MayFail
    /\ asJournal' = SetStepCheckpoint(asJournal)
    /\ Broadcast([func |-> "do", name |-> AsName(asSeq + 1), empty |-> TRUE])
    /\ Respond(c, "ok")
    /\ smooth' = FALSE
    /\ UNCHANGED <<asContent, model, history, before, outcome, crashed, early, ops>>

EditRefused(c) ==
    /\ request[c] = Edit /\ MayFail
    /\ asJournal' = SetStepCheckpoint(asJournal)
    /\ Respond(c, "error")
    /\ smooth' = FALSE
    /\ UNCHANGED <<asContent, asSeq, chan, model, history, before, outcome, crashed, early, ops>>

\* POST /batchCheckpoint
SetMark(c) ==
    /\ request[c].func = "mark"
    /\ asJournal' = SetUserCheckpoint(asJournal, request[c].name)
    /\ Broadcast(request[c])
    /\ Respond(c, "ok")
    /\ UNCHANGED <<asContent, model, history, before, outcome, crashed, smooth, early, ops>>

\* mutant: undoUntil is ignored
AswUndone_StepOnly(r) == UndoneStep(asJournal)
AswUndone(r) == IF IsWhole(r) THEN UndoneUntil(asJournal, r.name) ELSE UndoneStep(asJournal)
AswRedone(r) == IF IsWhole(r) THEN RedoneUntil(asJournal, r.name) ELSE RedoneStep(asJournal)

\* POST /undo
AswUndo(c) ==
    /\ request[c].func = "undo"
    /\ asJournal' = AswUndone(request[c])
    /\ asContent' = Without(asContent, asJournal, asJournal')
    /\ Broadcast(request[c])
    /\ Respond(c, "ok")
    /\ UNCHANGED <<model, history, before, outcome, crashed, smooth, early, ops>>

\* POST /redo
AswRedo(c) ==
    /\ request[c].func = "redo"
    /\ asJournal' = AswRedone(request[c])
    /\ asContent' = With(asContent, asJournal, asJournal')
    /\ Broadcast(request[c])
    /\ Respond(c, "ok")
    /\ smooth' = (smooth /\ ~IsWhole(request[c]))
    /\ UNCHANGED <<model, history, before, outcome, crashed, early, ops>>

-----------------------------------------------------------------------------
(* A csworker applies a changelog (__applyASWChanges).                     *)

Arrived(c, func) ==
    /\ ~crashed[c]
    /\ chan[c] # <<>> /\ Head(chan[c]).func = func
    /\ chan' = [chan EXCEPT ![c] = Tail(@)]
    /\ UNCHANGED <<asw, csSeq, request, batch, before, outcome, crashed, smooth, early, ops>>

ApplyDo(c) ==
    /\ Arrived(c, "do")
    /\ LET name == Head(chan[c]).name
           j    == SetUserCheckpoint(csJournal[c], name)
       IN  /\ Recorded(c, name)
           /\ IF Head(chan[c]).empty
              THEN /\ csJournal' = [csJournal EXCEPT ![c] = j]
                   /\ UNCHANGED csContent
              ELSE /\ csJournal' = [csJournal EXCEPT ![c] = Done(j, name)]
                   /\ csContent' = [csContent EXCEPT ![c] = @ \cup {name}]

ApplyMark(c) ==
    /\ Arrived(c, "mark")
    /\ Recorded(c, Head(chan[c]).name)
    /\ csJournal' = [csJournal EXCEPT ![c] = SetUserCheckpoint(@, Head(chan[c]).name)]
    /\ UNCHANGED csContent

UndoHere(c, name) ==
    LET j == UndoneUntil(csJournal[c], name) IN
    /\ csJournal' = [csJournal EXCEPT ![c] = j]
    /\ csContent' = [csContent EXCEPT ![c] = Without(@, csJournal[c], j)]

RedoHere(c, name) ==
    LET j == RedoneUntil(csJournal[c], name) IN
    /\ csJournal' = [csJournal EXCEPT ![c] = j]
    /\ csContent' = [csContent EXCEPT ![c] = With(@, csJournal[c], j)]

ApplyUndo(c) == Arrived(c, "undo") /\ UndoHere(c, Head(chan[c]).name) /\ UNCHANGED history
ApplyRedo(c) == Arrived(c, "redo") /\ RedoHere(c, Head(chan[c]).name) /\ UNCHANGED history

-----------------------------------------------------------------------------
(* Requests of clients.  A csworker takes one write at a time; changelogs  *)
(* that it was told of may be on their way, or wait for one whose          *)
(* application takes long.                                                 *)

Settled(c) == ~crashed[c] /\ request[c] = Nothing

\* the request counts, and what came before is no longer its last one
Asked(c) ==
    /\ Settled(c) /\ batch[c] = NoBatch
    /\ Patient => chan[c] = <<>>
    /\ ops < MaxOps /\ ops' = ops + 1

Ask(c, r) == request' = [request EXCEPT ![c] = r]

AskForEdit(c) ==
    /\ Asked(c)
    /\ Ask(c, Edit)
    /\ outcome' = [outcome EXCEPT ![c] = "none"]
    /\ UNCHANGED <<asw, model, history, chan, batch, before, crashed, smooth, early>>

\* PUT *.cs without impact on the abstract syntax
EditHere(c) ==
    LET name == CsName(csSeq[c] + 1) IN
    /\ csSeq' = [csSeq EXCEPT ![c] = @ + 1]
    /\ Recorded(c, name)
    /\ csJournal' = [csJournal EXCEPT ![c] = Done(SetUserCheckpoint(@, name), name)]
    /\ csContent' = [csContent EXCEPT ![c] = @ \cup {name}]

LocalEdit(c) ==
    /\ Asked(c) /\ MayLocal
    /\ EditHere(c)
    /\ outcome' = [outcome EXCEPT ![c] = "none"]
    /\ UNCHANGED <<asw, chan, request, batch, before, crashed, smooth, early>>

\* positions of the checkpoints of batch b in names[c]
MarksOf(c, b) == { k \in DOMAIN names[c] : Marks(names[c][k], b) }
\* where __undoredo stops looking for one, from k downwards or upwards; 0 if it does not
LastMark(c, b, k) == Highest({ m \in MarksOf(c, b) : m <= k })
\* mutant: looking for a checkpoint that is not there ends after the last name
FirstMark_StopsAtTheEnd(c, b, k) ==
    Lowest({ m \in MarksOf(c, b) : m >= k }, Len(names[c]) + 1)
FirstMark(c, b, k) == Lowest({ m \in MarksOf(c, b) : m >= k }, 0)

\* __undoredo for a batch, once `from` is where it looks from: all the csworker does
\* when there is no such checkpoint is throw
UndoWhole(c, b, from) ==
    IF LastMark(c, b, from) = 0
    THEN /\ crashed' = [crashed EXCEPT ![c] = TRUE]
         /\ UNCHANGED <<cursor, request>>
    ELSE /\ cursor' = [cursor EXCEPT ![c] = LastMark(c, b, from) - 1]
         /\ Ask(c, UndoRedo("undo", StartOf(b)))
         /\ UNCHANGED crashed

RedoWhole(c, b, from) ==
    IF FirstMark(c, b, from) = 0
    THEN /\ crashed' = [crashed EXCEPT ![c] = TRUE]
         /\ UNCHANGED <<cursor, request>>
    ELSE /\ cursor' = [cursor EXCEPT ![c] = FirstMark(c, b, from)]
         /\ Ask(c, UndoRedo("redo", EndOf(b)))
         /\ UNCHANGED crashed

\* POST /undo of the operation before the cursor
Undo(c) ==
    /\ Asked(c) /\ cursor[c] > 0
    /\ LET name == names[c][cursor[c]] IN
       \/ /\ name.kind = "cs"
          /\ cursor' = [cursor EXCEPT ![c] = @ - 1]
          /\ UndoHere(c, name)
          /\ UNCHANGED <<request, crashed>>
       \/ /\ name.kind = "as"
          /\ cursor' = [cursor EXCEPT ![c] = @ - 1]
          /\ Ask(c, UndoRedo("undo", name))
          /\ UNCHANGED <<csJournal, csContent, crashed>>
       \/ /\ name.kind \in {"start", "end"}
          /\ UndoWhole(c, name.n, cursor[c] - 1)
          /\ UNCHANGED <<csJournal, csContent>>
    /\ outcome' = [outcome EXCEPT ![c] = IF @ = "done" THEN "undone" ELSE "none"]
    /\ UNCHANGED <<asw, csSeq, names, chan, batch, before, smooth, early>>

\* POST /redo of the operation after the cursor
Redo(c) ==
    /\ Asked(c) /\ MayRedo /\ cursor[c] < Len(names[c])
    /\ LET name == names[c][cursor[c] + 1] IN
       \/ /\ name.kind = "cs"
          /\ cursor' = [cursor EXCEPT ![c] = @ + 1]
          /\ RedoHere(c, name)
          /\ UNCHANGED <<request, crashed>>
       \/ /\ name.kind = "as"
          /\ cursor' = [cursor EXCEPT ![c] = @ + 1]
          /\ Ask(c, UndoRedo("redo", name))
          /\ UNCHANGED <<csJournal, csContent, crashed>>
       \/ /\ name.kind \in {"start", "end"}
          /\ RedoWhole(c, name.n, cursor[c] + 2)
          /\ UNCHANGED <<csJournal, csContent>>
    /\ outcome' = [outcome EXCEPT ![c] = "none"]
    /\ UNCHANGED <<asw, csSeq, names, chan, batch, before, smooth, early>>

-----------------------------------------------------------------------------
(* batchEdit (POST_batchedit of src/__worker.js, see WorkerLocks): it goes *)
(* on with the response to a request, whether the changelog is applied or  *)
(* not.                                                                    *)

StartBatch(c) ==
    /\ Asked(c) /\ MayBatch
    /\ batch' = [batch EXCEPT ![c] = [id |-> ops + 1, step |-> 0, reply |-> "none"]]
    /\ before' = [before EXCEPT ![c] = [as |-> asContent, cs |-> csContent[c]]]
    /\ Ask(c, Mark(StartOf(ops + 1)))
    /\ outcome' = [outcome EXCEPT ![c] = "none"]
    /\ UNCHANGED <<asw, model, history, chan, crashed, smooth, early>>

\* the answer to the batch's last request is there
GotReply(c, reply) ==
    /\ Settled(c) /\ batch[c].reply = reply
    /\ UNCHANGED <<asw, chan, before, smooth, ops>>

\* the start checkpoint is still on its way
StartComes(c) == \E i \in DOMAIN chan[c] : chan[c][i] = Mark(StartOf(batch[c].id))

Hastened(what, soon) == early' = IF soon THEN early \cup {what} ELSE early

ToStep(c, k, reply) == batch' = [batch EXCEPT ![c].step = k, ![c].reply = reply]

NextEdit(c) ==
    /\ GotReply(c, "ok") /\ batch[c].step < BatchLen
    /\ \/ /\ ToStep(c, batch[c].step + 1, "none")
          /\ Ask(c, Edit)
          /\ UNCHANGED <<model, history, early>>
       \/ /\ MayLocal
          /\ ToStep(c, batch[c].step + 1, "ok")
          /\ EditHere(c)
          /\ Hastened("edit", StartComes(c))
          /\ UNCHANGED request
    /\ UNCHANGED <<outcome, crashed>>

LastEditDone(c) ==
    /\ GotReply(c, "ok") /\ batch[c].step = BatchLen
    /\ ToStep(c, BatchLen + 1, "none")
    /\ Ask(c, Mark(EndOf(batch[c].id)))
    /\ UNCHANGED <<model, history, outcome, crashed, early>>

EndBatch(c) ==
    /\ \/ /\ GotReply(c, "ok") /\ batch[c].step = BatchLen + 1
          /\ outcome' = [outcome EXCEPT ![c] = "done"]
       \/ /\ GotReply(c, "ok") /\ batch[c].step = BatchLen + 2
          /\ outcome' = [outcome EXCEPT ![c] = "failed"]
       \/ /\ GotReply(c, "error") /\ batch[c].step = 1 \* no result: nothing to undo
          /\ outcome' = [outcome EXCEPT ![c] = "failed"]
    /\ batch' = [batch EXCEPT ![c] = NoBatch]
    /\ UNCHANGED <<model, history, request, crashed, early>>

\* POST /undo with undoUntil: it looks for the start checkpoint from the cursor; when there
\* is nothing to undo, before that checkpoint is applied, it succeeds all the same
Rollback(c) ==
    /\ GotReply(c, "error") /\ batch[c].step > 1
    /\ IF cursor[c] = 0
       THEN /\ ToStep(c, BatchLen + 2, "ok")
            /\ UNCHANGED <<cursor, request, crashed>>
       ELSE /\ ToStep(c, BatchLen + 2, "none")
            /\ UndoWhole(c, batch[c].id, cursor[c])
    /\ Hastened("rollback", chan[c] # <<>>)
    /\ UNCHANGED <<model, names, outcome>>

-----------------------------------------------------------------------------
Serve(c)  == EditSucceeds(c) \/ EditChangesNothing(c) \/ EditRefused(c) \/ SetMark(c)
               \/ AswUndo(c) \/ AswRedo(c)
Apply(c)  == ApplyDo(c) \/ ApplyMark(c) \/ ApplyUndo(c) \/ ApplyRedo(c)
Client(c) == AskForEdit(c) \/ LocalEdit(c) \/ Undo(c) \/ Redo(c) \/ StartBatch(c)
Batch(c)  == NextEdit(c) \/ LastEditDone(c) \/ EndBatch(c) \/ Rollback(c)

Next == \E c \in CSWorker : Serve(c) \/ Apply(c) \/ Client(c) \/ Batch(c)

Spec == Init /\ [][Next]_vars

-----------------------------------------------------------------------------
(* Properties.                                                             *)

Name      == [kind : {"as", "cs", "start", "end"}, n : Nat]
Entry     == {MKSTPCHKPT} \cup [op : {"DO", "MKUSRCHKPT"}, name : Name]
Posted    == [func : {"do"}, name : Name, empty : BOOLEAN]
                \cup [func : {"mark", "undo", "redo"}, name : Name]
Request   == {Nothing, Edit} \cup [func : {"mark", "undo", "redo"}, name : Name]
IsJournal(j) == j \in [log : Seq(Entry), index : Nat] /\ j.index <= Len(j.log)

\* Every variable has its type; indices stay inside what they index.
TypeOK ==
    /\ IsJournal(asJournal) /\ asContent \in SUBSET Name /\ asSeq \in Nat
    /\ DOMAIN csJournal = CSWorker /\ \A c \in CSWorker : IsJournal(csJournal[c])
    /\ csContent \in [CSWorker -> SUBSET Name] /\ csSeq \in [CSWorker -> Nat]
    /\ names \in [CSWorker -> Seq(Name)]
    /\ cursor \in [CSWorker -> Nat] /\ \A c \in CSWorker : cursor[c] <= Len(names[c])
    /\ chan \in [CSWorker -> Seq(Posted)]
    /\ request \in [CSWorker -> Request]
    /\ batch \in [CSWorker -> [id : 0 .. MaxOps, step : 0 .. BatchLen + 2, reply : {"none", "ok", "error"}]]
    /\ before \in [CSWorker -> [as : SUBSET Name, cs : SUBSET Name]]
    /\ outcome \in [CSWorker -> {"none", "done", "failed", "undone"}]
    /\ crashed \in [CSWorker -> BOOLEAN]
    /\ smooth \in BOOLEAN /\ early \subseteq {"edit", "rollback"} /\ ops \in 0 .. MaxOps

\* a csworker that has nothing to do
AtRest(c) == ~crashed[c] /\ request[c] = Nothing /\ chan[c] = <<>>

UserCheckpoints(j) == { i \in DOMAIN j.log : IsUserCheckpoint(j.log[i]) }

\* A journal has a user-checkpoint for each name of a list, no other, in the order of the list,
\* and the applied ones are the first k.
Marked(list, k, j) ==
    /\ \A x \in DOMAIN list : \E i \in UserCheckpoints(j) : j.log[i].name = list[x]
    /\ \A i \in UserCheckpoints(j) : \E x \in DOMAIN list : j.log[i].name = list[x]
    /\ \A i \in UserCheckpoints(j), x \in DOMAIN list : j.log[i].name = list[x] =>
           /\ i <= j.index <=> x <= k
           /\ \A m \in UserCheckpoints(j), y \in DOMAIN list : j.log[m].name = list[y] =>
                  (i < m <=> x < y)

\* The list of names and the journal of a csworker tell the same story: each name is a
\* checkpoint once, those up to the cursor in the applied part and the others in the part
\* that can be redone.  So an undo or redo by name finds its name.  But a batchEdit that is
\* rolled back before its changelogs are applied has the cursor before its start checkpoint
\* when they come: __checkpointUserOperation then forgets names of the journal.
NamesAreMarked ==
    "rollback" \notin early =>
    \A c \in CSWorker : AtRest(c) => Marked(names[c], cursor[c], csJournal[c])

\* A batchEdit that fails, and one that is undone, leave the asworker and the csworker
\* as they were before it ("if any of the requests fail, every preceding request is
\* undone", POST_batchedit).  This is not so in general (MCUndoRedo_hurry.cfg).
BatchIsTakenBack ==
    \A c \in CSWorker :
        AtRest(c) /\ batch[c] = NoBatch /\ outcome[c] \in {"failed", "undone"}
        => csContent[c] = before[c].cs /\ asContent = before[c].as

\* It is so, whatever failed, was undone or redone before and however late changelogs are
\* applied while the batchEdit goes on, except that a rollback must not overtake the
\* changelogs of its batch (it may then find no start checkpoint and do nothing, or throw),
\* nor an edit of the concrete syntax the start checkpoint (it then survives the undo).
BatchIsAtomic == early = {} => BatchIsTakenBack

\* A csworker has the same operations of the asworker in effect as the asworker.
Agree(c) == { n \in csContent[c] : n.kind = "as" } = asContent
WorkersAgree == \A c \in CSWorker : AtRest(c) => Agree(c)

\* They agree as long as no edit was refused or without effect and no batch redone.
AgreeWhileSmooth == smooth => WorkersAgree
=============================================================================
