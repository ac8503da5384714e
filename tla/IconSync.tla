------------------------------ MODULE IconSync ------------------------------
(***************************************************************************)
(* How a csworker draws the icons of a model (src/csworker.js): an icon    *)
(* for every node that an asworker changelog makes, redrawn from mappers   *)
(* that the asworker evaluates (__regenIcon); undo of what a changelog     *)
(* did; a switch to another concrete syntax, which replaces every icon;    *)
(* and saving, which bundles the csworker's model with the asworker's.     *)
(*                                                                         *)
(* Each of these waits for an answer of the asworker and meanwhile the     *)
(* asworker's model, and the csworker's own, may change.  What an icon     *)
(* shows is the value its mapper computes from the node; a value is named  *)
(* by the number of the changelog that announced it.                       *)
(*                                                                         *)
(* One csworker, one abstract metamodel.  Order and loss of changelogs are *)
(* in ChangelogSync, redo and refused operations in UndoRedo: here they    *)
(* arrive in order, and one that comes while another is being applied      *)
(* stays in chan, which thus stands for the socket and for                 *)
(* __pendingChangelogs.                                                    *)
(***************************************************************************)
EXTENDS Naturals, Sequences, FiniteSets, SequencesExt, Functions, TLC

CONSTANTS
    Node,      \* ids of nodes of the asworker's model
    CSMM,      \* concrete syntaxes: names of Icons metamodels
    First,     \* the one that is loaded at the start
    MaxMade,   \* bound: changelogs of the asworker
    MaxSwitch, \* bound: switches of concrete syntax
    MaxUndo,   \* bound: undos
    MaxSave    \* bound: saves

ASSUME IconSyncAssumption ==
    /\ First \in CSMM
    /\ MaxMade \in Nat /\ MaxSwitch \in Nat /\ MaxUndo \in Nat /\ MaxSave \in Nat

VARIABLES
    attr,     \* asworker: [Node -> value], 0 when there is no such node
    born,     \* asworker: ids given out; none is given twice
    asdone,   \* asworker: the operations that undo would take back
    made,     \* asworker: __nextSequenceNumber
    chan,     \* changelogs on their way, and those kept for later
    next,     \* __nextASWSequenceNumber
    ask,      \* [Asker -> request for mappings on its way, or Idle]
    icons,    \* icons of _mmmk: from id to [as, mm, shown]
    nextid,   \* _mmmk.next_id
    loaded,   \* metamodels of _mmmk
    csid,     \* __asid2csid, 0 where there is no entry
    csmm,     \* __asmm2csmm
    handled,  \* __handledSeqNums, each with what _mmmk.undo would go back to
    switch,   \* the CS switch in progress, or NoSwitch
    crashed,  \* a callback threw
    save,     \* PUT *.model in progress, or NoSave
    torn,     \* a bundle was written with models of different sequence numbers
    undos, switches, saves, \* bounds
    ahead,    \* an icon was drawn from a later model than that of the changelogs applied
    undone,   \* an asworker operation was undone
    disturbed \* a switch was undone, repeated, or met a changelog (see NoteSwitch, ApplyUndo)

asw     == <<attr, born, asdone, made>>
model   == <<icons, nextid, loaded>>
tables  == <<csid, csmm, handled>>
bounds  == <<undos, switches, saves>>
history == <<ahead, undone, disturbed>>
saving  == <<save, torn>>
vars == <<asw, chan, next, ask, model, tables, switch, crashed, saving, bounds, history>>

Asker == {"apply", "switch"}
Value == 0 .. MaxMade
Id    == 1 .. (MaxMade * (MaxSwitch + 1))

OfCsworker == 0          \* the name of a checkpoint, '/csworker#...', that is no changelog's
Unread   == MaxMade + 1  \* mappings not evaluated yet
Failed   == MaxMade + 2  \* '$err': the node is not there
NaN      == MaxMade + 3
Idle     == [icon |-> 0]
NoSwitch == [to |-> "none"]
NoSave   == [phase |-> "none"]

Init ==
    /\ attr = [n \in Node |-> 0] /\ born = {} /\ asdone = <<>> /\ made = 0
    /\ chan = <<>> /\ next = 1 /\ ask = [a \in Asker |-> Idle]
    /\ icons = <<>> /\ nextid = 1 /\ loaded = {First}
    /\ csid = [n \in Node |-> 0] /\ csmm = First /\ handled = <<>>
    /\ switch = NoSwitch /\ crashed = FALSE
    /\ save = NoSave /\ torn = FALSE
    /\ undos = 0 /\ switches = 0 /\ saves = 0
    /\ ahead = FALSE /\ undone = FALSE /\ disturbed = FALSE

-----------------------------------------------------------------------------
(* The asworker.                                                           *)

\* Its model changes, at the request of this csworker's clients, of others, or of a transformation.
Edit(op, n) ==
    /\ made < MaxMade
    /\ IF op = "MKNODE" THEN n \notin born ELSE attr[n] # 0
    /\ made' = made + 1
    /\ born' = born \cup {n}
    /\ attr' = [attr EXCEPT ![n] = IF op = "RMNODE" THEN 0 ELSE made + 1]
    /\ asdone' = Append(asdone, [name |-> made + 1, node |-> n, old |-> attr[n]])
    /\ chan' = Append(chan, [op |-> op, node |-> n, sn |-> made + 1])
    /\ UNCHANGED <<next, ask, model, tables, switch, crashed, saving, bounds, history>>

\* POST *.mappings: the mappers see the model as it is now.  (A request that fails is sent
\* again after __REGEN_ICON_RETRY_DELAY_MS: nothing changes.)
Evaluate(a) ==
    /\ ask[a] # Idle /\ ask[a].value = Unread
    /\ LET value == attr[ask[a].node] IN
       /\ ask' = [ask EXCEPT ![a].value = IF value = 0 THEN Failed ELSE value]
       /\ ahead' = (ahead \/ value = 0 \/ value > ask[a].sn)
    /\ UNCHANGED <<asw, chan, next, model, tables, switch, crashed, saving, bounds, undone, disturbed>>

-----------------------------------------------------------------------------
(* Icons.                                                                  *)

IconsOf(n) == {c \in DOMAIN icons : icons[c].as = n}

\* __asid_to_csid: the table's entry, or an icon whose $asuri is the node's
CsidOf(n) ==
    CASE csid[n] # 0      -> csid[n]
      [] csid[n] = 0 /\ IconsOf(n) # {} -> CHOOSE c \in IconsOf(n) : \A d \in IconsOf(n) : c <= d
      [] OTHER            -> 0

\* a new icon, whose coded attributes have their defaults
Icon(n, mm) == [as |-> n, mm |-> mm, shown |-> 0]

\* _mmmk.update of the coded attributes: refused if the icon is gone
Redrawn(a) ==
    IF ask[a].value # Failed /\ ask[a].icon \in DOMAIN icons
    THEN [icons EXCEPT ![ask[a].icon].shown = ask[a].value]
    ELSE icons

\* __regenIcon asks the asworker for the values of the icon's coded attributes
AskMappings(c, n, sn) == [icon |-> c, node |-> n, sn |-> sn, value |-> Unread]

\* __checkpointUserOperation
Checkpoint(name) == handled' = Append(handled, [name |-> name, icons |-> icons, loaded |-> loaded])

Throws ==
    /\ crashed' = TRUE
    /\ UNCHANGED <<asw, next, ask, model, tables, switch, saving, bounds, history>>

-----------------------------------------------------------------------------
(* __applyASWChanges.                                                      *)

\* the next changelog, when the one before it has been applied
Takes(op) ==
    /\ ~crashed /\ ask["apply"] = Idle
    /\ chan # <<>> /\ Head(chan).op = op
    /\ chan' = Tail(chan)

\* a changelog changes the icons while a switch replaces them
NoteSwitch == disturbed' = (disturbed \/ switch # NoSwitch)

ApplyMknode ==
    /\ Takes("MKNODE") /\ csmm \in loaded
    /\ LET n == Head(chan).node IN
       /\ Checkpoint(next)
       /\ icons' = (nextid :> Icon(n, csmm)) @@ icons
       /\ csid' = [csid EXCEPT ![n] = nextid]
       /\ ask' = [ask EXCEPT !["apply"] = AskMappings(nextid, n, next)]
    /\ nextid' = nextid + 1
    /\ NoteSwitch
    /\ UNCHANGED <<asw, next, loaded, csmm, switch, crashed, saving, bounds, ahead, undone>>

\* mutant: the icon is not redrawn
ApplyChattr_NoRegen ==
    /\ Takes("CHATTR")
    /\ LET n == Head(chan).node
           c == CsidOf(n) IN
       /\ c \in DOMAIN icons
       /\ Checkpoint(next)
       /\ csid' = [csid EXCEPT ![n] = c]
    /\ next' = next + 1
    /\ NoteSwitch
    /\ UNCHANGED <<asw, ask, model, csmm, switch, crashed, saving, bounds, ahead, undone>>

ApplyChattr ==
    /\ Takes("CHATTR")
    /\ LET n == Head(chan).node
           c == CsidOf(n) IN
       /\ c \in DOMAIN icons
       /\ Checkpoint(next)
       /\ csid' = [csid EXCEPT ![n] = c]
       /\ ask' = [ask EXCEPT !["apply"] = AskMappings(c, n, next)]
    /\ NoteSwitch
    /\ UNCHANGED <<asw, next, model, csmm, switch, crashed, saving, bounds, ahead, undone>>

ApplyRmnode ==
    /\ Takes("RMNODE")
    /\ LET n == Head(chan).node
           c == CsidOf(n) IN
       /\ c \in DOMAIN icons
       /\ Checkpoint(next)
       /\ icons' = Restrict(icons, DOMAIN icons \ {c})
       /\ csid' = [csid EXCEPT ![n] = 0]
    /\ next' = next + 1
    /\ NoteSwitch
    /\ UNCHANGED <<asw, ask, nextid, loaded, csmm, switch, crashed, saving, bounds, ahead, undone>>

\* a changelog with a hitchhiker 'undo': _mmmk goes back to the checkpoint that it names, also
\* over a switch that was made while the changelog was on its way
ApplyUndo ==
    /\ Takes("UNDO")
    /\ icons' = Head(chan).to.icons
    /\ loaded' = Head(chan).to.loaded
    /\ next' = next + 1
    /\ disturbed' = (disturbed \/ switch # NoSwitch \/ Len(handled) >= Head(chan).depth)
    /\ UNCHANGED <<asw, ask, nextid, tables, switch, crashed, saving, bounds, ahead, undone>>

\* the icon is gone, or the metamodel that it is to be an instance of
ApplyThrows ==
    /\ \/ Takes("MKNODE") /\ csmm \notin loaded
       \/ (Takes("CHATTR") \/ Takes("RMNODE")) /\ CsidOf(Head(chan).node) \notin DOMAIN icons
    /\ Throws

\* mutant: a changelog whose mappers failed is not counted
Redraw_CountsDrawn ==
    /\ ~crashed /\ ask["apply"] # Idle /\ ask["apply"].value # Unread
    /\ icons' = Redrawn("apply")
    /\ ask' = [ask EXCEPT !["apply"] = Idle]
    /\ next' = IF ask["apply"].value = Failed THEN next ELSE next + 1
    /\ UNCHANGED <<asw, chan, nextid, loaded, tables, switch, crashed, saving, bounds, history>>

\* the values arrive: update the icon, push the csworker's changelog
Redraw ==
    /\ ~crashed /\ ask["apply"] # Idle /\ ask["apply"].value # Unread
    /\ icons' = Redrawn("apply")
    /\ ask' = [ask EXCEPT !["apply"] = Idle]
    /\ next' = next + 1
    /\ UNCHANGED <<asw, chan, nextid, loaded, tables, switch, crashed, saving, bounds, history>>

-----------------------------------------------------------------------------
(* PUT /current.metamodels without an abstract metamodel: a CS switch.     *)

\* __regenIcon with newCsmm, of the first of ids: its replacement, and the request for its values
Replace(is, ids, to) ==
    LET c == Head(ids)
        n == is[c].as IN
    /\ icons' = (nextid :> Icon(n, to)) @@ Restrict(is, DOMAIN is \ {c})
    /\ nextid' = nextid + 1
    /\ csid' = [csid EXCEPT ![n] = nextid]
    /\ ask' = [ask EXCEPT !["switch"] = AskMappings(nextid, n, next - 1)]
    /\ switch' = [to |-> to, todo |-> Tail(ids)]

\* __transformIcons: the icons to replace, each of the current syntax
OldIcons == SetToSortSeq({c \in DOMAIN icons : icons[c].mm = csmm}, <)

\* the new syntax is loaded, and the first icon replaced
SwitchStart(to) ==
    /\ ~crashed /\ switch = NoSwitch /\ switches < MaxSwitch
    /\ OldIcons # <<>>
    /\ Checkpoint(OfCsworker)
    /\ loaded' = loaded \cup {to}
    /\ Replace(icons, OldIcons, to)
    /\ switches' = switches + 1
    /\ disturbed' = (disturbed \/ to = csmm)
    /\ UNCHANGED <<asw, chan, next, csmm, crashed, saving, undos, saves, ahead, undone>>

SwitchAnswered == ~crashed /\ switch # NoSwitch /\ ask["switch"].value # Unread

\* the values of one icon arrive, and the next one is replaced
SwitchNext ==
    /\ SwitchAnswered /\ switch.todo # <<>>
    /\ switch.to \in loaded /\ Head(switch.todo) \in DOMAIN icons
    /\ Replace(Redrawn("switch"), switch.todo, switch.to)
    /\ UNCHANGED <<asw, chan, next, loaded, csmm, handled, crashed, saving, bounds, history>>

\* the next one is gone, or the new syntax is
SwitchThrows ==
    /\ SwitchAnswered /\ switch.todo # <<>>
    /\ switch.to \notin loaded \/ Head(switch.todo) \notin DOMAIN icons
    /\ UNCHANGED chan
    /\ Throws

\* mutant: the tables are left as they were
SwitchEnd_KeepTable ==
    /\ SwitchAnswered /\ switch.todo = <<>>
    /\ LET is == Redrawn("switch") IN
       icons' = Restrict(is, {c \in DOMAIN is : is[c].mm # csmm})
    /\ loaded' = loaded \ {csmm}
    /\ ask' = [ask EXCEPT !["switch"] = Idle]
    /\ switch' = NoSwitch
    /\ UNCHANGED <<asw, chan, next, nextid, csmm, csid, handled, crashed, saving, bounds, history>>

\* mutant: the old syntax is unloaded, but not its icons
SwitchEnd_KeepIcons ==
    /\ SwitchAnswered /\ switch.todo = <<>>
    /\ icons' = Redrawn("switch")
    /\ loaded' = loaded \ {csmm}
    /\ csmm' = switch.to
    /\ ask' = [ask EXCEPT !["switch"] = Idle]
    /\ switch' = NoSwitch
    /\ UNCHANGED <<asw, chan, next, nextid, csid, handled, crashed, saving, bounds, history>>

\* the last one is drawn: unloading the old syntax deletes its icons
SwitchEnd ==
    /\ SwitchAnswered /\ switch.todo = <<>>
    /\ LET is == Redrawn("switch") IN
       icons' = Restrict(is, {c \in DOMAIN is : is[c].mm # csmm})
    /\ loaded' = loaded \ {csmm}
    /\ csmm' = switch.to
    /\ ask' = [ask EXCEPT !["switch"] = Idle]
    /\ switch' = NoSwitch
    /\ UNCHANGED <<asw, chan, next, nextid, csid, handled, crashed, saving, bounds, history>>

-----------------------------------------------------------------------------
(* POST /undo of the last operation handled.                               *)

CanUndo ==
    /\ ~crashed /\ undos < MaxUndo /\ switch = NoSwitch
    /\ handled # <<>>
    /\ undos' = undos + 1
    /\ handled' = Front(handled)

\* One of the asworker's: the asworker takes it back and tells every csworker.  The client has
\* seen all changelogs (UndoRedo has the client that has not).
UndoAsworker ==
    /\ CanUndo /\ Last(handled).name # OfCsworker
    /\ chan = <<>> /\ ask["apply"] = Idle
    /\ made < MaxMade
    /\ LET o == Last(asdone) IN attr' = [attr EXCEPT ![o.node] = o.old]
    /\ asdone' = Front(asdone)
    /\ made' = made + 1
    /\ chan' = <<[op |-> "UNDO", to |-> Last(handled), depth |-> Len(handled), sn |-> made + 1]>>
    /\ undone' = TRUE
    /\ UNCHANGED <<born, next, ask, model, csid, csmm, switch, crashed, saving, switches, saves, ahead, disturbed>>

\* A CS switch: the csworker takes it back by itself; __asid2csid and __asmm2csmm are not in the journal
UndoSwitch ==
    /\ CanUndo /\ Last(handled).name = OfCsworker
    /\ icons' = Last(handled).icons
    /\ loaded' = Last(handled).loaded
    /\ disturbed' = TRUE
    /\ UNCHANGED <<asw, chan, next, ask, nextid, csid, csmm, switch, crashed, saving, switches, saves, ahead, undone>>

-----------------------------------------------------------------------------
(* PUT *.model: a reader, so it runs beside everything else.               *)

\* arithmetic on a sequence number, which is a string like '/asworker#4'
MinusOne(sn) == NaN

\* what is compared with NaN is neither greater nor less
LessThan(a, b) == a # NaN /\ b # NaN /\ a < b

SaveAsk ==
    /\ ~crashed /\ save = NoSave /\ saves < MaxSave
    /\ saves' = saves + 1
    /\ save' = [phase |-> "asked"]
    /\ UNCHANGED <<asw, chan, next, ask, model, tables, switch, crashed, torn, undos, switches, history>>

\* GET /current.model, with the number of the last changelog
SaveRead ==
    /\ save.phase = "asked"
    /\ save' = [phase |-> "read", sn |-> made]
    /\ UNCHANGED <<asw, chan, next, ask, model, tables, switch, crashed, torn, bounds, history>>

\* The numbers are compared, to read again an AS model that is too old or too recent.  No two of
\* them compare as different, so that case is not in Next.
SaveWrite ==
    /\ ~crashed /\ save.phase = "read"
    /\ ~LessThan(save.sn, MinusOne(next)) /\ ~LessThan(MinusOne(next), save.sn)
    /\ torn' = (torn \/ save.sn # next - 1)
    /\ save' = NoSave
    /\ UNCHANGED <<asw, chan, next, ask, model, tables, switch, crashed, bounds, history>>

-----------------------------------------------------------------------------

Apply == ApplyMknode \/ ApplyChattr \/ ApplyRmnode \/ ApplyUndo \/ ApplyThrows \/ Redraw

Switch == SwitchNext \/ SwitchThrows \/ SwitchEnd

Next ==
    \/ \E n \in Node : Edit("MKNODE", n) \/ Edit("CHATTR", n) \/ Edit("RMNODE", n)
    \/ \E a \in Asker : Evaluate(a)
    \/ Apply
    \/ \E mm \in CSMM : SwitchStart(mm)
    \/ Switch
    \/ UndoAsworker \/ UndoSwitch
    \/ SaveAsk \/ SaveRead \/ SaveWrite

\* Sockets deliver, and a request for mappings is answered in the end, however often it is repeated.
Fairness ==
    /\ WF_vars(Apply)
    /\ WF_vars(Switch)
    /\ \A a \in Asker : WF_vars(Evaluate(a))

Spec == Init /\ [][Next]_vars /\ Fairness

-----------------------------------------------------------------------------
(* Properties.                                                             *)

Request == {Idle} \cup [icon : Id, node : Node, sn : Value, value : 1 .. Failed]
IconType == [as : Node, mm : CSMM, shown : Value]

\* Types; an icon's id is below next_id, and the metamodel of an icon is loaded.
TypeOK ==
    /\ attr \in [Node -> Value] /\ born \subseteq Node
    /\ made \in Value /\ next \in 1 .. (MaxMade + 1)
    /\ ask \in [Asker -> Request]
    /\ nextid \in Nat /\ DOMAIN icons \subseteq 1 .. (nextid - 1)
    /\ \A c \in DOMAIN icons : icons[c] \in IconType /\ icons[c].mm \in loaded
    /\ csid \in [Node -> 0 .. (nextid - 1)] /\ csmm \in CSMM /\ loaded \subseteq CSMM
    /\ crashed \in BOOLEAN

\* When every changelog has been applied and no answer is awaited, there is one icon for each
\* node, in the current syntax, that shows the node as it is, and the tables lead to it: for every
\* interleaving of edits, mapper evaluations, undos and switches, except that undo brings back what
\* was drawn ahead of its changelog, and that switches do not bear undo, repetition or company.
IconsCurrent ==
    (chan = <<>> /\ ask["apply"] = Idle /\ switch = NoSwitch /\ ~disturbed /\ ~(ahead /\ undone)) =>
        \A n \in Node :
            IF attr[n] = 0 THEN IconsOf(n) = {}
            ELSE \E c \in DOMAIN icons :
                    /\ IconsOf(n) = {c} /\ CsidOf(n) = c
                    /\ icons[c].mm = csmm /\ icons[c].shown = attr[n]

\* The csworker only claims to have applied a changelog when the icon shows it, or something later:
\* mapper answers are not behind, whatever was edited or removed while they were on their way.
ShowsItsChangelogs ==
    ~undone /\ ~disturbed =>
        \A c \in DOMAIN icons, i \in DOMAIN asdone :
            \/ asdone[i].node # icons[c].as \/ asdone[i].name >= next
            \/ attr[icons[c].as] = 0
            \/ \E a \in Asker : ask[a].icon = c
            \/ icons[c].shown >= asdone[i].name

\* A csworker applies every changelog, unless a switch that met one or was undone made it throw.
AllApplied == <>[](next = made + 1 \/ (crashed /\ disturbed))

\* What the comment of PUT *.model says: the two models of a bundle are of the same sequence number.
SaveConsistent == ~torn

=============================================================================
