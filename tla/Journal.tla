------------------------------ MODULE Journal ------------------------------
(***************************************************************************)
(* The journal of src/mmmk.js as a value: the log, how many of its entries *)
(* are applied, and what each journalling function makes of them.          *)
(*                                                                         *)
(* A journal is a record [log, index]; entries 1..index of log are the     *)
(* applied ones, so `index` is this.journalIndex and log[index + 1] is     *)
(* this.journal[this.journalIndex].                                        *)
(***************************************************************************)
EXTENDS Naturals, Sequences, SequencesExt

EmptyJournal == [log |-> <<>>, index |-> 0]

MKCHKPT == [op |-> "MKCHKPT"]
MKSTPCHKPT == [op |-> "MKSTPCHKPT"]
MKUSRCHKPT(name) == [op |-> "MKUSRCHKPT", name |-> name]

IsCheckpoint(e)     == e.op = "MKCHKPT"
IsStepCheckpoint(e) == e.op = "MKSTPCHKPT"
IsUserCheckpoint(e) == e.op = "MKUSRCHKPT"
IsMarker(e)         == e.op \in {"MKCHKPT", "MKSTPCHKPT", "MKUSRCHKPT"}
IsNamed(e, name)    == IsUserCheckpoint(e) /\ e.name = name

\* greatest and least element of a finite set of naturals, 0 and d if it is empty
Highest(S)     == IF S = {} THEN 0 ELSE CHOOSE i \in S : \A k \in S : k <= i
Lowest(S, d) == IF S = {} THEN d ELSE CHOOSE i \in S : \A k \in S : i <= k

-----------------------------------------------------------------------------
(* Logging and checkpoints.                                                *)

Applied(j) == SubSeq(j.log, 1, j.index)

\* mutant: the undone operations stay after the new one
Log_KeepFuture(j, e) ==
    [log |-> Applied(j) \o <<e>> \o SubSeq(j.log, j.index + 1, Len(j.log)),
     index |-> j.index + 1]

\* __log: whatever was undone is forgotten
Log(j, e) == [log |-> Append(Applied(j), e), index |-> j.index + 1]

\* __setStepCheckpoint: a checkpoint that ends the log is used again
SetStepCheckpoint(j) ==
    IF j.log # <<>> /\ IsStepCheckpoint(j.log[Len(j.log)]) THEN j ELSE Log(j, MKSTPCHKPT)

\* setUserCheckpoint
SetUserCheckpoint(j, name) ==
    IF j.log # <<>> /\ IsNamed(j.log[Len(j.log)], name) THEN j
                                                      ELSE Log(j, MKUSRCHKPT(name))

CrudCheckpoints(j) == { i \in DOMAIN j.log : IsCheckpoint(j.log[i]) }
LastCheckpoint(j) == Highest(CrudCheckpoints(j))

\* __clearCheckpoint
ClearCheckpoint(j) ==
    IF LastCheckpoint(j) = 0 THEN j
    ELSE [log |-> RemoveAt(j.log, LastCheckpoint(j)), index |-> j.index - 1]

\* __restoreCheckpoint: what it undoes, and the journal it leaves
RestoredEntries(j) == SubSeq(j.log, LastCheckpoint(j) + 1, Len(j.log))
\* mutant: the checkpoint itself stays in the journal
RestoreCheckpoint_KeepMarker(j) ==
    [log |-> SubSeq(j.log, 1, LastCheckpoint(j)), index |-> LastCheckpoint(j)]

\* mutant: the journal is cut and the index stays where it was
RestoreCheckpoint_KeepIndex(j) ==
    [j EXCEPT !.log = SubSeq(@, 1, IF LastCheckpoint(j) = 0 THEN 0 ELSE LastCheckpoint(j) - 1)]

RestoreCheckpoint(j) ==
    LET n == IF LastCheckpoint(j) = 0 THEN 0 ELSE LastCheckpoint(j) - 1
    IN  [log |-> SubSeq(j.log, 1, n), index |-> n]

\* __changelog after a user-operation: what follows the last step-checkpoint
\* (or the first entry, when there is no step-checkpoint)
LastStep(j) == Highest({ i \in 1 .. j.index : IsStepCheckpoint(j.log[i]) })
Changelog(j) ==
    SubSeq(j.log, (IF LastStep(j) = 0 THEN 1 ELSE LastStep(j)) + 1, j.index)

-----------------------------------------------------------------------------
(* undo and redo move the index and leave the log alone.                   *)

\* undo(): back to before the last step-checkpoint, or to the beginning
UndoneStep(j) ==
    LET m == LastStep(j) IN [j EXCEPT !.index = IF m = 0 THEN 0 ELSE m - 1]

\* undo(name): back to before the last checkpoint of that name, if there is one
UndoneUntil(j, name) ==
    LET m == Highest({ i \in 1 .. j.index : IsNamed(j.log[i], name) })
    IN  IF m = 0 THEN j ELSE [j EXCEPT !.index = m - 1]

\* redo(): from the entry the index is on to before the next step-checkpoint
RedoneStep(j) ==
    IF j.index = Len(j.log) THEN j
    ELSE LET stops == { i \in j.index + 2 .. Len(j.log) : IsStepCheckpoint(j.log[i]) }
         IN  [j EXCEPT !.index = Lowest(stops, Len(j.log) + 1) - 1]

\* redo(name): past the next checkpoint of that name, to before the user-checkpoint
\* that follows it
RedoneUntil(j, name) ==
    LET found == { i \in j.index + 1 .. Len(j.log) : IsNamed(j.log[i], name) }
        from  == Lowest(found, 0)
        stops == { i \in from + 1 .. Len(j.log) : IsUserCheckpoint(j.log[i]) }
    IN  IF found = {} THEN j ELSE [j EXCEPT !.index = Lowest(stops, Len(j.log) + 1) - 1]

\* what an undo of j to k undoes, and what a redo of j to k redoes: the entry the
\* index is on is taken for a marker and skipped
UndoneEntries(j, k) == SubSeq(j.log, k.index + 1, j.index)
RedoneEntries(j, k) == SubSeq(j.log, j.index + 2, k.index)
=============================================================================
