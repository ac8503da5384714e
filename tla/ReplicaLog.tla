----------------------------- MODULE ReplicaLog -----------------------------
(***************************************************************************)
(* What changelog propagation promises: one asworker issues changelogs 1,  *)
(* 2, 3, ... and every subscribed csworker applies each of them, once, in  *)
(* that order, and eventually.                                             *)
(***************************************************************************)
EXTENDS Naturals

CONSTANTS Replica,  \* the csworkers
          MaxIssued \* bound: changelogs issued

VARIABLES issued,   \* number of changelogs issued
          applied   \* [Replica -> number of changelogs applied]

TypeOK == issued \in 0 .. MaxIssued /\ applied \in [Replica -> 0 .. MaxIssued]

Init == issued = 0 /\ applied = [c \in Replica |-> 0]

Issue == /\ issued < MaxIssued
         /\ issued' = issued + 1
         /\ UNCHANGED applied

Apply(c) == /\ applied[c] < issued
            /\ applied' = [applied EXCEPT ![c] = @ + 1]
            /\ UNCHANGED issued

Next == Issue \/ \E c \in Replica : Apply(c)

Spec == /\ Init /\ [][Next]_<<issued, applied>>
        /\ \A c \in Replica : WF_<<issued, applied>>(Apply(c))
=============================================================================
