----------------------------- MODULE MCUndoRedo -----------------------------
(* Instances of UndoRedo. *)
EXTENDS UndoRedo, TLC
CONSTANTS c1, c2

\* a batchEdit that overtook its changelogs is followed no further than two requests: most
\* properties say nothing of what comes then
TwoRequestsIfEarly == early = {} \/ ops <= 2
=============================================================================
