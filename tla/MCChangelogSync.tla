--------------------------- MODULE MCChangelogSync ---------------------------
(* Instances of ChangelogSync. *)
EXTENDS ChangelogSync, TLC
CONSTANTS c1, c2, b
=============================================================================
