----------------------------- MODULE MCIconSync -----------------------------
(* Instances of IconSync. *)
EXTENDS IconSync

=============================================================================
