----------------------------- MODULE MCSessions -----------------------------
(* The session manager with two browsers.                                   *)
EXTENDS Sessions

Symmetry == Permutations(Client)
=============================================================================
