----------------------------- MODULE MCClientSync -----------------------------
(* Instances of ClientSync. *)
EXTENDS ClientSync
CONSTANTS o, g
===============================================================================
