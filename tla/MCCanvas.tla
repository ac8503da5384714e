------------------------------- MODULE MCCanvas -------------------------------
(* An instance of Canvas: two icons and a link between them. *)
EXTENDS Canvas, TLC
CONSTANTS a, b, l
MCFrom == l :> a
MCTo == l :> b
===============================================================================
