------------------------------- MODULE MCMmmk -------------------------------
(* Instances of Mmmk. *)
EXTENDS Mmmk, TLC
CONSTANTS A, B, v0, v1
MCVal == {v0, v1}
\* two nodes to connect, of one metamodel
TwoNodes(mm) ==
    [EmptyModel EXCEPT !.metamodels = {mm},
                       !.nodes = [i \in Id |-> IF i < 2 THEN [kind |-> "node", mm |-> mm, val |-> v0]
                                              ELSE Absent]]
OneOf == {TwoNodes(A)}
OneOfEach == { TwoNodes(mm) : mm \in MM }
Symmetry == Permutations(MM)
=============================================================================
