-------------------------------- MODULE MCTree --------------------------------
(* A small instance of Tree for TLC. *)
EXTENDS Tree

(* Addresses are interchangeable: calloc may return any free one. *)
Addresses == Permutations(Node)

=============================================================================
