------------------------------ MODULE MCStateFile ------------------------------
(* A small instance of StateFile for TLC. *)
EXTENDS StateFile

(* Addresses are interchangeable: calloc may return any free one. *)
Addresses == Permutations(Node)

=============================================================================
