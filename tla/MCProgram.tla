------------------------------- MODULE MCProgram -------------------------------
(* A small instance of Program for TLC. *)
EXTENDS Program, TLC

(* Addresses are only compared. *)
Addresses == Permutations(Handle) \cup Permutations(Block)

=============================================================================
