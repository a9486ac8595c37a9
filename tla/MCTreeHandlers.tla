---------------------------- MODULE MCTreeHandlers ----------------------------
(* A small instance of TreeHandlers for TLC. *)
EXTENDS TreeHandlers, TLC

(* Addresses are only compared. *)
Alike == Permutations(Node)

=============================================================================
