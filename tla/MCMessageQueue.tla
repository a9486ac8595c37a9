----------------------------- MODULE MCMessageQueue -----------------------------
(* A small instance of MessageQueue for TLC. *)
EXTENDS MessageQueue, TLC

(* What messages carry is not looked at. *)
Contents == Permutations(Content)

=============================================================================
