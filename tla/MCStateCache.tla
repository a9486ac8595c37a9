----------------------------- MODULE MCStateCache -----------------------------
(* A small instance of StateCache for TLC. *)
EXTENDS StateCache

(* The key of the first type, with the first value, is all zeros: STATE_PROGRAM, *)
(* an empty id and no data.                                                      *)
MCTypeOf == [k \in Key |-> IF k = "program" THEN 0 ELSE 1]
MCWeightless == {[key |-> "program", value |-> "none"]}

=============================================================================
