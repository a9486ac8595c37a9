-------------------------------- MODULE Forest --------------------------------
(***************************************************************************)
(* What the tree component promises its callers, without arrays, queues    *)
(* or counters: a set of members, each under another member or at the top  *)
(* of a tree of its own.  A member that leaves hands each of the members   *)
(* directly under it to its own superior or lets it be a root; nobody else *)
(* moves.  Dissolving frees whole trees only.                              *)
(***************************************************************************)
CONSTANTS Member, NULL

VARIABLES members, above

fvars == <<members, above>>

FInit == members = {} /\ above = [m \in {} |-> NULL]

(* A new member enters, under superior p or (p = NULL) at the top. *)
Enter(m, p) ==
  /\ m \notin members
  /\ p \in members \cup {NULL}
  /\ members' = members \cup {m}
  /\ above' = [x \in members' |-> IF x = m THEN p ELSE above[x]]

Leave(m) ==
  /\ m \in members
  /\ members' = members \ {m}
  /\ DOMAIN above' = members'
  /\ \A x \in members' :
       IF above[x] = m THEN above'[x] \in {above[m], NULL} ELSE above'[x] = above[x]
  /\ above' = [x \in members' |-> above'[x]]

Dissolve ==
  /\ members' \in SUBSET members
  /\ \A x \in members' : above[x] \in members' \cup {NULL}
  /\ above' = [x \in members' |-> above[x]]

FNext ==
  \/ \E m \in Member, p \in Member \cup {NULL} : Enter(m, p)
  \/ \E m \in Member : Leave(m)
  \/ Dissolve

FSpec == FInit /\ [][FNext]_fvars

=============================================================================
