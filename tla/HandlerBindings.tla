---------------------------- MODULE HandlerBindings ----------------------------
(***************************************************************************)
(* What the handler registries of src/interface promise: a type is bound   *)
(* to the handler registered for it last, a command is given to the        *)
(* handler its type is bound to at that moment, and a bounded number of    *)
(* types can be bound.                                                     *)
(***************************************************************************)
EXTENDS Naturals, Sequences, FiniteSets

CONSTANTS
  Type,       \* types of command
  Handler,    \* handler functions
  Thread,     \* threads that register handlers and issue commands
  NoHandler,  \* what a type nobody registered is bound to
  Limit       \* types that can be bound

VARIABLES
  bound,   \* the handler each type is bound to
  inside   \* the calls each thread is in, the innermost last: type and handler

bvars == <<bound, inside>>

BInit ==
  /\ bound = [t \in Type |-> NoHandler]
  /\ inside = [p \in Thread |-> <<>>]

BoundTypes == {t \in Type : bound[t] # NoHandler}

Bind(t, h) ==
  /\ t \in BoundTypes \/ Cardinality(BoundTypes) < Limit
  /\ bound' = [bound EXCEPT ![t] = h]
  /\ UNCHANGED inside

Enter(p, t) ==
  /\ t \in BoundTypes
  /\ inside' = [inside EXCEPT ![p] = Append(@, <<t, bound[t]>>)]
  /\ UNCHANGED bound

Leave(p) ==
  /\ inside[p] # <<>>
  /\ inside' = [inside EXCEPT ![p] = SubSeq(@, 1, Len(@) - 1)]
  /\ UNCHANGED bound

BNext ==
  \/ \E t \in Type, h \in Handler : Bind(t, h)
  \/ \E p \in Thread, t \in Type : Enter(p, t)
  \/ \E p \in Thread : Leave(p)

BSpec == BInit /\ [][BNext]_bvars

=============================================================================
