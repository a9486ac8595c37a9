------------------------------ MODULE BoundedFifo ------------------------------
(***************************************************************************)
(* What a message queue of src/interface/message.c promises its users: it  *)
(* numbers the messages it takes, one after the other, gives them back in  *)
(* the order it took them, and takes none when it is full.                 *)
(***************************************************************************)
EXTENDS Naturals, Sequences

CONSTANTS
  Content,    \* what a message carries besides its number
  Capacity,   \* messages the queue holds at most
  Numbers     \* message numbers there are: after the last comes 0 again

VARIABLES
  queue,   \* the messages in it, as pairs of number and content
  next     \* the number the next message gets

fvars == <<queue, next>>

FInit == queue = <<>> /\ next = 0

Put(c) ==
  /\ Len(queue) < Capacity
  /\ queue' = Append(queue, <<next, c>>)
  /\ next' = (next + 1) % Numbers

Get ==
  /\ queue # <<>>
  /\ queue' = Tail(queue)
  /\ UNCHANGED next

FNext == Get \/ \E c \in Content : Put(c)

FSpec == FInit /\ [][FNext]_fvars

=============================================================================
