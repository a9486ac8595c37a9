------------------------------ MODULE MessageQueue ------------------------------
(***************************************************************************)
(* The outgoing queue of src/interface/message.c: a ring of message slots. *)
(* send_message holds the queue's lock from its first read to its last     *)
(* write, so it is one action, whichever thread calls it; forward_message  *)
(* and broadcast_message are calls of it with a target of their own.       *)
(* Nothing in the repository takes messages out: the consumer is what the  *)
(* fields head and count are for, message_process_queue.                   *)
(***************************************************************************)
EXTENDS Integers, Sequences

CONSTANTS
  Content,        \* what a message carries besides its id, its target included
  NoMessage,      \* a slot that was never written
  queue_capacity, \* slots of the ring
  IdRange         \* ids a uint32_t has

ASSUME MessageQueueAssumption ==
  /\ queue_capacity \in Nat \ {0}
  /\ IdRange \in Nat \ {0}
  /\ queue_capacity <= IdRange

VARIABLES
  messages,     \* the slots: pairs of id and content
  head, tail,   \* the slot of the oldest message, and the one after the newest
  count,        \* messages in the queue
  next_msg_id

queueVars == <<messages, head, tail, count, next_msg_id>>

Slot == 0..(queue_capacity - 1)
Id == 0..(IdRange - 1)

QueueInit ==
  /\ messages = [s \in Slot |-> NoMessage]
  /\ head = 0 /\ tail = 0 /\ count = 0
  /\ next_msg_id = 0

(* Mutant of Advance: the ring does not close. *)
Advance_straight(slot) == slot + 1

(* The slot after another one. *)
Advance(slot) == (slot + 1) % queue_capacity

(* Mutants of send_message: the next id is not counted up, and the slot of the *)
(* oldest message is written.                                                  *)
send_message_sameid(c) ==
  /\ count < queue_capacity
  /\ messages' = [messages EXCEPT ![tail] = <<next_msg_id, c>>]
  /\ tail' = Advance(tail)
  /\ count' = count + 1
  /\ next_msg_id' = IF count = 0 THEN (next_msg_id + 1) % IdRange ELSE next_msg_id
  /\ UNCHANGED head

send_message_athead(c) ==
  /\ count < queue_capacity
  /\ messages' = [messages EXCEPT ![head] = <<next_msg_id, c>>]
  /\ tail' = Advance(tail)
  /\ count' = count + 1
  /\ next_msg_id' = (next_msg_id + 1) % IdRange
  /\ UNCHANGED head

(* When the queue is full the answer is false and nothing changes. *)
send_message(c) ==
  /\ count < queue_capacity
  /\ messages' = [messages EXCEPT ![tail] = <<next_msg_id, c>>]
  /\ tail' = Advance(tail)
  /\ count' = count + 1
  /\ next_msg_id' = (next_msg_id + 1) % IdRange
  /\ UNCHANGED head

(* The consumer, under the same lock, takes the oldest message. *)
message_process_queue ==
  /\ count > 0
  /\ head' = Advance(head)
  /\ count' = count - 1
  /\ UNCHANGED <<messages, tail, next_msg_id>>

QueueNext == message_process_queue \/ \E c \in Content : send_message(c)

QueueSpec == QueueInit /\ [][QueueNext]_queueVars

-----------------------------------------------------------------------------
Message == Id \X Content

QueueTypeOK ==
  /\ messages \in [Slot -> Message \cup {NoMessage}]
  /\ head \in Slot /\ tail \in Slot
  /\ count \in Nat
  /\ next_msg_id \in Id

(* The slot of the i-th oldest message. *)
SlotAt(i) == (head + i - 1) % queue_capacity

(* The two ends and the number of messages never contradict each other, the    *)
(* ring being full, empty or wrapped around; send_message moves one end and    *)
(* its consumer the other, with no check but that of count.                    *)
EndsAgree ==
  /\ count <= queue_capacity
  /\ tail = (head + count) % queue_capacity

(* Two messages waiting in the queue never have the same id, although ids come *)
(* round again: the uint32_t counter has more values than the ring has slots.  *)
IdsDistinct ==
  \A i, j \in 1..count : messages[SlotAt(i)][1] = messages[SlotAt(j)][1] => i = j

(* The ring is a bounded queue. *)
Fifo == INSTANCE BoundedFifo WITH
  Capacity <- queue_capacity, Numbers <- IdRange, next <- next_msg_id,
  queue <- [i \in 1..count |-> messages[SlotAt(i)]]

ImplementsFifo == Fifo!FSpec

=============================================================================
