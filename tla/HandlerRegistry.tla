---------------------------- MODULE HandlerRegistry ----------------------------
(***************************************************************************)
(* The handler registry of src/interface/command.c, and of message.c,      *)
(* whose registration is the same: an array of pairs of type and handler   *)
(* under a lock.  A command is looked up under the lock and its handler    *)
(* called after the unlock, so a handler may register handlers and issue   *)
(* commands itself.                                                        *)
(***************************************************************************)
EXTENDS Integers, Sequences

CONSTANTS
  Type,       \* CommandType
  Handler,    \* handler functions
  Thread,     \* the threads that use the registry
  NoHandler,  \* no handler
  NoRequest,  \* what a thread asks for that asks for nothing
  NoThread,   \* the owner of the lock when it is free
  capacity,   \* entries of the array
  MaxDepth    \* a bound of the model: handlers inside handlers

ASSUME HandlerRegistryAssumption ==
  /\ NoHandler \notin Handler
  /\ NoThread \notin Thread
  /\ capacity \in Nat
  /\ MaxDepth \in Nat
  /\ NoRequest \notin [what : {"register", "execute"}, type : Type, handler : Handler \cup {NoHandler}]

VARIABLES
  entries,   \* the entries in use: count is their number
  lock,      \* the thread that holds the registry's lock
  request,   \* what each thread has asked for and has not got yet
  stack      \* the calls each thread is in, the innermost last: command type and handler

vars == <<entries, lock, request, stack>>

EmptyRegistry == <<>>

Init ==
  /\ entries = EmptyRegistry
  /\ lock = NoThread
  /\ request = [p \in Thread |-> NoRequest]
  /\ stack = [p \in Thread |-> <<>>]

Has(registry, t) == \E i \in DOMAIN registry : registry[i].type = t

(* The entry the loops of the code stop at. *)
First(registry, t) ==
  CHOOSE i \in DOMAIN registry :
    registry[i].type = t /\ \A j \in 1..(i - 1) : registry[j].type # t

(* Mutant of Bind: the check of the capacity comes late and first of all. *)
Bind_fullfirst(registry, t, h) ==
  IF Len(registry) > capacity THEN registry
  ELSE IF Has(registry, t)
  THEN [registry EXCEPT ![First(registry, t)].handler = h]
  ELSE Append(registry, [type |-> t, handler |-> h])

(* A type registered again gets the new handler, full array or not; a new one  *)
(* needs a free entry, and is refused without.                                 *)
Bind(registry, t, h) ==
  IF Has(registry, t)
  THEN [registry EXCEPT ![First(registry, t)].handler = h]
  ELSE IF Len(registry) < capacity
       THEN Append(registry, [type |-> t, handler |-> h])
       ELSE registry

-----------------------------------------------------------------------------
RegisterRequests == [what : {"register"}, type : Type, handler : Handler]
ExecuteRequests == [what : {"execute"}, type : Type, handler : {NoHandler}]

(* A thread, in a handler or not, calls the registry: it waits for the lock. *)
Ask(p) ==
  /\ request[p] = NoRequest
  /\ Len(stack[p]) < MaxDepth
  /\ \E r \in RegisterRequests \cup ExecuteRequests :
       request' = [request EXCEPT ![p] = r]
  /\ UNCHANGED <<entries, lock, stack>>

Acquire(p) ==
  /\ request[p] # NoRequest
  /\ lock = NoThread
  /\ lock' = p
  /\ UNCHANGED <<entries, request, stack>>

(* The end of a critical section. *)
Release(p) ==
  /\ lock' = NoThread
  /\ request' = [request EXCEPT ![p] = NoRequest]

register_handler(p) ==
  /\ lock = p
  /\ request[p].what = "register"
  /\ entries' = Bind(entries, request[p].type, request[p].handler)
  /\ Release(p)
  /\ UNCHANGED stack

(* The handler of an entry called for the command of a thread. *)
CallOf(p, i) == <<request[p].type, entries[i].handler>>

(* Mutants of execute_command: the handler is called before the unlock, and    *)
(* the newest entry is called whatever the type.                               *)
execute_command_locked(p) ==
  /\ lock = p
  /\ request[p].what = "execute"
  /\ IF Has(entries, request[p].type)
     THEN /\ stack' = [stack EXCEPT ![p] = Append(@, CallOf(p, First(entries, request[p].type)))]
          /\ request' = [request EXCEPT ![p] = NoRequest]
          /\ UNCHANGED lock
     ELSE Release(p) /\ UNCHANGED stack
  /\ UNCHANGED entries

execute_command_anyentry(p) ==
  /\ lock = p
  /\ request[p].what = "execute"
  /\ IF entries # <<>>
     THEN stack' = [stack EXCEPT ![p] = Append(@, CallOf(p, Len(entries)))]
     ELSE UNCHANGED stack
  /\ Release(p)
  /\ UNCHANGED entries

(* execute_command and route_command find the handler, unlock, and call it: in *)
(* one step, the handler being the thread's own from the unlock on.  Without   *)
(* one the answer is CMD_STATUS_INVALID.                                       *)
execute_command(p) ==
  /\ lock = p
  /\ request[p].what = "execute"
  /\ IF Has(entries, request[p].type)
     THEN stack' = [stack EXCEPT ![p] = Append(@, CallOf(p, First(entries, request[p].type)))]
     ELSE UNCHANGED stack
  /\ Release(p)
  /\ UNCHANGED entries

(* A handler returns; what it answers concerns its caller alone. *)
HandlerReturns(p) ==
  /\ request[p] = NoRequest
  /\ stack[p] # <<>>
  /\ stack' = [stack EXCEPT ![p] = SubSeq(@, 1, Len(@) - 1)]
  /\ UNCHANGED <<entries, lock, request>>

Step(p) ==
  \/ Ask(p)
  \/ Acquire(p)
  \/ register_handler(p)
  \/ execute_command(p)
  \/ HandlerReturns(p)

Next == \E p \in Thread : Step(p)

Spec == Init /\ [][Next]_vars

-----------------------------------------------------------------------------
Entry == [type : Type, handler : Handler]

(* Fields keep their types, and the array is not overrun. *)
TypeOK ==
  /\ entries \in Seq(Entry)
  /\ Len(entries) <= capacity
  /\ lock \in Thread \cup {NoThread}
  /\ request \in [Thread -> RegisterRequests \cup ExecuteRequests \cup {NoRequest}]
  /\ stack \in [Thread -> Seq(Type \X Handler)]

(* No type has two entries, whatever the order in which threads and handlers   *)
(* register: a second entry would never be called and never be replaced.       *)
TypesDistinct ==
  \A i, j \in DOMAIN entries : entries[i].type = entries[j].type => i = j

(* The registry gives a command to the handler registered last for its type,   *)
(* at the moment of the lookup: one replaced after the unlock still runs.      *)
Bindings == INSTANCE HandlerBindings WITH
  Limit <- capacity, inside <- stack,
  bound <- [t \in Type |->
              IF Has(entries, t) THEN entries[First(entries, t)].handler ELSE NoHandler]

ImplementsBindings == Bindings!BSpec

(* No handler runs under the lock of the registry: the thread that holds it is *)
(* in a critical section, not in a handler, which may register handlers and    *)
(* issue commands and would wait for its own thread.                           *)
NoHandlerUnderLock == lock # NoThread => request[lock] # NoRequest

=============================================================================
