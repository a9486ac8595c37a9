----------------------------- MODULE InterfaceProofs -----------------------------
(***************************************************************************)
(* Proofs about two parts of src/interface that know nothing of each       *)
(* other.  The registry of HandlerRegistry is a bounded table of bindings, *)
(* for all types, handlers, threads and capacities and every depth of      *)
(* handlers inside handlers.  The ring of MessageQueue is a bounded queue, *)
(* and no two messages in it have the same id, for every capacity and      *)
(* every range of ids at least as large.                                   *)
(***************************************************************************)
EXTENDS HandlerRegistry, MessageQueue, TLAPS, SequenceTheorems, FiniteSetTheorems, FunctionTheorems

-----------------------------------------------------------------------------
(* HandlerRegistry *)

(* What the array always is: typed, within its capacity, and with one entry a  *)
(* type, which is what makes the first entry of a type its only one.           *)
Sound(registry) ==
  /\ registry \in Seq(Entry)
  /\ Len(registry) <= capacity
  /\ \A i, j \in DOMAIN registry : registry[i].type = registry[j].type => i = j

(* TypesDistinct needs the type invariant, and both need to know that only a   *)
(* thread with a request is in a critical section.                             *)
IInv == TypeOK /\ TypesDistinct /\ NoHandlerUnderLock

LEMMA EntriesAreSound == ASSUME IInv PROVE Sound(entries)
BY DEF IInv, TypeOK, TypesDistinct, NoHandlerUnderLock, Sound

-----------------------------------------------------------------------------
(* First finds the entry of a type that has one. *)
LEMMA FirstFound ==
  ASSUME NEW registry, Sound(registry), NEW t, Has(registry, t)
  PROVE  /\ First(registry, t) \in 1..Len(registry)
         /\ registry[First(registry, t)].type = t
<1>1. registry \in Seq(Entry) /\ DOMAIN registry = 1..Len(registry) /\ Len(registry) \in Nat
  BY LenProperties DEF Sound
<1>2. PICK k \in DOMAIN registry : registry[k].type = t
  BY DEF Has
<1>3. \A j \in 1..(k - 1) : registry[j].type # t
  BY <1>1, <1>2 DEF Sound
<1>4. \E i \in DOMAIN registry :
        registry[i].type = t /\ \A j \in 1..(i - 1) : registry[j].type # t
  BY <1>2, <1>3
<1> QED BY <1>1, <1>4 DEF First

(* The entry of a type is found by First: there is no other one. *)
LEMMA FirstOnly ==
  ASSUME NEW registry, Sound(registry), NEW i \in DOMAIN registry
  PROVE  Has(registry, registry[i].type) /\ First(registry, registry[i].type) = i
<1>1. Has(registry, registry[i].type)
  BY DEF Has
<1>2. First(registry, registry[i].type) \in DOMAIN registry
      /\ registry[First(registry, registry[i].type)].type = registry[i].type
  BY <1>1, FirstFound, LenProperties DEF Sound
<1> QED BY <1>1, <1>2 DEF Sound

(* The handler a type is bound to. *)
Binding(registry, t) ==
  IF Has(registry, t) THEN registry[First(registry, t)].handler ELSE NoHandler

LEMMA BindingTyped ==
  ASSUME NEW registry, Sound(registry), NEW t \in Type
  PROVE  /\ Has(registry, t) => Binding(registry, t) \in Handler
         /\ Binding(registry, t) # NoHandler <=> Has(registry, t)
<1>1. ASSUME Has(registry, t) PROVE registry[First(registry, t)].handler \in Handler
  <2>1. First(registry, t) \in 1..Len(registry) /\ registry \in Seq(Entry)
    BY <1>1, FirstFound DEF Sound
  <2>2. registry[First(registry, t)] \in Entry
    BY <2>1, ElementOfSeq
  <2> QED BY <2>2 DEF Entry
<1> QED BY <1>1, HandlerRegistryAssumption DEF Binding

(* There are as many types bound as there are entries. *)
LEMMA BoundCount ==
  ASSUME NEW registry, Sound(registry)
  PROVE  Cardinality({t \in Type : Has(registry, t)}) = Len(registry)
<1> DEFINE T == {t \in Type : Has(registry, t)}
           n == Len(registry)
           f == [i \in 1..n |-> registry[i].type]
<1>1. registry \in Seq(Entry) /\ n \in Nat /\ DOMAIN registry = 1..n
  BY LenProperties DEF Sound
<1>2. ASSUME NEW i \in 1..n PROVE registry[i].type \in T
  <2>1. registry[i] \in Entry
    BY <1>1, ElementOfSeq
  <2>2. registry[i].type \in Type
    BY <2>1 DEF Entry
  <2>3. Has(registry, registry[i].type)
    BY <1>1 DEF Has
  <2> QED BY <2>2, <2>3
<1>3. f \in [1..n -> T]
  BY <1>2
<1>4. \A i, j \in 1..n : f[i] = f[j] => i = j
  BY <1>1 DEF Sound
<1>5. \A t \in T : \E i \in 1..n : f[i] = t
  BY <1>1 DEF Has
<1> HIDE DEF f, T, n
<1>6. f \in Bijection(1..n, T)
  BY <1>3, <1>4, <1>5, Fun_IsBij
<1>7. IsFiniteSet(1..n) /\ Cardinality(1..n) = n
  BY <1>1, FS_Interval
<1>8. Cardinality(T) = n
  BY <1>6, <1>7, FS_Bijection DEF ExistsBijection
<1> QED BY <1>8 DEF T, n

-----------------------------------------------------------------------------
(* Bind keeps the array sound and changes the binding of its type only; it     *)
(* refuses only a type that is new when every entry is in use.                 *)

LEMMA Rebinds ==
  ASSUME NEW registry, Sound(registry), NEW t \in Type, NEW h \in Handler,
         Has(registry, t)
  PROVE  /\ Sound(Bind(registry, t, h))
         /\ \A u \in Type :
              Binding(Bind(registry, t, h), u) = IF u = t THEN h ELSE Binding(registry, u)
<1> DEFINE k == First(registry, t)
           e == [registry[k] EXCEPT !.handler = h]
           new == [registry EXCEPT ![k] = e]
<1>1. k \in 1..Len(registry) /\ registry[k].type = t
  BY FirstFound
<1>2. registry \in Seq(Entry) /\ registry[k] \in Entry /\ Len(registry) \in Nat
      /\ DOMAIN registry = 1..Len(registry)
  BY <1>1, ElementOfSeq, LenProperties DEF Sound
<1>3. e \in Entry /\ e.type = t /\ e.handler = h
  BY <1>1, <1>2 DEF Entry
<1>4. Bind(registry, t, h) = new
  BY DEF Bind
<1> HIDE DEF k, e
<1>5. /\ new \in Seq(Entry) /\ Len(new) = Len(registry)
      /\ \A j \in 1..Len(registry) : new[j] = IF j = k THEN e ELSE registry[j]
  BY <1>1, <1>2, <1>3, ExceptSeq
<1>6. DOMAIN new = DOMAIN registry
  BY <1>2, <1>5, LenProperties
<1> HIDE DEF new
<1>7. \A j \in DOMAIN registry : new[j].type = registry[j].type
  BY <1>1, <1>2, <1>3, <1>5
<1>8. Sound(new)
  BY <1>5, <1>6, <1>7 DEF Sound
<1>9. ASSUME NEW u \in Type
      PROVE  Binding(new, u) = IF u = t THEN h ELSE Binding(registry, u)
  <2>1. Has(new, u) <=> Has(registry, u)
    BY <1>6, <1>7 DEF Has
  <2>2. CASE Has(registry, u)
    <3>1. /\ First(registry, u) \in DOMAIN registry
          /\ registry[First(registry, u)].type = u
      BY <2>2, <1>2, FirstFound
    <3>2. First(new, u) = First(registry, u)
      BY <3>1, <1>6, <1>7, <1>8, FirstOnly
    <3>3. First(registry, u) = k <=> u = t
      BY <3>1, <1>1, <2>2 DEF k
    <3> QED BY <2>1, <2>2, <3>1, <3>2, <3>3, <1>2, <1>3, <1>5 DEF Binding
  <2>3. CASE ~Has(registry, u)
    BY <2>1, <2>3 DEF Binding
  <2> QED BY <2>2, <2>3
<1> QED BY <1>4, <1>8, <1>9

LEMMA BindsNew ==
  ASSUME NEW registry, Sound(registry), NEW t \in Type, NEW h \in Handler,
         ~Has(registry, t), Len(registry) < capacity
  PROVE  /\ Sound(Bind(registry, t, h))
         /\ \A u \in Type :
              Binding(Bind(registry, t, h), u) = IF u = t THEN h ELSE Binding(registry, u)
<1> DEFINE e == [type |-> t, handler |-> h]
           n == Len(registry)
           new == Append(registry, e)
<1>1. registry \in Seq(Entry) /\ n \in Nat /\ DOMAIN registry = 1..n
  BY LenProperties DEF Sound
<1>2. e \in Entry /\ e.type = t /\ e.handler = h
  BY DEF Entry
<1>3. Bind(registry, t, h) = new
  BY DEF Bind
<1> HIDE DEF e
<1>4. /\ new \in Seq(Entry) /\ Len(new) = n + 1 /\ DOMAIN new = 1..(n + 1)
      /\ \A j \in 1..n : new[j] = registry[j]
      /\ new[n + 1] = e
  BY <1>1, <1>2
<1> HIDE DEF new
<1>5. \A j \in 1..n : new[j].type # t
  BY <1>1, <1>4 DEF Has
<1>6. \A i, j \in 1..n : new[i].type = new[j].type => i = j
  BY <1>1, <1>4 DEF Sound
<1>7. \A i, j \in 1..(n + 1) : new[i].type = new[j].type => i = j
  BY <1>1, <1>2, <1>4, <1>5, <1>6
<1>8. Sound(new)
  <2>1. n + 1 <= capacity
    BY <1>1, HandlerRegistryAssumption
  <2> QED BY <2>1, <1>4, <1>7 DEF Sound
<1>9. ASSUME NEW u \in Type
      PROVE  Binding(new, u) = IF u = t THEN h ELSE Binding(registry, u)
  <2>1. CASE u = t
    <3>1. Has(new, t) /\ First(new, t) = n + 1
      BY <1>1, <1>2, <1>4, <1>8, FirstOnly
    <3> QED BY <2>1, <3>1, <1>2, <1>4 DEF Binding
  <2>2. CASE u # t /\ Has(registry, u)
    <3>1. First(registry, u) \in 1..n /\ registry[First(registry, u)].type = u
      BY <2>2, FirstFound
    <3>2. First(registry, u) \in DOMAIN new /\ new[First(registry, u)].type = u
      BY <3>1, <1>1, <1>4
    <3>3. Has(new, u) /\ First(new, u) = First(registry, u)
      BY <3>2, <1>8, FirstOnly
    <3> QED BY <2>2, <3>1, <3>3, <1>4 DEF Binding
  <2>3. CASE u # t /\ ~Has(registry, u)
    <3>1. ~Has(new, u)
      BY <2>3, <1>1, <1>2, <1>4 DEF Has
    <3> QED BY <2>3, <3>1 DEF Binding
  <2> QED BY <2>1, <2>2, <2>3
<1> QED BY <1>3, <1>8, <1>9

LEMMA Refuses ==
  ASSUME NEW registry, NEW t, NEW h, ~Has(registry, t), ~(Len(registry) < capacity)
  PROVE  Bind(registry, t, h) = registry
BY DEF Bind

LEMMA BindSound ==
  ASSUME NEW registry, Sound(registry), NEW t \in Type, NEW h \in Handler
  PROVE  Sound(Bind(registry, t, h))
BY Rebinds, BindsNew, Refuses

-----------------------------------------------------------------------------
(* Each step keeps the array sound, and the rest typed. *)

LEMMA SoundIsInvariant ==
  ASSUME Sound(entries),
         lock \in Thread \cup {NoThread},
         request \in [Thread -> RegisterRequests \cup ExecuteRequests \cup {NoRequest}],
         stack \in [Thread -> Seq(Type \X Handler)],
         lock # NoThread => request[lock] # NoRequest
  PROVE  IInv
BY DEF IInv, TypeOK, TypesDistinct, NoHandlerUnderLock, Sound

LEMMA HolderAsks ==
  ASSUME IInv, NEW p \in Thread, lock = p
  PROVE  /\ request[p] \in RegisterRequests \cup ExecuteRequests
         /\ request[p].what = "register" => request[p].type \in Type /\ request[p].handler \in Handler
         /\ request[p].what = "execute" => request[p].type \in Type
<1>1. request[p] \in RegisterRequests \cup ExecuteRequests
  BY HandlerRegistryAssumption DEF IInv, TypeOK, NoHandlerUnderLock
<1>2. CASE request[p] \in RegisterRequests
  BY <1>1, <1>2 DEF RegisterRequests
<1>3. CASE request[p] \in ExecuteRequests
  BY <1>1, <1>3 DEF ExecuteRequests
<1> QED BY <1>1, <1>2, <1>3

LEMMA StepKeepsIInv ==
  ASSUME IInv, NEW p \in Thread, Step(p)
  PROVE  IInv'
<1> USE HandlerRegistryAssumption
<1>0. /\ Sound(entries)
      /\ lock \in Thread \cup {NoThread}
      /\ request \in [Thread -> RegisterRequests \cup ExecuteRequests \cup {NoRequest}]
      /\ stack \in [Thread -> Seq(Type \X Handler)]
      /\ lock # NoThread => request[lock] # NoRequest
  BY EntriesAreSound DEF IInv, TypeOK, NoHandlerUnderLock
<1> SUFFICES /\ Sound(entries')
             /\ lock' \in Thread \cup {NoThread}
             /\ request' \in [Thread -> RegisterRequests \cup ExecuteRequests \cup {NoRequest}]
             /\ stack' \in [Thread -> Seq(Type \X Handler)]
             /\ lock' # NoThread => request'[lock'] # NoRequest
  BY DEF IInv, TypeOK, TypesDistinct, NoHandlerUnderLock, Sound
<1>1. CASE Ask(p)
  <2>1. PICK q \in RegisterRequests \cup ExecuteRequests : request' = [request EXCEPT ![p] = q]
    BY <1>1 DEF Ask
  <2>2. q # NoRequest
    BY DEF RegisterRequests, ExecuteRequests
  <2> QED BY <1>0, <1>1, <2>1, <2>2 DEF Ask
<1>2. CASE Acquire(p)
  BY <1>0, <1>2 DEF Acquire
<1>3. CASE register_handler(p)
  <2>1. request[p].type \in Type /\ request[p].handler \in Handler
    BY <1>3, HolderAsks DEF register_handler
  <2>2. Sound(entries')
    BY <1>0, <1>3, <2>1, BindSound DEF register_handler
  <2> QED BY <1>0, <1>3, <2>2 DEF register_handler, Release
<1>4. CASE execute_command(p)
  <2>1. CASE Has(entries, request[p].type)
    <3> DEFINE c == CallOf(p, First(entries, request[p].type))
    <3>1. request[p].type \in Type
      BY <1>4, HolderAsks DEF execute_command
    <3>2. c \in Type \X Handler
      BY <1>0, <2>1, <3>1, BindingTyped DEF Binding, CallOf
    <3>3. stack' = [stack EXCEPT ![p] = Append(@, c)]
      BY <1>4, <2>1 DEF execute_command
    <3> HIDE DEF c
    <3>4. stack' \in [Thread -> Seq(Type \X Handler)]
      BY <1>0, <3>2, <3>3
    <3> QED BY <1>0, <1>4, <3>4 DEF execute_command, Release
  <2>2. CASE ~Has(entries, request[p].type)
    BY <1>0, <1>4, <2>2 DEF execute_command, Release
  <2> QED BY <2>1, <2>2
<1>5. CASE HandlerReturns(p)
  <2>1. stack[p] \in Seq(Type \X Handler) /\ stack[p] # <<>>
    BY <1>0, <1>5 DEF HandlerReturns
  <2>2. Len(stack[p]) \in Nat \ {0} /\ \A i \in 1..(Len(stack[p]) - 1) : stack[p][i] \in Type \X Handler
    BY <2>1, EmptySeq, ElementOfSeq, LenProperties
  <2>3. SubSeq(stack[p], 1, Len(stack[p]) - 1) \in Seq(Type \X Handler)
    BY <2>2, SubSeqProperties
  <2>4. stack' \in [Thread -> Seq(Type \X Handler)]
    BY <1>0, <1>5, <2>3 DEF HandlerReturns
  <2> QED BY <1>0, <1>5, <2>4 DEF HandlerReturns
<1> QED BY <1>1, <1>2, <1>3, <1>4, <1>5 DEF Step

(* The inductive invariant holds in every reachable state. *)
THEOREM Invariance == Spec => []IInv
<1>1. Init => IInv
  <2> SUFFICES ASSUME Init PROVE IInv
    OBVIOUS
  <2>1. entries = <<>> /\ entries \in Seq(Entry) /\ Len(entries) = 0 /\ DOMAIN entries = {}
    BY DEF Init, EmptyRegistry
  <2>2. stack \in [Thread -> Seq(Type \X Handler)] /\ request \in [Thread -> {NoRequest}]
    BY DEF Init
  <2>3. Sound(entries)
    BY <2>1, HandlerRegistryAssumption DEF Sound
  <2>4. lock = NoThread
    BY DEF Init
  <2>5. request \in [Thread -> RegisterRequests \cup ExecuteRequests \cup {NoRequest}]
    BY <2>2
  <2> QED BY <2>2, <2>3, <2>4, <2>5, SoundIsInvariant
<1>2. IInv /\ [Next]_vars => IInv'
  <2>1. ASSUME IInv, UNCHANGED vars PROVE IInv'
    BY <2>1 DEF vars, IInv, TypeOK, TypesDistinct, NoHandlerUnderLock
  <2> QED BY <2>1, StepKeepsIInv DEF Next
<1> QED BY <1>1, <1>2, PTL DEF Spec

(* Every field keeps its type, and the array is never overrun. *)
THEOREM TypeCorrect == Spec => []TypeOK
BY Invariance, PTL DEF IInv

(* However threads and the handlers they are in register and issue commands,   *)
(* no type ever has two entries.                                               *)
THEOREM TypesAlwaysDistinct == Spec => []TypesDistinct
BY Invariance, PTL DEF IInv

(* A thread in a handler never holds the lock, however deep it is in handlers. *)
THEOREM NeverUnderLock == Spec => []NoHandlerUnderLock
BY Invariance, PTL DEF IInv

-----------------------------------------------------------------------------
(* Steps of the registry are steps of the table of bindings, or leave it.      *)

Bound == [t \in Type |-> Binding(entries, t)]

LEMMA BoundTypesAre ==
  ASSUME Sound(entries)
  PROVE  /\ Bindings!BoundTypes = {t \in Type : Has(entries, t)}
         /\ Bindings!Cardinality(Bindings!BoundTypes) = Len(entries)
<1>2. Bindings!Cardinality(Bindings!BoundTypes) = Cardinality(Bindings!BoundTypes)
  BY DEF Bindings!Cardinality, Cardinality
<1>1. Bindings!BoundTypes = {t \in Type : Has(entries, t)}
  BY BindingTyped DEF Bindings!BoundTypes, Binding
<1> QED BY <1>1, <1>2, BoundCount

LEMMA RegisterIsBind ==
  ASSUME IInv, NEW p \in Thread, register_handler(p)
  PROVE  [Bindings!BNext]_Bindings!bvars
<1> DEFINE t == request[p].type
           h == request[p].handler
<1>1. Sound(entries) /\ t \in Type /\ h \in Handler
  BY EntriesAreSound, HolderAsks DEF register_handler
<1>2. entries' = Bind(entries, t, h) /\ stack' = stack
  BY DEF register_handler
<1>3. CASE Has(entries, t) \/ Len(entries) < capacity
  <2>1. \A u \in Type : Binding(Bind(entries, t, h), u) = IF u = t THEN h ELSE Binding(entries, u)
    BY <1>1, <1>3, Rebinds, BindsNew
  <2>2. Bound' = [Bound EXCEPT ![t] = h]
    BY <1>1, <1>2, <2>1 DEF Bound, Binding
  <2>3. t \in Bindings!BoundTypes \/ Bindings!Cardinality(Bindings!BoundTypes) < capacity
    BY <1>1, <1>3, BoundTypesAre
  <2>4. Bindings!Bind(t, h)
    BY <1>2, <2>2, <2>3 DEF Bindings!Bind, Bound, Binding
  <2> QED BY <1>1, <2>4 DEF Bindings!BNext
<1>4. CASE ~Has(entries, t) /\ ~(Len(entries) < capacity)
  <2>1. entries' = entries
    BY <1>2, <1>4, Refuses
  <2> QED BY <1>2, <2>1 DEF Bindings!bvars, Has, First
<1> QED BY <1>3, <1>4

LEMMA ExecuteIsEnter ==
  ASSUME IInv, NEW p \in Thread, execute_command(p)
  PROVE  [Bindings!BNext]_Bindings!bvars
<1> DEFINE t == request[p].type
<1>1. Sound(entries) /\ t \in Type
  BY EntriesAreSound, HolderAsks DEF execute_command
<1>2. entries' = entries /\ Bound' = Bound
  BY DEF execute_command, Bound, Binding, Has, First
<1>3. CASE Has(entries, t)
  <2>1. stack' = [stack EXCEPT ![p] = Append(@, <<t, Bound[t]>>)]
    BY <1>1, <1>3 DEF execute_command, CallOf, Bound, Binding
  <2>2. t \in Bindings!BoundTypes
    BY <1>1, <1>3, BoundTypesAre
  <2>3. Bindings!Enter(p, t)
    BY <1>2, <2>1, <2>2 DEF Bindings!Enter, Bound, Binding
  <2> QED BY <1>1, <2>3 DEF Bindings!BNext
<1>4. CASE ~Has(entries, t)
  <2>1. stack' = stack
    BY <1>4 DEF execute_command
  <2> QED BY <1>2, <2>1 DEF Bindings!bvars, Bound, Binding
<1> QED BY <1>3, <1>4

(* A command goes to the handler registered last for its type before the       *)
(* lookup, and registrations are refused only when as many types are bound as  *)
(* the array has entries.                                                      *)
THEOREM RegistryImplementsBindings == Spec => ImplementsBindings
<1>1. Init => Bindings!BInit
  <2> SUFFICES ASSUME Init PROVE Bindings!BInit
    OBVIOUS
  <2>1. \A t \in Type : ~Has(entries, t)
    BY DEF Init, EmptyRegistry, Has
  <2> QED BY <2>1 DEF Init, Bindings!BInit
<1>2. IInv /\ [Next]_vars => [Bindings!BNext]_Bindings!bvars
  <2> SUFFICES ASSUME IInv, [Next]_vars PROVE [Bindings!BNext]_Bindings!bvars
    OBVIOUS
  <2>1. ASSUME UNCHANGED <<entries, stack>> PROVE UNCHANGED Bindings!bvars
    BY <2>1 DEF Bindings!bvars, Has, First
  <2>2. CASE UNCHANGED vars
    BY <2>1, <2>2 DEF vars
  <2>3. ASSUME NEW p \in Thread, Step(p) PROVE [Bindings!BNext]_Bindings!bvars
    <3>1. CASE Ask(p) \/ Acquire(p)
      BY <2>1, <3>1 DEF Ask, Acquire
    <3>2. CASE register_handler(p)
      BY <3>2, RegisterIsBind
    <3>3. CASE execute_command(p)
      BY <3>3, ExecuteIsEnter
    <3>4. CASE HandlerReturns(p)
      <4>1. entries' = entries /\ Bound' = Bound
        BY <3>4 DEF HandlerReturns, Bound, Binding, Has, First
      <4>2. Bindings!Leave(p)
        BY <3>4, <4>1 DEF HandlerReturns, Bindings!Leave, Bound, Binding
      <4> QED BY <4>2 DEF Bindings!BNext
    <3> QED BY <2>3, <3>1, <3>2, <3>3, <3>4 DEF Step
  <2> QED BY <2>2, <2>3 DEF Next
<1> QED BY <1>1, <1>2, Invariance, PTL DEF Spec, ImplementsBindings, Bindings!BSpec

-----------------------------------------------------------------------------
(* MessageQueue *)

(* Remainders of sums that go round at most once. *)
LEMMA SumRemainder ==
  ASSUME NEW d \in Nat \ {0}, NEW h \in 0..(d - 1), NEW k \in 0..d
  PROVE  (h + k) % d = IF h + k < d THEN h + k ELSE h + k - d
OBVIOUS

LEMMA PlaceRemainder ==
  ASSUME NEW d \in Nat \ {0}, NEW h \in 0..(d - 1), NEW k \in 1..d
  PROVE  (h + k - 1) % d = IF h + k - 1 < d THEN h + k - 1 ELSE h + k - 1 - d
<1>1. CASE h + k - 1 < d
  BY <1>1
<1>2. CASE h + k - 1 >= d
  BY <1>2
<1> QED BY <1>1, <1>2

LEMMA BackRemainder ==
  ASSUME NEW d \in Nat \ {0}, NEW x \in 0..(d - 1), NEW n \in 0..d, NEW i \in 1..n
  PROVE  (x + i - 1 - n) % d = IF x + i - 1 - n < 0 THEN x + i - 1 - n + d ELSE x + i - 1 - n
<1>1. CASE x + i - 1 - n < 0
  BY <1>1
<1>2. CASE x + i - 1 - n >= 0
  BY <1>2
<1> QED BY <1>1, <1>2

-----------------------------------------------------------------------------
(* The inductive invariant adds to what TLC checks that every message in the   *)
(* queue is written, and which id it has: the i-th oldest of count messages is *)
(* as far behind the counter as there are messages from it on.                 *)

Numbered ==
  \A i \in 1..count :
    /\ messages[SlotAt(i)] \in Message
    /\ messages[SlotAt(i)][1] = (next_msg_id + i - 1 - count) % IdRange

QueueInv == QueueTypeOK /\ EndsAgree /\ Numbered

(* Which slots the queue is in, without remainders: the slot after its last    *)
(* one is tail, and no two places share a slot.                                *)
LEMMA SlotsOfQueue ==
  ASSUME QueueTypeOK, EndsAgree
  PROVE  /\ count \in 0..queue_capacity
         /\ \A i \in 1..count : SlotAt(i) \in Slot
         /\ \A i \in 1..count :
              SlotAt(i) = IF head + i - 1 < queue_capacity THEN head + i - 1
                          ELSE head + i - 1 - queue_capacity
         /\ tail = IF head + count < queue_capacity THEN head + count ELSE head + count - queue_capacity
<1>1. queue_capacity \in Nat \ {0} /\ head \in 0..(queue_capacity - 1) /\ count \in 0..queue_capacity
  BY MessageQueueAssumption DEF QueueTypeOK, EndsAgree, Slot
<1>2. ASSUME NEW i \in 1..count
      PROVE  SlotAt(i) = IF head + i - 1 < queue_capacity THEN head + i - 1
                         ELSE head + i - 1 - queue_capacity
  BY <1>1, PlaceRemainder DEF SlotAt
<1>3. ASSUME NEW i \in 1..count PROVE SlotAt(i) \in Slot
  BY <1>1, <1>2 DEF Slot
<1>4. tail = IF head + count < queue_capacity THEN head + count ELSE head + count - queue_capacity
  BY <1>1, SumRemainder DEF EndsAgree
<1> QED BY <1>1, <1>2, <1>3, <1>4

(* The slot after a slot. *)
LEMMA NextSlot ==
  ASSUME NEW s \in Slot
  PROVE  Advance(s) = (IF s + 1 < queue_capacity THEN s + 1 ELSE 0) /\ Advance(s) \in Slot
<1>1. queue_capacity \in Nat \ {0} /\ s \in 0..(queue_capacity - 1) /\ 1 \in 0..queue_capacity
  BY MessageQueueAssumption DEF Slot
<1>2. Advance(s) = IF s + 1 < queue_capacity THEN s + 1 ELSE s + 1 - queue_capacity
  BY <1>1, SumRemainder DEF Advance
<1> QED BY <1>1, <1>2 DEF Slot

(* The id after an id. *)
LEMMA NextId ==
  ASSUME NEW x \in Id
  PROVE  (x + 1) % IdRange = (IF x + 1 < IdRange THEN x + 1 ELSE 0) /\ (x + 1) % IdRange \in Id
<1>1. IdRange \in Nat \ {0} /\ x \in 0..(IdRange - 1) /\ 1 \in 0..IdRange
  BY MessageQueueAssumption DEF Id
<1>2. (x + 1) % IdRange = IF x + 1 < IdRange THEN x + 1 ELSE x + 1 - IdRange
  BY <1>1, SumRemainder
<1> QED BY <1>1, <1>2 DEF Id

(* The id i - 1 - n after x, for the i-th of the last n ids before x.          *)
LEMMA IdsBefore ==
  ASSUME NEW x \in Id, NEW n \in 0..queue_capacity, NEW i \in 1..n
  PROVE  (x + i - 1 - n) % IdRange =
           IF x + i - 1 - n < 0 THEN x + i - 1 - n + IdRange ELSE x + i - 1 - n
<1>1. IdRange \in Nat \ {0} /\ x \in 0..(IdRange - 1) /\ n \in 0..IdRange
  BY MessageQueueAssumption DEF Id
<1> QED BY <1>1, BackRemainder

-----------------------------------------------------------------------------
(* What the two operations do to the slots of the queue. *)

LEMMA SendSlots ==
  ASSUME QueueInv, NEW c \in Content, send_message(c)
  PROVE  /\ QueueTypeOK' /\ EndsAgree'
         /\ count' = count + 1
         /\ \A i \in 1..count : SlotAt(i)' = SlotAt(i) /\ messages'[SlotAt(i)] = messages[SlotAt(i)]
         /\ SlotAt(count)' = tail /\ messages'[tail] = <<next_msg_id, c>>
<1> USE DEF QueueInv
<1>1. /\ count < queue_capacity /\ count' = count + 1 /\ head' = head
      /\ messages' = [messages EXCEPT ![tail] = <<next_msg_id, c>>]
      /\ tail' = Advance(tail) /\ next_msg_id' = (next_msg_id + 1) % IdRange
  BY DEF send_message
<1>2. /\ head \in Slot /\ tail \in Slot /\ count \in Nat /\ next_msg_id \in Id
      /\ messages \in [Slot -> Message \cup {NoMessage}]
      /\ queue_capacity \in Nat \ {0}
  BY MessageQueueAssumption DEF QueueTypeOK
<1>3. <<next_msg_id, c>> \in Message
  BY <1>2 DEF Message
<1>4. QueueTypeOK'
  <2>1. messages' \in [Slot -> Message \cup {NoMessage}]
    BY <1>1, <1>2, <1>3
  <2>2. tail' \in Slot
    BY <1>1, <1>2, NextSlot
  <2>3. next_msg_id' \in Id
    BY <1>1, <1>2, NextId
  <2>4. count' \in Nat
    BY <1>1, <1>2
  <2> QED BY <1>1, <1>2, <2>1, <2>2, <2>3, <2>4 DEF QueueTypeOK
<1>5. EndsAgree'
  <2>1. tail = IF head + count < queue_capacity THEN head + count ELSE head + count - queue_capacity
    BY SlotsOfQueue
  <2>2. Advance(tail) = IF tail + 1 < queue_capacity THEN tail + 1 ELSE 0
    BY <1>2, NextSlot
  <2>3. (head + (count + 1)) % queue_capacity =
          IF head + (count + 1) < queue_capacity THEN head + (count + 1)
          ELSE head + (count + 1) - queue_capacity
    <3>1. count + 1 \in 0..queue_capacity /\ head \in 0..(queue_capacity - 1)
      BY <1>1, <1>2 DEF Slot
    <3> QED BY <1>2, <3>1, SumRemainder
  <2>4. Advance(tail) = (head + (count + 1)) % queue_capacity
    BY <1>1, <1>2, <2>1, <2>2, <2>3 DEF Slot
  <2> QED BY <1>1, <1>2, <2>4 DEF EndsAgree
<1>6. \A i \in 1..count : SlotAt(i)' = SlotAt(i) /\ SlotAt(i) \in Slot /\ SlotAt(i) # tail
  <2> SUFFICES ASSUME NEW i \in 1..count
               PROVE  SlotAt(i)' = SlotAt(i) /\ SlotAt(i) \in Slot /\ SlotAt(i) # tail
    OBVIOUS
  <2>1. SlotAt(i)' = SlotAt(i)
    BY <1>1 DEF SlotAt
  <2>2. /\ SlotAt(i) \in Slot
        /\ SlotAt(i) = IF head + i - 1 < queue_capacity THEN head + i - 1 ELSE head + i - 1 - queue_capacity
        /\ tail = IF head + count < queue_capacity THEN head + count ELSE head + count - queue_capacity
    BY SlotsOfQueue
  <2>3. i \in Nat /\ i <= count /\ head \in Nat /\ head < queue_capacity /\ count < queue_capacity
    BY <1>1, <1>2 DEF Slot
  <2>4. SlotAt(i) # tail
    BY <1>2, <2>2, <2>3
  <2> QED BY <2>1, <2>2, <2>4
<1>7. SlotAt(count)' = tail
  <2>1. head + (count + 1) - 1 = head + count
    BY <1>2 DEF Slot
  <2>2. SlotAt(count)' = (head + (count + 1) - 1) % queue_capacity
    BY <1>1 DEF SlotAt
  <2> QED BY <1>1, <2>1, <2>2 DEF EndsAgree
<1> QED BY <1>1, <1>2, <1>4, <1>5, <1>6, <1>7

LEMMA ProcessSlots ==
  ASSUME QueueInv, message_process_queue
  PROVE  /\ QueueTypeOK' /\ EndsAgree'
         /\ count' = count - 1 /\ count \in Nat \ {0}
         /\ \A i \in 1..(count - 1) : SlotAt(i)' = SlotAt(i + 1)
<1> USE DEF QueueInv
<1>1. /\ count > 0 /\ count' = count - 1 /\ head' = Advance(head)
      /\ UNCHANGED <<messages, tail, next_msg_id>>
  BY DEF message_process_queue
<1>2. /\ head \in Slot /\ tail \in Slot /\ count \in Nat /\ next_msg_id \in Id
      /\ messages \in [Slot -> Message \cup {NoMessage}]
      /\ queue_capacity \in Nat \ {0} /\ count \in 0..queue_capacity
  BY MessageQueueAssumption, SlotsOfQueue DEF QueueTypeOK
<1>3. Advance(head) = (IF head + 1 < queue_capacity THEN head + 1 ELSE 0) /\ Advance(head) \in Slot
  BY <1>2, NextSlot
<1>4. QueueTypeOK'
  <2>1. head' \in Slot /\ count' \in Nat
    BY <1>1, <1>2, <1>3
  <2> QED BY <1>1, <1>2, <2>1 DEF QueueTypeOK
<1>5. EndsAgree'
  <2>1. tail = IF head + count < queue_capacity THEN head + count ELSE head + count - queue_capacity
    BY SlotsOfQueue
  <2>2. count - 1 \in 0..queue_capacity /\ Advance(head) \in 0..(queue_capacity - 1)
    BY <1>1, <1>2, <1>3 DEF Slot
  <2>3. (Advance(head) + (count - 1)) % queue_capacity =
          IF Advance(head) + (count - 1) < queue_capacity THEN Advance(head) + (count - 1)
          ELSE Advance(head) + (count - 1) - queue_capacity
    BY <1>2, <2>2, SumRemainder
  <2>4. tail = (Advance(head) + (count - 1)) % queue_capacity
    BY <1>1, <1>2, <1>3, <2>1, <2>3 DEF Slot
  <2> QED BY <1>1, <1>2, <2>2, <2>4 DEF EndsAgree
<1>6. ASSUME NEW i \in 1..(count - 1) PROVE SlotAt(i)' = SlotAt(i + 1)
  <2>1. SlotAt(i)' = (Advance(head) + i - 1) % queue_capacity
    BY <1>1 DEF SlotAt
  <2>2. Advance(head) \in 0..(queue_capacity - 1) /\ i \in 1..queue_capacity
    BY <1>2, <1>3 DEF Slot
  <2>3. (Advance(head) + i - 1) % queue_capacity =
          IF Advance(head) + i - 1 < queue_capacity THEN Advance(head) + i - 1
          ELSE Advance(head) + i - 1 - queue_capacity
    BY <1>2, <2>2, PlaceRemainder
  <2>4. i + 1 \in 1..count
    BY <1>2
  <2>5. SlotAt(i + 1) = IF head + (i + 1) - 1 < queue_capacity THEN head + (i + 1) - 1
                        ELSE head + (i + 1) - 1 - queue_capacity
    BY <2>4, SlotsOfQueue
  <2> QED BY <1>2, <1>3, <2>1, <2>2, <2>3, <2>5 DEF Slot
<1> QED BY <1>1, <1>2, <1>4, <1>5, <1>6
-----------------------------------------------------------------------------
LEMMA QueueInitEstablishes == QueueInit => QueueInv
<1> SUFFICES ASSUME QueueInit PROVE QueueInv
  OBVIOUS
<1>1. queue_capacity \in Nat \ {0} /\ IdRange \in Nat \ {0}
  BY MessageQueueAssumption
<1>2. QueueTypeOK
  BY <1>1 DEF QueueInit, QueueTypeOK, Slot, Id
<1>3. EndsAgree
  <2>1. (0 + 0) % queue_capacity = 0
    BY <1>1
  <2> QED BY <1>1, <2>1 DEF QueueInit, EndsAgree
<1>4. Numbered
  BY DEF QueueInit, Numbered
<1> QED BY <1>2, <1>3, <1>4 DEF QueueInv

(* send_message: every message in the queue is one further behind the counter, *)
(* and the new one is right behind it.                                         *)
LEMMA SendPreserves ==
  ASSUME QueueInv, NEW c \in Content, send_message(c)
  PROVE  QueueInv'
<1>1. /\ QueueTypeOK' /\ EndsAgree' /\ count' = count + 1 /\ count \in 0..queue_capacity
      /\ next_msg_id \in Id /\ next_msg_id' = (next_msg_id + 1) % IdRange
      /\ count' \in 0..queue_capacity
  <2>1. QueueTypeOK' /\ EndsAgree' /\ count' = count + 1
    BY SendSlots
  <2>2. count \in 0..queue_capacity /\ next_msg_id \in Id
    BY SlotsOfQueue DEF QueueInv, QueueTypeOK
  <2>3. count < queue_capacity /\ next_msg_id' = (next_msg_id + 1) % IdRange
    BY DEF send_message
  <2>4. count' \in 0..queue_capacity
    BY <2>1, <2>2, <2>3, MessageQueueAssumption
  <2> QED BY <2>1, <2>2, <2>3, <2>4
<1>2. /\ IdRange \in Nat \ {0} /\ queue_capacity \in Nat \ {0} /\ queue_capacity <= IdRange
      /\ next_msg_id \in 0..(IdRange - 1)
      /\ next_msg_id' = (IF next_msg_id + 1 < IdRange THEN next_msg_id + 1 ELSE 0)
      /\ next_msg_id' \in Id
  BY <1>1, MessageQueueAssumption, NextId DEF Id
<1>3. ASSUME NEW i \in 1..count'
      PROVE  /\ messages'[SlotAt(i)'] \in Message
             /\ messages'[SlotAt(i)'][1] = (next_msg_id' + i - 1 - count') % IdRange
  <2>1. (next_msg_id' + i - 1 - count') % IdRange =
          IF next_msg_id' + i - 1 - count' < 0
          THEN next_msg_id' + i - 1 - count' + IdRange ELSE next_msg_id' + i - 1 - count'
    BY <1>1, <1>2, IdsBefore
  <2>2. CASE i \in 1..count
    <3>1. messages'[SlotAt(i)'] = messages[SlotAt(i)]
      BY <2>2, SendSlots
    <3>2. /\ messages[SlotAt(i)] \in Message
          /\ messages[SlotAt(i)][1] = (next_msg_id + i - 1 - count) % IdRange
      BY <2>2 DEF QueueInv, Numbered
    <3>3. (next_msg_id + i - 1 - count) % IdRange =
            IF next_msg_id + i - 1 - count < 0
            THEN next_msg_id + i - 1 - count + IdRange ELSE next_msg_id + i - 1 - count
      BY <1>1, <2>2, IdsBefore
    <3>4. (next_msg_id + i - 1 - count) % IdRange = (next_msg_id' + i - 1 - count') % IdRange
      <4>1. CASE next_msg_id + 1 < IdRange
        BY <1>1, <1>2, <2>1, <2>2, <3>3, <4>1
      <4>2. CASE next_msg_id + 1 = IdRange
        <5>1. next_msg_id' = 0 /\ next_msg_id = IdRange - 1 /\ count + 1 <= IdRange
          BY <1>1, <1>2, <4>2
        <5> QED BY <1>1, <1>2, <2>1, <2>2, <3>3, <5>1
      <4> QED BY <1>2, <4>1, <4>2
    <3> QED BY <3>1, <3>2, <3>4
  <2>3. CASE i = count + 1
    <3>1. SlotAt(i)' = tail /\ messages'[tail] = <<next_msg_id, c>>
      BY <1>1, <2>3, SendSlots DEF SlotAt
    <3>2. <<next_msg_id, c>> \in Message /\ <<next_msg_id, c>>[1] = next_msg_id
      BY <1>1 DEF Message
    <3>3. next_msg_id = (next_msg_id' + i - 1 - count') % IdRange
      BY <1>1, <1>2, <2>1, <2>3
    <3> QED BY <3>1, <3>2, <3>3
  <2> QED BY <1>1, <2>2, <2>3
<1>4. Numbered'
  BY <1>3 DEF Numbered
<1> QED BY <1>1, <1>4 DEF QueueInv

(* message_process_queue: the queue loses its oldest message, no id changes.   *)
LEMMA ProcessPreserves ==
  ASSUME QueueInv, message_process_queue
  PROVE  QueueInv'
<1>1. /\ QueueTypeOK' /\ EndsAgree' /\ count' = count - 1 /\ count \in Nat \ {0}
      /\ messages' = messages /\ next_msg_id' = next_msg_id
  BY ProcessSlots DEF message_process_queue
<1>2. ASSUME NEW i \in 1..count'
      PROVE  /\ messages'[SlotAt(i)'] \in Message
             /\ messages'[SlotAt(i)'][1] = (next_msg_id' + i - 1 - count') % IdRange
  <2>1. SlotAt(i)' = SlotAt(i + 1) /\ i + 1 \in 1..count
    BY <1>1, ProcessSlots
  <2>2. /\ messages[SlotAt(i + 1)] \in Message
        /\ messages[SlotAt(i + 1)][1] = (next_msg_id + (i + 1) - 1 - count) % IdRange
    BY <2>1 DEF QueueInv, Numbered
  <2>3. next_msg_id + (i + 1) - 1 - count = next_msg_id' + i - 1 - count'
    BY <1>1 DEF QueueInv, QueueTypeOK, Id
  <2> QED BY <1>1, <2>1, <2>2, <2>3
<1>3. Numbered'
  BY <1>2 DEF Numbered
<1> QED BY <1>1, <1>3 DEF QueueInv

LEMMA StutterPreserves == QueueInv /\ UNCHANGED queueVars => QueueInv'
BY DEF QueueInv, QueueTypeOK, EndsAgree, Numbered, SlotAt, queueVars

(* The ring stays sound whatever senders and consumer do (message.c).          *)
THEOREM QueueInvariance == QueueSpec => []QueueInv
<1>1. QueueInit => QueueInv
  BY QueueInitEstablishes
<1>2. QueueInv /\ [QueueNext]_queueVars => QueueInv'
  BY SendPreserves, ProcessPreserves, StutterPreserves DEF QueueNext
<1> QED BY <1>1, <1>2, PTL DEF QueueSpec

-----------------------------------------------------------------------------
(* Every field of the queue keeps its type: neither end leaves the ring.       *)
THEOREM QueueTypeCorrect == QueueSpec => []QueueTypeOK
<1>1. QueueInv => QueueTypeOK
  BY DEF QueueInv
<1> QED BY <1>1, QueueInvariance, PTL

(* head, tail and count never contradict each other.                           *)
THEOREM EndsAlwaysAgree == QueueSpec => []EndsAgree
<1>1. QueueInv => EndsAgree
  BY DEF QueueInv
<1> QED BY <1>1, QueueInvariance, PTL

(* Messages waiting together have different ids, across the wrap-around of     *)
(* next_msg_id too.                                                            *)
THEOREM IdsAlwaysDistinct == QueueSpec => []IdsDistinct
<1>1. QueueInv => IdsDistinct
  <2> SUFFICES ASSUME QueueInv, NEW i \in 1..count, NEW j \in 1..count,
                      messages[SlotAt(i)][1] = messages[SlotAt(j)][1]
               PROVE  i = j
    BY DEF IdsDistinct
  <2>1. /\ count \in 0..queue_capacity /\ next_msg_id \in Id /\ next_msg_id \in 0..(IdRange - 1)
        /\ IdRange \in Nat \ {0} /\ queue_capacity \in Nat \ {0} /\ queue_capacity <= IdRange
    BY MessageQueueAssumption, SlotsOfQueue DEF QueueInv, QueueTypeOK, Id
  <2>2. (next_msg_id + i - 1 - count) % IdRange = (next_msg_id + j - 1 - count) % IdRange
    BY DEF QueueInv, Numbered
  <2>3. (next_msg_id + i - 1 - count) % IdRange =
          IF next_msg_id + i - 1 - count < 0
          THEN next_msg_id + i - 1 - count + IdRange ELSE next_msg_id + i - 1 - count
    BY <2>1, IdsBefore
  <2>4. (next_msg_id + j - 1 - count) % IdRange =
          IF next_msg_id + j - 1 - count < 0
          THEN next_msg_id + j - 1 - count + IdRange ELSE next_msg_id + j - 1 - count
    BY <2>1, IdsBefore
  <2> QED BY <2>1, <2>2, <2>3, <2>4
<1> QED BY <1>1, QueueInvariance, PTL

-----------------------------------------------------------------------------
(* The ring with its indices and remainders is a bounded queue with a counter. *)

Contents == [i \in 1..count |-> messages[SlotAt(i)]]

LEMMA ContentsAreMessages ==
  ASSUME QueueInv
  PROVE  Contents \in Seq(Message) /\ Len(Contents) = count /\ count \in 0..queue_capacity
<1>1. count \in 0..queue_capacity /\ count \in Nat
  BY SlotsOfQueue DEF QueueInv, QueueTypeOK
<1>2. \A i \in 1..count : messages[SlotAt(i)] \in Message
  BY DEF QueueInv, Numbered
<1>3. Contents \in [1..count -> Message]
  BY <1>2 DEF Contents
<1> QED BY <1>1, <1>3

LEMMA SendIsPut ==
  ASSUME QueueInv, NEW c \in Content, send_message(c)
  PROVE  Fifo!Put(c)
<1>1. /\ count' = count + 1 /\ count < queue_capacity /\ count \in Nat
      /\ next_msg_id' = (next_msg_id + 1) % IdRange /\ next_msg_id \in Id
  BY SendSlots DEF send_message, QueueInv, QueueTypeOK
<1> DEFINE new == <<next_msg_id, c>>
<1>2. ASSUME NEW i \in 1..(count + 1)
      PROVE  messages'[SlotAt(i)'] = IF i = count + 1 THEN new ELSE messages[SlotAt(i)]
  <2>1. CASE i \in 1..count
    BY <1>1, <2>1, SendSlots
  <2>2. CASE i = count + 1
    BY <1>1, <2>2, SendSlots DEF SlotAt
  <2> QED BY <1>1, <2>1, <2>2
<1>3. Contents' = [i \in 1..(count + 1) |-> IF i = count + 1 THEN new ELSE messages[SlotAt(i)]]
  BY <1>1, <1>2 DEF Contents
<1>4. Contents \in Seq(Message) /\ Len(Contents) = count /\ new \in Message
  BY <1>1, ContentsAreMessages DEF Message
<1>5. \A i \in 1..count : Contents[i] = messages[SlotAt(i)]
  BY DEF Contents
<1> HIDE DEF new
<1>6. Contents' = Append(Contents, new)
  <2> DEFINE longer == Append(Contents, new)
  <2>1. /\ longer \in Seq(Message) /\ Len(longer) = count + 1
        /\ \A i \in 1..count : longer[i] = messages[SlotAt(i)]
        /\ longer[count + 1] = new
    BY <1>1, <1>4, <1>5, AppendProperties
  <2> HIDE DEF longer
  <2>2. longer = [i \in 1..(count + 1) |-> longer[i]]
    BY <2>1
  <2>3. ASSUME NEW i \in 1..(count + 1)
        PROVE  longer[i] = IF i = count + 1 THEN new ELSE messages[SlotAt(i)]
    BY <1>1, <2>1
  <2>4. longer = [i \in 1..(count + 1) |-> IF i = count + 1 THEN new ELSE messages[SlotAt(i)]]
    BY <2>2, <2>3
  <2> QED BY <1>3, <2>4 DEF longer
<1> QED BY <1>1, <1>4, <1>6 DEF Fifo!Put, Contents, new

LEMMA ProcessIsGet ==
  ASSUME QueueInv, message_process_queue
  PROVE  Fifo!Get
<1>1. /\ count' = count - 1 /\ count \in Nat \ {0}
      /\ messages' = messages /\ next_msg_id' = next_msg_id
  BY ProcessSlots DEF message_process_queue
<1>2. Contents' = [i \in 1..(count - 1) |-> messages[SlotAt(i + 1)]]
  BY <1>1, ProcessSlots DEF Contents
<1>3. Contents \in Seq(Message) /\ Len(Contents) = count
  BY ContentsAreMessages
<1>4. \A i \in 1..(count - 1) : Contents[i + 1] = messages[SlotAt(i + 1)]
  BY <1>1 DEF Contents
<1>5. Contents' = Tail(Contents) /\ Contents # <<>>
  <2>1. Contents # <<>>
    BY <1>1, <1>3, EmptySeq
  <2> DEFINE rest == Tail(Contents)
  <2>2. /\ rest \in Seq(Message) /\ Len(rest) = count - 1
        /\ \A i \in 1..(count - 1) : rest[i] = messages[SlotAt(i + 1)]
    BY <1>1, <1>3, <1>4, <2>1, HeadTailProperties
  <2> HIDE DEF rest
  <2>3. rest = [i \in 1..(count - 1) |-> rest[i]]
    BY <1>1, <2>2
  <2>4. rest = [i \in 1..(count - 1) |-> messages[SlotAt(i + 1)]]
    BY <2>2, <2>3
  <2> QED BY <1>2, <2>1, <2>4 DEF rest
<1> QED BY <1>1, <1>5 DEF Fifo!Get, Contents

(* send_message and its consumer, on an array, are a queue that loses no       *)
(* message, keeps the order and numbers what it takes.                         *)
THEOREM RingImplementsFifo == QueueSpec => ImplementsFifo
<1>1. QueueInit => Fifo!FInit
  <2> SUFFICES ASSUME QueueInit PROVE Fifo!FInit
    OBVIOUS
  <2>1. count = 0 /\ next_msg_id = 0
    BY DEF QueueInit
  <2>2. [i \in 1..count |-> messages[SlotAt(i)]] = <<>>
    BY <2>1
  <2> QED BY <2>1, <2>2 DEF Fifo!FInit
<1>2. QueueInv /\ [QueueNext]_queueVars => [Fifo!FNext]_Fifo!fvars
  <2> SUFFICES ASSUME QueueInv, [QueueNext]_queueVars PROVE [Fifo!FNext]_Fifo!fvars
    OBVIOUS
  <2>1. CASE message_process_queue
    BY <2>1, ProcessIsGet DEF Fifo!FNext
  <2>2. ASSUME NEW c \in Content, send_message(c) PROVE Fifo!FNext
    BY <2>2, SendIsPut DEF Fifo!FNext
  <2>3. CASE UNCHANGED queueVars
    <3>1. UNCHANGED Fifo!fvars
      BY <2>3 DEF queueVars, Fifo!fvars, SlotAt
    <3> QED BY <3>1
  <2> QED BY <2>1, <2>2, <2>3 DEF QueueNext
<1> QED BY <1>1, <1>2, QueueInvariance, PTL DEF QueueSpec, ImplementsFifo, Fifo!FSpec

=============================================================================
