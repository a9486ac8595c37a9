----------------------------- MODULE ProgramProofs -----------------------------
(***************************************************************************)
(* Proofs about Program: for any table of interfaces, any number of        *)
(* programs and any step that fails, contexts neither leak nor dangle.     *)
(***************************************************************************)
EXTENDS Program, FiniteSetTheorems, WellFoundedInduction, TLAPS

IInv == TypeOK /\ ContextsHaveOneOwner

-----------------------------------------------------------------------------
(* Helpers *)

(* A set of numbers that is not empty has a least one: the smallest of its      *)
(* initial segments, which are finite, is that of the least number.             *)
LEMMA LeastExists ==
  ASSUME NEW S \in SUBSET Nat, S # {}
  PROVE  \E x \in S : \A y \in S : x <= y
<1> DEFINE Upto(x) == {y \in S : y <= x}
           T == {Upto(x) : x \in S}
<1>1. T \subseteq FiniteSubsetsOf(Nat) /\ T # {}
  <2>1. ASSUME NEW x \in S PROVE IsFiniteSet(Upto(x))
    BY FS_BoundedSetOfNaturals
  <2> QED BY <2>1 DEF FiniteSubsetsOf
<1>2. PICK M \in T : \A U \in T : <<U, M>> \notin StrictSubsetOrdering(Nat)
  <2> HIDE DEF T
  <2> QED BY <1>1, WFMin, FS_StrictSubsetOrderingWellFounded
<1>3. PICK x \in S : M = Upto(x)
  OBVIOUS
<1>4. ASSUME NEW y \in S PROVE x <= y
  <2> SUFFICES ASSUME y < x PROVE FALSE
    OBVIOUS
  <2>0. x \in Nat /\ y \in Nat /\ \A z \in S : z \in Nat
    OBVIOUS
  <2>1. Upto(y) \subseteq Upto(x) /\ x \in Upto(x) /\ x \notin Upto(y)
    <3>1. \A z \in S : z <= y => z <= x
      BY <2>0
    <3>2. ~(x <= y) /\ x <= x
      BY <2>0
    <3> QED BY <3>1, <3>2
  <2>2. Upto(y) \in T /\ Upto(y) \in SUBSET Nat /\ Upto(x) \in SUBSET Nat
    OBVIOUS
  <2>3. <<Upto(y), Upto(x)>> \in StrictSubsetOrdering(Nat)
    BY <2>1, <2>2 DEF StrictSubsetOrdering
  <2> QED BY <1>2, <1>3, <2>2, <2>3
<1> QED BY <1>4

(* The search by name ends at an interface when the name is registered. *)
LEMMA FoundInterface ==
  ASSUME registry \in Seq(Interface), NEW name, \E i \in Registered : i.name = name
  PROVE  find_interface(name) \in Interface
<1> DEFINE S == {i \in DOMAIN registry : registry[i].name = name}
           First(i) == registry[i].name = name /\ \A j \in 1..(i - 1) : registry[j].name # name
<1>1. DOMAIN registry = 1..Len(registry) /\ Len(registry) \in Nat
  OBVIOUS
<1>2. S \in SUBSET Nat /\ S # {}
  BY <1>1 DEF Registered
<1>3. PICK x \in S : \A y \in S : x <= y
  BY <1>2, LeastExists
<1>4. First(x)
  <2>1. ASSUME NEW j \in 1..(x - 1), registry[j].name = name PROVE FALSE
    <3>1. j \in DOMAIN registry /\ ~(x <= j)
      BY <1>1
    <3> QED BY <1>3, <2>1, <3>1
  <2> QED BY <2>1
<1>5. (CHOOSE i \in DOMAIN registry : First(i)) \in DOMAIN registry
  BY <1>4
<1>6. find_interface(name) = registry[CHOOSE i \in DOMAIN registry : First(i)]
  BY DEF find_interface
<1> QED BY <1>5, <1>6

(* What a creation leaves: every context if no step failed, else none. *)
LEMMA LeftOver ==
  ASSUME NEW needs \in SUBSET Kind, NEW failed \in needs \cup {"init", "none"}
  PROVE  /\ failed = "none" => CreatedBefore(needs, failed) = needs
                               /\ DestroyedAfter(needs, failed) = {}
         /\ failed # "none" => CreatedBefore(needs, failed) \ DestroyedAfter(needs, failed) = {}
<1>1. CASE failed = "none"
  BY <1>1 DEF CreatedBefore, DestroyedAfter, Kind
<1>2. CASE failed = "init"
  BY <1>2 DEF CreatedBefore, DestroyedAfter, Kind
<1>3. CASE failed = "network"
  BY <1>3 DEF CreatedBefore, DestroyedAfter, Kind
<1>4. CASE failed = "state"
  BY <1>4 DEF CreatedBefore, DestroyedAfter, Kind
<1>5. CASE failed = "cli"
  BY <1>5 DEF CreatedBefore, DestroyedAfter, Kind
<1> QED BY <1>1, <1>2, <1>3, <1>4, <1>5 DEF Kind

LEMMA KindOfContext ==
  ASSUME NEW at, NEW k \in Kind, NEW junk
  PROVE  Context(at, k, junk).kind = k
BY DEF Context, Kind

(* A new program's structure, and the contexts it names. *)
LEMMA StructureOfNew ==
  ASSUME NEW interface \in Interface, NEW at \in [interface.needs -> Block],
         NEW p, p = NewProgram(interface, at)
  PROVE  /\ p \in Structure /\ p # NULL
         /\ ({p.network_context, p.state_context, p.cli_context} \ {NULL})
              = {at[k] : k \in interface.needs}
         /\ p.network_context # NULL =>
              "network" \in interface.needs /\ p.network_context = at["network"]
         /\ p.state_context # NULL =>
              "state" \in interface.needs /\ p.state_context = at["state"]
         /\ p.cli_context # NULL =>
              "cli" \in interface.needs /\ p.cli_context = at["cli"]
<1>1. interface.needs \in SUBSET {"network", "state", "cli"}
  BY DEF Interface, Kind
<1>2. \A k : Field(at, k) = IF k \in interface.needs THEN at[k] ELSE NULL
  BY DEF Field
<1>3. NULL \notin Block /\ NULL \notin Structure
  BY ProgramAssumption
<1>4. p = [interface |-> interface, network_context |-> Field(at, "network"),
           state_context |-> Field(at, "state"), cli_context |-> Field(at, "cli"),
           is_running |-> TRUE]
  BY DEF NewProgram
<1>5. p \in Structure
  <2>1. \A k : Field(at, k) \in Block \cup {NULL}
    BY <1>2
  <2> QED BY <1>4, <2>1 DEF Structure
<1>6. /\ p.network_context = Field(at, "network") /\ p.state_context = Field(at, "state")
      /\ p.cli_context = Field(at, "cli")
  BY <1>4
<1>7. ({p.network_context, p.state_context, p.cli_context} \ {NULL})
        = {at[k] : k \in interface.needs}
  BY <1>1, <1>2, <1>3, <1>6
<1> QED BY <1>2, <1>3, <1>5, <1>6, <1>7

-----------------------------------------------------------------------------
(* The steps *)

LEMMA RegisterStep ==
  ASSUME IInv, NEW interface \in Interface, program_register(interface)
  PROVE  IInv'
<1>1. UNCHANGED <<programs, heap, listening, saved>>
  BY DEF program_register
<1>2. registry' \in Seq(Interface) /\ Len(registry') <= MAX_PROGRAMS
  BY ProgramAssumption DEF program_register, IInv, TypeOK
<1>3. Alive' = Alive /\ \A h : Contexts(h)' = Contexts(h)
  BY <1>1 DEF Alive, Contexts
<1>4. TypeOK'
  BY <1>1, <1>2, <1>3 DEF IInv, TypeOK
<1>5. ContextsHaveOneOwner'
  BY <1>1, <1>3 DEF IInv, ContextsHaveOneOwner
<1> QED BY <1>4, <1>5 DEF IInv

(* What the contexts of the programs that exist are. *)
LEMMA ContextsKnown ==
  ASSUME IInv, NEW h \in Alive
  PROVE  /\ programs[h] \in Structure /\ h \in Handle /\ programs[h] # NULL
         /\ Contexts(h) \subseteq Block /\ Contexts(h) \subseteq DOMAIN heap
<1>1. programs[h] \in Structure /\ h \in Handle /\ programs[h] # NULL
  BY DEF IInv, TypeOK, Alive
<1>2. Contexts(h) \subseteq Block
  BY <1>1 DEF Contexts, Structure
<1>3. Contexts(h) \subseteq DOMAIN heap
  BY DEF IInv, ContextsHaveOneOwner
<1> QED BY <1>1, <1>2, <1>3

(* A creation that fails changes nothing; one that succeeds adds a program and *)
(* the contexts its interface requires.                                        *)
LEMMA CreateStep ==
  ASSUME IInv, NEW h \in Handle, NEW name \in Name, program_create(h, name)
  PROVE  IInv'
<1> DEFINE interface == find_interface(name)
           needs == interface.needs
<1>1. interface \in Interface
  BY FoundInterface DEF program_create, IInv, TypeOK
<1>2. needs \in SUBSET Kind
  BY <1>1 DEF Interface
<1>3. programs[h] = NULL /\ UNCHANGED <<registry, listening, saved>>
  BY DEF program_create
<1>4. PICK failed \in needs \cup {"init", "none"} :
        LET created == CreatedBefore(needs, failed)
            left == created \ DestroyedAfter(needs, failed)
        IN \E at \in [created -> Block \ DOMAIN heap], junk \in {NULL, Garbage} :
             /\ \A k, l \in created : at[k] = at[l] => k = l
             /\ LET kept == {at[k] : k \in left}
                    kindAt(b) == CHOOSE k \in left : at[k] = b
                IN heap' = [b \in DOMAIN heap \cup kept |->
                              IF b \in kept THEN Context(at, kindAt(b), junk) ELSE heap[b]]
             /\ programs' = IF failed = "none"
                            THEN [programs EXCEPT ![h] = NewProgram(interface, at)]
                            ELSE programs
  BY DEF program_create
<1> DEFINE created == CreatedBefore(needs, failed)
           left == created \ DestroyedAfter(needs, failed)
<1>5. PICK at \in [created -> Block \ DOMAIN heap], junk \in {NULL, Garbage} :
        /\ \A k, l \in created : at[k] = at[l] => k = l
        /\ LET kept == {at[k] : k \in left}
               kindAt(b) == CHOOSE k \in left : at[k] = b
           IN heap' = [b \in DOMAIN heap \cup kept |->
                         IF b \in kept THEN Context(at, kindAt(b), junk) ELSE heap[b]]
        /\ programs' = IF failed = "none"
                       THEN [programs EXCEPT ![h] = NewProgram(interface, at)]
                       ELSE programs
  BY <1>4
<1> DEFINE kept == {at[k] : k \in left}
           kindAt(b) == CHOOSE k \in left : at[k] = b
<1>6. heap' = [b \in DOMAIN heap \cup kept |->
                 IF b \in kept THEN Context(at, kindAt(b), junk) ELSE heap[b]]
  BY <1>5
<1> HIDE DEF interface
<1>7. CASE failed # "none"
  <2>1. left = {}
    BY <1>2, <1>7, LeftOver
  <2>2. programs' = programs
    BY <1>5, <1>7
  <2>3. DOMAIN heap' = DOMAIN heap /\ \A b \in DOMAIN heap : heap'[b] = heap[b]
    BY <1>6, <2>1
  <2>4. Alive' = Alive /\ \A g : Contexts(g)' = Contexts(g)
    BY <2>2 DEF Alive, Contexts
  <2>5. TypeOK'
    BY <1>3, <2>2, <2>3 DEF IInv, TypeOK
  <2>6. ContextsHaveOneOwner'
    <3>1. DOMAIN heap' = UNION {Contexts(g)' : g \in Alive'}
          /\ \A g, k \in Alive' : g # k => Contexts(g)' \cap Contexts(k)' = {}
      BY <2>3, <2>4 DEF IInv, ContextsHaveOneOwner
    <3>2. \A b \in listening' : b \in DOMAIN heap' /\ heap'[b].kind = "network"
      BY <1>3, <2>3 DEF IInv, ContextsHaveOneOwner
    <3>3. ASSUME NEW g \in Alive
          PROVE  /\ programs[g].network_context # NULL =>
                      heap'[programs[g].network_context].kind = "network"
                 /\ programs[g].state_context # NULL =>
                      heap'[programs[g].state_context].kind = "state"
                 /\ programs[g].cli_context # NULL =>
                      heap'[programs[g].cli_context].kind = "cli"
      BY <2>3, ContextsKnown DEF IInv, ContextsHaveOneOwner, Contexts
    <3> QED BY <2>2, <2>4, <3>1, <3>2, <3>3 DEF ContextsHaveOneOwner
  <2> QED BY <2>5, <2>6 DEF IInv
<1>8. CASE failed = "none"
  <2>1. created = needs /\ left = needs
    BY <1>2, <1>8, LeftOver
  <2>2. at \in [needs -> Block] /\ kept = {at[k] : k \in needs} /\ kept \cap DOMAIN heap = {}
        /\ kept \subseteq Block
    BY <2>1
  <2>3. ASSUME NEW k \in needs PROVE heap'[at[k]].kind = k /\ at[k] \in kept
    <3>1. at[k] \in kept
      BY <2>2
    <3>2. kindAt(at[k]) = k
      BY <1>5, <2>1
    <3>3. heap'[at[k]] = Context(at, k, junk)
      BY <1>6, <3>1, <3>2
    <3> QED BY <1>2, <3>1, <3>3, KindOfContext
  <2>4. DOMAIN heap' = DOMAIN heap \cup kept /\ \A b \in DOMAIN heap : heap'[b] = heap[b]
    BY <1>6, <2>2
  <2> DEFINE p == NewProgram(interface, at)
  <2>5. programs' = [programs EXCEPT ![h] = p]
    BY <1>5, <1>8
  <2>6. /\ p \in Structure /\ p # NULL
        /\ ({p.network_context, p.state_context, p.cli_context} \ {NULL}) = kept
        /\ p.network_context # NULL => "network" \in needs /\ p.network_context = at["network"]
        /\ p.state_context # NULL => "state" \in needs /\ p.state_context = at["state"]
        /\ p.cli_context # NULL => "cli" \in needs /\ p.cli_context = at["cli"]
    <3>1. interface \in Interface /\ at \in [interface.needs -> Block]
      BY <1>1, <2>2
    <3>2. kept = {at[k] : k \in interface.needs}
      BY <2>2
    <3> HIDE DEF p, kept
    <3>3. p = NewProgram(interface, at)
      BY DEF p
    <3> QED BY <3>1, <3>2, <3>3, StructureOfNew
  <2> HIDE DEF p, kept
  <2>7. programs'[h] = p /\ \A g \in Handle \ {h} : programs'[g] = programs[g]
    BY <2>5 DEF IInv, TypeOK
  <2>8. Alive' = Alive \cup {h} /\ h \notin Alive
    BY <1>3, <2>6, <2>7 DEF Alive
  <2>9. \A g \in Alive : g \in Handle \ {h} /\ Contexts(g)' = Contexts(g)
    BY <2>7, <2>8 DEF Alive, Contexts
  <2>10. Contexts(h)' = kept
    BY <2>6, <2>7 DEF Contexts
  <2>11. TypeOK'
    <3>1. programs' \in [Handle -> Structure \cup {NULL}]
      BY <2>5, <2>6 DEF IInv, TypeOK
    <3>2. ASSUME NEW b \in DOMAIN heap' PROVE b \in Block /\ heap'[b].kind \in Kind
      <4>1. CASE b \in DOMAIN heap
        BY <4>1, <2>4 DEF IInv, TypeOK
      <4>2. CASE b \in kept
        BY <4>2, <1>2, <2>2, <2>3
      <4> QED BY <2>4, <4>1, <4>2
    <3> QED BY <1>3, <3>1, <3>2 DEF IInv, TypeOK
  <2>12. DOMAIN heap' = UNION {Contexts(g)' : g \in Alive'}
    <3>1. DOMAIN heap = UNION {Contexts(g) : g \in Alive}
      BY DEF IInv, ContextsHaveOneOwner
    <3> QED BY <2>4, <2>8, <2>9, <2>10, <3>1
  <2>13. \A g, k \in Alive' : g # k => Contexts(g)' \cap Contexts(k)' = {}
    <3>1. \A g, k \in Alive : g # k => Contexts(g) \cap Contexts(k) = {}
      BY DEF IInv, ContextsHaveOneOwner
    <3>2. \A g \in Alive : Contexts(g) \cap kept = {}
      BY <2>2, ContextsKnown
    <3> QED BY <2>8, <2>9, <2>10, <3>1, <3>2
  <2>14. ASSUME NEW g \in Alive'
         PROVE  /\ programs'[g].network_context # NULL =>
                     heap'[programs'[g].network_context].kind = "network"
                /\ programs'[g].state_context # NULL =>
                     heap'[programs'[g].state_context].kind = "state"
                /\ programs'[g].cli_context # NULL =>
                     heap'[programs'[g].cli_context].kind = "cli"
    <3>1. CASE g = h
      BY <3>1, <2>3, <2>6, <2>7
    <3>2. CASE g \in Alive
      <4>1. programs'[g] = programs[g]
        BY <3>2, <2>7, <2>9
      <4>2. \A b \in Contexts(g) : heap'[b] = heap[b]
        BY <3>2, <2>4, ContextsKnown
      <4>3. /\ programs[g].network_context # NULL => heap[programs[g].network_context].kind = "network"
            /\ programs[g].state_context # NULL => heap[programs[g].state_context].kind = "state"
            /\ programs[g].cli_context # NULL => heap[programs[g].cli_context].kind = "cli"
        BY <3>2 DEF IInv, ContextsHaveOneOwner
      <4> QED BY <4>1, <4>2, <4>3 DEF Contexts
    <3> QED BY <2>8, <3>1, <3>2
  <2>15. \A b \in listening' : b \in DOMAIN heap' /\ heap'[b].kind = "network"
    BY <1>3, <2>4 DEF IInv, ContextsHaveOneOwner
  <2> QED BY <2>11, <2>12, <2>13, <2>14, <2>15 DEF IInv, ContextsHaveOneOwner
<1> QED BY <1>7, <1>8

(* Starting and stopping move only the server. *)
LEMMA ServerStep ==
  ASSUME IInv, NEW h \in Handle, program_start(h) \/ program_stop(h)
  PROVE  IInv'
<1>1. /\ h \in Alive /\ UNCHANGED <<registry, heap>> /\ saved' = saved
      /\ programs' = programs \/ programs' = [programs EXCEPT ![h].is_running = FALSE]
      /\ \A b \in listening' : b \in listening
                              \/ (b = programs[h].network_context /\ b # NULL)
  BY DEF program_start, program_stop, state_save
<1>2. /\ programs' \in [Handle -> Structure \cup {NULL}]
      /\ \A g \in Handle \ {h} : programs'[g] = programs[g]
      /\ programs'[h] \in Structure
      /\ programs'[h].network_context = programs[h].network_context
      /\ programs'[h].state_context = programs[h].state_context
      /\ programs'[h].cli_context = programs[h].cli_context
  <2>1. CASE programs' = programs
    BY <1>1, <2>1, ContextsKnown DEF IInv, TypeOK
  <2>2. CASE programs' = [programs EXCEPT ![h].is_running = FALSE]
    <3> DEFINE p == [programs[h] EXCEPT !.is_running = FALSE]
    <3>1. programs[h] \in Structure
      BY <1>1, ContextsKnown
    <3>2. p \in Structure /\ p.network_context = programs[h].network_context
          /\ p.state_context = programs[h].state_context
          /\ p.cli_context = programs[h].cli_context
      BY <3>1 DEF Structure
    <3>3. programs' = [programs EXCEPT ![h] = p]
      BY <2>2
    <3> HIDE DEF p
    <3> QED BY <3>2, <3>3 DEF IInv, TypeOK
  <2> QED BY <1>1, <2>1, <2>2
<1>3. Alive' = Alive
  BY <1>1, <1>2, ProgramAssumption DEF Alive
<1>4. \A g \in Alive : /\ programs'[g].network_context = programs[g].network_context
                      /\ programs'[g].state_context = programs[g].state_context
                      /\ programs'[g].cli_context = programs[g].cli_context
                      /\ Contexts(g)' = Contexts(g)
  BY <1>2 DEF Alive, Contexts
<1>5. TypeOK'
  BY <1>1, <1>2 DEF IInv, TypeOK
<1>6. \A b \in listening' : b \in DOMAIN heap' /\ heap'[b].kind = "network"
  <2>1. programs[h].network_context # NULL =>
          /\ programs[h].network_context \in DOMAIN heap
          /\ heap[programs[h].network_context].kind = "network"
    BY <1>1, ContextsKnown DEF IInv, ContextsHaveOneOwner, Contexts
  <2> QED BY <1>1, <2>1 DEF IInv, ContextsHaveOneOwner
<1>7. DOMAIN heap' = UNION {Contexts(g)' : g \in Alive'}
      /\ \A g, k \in Alive' : g # k => Contexts(g)' \cap Contexts(k)' = {}
  BY <1>1, <1>3, <1>4 DEF IInv, ContextsHaveOneOwner
<1>8. \A g \in Alive' :
        /\ programs'[g].network_context # NULL => heap'[programs'[g].network_context].kind = "network"
        /\ programs'[g].state_context # NULL => heap'[programs'[g].state_context].kind = "state"
        /\ programs'[g].cli_context # NULL => heap'[programs'[g].cli_context].kind = "cli"
  BY <1>1, <1>3, <1>4 DEF IInv, ContextsHaveOneOwner
<1> QED BY <1>5, <1>6, <1>7, <1>8 DEF IInv, ContextsHaveOneOwner

(* Destruction takes the contexts of one program, and the server with them. *)
LEMMA DestroyStep ==
  ASSUME IInv, NEW h \in Handle, program_destroy(h)
  PROVE  IInv'
<1>1. /\ h \in Alive /\ UNCHANGED <<registry, saved>>
      /\ programs' = [programs EXCEPT ![h] = NULL]
      /\ heap' = [b \in DOMAIN heap \ Contexts(h) |-> heap[b]]
      /\ listening' = listening \ {programs[h].network_context}
  BY DEF program_destroy, cleanup_runtime
<1>2. /\ DOMAIN heap' = DOMAIN heap \ Contexts(h)
      /\ \A b \in DOMAIN heap \ Contexts(h) : heap'[b] = heap[b]
  BY <1>1
<1>3. Alive' = Alive \ {h} /\ \A g \in Alive \ {h} : programs'[g] = programs[g]
  BY <1>1 DEF Alive, IInv, TypeOK
<1>4. \A g \in Alive \ {h} : Contexts(g)' = Contexts(g)
  BY <1>3 DEF Contexts
<1>5. \A g, k \in Alive : g # k => Contexts(g) \cap Contexts(k) = {}
  BY DEF IInv, ContextsHaveOneOwner
<1>6. TypeOK'
  BY <1>1, <1>2 DEF IInv, TypeOK
<1>7. DOMAIN heap' = UNION {Contexts(g)' : g \in Alive'}
  <2>1. DOMAIN heap = UNION {Contexts(g) : g \in Alive}
    BY DEF IInv, ContextsHaveOneOwner
  <2> QED BY <1>1, <1>2, <1>3, <1>4, <1>5, <2>1
<1>8. \A g, k \in Alive' : g # k => Contexts(g)' \cap Contexts(k)' = {}
  BY <1>3, <1>4, <1>5
<1>9. ASSUME NEW g \in Alive'
      PROVE  /\ programs'[g].network_context # NULL =>
                  heap'[programs'[g].network_context].kind = "network"
             /\ programs'[g].state_context # NULL =>
                  heap'[programs'[g].state_context].kind = "state"
             /\ programs'[g].cli_context # NULL =>
                  heap'[programs'[g].cli_context].kind = "cli"
  <2>1. g \in Alive /\ g # h /\ programs'[g] = programs[g]
    BY <1>3
  <2>2. \A b \in Contexts(g) : heap'[b] = heap[b]
    BY <1>1, <1>2, <1>5, <2>1, ContextsKnown
  <2>3. /\ programs[g].network_context # NULL => heap[programs[g].network_context].kind = "network"
        /\ programs[g].state_context # NULL => heap[programs[g].state_context].kind = "state"
        /\ programs[g].cli_context # NULL => heap[programs[g].cli_context].kind = "cli"
    BY <2>1 DEF IInv, ContextsHaveOneOwner
  <2> QED BY <2>1, <2>2, <2>3 DEF Contexts
<1>10. ASSUME NEW b \in listening' PROVE b \in DOMAIN heap' /\ heap'[b].kind = "network"
  <2>1. b \in DOMAIN heap /\ heap[b].kind = "network" /\ b # programs[h].network_context
    BY <1>1 DEF IInv, ContextsHaveOneOwner
  <2>2. b \notin Contexts(h)
    BY <1>1, <2>1 DEF IInv, ContextsHaveOneOwner, Contexts
  <2> QED BY <1>2, <2>1, <2>2
<1> QED BY <1>6, <1>7, <1>8, <1>9, <1>10 DEF IInv, ContextsHaveOneOwner

-----------------------------------------------------------------------------
(* The invariant *)

LEMMA Invariance == Spec => []IInv
<1>1. Init => IInv
  <2> SUFFICES ASSUME Init PROVE IInv
    OBVIOUS
  <2>1. Alive = {} /\ DOMAIN heap = {}
    BY DEF Init, Alive
  <2>2. TypeOK
    BY <2>1, ProgramAssumption DEF Init, TypeOK
  <2>3. ContextsHaveOneOwner
    BY <2>1 DEF Init, ContextsHaveOneOwner
  <2> QED BY <2>2, <2>3 DEF IInv
<1>2. IInv /\ [Next]_vars => IInv'
  <2> SUFFICES ASSUME IInv, [Next]_vars PROVE IInv'
    OBVIOUS
  <2>1. CASE UNCHANGED vars
    <3>1. UNCHANGED <<registry, programs, heap, listening, saved>>
      BY <2>1 DEF vars
    <3>2. Alive' = Alive /\ \A h : Contexts(h)' = Contexts(h)
      BY <3>1 DEF Alive, Contexts
    <3> QED BY <3>1, <3>2 DEF IInv, TypeOK, ContextsHaveOneOwner
  <2>2. CASE Next
    BY <2>2, RegisterStep, CreateStep, ServerStep, DestroyStep DEF Next
  <2> QED BY <2>1, <2>2
<1> QED BY <1>1, <1>2, PTL DEF Spec

(* The table of interfaces is not overrun, and every structure, context and    *)
(* file name is what it should be.                                             *)
THEOREM TypeCorrect == Spec => []TypeOK
<1>1. IInv => TypeOK
  BY DEF IInv
<1> QED BY <1>1, Invariance, PTL

(* Whatever step of whatever creation failed, the contexts that exist are those *)
(* of the programs that exist, each of one: no leak, no dangling field, no      *)
(* context freed twice, no server outside a program.                            *)
THEOREM ContextsAlwaysOwned == Spec => []ContextsHaveOneOwner
<1>1. IInv => ContextsHaveOneOwner
  BY DEF IInv
<1> QED BY <1>1, Invariance, PTL

=============================================================================
