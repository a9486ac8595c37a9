-------------------------------- MODULE Program --------------------------------
(***************************************************************************)
(* Programs of src/interface/program.c: the table of interfaces, and the   *)
(* creation, start, stop and destruction of programs with the contexts     *)
(* their interfaces require.  Nothing here takes a lock: one thread makes  *)
(* the calls, and each is one action with every way in which it can fail.  *)
(* program.c includes no header of the runtime; the calls are taken as     *)
(* those of its prototypes, cli_create with the two arguments it is given. *)
(***************************************************************************)
EXTENDS Integers, Sequences, FiniteSets

CONSTANTS
  Name,          \* names of interfaces
  Handle,        \* addresses of Program structures
  Block,         \* addresses of contexts
  NULL,
  Garbage,       \* what a register happens to hold
  MAX_PROGRAMS   \* interfaces that can be registered

Kind == {"network", "state", "cli"}

Interface == [name : Name, needs : SUBSET Kind]

(* A Program with its ProgramRuntime. *)
Structure ==
  [interface : Interface, network_context : Block \cup {NULL},
   state_context : Block \cup {NULL}, cli_context : Block \cup {NULL}, is_running : BOOLEAN]

ASSUME ProgramAssumption ==
  /\ NULL \notin Handle \cup Block \cup Structure
  /\ Garbage \notin Block
  /\ MAX_PROGRAMS \in Nat

VARIABLES
  registry,    \* the registered interfaces, in order
  programs,    \* the structure at each handle, NULL where there is none
  heap,        \* the contexts that exist: kind and, of a CLI, what it was given
  listening,   \* the network contexts that are started
  saved        \* the names whose state file was written

vars == <<registry, programs, heap, listening, saved>>

Init ==
  /\ registry = <<>>
  /\ programs = [h \in Handle |-> NULL]
  /\ heap = [b \in {} |-> NULL]
  /\ listening = {}
  /\ saved = {}

Registered == {registry[i] : i \in DOMAIN registry}

Alive == {h \in Handle : programs[h] # NULL}

(* Mutant of program_register: one interface too many. *)
program_register_overfull(interface) ==
  /\ Len(registry) <= MAX_PROGRAMS
  /\ \A other \in Registered : other.name # interface.name
  /\ registry' = Append(registry, interface)
  /\ UNCHANGED <<programs, heap, listening, saved>>

program_register(interface) ==
  /\ Len(registry) < MAX_PROGRAMS
  /\ \A other \in Registered : other.name # interface.name
  /\ registry' = Append(registry, interface)
  /\ UNCHANGED <<programs, heap, listening, saved>>

(* The interface the search by name stops at. *)
find_interface(name) ==
  registry[CHOOSE i \in DOMAIN registry :
             /\ registry[i].name = name
             /\ \A j \in 1..(i - 1) : registry[j].name # name]

-----------------------------------------------------------------------------
(* The contexts init_runtime creates before the step that fails, in the order  *)
(* network, state, command line; the init hook comes after them.               *)
CreatedBefore(needs, failed) ==
  needs \cap (CASE failed = "network" -> {}
                [] failed = "state" -> {"network"}
                [] failed = "cli" -> {"network", "state"}
                [] OTHER -> Kind)

(* Mutant: the network is forgotten when the state cannot be created. *)
DestroyedAfter_keepnetwork(needs, failed) ==
  needs \cap (CASE failed = "cli" -> {"network", "state"}
                [] failed = "init" -> Kind
                [] OTHER -> {})

(* The contexts destroyed when a step fails: by the error paths of             *)
(* init_runtime, and by cleanup_runtime when the init hook fails.              *)
DestroyedAfter(needs, failed) ==
  needs \cap (CASE failed = "state" -> {"network"}
                [] failed = "cli" -> {"network", "state"}
                [] failed = "init" -> Kind
                [] OTHER -> {})

Field(at, kind) == IF kind \in DOMAIN at THEN at[kind] ELSE NULL

(* What is at the block of a context.  cli_create(tree, network, state) is     *)
(* called with network_context and state_context: the third argument is what   *)
(* the register holds.                                                         *)
Context(at, kind, junk) ==
  IF kind = "cli"
  THEN [kind |-> kind, tree |-> Field(at, "network"), network |-> Field(at, "state"), state |-> junk]
  ELSE [kind |-> kind]

(* The structure after init_runtime; calloc left NULL in what is not needed. *)
NewProgram(interface, at) ==
  [interface |-> interface,
   network_context |-> Field(at, "network"),
   state_context |-> Field(at, "state"),
   cli_context |-> Field(at, "cli"),
   is_running |-> TRUE]

(* program_create of a registered name: every step that the interface requires *)
(* may fail, and so may its init hook.                                         *)
program_create(h, name) ==
  /\ programs[h] = NULL
  /\ \E i \in Registered : i.name = name
  /\ LET interface == find_interface(name)
         needs == interface.needs
     IN \E failed \in needs \cup {"init", "none"} :
          LET created == CreatedBefore(needs, failed)
              left == created \ DestroyedAfter(needs, failed)
          IN \E at \in [created -> Block \ DOMAIN heap], junk \in {NULL, Garbage} :
               /\ \A k, l \in created : at[k] = at[l] => k = l
               /\ LET kept == {at[k] : k \in left}
                      kindAt(b) == CHOOSE k \in left : at[k] = b
                  IN heap' = [b \in DOMAIN heap \cup kept |->
                                IF b \in kept THEN Context(at, kindAt(b), junk) ELSE heap[b]]
               /\ programs' = IF failed = "none"
                              THEN [programs EXCEPT ![h] = NewProgram(interface, at)]
                              ELSE programs
  /\ UNCHANGED <<registry, listening, saved>>

-----------------------------------------------------------------------------
(* The runtime's contexts of a program. *)
Contexts(h) ==
  {programs[h].network_context, programs[h].state_context, programs[h].cli_context} \ {NULL}

(* state_save and state_load do nothing without a tree. *)
state_save(context, tree, name) ==
  saved' = IF context # NULL /\ tree # NULL THEN saved \cup {name} ELSE saved

(* When network_start fails nothing else happens, and the state is loaded into *)
(* no tree, which changes nothing.  A server started twice is Network's case.  *)
program_start(h) ==
  /\ h \in Alive
  /\ programs[h].network_context # NULL
  /\ listening' = listening \cup {programs[h].network_context}
  /\ UNCHANGED <<registry, programs, heap, saved>>

program_stop(h) ==
  /\ h \in Alive
  /\ programs' = [programs EXCEPT ![h].is_running = FALSE]
  /\ state_save(programs[h].state_context, NULL, programs[h].interface.name)
  /\ listening' = listening \ {programs[h].network_context}
  /\ UNCHANGED <<registry, heap>>

(* The destruction of a network context stops it. *)
cleanup_runtime(h) ==
  /\ heap' = [b \in DOMAIN heap \ Contexts(h) |-> heap[b]]
  /\ listening' = listening \ {programs[h].network_context}

(* The interface's cleanup hook comes first; it is the program's own. *)
program_destroy(h) ==
  /\ h \in Alive
  /\ cleanup_runtime(h)
  /\ programs' = [programs EXCEPT ![h] = NULL]
  /\ UNCHANGED <<registry, saved>>

Next ==
  \/ \E interface \in Interface : program_register(interface)
  \/ \E h \in Handle, name \in Name : program_create(h, name)
  \/ \E h \in Handle : program_start(h) \/ program_stop(h) \/ program_destroy(h)

Spec == Init /\ [][Next]_vars

-----------------------------------------------------------------------------
(* Registered interfaces, structures and contexts have the shapes they should. *)
TypeOK ==
  /\ registry \in Seq(Interface)
  /\ Len(registry) <= MAX_PROGRAMS
  /\ programs \in [Handle -> Structure \cup {NULL}]
  /\ DOMAIN heap \subseteq Block
  /\ \A b \in DOMAIN heap : heap[b].kind \in Kind
  /\ saved \subseteq Name

(* Whatever step of whatever creation failed, the contexts that exist are the  *)
(* contexts of the programs that exist, each of one program, in the field of   *)
(* its kind, and a server runs only in one of them: nothing leaks, nothing is  *)
(* left dangling, nothing is freed twice.                                      *)
ContextsHaveOneOwner ==
  /\ DOMAIN heap = UNION {Contexts(h) : h \in Alive}
  /\ \A h, k \in Alive : h # k => Contexts(h) \cap Contexts(k) = {}
  /\ \A h \in Alive :
       /\ programs[h].network_context # NULL => heap[programs[h].network_context].kind = "network"
       /\ programs[h].state_context # NULL => heap[programs[h].state_context].kind = "state"
       /\ programs[h].cli_context # NULL => heap[programs[h].cli_context].kind = "cli"
  /\ \A b \in listening : b \in DOMAIN heap /\ heap[b].kind = "network"

(* program_stop saves the state, if the program has one, as its comment says.  *)
SavedOnStop ==
  \A h \in Alive :
    ~programs[h].is_running /\ programs[h].state_context # NULL =>
      programs[h].interface.name \in saved

(* A command line works on the contexts of its program: what cli.h calls the   *)
(* network and the state of its context are what the program calls so.         *)
CliHoldsContexts ==
  \A h \in Alive :
    programs[h].cli_context # NULL =>
      /\ heap[programs[h].cli_context].network = programs[h].network_context
      /\ heap[programs[h].cli_context].state = programs[h].state_context

=============================================================================
