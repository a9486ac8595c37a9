------------------------------ MODULE StateCache ------------------------------
(***************************************************************************)
(* The state cache of src/interface/state.c: an array of entries, the      *)
(* handlers told of its changes, and the file it is saved to.  Everything  *)
(* under ctx->lock is one action.  Outside the lock are the check of       *)
(* handler_count before a registration (CheckRoom) and the walks along     *)
(* the handlers after a change, which read handler_count at each turn      *)
(* (PassOver, CallHandler, EndWalk) while other threads change entries and *)
(* handlers.  A handler may return or not: phantom_save_state changes      *)
(* entries under the tree's lock, which its handler asks for again.        *)
(***************************************************************************)
EXTENDS Naturals, Sequences, FiniteSets, SequencesExt

CONSTANTS
  Thread,        \* threads that use the cache
  Registrar,     \* those of them that register handlers
  Type,          \* values of StateType
  Key,           \* what an entry is found by: a type and an id
  TypeOf,        \* the type in a key
  Value,         \* data and data_size of an entry
  Weightless,    \* entries whose bytes leave a checksum of 0 at 0
  NoType,        \* a thread between no check and registration
  NoEntry,       \* the answer of get_entry when there is none
  MAX_HANDLERS

Entry == [key : Key, value : Value]

ASSUME StateCacheAssumption ==
  /\ Registrar \subseteq Thread
  /\ TypeOf \in [Key -> Type]
  /\ Weightless \subseteq Entry
  /\ NoType \notin Type
  /\ NoEntry \notin Value
  /\ MAX_HANDLERS \in Nat

VARIABLES
  cache,      \* ctx->cache[0 .. cache_size / sizeof(StateEntry) - 1]
  handlers,   \* the types of ctx->handlers[0 .. handler_count - 1]
  asking,     \* per thread: the type it has found room for and not registered
  walk,       \* per thread: the keys it tells handlers of, the handler it
              \* comes to next, whether it is inside the one before
  file,       \* the file: the entries and the checksum in its header
  news        \* history: keys changed since their handler last looked

vars == <<cache, handlers, asking, walk, file, news>>

NoWalk == [about |-> {}, at |-> 0, inside |-> FALSE]
Idle(t) == walk[t] = NoWalk /\ asking[t] = NoType

-----------------------------------------------------------------------------
(* The array of entries *)

Has(s, k) == \E i \in DOMAIN s : s[i].key = k

IsFirst(s, k, i) ==
  i \in DOMAIN s /\ s[i].key = k /\ \A j \in 1..(i - 1) : s[j].key # k

get_entry(s, k) ==
  IF Has(s, k) THEN s[CHOOSE i \in DOMAIN s : IsFirst(s, k, i)].value ELSE NoEntry

(* Mutant of Without: the entries behind the one deleted are lost. *)
Without_cut(s, i) == SubSeq(s, 1, i - 1)

(* The entries once the memmove has closed the gap at i. *)
Without(s, i) == RemoveAt(s, i)

(* The fold over the bytes: 0 goes to 0 under weightless bytes only.  Sums that *)
(* come round to 0 are left out.                                              *)
calculate_checksum(s) == IF Range(s) \subseteq Weightless THEN 0 ELSE 1

(* The checksum save_state computes: the file is opened "wb" and cannot be read. *)
ReadBack(s) == calculate_checksum(<<>>)

-----------------------------------------------------------------------------
(* Notification *)

(* The keys among S that have a handler. *)
Heard(S) == {k \in S : TypeOf[k] \in Range(handlers)}

(* A change of the keys S was made and the lock is given back: t begins to walk. *)
Announce(t, S) ==
  /\ walk' = [walk EXCEPT ![t] = [about |-> S, at |-> 1, inside |-> FALSE]]
  /\ news' = news \cup Heard(S)

(* Thread t is about to read the next handler, *)
AtHandler(t) == walk[t] # NoWalk /\ ~walk[t].inside /\ walk[t].at <= Len(handlers)

(* which is for what it tells of: a change is told to the handler of its type, *)
(* a load, which names no entry, to all.                                       *)
Concerned(t) ==
  \/ walk[t].about = {}
  \/ \E k \in walk[t].about : TypeOf[k] = handlers[walk[t].at]

(* Mutant of PassOver: the walk stays at a handler that is not called. *)
PassOver_stuck(t) ==
  /\ AtHandler(t) /\ ~Concerned(t)
  /\ UNCHANGED vars

PassOver(t) ==
  /\ AtHandler(t) /\ ~Concerned(t)
  /\ walk' = [walk EXCEPT ![t].at = @ + 1]
  /\ UNCHANGED <<cache, handlers, asking, file, news>>

(* The handler looks first (as handle_state_change does) at the entry as it is *)
(* by then; after a load it gets NULL for an id, for which get_entry finds     *)
(* nothing.                                                                    *)
CallHandler(t) ==
  /\ AtHandler(t) /\ Concerned(t)
  /\ news' = news \ {k \in walk[t].about : TypeOf[k] = handlers[walk[t].at]}
  /\ walk' = [walk EXCEPT ![t].at = @ + 1, ![t].inside = TRUE]
  /\ UNCHANGED <<cache, handlers, asking, file>>

HandlerReturns(t) ==
  /\ walk[t].inside
  /\ walk' = [walk EXCEPT ![t].inside = FALSE]
  /\ UNCHANGED <<cache, handlers, asking, file, news>>

EndWalk(t) ==
  /\ walk[t] # NoWalk /\ ~walk[t].inside
  /\ walk[t].at > Len(handlers)
  /\ walk' = [walk EXCEPT ![t] = NoWalk]
  /\ UNCHANGED <<cache, handlers, asking, file, news>>

-----------------------------------------------------------------------------
(* The operations *)

(* Mutant of Overwrite: only new entries are announced. *)
Overwrite_silent(t, k, v) ==
  /\ Idle(t)
  /\ \E i \in DOMAIN cache :
        IsFirst(cache, k, i) /\ cache' = [cache EXCEPT ![i] = [key |-> k, value |-> v]]
  /\ news' = news \cup Heard({k})
  /\ UNCHANGED <<handlers, asking, file, walk>>

(* set_entry, the key being there, *)
Overwrite(t, k, v) ==
  /\ Idle(t)
  /\ \E i \in DOMAIN cache :
        IsFirst(cache, k, i) /\ cache' = [cache EXCEPT ![i] = [key |-> k, value |-> v]]
  /\ Announce(t, {k})
  /\ UNCHANGED <<handlers, asking, file>>

(* and being new; when realloc fails nothing happens. *)
AddEntry(t, k, v) ==
  /\ Idle(t)
  /\ ~Has(cache, k)
  /\ cache' = Append(cache, [key |-> k, value |-> v])
  /\ Announce(t, {k})
  /\ UNCHANGED <<handlers, asking, file>>

delete_entry(t, k) ==
  /\ Idle(t)
  /\ \E i \in DOMAIN cache : IsFirst(cache, k, i) /\ cache' = Without(cache, i)
  /\ Announce(t, {k})
  /\ UNCHANGED <<handlers, asking, file>>

(* save_state empties the file and writes the array; when a write fails, or the *)
(* process ends meanwhile, only the first n entries are in it.                  *)
save_state(t) ==
  /\ Idle(t)
  /\ \E n \in 0..Len(cache) :
        file' = [data |-> SubSeq(cache, 1, n), sum |-> ReadBack(cache)]
  /\ UNCHANGED <<cache, handlers, asking, walk, news>>

(* load_state, when it succeeds: an empty file, or another checksum, changes   *)
(* nothing.  No handler can learn which entries have changed.                  *)
load_state(t) ==
  /\ Idle(t)
  /\ file.data # <<>>
  /\ calculate_checksum(file.data) = file.sum
  /\ cache' = file.data
  /\ Announce(t, {})
  /\ UNCHANGED <<handlers, asking, file>>

(* Mutant of CheckRoom: the array is taken to have one entry more. *)
CheckRoom_onemore(t, y) ==
  /\ Idle(t)
  /\ Len(handlers) <= MAX_HANDLERS
  /\ asking' = [asking EXCEPT ![t] = y]
  /\ UNCHANGED <<cache, handlers, walk, file, news>>

(* register_handler: the check before the lock, *)
CheckRoom(t, y) ==
  /\ Idle(t)
  /\ Len(handlers) < MAX_HANDLERS
  /\ asking' = [asking EXCEPT ![t] = y]
  /\ UNCHANGED <<cache, handlers, walk, file, news>>

(* and what is done under it.  A type that is there gets another function,     *)
(* which makes no difference here: whichever is called looks.                  *)
register_handler(t) ==
  /\ asking[t] # NoType
  /\ handlers' = IF asking[t] \in Range(handlers) THEN handlers
                 ELSE Append(handlers, asking[t])
  /\ asking' = [asking EXCEPT ![t] = NoType]
  /\ UNCHANGED <<cache, walk, file, news>>

(* The process ends, by state_cleanup or at any point without it, and a new    *)
(* one calls state_init.                                                       *)
Restart ==
  /\ cache' = <<>> /\ handlers' = <<>> /\ news' = {}
  /\ asking' = [t \in Thread |-> NoType]
  /\ walk' = [t \in Thread |-> NoWalk]
  /\ UNCHANGED file

Init ==
  /\ cache = <<>> /\ handlers = <<>> /\ news = {}
  /\ asking = [t \in Thread |-> NoType]
  /\ walk = [t \in Thread |-> NoWalk]
  /\ file = [data |-> <<>>, sum |-> 0]

Change(t) ==
  \/ \E k \in Key, v \in Value : Overwrite(t, k, v) \/ AddEntry(t, k, v)
  \/ \E k \in Key : delete_entry(t, k)
  \/ load_state(t)

Next ==
  \/ Restart
  \/ \E t \in Thread : Change(t) \/ save_state(t)
                       \/ PassOver(t) \/ CallHandler(t) \/ HandlerReturns(t) \/ EndWalk(t)
  \/ \E t \in Registrar : register_handler(t) \/ \E y \in Type : CheckRoom(t, y)

Spec == Init /\ [][Next]_vars

(* A thread that walks along the handlers is scheduled, and holds no lock and  *)
(* waits for none on its way; a handler that it calls need never return.       *)
FairSpec == Spec /\ \A t \in Thread : WF_vars(PassOver(t) \/ CallHandler(t) \/ EndWalk(t))

-----------------------------------------------------------------------------
(* Handlers are registered one a type, and the array of them is not overrun    *)
(* as long as one thread does it: the check is made without the lock.          *)
HandlersFit == Len(handlers) <= MAX_HANDLERS

TypeOK ==
  /\ cache \in Seq(Entry)
  /\ handlers \in Seq(Type) /\ HandlersFit
  /\ asking \in [Thread -> Type \cup {NoType}]
  /\ walk \in [Thread -> [about : SUBSET Key, at : Nat, inside : BOOLEAN]]
  /\ file \in [data : Seq(Entry), sum : Nat]
  /\ news \subseteq Key

(* A key has one entry at most, in the cache and in what is saved of it: the   *)
(* second one would come to light when the first is deleted.                   *)
KeysDistinct(s) == \A i, j \in DOMAIN s : s[i].key = s[j].key => i = j

EntriesUnique == KeysDistinct(cache) /\ KeysDistinct(file.data)

(* An entry set or deleted whose type has a handler is on its way to it as     *)
(* long as it was not looked at: some thread has the handler before it on a    *)
(* walk about the key.  Walks run unlocked beside changes, deletions, loads    *)
(* and registrations; of what a load changes no handler is told.               *)
NoNewsLost ==
  \A k \in news : \E t \in Thread :
    /\ k \in walk[t].about
    /\ \E i \in DOMAIN handlers : walk[t].at <= i /\ handlers[i] = TypeOf[k]

(* Whatever is set or deleted and has a handler is looked at some time, in the *)
(* state of the last change or a later one, though handlers never return and   *)
(* others are registered meanwhile.                                            *)
NewsArrives == \A k \in Key : k \in news ~> k \notin news

(* The array with its searches and its memmove is a map, and the keys a thread *)
(* changes are those it goes on to tell the handlers of.                       *)
MapOf(s) == [k \in Key |-> get_entry(s, k)]

Abstract == INSTANCE CacheMap WITH
  map <- MapOf(cache), saved <- MapOf(file.data),
  about <- [t \in Thread |-> walk[t].about]

ImplementsMap == Abstract!MSpec

-----------------------------------------------------------------------------
(* What the header of a file is to hold (state.h:32, state.c:99): the checksum *)
(* of its data, without which load_state refuses it.                           *)
SavesCanBeLoaded == calculate_checksum(file.data) = file.sum

=============================================================================
