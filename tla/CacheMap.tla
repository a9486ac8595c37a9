------------------------------- MODULE CacheMap -------------------------------
(***************************************************************************)
(* What the cache of src/interface/state.c promises: a map from keys to    *)
(* values that a thread changes a key at a time and then tells of that key *)
(* and no other, that a save keeps (or a part of it, when the save does    *)
(* not come to its end), that a load brings back whole, telling of no key, *)
(* and that is empty when the process starts.                              *)
(***************************************************************************)
CONSTANTS Thread, Key, Value, NoEntry

VARIABLES
  map,     \* the value of each key, NoEntry if it has none
  saved,   \* the map that was saved last
  about    \* the keys each thread has changed and is telling of

mvars == <<map, saved, about>>

Nothing == [k \in Key |-> NoEntry]
Silence == [t \in Thread |-> {}]

MInit == map = Nothing /\ saved = Nothing /\ about = Silence

Change(t, k, v) ==
  /\ about[t] = {}
  /\ map' = [map EXCEPT ![k] = v]
  /\ about' = [about EXCEPT ![t] = {k}]
  /\ UNCHANGED saved

Load(t) ==
  /\ about[t] = {}
  /\ map' = saved
  /\ UNCHANGED <<saved, about>>

FallSilent(t) ==
  /\ about' = [about EXCEPT ![t] = {}]
  /\ UNCHANGED <<map, saved>>

Save(kept) ==
  /\ saved' = [k \in Key |-> IF k \in kept THEN map[k] ELSE NoEntry]
  /\ UNCHANGED <<map, about>>

Forget == map' = Nothing /\ about' = Silence /\ UNCHANGED saved

MNext ==
  \/ \E t \in Thread, k \in Key, v \in Value \cup {NoEntry} : Change(t, k, v)
  \/ \E t \in Thread : Load(t) \/ FallSilent(t)
  \/ \E kept \in SUBSET Key : Save(kept)
  \/ Forget

MSpec == MInit /\ [][MNext]_mvars

=============================================================================
