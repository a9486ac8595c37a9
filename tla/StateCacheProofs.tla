--------------------------- MODULE StateCacheProofs ---------------------------
(***************************************************************************)
(* Proofs about StateCache, for every set of keys, threads and handlers.   *)
(***************************************************************************)
EXTENDS StateCache, TLAPS, SequenceTheorems

WalkType == [Thread -> [about : SUBSET Key, at : Nat, inside : BOOLEAN]]

(* The types of the variables, the bound of the array of handlers left out. *)
BasicType ==
  /\ cache \in Seq(Entry)
  /\ handlers \in Seq(Type)
  /\ asking \in [Thread -> Type \cup {NoType}]
  /\ walk \in WalkType
  /\ file \in [data : Seq(Entry), sum : Nat]
  /\ news \subseteq Key

(* Who has found room finds it still there, for no one else fills it. *)
RoomKept ==
  \A t \in Thread : asking[t] # NoType => t \in Registrar /\ Len(handlers) < MAX_HANDLERS

OneRegistrar == \A t, u \in Registrar : t = u

-----------------------------------------------------------------------------
(* Sequences *)

LEMMA WithoutProperties ==
  ASSUME NEW T, NEW s \in Seq(T), NEW i \in DOMAIN s
  PROVE  /\ Without(s, i) \in Seq(T)
         /\ DOMAIN Without(s, i) = 1..(Len(s) - 1)
         /\ \A j \in 1..(Len(s) - 1) :
               Without(s, i)[j] = IF j < i THEN s[j] ELSE s[j + 1]
<1> DEFINE a == SubSeq(s, 1, i - 1)
           b == SubSeq(s, i + 1, Len(s))
<1>1. Len(s) \in Nat /\ DOMAIN s = 1..Len(s) /\ \A k \in 1..Len(s) : s[k] \in T
  BY LenProperties, ElementOfSeq
<1>2. /\ a \in Seq(T) /\ Len(a) = i - 1
      /\ \A j \in 1..(i - 1) : a[j] = s[j]
  <2>1. /\ 1 \in Int /\ i - 1 \in Int /\ \A k \in 1..(i - 1) : s[k] \in T
        /\ i - 1 - 1 + 1 = i - 1
    BY <1>1
  <2>2. /\ a \in Seq(T) /\ Len(a) = IF 1 <= i - 1 THEN i - 1 - 1 + 1 ELSE 0
        /\ \A j \in 1..(i - 1 - 1 + 1) : a[j] = s[1 + j - 1]
    BY <2>1, SubSeqProperties
  <2> HIDE DEF a
  <2>3. i - 1 = 0 \/ 1 <= i - 1
    BY <1>1
  <2>4. \A j \in 1..(i - 1) : 1 + j - 1 = j
    OBVIOUS
  <2> QED BY <2>1, <2>2, <2>3, <2>4
<1>3. /\ b \in Seq(T) /\ Len(b) = Len(s) - i
      /\ \A j \in 1..(Len(s) - i) : b[j] = s[i + j]
  <2>1. /\ i + 1 \in Int /\ Len(s) \in Int /\ \A k \in (i + 1)..Len(s) : s[k] \in T
        /\ Len(s) - (i + 1) + 1 = Len(s) - i
    BY <1>1
  <2>2. /\ b \in Seq(T) /\ Len(b) = IF i + 1 <= Len(s) THEN Len(s) - (i + 1) + 1 ELSE 0
        /\ \A j \in 1..(Len(s) - (i + 1) + 1) : b[j] = s[i + 1 + j - 1]
    BY <2>1, SubSeqProperties
  <2> HIDE DEF b
  <2>3. Len(s) - i = 0 \/ i + 1 <= Len(s)
    BY <1>1
  <2>4. \A j \in 1..(Len(s) - i) : i + 1 + j - 1 = i + j
    BY <1>1
  <2> QED BY <2>1, <2>2, <2>3, <2>4
<1>4. Without(s, i) = a \o b
  BY DEF Without, RemoveAt
<1> HIDE DEF a, b
<1>5. /\ a \o b \in Seq(T) /\ Len(a \o b) = Len(a) + Len(b)
      /\ \A j \in 1..(Len(a) + Len(b)) : (a \o b)[j] = IF j <= Len(a) THEN a[j] ELSE b[j - Len(a)]
  BY <1>2, <1>3, ConcatProperties
<1>6. Len(a) + Len(b) = Len(s) - 1
  BY <1>1, <1>2, <1>3
<1>7. DOMAIN (a \o b) = 1..(Len(s) - 1)
  BY <1>5, <1>6, LenProperties
<1>8. ASSUME NEW j \in 1..(Len(s) - 1)
      PROVE  (a \o b)[j] = IF j < i THEN s[j] ELSE s[j + 1]
  <2>1. CASE j < i
    <3>1. j \in 1..(i - 1) /\ j <= Len(a)
      BY <1>1, <1>2, <2>1
    <3> QED BY <1>2, <1>5, <1>6, <2>1, <3>1
  <2>2. CASE ~(j < i)
    <3>1. /\ j - (i - 1) \in 1..(Len(s) - i) /\ ~(j <= i - 1)
          /\ i + (j - (i - 1)) = j + 1
      BY <1>1, <2>2
    <3>2. b[j - (i - 1)] = s[j + 1]
      BY <1>3, <3>1
    <3> QED BY <1>2, <1>5, <1>6, <2>2, <3>1, <3>2
  <2> QED BY <2>1, <2>2
<1> QED BY <1>4, <1>5, <1>7, <1>8

(* A shorter sequence keeps keys distinct, and holds what the gap did not. *)
LEMMA WithoutEntry ==
  ASSUME NEW s \in Seq(Entry), KeysDistinct(s), NEW i \in DOMAIN s
  PROVE  /\ Without(s, i) \in Seq(Entry)
         /\ KeysDistinct(Without(s, i))
         /\ Range(Without(s, i)) = Range(s) \ {s[i]}
<1> DEFINE w == Without(s, i)
<1>1. /\ w \in Seq(Entry) /\ DOMAIN w = 1..(Len(s) - 1)
      /\ \A j \in 1..(Len(s) - 1) : w[j] = IF j < i THEN s[j] ELSE s[j + 1]
  BY WithoutProperties
<1>2. DOMAIN s = 1..Len(s) /\ Len(s) \in Nat
  BY LenProperties
<1> HIDE DEF w
<1> DEFINE old(j) == IF j < i THEN j ELSE j + 1
<1>3. \A j \in DOMAIN w : old(j) \in DOMAIN s /\ w[j] = s[old(j)] /\ old(j) # i
  BY <1>1, <1>2
<1>4. \A j, k \in DOMAIN w : old(j) = old(k) => j = k
  BY <1>1, <1>2
<1>5. \A m \in DOMAIN s : m # i => \E j \in DOMAIN w : old(j) = m
  <2> SUFFICES ASSUME NEW m \in DOMAIN s, m # i PROVE \E j \in DOMAIN w : old(j) = m
    OBVIOUS
  <2>1. CASE m < i
    BY <1>1, <1>2, <2>1
  <2>2. CASE ~(m < i)
    <3>1. m - 1 \in DOMAIN w /\ old(m - 1) = m
      BY <1>1, <1>2, <2>2
    <3> QED BY <3>1
  <2> QED BY <2>1, <2>2
<1> HIDE DEF old
<1>6. KeysDistinct(w)
  BY <1>3, <1>4 DEF KeysDistinct
<1>7. \A m \in DOMAIN s : s[m] = s[i] => m = i
  BY DEF KeysDistinct
<1>8. Range(w) \subseteq Range(s) \ {s[i]}
  BY <1>3, <1>7 DEF Range
<1>9. Range(s) \ {s[i]} \subseteq Range(w)
  BY <1>3, <1>5 DEF Range
<1> QED BY <1>1, <1>6, <1>8, <1>9 DEF w

LEMMA OverwriteEntry ==
  ASSUME NEW s \in Seq(Entry), KeysDistinct(s), NEW i \in DOMAIN s, NEW v \in Value
  PROVE  LET w == [s EXCEPT ![i] = [key |-> s[i].key, value |-> v]]
         IN  /\ w \in Seq(Entry)
             /\ KeysDistinct(w)
             /\ Range(w) = (Range(s) \ {s[i]}) \cup {[key |-> s[i].key, value |-> v]}
<1> DEFINE e == [key |-> s[i].key, value |-> v]
           w == [s EXCEPT ![i] = e]
<1>1. s[i] \in Entry /\ DOMAIN s = 1..Len(s)
  BY ElementOfSeq, LenProperties
<1>2. e \in Entry /\ e.key = s[i].key
  BY <1>1 DEF Entry
<1> HIDE DEF e
<1>3. /\ w \in Seq(Entry) /\ DOMAIN w = DOMAIN s
      /\ \A j \in DOMAIN s : w[j] = IF j = i THEN e ELSE s[j]
  BY <1>1, <1>2, ExceptSeq, LenProperties
<1> HIDE DEF w
<1>4. KeysDistinct(w)
  BY <1>2, <1>3 DEF KeysDistinct
<1>5. \A m \in DOMAIN s : s[m] = s[i] => m = i
  BY DEF KeysDistinct
<1>6. Range(w) = (Range(s) \ {s[i]}) \cup {e}
  BY <1>3, <1>5 DEF Range
<1> QED BY <1>3, <1>4, <1>6 DEF w, e

LEMMA AppendEntry ==
  ASSUME NEW s \in Seq(Entry), KeysDistinct(s), NEW e \in Entry, ~Has(s, e.key)
  PROVE  /\ Append(s, e) \in Seq(Entry)
         /\ KeysDistinct(Append(s, e))
         /\ Range(Append(s, e)) = Range(s) \cup {e}
<1>1. /\ Append(s, e) \in Seq(Entry)
      /\ DOMAIN s = 1..Len(s) /\ Len(s) \in Nat
      /\ DOMAIN Append(s, e) = 1..(Len(s) + 1)
      /\ \A j \in 1..Len(s) : Append(s, e)[j] = s[j]
      /\ Append(s, e)[Len(s) + 1] = e
  BY AppendProperties, LenProperties
<1>2. \A j \in DOMAIN Append(s, e) : j \in DOMAIN s \/ j = Len(s) + 1
  BY <1>1
<1>3. KeysDistinct(Append(s, e))
  BY <1>1, <1>2 DEF KeysDistinct, Has
<1>4. DOMAIN s \subseteq DOMAIN Append(s, e) /\ Len(s) + 1 \in DOMAIN Append(s, e)
  BY <1>1
<1>5. Range(Append(s, e)) = Range(s) \cup {e}
  BY <1>1, <1>2, <1>4 DEF Range
<1> QED BY <1>1, <1>3, <1>5

LEMMA PrefixEntries ==
  ASSUME NEW s \in Seq(Entry), KeysDistinct(s), NEW n \in 0..Len(s)
  PROVE  /\ SubSeq(s, 1, n) \in Seq(Entry)
         /\ KeysDistinct(SubSeq(s, 1, n))
         /\ Range(SubSeq(s, 1, n)) \subseteq Range(s)
<1> DEFINE a == SubSeq(s, 1, n)
<1>1. Len(s) \in Nat /\ DOMAIN s = 1..Len(s) /\ \A k \in 1..Len(s) : s[k] \in Entry
  BY LenProperties, ElementOfSeq
<1>2. 1 \in Int /\ n \in Int /\ (\A k \in 1..n : s[k] \in Entry) /\ n - 1 + 1 = n
  BY <1>1
<1>3. /\ a \in Seq(Entry) /\ Len(a) = IF 1 <= n THEN n - 1 + 1 ELSE 0
      /\ \A j \in 1..(n - 1 + 1) : a[j] = s[1 + j - 1]
  BY <1>2, SubSeqProperties
<1> HIDE DEF a
<1>4. Len(a) = n
  BY <1>1, <1>3
<1>5. DOMAIN a = 1..n /\ \A j \in 1..n : 1 + j - 1 = j /\ j \in DOMAIN s
  BY <1>1, <1>3, <1>4, LenProperties
<1>6. \A j \in DOMAIN a : j \in DOMAIN s /\ a[j] = s[j]
  BY <1>2, <1>3, <1>5
<1> QED BY <1>3, <1>6 DEF KeysDistinct, Range, a

-----------------------------------------------------------------------------
(* The entry found for a key is the one there is. *)
LEMMA GetIsValue ==
  ASSUME NEW s \in Seq(Entry), KeysDistinct(s), NEW e \in Range(s)
  PROVE  get_entry(s, e.key) = e.value
<1>1. PICK i \in DOMAIN s : s[i] = e
  BY DEF Range
<1>2. Has(s, e.key)
  BY <1>1 DEF Has
<1>3. \A j \in DOMAIN s : IsFirst(s, e.key, j) => j = i
  BY <1>1 DEF IsFirst, KeysDistinct
<1>4. \A j \in 1..(i - 1) : j \in DOMAIN s /\ j # i
  BY LenProperties
<1>5. IsFirst(s, e.key, i)
  BY <1>1, <1>4 DEF IsFirst, KeysDistinct
<1> QED BY <1>1, <1>2, <1>3, <1>5 DEF get_entry

LEMMA GetIsNone ==
  ASSUME NEW s, NEW k, \A e \in Range(s) : e.key # k
  PROVE  get_entry(s, k) = NoEntry
BY DEF get_entry, Has, Range

(* What is found for a key depends on the entries with that key only. *)
LEMMA GetSame ==
  ASSUME NEW s \in Seq(Entry), KeysDistinct(s), NEW r \in Seq(Entry), KeysDistinct(r), NEW k,
         \A e : e.key = k => (e \in Range(s) <=> e \in Range(r))
  PROVE  get_entry(s, k) = get_entry(r, k)
<1>1. CASE \E e \in Range(s) : e.key = k
  <2>1. PICK e \in Range(s) : e.key = k
    BY <1>1
  <2>2. e \in Range(r)
    BY <2>1
  <2> QED BY <2>1, <2>2, GetIsValue
<1>2. CASE \A e \in Range(s) : e.key # k
  <2>1. \A e \in Range(r) : e.key # k
    BY <1>2
  <2> QED BY <1>2, <2>1, GetIsNone
<1> QED BY <1>1, <1>2

LEMMA EmptyMap == MapOf(<<>>) = Abstract!Nothing
<1>1. \A k \in Key : get_entry(<<>>, k) = NoEntry
  BY GetIsNone DEF Range
<1> QED BY <1>1 DEF MapOf, Abstract!Nothing

-----------------------------------------------------------------------------
(* Types and bounds *)

LEMMA BasicInit == Init => BasicType /\ RoomKept /\ EntriesUnique /\ NoNewsLost
<1> SUFFICES ASSUME Init PROVE BasicType /\ RoomKept /\ EntriesUnique /\ NoNewsLost
  OBVIOUS
<1>1. <<>> \in Seq(Entry) /\ <<>> \in Seq(Type)
  OBVIOUS
<1>2. BasicType
  BY <1>1 DEF Init, BasicType, NoWalk, WalkType
<1> QED BY <1>2 DEF Init, RoomKept, EntriesUnique, KeysDistinct, NoNewsLost

(* The first i with a key is in the array. *)
LEMMA OverwriteSteps ==
  ASSUME BasicType, EntriesUnique, NEW t \in Thread, NEW k \in Key, NEW v \in Value,
         Overwrite(t, k, v)
  PROVE  /\ cache' \in Seq(Entry) /\ KeysDistinct(cache')
         /\ Range(cache') = {e \in Range(cache) : e.key # k} \cup {[key |-> k, value |-> v]}
<1>1. PICK i \in DOMAIN cache :
        cache[i].key = k /\ cache' = [cache EXCEPT ![i] = [key |-> k, value |-> v]]
  BY DEF Overwrite, IsFirst
<1>2. cache \in Seq(Entry) /\ KeysDistinct(cache)
  BY DEF BasicType, EntriesUnique
<1>3. /\ cache' \in Seq(Entry) /\ KeysDistinct(cache')
      /\ Range(cache') = (Range(cache) \ {cache[i]}) \cup {[key |-> k, value |-> v]}
  BY <1>1, <1>2, OverwriteEntry
<1>4. Range(cache) \ {cache[i]} = {e \in Range(cache) : e.key # k}
  BY <1>1, <1>2 DEF Range, KeysDistinct
<1> QED BY <1>3, <1>4

LEMMA AddSteps ==
  ASSUME BasicType, EntriesUnique, NEW t \in Thread, NEW k \in Key, NEW v \in Value,
         AddEntry(t, k, v)
  PROVE  /\ cache' \in Seq(Entry) /\ KeysDistinct(cache')
         /\ Range(cache') = {e \in Range(cache) : e.key # k} \cup {[key |-> k, value |-> v]}
<1> DEFINE e == [key |-> k, value |-> v]
<1>1. cache \in Seq(Entry) /\ KeysDistinct(cache) /\ e \in Entry /\ e.key = k
  BY DEF BasicType, EntriesUnique, Entry
<1>2. ~Has(cache, k) /\ cache' = Append(cache, e)
  BY DEF AddEntry
<1> HIDE DEF e
<1>3. /\ cache' \in Seq(Entry) /\ KeysDistinct(cache') /\ Range(cache') = Range(cache) \cup {e}
  BY <1>1, <1>2, AppendEntry
<1>4. Range(cache) = {d \in Range(cache) : d.key # k}
  BY <1>2 DEF Has, Range
<1> QED BY <1>3, <1>4 DEF e

LEMMA DeleteSteps ==
  ASSUME BasicType, EntriesUnique, NEW t \in Thread, NEW k \in Key, delete_entry(t, k)
  PROVE  /\ cache' \in Seq(Entry) /\ KeysDistinct(cache')
         /\ Range(cache') = {e \in Range(cache) : e.key # k}
<1>1. PICK i \in DOMAIN cache : cache[i].key = k /\ cache' = Without(cache, i)
  BY DEF delete_entry, IsFirst
<1>2. cache \in Seq(Entry) /\ KeysDistinct(cache)
  BY DEF BasicType, EntriesUnique
<1>3. /\ cache' \in Seq(Entry) /\ KeysDistinct(cache')
      /\ Range(cache') = Range(cache) \ {cache[i]}
  BY <1>1, <1>2, WithoutEntry
<1>4. Range(cache) \ {cache[i]} = {e \in Range(cache) : e.key # k}
  BY <1>1, <1>2 DEF Range, KeysDistinct
<1> QED BY <1>3, <1>4

LEMMA SaveSteps ==
  ASSUME BasicType, EntriesUnique, NEW t \in Thread, save_state(t)
  PROVE  /\ file' \in [data : Seq(Entry), sum : Nat] /\ KeysDistinct(file'.data)
         /\ Range(file'.data) \subseteq Range(cache)
<1>1. PICK n \in 0..Len(cache) :
        file' = [data |-> SubSeq(cache, 1, n), sum |-> ReadBack(cache)]
  BY DEF save_state
<1>2. cache \in Seq(Entry) /\ KeysDistinct(cache)
  BY DEF BasicType, EntriesUnique
<1>3. /\ SubSeq(cache, 1, n) \in Seq(Entry) /\ KeysDistinct(SubSeq(cache, 1, n))
      /\ Range(SubSeq(cache, 1, n)) \subseteq Range(cache)
  BY <1>2, PrefixEntries
<1>4. ReadBack(cache) \in Nat
  BY DEF ReadBack, calculate_checksum
<1> QED BY <1>1, <1>3, <1>4

(* An announcement types well and changes only the walk of its thread. *)
LEMMA AnnounceTypes ==
  ASSUME BasicType, NEW t \in Thread, NEW S \in SUBSET Key, Announce(t, S)
  PROVE  walk' \in WalkType /\ news' \subseteq Key
BY DEF BasicType, Announce, Heard, WalkType

(* A turn of a walk: about the same keys, and of one thread only. *)
LEMMA TurnKeepsType ==
  ASSUME walk \in WalkType, NEW t \in Thread,
         PassOver(t) \/ CallHandler(t) \/ HandlerReturns(t)
  PROVE  /\ walk' \in WalkType
         /\ \A u \in Thread : walk'[u].about = walk[u].about
         /\ \A u \in Thread \ {t} : walk'[u] = walk[u]
<1>0. walk[t].at \in Nat /\ walk[t].at + 1 \in Nat
  BY DEF WalkType
<1> DEFINE n == walk[t].at + 1
           a == [walk EXCEPT ![t].at = n]
<1>1. n \in Nat
  BY <1>0
<1> HIDE DEF n
<1>2. /\ a \in WalkType /\ a[t].at = n /\ a[t].about = walk[t].about
      /\ \A u \in Thread \ {t} : a[u] = walk[u]
  BY <1>1 DEF WalkType
<1>3. CASE PassOver(t)
  <2>1. walk' = a
    BY <1>3 DEF PassOver, n
  <2> HIDE DEF a
  <2> QED BY <1>2, <2>1 DEF n
<1>4. CASE CallHandler(t)
  <2>1. walk' = [a EXCEPT ![t].inside = TRUE]
    BY <1>4 DEF CallHandler, n
  <2> HIDE DEF a
  <2> QED BY <1>2, <2>1 DEF WalkType, n
<1>5. CASE HandlerReturns(t)
  <2>1. walk' = [walk EXCEPT ![t].inside = FALSE]
    BY <1>5 DEF HandlerReturns
  <2> QED BY <1>5, <2>1 DEF WalkType
<1> QED BY <1>3, <1>4, <1>5

IInv == BasicType /\ EntriesUnique /\ NoNewsLost

LEMMA CacheStep ==
  ASSUME IInv, [Next]_vars
  PROVE  BasicType' /\ EntriesUnique'
<1> USE DEF IInv
<1>1. CASE Restart
  BY <1>1 DEF Restart, BasicType, EntriesUnique, KeysDistinct, NoWalk, WalkType
<1>2. ASSUME NEW t \in Thread, NEW k \in Key, NEW v \in Value, Overwrite(t, k, v)
      PROVE  BasicType' /\ EntriesUnique'
  <2>1. cache' \in Seq(Entry) /\ KeysDistinct(cache')
    BY <1>2, OverwriteSteps
  <2>2. walk' \in WalkType /\ news' \subseteq Key
    BY <1>2, AnnounceTypes DEF Overwrite
  <2> QED BY <1>2, <2>1, <2>2 DEF Overwrite, BasicType, EntriesUnique
<1>3. ASSUME NEW t \in Thread, NEW k \in Key, NEW v \in Value, AddEntry(t, k, v)
      PROVE  BasicType' /\ EntriesUnique'
  <2>1. cache' \in Seq(Entry) /\ KeysDistinct(cache')
    BY <1>3, AddSteps
  <2>2. walk' \in WalkType /\ news' \subseteq Key
    BY <1>3, AnnounceTypes DEF AddEntry
  <2> QED BY <1>3, <2>1, <2>2 DEF AddEntry, BasicType, EntriesUnique
<1>4. ASSUME NEW t \in Thread, NEW k \in Key, delete_entry(t, k)
      PROVE  BasicType' /\ EntriesUnique'
  <2>1. cache' \in Seq(Entry) /\ KeysDistinct(cache')
    BY <1>4, DeleteSteps
  <2>2. walk' \in WalkType /\ news' \subseteq Key
    BY <1>4, AnnounceTypes DEF delete_entry
  <2> QED BY <1>4, <2>1, <2>2 DEF delete_entry, BasicType, EntriesUnique
<1>5. ASSUME NEW t \in Thread, load_state(t)
      PROVE  BasicType' /\ EntriesUnique'
  <2>1. walk' \in WalkType /\ news' \subseteq Key
    BY <1>5, AnnounceTypes DEF load_state
  <2> QED BY <1>5, <2>1 DEF load_state, BasicType, EntriesUnique
<1>6. ASSUME NEW t \in Thread, save_state(t)
      PROVE  BasicType' /\ EntriesUnique'
  BY <1>6, SaveSteps DEF save_state, BasicType, EntriesUnique
<1>7. ASSUME NEW t \in Thread, PassOver(t) \/ CallHandler(t) \/ HandlerReturns(t)
      PROVE  BasicType' /\ EntriesUnique'
  <2>1. walk' \in WalkType
    BY <1>7, TurnKeepsType DEF BasicType
  <2>2. UNCHANGED <<cache, handlers, asking, file>> /\ news' \subseteq news
    BY <1>7 DEF PassOver, CallHandler, HandlerReturns
  <2> QED BY <2>1, <2>2 DEF BasicType, EntriesUnique
<1>8. ASSUME NEW t \in Thread, EndWalk(t)
      PROVE  BasicType' /\ EntriesUnique'
  BY <1>8 DEF EndWalk, NoWalk, BasicType, WalkType, EntriesUnique
<1>9. ASSUME NEW t \in Registrar, register_handler(t)
      PROVE  BasicType' /\ EntriesUnique'
  <2>1. t \in Thread /\ asking[t] \in Type
    BY <1>9, StateCacheAssumption DEF register_handler, BasicType
  <2>2. handlers' \in Seq(Type)
    BY <1>9, <2>1, AppendProperties DEF register_handler, BasicType
  <2> QED BY <1>9, <2>2 DEF register_handler, BasicType, EntriesUnique
<1>10. ASSUME NEW t \in Registrar, NEW y \in Type, CheckRoom(t, y)
       PROVE  BasicType' /\ EntriesUnique'
  BY <1>10 DEF CheckRoom, BasicType, EntriesUnique
<1>11. CASE UNCHANGED vars
  BY <1>11 DEF vars, BasicType, EntriesUnique
<1> QED BY <1>1, <1>2, <1>3, <1>4, <1>5, <1>6, <1>7, <1>8, <1>9, <1>10, <1>11 DEF Next, Change

-----------------------------------------------------------------------------
(* News *)

(* The thread that has the handler of k before it. *)
OnItsWay(k, t) ==
  /\ k \in walk[t].about
  /\ \E i \in DOMAIN handlers : walk[t].at <= i /\ handlers[i] = TypeOf[k]

(* A thread without a walk is not what old news rests on, and new news rests on *)
(* the thread that announces it.                                                *)
LEMMA AnnounceKeepsNews ==
  ASSUME IInv, NEW t \in Thread, Idle(t), NEW S \in SUBSET Key, Announce(t, S),
         UNCHANGED handlers
  PROVE  NoNewsLost'
<1>1. walk' = [walk EXCEPT ![t] = [about |-> S, at |-> 1, inside |-> FALSE]] /\ walk \in WalkType
  BY DEF Announce, IInv, BasicType
<1>2. ASSUME NEW k \in news PROVE \E u \in Thread : OnItsWay(k, u)'
  <2>1. PICK u \in Thread : OnItsWay(k, u)
    BY DEF IInv, NoNewsLost, OnItsWay
  <2>2. u # t
    BY <2>1 DEF OnItsWay, Idle, NoWalk
  <2>3. walk'[u] = walk[u]
    BY <1>1, <2>2
  <2> QED BY <2>1, <2>3 DEF OnItsWay
<1>3. ASSUME NEW k \in Heard(S) PROVE OnItsWay(k, t)'
  <2>1. walk'[t].about = S /\ walk'[t].at = 1
    BY <1>1 DEF WalkType
  <2>2. PICK i \in DOMAIN handlers : handlers[i] = TypeOf[k]
    BY DEF Heard, Range
  <2>3. 1 <= i
    BY LenProperties DEF IInv, BasicType
  <2> QED BY <2>1, <2>2, <2>3 DEF OnItsWay, Heard
<1> QED BY <1>2, <1>3 DEF NoNewsLost, OnItsWay, Announce

LEMMA NewsStep ==
  ASSUME IInv, [Next]_vars
  PROVE  NoNewsLost'
<1>0. walk \in WalkType /\ handlers \in Seq(Type)
      /\ DOMAIN handlers = 1..Len(handlers) /\ Len(handlers) \in Nat
  BY LenProperties DEF IInv, BasicType
<1>1. CASE Restart
  BY <1>1 DEF Restart, NoNewsLost
<1>2. ASSUME NEW t \in Thread, Change(t) PROVE NoNewsLost'
  <2>1. \A k \in Key : {k} \in SUBSET Key
    OBVIOUS
  <2>2. \E S \in SUBSET Key : Idle(t) /\ Announce(t, S) /\ UNCHANGED handlers
    BY <1>2, <2>1 DEF Change, Overwrite, AddEntry, delete_entry, load_state
  <2> QED BY <2>2, AnnounceKeepsNews
<1>3. ASSUME NEW t \in Thread, PassOver(t) \/ CallHandler(t) PROVE NoNewsLost'
  <2>1. /\ walk[t].at \in Nat /\ handlers' = handlers
        /\ \A u \in Thread : walk'[u].about = walk[u].about
        /\ \A u \in Thread \ {t} : walk'[u].at = walk[u].at
        /\ walk'[t].at = walk[t].at + 1
        /\ news' \subseteq news
    <3>1. walk[t].at \in Nat /\ handlers' = handlers /\ news' \subseteq news
      BY <1>0, <1>3 DEF PassOver, CallHandler, WalkType
    <3>2. walk'[t].at = walk[t].at + 1
      <4>1. walk' = [walk EXCEPT ![t].at = @ + 1]
            \/ walk' = [walk EXCEPT ![t].at = @ + 1, ![t].inside = TRUE]
        BY <1>3 DEF PassOver, CallHandler
      <4> QED BY <1>0, <4>1 DEF WalkType
    <3> QED BY <1>0, <1>3, <3>1, <3>2, TurnKeepsType
  <2>2. ASSUME NEW k \in news', k \in walk[t].about PROVE TypeOf[k] # handlers[walk[t].at]
    BY <1>3, <2>2 DEF PassOver, Concerned, CallHandler
  <2>3. ASSUME NEW k \in news' PROVE \E u \in Thread : OnItsWay(k, u)'
    <3>1. PICK u \in Thread : OnItsWay(k, u)
      BY <2>1, <2>3 DEF IInv, NoNewsLost, OnItsWay
    <3>2. CASE u # t
      BY <2>1, <3>1, <3>2 DEF OnItsWay
    <3>3. CASE u = t
      <4>1. PICK i \in DOMAIN handlers : walk[t].at <= i /\ handlers[i] = TypeOf[k]
        BY <3>1, <3>3 DEF OnItsWay
      <4>2. i # walk[t].at
        BY <2>2, <2>3, <3>1, <3>3, <4>1 DEF OnItsWay
      <4>3. walk[t].at + 1 <= i
        BY <1>0, <2>1, <4>1, <4>2
      <4>4. OnItsWay(k, t)'
        BY <2>1, <3>1, <3>3, <4>1, <4>3 DEF OnItsWay
      <4> QED BY <4>4
    <3> QED BY <3>2, <3>3
  <2> QED BY <2>3 DEF NoNewsLost, OnItsWay
<1>4. ASSUME NEW t \in Thread, EndWalk(t) PROVE NoNewsLost'
  <2>1. /\ walk' = [walk EXCEPT ![t] = NoWalk] /\ walk[t].at > Len(handlers) /\ walk[t].at \in Nat
        /\ news' = news /\ handlers' = handlers
    BY <1>0, <1>4 DEF EndWalk, WalkType
  <2>2. ASSUME NEW k \in news PROVE \E u \in Thread : OnItsWay(k, u)'
    <3>1. PICK u \in Thread : OnItsWay(k, u)
      BY DEF IInv, NoNewsLost, OnItsWay
    <3>2. u # t
      BY <1>0, <2>1, <3>1 DEF OnItsWay
    <3>3. walk'[u] = walk[u]
      BY <1>0, <2>1, <3>2 DEF WalkType
    <3> QED BY <2>1, <3>1, <3>3 DEF OnItsWay
  <2> QED BY <2>1, <2>2 DEF NoNewsLost, OnItsWay
<1>5. ASSUME NEW t \in Registrar, register_handler(t) PROVE NoNewsLost'
  <2>1. t \in Thread /\ asking[t] \in Type
    BY <1>5, StateCacheAssumption DEF register_handler, IInv, BasicType
  <2>2. \A i \in DOMAIN handlers : i \in DOMAIN handlers' /\ handlers'[i] = handlers[i]
    <3>1. CASE handlers' = handlers
      BY <3>1
    <3>2. CASE handlers' = Append(handlers, asking[t])
      BY <1>0, <2>1, <3>2, AppendProperties, LenProperties
    <3> QED BY <1>5, <3>1, <3>2 DEF register_handler
  <2>3. walk' = walk /\ news' = news
    BY <1>5 DEF register_handler
  <2>4. ASSUME NEW k \in news, NEW u \in Thread, OnItsWay(k, u) PROVE OnItsWay(k, u)'
    BY <2>2, <2>3, <2>4 DEF OnItsWay
  <2> QED BY <2>3, <2>4 DEF IInv, NoNewsLost, OnItsWay
<1>6. ASSUME UNCHANGED <<walk, news, handlers>> PROVE NoNewsLost'
  BY <1>6 DEF IInv, NoNewsLost
<1>10. ASSUME NEW t \in Thread, HandlerReturns(t) PROVE NoNewsLost'
  <2>1. /\ news' = news /\ handlers' = handlers
        /\ \A u \in Thread : walk'[u].about = walk[u].about /\ walk'[u].at = walk[u].at
    BY <1>0, <1>10 DEF HandlerReturns, WalkType
  <2>2. \A k, u : u \in Thread => (OnItsWay(k, u) => OnItsWay(k, u)')
    BY <2>1 DEF OnItsWay
  <2> QED BY <2>1, <2>2 DEF IInv, NoNewsLost, OnItsWay
<1>7. ASSUME NEW t \in Thread, save_state(t) PROVE NoNewsLost'
  BY <1>6, <1>7 DEF save_state
<1>8. ASSUME NEW t \in Registrar, NEW y \in Type, CheckRoom(t, y) PROVE NoNewsLost'
  BY <1>6, <1>8 DEF CheckRoom
<1>9. CASE UNCHANGED vars
  BY <1>6, <1>9 DEF vars
<1> QED BY <1>1, <1>2, <1>3, <1>4, <1>5, <1>7, <1>8, <1>9, <1>10 DEF Next

THEOREM Invariance == Spec => []IInv
<1>1. Init => IInv
  BY BasicInit DEF IInv
<1>2. IInv /\ [Next]_vars => IInv'
  BY CacheStep, NewsStep DEF IInv
<1> QED BY <1>1, <1>2, PTL DEF Spec

(* No entry set or deleted whose type has a handler is ever lost on its way to *)
(* it, however many threads change entries and register handlers meanwhile,    *)
(* and whether the handlers they are in return or not.                         *)
THEOREM NewsNeverLost == Spec => []NoNewsLost
BY Invariance, PTL DEF IInv

(* A key never has two entries, in the cache or in what is saved of it. *)
THEOREM EntriesAlwaysUnique == Spec => []EntriesUnique
BY Invariance, PTL DEF IInv

-----------------------------------------------------------------------------
(* The array of handlers *)

LEMMA RoomStep ==
  ASSUME OneRegistrar, IInv, RoomKept, HandlersFit, [Next]_vars
  PROVE  RoomKept' /\ HandlersFit'
<1>0. /\ handlers \in Seq(Type) /\ Len(handlers) \in Nat /\ MAX_HANDLERS \in Nat
      /\ asking \in [Thread -> Type \cup {NoType}]
  BY StateCacheAssumption, LenProperties DEF IInv, BasicType
<1>1. ASSUME UNCHANGED <<handlers, asking>> PROVE RoomKept' /\ HandlersFit'
  BY <1>1 DEF RoomKept, HandlersFit
<1>2. CASE Restart
  BY <1>0, <1>2 DEF Restart, RoomKept, HandlersFit
<1>3. ASSUME NEW t \in Registrar, register_handler(t) PROVE RoomKept' /\ HandlersFit'
  <2>1. t \in Thread /\ asking[t] \in Type /\ Len(handlers) < MAX_HANDLERS
    BY <1>0, <1>3, StateCacheAssumption DEF register_handler, RoomKept
  <2>2. Len(handlers') <= Len(handlers) + 1
    BY <1>0, <1>3, <2>1, AppendProperties DEF register_handler
  <2>3. \A u \in Thread : asking'[u] = NoType
    <3> SUFFICES ASSUME NEW u \in Thread, asking'[u] # NoType PROVE FALSE
      OBVIOUS
    <3>1. asking' = [asking EXCEPT ![t] = NoType]
      BY <1>3 DEF register_handler
    <3>2. u # t /\ asking[u] # NoType
      BY <1>0, <2>1, <3>1
    <3> QED BY <3>2 DEF RoomKept, OneRegistrar
  <2>4. Len(handlers') \in Nat
    BY <1>0, <1>3, <2>1, AppendProperties DEF register_handler
  <2> QED BY <1>0, <2>1, <2>2, <2>3, <2>4 DEF RoomKept, HandlersFit
<1>4. ASSUME NEW t \in Registrar, NEW y \in Type, CheckRoom(t, y)
      PROVE  RoomKept' /\ HandlersFit'
  BY <1>0, <1>4 DEF CheckRoom, RoomKept, HandlersFit
<1>5. ASSUME NEW t \in Thread, Change(t) \/ save_state(t) \/ PassOver(t)
                                \/ CallHandler(t) \/ HandlerReturns(t) \/ EndWalk(t)
      PROVE  UNCHANGED <<handlers, asking>>
  BY <1>5 DEF Change, Overwrite, AddEntry, delete_entry, load_state, save_state,
              PassOver, CallHandler, HandlerReturns, EndWalk
<1>6. CASE UNCHANGED vars
  BY <1>1, <1>6 DEF vars
<1> QED BY <1>1, <1>2, <1>3, <1>4, <1>5, <1>6 DEF Next

(* While one thread registers handlers, their array is never overrun, and every *)
(* variable keeps its type.                                                     *)
THEOREM TypeCorrect == OneRegistrar => (Spec => []TypeOK)
<1> SUFFICES ASSUME OneRegistrar PROVE Spec => []TypeOK
  OBVIOUS
<1>1. Init => RoomKept /\ HandlersFit
  BY BasicInit, StateCacheAssumption DEF Init, HandlersFit
<1>2. IInv /\ RoomKept /\ HandlersFit /\ [Next]_vars => (RoomKept /\ HandlersFit)'
  BY RoomStep
<1>3. IInv /\ HandlersFit => TypeOK
  BY DEF IInv, BasicType, TypeOK, WalkType
<1> QED BY <1>1, <1>2, <1>3, Invariance, PTL DEF Spec

-----------------------------------------------------------------------------
(* The array implements the map *)

(* The entries of r are those of s but for the key k, for which there is at   *)
(* most one in each.                                                           *)
LEMMA OtherKeysSame ==
  ASSUME NEW s \in Seq(Entry), KeysDistinct(s), NEW r \in Seq(Entry), KeysDistinct(r), NEW k \in Key,
         \A e : e.key # k => (e \in Range(s) <=> e \in Range(r))
  PROVE  MapOf(r) = [MapOf(s) EXCEPT ![k] = get_entry(r, k)]
<1>1. \A x \in Key : x # k => get_entry(s, x) = get_entry(r, x)
  BY GetSame
<1> QED BY <1>1 DEF MapOf

LEMMA WalkAbout ==
  ASSUME BasicType, NEW t \in Thread, NEW S \in SUBSET Key, NEW i \in Nat,
         walk' = [walk EXCEPT ![t] = [about |-> S, at |-> i, inside |-> FALSE]]
  PROVE  [u \in Thread |-> walk'[u].about] = [[u \in Thread |-> walk[u].about] EXCEPT ![t] = S]
BY DEF BasicType, WalkType

LEMMA RefinementStep ==
  ASSUME IInv, BasicType', EntriesUnique', [Next]_vars
  PROVE  [Abstract!MNext]_(Abstract!mvars)
<1> DEFINE about == [t \in Thread |-> walk[t].about]
<1>0. /\ cache \in Seq(Entry) /\ KeysDistinct(cache) /\ cache' \in Seq(Entry) /\ KeysDistinct(cache')
      /\ file.data \in Seq(Entry) /\ KeysDistinct(file.data)
      /\ file'.data \in Seq(Entry) /\ KeysDistinct(file'.data)
      /\ walk \in WalkType
  BY DEF IInv, BasicType, EntriesUnique
<1>1. CASE Restart
  <2>1. MapOf(cache') = Abstract!Nothing
    BY <1>1, EmptyMap DEF Restart
  <2>2. [t \in Thread |-> walk'[t].about] = Abstract!Silence
    BY <1>1 DEF Restart, NoWalk, Abstract!Silence
  <2>3. MapOf(file'.data) = MapOf(file.data)
    BY <1>1 DEF Restart
  <2> QED BY <2>1, <2>2, <2>3 DEF Abstract!MNext, Abstract!Forget
<1>2. ASSUME NEW t \in Thread, NEW k \in Key, NEW v \in Value \cup {NoEntry},
             Idle(t), Announce(t, {k}), file' = file,
             MapOf(cache') = [MapOf(cache) EXCEPT ![k] = v]
      PROVE  Abstract!Change(t, k, v)
  <2>1. about[t] = {}
    BY <1>2 DEF Idle, NoWalk
  <2>2. [u \in Thread |-> walk'[u].about] = [about EXCEPT ![t] = {k}]
    BY <1>2, WalkAbout DEF Announce, IInv
  <2> QED BY <1>2, <2>1, <2>2 DEF Abstract!Change
<1>3. ASSUME NEW t \in Thread, NEW k \in Key, NEW v \in Value,
             Overwrite(t, k, v) \/ AddEntry(t, k, v)
      PROVE  Abstract!MNext
  <2> DEFINE e == [key |-> k, value |-> v]
  <2>1. /\ Range(cache') = {d \in Range(cache) : d.key # k} \cup {e}
        /\ Idle(t) /\ Announce(t, {k}) /\ file' = file
    BY <1>3, OverwriteSteps, AddSteps DEF IInv, Overwrite, AddEntry
  <2>2. e.key = k /\ e.value = v
    OBVIOUS
  <2> HIDE DEF e
  <2>3. get_entry(cache', k) = v
    BY <1>0, <2>1, <2>2, GetIsValue
  <2>4. MapOf(cache') = [MapOf(cache) EXCEPT ![k] = v]
    BY <1>0, <2>1, <2>2, <2>3, OtherKeysSame
  <2>5. Abstract!Change(t, k, v)
    BY <1>2, <2>1, <2>4
  <2> QED BY <2>5 DEF Abstract!MNext
<1>4. ASSUME NEW t \in Thread, NEW k \in Key, delete_entry(t, k)
      PROVE  Abstract!MNext
  <2>1. /\ Range(cache') = {d \in Range(cache) : d.key # k}
        /\ Idle(t) /\ Announce(t, {k}) /\ file' = file
    BY <1>4, DeleteSteps DEF IInv, delete_entry
  <2>2. get_entry(cache', k) = NoEntry
    BY <2>1, GetIsNone
  <2>3. MapOf(cache') = [MapOf(cache) EXCEPT ![k] = NoEntry]
    BY <1>0, <2>1, <2>2, OtherKeysSame
  <2>4. Abstract!Change(t, k, NoEntry)
    BY <1>2, <2>1, <2>3
  <2> QED BY <2>4 DEF Abstract!MNext
<1>5. ASSUME NEW t \in Thread, load_state(t) PROVE Abstract!MNext
  <2>1. about[t] = {}
    BY <1>5 DEF load_state, Idle, NoWalk
  <2>2. [u \in Thread |-> walk'[u].about] = about
    <3>1. [u \in Thread |-> walk'[u].about] = [about EXCEPT ![t] = {}]
      BY <1>5, WalkAbout DEF load_state, Announce, IInv
    <3> QED BY <2>1, <3>1
  <2>3. Abstract!Load(t)
    BY <1>5, <2>1, <2>2 DEF load_state, Abstract!Load
  <2> QED BY <2>3 DEF Abstract!MNext
<1>6. ASSUME NEW t \in Thread, save_state(t) PROVE Abstract!MNext
  <2> DEFINE kept == {k \in Key : \E e \in Range(file'.data) : e.key = k}
  <2>1. Range(file'.data) \subseteq Range(cache)
    BY <1>6, SaveSteps DEF IInv
  <2>2. ASSUME NEW k \in Key
        PROVE  get_entry(file'.data, k) = IF k \in kept THEN get_entry(cache, k) ELSE NoEntry
    <3>1. CASE k \in kept
      <4>1. PICK e \in Range(file'.data) : e.key = k
        BY <3>1
      <4>2. e \in Range(cache)
        BY <2>1
      <4> QED BY <1>0, <3>1, <4>1, <4>2, GetIsValue
    <3>2. CASE k \notin kept
      BY <3>2, GetIsNone
    <3> QED BY <3>1, <3>2
  <2>3. kept \in SUBSET Key
    OBVIOUS
  <2> HIDE DEF kept
  <2>4. MapOf(file'.data) = [k \in Key |-> IF k \in kept THEN MapOf(cache)[k] ELSE NoEntry]
    BY <2>2 DEF MapOf
  <2>5. Abstract!Save(kept)
    BY <1>6, <2>4 DEF save_state, Abstract!Save
  <2> QED BY <2>3, <2>5 DEF Abstract!MNext
<1>7. ASSUME NEW t \in Thread, PassOver(t) \/ CallHandler(t) \/ HandlerReturns(t)
      PROVE  UNCHANGED Abstract!mvars
  <2>1. [u \in Thread |-> walk'[u].about] = about
    BY <1>0, <1>7, TurnKeepsType
  <2>2. UNCHANGED <<cache, file>>
    BY <1>7 DEF PassOver, CallHandler, HandlerReturns
  <2> QED BY <2>1, <2>2 DEF Abstract!mvars
<1>8. ASSUME NEW t \in Thread, EndWalk(t) PROVE Abstract!MNext
  <2>1. [u \in Thread |-> walk'[u].about] = [about EXCEPT ![t] = {}]
    BY <1>8, WalkAbout DEF EndWalk, NoWalk, IInv
  <2>2. Abstract!FallSilent(t)
    BY <1>8, <2>1 DEF EndWalk, Abstract!FallSilent
  <2> QED BY <2>2 DEF Abstract!MNext
<1>9. ASSUME UNCHANGED <<cache, walk, file>> PROVE UNCHANGED Abstract!mvars
  BY <1>9 DEF Abstract!mvars
<1>10. ASSUME NEW t \in Registrar, register_handler(t) \/ \E y \in Type : CheckRoom(t, y)
       PROVE  UNCHANGED <<cache, walk, file>>
  BY <1>10 DEF register_handler, CheckRoom
<1>11. CASE UNCHANGED vars
  BY <1>9, <1>11 DEF vars
<1> QED BY <1>1, <1>3, <1>4, <1>5, <1>6, <1>7, <1>8, <1>9, <1>10, <1>11 DEF Next, Change

(* The array of entries, with its searches, its memmove and its saves that may *)
(* break off, is a map that each thread changes a key at a time.               *)
THEOREM CacheImplementsMap == Spec => ImplementsMap
<1>1. Init => Abstract!MInit
  <2> SUFFICES ASSUME Init PROVE Abstract!MInit
    OBVIOUS
  <2>1. cache = <<>> /\ file.data = <<>>
    BY DEF Init
  <2>2. [t \in Thread |-> walk[t].about] = Abstract!Silence
    BY DEF Init, NoWalk, Abstract!Silence
  <2> QED BY <2>1, <2>2, EmptyMap DEF Abstract!MInit
<1>2. IInv /\ IInv' /\ [Next]_vars => [Abstract!MNext]_(Abstract!mvars)
  BY RefinementStep DEF IInv
<1> QED BY <1>1, <1>2, Invariance, PTL DEF Spec, ImplementsMap, Abstract!MSpec

=============================================================================
