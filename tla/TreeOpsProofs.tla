---------------------------- MODULE TreeOpsProofs ----------------------------
(***************************************************************************)
(* What the operators of TreeOps preserve of a tree, what its traversals   *)
(* visit and how deep it is: for every set of addresses, every             *)
(* MAX_CHILDREN and every queue size.                                      *)
(*                                                                         *)
(* First what creating, deleting and destroying preserve; then induction   *)
(* over numbers and from the leaves of a tree up, each as a fact about a   *)
(* set, and with it the two traversals, the searches and the depth; last   *)
(* the order of siblings.                                                  *)
(***************************************************************************)
EXTENDS TreeOps, TLAPS, FiniteSetTheorems, SequenceTheorems, WellFoundedInduction

(* A search returns NULL or a live node with the id it was given. *)
LEMMA FoundIsLive ==
  ASSUME NEW t, NEW x
  PROVE  \/ tree_find_node(t, x) = NULL
         \/ tree_find_node(t, x) \in t.live /\ t.id[tree_find_node(t, x)] = x
BY DEF tree_find_node, FirstPopped

-----------------------------------------------------------------------------
(* Sequences without repetition *)

Distinct(s) == \A i, j \in DOMAIN s : s[i] = s[j] => i = j

(* The elements from position a to position b. *)
LEMMA SliceProperties ==
  ASSUME NEW T, NEW s \in Seq(T), NEW a \in 1..(Len(s) + 1), NEW b \in (a - 1)..Len(s)
  PROVE  LET u == SubSeq(s, a, b)
         IN  /\ u \in Seq(T) /\ Len(u) = b + 1 - a /\ DOMAIN u = 1..(b + 1 - a)
             /\ \A j \in 1..(b + 1 - a) : u[j] = s[a + j - 1]
<1> DEFINE u == SubSeq(s, a, b)
<1>1. Len(s) \in Nat /\ DOMAIN s = 1..Len(s) /\ \A i \in 1..Len(s) : s[i] \in T
  BY LenProperties, ElementOfSeq
<1>2. a \in Int /\ b \in Int /\ \A i \in a..b : s[i] \in T
  BY <1>1
<1>3. /\ u \in Seq(T)
      /\ Len(u) = IF a <= b THEN b - a + 1 ELSE 0
      /\ \A j \in 1..(b - a + 1) : u[j] = s[a + j - 1]
  BY <1>2, SubSeqProperties
<1> HIDE DEF u
<1>4. Len(u) = b + 1 - a /\ b - a + 1 = b + 1 - a
  BY <1>1, <1>3
<1>5. DOMAIN u = 1..(b + 1 - a)
  BY <1>3, <1>4, LenProperties
<1> QED BY <1>3, <1>4, <1>5 DEF u

(* One sequence after another. *)
LEMMA JoinProperties ==
  ASSUME NEW T, NEW a \in Seq(T), NEW b \in Seq(T)
  PROVE  LET r == a \o b
         IN  /\ r \in Seq(T)
             /\ Len(r) = Len(a) + Len(b) /\ DOMAIN r = 1..(Len(a) + Len(b))
             /\ \A j \in DOMAIN a : j \in DOMAIN r /\ r[j] = a[j]
             /\ \A j \in DOMAIN b : Len(a) + j \in DOMAIN r /\ r[Len(a) + j] = b[j]
             /\ Range(r) = Range(a) \cup Range(b)
<1> DEFINE r == a \o b
<1>1. /\ r \in Seq(T)
      /\ Len(r) = Len(a) + Len(b)
      /\ \A i \in 1..(Len(a) + Len(b)) :
            r[i] = IF i <= Len(a) THEN a[i] ELSE b[i - Len(a)]
  BY ConcatProperties
<1> HIDE DEF r
<1>2. /\ DOMAIN a = 1..Len(a) /\ Len(a) \in Nat
      /\ DOMAIN b = 1..Len(b) /\ Len(b) \in Nat
      /\ DOMAIN r = 1..(Len(a) + Len(b))
  BY <1>1, LenProperties
<1>3. \A j \in DOMAIN a : j \in DOMAIN r /\ r[j] = a[j]
  BY <1>1, <1>2
<1>4. ASSUME NEW j \in DOMAIN b PROVE Len(a) + j \in DOMAIN r /\ r[Len(a) + j] = b[j]
  <2>1. /\ Len(a) + j \in 1..(Len(a) + Len(b))
        /\ ~(Len(a) + j <= Len(a)) /\ Len(a) + j - Len(a) = j
    BY <1>2
  <2> QED BY <1>1, <1>2, <2>1
<1>5. ASSUME NEW i \in DOMAIN r PROVE r[i] \in Range(a) \cup Range(b)
  <2>1. CASE i <= Len(a)
    <3>1. i \in DOMAIN a /\ r[i] = a[i]
      BY <1>1, <1>2, <2>1
    <3> QED BY <3>1 DEF Range
  <2>2. CASE ~(i <= Len(a))
    <3>1. i - Len(a) \in DOMAIN b /\ r[i] = b[i - Len(a)]
      BY <1>1, <1>2, <2>2
    <3> QED BY <3>1 DEF Range
  <2> QED BY <2>1, <2>2
<1>6. Range(r) \subseteq Range(a) \cup Range(b)
  BY <1>5 DEF Range
<1>7. Range(a) \subseteq Range(r) /\ Range(b) \subseteq Range(r)
  BY <1>3, <1>4 DEF Range
<1> QED BY <1>1, <1>2, <1>3, <1>4, <1>6, <1>7 DEF r

(* Joining sequences with no element in common repeats none. *)
LEMMA JoinDistinct ==
  ASSUME NEW T, NEW a \in Seq(T), NEW b \in Seq(T), Distinct(a), Distinct(b),
         Range(a) \cap Range(b) = {}
  PROVE  Distinct(a \o b)
<1> DEFINE r == a \o b
<1>1. /\ DOMAIN a = 1..Len(a) /\ Len(a) \in Nat
      /\ DOMAIN b = 1..Len(b) /\ Len(b) \in Nat
      /\ DOMAIN r = 1..(Len(a) + Len(b))
  BY LenProperties, JoinProperties
<1>2. \A j \in DOMAIN a : r[j] = a[j]
  BY JoinProperties
<1>3. \A j \in DOMAIN b : r[Len(a) + j] = b[j]
  BY JoinProperties
<1> HIDE DEF r
<1>4. ASSUME NEW i \in DOMAIN r, ~(i <= Len(a))
      PROVE  i - Len(a) \in DOMAIN b /\ r[i] = b[i - Len(a)]
  <2>1. i - Len(a) \in DOMAIN b /\ Len(a) + (i - Len(a)) = i
    BY <1>1, <1>4
  <2> QED BY <1>3, <2>1
<1>5. \A x \in DOMAIN a, y \in DOMAIN b : a[x] # b[y]
  BY DEF Range
<1>6. ASSUME NEW i \in DOMAIN r, NEW j \in DOMAIN r, r[i] = r[j] PROVE i = j
  <2>1. CASE i <= Len(a) /\ j <= Len(a)
    BY <1>1, <1>2, <1>6, <2>1 DEF Distinct
  <2>2. CASE ~(i <= Len(a)) /\ ~(j <= Len(a))
    <3>1. i - Len(a) = j - Len(a)
      BY <1>4, <1>6, <2>2 DEF Distinct
    <3> QED BY <1>1, <3>1
  <2>3. CASE i <= Len(a) /\ ~(j <= Len(a))
    <3>1. i \in DOMAIN a
      BY <1>1, <2>3
    <3> QED BY <1>2, <1>4, <1>5, <1>6, <2>3, <3>1
  <2>4. CASE ~(i <= Len(a)) /\ j <= Len(a)
    <3>1. j \in DOMAIN a
      BY <1>1, <2>4
    <3> QED BY <1>2, <1>4, <1>5, <1>6, <2>4, <3>1
  <2> QED BY <2>1, <2>2, <2>3, <2>4
<1> QED BY <1>6 DEF Distinct, r

(* A slice of a sequence without repetition; two slices that do not overlap. *)
LEMMA CutProperties ==
  ASSUME NEW T, NEW s \in Seq(T), Distinct(s), NEW k \in 0..Len(s), NEW m \in k..Len(s)
  PROVE  LET a == SubSeq(s, 1, k)
             b == SubSeq(s, m + 1, Len(s))
         IN  /\ a \in Seq(T) /\ Len(a) = k /\ Distinct(a)
             /\ b \in Seq(T) /\ Len(b) = Len(s) - m /\ Distinct(b)
             /\ Range(a) \cup Range(b) = {s[i] : i \in (1..k) \cup ((m + 1)..Len(s))}
             /\ Range(a) \cap Range(b) = {}
<1> DEFINE a == SubSeq(s, 1, k)
           b == SubSeq(s, m + 1, Len(s))
<1>1. DOMAIN s = 1..Len(s) /\ Len(s) \in Nat /\ k \in Nat /\ m \in Nat /\ k <= m /\ m <= Len(s)
  BY LenProperties
<1>2. 1 \in 1..(Len(s) + 1) /\ k \in (1 - 1)..Len(s) /\ k + 1 - 1 = k
  BY <1>1
<1>3. /\ m + 1 \in 1..(Len(s) + 1) /\ Len(s) \in ((m + 1) - 1)..Len(s)
      /\ Len(s) + 1 - (m + 1) = Len(s) - m
  <2>1. \A x, y \in Nat : x <= y =>
          x + 1 \in 1..(y + 1) /\ y \in ((x + 1) - 1)..y /\ y + 1 - (x + 1) = y - x
    OBVIOUS
  <2> QED BY <1>1, <2>1
<1>4. /\ a \in Seq(T) /\ Len(a) = k /\ DOMAIN a = 1..k
      /\ \A j \in 1..k : a[j] = s[1 + j - 1]
  BY <1>2, SliceProperties
<1>5. /\ b \in Seq(T) /\ Len(b) = Len(s) - m /\ DOMAIN b = 1..(Len(s) - m)
      /\ \A j \in 1..(Len(s) - m) : b[j] = s[m + 1 + j - 1]
  BY <1>3, SliceProperties
<1> HIDE DEF a, b
<1>6. \A j \in DOMAIN a : j \in DOMAIN s /\ a[j] = s[j]
  BY <1>1, <1>4
<1>7. \A j \in DOMAIN b : m + j \in DOMAIN s /\ b[j] = s[m + j] /\ m + j \in (m + 1)..Len(s)
  BY <1>1, <1>5
<1>8. Distinct(a)
  BY <1>6 DEF Distinct
<1>9. ASSUME NEW i \in DOMAIN b, NEW j \in DOMAIN b, b[i] = b[j] PROVE i = j
  <2>1. m + i = m + j
    BY <1>7, <1>9 DEF Distinct
  <2> QED BY <1>1, <1>5, <2>1
<1>10. ASSUME NEW i \in DOMAIN a, NEW j \in DOMAIN b PROVE a[i] # b[j]
  <2>1. i # m + j
    BY <1>1, <1>4, <1>5
  <2> QED BY <1>6, <1>7, <2>1 DEF Distinct
<1>11. Range(a) \cap Range(b) = {}
  BY <1>10 DEF Range
<1>12. Range(a) = {s[i] : i \in 1..k}
  BY <1>4, <1>6 DEF Range
<1>13. ASSUME NEW i \in (m + 1)..Len(s) PROVE s[i] \in Range(b)
  <2>1. i - m \in DOMAIN b /\ m + (i - m) = i
    BY <1>1, <1>5
  <2>2. b[i - m] = s[i]
    BY <1>7, <2>1
  <2> QED BY <2>1, <2>2 DEF Range
<1>14. Range(b) = {s[i] : i \in (m + 1)..Len(s)}
  BY <1>7, <1>13 DEF Range
<1>15. Distinct(b)
  BY <1>9 DEF Distinct
<1>16. Range(a) \cup Range(b) = {s[i] : i \in (1..k) \cup ((m + 1)..Len(s))}
  BY <1>12, <1>14
<1> HIDE DEF Distinct
<1> QED BY <1>4, <1>5, <1>8, <1>11, <1>15, <1>16 DEF a, b

(* The memmove of a deletion takes one element out and leaves the others alone. *)
LEMMA CloseGapProperties ==
  ASSUME NEW T, NEW s \in Seq(T), Distinct(s), NEW n \in Range(s)
  PROVE  /\ CloseGap(s, n) \in Seq(T)
         /\ Len(CloseGap(s, n)) = Len(s) - 1
         /\ Range(CloseGap(s, n)) = Range(s) \ {n}
         /\ Distinct(CloseGap(s, n))
<1> DEFINE i == CHOOSE i \in DOMAIN s : s[i] = n /\ \A j \in 1..(i - 1) : s[j] # n
           a == SubSeq(s, 1, i - 1)
           b == SubSeq(s, i + 1, Len(s))
<1>1. DOMAIN s = 1..Len(s) /\ Len(s) \in Nat
  BY LenProperties
<1>2. PICK k \in DOMAIN s : s[k] = n
  BY DEF Range
<1>3. \A j \in 1..(k - 1) : s[j] # n
  BY <1>1, <1>2 DEF Distinct
<1> HIDE DEF i
<1>4. i \in 1..Len(s) /\ s[i] = n
  BY <1>1, <1>2, <1>3 DEF i
<1>5. i - 1 \in 0..Len(s) /\ i \in (i - 1)..Len(s)
  BY <1>1, <1>4
<1>6. /\ a \in Seq(T) /\ Len(a) = i - 1 /\ Distinct(a)
      /\ b \in Seq(T) /\ Len(b) = Len(s) - i /\ Distinct(b)
      /\ Range(a) \cup Range(b) = {s[j] : j \in (1..(i - 1)) \cup ((i + 1)..Len(s))}
      /\ Range(a) \cap Range(b) = {}
  BY <1>5, CutProperties
<1>7. {s[j] : j \in (1..(i - 1)) \cup ((i + 1)..Len(s))} = Range(s) \ {n}
  <2>1. (1..(i - 1)) \cup ((i + 1)..Len(s)) = (DOMAIN s) \ {i}
    BY <1>1, <1>4
  <2>2. {s[j] : j \in (DOMAIN s) \ {i}} = Range(s) \ {n}
    BY <1>1, <1>4 DEF Range, Distinct
  <2> QED BY <2>1, <2>2
<1> HIDE DEF a, b
<1>8. a \o b \in Seq(T) /\ Len(a \o b) = Len(a) + Len(b)
      /\ Range(a \o b) = Range(a) \cup Range(b) /\ Distinct(a \o b)
  BY <1>6, JoinProperties, JoinDistinct
<1>9. CloseGap(s, n) = a \o b
  BY DEF CloseGap, SlotOf, RemoveAt, a, b, i
<1>10. Len(a) + Len(b) = Len(s) - 1
  BY <1>1, <1>4, <1>6
<1> QED BY <1>6, <1>7, <1>8, <1>9, <1>10

-----------------------------------------------------------------------------
(* What every operation preserves of a tree. *)

Sound(t) ==
  /\ TreeType(t)
  /\ LinksAgree(t)
  /\ Acyclic(t)
  /\ ChildrenFit(t)

ChildrenOf(t, n) == {c \in t.live : t.parent[c] = n}

(* LinksAgree in terms of sets: an array lists the nodes whose parent is n, once each. *)
LinksAsSets(t) ==
  /\ t.root # NULL => t.root \in t.live /\ t.parent[t.root] = NULL
  /\ \A n \in t.live : t.parent[n] \in t.live \cup {NULL}
  /\ \A n \in t.live : Range(t.kids[n]) = ChildrenOf(t, n) /\ Distinct(t.kids[n])

LEMMA LinksAreSets ==
  ASSUME NEW t, TreeType(t)
  PROVE  LinksAgree(t) <=> LinksAsSets(t)
<1>1. NULL \notin t.live
  BY TreeAssumption DEF TreeType
<1>2. ASSUME LinksAgree(t) PROVE LinksAsSets(t)
  <2>1. \A n \in t.live : t.parent[n] \in t.live \cup {NULL}
    BY <1>2 DEF LinksAgree
  <2>2. ASSUME NEW n \in t.live PROVE Range(t.kids[n]) = ChildrenOf(t, n)
    <3>1. Range(t.kids[n]) \subseteq ChildrenOf(t, n)
      BY <1>2 DEF LinksAgree, Range, ChildrenOf
    <3>2. ChildrenOf(t, n) \subseteq Range(t.kids[n])
      BY <1>1, <1>2 DEF LinksAgree, ChildrenOf
    <3> QED BY <3>1, <3>2
  <2>3. \A n \in t.live : Distinct(t.kids[n])
    BY <1>2 DEF LinksAgree, Distinct
  <2> QED BY <1>2, <2>1, <2>2, <2>3 DEF LinksAgree, LinksAsSets
<1>3. ASSUME LinksAsSets(t) PROVE LinksAgree(t)
  <2>1. \A n \in t.live : t.parent[n] # NULL =>
          t.parent[n] \in t.live /\ n \in Range(t.kids[t.parent[n]])
    BY <1>3 DEF LinksAsSets, ChildrenOf
  <2>2. ASSUME NEW n \in t.live, NEW i \in DOMAIN t.kids[n]
        PROVE  t.kids[n][i] \in t.live /\ t.parent[t.kids[n][i]] = n
    <3>1. t.kids[n][i] \in Range(t.kids[n])
      BY DEF Range
    <3> QED BY <1>3, <3>1 DEF LinksAsSets, ChildrenOf
  <2> QED BY <1>3, <2>1, <2>2 DEF LinksAgree, LinksAsSets, Distinct
<1> QED BY <1>2, <1>3

-----------------------------------------------------------------------------
(* AttachNode: a leaf under a node with a free slot, or the root of an empty tree. *)

LEMMA AttachSound ==
  ASSUME NEW t, Sound(t), NEW n \in Node \ t.live, NEW x,
         NEW q \in t.live \cup {NULL},
         q = NULL => t.root = NULL,
         q # NULL => HasRoom(t, q)
  PROVE  /\ Sound(AttachNode(t, n, x, q))
         /\ RootsHaveNoParent(t) => RootsHaveNoParent(AttachNode(t, n, x, q))
<1> DEFINE T == AttachNode(t, n, x, q)
           L == t.live \cup {n}
<1> HIDE DEF T, L
<1>0. /\ T = [live |-> T.live, root |-> T.root, total |-> T.total, parent |-> T.parent,
              kids |-> T.kids, isRoot |-> T.isRoot, id |-> T.id]
      /\ T.live = L
      /\ T.root = IF q = NULL THEN n ELSE t.root
      /\ T.total = t.total + 1
      /\ T.parent = [m \in L |-> IF m = n THEN q ELSE t.parent[m]]
      /\ T.kids = [m \in L |-> IF m = n THEN <<>>
                               ELSE IF m = q THEN Append(t.kids[m], n)
                               ELSE t.kids[m]]
      /\ T.isRoot = [m \in L |-> IF m = n THEN q = NULL ELSE t.isRoot[m]]
      /\ T.id = [m \in L |-> IF m = n THEN x ELSE t.id[m]]
  BY DEF AttachNode, T, L
<1>1. /\ NULL \notin t.live /\ n # NULL /\ t.live \subseteq Node /\ n \notin t.live
      /\ n # q
  BY TreeAssumption DEF Sound, TreeType
<1>2. LinksAsSets(t)
  BY LinksAreSets DEF Sound
<1>3. ASSUME NEW m \in t.live, m = q
      PROVE  /\ T.kids[m] \in Seq(Node)
             /\ Len(T.kids[m]) <= MAX_CHILDREN
             /\ Range(T.kids[m]) = ChildrenOf(t, m) \cup {n}
             /\ Distinct(T.kids[m])
  <2> DEFINE s == t.kids[m]
             u == <<n>>
  <2>1. s \in Seq(Node) /\ u \in Seq(Node) /\ Len(u) = 1 /\ Len(s) \in Nat
    BY <1>1, LenProperties DEF Sound, TreeType
  <2>2. Distinct(u) /\ Range(u) = {n}
    BY DEF Distinct, Range
  <2>3. Distinct(s) /\ Range(s) = ChildrenOf(t, m) /\ n \notin Range(s)
    BY <1>1, <1>2 DEF LinksAsSets, ChildrenOf
  <2>4. T.kids[m] = s \o u
    <3>1. T.kids[m] = Append(s, n)
      BY <1>0, <1>1, <1>3 DEF L
    <3>2. Append(s, n) = s \o u
      BY <2>1
    <3> QED BY <3>1, <3>2
  <2> HIDE DEF s, u
  <2>5. /\ s \o u \in Seq(Node) /\ Len(s \o u) = Len(s) + 1
        /\ Range(s \o u) = Range(s) \cup {n} /\ Distinct(s \o u)
    BY <2>1, <2>2, <2>3, JoinProperties, JoinDistinct
  <2>6. Len(s) < MAX_CHILDREN
    BY <1>1, <1>3 DEF HasRoom, s
  <2> QED BY <2>1, <2>3, <2>4, <2>5, <2>6, TreeAssumption
<1>4. ASSUME NEW m \in t.live, m # q PROVE T.kids[m] = t.kids[m]
  BY <1>0, <1>1, <1>4 DEF L
<1>5. T.kids[n] = <<>> /\ T.parent[n] = q /\ T.isRoot[n] = (q = NULL)
  BY <1>0 DEF L
<1>6. \A m \in t.live : T.parent[m] = t.parent[m] /\ T.isRoot[m] = t.isRoot[m]
  BY <1>0, <1>1 DEF L
<1>7. TreeType(T)
  <2>1. T.live \in SUBSET Node /\ IsFiniteSet(T.live)
    BY <1>0, <1>1, FS_AddElement DEF Sound, TreeType, L
  <2>2. T.root \in Node \cup {NULL} /\ T.total \in Nat
    BY <1>0 DEF Sound, TreeType
  <2>3. T.parent \in [T.live -> Node \cup {NULL}]
    BY <1>0, <1>1 DEF Sound, TreeType, L
  <2>4. ASSUME NEW m \in L PROVE T.kids[m] \in Seq(Node)
    <3>1. CASE m = n
      BY <1>5, <3>1, EmptySeq
    <3>2. CASE m \in t.live /\ m = q
      BY <1>3, <3>2
    <3>3. CASE m \in t.live /\ m # q
      BY <1>4, <3>3 DEF Sound, TreeType
    <3> QED BY <3>1, <3>2, <3>3 DEF L
  <2>5. T.kids \in [T.live -> Seq(Node)]
    BY <1>0, <2>4
  <2>6. T.isRoot \in [T.live -> BOOLEAN]
    BY <1>0, <1>1 DEF Sound, TreeType, L
  <2>7. DOMAIN T.id = T.live
    BY <1>0
  <2> QED BY <1>0, <2>1, <2>2, <2>3, <2>5, <2>6, <2>7 DEF TreeType
<1>8. LinksAsSets(T)
  <2>1. T.root # NULL => T.root \in T.live /\ T.parent[T.root] = NULL
    BY <1>0, <1>1, <1>2, <1>5, <1>6 DEF LinksAsSets, L
  <2>2. \A m \in T.live : T.parent[m] \in T.live \cup {NULL}
    BY <1>0, <1>1, <1>2, <1>5, <1>6 DEF LinksAsSets, L
  <2>3. ChildrenOf(T, n) = {}
    BY <1>0, <1>1, <1>2, <1>5, <1>6 DEF LinksAsSets, ChildrenOf, L
  <2>4. \A m \in t.live : ChildrenOf(T, m) = IF m = q THEN ChildrenOf(t, m) \cup {n}
                                             ELSE ChildrenOf(t, m)
    BY <1>0, <1>1, <1>5, <1>6 DEF ChildrenOf, L
  <2>5. Range(T.kids[n]) = {} /\ Distinct(T.kids[n])
    BY <1>5 DEF Range, Distinct
  <2>6. ASSUME NEW m \in T.live
        PROVE  Range(T.kids[m]) = ChildrenOf(T, m) /\ Distinct(T.kids[m])
    <3>1. CASE m = n
      BY <2>3, <2>5, <3>1
    <3>2. CASE m \in t.live /\ m = q
      BY <1>3, <2>4, <3>2
    <3>3. CASE m \in t.live /\ m # q
      BY <1>2, <1>4, <2>4, <3>3 DEF LinksAsSets
    <3> QED BY <1>0, <3>1, <3>2, <3>3 DEF L
  <2> QED BY <2>1, <2>2, <2>6 DEF LinksAsSets
<1>9. Acyclic(T)
  <2> SUFFICES ASSUME NEW S \in SUBSET L, S # {} PROVE \E m \in S : T.parent[m] \notin S
    BY <1>0 DEF Acyclic
  <2>1. CASE S = {n}
    BY <1>1, <1>5, <2>1
  <2>2. CASE S # {n}
    <3>1. S \ {n} \in SUBSET t.live /\ S \ {n} # {}
      BY <2>2 DEF L
    <3>2. PICK m \in S \ {n} : t.parent[m] \notin S \ {n}
      BY <3>1 DEF Sound, Acyclic
    <3>3. m \in t.live /\ t.parent[m] # n
      BY <1>1, <1>2, <3>1 DEF LinksAsSets
    <3> QED BY <1>6, <3>2, <3>3
  <2> QED BY <2>1, <2>2
<1>10. ASSUME RootsHaveNoParent(t) PROVE RootsHaveNoParent(T)
  <2>1. T.isRoot[n] <=> T.parent[n] = NULL
    BY <1>5
  <2>2. ASSUME NEW m \in t.live PROVE T.isRoot[m] <=> T.parent[m] = NULL
    <3>1. t.isRoot[m] <=> t.parent[m] = NULL
      BY <1>10 DEF RootsHaveNoParent
    <3>2. T.isRoot[m] = t.isRoot[m] /\ T.parent[m] = t.parent[m]
      BY <1>6
    <3> QED BY <3>1, <3>2, Zenon
  <2> QED BY <1>0, <2>1, <2>2, Zenon DEF RootsHaveNoParent, L
<1>11. ChildrenFit(T)
  <2>1. \A m \in L : Len(T.kids[m]) <= MAX_CHILDREN
    BY <1>3, <1>4, <1>5, EmptySeq, TreeAssumption DEF Sound, ChildrenFit, L
  <2> QED BY <1>0, <2>1 DEF ChildrenFit
<1> QED BY <1>7, <1>8, <1>9, <1>10, <1>11, LinksAreSets DEF Sound, T

-----------------------------------------------------------------------------
(* DetachNode: the siblings close up, and the children are adopted or cast off. *)

LEMMA MinOfTwo ==
  ASSUME NEW a \in Nat, NEW b \in Nat
  PROVE  /\ Min({a, b}) \in Nat /\ Min({a, b}) <= a /\ Min({a, b}) <= b
         /\ (b <= a => Min({a, b}) = b)
<1>1. PICK x \in {a, b} : \A y \in {a, b} : x =< y
  <2>1. CASE a <= b
    BY <2>1
  <2>2. CASE b <= a
    BY <2>2
  <2> QED BY <2>1, <2>2
<1>2. Min({a, b}) \in {a, b} /\ \A y \in {a, b} : Min({a, b}) =< y
  BY <1>1 DEF Min
<1> QED BY <1>2

(* What becomes of the nodes around n: its siblings, and its children.         *)
LEMMA DetachPieces ==
  ASSUME NEW t, Sound(t), NEW n \in t.live
  PROVE  LET p == t.parent[n]
             sib == Siblings(t, n)
             ado == Adopted(t, n)
             off == CastOff(t, n)
         IN  /\ p # n
             /\ sib \in Seq(Node) /\ Distinct(sib)
             /\ ado \in Seq(Node) /\ Distinct(ado)
             /\ Range(ado) \cup Range(off) = ChildrenOf(t, n)
             /\ Range(ado) \cap Range(off) = {}
             /\ p # NULL => /\ p \in t.live
                            /\ Range(sib) = ChildrenOf(t, p) \ {n}
                            /\ Len(sib) = Len(t.kids[p]) - 1
                            /\ Len(sib) + Len(ado) <= MAX_CHILDREN
             /\ p = NULL => ado = <<>>
             /\ RoomForOrphans(t, n) => Range(off) = {}
<1> DEFINE p == t.parent[n]
           sib == Siblings(t, n)
           s == t.kids[n]
           k == Adoptable(t, n)
<1>0. LinksAsSets(t) /\ NULL \notin t.live /\ t.live \subseteq Node
  BY LinksAreSets, TreeAssumption DEF Sound, TreeType
<1>1. p # n
  <2>1. \E m \in {n} : t.parent[m] \notin {n}
    BY DEF Sound, Acyclic
  <2> QED BY <2>1
<1>2. /\ s \in Seq(Node) /\ Distinct(s) /\ Range(s) = ChildrenOf(t, n)
      /\ Len(s) \in Nat /\ DOMAIN s = 1..Len(s)
  BY <1>0, LenProperties DEF Sound, TreeType, LinksAsSets
<1>3. p # NULL =>
        /\ p \in t.live
        /\ t.kids[p] \in Seq(Node) /\ Len(t.kids[p]) \in Nat
        /\ Len(t.kids[p]) <= MAX_CHILDREN
        /\ sib \in Seq(Node) /\ Distinct(sib)
        /\ Len(sib) = Len(t.kids[p]) - 1 /\ Len(sib) \in Nat
        /\ Range(sib) = ChildrenOf(t, p) \ {n}
  <2> SUFFICES ASSUME p # NULL
               PROVE  /\ p \in t.live
                      /\ t.kids[p] \in Seq(Node) /\ Len(t.kids[p]) \in Nat
                      /\ Len(t.kids[p]) <= MAX_CHILDREN
                      /\ sib \in Seq(Node) /\ Distinct(sib)
                      /\ Len(sib) = Len(t.kids[p]) - 1 /\ Len(sib) \in Nat
                      /\ Range(sib) = ChildrenOf(t, p) \ {n}
    OBVIOUS
  <2>1. p \in t.live
    BY <1>0 DEF LinksAsSets
  <2>2. t.kids[p] \in Seq(Node) /\ Len(t.kids[p]) \in Nat /\ Len(t.kids[p]) <= MAX_CHILDREN
    BY <2>1, LenProperties DEF Sound, TreeType, ChildrenFit
  <2>3. Distinct(t.kids[p]) /\ Range(t.kids[p]) = ChildrenOf(t, p) /\ n \in Range(t.kids[p])
    BY <1>0, <2>1 DEF LinksAsSets, ChildrenOf
  <2>4. sib = CloseGap(t.kids[p], n)
    BY DEF Siblings
  <2>5. /\ sib \in Seq(Node) /\ Distinct(sib) /\ Len(sib) = Len(t.kids[p]) - 1
        /\ Range(sib) = ChildrenOf(t, p) \ {n}
    BY <2>2, <2>3, <2>4, CloseGapProperties
  <2>6. Len(sib) \in Nat
    BY <2>5, LenProperties
  <2> QED BY <2>1, <2>2, <2>5, <2>6
<1>4. p = NULL => sib = <<>> /\ k = 0
  BY DEF Siblings, Adoptable
<1>5. sib \in Seq(Node) /\ Distinct(sib)
  <2>1. <<>> \in Seq(Node) /\ Distinct(<<>>)
    BY EmptySeq DEF Distinct
  <2> HIDE DEF sib
  <2> QED BY <1>3, <1>4, <2>1
<1>6. /\ k \in 0..Len(s)
      /\ p # NULL => Len(sib) + k <= MAX_CHILDREN
      /\ RoomForOrphans(t, n) => k = Len(s)
  <2>1. CASE p = NULL
    BY <1>2, <1>4, <2>1 DEF RoomForOrphans
  <2>2. CASE p # NULL
    <3>1. k = Min({MAX_CHILDREN - Len(sib), Len(s)})
      BY <2>2 DEF Adoptable
    <3>2. MAX_CHILDREN - Len(sib) \in Nat
      BY <1>3, <2>2, TreeAssumption
    <3> HIDE DEF sib, s, k, p
    <3>3. k \in Nat /\ k <= MAX_CHILDREN - Len(sib) /\ k <= Len(s)
      BY <1>2, <3>1, <3>2, MinOfTwo
    <3>4. RoomForOrphans(t, n) => Len(s) <= MAX_CHILDREN - Len(sib)
      <4>1. RoomForOrphans(t, n) => Len(t.kids[p]) - 1 + Len(s) <= MAX_CHILDREN
        BY DEF RoomForOrphans, p, s
      <4> QED BY <1>2, <1>3, <2>2, <4>1, TreeAssumption
    <3>5. RoomForOrphans(t, n) => k = Len(s)
      BY <1>2, <3>1, <3>2, <3>4, MinOfTwo
    <3>6. Len(sib) + k <= MAX_CHILDREN
      BY <1>3, <2>2, <3>3, TreeAssumption
    <3>7. k \in 0..Len(s)
      BY <1>2, <3>3
    <3> QED BY <3>5, <3>6, <3>7
  <2> QED BY <2>1, <2>2
<1> HIDE DEF k, s
<1>7. Adopted(t, n) = SubSeq(s, 1, k) /\ CastOff(t, n) = SubSeq(s, k + 1, Len(s))
  BY DEF Adopted, CastOff, k, s
<1>8. k \in k..Len(s)
  <2>1. \A x, y \in Int : x \in 0..y => x \in x..y
    OBVIOUS
  <2>2. k \in 0..Len(s) /\ Len(s) \in Nat
    BY <1>2, <1>6
  <2> QED BY <2>1, <2>2
<1>9. LET a == SubSeq(s, 1, k)
          b == SubSeq(s, k + 1, Len(s))
      IN  /\ a \in Seq(Node) /\ Len(a) = k /\ Distinct(a)
          /\ b \in Seq(Node) /\ Len(b) = Len(s) - k /\ Distinct(b)
          /\ Range(a) \cup Range(b) = {s[i] : i \in (1..k) \cup ((k + 1)..Len(s))}
          /\ Range(a) \cap Range(b) = {}
  BY <1>2, <1>6, <1>8, CutProperties
<1>10. {s[i] : i \in (1..k) \cup ((k + 1)..Len(s))} = Range(s)
  <2>1. (1..k) \cup ((k + 1)..Len(s)) = DOMAIN s
    <3>1. \A x, y \in Nat : x <= y => (1..x) \cup ((x + 1)..y) = 1..y
      OBVIOUS
    <3>2. k \in Nat /\ k <= Len(s)
      <4>1. k \in 0..Len(s)
        BY <1>6
      <4>2. Len(s) \in Nat
        BY <1>2
      <4> QED BY <4>1, <4>2
    <3>3. (1..k) \cup ((k + 1)..Len(s)) = 1..Len(s)
      BY <1>2, <3>1, <3>2
    <3> QED BY <1>2, <3>3
  <2> QED BY <2>1 DEF Range
<1>11. p = NULL => Adopted(t, n) = <<>>
  <2>1. p = NULL => Adopted(t, n) \in Seq(Node) /\ Len(Adopted(t, n)) = 0
    BY <1>4, <1>7, <1>9
  <2> QED BY <2>1, EmptySeq
<1>12. RoomForOrphans(t, n) => Range(CastOff(t, n)) = {}
  <2> SUFFICES ASSUME RoomForOrphans(t, n) PROVE Range(CastOff(t, n)) = {}
    OBVIOUS
  <2>1. CastOff(t, n) \in Seq(Node) /\ Len(CastOff(t, n)) = 0
    <3>1. CastOff(t, n) \in Seq(Node) /\ Len(CastOff(t, n)) = Len(s) - k
      BY <1>7, <1>9
    <3>2. k = Len(s)
      BY <1>6
    <3> QED BY <1>2, <3>1, <3>2
  <2>2. DOMAIN CastOff(t, n) = 1..0
    BY <2>1, LenProperties
  <2> QED BY <2>2 DEF Range
<1> HIDE DEF sib, p
<1>13. /\ Adopted(t, n) \in Seq(Node) /\ Distinct(Adopted(t, n))
       /\ Range(Adopted(t, n)) \cup Range(CastOff(t, n)) = ChildrenOf(t, n)
       /\ Range(Adopted(t, n)) \cap Range(CastOff(t, n)) = {}
       /\ Len(Adopted(t, n)) = k
  BY <1>2, <1>7, <1>9, <1>10
<1> QED BY <1>1, <1>3, <1>5, <1>6, <1>11, <1>12, <1>13 DEF sib, p

LEMMA DetachSound ==
  ASSUME NEW t, Sound(t), t.total > 0, NEW n \in t.live
  PROVE  /\ Sound(DetachNode(t, n))
         /\ RootsHaveNoParent(t) => RootsHaveNoParent(DetachNode(t, n))
<1> DEFINE D == DetachNode(t, n)
           L == t.live \ {n}
           p == t.parent[n]
           sib == Siblings(t, n)
           ado == Adopted(t, n)
           A == Range(Adopted(t, n))
           C == Range(CastOff(t, n))
<1> HIDE DEF D, L, p, sib, ado, A, C
<1>0. /\ D = [live |-> D.live, root |-> D.root, total |-> D.total, parent |-> D.parent,
              kids |-> D.kids, isRoot |-> D.isRoot, id |-> D.id]
      /\ D.live = L
      /\ D.root = IF p = NULL /\ t.root = n THEN NULL ELSE t.root
      /\ D.total = t.total - 1
      /\ D.parent = [m \in L |-> IF m \in A THEN p ELSE IF m \in C THEN NULL ELSE t.parent[m]]
      /\ D.kids = [m \in L |-> IF m = p THEN sib \o ado ELSE t.kids[m]]
      /\ D.isRoot = [m \in L |-> m \in C \/ t.isRoot[m]]
      /\ D.id = [m \in L |-> t.id[m]]
  BY DEF DetachNode, NewParent, NewKids, NewFlag, D, L, p, sib, ado, A, C
<1>1. /\ NULL \notin t.live /\ t.live \subseteq Node /\ n \in t.live
      /\ LinksAsSets(t)
  BY LinksAreSets, TreeAssumption DEF Sound, TreeType
<1>2. /\ p # n
      /\ sib \in Seq(Node) /\ Distinct(sib)
      /\ ado \in Seq(Node) /\ Distinct(ado)
      /\ A \cup C = ChildrenOf(t, n)
      /\ A \cap C = {}
      /\ A = Range(ado)
      /\ p # NULL => /\ p \in t.live
                     /\ Range(sib) = ChildrenOf(t, p) \ {n}
                     /\ Len(sib) + Len(ado) <= MAX_CHILDREN
      /\ p = NULL => ado = <<>>
  BY DetachPieces DEF p, sib, ado, A, C
<1>3. p = NULL => A = {}
  BY <1>2 DEF Range
<1>4. /\ L \subseteq t.live /\ n \notin L /\ p \in L \cup {NULL}
      /\ \A m \in t.live : m \in L \/ m = n
  BY <1>1, <1>2 DEF L
<1>5. A \cup C \subseteq L
  BY <1>2, <1>4 DEF ChildrenOf, p
<1>6. \A m \in L : D.parent[m] = IF m \in A THEN p ELSE IF m \in C THEN NULL ELSE t.parent[m]
  BY <1>0
<1>7. \A m \in L : m \notin A \cup C => D.parent[m] = t.parent[m] /\ t.parent[m] # n
  BY <1>2, <1>4, <1>6 DEF ChildrenOf
<1>8. \A m \in L : m # p => D.kids[m] = t.kids[m]
  BY <1>0
<1>9. ASSUME p # NULL
      PROVE  /\ D.kids[p] = sib \o ado
             /\ D.kids[p] \in Seq(Node) /\ Distinct(D.kids[p])
             /\ Range(D.kids[p]) = (ChildrenOf(t, p) \ {n}) \cup A
             /\ Len(D.kids[p]) <= MAX_CHILDREN
  <2>1. D.kids[p] = sib \o ado
    BY <1>0, <1>4, <1>9
  <2>2. Range(sib) \cap Range(ado) = {}
    BY <1>2, <1>9 DEF ChildrenOf
  <2>3. /\ sib \o ado \in Seq(Node) /\ Len(sib \o ado) = Len(sib) + Len(ado)
        /\ Range(sib \o ado) = Range(sib) \cup Range(ado) /\ Distinct(sib \o ado)
    BY <1>2, <2>2, JoinProperties, JoinDistinct
  <2> QED BY <1>2, <1>9, <2>1, <2>3
<1>10. TreeType(D)
  <2>1. D.live \in SUBSET Node /\ IsFiniteSet(D.live)
    <3>1. IsFiniteSet(t.live)
      BY DEF Sound, TreeType
    <3> QED BY <1>0, <1>1, <1>4, <3>1, FS_Subset
  <2>2. D.root \in Node \cup {NULL} /\ D.total \in Nat
    BY <1>0 DEF Sound, TreeType
  <2>3. D.parent \in [D.live -> Node \cup {NULL}]
    <3>1. \A m \in L : D.parent[m] \in Node \cup {NULL}
      BY <1>1, <1>4, <1>6 DEF Sound, TreeType
    <3> QED BY <1>0, <3>1
  <2>4. \A m \in L : D.kids[m] \in Seq(Node)
    <3>1. \A m \in L : t.kids[m] \in Seq(Node)
      BY <1>4 DEF Sound, TreeType
    <3>2. p \in L => D.kids[p] \in Seq(Node)
      BY <1>1, <1>4, <1>9
    <3> QED BY <1>8, <3>1, <3>2
  <2>5. D.kids \in [D.live -> Seq(Node)]
    BY <1>0, <2>4
  <2>6. D.isRoot \in [D.live -> BOOLEAN]
    BY <1>0
  <2>7. DOMAIN D.id = D.live
    BY <1>0
  <2> QED BY <1>0, <2>1, <2>2, <2>3, <2>5, <2>6, <2>7 DEF TreeType
<1>11. LinksAsSets(D)
  <2>1. D.root # NULL => D.root \in D.live /\ D.parent[D.root] = NULL
    <3> SUFFICES ASSUME D.root # NULL PROVE D.root \in L /\ D.parent[D.root] = NULL
      BY <1>0
    <3>1. D.root = t.root /\ t.root \in t.live /\ t.parent[t.root] = NULL
      BY <1>0, <1>1 DEF LinksAsSets
    <3>2. t.root # n
      BY <1>0, <3>1 DEF p
    <3>3. t.root \notin A \cup C
      BY <1>1, <1>2, <3>1 DEF ChildrenOf
    <3> QED BY <1>4, <1>7, <3>1, <3>2, <3>3
  <2>2. \A m \in D.live : D.parent[m] \in D.live \cup {NULL}
    BY <1>0, <1>1, <1>4, <1>6, <1>7 DEF LinksAsSets
  <2>3. ASSUME NEW m \in L
        PROVE  Range(D.kids[m]) = ChildrenOf(D, m) /\ Distinct(D.kids[m])
    <3>1. CASE m = p
      <4>1. ChildrenOf(D, m) \subseteq (ChildrenOf(t, p) \ {n}) \cup A
        BY <1>0, <1>1, <1>4, <1>6, <3>1 DEF ChildrenOf
      <4>2. (ChildrenOf(t, p) \ {n}) \cup A \subseteq ChildrenOf(D, m)
        BY <1>0, <1>1, <1>2, <1>4, <1>5, <1>6, <3>1 DEF ChildrenOf
      <4> QED BY <1>1, <1>4, <1>9, <3>1, <4>1, <4>2
    <3>2. CASE m # p
      <4>1. ChildrenOf(D, m) = ChildrenOf(t, m)
        BY <1>0, <1>1, <1>2, <1>4, <1>6, <3>2 DEF ChildrenOf, p
      <4> QED BY <1>1, <1>4, <1>8, <3>2, <4>1 DEF LinksAsSets
    <3> QED BY <3>1, <3>2
  <2> QED BY <1>0, <2>1, <2>2, <2>3 DEF LinksAsSets
<1>12. Acyclic(D)
  <2> SUFFICES ASSUME NEW S \in SUBSET L, S # {}, \A m \in S : D.parent[m] \in S
               PROVE  FALSE
    BY <1>0 DEF Acyclic
  <2>1. S \cap C = {}
    BY <1>1, <1>2, <1>4, <1>6
  <2>2. CASE S \cap A = {}
    <3>1. \A m \in S : t.parent[m] \in S
      BY <1>7, <2>1, <2>2
    <3>2. S \in SUBSET t.live
      BY <1>4
    <3> QED BY <3>1, <3>2 DEF Sound, Acyclic
  <2>3. CASE S \cap A # {}
    <3>1. p \in S
      BY <1>6, <2>3
    <3>2. \A m \in S : t.parent[m] \in S \cup {n}
      BY <1>2, <1>7, <2>1 DEF ChildrenOf
    <3>3. \A m \in S \cup {n} : t.parent[m] \in S \cup {n}
      BY <3>1, <3>2 DEF p
    <3>4. S \cup {n} \in SUBSET t.live /\ S \cup {n} # {}
      BY <1>1, <1>4
    <3> QED BY <3>3, <3>4 DEF Sound, Acyclic
  <2> QED BY <2>2, <2>3
<1>13. ASSUME RootsHaveNoParent(t) PROVE RootsHaveNoParent(D)
  <2>1. ASSUME NEW m \in L PROVE D.isRoot[m] <=> D.parent[m] = NULL
    <3>1. t.isRoot[m] <=> t.parent[m] = NULL
      BY <1>4, <1>13 DEF RootsHaveNoParent
    <3>2. D.isRoot[m] <=> m \in C \/ t.isRoot[m]
      BY <1>0
    <3>3. m \in A => t.parent[m] = n /\ D.parent[m] = p /\ p # NULL /\ m \notin C
      BY <1>2, <1>3, <1>6 DEF ChildrenOf
    <3>4. m \in C => D.parent[m] = NULL
      BY <1>2, <1>6
    <3>5. n # NULL
      BY <1>1
    <3>6. m \notin A \cup C => D.parent[m] = t.parent[m]
      BY <1>7
    <3> QED BY <3>1, <3>2, <3>3, <3>4, <3>5, <3>6, Zenon
  <2> QED BY <1>0, <2>1, Zenon DEF RootsHaveNoParent
<1>14. ChildrenFit(D)
  <2>1. \A m \in L : Len(D.kids[m]) <= MAX_CHILDREN
    BY <1>1, <1>4, <1>8, <1>9 DEF Sound, ChildrenFit
  <2> QED BY <1>0, <2>1 DEF ChildrenFit
<1> QED BY <1>10, <1>11, <1>12, <1>13, <1>14, LinksAreSets DEF Sound, D

-----------------------------------------------------------------------------
(* tree_destroy: whole trees go, and what stays has neither parent nor child   *)
(* among what went.                                                            *)

LEMMA SurvivorsApart ==
  ASSUME NEW t, Sound(t), NEW m \in t.live, NEW c \in t.live, t.parent[c] = m
  PROVE  m \in Descendants(t) <=> c \in Descendants(t)
<1>1. NULL \notin t.live /\ LinksAsSets(t) /\ c \in Range(t.kids[m])
  <2>1. NULL \notin t.live /\ LinksAsSets(t)
    BY LinksAreSets, TreeAssumption DEF Sound, TreeType
  <2> QED BY <2>1 DEF LinksAsSets, ChildrenOf
<1>2. CASE t.root = NULL
  BY <1>2 DEF Descendants
<1>3. CASE t.root # NULL
  <2>1. c # t.root
    BY <1>1, <1>3 DEF LinksAsSets
  <2>2. ASSUME m \in Descendants(t), NEW S \in SUBSET t.live, t.root \in S, ClosedUnderKids(t, S)
        PROVE  c \in S
    <3>1. m \in S
      BY <1>3, <2>2 DEF Descendants
    <3> QED BY <1>1, <2>2, <3>1 DEF ClosedUnderKids
  <2>3. ASSUME c \in Descendants(t), NEW S \in SUBSET t.live, t.root \in S, ClosedUnderKids(t, S),
               m \notin S
        PROVE  FALSE
    <3> DEFINE R == S \ {c}
    <3>1. R \in SUBSET t.live /\ t.root \in R
      BY <2>1, <2>3
    <3>2. ASSUME NEW x \in R, NEW y \in Range(t.kids[x]) PROVE y \in R
      <4>1. y \in S /\ t.parent[y] = x
        BY <1>1, <2>3, <3>2 DEF ClosedUnderKids, LinksAsSets, ChildrenOf
      <4>2. y # c
        BY <2>3, <3>2, <4>1
      <4> QED BY <4>1, <4>2
    <3>3. ClosedUnderKids(t, R)
      BY <3>2 DEF ClosedUnderKids
    <3>4. c \in R
      BY <1>3, <2>3, <3>1, <3>3 DEF Descendants
    <3> QED BY <3>4
  <2> QED BY <1>3, <2>2, <2>3 DEF Descendants
<1> QED BY <1>2, <1>3

LEMMA DestroySound ==
  ASSUME NEW t, Sound(t)
  PROVE  /\ Sound(tree_destroy(t))
         /\ RootsHaveNoParent(t) => RootsHaveNoParent(tree_destroy(t))
<1> DEFINE D == tree_destroy(t)
           L == t.live \ Descendants(t)
<1> HIDE DEF D, L
<1>0. /\ D = [live |-> D.live, root |-> D.root, total |-> D.total, parent |-> D.parent,
              kids |-> D.kids, isRoot |-> D.isRoot, id |-> D.id]
      /\ D.live = L
      /\ D.root = NULL
      /\ D.total = 0
      /\ D.parent = [m \in L |-> t.parent[m]]
      /\ D.kids = [m \in L |-> t.kids[m]]
      /\ D.isRoot = [m \in L |-> t.isRoot[m]]
      /\ D.id = [m \in L |-> t.id[m]]
  BY DEF tree_destroy, D, L
<1>1. NULL \notin t.live /\ t.live \subseteq Node /\ L \subseteq t.live /\ LinksAsSets(t)
  BY LinksAreSets, TreeAssumption DEF Sound, TreeType, L
<1>2. TreeType(D)
  <2>1. D.live \in SUBSET Node /\ IsFiniteSet(D.live)
    <3>1. IsFiniteSet(t.live)
      BY DEF Sound, TreeType
    <3> QED BY <1>0, <1>1, <3>1, FS_Subset
  <2>2. /\ D.parent \in [D.live -> Node \cup {NULL}]
        /\ D.kids \in [D.live -> Seq(Node)]
        /\ D.isRoot \in [D.live -> BOOLEAN]
    BY <1>0, <1>1 DEF Sound, TreeType
  <2> QED BY <1>0, <2>1, <2>2 DEF TreeType
<1>3. LinksAsSets(D)
  <2>1. \A m \in L : D.parent[m] \in L \cup {NULL}
    BY <1>0, <1>1, SurvivorsApart DEF LinksAsSets, L
  <2>2. ASSUME NEW m \in L PROVE ChildrenOf(D, m) = ChildrenOf(t, m)
    BY <1>0, <1>1, SurvivorsApart DEF ChildrenOf, L
  <2>3. \A m \in L : Range(D.kids[m]) = ChildrenOf(D, m) /\ Distinct(D.kids[m])
    BY <1>0, <1>1, <2>2 DEF LinksAsSets
  <2> QED BY <1>0, <2>1, <2>3 DEF LinksAsSets
<1>4. Acyclic(D)
  BY <1>0, <1>1 DEF Sound, Acyclic
<1>5. ASSUME RootsHaveNoParent(t) PROVE RootsHaveNoParent(D)
  <2>1. \A m \in L : D.isRoot[m] = t.isRoot[m] /\ D.parent[m] = t.parent[m]
    BY <1>0
  <2>2. \A m \in L : t.isRoot[m] <=> t.parent[m] = NULL
    BY <1>1, <1>5 DEF RootsHaveNoParent
  <2> QED BY <1>0, <2>1, <2>2, Zenon DEF RootsHaveNoParent
<1>6. ChildrenFit(D)
  BY <1>0, <1>1 DEF Sound, ChildrenFit
<1> QED BY <1>2, <1>3, <1>4, <1>5, <1>6, LinksAreSets DEF Sound, D

-----------------------------------------------------------------------------
(* Calls *)

(* What a call to tree_create_node does: attach the node, or nothing.          *)
LEMMA CreateAttaches ==
  ASSUME NEW t, Sound(t), NEW n, NEW x, NEW p
  PROVE  \/ tree_create_node(t, n, x, p) = t
         \/ \E q \in t.live \cup {NULL} :
              /\ q = NULL => t.root = NULL
              /\ q # NULL => HasRoom(t, q)
              /\ tree_create_node(t, n, x, p) = AttachNode(t, n, x, q)
<1> DEFINE q == tree_find_node(t, p)
<1>1. q \in t.live \cup {NULL}
  BY FoundIsLive
<1> HIDE DEF q
<1>2. CASE t.root = NULL
  BY <1>2 DEF tree_create_node
<1>3. CASE t.root # NULL
  BY <1>1, <1>3 DEF tree_create_node, q
<1> QED BY <1>2, <1>3

(* What a call to tree_delete_node does: detach a live node, or nothing.       *)
LEMMA DeleteDetaches ==
  ASSUME NEW t, Sound(t), NEW x
  PROVE  \/ tree_delete_node(t, x) = t
         \/ \E n \in t.live : tree_delete_node(t, x) = DetachNode(t, n)
<1> DEFINE n == tree_find_node(t, x)
<1>1. n \in t.live \cup {NULL}
  BY FoundIsLive
<1> HIDE DEF n
<1> QED BY <1>1 DEF tree_delete_node, n

(* The count of a context stays that of its nodes. *)
LEMMA AttachCounts ==
  ASSUME NEW t, Sound(t), CountExact(t), NEW n \in Node \ t.live, NEW x, NEW q
  PROVE  CountExact(AttachNode(t, n, x, q))
<1>1. Cardinality(t.live \cup {n}) = Cardinality(t.live) + 1
  BY FS_AddElement DEF Sound, TreeType
<1> QED BY <1>1 DEF CountExact, AttachNode

LEMMA DetachCounts ==
  ASSUME NEW t, Sound(t), CountExact(t), NEW n \in t.live
  PROVE  t.total > 0 /\ CountExact(DetachNode(t, n))
<1>1. Cardinality(t.live \ {n}) = Cardinality(t.live) - 1
  BY FS_RemoveElement DEF Sound, TreeType
<1>2. Cardinality(t.live \ {n}) \in Nat /\ Cardinality(t.live) \in Nat
  BY FS_RemoveElement, FS_CardinalityType DEF Sound, TreeType
<1> QED BY <1>1, <1>2 DEF CountExact, DetachNode

-----------------------------------------------------------------------------
(* When the parent has room for all the children of the node deleted, the      *)
(* nodes linked to ctx->root are the same but for that node.                   *)
LEMMA DetachKeepsLinked ==
  ASSUME NEW t, Sound(t), NEW n \in t.live, RoomForOrphans(t, n)
  PROVE  Linked(DetachNode(t, n)) = Linked(t) \ {n}
<1> DEFINE D == DetachNode(t, n)
           L == t.live \ {n}
           p == t.parent[n]
           A == Range(Adopted(t, n))
           C == Range(CastOff(t, n))
<1> HIDE DEF D, L, p, A, C
<1>1. /\ D.live = L
      /\ D.root = IF p = NULL /\ t.root = n THEN NULL ELSE t.root
      /\ D.parent = [m \in L |-> IF m \in A THEN p ELSE IF m \in C THEN NULL ELSE t.parent[m]]
  BY DEF DetachNode, NewParent, D, L, p, A, C
<1>2. /\ NULL \notin t.live /\ LinksAsSets(t)
      /\ p # NULL /\ p # n /\ p \in t.live
      /\ A = ChildrenOf(t, n) /\ C = {}
  <2>1. A \cup C = ChildrenOf(t, n) /\ p # n /\ C = {} /\ (p # NULL => p \in t.live)
    BY DetachPieces DEF p, A, C
  <2>2. NULL \notin t.live /\ LinksAsSets(t)
    BY LinksAreSets, TreeAssumption DEF Sound, TreeType
  <2> QED BY <2>1, <2>2 DEF RoomForOrphans, p
<1>3. /\ n \in t.live /\ L = t.live \ {n} /\ p \in L
      /\ D.root = t.root /\ t.root # n
      /\ \A m \in L : IF t.parent[m] = n THEN D.parent[m] = p ELSE D.parent[m] = t.parent[m]
  BY <1>1, <1>2 DEF L, LinksAsSets, ChildrenOf, p
<1>4. ASSUME NEW m \in Linked(t), m # n PROVE m \in Linked(D)
  <2>1. m \in L /\ t.root \in L
    BY <1>3, <1>4 DEF Linked, Ancestors
  <2>2. ASSUME NEW S \in SUBSET L, m \in S, ClosedUnderParent(D, S) PROVE t.root \in S
    <3>1. \A y \in S : D.parent[y] = NULL \/ D.parent[y] \in S
      BY <2>2 DEF ClosedUnderParent
    <3> DEFINE U == IF p \in S THEN S \cup {n} ELSE S
    <3>2. U \in SUBSET t.live /\ m \in U
      BY <1>3, <2>2
    <3>3. ASSUME NEW y \in U PROVE t.parent[y] = NULL \/ t.parent[y] \in U
      <4>1. CASE y = n
        BY <1>3, <3>3, <4>1 DEF p
      <4>2. CASE y \in S /\ t.parent[y] = n
        BY <1>2, <1>3, <3>1, <4>2
      <4>3. CASE y \in S /\ t.parent[y] # n
        BY <1>3, <3>1, <4>3
      <4> QED BY <4>1, <4>2, <4>3
    <3>4. t.root \in U
      BY <1>4, <3>2, <3>3 DEF Linked, Ancestors, ClosedUnderParent
    <3> QED BY <1>3, <3>4
  <2> QED BY <1>1, <1>3, <2>1, <2>2 DEF Linked, Ancestors
<1>5. ASSUME NEW m \in Linked(D) PROVE m \in Linked(t) /\ m # n
  <2>1. m \in L /\ t.root \in L
    BY <1>1, <1>3, <1>5 DEF Linked, Ancestors
  <2>2. ASSUME NEW S \in SUBSET t.live, m \in S, ClosedUnderParent(t, S) PROVE t.root \in S
    <3>1. \A y \in S : t.parent[y] = NULL \/ t.parent[y] \in S
      BY <2>2 DEF ClosedUnderParent
    <3> DEFINE U == S \ {n}
    <3>2. U \in SUBSET L /\ m \in U
      BY <1>3, <2>1, <2>2
    <3>3. ASSUME NEW y \in U PROVE D.parent[y] = NULL \/ D.parent[y] \in U
      <4>1. CASE t.parent[y] = n
        <5>1. n \in S
          BY <1>2, <3>1, <3>3, <4>1
        <5>2. p \in S
          BY <1>2, <3>1, <5>1 DEF p
        <5> QED BY <1>2, <1>3, <3>2, <3>3, <4>1, <5>2
      <4>2. CASE t.parent[y] # n
        BY <1>3, <3>1, <3>2, <3>3, <4>2
      <4> QED BY <4>1, <4>2
    <3>4. t.root \in U
      BY <1>1, <1>3, <1>5, <3>2, <3>3 DEF Linked, Ancestors, ClosedUnderParent
    <3> QED BY <3>4
  <2> QED BY <1>3, <2>1, <2>2 DEF Linked, Ancestors
<1> QED BY <1>4, <1>5 DEF D

-----------------------------------------------------------------------------
(* Induction over numbers, as a fact about sets. *)

(* A set of numbers that is not empty has a least element. *)
LEMMA LeastExists ==
  ASSUME NEW S \in SUBSET Nat, S # {}
  PROVE  \E x \in S : \A y \in S : x <= y
<1> DEFINE Upto(x) == {y \in S : y <= x}
           T == {Upto(x) : x \in S}
<1>1. T \subseteq FiniteSubsetsOf(Nat) /\ T # {}
  <2>1. ASSUME NEW x \in S PROVE IsFiniteSet(Upto(x))
    BY FS_BoundedSetOfNaturals
  <2> QED BY <2>1 DEF FiniteSubsetsOf
<1>2. PICK M \in T : \A U \in T : <<U, M>> \notin StrictSubsetOrdering(Nat)
  <2> HIDE DEF T
  <2> QED BY <1>1, WFMin, FS_StrictSubsetOrderingWellFounded
<1>3. PICK x \in S : M = Upto(x)
  OBVIOUS
<1>4. ASSUME NEW y \in S PROVE x <= y
  <2> SUFFICES ASSUME y < x PROVE FALSE
    OBVIOUS
  <2>0. x \in Nat /\ y \in Nat /\ \A z \in S : z \in Nat
    OBVIOUS
  <2>1. Upto(y) \subseteq Upto(x) /\ x \in Upto(x) /\ x \notin Upto(y)
    <3>1. \A z \in S : z <= y => z <= x
      BY <2>0
    <3>2. ~(x <= y) /\ x <= x
      BY <2>0
    <3> QED BY <3>1, <3>2
  <2>2. Upto(y) \in T /\ Upto(y) \in SUBSET Nat /\ Upto(x) \in SUBSET Nat
    OBVIOUS
  <2> HIDE DEF T, Upto
  <2> QED BY <1>2, <1>3, <2>1, <2>2 DEF StrictSubsetOrdering
<1> QED BY <1>4

(* What holds of 0 and of the number after each holds of all. *)
LEMMA NumberInduction ==
  ASSUME NEW S, 0 \in S, \A k \in Nat : k \in S => k + 1 \in S
  PROVE  \A k \in Nat : k \in S
<1> SUFFICES ASSUME Nat \ S # {} PROVE FALSE
  OBVIOUS
<1>1. PICK x \in Nat \ S : \A y \in Nat \ S : x <= y
  BY LeastExists
<1>2. x # 0 /\ x - 1 \in Nat /\ ~(x <= x - 1) /\ x - 1 + 1 = x
  BY <1>1
<1>3. x - 1 \in S
  BY <1>1, <1>2
<1> QED BY <1>1, <1>2, <1>3

(* A function that starts with a and goes on by step: every definition of a    *)
(* function by recursion over numbers is one of these.                         *)
StepsOf(S) == [Nat -> [S -> S]]

Iterates(f, S, a, step) ==
  f \in [Nat -> S] /\ f[0] = a /\ \A k \in Nat : f[k + 1] = step[k][f[k]]

LEMMA IterationExists ==
  ASSUME NEW S, NEW a \in S, NEW step \in StepsOf(S)
  PROVE  \E f : Iterates(f, S, a, step)
<1> USE DEF StepsOf
<1> DEFINE Goes(g, n) == /\ g \in [0..n -> S]
                         /\ g[0] = a
                         /\ \A k \in 0..(n - 1) : g[k + 1] = step[k][g[k]]
           Started == {n \in Nat : \E g : Goes(g, n)}
<1>1. 0 \in Started
  <2>1. Goes([i \in 0..0 |-> a], 0)
    OBVIOUS
  <2> QED BY <2>1
<1>2. ASSUME NEW n \in Nat, n \in Started PROVE n + 1 \in Started
  <2>1. PICK g : Goes(g, n)
    BY <1>2
  <2> DEFINE h == [i \in 0..(n + 1) |-> IF i = n + 1 THEN step[n][g[n]] ELSE g[i]]
  <2>2. g[n] \in S /\ step[n][g[n]] \in S
    BY <2>1
  <2>3. h \in [0..(n + 1) -> S]
    BY <2>1, <2>2
  <2>4. h[0] = a
    BY <2>1
  <2>5. ASSUME NEW k \in 0..((n + 1) - 1) PROVE h[k + 1] = step[k][h[k]]
    <3>1. k \in 0..n /\ k # n + 1 /\ k + 1 \in 0..(n + 1)
      OBVIOUS
    <3>2. h[k] = g[k]
      BY <3>1
    <3>3. CASE k = n
      BY <3>1, <3>2, <3>3
    <3>4. CASE k # n
      <4>1. k \in 0..(n - 1) /\ k + 1 # n + 1
        BY <3>1, <3>4
      <4> QED BY <2>1, <3>1, <3>2, <4>1
    <3> QED BY <3>3, <3>4
  <2>6. Goes(h, n + 1)
    BY <2>3, <2>4, <2>5
  <2> HIDE DEF h, Goes
  <2> QED BY <2>6
<1>3. \A n \in Nat : \E g : Goes(g, n)
  <2> HIDE DEF Goes
  <2>1. \A n \in Nat : n \in Started
    <3> HIDE DEF Started
    <3> QED BY <1>1, <1>2, NumberInduction
  <2> QED BY <2>1
<1>4. ASSUME NEW m \in Nat, NEW n \in Nat, NEW g, NEW h, Goes(g, m), Goes(h, n),
             NEW k \in Nat, k <= m, k <= n
      PROVE  g[k] = h[k]
  <2> DEFINE Agree == {i \in Nat : i <= m /\ i <= n => g[i] = h[i]}
  <2>1. 0 \in Agree
    BY <1>4
  <2>2. ASSUME NEW i \in Nat, i \in Agree PROVE i + 1 \in Agree
    <3> SUFFICES ASSUME i + 1 <= m, i + 1 <= n PROVE g[i + 1] = h[i + 1]
      OBVIOUS
    <3>1. i <= m /\ i <= n /\ i \in 0..(m - 1) /\ i \in 0..(n - 1)
      OBVIOUS
    <3> QED BY <1>4, <2>2, <3>1
  <2>3. k \in Agree
    <3> HIDE DEF Agree
    <3> QED BY <2>1, <2>2, NumberInduction
  <2> QED BY <1>4, <2>3
<1> DEFINE start == [n \in Nat |-> CHOOSE g : Goes(g, n)]
           f == [n \in Nat |-> start[n][n]]
<1>5. \A n \in Nat : Goes(start[n], n)
  <2> HIDE DEF Goes
  <2> QED BY <1>3
<1> HIDE DEF start
<1>6. \A n \in Nat : f[n] \in S
  BY <1>5
<1>7. f[0] = a
  BY <1>5
<1>8. ASSUME NEW k \in Nat PROVE f[k + 1] = step[k][f[k]]
  <2>1. k + 1 \in Nat /\ k <= k + 1 /\ k <= k /\ k \in 0..((k + 1) - 1)
    OBVIOUS
  <2>2. Goes(start[k + 1], k + 1) /\ Goes(start[k], k)
    BY <1>5, <2>1
  <2>3. start[k + 1][k] = start[k][k]
    <3> HIDE DEF Goes
    <3> QED BY <1>4, <2>1, <2>2
  <2>4. start[k + 1][k + 1] = step[k][start[k + 1][k]]
    BY <2>1, <2>2
  <2> QED BY <2>1, <2>3, <2>4
<1>9. Iterates(f, S, a, step)
  BY <1>6, <1>7, <1>8 DEF Iterates
<1> QED BY <1>9

-----------------------------------------------------------------------------
(* Sequences, and FlattenSeq: sequences one after the other. *)

LEMMA SeqOfFunction ==
  ASSUME NEW T, NEW n \in Nat, NEW b \in [1..n -> T]
  PROVE  b \in Seq(T) /\ Len(b) = n
<1>1. b \in Seq(T)
  BY SeqDef
<1> QED BY <1>1, LenProperties

LEMMA SeqOfOne ==
  ASSUME NEW T, NEW x \in T
  PROVE  /\ <<x>> \in Seq(T) /\ Len(<<x>>) = 1 /\ <<x>>[1] = x
         /\ Range(<<x>>) = {x} /\ Distinct(<<x>>)
<1>1. <<x>> \in Seq(T) /\ Len(<<x>>) = 1 /\ <<x>>[1] = x /\ DOMAIN <<x>> = {1}
  OBVIOUS
<1>2. Range(<<x>>) = {x}
  BY <1>1 DEF Range
<1>3. Distinct(<<x>>)
  BY <1>1 DEF Distinct
<1> QED BY <1>1, <1>2, <1>3

(* What there is of the whole after each of its pieces. *)
Accumulates(f, ss) ==
  /\ f[0] = <<>>
  /\ \A i \in 1..Len(ss) : f[i] = f[i - 1] \o ss[i]

LEMMA FlattenAccumulates ==
  ASSUME NEW T, NEW ss \in Seq(Seq(T))
  PROVE  \E f \in [Nat -> Seq(T)] : Accumulates(f, ss) /\ FlattenSeq(ss) = f[Len(ss)]
<1> DEFINE L == Len(ss)
           piece(i) == IF i \in 1..L THEN ss[i] ELSE <<>>
           step == [k \in Nat |-> [s \in Seq(T) |-> s \o piece(k + 1)]]
<1>1. L \in Nat /\ DOMAIN ss = 1..L /\ \A i \in 1..L : ss[i] \in Seq(T)
  BY LenProperties, ElementOfSeq
<1> HIDE DEF L
<1>2. <<>> \in Seq(T) /\ \A i \in Nat : piece(i) \in Seq(T)
  BY <1>1
<1>3. \A s, u \in Seq(T) : s \o u \in Seq(T)
  BY ConcatProperties
<1> HIDE DEF piece
<1>4. step \in [Nat -> [Seq(T) -> Seq(T)]]
  BY <1>2, <1>3
<1>5. PICK f : Iterates(f, Seq(T), <<>>, step)
  <2> HIDE DEF step
  <2>1. step \in StepsOf(Seq(T))
    BY <1>4 DEF StepsOf
  <2> QED BY <1>2, <2>1, IterationExists
<1>9. f \in [Nat -> Seq(T)] /\ f[0] = <<>> /\ \A k \in Nat : f[k + 1] = step[k][f[k]]
  BY <1>5 DEF Iterates
<1>6. ASSUME NEW i \in 1..L PROVE f[i] = f[i - 1] \o ss[i]
  <2>1. i - 1 \in Nat /\ (i - 1) + 1 = i
    BY <1>1
  <2>2. f[i] = f[i - 1] \o piece((i - 1) + 1)
    BY <1>9, <2>1
  <2> QED BY <2>1, <2>2 DEF piece
<1>10. ASSUME NEW k \in Nat, k + 1 \in 1..L PROVE f[k + 1] = f[k] \o ss[k + 1]
  <2>1. (k + 1) - 1 = k
    OBVIOUS
  <2> QED BY <1>6, <1>10, <2>1
<1>11. L # 0 => f[1] = ss[1]
  <2> SUFFICES ASSUME L # 0 PROVE f[1] = ss[1]
    OBVIOUS
  <2>1. 0 + 1 = 1 /\ 1 \in 1..L
    BY <1>1
  <2>2. f[1] = <<>> \o ss[1]
    BY <1>9, <1>10, <2>1
  <2>3. <<>> \o ss[1] = ss[1]
    BY <1>1, <2>1, ConcatEmptySeq
  <2> QED BY <2>2, <2>3
<1>7. CASE L = 0
  <2>1. ss = <<>>
    BY <1>7, EmptySeq DEF L
  <2> QED BY <1>9, <1>6, <1>7, <2>1 DEF L, FlattenSeq, Accumulates
<1>8. CASE L # 0
  <2> DEFINE Flat(g) == g = [i \in 1..L |-> IF i = 1 THEN ss[i] ELSE g[i - 1] \o ss[i]]
             g == CHOOSE g : Flat(g)
  <2>1. FlattenSeq(ss) = g[L]
    BY <1>8 DEF FlattenSeq, L
  <2>2. Flat([i \in 1..L |-> f[i]])
    <3> DEFINE h == [i \in 1..L |-> f[i]]
    <3>1. ASSUME NEW i \in 1..L PROVE h[i] = IF i = 1 THEN ss[i] ELSE h[i - 1] \o ss[i]
      <4>1. CASE i = 1
        BY <1>8, <1>11, <4>1
      <4>2. CASE i # 1
        <5>1. i - 1 \in 1..L
          BY <1>1, <4>2
        <5> QED BY <1>6, <4>2, <5>1
      <4> QED BY <4>1, <4>2
    <3> QED BY <3>1
  <2>3. Flat(g)
    <3> HIDE DEF Flat
    <3> QED BY <2>2
  <2> HIDE DEF g
  <2>4. ASSUME NEW i \in Nat PROVE i \in 1..L => g[i] = f[i]
    <3> DEFINE Same == {k \in Nat : k \in 1..L => g[k] = f[k]}
    <3>1. 0 \in Same
      OBVIOUS
    <3>2. ASSUME NEW k \in Nat, k \in Same PROVE k + 1 \in Same
      <4> SUFFICES ASSUME k + 1 \in 1..L PROVE g[k + 1] = f[k + 1]
        OBVIOUS
      <4>1. g[k + 1] = IF k + 1 = 1 THEN ss[k + 1] ELSE g[(k + 1) - 1] \o ss[k + 1]
        BY <2>3
      <4>2. f[k + 1] = f[k] \o ss[k + 1]
        BY <1>10
      <4>3. CASE k = 0
        <5>1. k + 1 = 1
          BY <4>3
        <5> QED BY <1>8, <1>11, <4>1, <5>1
      <4>4. CASE k # 0
        <5>1. k \in 1..L /\ k + 1 # 1 /\ (k + 1) - 1 = k
          BY <1>1, <4>4
        <5> QED BY <3>2, <4>1, <4>2, <5>1
      <4> QED BY <4>3, <4>4
    <3>3. i \in Same
      <4> HIDE DEF Same
      <4> QED BY <3>1, <3>2, NumberInduction
    <3> QED BY <3>3
  <2>5. FlattenSeq(ss) = f[L]
    BY <1>1, <1>8, <2>1, <2>4
  <2> QED BY <1>9, <1>6, <2>5 DEF L, Accumulates
<1> QED BY <1>7, <1>8

(* The last piece comes last. *)
LEMMA FlattenSplit ==
  ASSUME NEW T, NEW ss \in Seq(Seq(T)), NEW uu \in Seq(Seq(T)),
         Len(ss) # 0, Len(uu) = Len(ss), \A i \in 1..(Len(ss) - 1) : uu[i] = ss[i]
  PROVE  \E s \in Seq(T) : /\ FlattenSeq(ss) = s \o ss[Len(ss)]
                           /\ FlattenSeq(uu) = s \o uu[Len(ss)]
<1> DEFINE L == Len(ss)
<1>1. L \in Nat /\ L - 1 \in Nat /\ L \in 1..L
  BY LenProperties
<1>2. PICK f \in [Nat -> Seq(T)] : Accumulates(f, ss) /\ FlattenSeq(ss) = f[L]
  BY FlattenAccumulates
<1>3. PICK g \in [Nat -> Seq(T)] : Accumulates(g, uu) /\ FlattenSeq(uu) = g[L]
  BY FlattenAccumulates
<1>4. /\ f[0] = <<>> /\ \A i \in 1..L : f[i] = f[i - 1] \o ss[i]
      /\ g[0] = <<>> /\ \A i \in 1..L : g[i] = g[i - 1] \o uu[i]
  BY <1>2, <1>3 DEF Accumulates
<1> HIDE DEF L
<1>5. f[L - 1] = g[L - 1]
  <2> DEFINE Same(k) == k <= L - 1 => f[k] = g[k]
             Sames == {k \in Nat : Same(k)}
  <2>1. Same(0)
    BY <1>4
  <2>2. ASSUME NEW k \in Nat, Same(k), k + 1 <= L - 1 PROVE f[k + 1] = g[k + 1]
    <3>1. k <= L - 1 /\ k + 1 \in 1..(L - 1) /\ k + 1 \in 1..L /\ (k + 1) - 1 = k
      BY <1>1, <2>2
    <3>2. f[k] = g[k] /\ uu[k + 1] = ss[k + 1]
      BY <2>2, <3>1 DEF L
    <3>3. f[k + 1] = f[k] \o ss[k + 1] /\ g[k + 1] = g[k] \o uu[k + 1]
      BY <1>4, <3>1
    <3> QED BY <3>2, <3>3
  <2>3. \A k \in Nat : Same(k) => Same(k + 1)
    BY <2>2
  <2> HIDE DEF Same
  <2>4. 0 \in Sames /\ \A k \in Nat : k \in Sames => k + 1 \in Sames
    <3>1. \A k \in Nat : k + 1 \in Nat
      OBVIOUS
    <3> QED BY <2>1, <2>3, <3>1
  <2> HIDE DEF Sames
  <2>5. L - 1 \in Sames
    BY <1>1, <2>4, NumberInduction
  <2> QED BY <1>1, <2>5 DEF Sames, Same
<1>6. f[L] = f[L - 1] \o ss[L] /\ g[L] = f[L - 1] \o uu[L] /\ f[L - 1] \in Seq(T)
  BY <1>1, <1>4, <1>5
<1> QED BY <1>2, <1>3, <1>6 DEF L

(* The elements of one sequence after another. *)
Joined(r, a, b) ==
  /\ Len(r) = Len(a) + Len(b)
  /\ \A p \in DOMAIN a : r[p] = a[p]
  /\ \A q \in DOMAIN b : r[Len(a) + q] = b[q]

LEMMA JoinElements ==
  ASSUME NEW T, NEW a \in Seq(T), NEW b \in Seq(T)
  PROVE  Joined(a \o b, a, b)
<1> DEFINE r == a \o b
<1>1. Len(r) = Len(a) + Len(b)
  BY JoinProperties
<1>2. \A p \in DOMAIN a : r[p] = a[p]
  BY JoinProperties
<1>3. \A q \in DOMAIN b : r[Len(a) + q] = b[q]
  BY JoinProperties
<1> HIDE DEF r
<1>4. Joined(r, a, b)
  BY <1>1, <1>2, <1>3 DEF Joined
<1> QED BY <1>4 DEF r

(* Where the pieces are in the whole: each after the ones before it. *)
Placed(off, ss, r) ==
  /\ off \in [1..Len(ss) -> Nat]
  /\ \A b \in 1..Len(ss) : \A q \in 1..Len(ss[b]) :
        off[b] + q \in 1..Len(r) /\ r[off[b] + q] = ss[b][q]
  /\ \A p \in 1..Len(r) : \E b \in 1..Len(ss) : \E q \in 1..Len(ss[b]) : p = off[b] + q
  /\ \A b, c \in 1..Len(ss) : b < c => off[b] + Len(ss[b]) <= off[c]

LEMMA FlattenPlaces ==
  ASSUME NEW T, NEW ss \in Seq(Seq(T))
  PROVE  /\ FlattenSeq(ss) \in Seq(T)
         /\ \E off : Placed(off, ss, FlattenSeq(ss))
<1> DEFINE L == Len(ss)
           size(b) == Len(ss[b])
<1>1. L \in Nat /\ \A i \in 1..L : ss[i] \in Seq(T)
  BY LenProperties, ElementOfSeq
<1>2. PICK f \in [Nat -> Seq(T)] : Accumulates(f, ss) /\ FlattenSeq(ss) = f[L]
  BY FlattenAccumulates
<1>3. f[0] = <<>> /\ \A i \in 1..L : f[i] = f[i - 1] \o ss[i]
  BY <1>2 DEF Accumulates
<1> DEFINE upto(k) == Len(f[k])
           off == [b \in 1..L |-> upto(b - 1)]
<1> HIDE DEF L
<1>4. \A i \in Nat : f[i] \in Seq(T) /\ upto(i) \in Nat /\ DOMAIN f[i] = 1..upto(i)
  BY LenProperties
<1>5. \A i \in 1..L : size(i) \in Nat /\ DOMAIN ss[i] = 1..size(i)
  BY <1>1, LenProperties
<1>6. upto(0) = 0
  BY <1>3, EmptySeq
<1> HIDE DEF upto, size
<1>7. ASSUME NEW c \in 1..L
      PROVE  /\ c - 1 \in Nat /\ upto(c - 1) \in Nat /\ size(c) \in Nat
             /\ upto(c) = upto(c - 1) + size(c)
             /\ \A p \in 1..upto(c - 1) : f[c][p] = f[c - 1][p]
             /\ \A q \in 1..size(c) : f[c][upto(c - 1) + q] = ss[c][q]
  <2>1. c - 1 \in Nat
    BY <1>1
  <2>2. f[c - 1] \in Seq(T) /\ ss[c] \in Seq(T) /\ f[c] = f[c - 1] \o ss[c]
    BY <1>1, <1>3, <1>4, <2>1
  <2>4. Joined(f[c], f[c - 1], ss[c])
    BY <2>2, JoinElements
  <2>5. /\ Len(f[c]) = Len(f[c - 1]) + Len(ss[c])
        /\ \A p \in DOMAIN f[c - 1] : f[c][p] = f[c - 1][p]
        /\ \A q \in DOMAIN ss[c] : f[c][Len(f[c - 1]) + q] = ss[c][q]
    BY <2>4 DEF Joined
  <2> QED BY <1>4, <1>5, <2>1, <2>5 DEF upto, size
<1> DEFINE Good(k) ==
             /\ \A b \in 1..k : \A q \in 1..size(b) :
                   upto(b - 1) + q \in 1..upto(k) /\ f[k][upto(b - 1) + q] = ss[b][q]
             /\ \A p \in 1..upto(k) : \E b \in 1..k : \E q \in 1..size(b) : p = upto(b - 1) + q
             /\ \A b \in 1..k : upto(b - 1) + size(b) <= upto(k)
           Goods == {k \in Nat : k <= L => Good(k)}
<1>8. Good(0)
  BY <1>6
<1>9. ASSUME NEW c \in 1..L, Good(c - 1) PROVE Good(c)
  <2>1. /\ c \in Nat /\ c - 1 \in Nat /\ c \in 1..c
        /\ \A b \in 1..c : b \in 1..L
        /\ \A b \in 1..c : b # c => b \in 1..(c - 1)
        /\ \A b \in 1..(c - 1) : b \in 1..c
    BY <1>1
  <2>2. upto(c - 1) \in Nat /\ size(c) \in Nat /\ upto(c) = upto(c - 1) + size(c)
    BY <1>7
  <2> DEFINE m == upto(c - 1)
             n == size(c)
  <2> HIDE DEF m, n
  <2>3. m \in Nat /\ n \in Nat /\ upto(c) = m + n /\ upto(c - 1) = m /\ size(c) = n
    BY <2>2 DEF m, n
  <2>12. m \in Nat /\ n \in Nat
    BY <2>3
  <2>4. /\ \A q \in 1..n : m + q \in 1..(m + n)
        /\ \A p \in 1..m : p \in 1..(m + n)
    BY <2>12
  <2>11. \A p \in 1..(m + n) : p \notin 1..m => p - m \in 1..n /\ p = m + (p - m)
    BY <2>3
  <2>10. (\A k \in Nat : k <= m => k <= m + n) /\ m + n <= m + n
    BY <2>3
  <2>5. /\ \A b \in 1..(c - 1) : \A q \in 1..size(b) :
              upto(b - 1) + q \in 1..m /\ f[c - 1][upto(b - 1) + q] = ss[b][q]
        /\ \A p \in 1..m : \E b \in 1..(c - 1) : \E q \in 1..size(b) : p = upto(b - 1) + q
        /\ \A b \in 1..(c - 1) : upto(b - 1) + size(b) <= m
    BY <1>9, <2>3
  <2>6. /\ \A p \in 1..m : f[c][p] = f[c - 1][p]
        /\ \A q \in 1..n : f[c][m + q] = ss[c][q]
    BY <1>7, <2>3
  <2>7. ASSUME NEW b \in 1..c, NEW q \in 1..size(b)
        PROVE  upto(b - 1) + q \in 1..upto(c) /\ f[c][upto(b - 1) + q] = ss[b][q]
    <3>1. CASE b = c
      BY <2>3, <2>4, <2>6, <3>1
    <3>2. CASE b # c
      BY <2>1, <2>3, <2>4, <2>5, <2>6, <3>2
    <3> QED BY <3>1, <3>2
  <2>8. ASSUME NEW p \in 1..upto(c)
        PROVE  \E b \in 1..c : \E q \in 1..size(b) : p = upto(b - 1) + q
    <3>1. CASE p \in 1..m
      BY <2>1, <2>5, <3>1
    <3>2. CASE p \notin 1..m
      <4>1. p - m \in 1..size(c) /\ p = upto(c - 1) + (p - m)
        BY <2>3, <2>11, <3>2
      <4> QED BY <2>1, <4>1
    <3> QED BY <3>1, <3>2
  <2>9. ASSUME NEW b \in 1..c PROVE upto(b - 1) + size(b) <= upto(c)
    <3>1. CASE b = c
      BY <2>3, <2>10, <3>1
    <3>2. CASE b # c
      <4>1. upto(b - 1) \in Nat /\ size(b) \in Nat
        BY <1>7, <2>1
      <4>2. upto(b - 1) + size(b) <= m
        BY <2>1, <2>5, <3>2
      <4>3. \A i, j \in Nat : i + j \in Nat
        OBVIOUS
      <4>4. upto(b - 1) + size(b) \in Nat
        BY <4>1, <4>3
      <4> QED BY <2>3, <2>10, <4>2, <4>4
    <3> QED BY <3>1, <3>2
  <2> QED BY <2>7, <2>8, <2>9
<1> HIDE DEF Good
<1>10. \A k \in 0..L : Good(k)
  <2>1. 0 \in Goods
    BY <1>8
  <2>2. ASSUME NEW k \in Nat, k \in Goods, k + 1 <= L PROVE Good(k + 1)
    <3>1. k + 1 \in 1..L /\ (k + 1) - 1 = k /\ k <= L
      BY <1>1, <2>2
    <3>2. Good(k)
      BY <2>2, <3>1
    <3> QED BY <1>9, <3>1, <3>2
  <2>3. \A k \in Nat : k \in Goods => k + 1 \in Goods
    BY <2>2
  <2>4. \A k \in Nat : k \in Goods
    <3> HIDE DEF Goods
    <3> QED BY <2>1, <2>3, NumberInduction
  <2> QED BY <1>1, <2>4
<1>11. ASSUME NEW b \in 1..L, NEW c \in 1..L, b < c PROVE upto(b - 1) + size(b) <= upto(c - 1)
  <2>1. c - 1 \in 0..L /\ b \in 1..(c - 1)
    BY <1>1, <1>11
  <2> QED BY <1>10, <2>1 DEF Good
<1>12. Good(L)
  BY <1>1, <1>10
<1>13. /\ \A b \in 1..L : off[b] = upto(b - 1) /\ Len(ss[b]) = size(b)
       /\ off \in [1..L -> Nat]
  BY <1>7 DEF size
<1>14. Len(FlattenSeq(ss)) = upto(L) /\ FlattenSeq(ss) = f[L] /\ f[L] \in Seq(T)
  BY <1>1, <1>2, <1>4 DEF upto, L
<1> HIDE DEF off
<1>15. Placed(off, ss, FlattenSeq(ss))
  <2>1. \A b, c \in 1..L : b < c => off[b] + Len(ss[b]) <= off[c]
    BY <1>11, <1>13
  <2>2. \A b \in 1..L : \A q \in 1..Len(ss[b]) :
          off[b] + q \in 1..upto(L) /\ f[L][off[b] + q] = ss[b][q]
    BY <1>12, <1>13 DEF Good
  <2>3. ASSUME NEW p \in 1..upto(L)
        PROVE  \E b \in 1..L : \E q \in 1..Len(ss[b]) : p = off[b] + q
    <3>1. PICK b \in 1..L : \E q \in 1..size(b) : p = upto(b - 1) + q
      BY <1>12 DEF Good
    <3> QED BY <1>13, <3>1
  <2> QED BY <1>13, <1>14, <2>1, <2>2, <2>3 DEF Placed, L
<1> QED BY <1>14, <1>15

-----------------------------------------------------------------------------
(* A tree from below *)

(* Among the subsets of a finite set, those of a kind have one that holds none of its kind. *)
HasSmallest(K) == \E M \in K : \A U \in K : U \subseteq M => U = M

LEMMA SmallestSubset ==
  ASSUME NEW L, IsFiniteSet(L), NEW K \in SUBSET SUBSET L, K # {}
  PROVE  HasSmallest(K)
<1>1. K \subseteq FiniteSubsetsOf(L)
  BY FS_Subset DEF FiniteSubsetsOf
<1>2. PICK M \in K : \A U \in K : <<U, M>> \notin StrictSubsetOrdering(L)
  BY <1>1, WFMin, FS_StrictSubsetOrderingWellFounded
<1>3. ASSUME NEW U \in K, U \subseteq M PROVE U = M
  BY <1>2, <1>3 DEF StrictSubsetOrdering
<1> QED BY <1>3 DEF HasSmallest

(* Every set of nodes of a sound tree has one with none of its children in it. *)
HasBottom(t, S) == \E n \in S : Range(t.kids[n]) \cap S = {}

LEMMA BottomExists ==
  ASSUME NEW t, Sound(t), NEW S \in SUBSET t.live, S # {}
  PROVE  HasBottom(t, S)
<1> DEFINE Endless(X) == X # {} /\ \A n \in X : Range(t.kids[n]) \cap X # {}
           K == {X \in SUBSET t.live : Endless(X)}
<1>1. /\ LinksAsSets(t) /\ IsFiniteSet(t.live) /\ Acyclic(t)
      /\ \A n \in t.live : \A c \in Range(t.kids[n]) : c \in t.live /\ t.parent[c] = n
  <2>1. LinksAsSets(t)
    BY LinksAreSets DEF Sound
  <2> QED BY <2>1 DEF LinksAsSets, ChildrenOf, Sound, TreeType
<1> SUFFICES ASSUME S \in K PROVE FALSE
  BY DEF HasBottom
<1>2. PICK M \in K : \A U \in K : U \subseteq M => U = M
  <2> HIDE DEF K
  <2>1. K \in SUBSET SUBSET t.live
    BY DEF K
  <2>2. HasSmallest(K)
    BY <1>1, <2>1, SmallestSubset
  <2> QED BY <2>2 DEF HasSmallest
<1>3. PICK n \in M : t.parent[n] \notin M
  BY <1>1, <1>2 DEF Acyclic
<1>4. PICK c \in Range(t.kids[n]) : c \in M
  BY <1>2
<1>5. c # n /\ c \in M \ {n}
  BY <1>1, <1>2, <1>3, <1>4
<1>6. ASSUME NEW m \in M \ {n} PROVE Range(t.kids[m]) \cap (M \ {n}) # {}
  <2>1. PICK d \in Range(t.kids[m]) : d \in M
    BY <1>2
  <2>2. t.parent[d] = m
    BY <1>1, <1>2, <2>1
  <2>3. d # n
    BY <1>3, <2>2
  <2> QED BY <2>1, <2>3
<1>7. M \ {n} \in K
  BY <1>2, <1>5, <1>6
<1> QED BY <1>2, <1>3, <1>7

(* What holds of a node whose children it holds of holds of all. *)
LEMMA TreeInduction ==
  ASSUME NEW t, Sound(t), NEW S,
         \A n \in t.live : Range(t.kids[n]) \subseteq S => n \in S
  PROVE  t.live \subseteq S
<1> SUFFICES ASSUME t.live \ S # {} PROVE FALSE
  OBVIOUS
<1>1. PICK n \in t.live \ S : Range(t.kids[n]) \cap (t.live \ S) = {}
  BY BottomExists DEF HasBottom
<1>2. Range(t.kids[n]) \subseteq t.live
  BY LinksAreSets DEF Sound, LinksAsSets, ChildrenOf
<1> QED BY <1>1, <1>2

(* A value computed for every node from those of its children is the same from *)
(* the turn on that is the number of nodes.                                    *)
Bottomup(f, t) ==
  \A n \in t.live : \A j, k \in Nat :
    (\A c \in Range(t.kids[n]) : f[j][c] = f[k][c]) => f[j + 1][n] = f[k + 1][n]

LEMMA Stabilizes ==
  ASSUME NEW t, Sound(t), NEW f, Bottomup(f, t)
  PROVE  \A j \in Nat : j >= Cardinality(t.live) =>
           \A n \in t.live : f[j][n] = f[Cardinality(t.live)][n]
<1> DEFINE C == Cardinality(t.live)
           Still(k) == {n \in t.live : \A j \in Nat : j >= k => f[j][n] = f[k][n]}
           Enough(k) == k <= C => Cardinality(Still(k)) >= k
<1>1. IsFiniteSet(t.live) /\ C \in Nat
  BY FS_CardinalityType DEF Sound, TreeType
<1>2. ASSUME NEW k \in Nat PROVE Still(k) \subseteq Still(k + 1)
  <2> SUFFICES ASSUME NEW n \in Still(k), NEW j \in Nat, j >= k + 1 PROVE f[j][n] = f[k + 1][n]
    OBVIOUS
  <2>1. j >= k /\ k + 1 >= k /\ k + 1 \in Nat
    OBVIOUS
  <2> QED BY <2>1
<1>3. ASSUME NEW k \in Nat, NEW n \in t.live, Range(t.kids[n]) \subseteq Still(k)
      PROVE  n \in Still(k + 1)
  <2> SUFFICES ASSUME NEW j \in Nat, j >= k + 1 PROVE f[j][n] = f[k + 1][n]
    OBVIOUS
  <2>1. j - 1 \in Nat /\ j - 1 >= k /\ (j - 1) + 1 = j
    OBVIOUS
  <2>2. \A c \in Range(t.kids[n]) : f[j - 1][c] = f[k][c]
    BY <1>3, <2>1
  <2>3. f[(j - 1) + 1][n] = f[k + 1][n]
    BY <2>1, <2>2 DEF Bottomup
  <2> QED BY <2>1, <2>3
<1>4. \A k \in Nat : IsFiniteSet(Still(k)) /\ Cardinality(Still(k)) \in Nat /\ Still(k) \subseteq t.live
  <2>1. \A k \in Nat : Still(k) \in SUBSET t.live
    OBVIOUS
  <2> HIDE DEF Still
  <2> QED BY <1>1, <2>1, FS_Subset, FS_CardinalityType
<1> HIDE DEF Still, C
<1>5. Enough(0)
  BY <1>4
<1>6. ASSUME NEW k \in Nat, Enough(k), k + 1 <= C PROVE Cardinality(Still(k + 1)) >= k + 1
  <2>0. k + 1 \in Nat /\ k <= C
    BY <1>1, <1>6
  <2>1. CASE t.live \subseteq Still(k)
    <3>1. Still(k + 1) = t.live
      BY <1>2, <1>4, <2>0, <2>1
    <3> QED BY <1>6, <3>1 DEF C
  <2>2. CASE ~(t.live \subseteq Still(k))
    <3>1. PICK n \in t.live : n \notin Still(k) /\ Range(t.kids[n]) \subseteq Still(k)
      BY <2>2, TreeInduction
    <3> DEFINE X == Still(k) \cup {n}
    <3>2. X \subseteq Still(k + 1)
      BY <1>2, <1>3, <3>1
    <3>3. Cardinality(X) = Cardinality(Still(k)) + 1
      BY <1>4, <3>1, FS_AddElement
    <3>4. Cardinality(X) <= Cardinality(Still(k + 1))
      BY <1>4, <2>0, <3>2, FS_Subset
    <3>5. Cardinality(Still(k)) >= k /\ Cardinality(Still(k)) \in Nat
      BY <1>4, <1>6, <2>0
    <3>6. Cardinality(Still(k + 1)) \in Nat
      BY <1>4, <2>0
    <3> QED BY <3>3, <3>4, <3>5, <3>6
  <2> QED BY <2>1, <2>2
<1>7. Enough(C)
  <2>1. \A k \in Nat : Enough(k) => Enough(k + 1)
    BY <1>6
  <2> DEFINE E == {k \in Nat : Enough(k)}
  <2> HIDE DEF Enough
  <2>2. 0 \in E /\ \A k \in Nat : k \in E => k + 1 \in E
    <3>1. \A k \in Nat : k + 1 \in Nat
      OBVIOUS
    <3> QED BY <1>5, <2>1, <3>1
  <2>3. C \in E
    <3> HIDE DEF E
    <3> QED BY <1>1, <2>2, NumberInduction
  <2> QED BY <2>3
<1>8. Cardinality(Still(C)) = Cardinality(t.live)
  <2>1. Cardinality(Still(C)) <= Cardinality(t.live) /\ Cardinality(Still(C)) \in Nat
    BY <1>1, <1>4, FS_Subset
  <2>2. Cardinality(Still(C)) >= C
    BY <1>1, <1>7
  <2> QED BY <1>1, <2>1, <2>2 DEF C
<1>9. Still(C) = t.live
  BY <1>1, <1>4, <1>8, FS_Subset
<1> QED BY <1>9 DEF Still, C

-----------------------------------------------------------------------------
(* The depth-first order *)

(* v gives every node the nodes of its part of the tree, in pre-order. *)
BelowKids(t, v, n) == [i \in DOMAIN t.kids[n] |-> v[t.kids[n][i]]]

IsPreorder(t, v) ==
  /\ v \in [t.live -> Seq(t.live)]
  /\ \A n \in t.live : v[n] = <<n>> \o FlattenSeq(BelowKids(t, v, n))

KidByKid(b, t, v, n) ==
  /\ b \in Seq(Seq(t.live)) /\ Len(b) = Len(t.kids[n])
  /\ \A i \in 1..Len(t.kids[n]) : t.kids[n][i] \in t.live /\ b[i] = v[t.kids[n][i]]

LEMMA BelowKidsType ==
  ASSUME NEW t, Sound(t), NEW v \in [t.live -> Seq(t.live)], NEW n \in t.live
  PROVE  /\ KidByKid(BelowKids(t, v, n), t, v, n)
         /\ <<n>> \o FlattenSeq(BelowKids(t, v, n)) \in Seq(t.live)
<1>1. /\ t.kids[n] \in Seq(Node) /\ DOMAIN t.kids[n] = 1..Len(t.kids[n])
      /\ Len(t.kids[n]) \in Nat
  BY LenProperties DEF Sound, TreeType
<1>2. \A i \in 1..Len(t.kids[n]) : t.kids[n][i] \in t.live
  BY <1>1 DEF Sound, LinksAgree
<1> DEFINE l == Len(t.kids[n])
           b == BelowKids(t, v, n)
<1> HIDE DEF l
<1>3. b \in [1..l -> Seq(t.live)] /\ l \in Nat
  BY <1>1, <1>2 DEF BelowKids, l
<1>4. \A i \in 1..Len(t.kids[n]) : b[i] = v[t.kids[n][i]]
  BY <1>1 DEF BelowKids
<1> HIDE DEF b
<1>5. b \in Seq(Seq(t.live)) /\ Len(b) = l
  BY <1>3, SeqOfFunction
<1>6. FlattenSeq(b) \in Seq(t.live)
  BY <1>5, FlattenPlaces
<1>8. <<n>> \in Seq(t.live)
  BY SeqOfOne
<1>7. <<n>> \o FlattenSeq(b) \in Seq(t.live)
  BY <1>6, <1>8, ConcatProperties
<1>9. KidByKid(b, t, v, n)
  BY <1>2, <1>4, <1>5 DEF l, KidByKid
<1> QED BY <1>7, <1>9 DEF b

LEMMA DfsUnrolled ==
  ASSUME NEW t, Sound(t)
  PROVE  \E v : IsPreorder(t, v) /\ DfsOrder(t) = IF t.root = NULL THEN <<>> ELSE v[t.root]
<1> DEFINE L == t.live
           S == [t.live -> Seq(t.live)]
           start == [n \in t.live |-> <<>>]
           once(v) == [n \in t.live |-> <<n>> \o FlattenSeq(BelowKids(t, v, n))]
           step == [k \in Nat |-> [v \in S |-> once(v)]]
<1>1. start \in S /\ \A v \in S : once(v) \in S
  BY BelowKidsType
<1> HIDE DEF once, start
<1>2. PICK f : Iterates(f, S, start, step)
  <2>1. step \in StepsOf(S)
    BY <1>1 DEF StepsOf
  <2> HIDE DEF S, step
  <2> QED BY <1>1, <2>1, IterationExists
<1>3. f \in [Nat -> S] /\ f[0] = start /\ \A k \in Nat : f[k + 1] = once(f[k])
  BY <1>2 DEF Iterates
<1> HIDE DEF step
<1>4. ASSUME NEW k \in Nat
      PROVE  f[k] = [n \in t.live |->
                       IF k = 0 THEN <<>>
                       ELSE <<n>> \o FlattenSeq([i \in DOMAIN t.kids[n] |-> f[k - 1][t.kids[n][i]]])]
  <2>1. CASE k = 0
    BY <1>3, <2>1 DEF start
  <2>2. CASE k # 0
    <3>1. k - 1 \in Nat /\ (k - 1) + 1 = k
      BY <2>2
    <3>2. f[k] = once(f[k - 1])
      BY <1>3, <3>1
    <3> QED BY <2>2, <3>2 DEF once, BelowKids
  <2> QED BY <2>1, <2>2
<1> DEFINE Visit(g) ==
             g = [k \in Nat |-> [n \in t.live |->
                    IF k = 0 THEN <<>>
                    ELSE <<n>> \o FlattenSeq([i \in DOMAIN t.kids[n] |-> g[k - 1][t.kids[n][i]]])]]
           g == CHOOSE g : Visit(g)
<1>5. DfsOrder(t) = IF t.root = NULL THEN <<>> ELSE g[Cardinality(t.live)][t.root]
  BY DEF DfsOrder
<1>6. Visit(g)
  <2> DEFINE h == [k \in Nat |-> f[k]]
  <2>1. Visit(h)
    <3>1. ASSUME NEW k \in Nat
          PROVE  f[k] = [n \in t.live |->
                   IF k = 0 THEN <<>>
                   ELSE <<n>> \o FlattenSeq([i \in DOMAIN t.kids[n] |-> h[k - 1][t.kids[n][i]]])]
      <4>1. CASE k = 0
        BY <1>4, <4>1
      <4>2. CASE k # 0
        <5>1. k - 1 \in Nat
          BY <4>2
        <5>2. h[k - 1] = f[k - 1]
          BY <5>1
        <5> HIDE DEF h
        <5> QED BY <1>4, <5>2
      <4> QED BY <4>1, <4>2
    <3> QED BY <3>1
  <2> HIDE DEF Visit
  <2> QED BY <2>1
<1> HIDE DEF g
<1>7. \A k \in Nat : g[k] = f[k]
  <2> DEFINE E == {k \in Nat : g[k] = f[k]}
  <2>1. 0 \in E
    BY <1>4, <1>6
  <2>2. ASSUME NEW k \in Nat, k \in E PROVE k + 1 \in E
    <3>1. (k + 1) - 1 = k /\ k + 1 # 0 /\ k + 1 \in Nat /\ g[k] = f[k]
      BY <2>2
    <3>2. f[k + 1] = [n \in t.live |->
                       <<n>> \o FlattenSeq([i \in DOMAIN t.kids[n] |-> f[k][t.kids[n][i]]])]
      BY <1>4, <3>1
    <3>3. g[k + 1] = [n \in t.live |->
                       <<n>> \o FlattenSeq([i \in DOMAIN t.kids[n] |-> g[k][t.kids[n][i]]])]
      BY <1>6, <3>1
    <3> QED BY <3>1, <3>2, <3>3
  <2> HIDE DEF E
  <2>3. \A k \in Nat : k \in E
    BY <2>1, <2>2, NumberInduction
  <2> QED BY <2>3 DEF E
<1> DEFINE C == Cardinality(t.live)
           v == f[C]
<1>8. C \in Nat
  BY FS_CardinalityType DEF Sound, TreeType
<1>9. v \in S
  BY <1>3, <1>8
<1>10. Bottomup(f, t)
  <2> SUFFICES ASSUME NEW n \in t.live, NEW j \in Nat, NEW k \in Nat,
                      \A c \in Range(t.kids[n]) : f[j][c] = f[k][c]
               PROVE  f[j + 1][n] = f[k + 1][n]
    BY DEF Bottomup
  <2>1. BelowKids(t, f[j], n) = BelowKids(t, f[k], n)
    <3>1. \A i \in DOMAIN t.kids[n] : t.kids[n][i] \in Range(t.kids[n])
      BY DEF Range
    <3> QED BY <3>1 DEF BelowKids
  <2>2. \A w : once(w)[n] = <<n>> \o FlattenSeq(BelowKids(t, w, n))
    BY DEF once
  <2>3. f[j + 1] = once(f[j]) /\ f[k + 1] = once(f[k])
    BY <1>3
  <2> HIDE DEF once
  <2> QED BY <2>1, <2>2, <2>3
<1>11. \A n \in t.live : f[C + 1][n] = f[C][n]
  <2>1. C + 1 \in Nat /\ C + 1 >= C
    BY <1>8
  <2> QED BY <1>10, <2>1, Stabilizes
<1>12. f[C + 1] = once(v)
  BY <1>3, <1>8
<1>13. IsPreorder(t, v)
  <2> HIDE DEF v
  <2>1. \A n \in t.live : v[n] = once(v)[n]
    BY <1>11, <1>12 DEF v
  <2> QED BY <1>9, <2>1 DEF IsPreorder, once
<1>14. DfsOrder(t) = IF t.root = NULL THEN <<>> ELSE v[t.root]
  BY <1>5, <1>7, <1>8
<1> HIDE DEF v
<1> QED BY <1>13, <1>14

(* What a traversal in pre-order visits are nodes. *)
LEMMA DfsType ==
  ASSUME NEW t, Sound(t)
  PROVE  DfsOrder(t) \in Seq(t.live) /\ Len(DfsOrder(t)) \in Nat
<1>1. PICK v : IsPreorder(t, v) /\ DfsOrder(t) = IF t.root = NULL THEN <<>> ELSE v[t.root]
  BY DfsUnrolled
<1>2. t.root # NULL => t.root \in t.live
  BY DEF Sound, LinksAgree
<1>3. v \in [t.live -> Seq(t.live)]
  BY <1>1 DEF IsPreorder
<1>4. DfsOrder(t) \in Seq(t.live)
  <2>1. CASE t.root = NULL
    BY <1>1, <2>1, EmptySeq
  <2>2. CASE t.root # NULL
    BY <1>1, <1>2, <1>3, <2>2
  <2> QED BY <2>1, <2>2
<1> QED BY <1>4, LenProperties

-----------------------------------------------------------------------------
(* Ancestors, and what is below a node *)

Below(t, n) == {m \in t.live : n \in Ancestors(t, m)}

LEMMA AncestorsClosed ==
  ASSUME NEW t, NEW m \in t.live
  PROVE  /\ m \in Ancestors(t, m)
         /\ \A a \in Ancestors(t, m) :
              t.parent[a] = NULL \/ (t.parent[a] \in t.live => t.parent[a] \in Ancestors(t, m))
BY DEF Ancestors, ClosedUnderParent

(* One step up. *)
LEMMA AncestorsUp ==
  ASSUME NEW t, Sound(t), NEW m \in t.live
  PROVE  /\ t.parent[m] = NULL => Ancestors(t, m) = {m}
         /\ t.parent[m] # NULL =>
              t.parent[m] \in t.live /\ Ancestors(t, m) = {m} \cup Ancestors(t, t.parent[m])
<1> DEFINE p == t.parent[m]
<1>1. m \in Ancestors(t, m) /\ Ancestors(t, m) \subseteq t.live
  BY AncestorsClosed DEF Ancestors
<1>2. p # NULL => p \in t.live
  BY DEF Sound, LinksAgree
<1>3. ASSUME p = NULL, NEW a \in Ancestors(t, m) PROVE a = m
  <2>1. {m} \in SUBSET t.live /\ ClosedUnderParent(t, {m})
    BY <1>3 DEF ClosedUnderParent
  <2> QED BY <1>3, <2>1 DEF Ancestors
<1>4. ASSUME p # NULL, NEW a \in Ancestors(t, m), a # m PROVE a \in Ancestors(t, p)
  <2> SUFFICES ASSUME NEW S \in SUBSET t.live, p \in S, ClosedUnderParent(t, S) PROVE a \in S
    BY <1>1 DEF Ancestors
  <2>1. ClosedUnderParent(t, S \cup {m})
    BY DEF ClosedUnderParent
  <2>2. a \in S \cup {m}
    BY <1>4, <2>1 DEF Ancestors
  <2> QED BY <1>4, <2>2
<1>5. ASSUME p # NULL, NEW a \in Ancestors(t, p) PROVE a \in Ancestors(t, m)
  <2> SUFFICES ASSUME NEW S \in SUBSET t.live, m \in S, ClosedUnderParent(t, S) PROVE a \in S
    BY <1>5 DEF Ancestors
  <2>1. p \in S
    BY <1>5 DEF ClosedUnderParent
  <2> QED BY <1>5, <2>1 DEF Ancestors
<1> QED BY <1>1, <1>2, <1>3, <1>4, <1>5

(* No node is above its own parent. *)
LEMMA NotAboveParent ==
  ASSUME NEW t, Sound(t), NEW m \in t.live, t.parent[m] # NULL
  PROVE  m \notin Ancestors(t, t.parent[m])
<1> DEFINE S == {a \in t.live : m \in Ancestors(t, a)}
<1> SUFFICES ASSUME m \in Ancestors(t, t.parent[m]) PROVE FALSE
  OBVIOUS
<1>1. t.parent[m] \in S
  BY AncestorsUp
<1>2. ASSUME NEW a \in S PROVE t.parent[a] \in S
  <2>1. CASE a = m
    BY <1>1, <2>1
  <2>2. CASE a # m
    <3>1. t.parent[a] # NULL
      BY <2>2, AncestorsUp
    <3> QED BY <2>2, <3>1, AncestorsUp
  <2> QED BY <2>1, <2>2
<1> QED BY <1>1, <1>2 DEF Sound, Acyclic

(* Below a node are itself and what is below its children, each below one of them. *)
LEMMA KidsAre ==
  ASSUME NEW t, Sound(t), NEW n \in t.live
  PROVE  /\ \A c \in Range(t.kids[n]) : c \in t.live /\ t.parent[c] = n
         /\ \A c \in t.live : t.parent[c] = n => c \in Range(t.kids[n])
         /\ n # NULL /\ n \in Node
<1>1. LinksAsSets(t)
  BY LinksAreSets DEF Sound
<1> QED BY <1>1, TreeAssumption DEF LinksAsSets, ChildrenOf, Sound, TreeType

LEMMA BelowIs ==
  ASSUME NEW t, Sound(t), NEW n \in t.live
  PROVE  Below(t, n) = {n} \cup UNION {Below(t, c) : c \in Range(t.kids[n])}
<1>1. n \in Below(t, n)
  BY AncestorsClosed DEF Below
<1>2. ASSUME NEW c \in Range(t.kids[n]), NEW m \in Below(t, c) PROVE m \in Below(t, n)
  <2>1. c \in t.live /\ t.parent[c] = n /\ n # NULL
    BY KidsAre
  <2> QED BY <1>2, <2>1, AncestorsClosed DEF Below
<1>3. ASSUME NEW m \in Below(t, n), m # n PROVE \E c \in Range(t.kids[n]) : m \in Below(t, c)
  <2> SUFFICES ASSUME \A c \in Range(t.kids[n]) : c \notin Ancestors(t, m) PROVE FALSE
    BY DEF Below
  <2> DEFINE S == Ancestors(t, m) \ {n}
  <2>1. m \in t.live /\ n \in Ancestors(t, m) /\ m \in S /\ S \in SUBSET t.live
    BY <1>3, AncestorsClosed DEF Below, Ancestors
  <2>2. ASSUME NEW a \in S PROVE t.parent[a] = NULL \/ t.parent[a] \in S
    <3>1. t.parent[a] # n
      BY <2>1, KidsAre
    <3>2. t.parent[a] # NULL => t.parent[a] \in t.live
      BY <2>1 DEF Sound, LinksAgree
    <3> QED BY <2>1, <3>1, <3>2, AncestorsClosed
  <2>3. n \in S
    BY <2>1, <2>2 DEF Ancestors, ClosedUnderParent
  <2> QED BY <2>3
<1> QED BY <1>1, <1>2, <1>3

LEMMA BelowApart ==
  ASSUME NEW t, Sound(t), NEW n \in t.live, NEW c \in Range(t.kids[n])
  PROVE  /\ n \notin Below(t, c)
         /\ \A d \in Range(t.kids[n]) : d # c => Below(t, c) \cap Below(t, d) = {}
<1>1. \A d \in Range(t.kids[n]) : d \in t.live /\ t.parent[d] = n /\ n # NULL
  BY KidsAre
<1>2. \A d \in Range(t.kids[n]) : d \notin Ancestors(t, n)
  BY <1>1, NotAboveParent
<1>3. ASSUME NEW d \in Range(t.kids[n]), d # c PROVE Below(t, c) \cap Below(t, d) = {}
  <2> DEFINE X == Below(t, c) \cap Below(t, d)
  <2>1. ASSUME NEW m \in X PROVE t.parent[m] \in X
    <3>1. m \in t.live /\ c \in Ancestors(t, m) /\ d \in Ancestors(t, m)
      BY DEF Below
    <3>2. m # c
      <4> SUFFICES ASSUME m = c PROVE FALSE
        OBVIOUS
      <4>1. d \in Ancestors(t, n)
        BY <1>1, <1>3, <3>1, AncestorsUp
      <4> QED BY <1>2, <4>1
    <3>3. m # d
      <4> SUFFICES ASSUME m = d PROVE FALSE
        OBVIOUS
      <4>1. c \in Ancestors(t, n)
        BY <1>1, <1>3, <3>1, AncestorsUp
      <4> QED BY <1>2, <4>1
    <3>4. t.parent[m] # NULL
      BY <3>1, <3>2, AncestorsUp
    <3>5. t.parent[m] \in t.live /\ c \in Ancestors(t, t.parent[m]) /\ d \in Ancestors(t, t.parent[m])
      BY <3>1, <3>2, <3>3, <3>4, AncestorsUp
    <3> QED BY <3>5 DEF Below
  <2>2. X \in SUBSET t.live
    BY DEF Below
  <2> HIDE DEF X
  <2>3. X = {}
    BY <2>1, <2>2 DEF Sound, Acyclic
  <2> QED BY <2>3 DEF X
<1> QED BY <1>2, <1>3 DEF Below

(* What is linked to ctx->root is what is below it. *)
LEMMA LinkedIsBelow ==
  ASSUME NEW t, Sound(t)
  PROVE  Linked(t) = IF t.root = NULL THEN {} ELSE Below(t, t.root)
BY TreeAssumption DEF Linked, Below, Ancestors, Sound, TreeType

-----------------------------------------------------------------------------
(* A pre-order visits what is below a node, each once. *)

LEMMA FlattenRange ==
  ASSUME NEW T, NEW ss \in Seq(Seq(T))
  PROVE  /\ \A b \in 1..Len(ss) : Range(ss[b]) \subseteq Range(FlattenSeq(ss))
         /\ \A x \in Range(FlattenSeq(ss)) : \E b \in 1..Len(ss) : x \in Range(ss[b])
<1> DEFINE r == FlattenSeq(ss)
<1>1. r \in Seq(T) /\ \A b \in 1..Len(ss) : ss[b] \in Seq(T)
  BY FlattenPlaces, ElementOfSeq
<1>2. PICK off : Placed(off, ss, r)
  BY FlattenPlaces
<1> HIDE DEF r
<1>3. DOMAIN r = 1..Len(r) /\ \A b \in 1..Len(ss) : DOMAIN ss[b] = 1..Len(ss[b])
  BY <1>1, LenProperties
<1>4. ASSUME NEW b \in 1..Len(ss), NEW x \in Range(ss[b]) PROVE x \in Range(r)
  <2>1. PICK q \in 1..Len(ss[b]) : x = ss[b][q]
    BY <1>3 DEF Range
  <2>2. off[b] + q \in DOMAIN r /\ r[off[b] + q] = x
    BY <1>2, <1>3, <2>1 DEF Placed
  <2> QED BY <2>2 DEF Range
<1>5. ASSUME NEW x \in Range(r) PROVE \E b \in 1..Len(ss) : x \in Range(ss[b])
  <2>1. PICK p \in 1..Len(r) : x = r[p]
    BY <1>3 DEF Range
  <2>2. PICK b \in 1..Len(ss) : \E q \in 1..Len(ss[b]) : p = off[b] + q
    BY <1>2 DEF Placed
  <2>3. PICK q \in 1..Len(ss[b]) : p = off[b] + q
    BY <2>2
  <2>4. r[p] = ss[b][q]
    BY <1>2, <2>3 DEF Placed
  <2> QED BY <1>3, <2>1, <2>4 DEF Range
<1> QED BY <1>4, <1>5 DEF r

LEMMA FlattenDistinct ==
  ASSUME NEW T, NEW ss \in Seq(Seq(T)),
         \A b \in 1..Len(ss) : Distinct(ss[b]),
         \A b, c \in 1..Len(ss) : b # c => Range(ss[b]) \cap Range(ss[c]) = {}
  PROVE  Distinct(FlattenSeq(ss))
<1> DEFINE r == FlattenSeq(ss)
<1>1. r \in Seq(T) /\ \A b \in 1..Len(ss) : ss[b] \in Seq(T)
  BY FlattenPlaces, ElementOfSeq
<1>2. PICK off : Placed(off, ss, r)
  BY FlattenPlaces
<1> HIDE DEF r
<1>3. DOMAIN r = 1..Len(r) /\ \A b \in 1..Len(ss) : DOMAIN ss[b] = 1..Len(ss[b])
  BY <1>1, LenProperties
<1>4. ASSUME NEW i \in DOMAIN r, NEW j \in DOMAIN r, r[i] = r[j] PROVE i = j
  <2>7. PICK b \in 1..Len(ss) : \E q \in 1..Len(ss[b]) : i = off[b] + q
    BY <1>2, <1>3 DEF Placed
  <2>1. PICK q \in 1..Len(ss[b]) : i = off[b] + q
    BY <2>7
  <2>8. PICK c \in 1..Len(ss) : \E s \in 1..Len(ss[c]) : j = off[c] + s
    BY <1>2, <1>3 DEF Placed
  <2>2. PICK s \in 1..Len(ss[c]) : j = off[c] + s
    BY <2>8
  <2>3. r[i] = ss[b][q] /\ r[j] = ss[c][s]
    BY <1>2, <2>1, <2>2 DEF Placed
  <2>4. ss[b][q] \in Range(ss[b]) /\ ss[c][s] \in Range(ss[c])
    BY <1>3 DEF Range
  <2>5. b = c
    BY <1>4, <2>3, <2>4
  <2>6. q = s
    BY <1>3, <1>4, <2>3, <2>5 DEF Distinct
  <2> QED BY <2>1, <2>2, <2>5, <2>6
<1> QED BY <1>4 DEF Distinct, r

Visits(t, v, n) == Range(v[n]) = Below(t, n) /\ Distinct(v[n])

LEMMA PreorderVisits ==
  ASSUME NEW t, Sound(t), NEW v, IsPreorder(t, v), NEW n \in t.live
  PROVE  Visits(t, v, n)
<1> DEFINE S == {m \in t.live : Visits(t, v, m)}
<1>1. ASSUME NEW m \in t.live, Range(t.kids[m]) \subseteq S PROVE m \in S
  <2> DEFINE L == Len(t.kids[m])
             ss == BelowKids(t, v, m)
             fl == FlattenSeq(ss)
             one == <<m>>
  <2>0. v \in [t.live -> Seq(t.live)]
    BY DEF IsPreorder
  <2>1. /\ ss \in Seq(Seq(t.live)) /\ Len(ss) = L
        /\ \A i \in 1..L : t.kids[m][i] \in t.live /\ ss[i] = v[t.kids[m][i]]
    <3>1. KidByKid(ss, t, v, m)
      BY <2>0, BelowKidsType
    <3> HIDE DEF ss
    <3> QED BY <3>1 DEF KidByKid
  <2>2. v[m] = one \o fl
    BY DEF IsPreorder
  <2>3. DOMAIN t.kids[m] = 1..L
    BY LenProperties DEF Sound, TreeType
  <2>4. one \in Seq(t.live) /\ Range(one) = {m} /\ Distinct(one)
    BY SeqOfOne
  <2>5. fl \in Seq(t.live)
    BY <2>1, FlattenPlaces
  <2> HIDE DEF L, ss, one
  <2>6. \A i \in 1..L : t.kids[m][i] \in Range(t.kids[m])
    BY <2>3 DEF Range
  <2>7. \A i \in 1..L : Range(ss[i]) = Below(t, t.kids[m][i]) /\ Distinct(ss[i])
    BY <1>1, <2>1, <2>6 DEF Visits
  <2>8. \A i, j \in 1..L : t.kids[m][i] = t.kids[m][j] => i = j
    BY <2>3 DEF Sound, LinksAgree
  <2>9. Distinct(fl)
    <3>1. \A i, j \in 1..L : i # j => Range(ss[i]) \cap Range(ss[j]) = {}
      BY <2>6, <2>7, <2>8, BelowApart
    <3> QED BY <2>1, <2>7, <3>1, FlattenDistinct
  <2>10. Range(fl) = UNION {Below(t, c) : c \in Range(t.kids[m])}
    <3>1. ASSUME NEW x \in Range(fl) PROVE \E c \in Range(t.kids[m]) : x \in Below(t, c)
      <4>1. PICK b \in 1..L : x \in Range(ss[b])
        BY <2>1, FlattenRange
      <4> QED BY <2>6, <2>7, <4>1
    <3>2. ASSUME NEW c \in Range(t.kids[m]), NEW x \in Below(t, c) PROVE x \in Range(fl)
      <4>1. PICK b \in 1..L : c = t.kids[m][b]
        BY <2>3 DEF Range
      <4>2. x \in Range(ss[b])
        BY <2>7, <4>1
      <4> QED BY <2>1, <4>2, FlattenRange
    <3> QED BY <3>1, <3>2
  <2> HIDE DEF fl
  <2>11. Range(v[m]) = Below(t, m)
    <3>1. Range(one \o fl) = Range(one) \cup Range(fl)
      BY <2>4, <2>5, JoinProperties
    <3> QED BY <2>2, <2>4, <2>10, <3>1, BelowIs
  <2>12. Range(one) \cap Range(fl) = {}
    BY <2>4, <2>10, BelowApart
  <2>13. Distinct(v[m])
    BY <2>2, <2>4, <2>5, <2>9, <2>12, JoinDistinct
  <2> QED BY <2>11, <2>13 DEF Visits
<1> HIDE DEF S
<1>2. t.live \subseteq S
  BY <1>1, TreeInduction
<1> QED BY <1>2 DEF S

(* The depth-first search visits what is linked to ctx->root, each node once. *)
LEMMA DfsVisits ==
  ASSUME NEW t, Sound(t)
  PROVE  Range(DfsOrder(t)) = Linked(t) /\ Distinct(DfsOrder(t))
<1>1. PICK v : IsPreorder(t, v) /\ DfsOrder(t) = IF t.root = NULL THEN <<>> ELSE v[t.root]
  BY DfsUnrolled
<1>2. CASE t.root = NULL
  BY <1>1, <1>2, LinkedIsBelow, EmptySeq DEF Range, Distinct
<1>3. CASE t.root # NULL
  <2>1. t.root \in t.live
    BY <1>3 DEF Sound, LinksAgree
  <2>2. Visits(t, v, t.root)
    BY <1>1, <2>1, PreorderVisits
  <2> QED BY <1>1, <1>3, <2>2, LinkedIsBelow DEF Visits
<1> QED BY <1>2, <1>3

-----------------------------------------------------------------------------
(* What an operation does to the nodes linked to ctx->root *)

LEMMA RootIsLinked ==
  ASSUME NEW t, Sound(t)
  PROVE  /\ Linked(t) \in SUBSET t.live
         /\ t.root = NULL => Linked(t) = {}
         /\ t.root # NULL => t.root \in Linked(t)
<1>1. t.root # NULL => t.root \in t.live
  BY DEF Sound, LinksAgree
<1> QED BY <1>1, LinkedIsBelow, AncestorsClosed DEF Linked, Below

LEMMA AttachLinks ==
  ASSUME NEW t, Sound(t), NEW n \in Node \ t.live, NEW x,
         NEW q \in t.live \cup {NULL},
         q = NULL => t.root = NULL,
         q # NULL => HasRoom(t, q)
  PROVE  Linked(AttachNode(t, n, x, q)) =
           Linked(t) \cup (IF q = NULL \/ q \in Linked(t) THEN {n} ELSE {})
<1> DEFINE T == AttachNode(t, n, x, q)
           L == t.live \cup {n}
<1>1. /\ T.live = L
      /\ T.root = IF q = NULL THEN n ELSE t.root
      /\ T.parent = [m \in L |-> IF m = n THEN q ELSE t.parent[m]]
  BY DEF AttachNode
<1>2. Sound(T)
  BY AttachSound
<1> HIDE DEF T
<1>3. /\ n \notin t.live /\ n # NULL /\ NULL \notin t.live
      /\ \A m \in t.live : T.parent[m] = t.parent[m] /\ t.parent[m] \in t.live \cup {NULL}
      /\ T.parent[n] = q
  BY <1>1, TreeAssumption DEF Sound, TreeType, LinksAgree
<1>4. ASSUME NEW m \in t.live PROVE Ancestors(T, m) = Ancestors(t, m)
  <2>1. ASSUME NEW a \in Ancestors(T, m) PROVE a \in Ancestors(t, m)
    <3>1. ASSUME NEW S \in SUBSET t.live, m \in S, ClosedUnderParent(t, S) PROVE a \in S
      <4>1. S \in SUBSET T.live /\ ClosedUnderParent(T, S)
        BY <1>1, <1>3, <3>1 DEF ClosedUnderParent
      <4> QED BY <2>1, <3>1, <4>1 DEF Ancestors
    <3>2. ClosedUnderParent(t, t.live)
      BY <1>3 DEF ClosedUnderParent
    <3>3. a \in t.live
      BY <3>1, <3>2
    <3> QED BY <3>1, <3>3 DEF Ancestors
  <2>2. ASSUME NEW a \in Ancestors(t, m) PROVE a \in Ancestors(T, m)
    <3>1. ASSUME NEW S \in SUBSET L, m \in S, ClosedUnderParent(T, S) PROVE a \in S
      <4>1. S \ {n} \in SUBSET t.live /\ m \in S \ {n}
        BY <1>3, <3>1
      <4>2. ClosedUnderParent(t, S \ {n})
        BY <1>1, <1>3, <3>1 DEF ClosedUnderParent
      <4> QED BY <2>2, <4>1, <4>2 DEF Ancestors
    <3>2. a \in L
      BY <2>2 DEF Ancestors
    <3> QED BY <1>1, <3>1, <3>2 DEF Ancestors
  <2> QED BY <2>1, <2>2
<1>5. /\ q = NULL => Ancestors(T, n) = {n}
      /\ q # NULL => Ancestors(T, n) = {n} \cup Ancestors(t, q)
  BY <1>1, <1>2, <1>3, <1>4, AncestorsUp
<1>6. \A m \in t.live : Ancestors(t, m) \subseteq t.live
  BY DEF Ancestors
<1>7. CASE q = NULL
  <2>1. Linked(t) = {}
    BY <1>7, RootIsLinked
  <2>2. Linked(T) = {n}
    BY <1>1, <1>3, <1>4, <1>5, <1>6, <1>7 DEF Linked
  <2> QED BY <1>7, <2>1, <2>2 DEF T
<1>8. CASE q # NULL
  <2>1. T.root = t.root /\ t.root # n /\ q \in t.live
    BY <1>1, <1>3, <1>8 DEF Sound, LinksAgree
  <2>2. \A m \in t.live : m \in Linked(T) <=> m \in Linked(t)
    BY <1>1, <1>4, <2>1 DEF Linked
  <2>3. n \in Linked(T) <=> q \in Linked(t)
    BY <1>1, <1>5, <1>8, <2>1 DEF Linked
  <2>4. Linked(T) \subseteq L /\ Linked(t) \subseteq t.live
    BY <1>1 DEF Linked
  <2>5. Linked(T) = Linked(t) \cup (IF q \in Linked(t) THEN {n} ELSE {})
    BY <1>3, <2>2, <2>3, <2>4
  <2> QED BY <1>8, <2>5 DEF T
<1> QED BY <1>7, <1>8

LEMMA DetachLinks ==
  ASSUME NEW t, Sound(t), NEW n \in t.live
  PROVE  Linked(DetachNode(t, n)) \subseteq Linked(t) \ {n}
<1> DEFINE D == DetachNode(t, n)
           L == t.live \ {n}
           p == t.parent[n]
           A == Range(Adopted(t, n))
           C == Range(CastOff(t, n))
<1> HIDE DEF D, L, p, A, C
<1>1. /\ D.live = L
      /\ D.root = IF p = NULL /\ t.root = n THEN NULL ELSE t.root
      /\ D.parent = [m \in L |-> IF m \in A THEN p ELSE IF m \in C THEN NULL ELSE t.parent[m]]
  BY DEF DetachNode, NewParent, D, L, p, A, C
<1>2. /\ A \cup C = ChildrenOf(t, n) /\ p # n
      /\ NULL \notin t.live /\ LinksAsSets(t)
  <2>1. A \cup C = ChildrenOf(t, n) /\ p # n
    BY DetachPieces DEF p, A, C
  <2>2. NULL \notin t.live /\ LinksAsSets(t)
    BY LinksAreSets, TreeAssumption DEF Sound, TreeType
  <2> QED BY <2>1, <2>2
<1>3. \A m \in L : m \in A => t.parent[m] = n
  BY <1>2 DEF ChildrenOf
<1>4. \A m \in L : m \notin A /\ m \notin C => t.parent[m] # n
  BY <1>2 DEF ChildrenOf, L
<1>5. ASSUME NEW m \in Linked(D) PROVE m \in Linked(t) /\ m # n
  <2>1. m \in L /\ D.root \in L /\ D.root = t.root
    <3>1. m \in L /\ D.root \in L
      BY <1>1, <1>5 DEF Linked, Ancestors
    <3>2. D.root # NULL
      BY <1>2, <3>1 DEF L
    <3> QED BY <1>1, <3>1, <3>2
  <2>2. ASSUME NEW S \in SUBSET t.live, m \in S, ClosedUnderParent(t, S) PROVE t.root \in S
    <3>1. \A y \in S : t.parent[y] = NULL \/ t.parent[y] \in S
      BY <2>2 DEF ClosedUnderParent
    <3> DEFINE U == S \ {n}
    <3>2. U \in SUBSET L /\ m \in U
      BY <2>1, <2>2 DEF L
    <3>3. ASSUME NEW y \in U PROVE D.parent[y] = NULL \/ D.parent[y] \in U
      <4>0. y \in L
        BY <3>2
      <4>1. CASE y \in A
        <5>1. n \in S
          BY <1>2, <1>3, <3>1, <4>0, <4>1
        <5>2. p = NULL \/ p \in S
          BY <3>1, <5>1 DEF p
        <5> QED BY <1>1, <1>2, <4>0, <4>1, <5>2
      <4>2. CASE y \notin A /\ y \in C
        BY <1>1, <4>0, <4>2
      <4>3. CASE y \notin A /\ y \notin C
        BY <1>1, <1>4, <3>1, <4>0, <4>3
      <4> QED BY <4>1, <4>2, <4>3
    <3>4. D.root \in U
      BY <1>1, <1>5, <3>2, <3>3 DEF Linked, Ancestors, ClosedUnderParent
    <3> QED BY <2>1, <3>4
  <2> QED BY <2>1, <2>2 DEF Linked, Ancestors, L
<1> QED BY <1>5 DEF D

-----------------------------------------------------------------------------
(* The breadth-first search *)

(* What distinct elements of a finite set make is no longer than the set is large. *)
LEMMA DistinctFits ==
  ASSUME NEW R, IsFiniteSet(R), NEW s \in Seq(R), Distinct(s)
  PROVE  /\ Len(s) \in Nat /\ Cardinality(R) \in Nat /\ Len(s) <= Cardinality(R)
         /\ Len(s) = Cardinality(R) => Range(s) = R
<1> DEFINE l == Len(s)
<1>1. l \in Nat /\ DOMAIN s = 1..l /\ s \in [1..l -> R]
  BY LenProperties
<1>2. s \in Injection(1..l, R)
  BY <1>1 DEF Distinct, Injection, IsInjective
<1>3. Cardinality(1..l) = l
  <2>1. Cardinality(1..l) = IF 1 > l THEN 0 ELSE l - 1 + 1
    BY <1>1, FS_Interval
  <2> QED BY <1>1, <2>1
<1> HIDE DEF l
<1>4. l <= Cardinality(R) /\ (l = Cardinality(R) => s \in Surjection(1..l, R))
  BY <1>2, <1>3, FS_Injection
<1>5. s \in Surjection(1..l, R) => Range(s) = R
  BY <1>1 DEF Surjection, Range
<1> QED BY <1>1, <1>4, <1>5, FS_CardinalityType DEF l

(* A queue gives its head away. *)
LEMMA Dequeue ==
  ASSUME NEW T, NEW q \in Seq(T), Distinct(q), q # <<>>
  PROVE  /\ Head(q) \in T /\ Tail(q) \in Seq(T) /\ Distinct(Tail(q))
         /\ Range(q) = {Head(q)} \cup Range(Tail(q)) /\ Head(q) \notin Range(Tail(q))
<1> DEFINE r == Tail(q)
<1>1. Len(q) \in Nat \ {0} /\ DOMAIN q = 1..Len(q)
  BY LenProperties, EmptySeq
<1>2. /\ Head(q) = q[1] /\ q[1] \in T
      /\ r \in Seq(T) /\ Len(r) = Len(q) - 1 /\ \A i \in 1..Len(r) : r[i] = q[i + 1]
  BY <1>1, HeadTailProperties, ElementOfSeq
<1> HIDE DEF r
<1>3. DOMAIN r = 1..Len(r) /\ Len(r) \in Nat
  BY <1>2, LenProperties
<1>4. \A i \in DOMAIN r : i \in Nat /\ i + 1 \in DOMAIN q /\ i + 1 # 1 /\ r[i] = q[i + 1]
  BY <1>1, <1>2, <1>3
<1>5. 1 \in DOMAIN q
  BY <1>1
<1>6. Distinct(r)
  <2>1. ASSUME NEW i \in DOMAIN r, NEW j \in DOMAIN r, r[i] = r[j] PROVE i = j
    <3>1. i + 1 = j + 1
      BY <1>4, <2>1 DEF Distinct
    <3> QED BY <1>4, <3>1
  <2> QED BY <2>1 DEF Distinct
<1>7. q[1] \notin Range(r)
  BY <1>4, <1>5 DEF Distinct, Range
<1>8. ASSUME NEW x \in Range(q) PROVE x = q[1] \/ x \in Range(r)
  <2>1. PICK i \in DOMAIN q : x = q[i]
    BY DEF Range
  <2>2. CASE i = 1
    BY <2>1, <2>2
  <2>3. CASE i # 1
    <3>1. i - 1 \in DOMAIN r /\ (i - 1) + 1 = i
      BY <1>1, <1>2, <1>3, <2>3
    <3>2. r[i - 1] = q[i]
      BY <1>4, <3>1
    <3> QED BY <2>1, <3>1, <3>2 DEF Range
  <2> QED BY <2>2, <2>3
<1>9. Range(r) \subseteq Range(q) /\ q[1] \in Range(q)
  BY <1>4, <1>5 DEF Range
<1> QED BY <1>2, <1>6, <1>7, <1>8, <1>9 DEF r

LEMMA AppendOne ==
  ASSUME NEW T, NEW s \in Seq(T), NEW x \in T
  PROVE  /\ Append(s, x) \in Seq(T) /\ Range(Append(s, x)) = Range(s) \cup {x}
         /\ Len(s) \in Nat /\ Len(Append(s, x)) = Len(s) + 1
         /\ DOMAIN s = 1..Len(s) /\ DOMAIN Append(s, x) = 1..(Len(s) + 1)
         /\ \A i \in 1..Len(s) : Append(s, x)[i] = s[i]
         /\ Append(s, x)[Len(s) + 1] = x
         /\ Distinct(s) /\ x \notin Range(s) => Distinct(Append(s, x))
<1> DEFINE a == Append(s, x)
           l == Len(s)
<1>1. l \in Nat /\ DOMAIN s = 1..l
  BY LenProperties
<1>2. a \in Seq(T) /\ Len(a) = l + 1 /\ (\A i \in 1..l : a[i] = s[i]) /\ a[l + 1] = x
  BY AppendProperties
<1> HIDE DEF a, l
<1>3. DOMAIN a = 1..(l + 1)
  BY <1>2, LenProperties
<1>4. 1..(l + 1) = (1..l) \cup {l + 1} /\ l + 1 \notin 1..l
  BY <1>1
<1>5. Range(a) = Range(s) \cup {x}
  BY <1>1, <1>2, <1>3, <1>4 DEF Range
<1>6. ASSUME Distinct(s), x \notin Range(s) PROVE Distinct(a)
  BY <1>1, <1>2, <1>3, <1>4, <1>6 DEF Distinct, Range
<1> QED BY <1>1, <1>2, <1>3, <1>5, <1>6 DEF a, l

(* A bounded queue keeps a prefix, and all when all fits. *)
PrefixOf(u, a) == Len(u) <= Len(a) /\ \A j \in 1..Len(u) : u[j] = a[j]

LEMMA PushAllProperties ==
  ASSUME NEW T, NEW a \in Seq(T), NEW b \in Seq(T)
  PROVE  /\ PushAll(a, b) \in Seq(T)
         /\ PrefixOf(PushAll(a, b), a \o b)
         /\ Len(a \o b) <= MAX_QUEUE_SIZE => PushAll(a, b) = a \o b
<1> DEFINE r == a \o b
           k == Min({Len(r), MAX_QUEUE_SIZE})
           u == SubSeq(r, 1, k)
<1>1. r \in Seq(T) /\ Len(r) \in Nat
  BY ConcatProperties, LenProperties
<1> HIDE DEF r
<1>2. k \in Nat /\ k <= Len(r) /\ (Len(r) <= MAX_QUEUE_SIZE => k = Len(r))
  BY <1>1, TreeAssumption, MinOfTwo
<1> HIDE DEF k
<1>3. 1 \in 1..(Len(r) + 1) /\ k \in (1 - 1)..Len(r) /\ k + 1 - 1 = k
  BY <1>1, <1>2
<1>4. u \in Seq(T) /\ Len(u) = k /\ DOMAIN u = 1..k /\ \A j \in 1..k : u[j] = r[1 + j - 1]
  BY <1>1, <1>3, SliceProperties
<1> HIDE DEF u
<1>5. \A j \in 1..k : u[j] = r[j]
  BY <1>2, <1>4
<1>6. PrefixOf(u, r)
  BY <1>2, <1>4, <1>5 DEF PrefixOf
<1>7. ASSUME k = Len(r) PROVE u = r
  BY <1>1, <1>4, <1>5, <1>7, SeqEqual
<1>8. PushAll(a, b) = u
  BY DEF PushAll, u, k, r
<1> QED BY <1>2, <1>4, <1>6, <1>7, <1>8 DEF r

LEMMA PrefixKeeps ==
  ASSUME NEW T, NEW u \in Seq(T), NEW a \in Seq(T), PrefixOf(u, a)
  PROVE  Range(u) \subseteq Range(a) /\ (Distinct(a) => Distinct(u))
<1>1. DOMAIN u = 1..Len(u) /\ DOMAIN a = 1..Len(a) /\ Len(u) \in Nat /\ Len(a) \in Nat
  BY LenProperties
<1>2. \A j \in DOMAIN u : j \in DOMAIN a /\ u[j] = a[j]
  BY <1>1 DEF PrefixOf
<1> QED BY <1>2 DEF Range, Distinct

(* The states of the search: its queue, and the nodes it has popped. *)
SearchStates(t) == [queue : Seq(t.live), popped : Seq(t.live)]

Start(t) == [queue |-> IF t.root = NULL THEN <<>> ELSE <<t.root>>, popped |-> <<>>]

Turn(t, s) ==
  IF s.queue = <<>> THEN s
  ELSE [queue  |-> PushAll(Tail(s.queue), t.kids[Head(s.queue)]),
        popped |-> Append(s.popped, Head(s.queue))]

IsSearch(t, f) ==
  f \in [Nat -> SearchStates(t)] /\ f[0] = Start(t) /\ \A k \in Nat : f[k + 1] = Turn(t, f[k])

LEMMA KidsType ==
  ASSUME NEW t, Sound(t), NEW n \in t.live
  PROVE  t.kids[n] \in Seq(t.live) /\ Distinct(t.kids[n])
<1>1. t.kids[n] \in Seq(Node) /\ Distinct(t.kids[n])
  BY LinksAreSets DEF Sound, TreeType, LinksAsSets
<1>2. DOMAIN t.kids[n] = 1..Len(t.kids[n]) /\ Len(t.kids[n]) \in Nat
  BY <1>1, LenProperties
<1>3. \A i \in 1..Len(t.kids[n]) : t.kids[n][i] \in t.live
  BY <1>2 DEF Sound, LinksAgree
<1>4. t.kids[n] \in [1..Len(t.kids[n]) -> t.live]
  BY <1>1, <1>2, <1>3, LenProperties
<1> QED BY <1>1, <1>2, <1>4, SeqOfFunction

LEMMA TurnType ==
  ASSUME NEW t, Sound(t)
  PROVE  Start(t) \in SearchStates(t) /\ \A s \in SearchStates(t) : Turn(t, s) \in SearchStates(t)
<1>1. Start(t) \in SearchStates(t)
  <2>1. t.root # NULL => <<t.root>> \in Seq(t.live)
    BY SeqOfOne DEF Sound, LinksAgree
  <2>2. <<>> \in Seq(t.live)
    BY EmptySeq
  <2> QED BY <2>1, <2>2 DEF Start, SearchStates
<1>2. ASSUME NEW s \in SearchStates(t), s.queue # <<>> PROVE Turn(t, s) \in SearchStates(t)
  <2> DEFINE h == Head(s.queue)
             r == Tail(s.queue)
  <2>1. s.queue \in Seq(t.live) /\ s.popped \in Seq(t.live)
    BY DEF SearchStates
  <2>2. h \in t.live /\ r \in Seq(t.live)
    BY <1>2, <2>1, HeadTailProperties, EmptySeq
  <2> HIDE DEF h, r
  <2>3. PushAll(r, t.kids[h]) \in Seq(t.live)
    BY <2>2, KidsType, PushAllProperties
  <2>4. Append(s.popped, h) \in Seq(t.live)
    BY <2>1, <2>2, AppendOne
  <2> QED BY <1>2, <2>3, <2>4 DEF Turn, SearchStates, h, r
<1>3. ASSUME NEW s \in SearchStates(t), s.queue = <<>> PROVE Turn(t, s) \in SearchStates(t)
  BY <1>3 DEF Turn
<1> QED BY <1>1, <1>2, <1>3

LEMMA BfsUnrolled ==
  ASSUME NEW t, Sound(t)
  PROVE  \E f : IsSearch(t, f) /\ BfsOrder(t) = f[Cardinality(t.live)].popped
<1> DEFINE S == SearchStates(t)
           step == [k \in Nat |-> [s \in S |-> Turn(t, s)]]
<1>1. PICK f : Iterates(f, S, Start(t), step)
  <2>1. step \in StepsOf(S) /\ Start(t) \in S
    BY TurnType DEF StepsOf
  <2> HIDE DEF S, step
  <2> QED BY <2>1, IterationExists
<1>2. f \in [Nat -> S] /\ f[0] = Start(t) /\ \A k \in Nat : f[k + 1] = Turn(t, f[k])
  BY <1>1 DEF Iterates
<1> HIDE DEF step, S
<1> DEFINE Loop(g) ==
             g = [k \in Nat |->
                    IF k = 0
                    THEN [queue |-> IF t.root = NULL THEN <<>> ELSE <<t.root>>, popped |-> <<>>]
                    ELSE LET s == g[k - 1]
                         IN  IF s.queue = <<>> THEN s
                             ELSE [queue  |-> PushAll(Tail(s.queue), t.kids[Head(s.queue)]),
                                   popped |-> Append(s.popped, Head(s.queue))]]
           g == CHOOSE g : Loop(g)
<1>3. BfsOrder(t) = g[Cardinality(t.live)].popped
  BY DEF BfsOrder
<1>4. Loop(g)
  <2>1. Loop(f)
    <3> DEFINE F(k) == IF k = 0 THEN Start(t) ELSE Turn(t, f[k - 1])
    <3>1. \A k \in Nat : f[k] = F(k)
      <4> SUFFICES ASSUME NEW k \in Nat PROVE f[k] = F(k)
        OBVIOUS
      <4>1. CASE k = 0
        BY <1>2, <4>1
      <4>2. CASE k # 0
        <5>1. k - 1 \in Nat /\ (k - 1) + 1 = k
          BY <4>2
        <5> QED BY <1>2, <4>2, <5>1
      <4> QED BY <4>1, <4>2
    <3> HIDE DEF F
    <3>2. f = [k \in Nat |-> F(k)]
      BY <1>2, <3>1
    <3> QED BY <3>2 DEF F, Start, Turn
  <2> HIDE DEF Loop
  <2> QED BY <2>1
<1>5. /\ g[0] = Start(t)
      /\ \A k \in Nat : g[k + 1] = Turn(t, g[k])
  <2>1. g[0] = Start(t)
    BY <1>4 DEF Start
  <2>2. ASSUME NEW k \in Nat PROVE g[k + 1] = Turn(t, g[k])
    <3>1. k + 1 \in Nat /\ k + 1 # 0 /\ (k + 1) - 1 = k
      OBVIOUS
    <3> QED BY <1>4, <3>1 DEF Turn
  <2> QED BY <2>1, <2>2
<1> HIDE DEF g
<1>6. \A k \in Nat : g[k] = f[k]
  <2> DEFINE E == {k \in Nat : g[k] = f[k]}
  <2>1. 0 \in E
    BY <1>2, <1>5
  <2>2. ASSUME NEW k \in Nat, k \in E PROVE k + 1 \in E
    <3>1. k + 1 \in Nat /\ g[k] = f[k]
      BY <2>2
    <3> QED BY <1>2, <1>5, <3>1
  <2> HIDE DEF E
  <2>3. \A k \in Nat : k \in E
    BY <2>1, <2>2, NumberInduction
  <2> QED BY <2>3 DEF E
<1>7. Cardinality(t.live) \in Nat
  BY FS_CardinalityType DEF Sound, TreeType
<1>8. IsSearch(t, f)
  BY <1>2 DEF IsSearch, S
<1> QED BY <1>3, <1>6, <1>7, <1>8

(* Every node comes after its parent. *)
ComesAfterParent(t, s) ==
  \A i \in DOMAIN s : t.parent[s[i]] # NULL => \E j \in 1..(i - 1) : s[j] = t.parent[s[i]]

(* What the search keeps at every turn: it meets linked nodes only, none twice,  *)
(* and each after its parent.                                                    *)
SearchInv(t, s) ==
  /\ s \in SearchStates(t)
  /\ Range(s.popped) \subseteq Linked(t) /\ Range(s.queue) \subseteq Linked(t)
  /\ Distinct(s.popped) /\ Distinct(s.queue) /\ Range(s.popped) \cap Range(s.queue) = {}
  /\ ComesAfterParent(t, s.popped)
  /\ \A n \in Range(s.queue) : t.parent[n] # NULL => t.parent[n] \in Range(s.popped)

LEMMA KidsLinked ==
  ASSUME NEW t, Sound(t), NEW n \in Linked(t), NEW c \in Range(t.kids[n])
  PROVE  c \in Linked(t)
<1>1. n \in t.live /\ t.root \in Ancestors(t, n)
  BY DEF Linked
<1>2. c \in t.live /\ t.parent[c] = n /\ n # NULL
  BY <1>1, KidsAre
<1> QED BY <1>1, <1>2, AncestorsUp DEF Linked

LEMMA StartInv ==
  ASSUME NEW t, Sound(t)
  PROVE  SearchInv(t, Start(t))
<1>1. Range(<<>>) = {} /\ Distinct(<<>>) /\ ComesAfterParent(t, <<>>)
  BY DEF Range, Distinct, ComesAfterParent
<1>2. t.root # NULL => /\ t.root \in Linked(t) /\ t.parent[t.root] = NULL
                       /\ Range(<<t.root>>) = {t.root} /\ Distinct(<<t.root>>)
  BY SeqOfOne, RootIsLinked DEF Sound, LinksAgree
<1>3. Start(t).popped = <<>> /\ Start(t).queue = IF t.root = NULL THEN <<>> ELSE <<t.root>>
  BY DEF Start
<1>4. Start(t) \in SearchStates(t)
  BY TurnType
<1> QED BY <1>1, <1>2, <1>3, <1>4 DEF SearchInv

LEMMA TurnInv ==
  ASSUME NEW t, Sound(t), NEW s, SearchInv(t, s)
  PROVE  SearchInv(t, Turn(t, s))
<1>1. CASE s.queue = <<>>
  BY <1>1 DEF Turn
<1>2. CASE s.queue # <<>>
  <2> DEFINE h == Head(s.queue)
             r == Tail(s.queue)
             c == t.kids[h]
             q == PushAll(r, c)
             p == Append(s.popped, h)
             T == Turn(t, s)
  <2>1. T.queue = q /\ T.popped = p
    BY <1>2 DEF Turn
  <2>2. T \in SearchStates(t)
    BY TurnType DEF SearchInv
  <2> HIDE DEF T
  <2>3. s.queue \in Seq(t.live) /\ s.popped \in Seq(t.live) /\ Distinct(s.queue) /\ Distinct(s.popped)
    BY DEF SearchInv, SearchStates
  <2>4. h \in t.live /\ r \in Seq(t.live) /\ Distinct(r)
        /\ Range(s.queue) = {h} \cup Range(r) /\ h \notin Range(r)
    BY <1>2, <2>3, Dequeue
  <2> HIDE DEF h, r
  <2>5. c \in Seq(t.live) /\ Distinct(c)
        /\ \A y \in Range(c) : y \in t.live /\ t.parent[y] = h /\ h # NULL
    BY <2>4, KidsType, KidsAre
  <2> HIDE DEF c
  <2>6. h \in Linked(t) /\ h \notin Range(s.popped) /\ Range(c) \subseteq Linked(t)
    <3>1. h \in Linked(t) /\ h \notin Range(s.popped)
      BY <2>4 DEF SearchInv
    <3> QED BY <3>1, KidsLinked DEF c
  <2>7. p \in Seq(t.live) /\ Range(p) = Range(s.popped) \cup {h} /\ Distinct(p)
    <3> HIDE DEF p
    <3>1. p \in Seq(t.live) /\ Range(p) = Range(s.popped) \cup {h}
      <4> DEFINE w == s.popped
      <4>1. w \in Seq(t.live)
        BY <2>3
      <4> HIDE DEF w
      <4>2. Append(w, h) \in Seq(t.live) /\ Range(Append(w, h)) = Range(w) \cup {h}
        BY <2>4, <4>1, AppendOne
      <4> QED BY <4>2 DEF p, w
    <3>2. Distinct(p)
      BY <2>3, <2>4, <2>6, AppendOne DEF p
    <3> QED BY <3>1, <3>2
  (* A child of h is new, for h has not been popped before. *)
  <2>8. \A y \in Range(c) : y \notin Range(s.queue) /\ y \notin Range(s.popped)
    <3> SUFFICES ASSUME NEW y \in Range(c), y \in Range(s.queue) \/ y \in Range(s.popped) PROVE FALSE
      OBVIOUS
    <3>1. t.parent[y] = h /\ h # NULL
      BY <2>5
    <3>2. CASE y \in Range(s.queue)
      BY <2>6, <3>1, <3>2 DEF SearchInv
    <3>3. CASE y \in Range(s.popped)
      <4>1. PICK i \in DOMAIN s.popped : y = s.popped[i]
        BY <3>3 DEF Range
      <4>2. PICK j \in 1..(i - 1) : s.popped[j] = h
        BY <3>1, <4>1 DEF SearchInv, ComesAfterParent
      <4>3. j \in DOMAIN s.popped
        <5>1. DOMAIN s.popped = 1..Len(s.popped) /\ Len(s.popped) \in Nat
          BY <2>3, LenProperties
        <5>2. i \in 1..Len(s.popped)
          BY <4>1, <5>1
        <5>3. j \in 1..Len(s.popped)
          BY <4>2, <5>1, <5>2
        <5> QED BY <5>1, <5>3
      <4> QED BY <2>6, <4>2, <4>3 DEF Range
    <3> QED BY <3>2, <3>3
  <2>9. r \o c \in Seq(t.live) /\ Range(r \o c) = Range(r) \cup Range(c) /\ Distinct(r \o c)
    <3>1. Range(r) \cap Range(c) = {}
      BY <2>4, <2>8
    <3> QED BY <2>4, <2>5, <3>1, JoinProperties, JoinDistinct
  <2>10. q \in Seq(t.live) /\ Range(q) \subseteq Range(r) \cup Range(c) /\ Distinct(q)
    <3>1. q \in Seq(t.live) /\ PrefixOf(q, r \o c)
      BY <2>4, <2>5, PushAllProperties
    <3> HIDE DEF q
    <3> QED BY <2>9, <3>1, PrefixKeeps
  <2>11. ComesAfterParent(t, p)
    <3>1. /\ Len(s.popped) \in Nat /\ DOMAIN s.popped = 1..Len(s.popped)
          /\ DOMAIN p = 1..(Len(s.popped) + 1)
          /\ \A i \in 1..Len(s.popped) : p[i] = s.popped[i]
          /\ p[Len(s.popped) + 1] = h
      BY <2>3, <2>4, AppendOne
    <3> DEFINE l == Len(s.popped)
    <3> HIDE DEF l, p
    <3>2. ASSUME NEW i \in DOMAIN p, t.parent[p[i]] # NULL
          PROVE  \E j \in 1..(i - 1) : p[j] = t.parent[p[i]]
      <4>1. l \in Nat /\ i \in 1..(l + 1)
        BY <3>1 DEF l
      <4>2. CASE i = l + 1
        <5>1. t.parent[h] \in Range(s.popped)
          BY <2>4, <3>1, <3>2, <4>2 DEF SearchInv, l
        <5>2. PICK j \in 1..l : s.popped[j] = t.parent[h]
          BY <3>1, <5>1 DEF Range, l
        <5>3. i - 1 = l
          BY <4>1, <4>2
        <5>4. p[j] = t.parent[p[i]]
          BY <3>1, <4>2, <5>2 DEF l
        <5> QED BY <5>2, <5>3, <5>4
      <4>3. CASE i # l + 1
        <5>1. i \in 1..l
          BY <4>1, <4>3
        <5>2. p[i] = s.popped[i]
          BY <3>1, <5>1 DEF l
        <5>3. PICK j \in 1..(i - 1) : s.popped[j] = t.parent[p[i]]
          BY <3>1, <3>2, <5>1, <5>2 DEF SearchInv, ComesAfterParent, l
        <5>4. j \in 1..l
          BY <4>1, <5>1
        <5>5. p[j] = s.popped[j]
          BY <3>1, <5>4 DEF l
        <5> QED BY <5>3, <5>5
      <4> QED BY <4>2, <4>3
    <3> QED BY <3>2 DEF ComesAfterParent
  <2> HIDE DEF p, q
  <2>12. Range(p) \subseteq Linked(t) /\ Range(q) \subseteq Linked(t) /\ Range(p) \cap Range(q) = {}
    <3>1. Range(s.popped) \subseteq Linked(t) /\ Range(s.queue) \subseteq Linked(t)
          /\ Range(s.popped) \cap Range(s.queue) = {}
      BY DEF SearchInv
    <3>2. h \notin Range(c)
      BY <2>4, <2>8
    <3> QED BY <2>4, <2>6, <2>7, <2>8, <2>10, <3>1, <3>2
  <2>13. ASSUME NEW n \in Range(q), t.parent[n] # NULL PROVE t.parent[n] \in Range(p)
    <3>1. CASE n \in Range(r)
      BY <2>4, <2>7, <2>13, <3>1 DEF SearchInv
    <3>2. CASE n \in Range(c)
      BY <2>5, <2>7, <3>2
    <3> QED BY <2>10, <3>1, <3>2
  <2>14. SearchInv(t, T)
    BY <2>1, <2>2, <2>7, <2>10, <2>11, <2>12, <2>13 DEF SearchInv
  <2> QED BY <2>14 DEF T
<1> QED BY <1>1, <1>2

(* A queue that never drops a node misses none. *)
Roomy(t) == Cardinality(Linked(t)) <= MAX_QUEUE_SIZE

Met(s) == Range(s.popped) \cup Range(s.queue)

Thorough(t, s) ==
  /\ t.root # NULL => t.root \in Met(s)
  /\ \A n \in Range(s.popped) : Range(t.kids[n]) \subseteq Met(s)

LEMMA TurnThorough ==
  ASSUME NEW t, Sound(t), Roomy(t), NEW s, SearchInv(t, s), Thorough(t, s)
  PROVE  Thorough(t, Turn(t, s))
<1>1. CASE s.queue = <<>>
  BY <1>1 DEF Turn
<1>2. CASE s.queue # <<>>
  <2> DEFINE h == Head(s.queue)
             r == Tail(s.queue)
             c == t.kids[h]
             q == PushAll(r, c)
             p == Append(s.popped, h)
             T == Turn(t, s)
  <2>1. T.queue = q /\ T.popped = p
    BY <1>2 DEF Turn
  <2> HIDE DEF T
  <2>2. s.queue \in Seq(t.live) /\ s.popped \in Seq(t.live) /\ Distinct(s.queue)
    BY DEF SearchInv, SearchStates
  <2>3. h \in t.live /\ r \in Seq(t.live) /\ Distinct(r) /\ Range(s.queue) = {h} \cup Range(r)
    BY <1>2, <2>2, Dequeue
  <2> HIDE DEF h, r
  <2>4. c \in Seq(t.live) /\ Distinct(c)
    BY <2>3, KidsType
  <2>5. Range(p) = Range(s.popped) \cup {h}
    BY <2>2, <2>3, AppendOne
  <2>6. Range(q) = Range(r) \cup Range(c)
    <3> DEFINE a == r \o c
    <3>1. a \in Seq(t.live) /\ Range(a) = Range(r) \cup Range(c)
      <4> HIDE DEF c
      <4>1. r \o c \in Seq(t.live) /\ Range(r \o c) = Range(r) \cup Range(c)
        BY <2>3, <2>4, JoinProperties
      <4> QED BY <4>1
    <3> HIDE DEF a
    <3>2. Distinct(a) /\ Range(a) \subseteq Linked(t)
      <4>1. Range(s.queue) \subseteq Linked(t) /\ h \in Linked(t)
        BY <2>3 DEF SearchInv
      <4>2. Range(c) \subseteq Linked(t)
        BY <4>1, KidsLinked DEF c
      <4>3. Range(r) \cap Range(c) = {}
        <5> SUFFICES ASSUME NEW y \in Range(r), y \in Range(c) PROVE FALSE
          OBVIOUS
        <5>1. y \in t.live /\ t.parent[y] = h /\ h # NULL
          BY <2>3, KidsAre DEF c
        <5>2. h \in Range(s.popped) /\ h \in Range(s.queue)
          BY <2>3, <5>1 DEF SearchInv
        <5> QED BY <5>2 DEF SearchInv
      <4>4. Distinct(a)
        BY <2>3, <2>4, <4>3, JoinDistinct DEF a
      <4> QED BY <2>3, <3>1, <4>1, <4>2, <4>4
    <3>3. a \in Seq(Linked(t))
      <4>1. Len(a) \in Nat /\ DOMAIN a = 1..Len(a) /\ a \in [1..Len(a) -> t.live]
        BY <3>1, LenProperties
      <4>2. \A i \in 1..Len(a) : a[i] \in Range(a)
        BY <4>1 DEF Range
      <4>3. a \in [1..Len(a) -> Linked(t)]
        BY <3>2, <4>1, <4>2
      <4> QED BY <4>1, <4>3, SeqOfFunction
    <3>4. IsFiniteSet(Linked(t))
      BY RootIsLinked, FS_Subset DEF Sound, TreeType
    <3>5. Len(a) \in Nat /\ Cardinality(Linked(t)) \in Nat /\ Len(a) <= Cardinality(Linked(t))
      BY <3>2, <3>3, <3>4, DistinctFits
    <3>6. Len(a) <= MAX_QUEUE_SIZE
      BY <3>5, TreeAssumption DEF Roomy
    <3>7. q = a
      BY <2>3, <2>4, <3>6, PushAllProperties DEF a
    <3> QED BY <3>1, <3>7
  <2>7. Met(T) = Met(s) \cup Range(c)
    BY <2>1, <2>3, <2>5, <2>6 DEF Met
  <2> HIDE DEF p, q
  <2>8. ASSUME NEW n \in Range(T.popped) PROVE Range(t.kids[n]) \subseteq Met(T)
    BY <2>1, <2>5, <2>7 DEF Thorough, c
  <2>9. t.root # NULL => t.root \in Met(T)
    BY <2>7 DEF Thorough
  <2>10. Thorough(t, T)
    BY <2>8, <2>9 DEF Thorough
  <2> QED BY <2>10 DEF T
<1> QED BY <1>1, <1>2

(* One node less to pop at each turn. *)
Progress(s, k) == s.queue = <<>> \/ Len(s.popped) = k

LEMMA TurnProgress ==
  ASSUME NEW t, Sound(t), NEW s, SearchInv(t, s), NEW k \in Nat, Progress(s, k)
  PROVE  Progress(Turn(t, s), k + 1)
<1>1. CASE s.queue = <<>>
  BY <1>1 DEF Turn, Progress
<1>2. CASE s.queue # <<>>
  <2>1. s.queue \in Seq(t.live) /\ s.popped \in Seq(t.live)
    BY DEF SearchInv, SearchStates
  <2>2. Head(s.queue) \in t.live
    BY <1>2, <2>1, HeadTailProperties, EmptySeq
  <2>3. Len(Append(s.popped, Head(s.queue))) = Len(s.popped) + 1
    BY <2>1, <2>2, AppendOne
  <2>4. Turn(t, s).popped = Append(s.popped, Head(s.queue))
    BY <1>2 DEF Turn
  <2> QED BY <1>2, <2>3, <2>4 DEF Progress
<1> QED BY <1>1, <1>2

LEMMA SearchRuns ==
  ASSUME NEW t, Sound(t), NEW f, IsSearch(t, f), NEW k \in Nat
  PROVE  SearchInv(t, f[k]) /\ Progress(f[k], k) /\ (Roomy(t) => Thorough(t, f[k]))
<1> DEFINE Good(i) == SearchInv(t, f[i]) /\ Progress(f[i], i) /\ (Roomy(t) => Thorough(t, f[i]))
           E == {i \in Nat : Good(i)}
<1>1. 0 \in E
  <2>1. f[0] = Start(t) /\ SearchInv(t, Start(t))
    BY StartInv DEF IsSearch
  <2>2. Progress(Start(t), 0)
    BY EmptySeq DEF Progress, Start
  <2>3. Thorough(t, Start(t))
    <3>1. Range(Start(t).popped) = {}
      BY DEF Start, Range
    <3>2. t.root # NULL => t.root \in Range(Start(t).queue)
      BY SeqOfOne DEF Start
    <3> QED BY <3>1, <3>2 DEF Thorough, Met
  <2> QED BY <2>1, <2>2, <2>3
<1>2. ASSUME NEW i \in Nat, i \in E PROVE i + 1 \in E
  <2>1. i + 1 \in Nat /\ Good(i) /\ f[i + 1] = Turn(t, f[i])
    BY <1>2 DEF IsSearch
  <2>2. SearchInv(t, f[i + 1]) /\ Progress(f[i + 1], i + 1)
    BY <2>1, TurnInv, TurnProgress
  <2>3. Roomy(t) => Thorough(t, f[i + 1])
    BY <2>1, TurnThorough
  <2> QED BY <2>1, <2>2, <2>3
<1> HIDE DEF E
<1>3. \A i \in Nat : i \in E
  BY <1>1, <1>2, NumberInduction
<1> QED BY <1>3 DEF E

(* A search meets nodes linked to ctx->root only, none twice and each after its *)
(* parent, and all of them when they fit in its queue.                          *)
BfsVisits(t) ==
  /\ BfsOrder(t) \in Seq(t.live)
  /\ Range(BfsOrder(t)) \subseteq Linked(t)
  /\ Distinct(BfsOrder(t))
  /\ ComesAfterParent(t, BfsOrder(t))
  /\ Roomy(t) => Range(BfsOrder(t)) = Linked(t)

LEMMA SearchVisits ==
  ASSUME NEW t, Sound(t)
  PROVE  BfsVisits(t)
<1>1. PICK f : IsSearch(t, f) /\ BfsOrder(t) = f[Cardinality(t.live)].popped
  BY BfsUnrolled
<1> DEFINE C == Cardinality(t.live)
           s == f[C]
           b == BfsOrder(t)
<1>2. C \in Nat /\ IsFiniteSet(t.live)
  BY FS_CardinalityType DEF Sound, TreeType
<1> HIDE DEF C, b
<1>3. SearchInv(t, s) /\ Progress(s, C) /\ (Roomy(t) => Thorough(t, s)) /\ b = s.popped
  BY <1>1, <1>2, SearchRuns DEF C, b
<1> HIDE DEF s
<1>4. b \in Seq(t.live) /\ Range(b) \subseteq Linked(t) /\ Distinct(b) /\ ComesAfterParent(t, b)
      /\ s.queue \in Seq(t.live) /\ Range(s.queue) \subseteq Linked(t)
      /\ Range(b) \cap Range(s.queue) = {}
  BY <1>3 DEF SearchInv, SearchStates
<1>5. Linked(t) \in SUBSET t.live
  BY RootIsLinked
<1>6. s.queue = <<>>
  <2> SUFFICES ASSUME s.queue # <<>> PROVE FALSE
    OBVIOUS
  <2>1. Range(b) = t.live
    BY <1>2, <1>3, <1>4, DistinctFits DEF Progress, C
  <2>2. Head(s.queue) \in Range(s.queue)
    <3>1. Len(s.queue) \in Nat \ {0} /\ DOMAIN s.queue = 1..Len(s.queue)
      BY <1>4, LenProperties, EmptySeq
    <3>2. 1 \in DOMAIN s.queue /\ Head(s.queue) = s.queue[1]
      BY <1>4, <3>1, HeadTailProperties
    <3> QED BY <3>2 DEF Range
  <2> QED BY <1>4, <1>5, <2>1, <2>2
<1>7. ASSUME Roomy(t), NEW n \in Linked(t) PROVE n \in Range(b)
  <2> SUFFICES ASSUME n \notin Range(b) PROVE FALSE
    OBVIOUS
  <2>1. Met(s) = Range(b) /\ Thorough(t, s)
    <3>1. Range(<<>>) = {}
      BY DEF Range
    <3> QED BY <1>3, <1>6, <1>7, <3>1 DEF Met
  <2> DEFINE S == t.live \ Range(b)
  <2>2. ASSUME NEW y \in S PROVE t.parent[y] = NULL \/ t.parent[y] \in S
    <3> SUFFICES ASSUME t.parent[y] # NULL, t.parent[y] \notin S PROVE FALSE
      OBVIOUS
    <3>1. t.parent[y] \in t.live /\ y \in Range(t.kids[t.parent[y]])
      BY DEF Sound, LinksAgree
    <3>2. t.parent[y] \in Range(s.popped)
      BY <1>3, <3>1
    <3> QED BY <2>1, <3>1, <3>2 DEF Thorough
  <2>3. t.root \in S
    <3>1. n \in S /\ S \in SUBSET t.live
      BY <1>5
    <3> QED BY <2>2, <3>1 DEF Linked, Ancestors, ClosedUnderParent
  <2>4. t.root # NULL
    BY <2>3, TreeAssumption DEF Sound, TreeType
  <2> QED BY <2>1, <2>3, <2>4 DEF Thorough
<1>8. BfsVisits(t)
  BY <1>4, <1>7 DEF BfsVisits, b
<1> QED BY <1>8

(* A search by id finds a linked node with that id, or nothing. *)
LEMMA FoundIsLinked ==
  ASSUME NEW t, Sound(t), NEW x
  PROVE  \/ tree_find_node(t, x) = NULL
         \/ tree_find_node(t, x) \in Linked(t) /\ t.id[tree_find_node(t, x)] = x
<1>1. Range(BfsOrder(t)) \subseteq Linked(t)
  BY SearchVisits DEF BfsVisits
<1>2. \A n \in t.live : FirstPopped(t, n, x) => n \in Linked(t) /\ t.id[n] = x
  BY <1>1 DEF FirstPopped, Range
<1> HIDE DEF FirstPopped
<1> QED BY <1>2 DEF tree_find_node

(* When ids are unique and the queue never full, it finds every linked node. *)
LEMMA LinkedIsFound ==
  ASSUME NEW t, Sound(t), Roomy(t), NEW n \in Linked(t),
         \A m \in Linked(t) : t.id[m] = t.id[n] => m = n
  PROVE  tree_find_node(t, t.id[n]) = n
<1> DEFINE b == BfsOrder(t)
           x == t.id[n]
<1>1. b \in Seq(t.live) /\ Range(b) = Linked(t) /\ Distinct(b)
  BY SearchVisits DEF BfsVisits
<1>2. PICK i \in DOMAIN b : b[i] = n
  BY <1>1 DEF Range
<1>3. DOMAIN b = 1..Len(b) /\ Len(b) \in Nat
  BY <1>1, LenProperties
<1>4. \A j \in 1..(i - 1) : j \in DOMAIN b /\ j # i
  BY <1>3
<1>5. \A j \in 1..(i - 1) : t.id[b[j]] # x
  BY <1>1, <1>2, <1>4 DEF Distinct, Range
<1>6. FirstPopped(t, n, x)
  BY <1>2, <1>5 DEF FirstPopped
<1>7. n \in t.live /\ NULL \notin t.live
  BY RootIsLinked, TreeAssumption DEF Sound, TreeType
<1>8. tree_find_node(t, x) # NULL
  <2>1. \A m \in t.live : m # NULL
    BY <1>7
  <2> HIDE DEF FirstPopped
  <2> QED BY <1>6, <1>7, <2>1 DEF tree_find_node
<1> HIDE DEF x
<1>9. tree_find_node(t, x) \in Linked(t) /\ t.id[tree_find_node(t, x)] = x
  BY <1>8, FoundIsLinked
<1> QED BY <1>9 DEF x

-----------------------------------------------------------------------------
(* The depth *)

LEMMA MaxExists ==
  ASSUME NEW S \in SUBSET Nat, IsFiniteSet(S), S # {}
  PROVE  Max(S) \in S /\ \A y \in S : y <= Max(S)
<1> DEFINE Upward(x) == {y \in S : y >= x}
           K == {Upward(x) : x \in S}
<1>1. K \in SUBSET SUBSET S /\ K # {}
  OBVIOUS
<1>2. PICK M \in K : \A U \in K : U \subseteq M => U = M
  <2> HIDE DEF K
  <2>1. HasSmallest(K)
    BY <1>1, SmallestSubset
  <2> QED BY <2>1 DEF HasSmallest
<1>3. PICK x \in S : M = Upward(x)
  BY <1>2
<1>4. ASSUME NEW y \in S PROVE x >= y
  <2> SUFFICES ASSUME ~(x >= y) PROVE FALSE
    OBVIOUS
  <2>1. x \in Nat /\ y \in Nat /\ \A z \in S : z \in Nat
    OBVIOUS
  <2>2. ASSUME NEW z \in Upward(y) PROVE z \in Upward(x)
    <3>1. z \in S /\ z >= y
      OBVIOUS
    <3>2. z >= x
      BY <2>1, <3>1
    <3> QED BY <3>1, <3>2
  <2>3. x \in Upward(x) /\ x \notin Upward(y) /\ Upward(y) \in K
    BY <2>1
  <2> HIDE DEF K, Upward
  <2> QED BY <1>2, <1>3, <2>2, <2>3
<1> HIDE DEF K, Upward
<1>5. Max(S) \in S /\ \A y \in S : Max(S) >= y
  BY <1>4 DEF Max
<1>6. \A y, z \in S : z >= y => y <= z
  OBVIOUS
<1> QED BY <1>5, <1>6

LEMMA ImageFinite ==
  ASSUME NEW S, IsFiniteSet(S), NEW f
  PROVE  IsFiniteSet({f[x] : x \in S})
<1> DEFINE T == {f[x] : x \in S}
           g == [x \in S |-> f[x]]
<1>1. g \in Surjection(S, T)
  BY DEF Surjection
<1> HIDE DEF g, T
<1>2. IsFiniteSet(T)
  BY <1>1, FS_Surjection
<1> QED BY <1>2 DEF T

HighestKid(t, v, n) == Max({0} \cup {v[c] : c \in Range(t.kids[n])})

(* v gives every node the height of what is below it. *)
IsHeight(t, v) == v \in [t.live -> Nat] /\ \A n \in t.live : v[n] = 1 + HighestKid(t, v, n)

BoundsKids(t, v, n, k) ==
  /\ k \in Nat
  /\ \A c \in Range(t.kids[n]) : v[c] <= k
  /\ k = 0 \/ \E c \in Range(t.kids[n]) : v[c] = k

LEMMA HighestKidType ==
  ASSUME NEW t, Sound(t), NEW v \in [t.live -> Nat], NEW n \in t.live
  PROVE  BoundsKids(t, v, n, HighestKid(t, v, n))
<1> DEFINE R == Range(t.kids[n])
           X == {v[c] : c \in R}
           Y == {0} \cup X
<1>1. R \in SUBSET t.live
  BY KidsAre
<1>2. IsFiniteSet(R)
  BY <1>1, FS_Subset DEF Sound, TreeType
<1> HIDE DEF R
<1>3. IsFiniteSet(X)
  BY <1>2, ImageFinite
<1>4. X \subseteq Nat
  BY <1>1
<1>5. IsFiniteSet(Y)
  <2> HIDE DEF X
  <2>1. Y = X \cup {0}
    OBVIOUS
  <2> QED BY <1>3, <2>1, FS_AddElement
<1>6. Max(Y) \in Y /\ \A y \in Y : y <= Max(Y)
  <2>1. Y \in SUBSET Nat /\ Y # {}
    BY <1>4
  <2> HIDE DEF Y
  <2> QED BY <1>5, <2>1, MaxExists
<1> DEFINE k == Max(Y)
<1> HIDE DEF k
<1>7. k \in Nat /\ (\A c \in R : v[c] <= k) /\ (k = 0 \/ \E c \in R : v[c] = k)
  <2>1. k \in {0} \cup X /\ \A y \in X : y <= k
    BY <1>6 DEF k
  <2>2. k \in Nat
    BY <1>4, <2>1
  <2> QED BY <2>1, <2>2
<1>8. HighestKid(t, v, n) = k
  BY DEF HighestKid, k, R
<1> QED BY <1>7, <1>8 DEF BoundsKids, R

LEMMA HeightUnrolled ==
  ASSUME NEW t, Sound(t)
  PROVE  \E v : IsHeight(t, v) /\ tree_get_depth(t) = IF t.root = NULL THEN 0 ELSE v[t.root]
<1> DEFINE S == [t.live -> Nat]
           start == [n \in t.live |-> 0]
           once(v) == [n \in t.live |-> 1 + HighestKid(t, v, n)]
           step == [k \in Nat |-> [v \in S |-> once(v)]]
<1>1. start \in S /\ \A v \in S : once(v) \in S
  <2>1. ASSUME NEW v \in S, NEW n \in t.live PROVE 1 + HighestKid(t, v, n) \in Nat
    BY HighestKidType DEF BoundsKids
  <2> QED BY <2>1
<1> HIDE DEF once, start
<1>2. PICK f : Iterates(f, S, start, step)
  <2>1. step \in StepsOf(S)
    BY <1>1 DEF StepsOf
  <2> HIDE DEF S, step
  <2> QED BY <1>1, <2>1, IterationExists
<1>3. f \in [Nat -> S] /\ f[0] = start /\ \A k \in Nat : f[k + 1] = once(f[k])
  BY <1>2 DEF Iterates
<1> HIDE DEF step
<1> DEFINE Heights(g) ==
             g = [k \in Nat |-> [n \in t.live |->
                    IF k = 0 THEN 0
                    ELSE 1 + Max({0} \cup {g[k - 1][c] : c \in Range(t.kids[n])})]]
           g == CHOOSE g : Heights(g)
<1>4. tree_get_depth(t) = IF t.root = NULL THEN 0 ELSE g[Cardinality(t.live)][t.root]
  BY DEF tree_get_depth
<1>5. Heights(g)
  <2>1. Heights(f)
    <3> DEFINE F(k) == IF k = 0 THEN start ELSE once(f[k - 1])
    <3>1. \A k \in Nat : f[k] = F(k)
      <4> SUFFICES ASSUME NEW k \in Nat PROVE f[k] = F(k)
        OBVIOUS
      <4>1. CASE k = 0
        BY <1>3, <4>1
      <4>2. CASE k # 0
        <5>1. k - 1 \in Nat /\ (k - 1) + 1 = k
          BY <4>2
        <5> QED BY <1>3, <4>2, <5>1
      <4> QED BY <4>1, <4>2
    <3>2. \A k \in Nat : F(k) = [n \in t.live |->
                    IF k = 0 THEN 0
                    ELSE 1 + Max({0} \cup {f[k - 1][c] : c \in Range(t.kids[n])})]
      BY DEF start, once, HighestKid
    <3> HIDE DEF F
    <3>3. f = [k \in Nat |-> F(k)]
      BY <1>3, <3>1
    <3> QED BY <3>2, <3>3
  <2> HIDE DEF Heights
  <2> QED BY <2>1
<1>6. /\ g[0] = start
      /\ \A k \in Nat : g[k + 1] = once(g[k])
  <2>1. g[0] = start
    BY <1>5 DEF start
  <2>2. ASSUME NEW k \in Nat PROVE g[k + 1] = once(g[k])
    <3>1. k + 1 \in Nat /\ k + 1 # 0 /\ (k + 1) - 1 = k
      OBVIOUS
    <3>2. g[k + 1] = [n \in t.live |->
                       IF k + 1 = 0 THEN 0
                       ELSE 1 + Max({0} \cup {g[(k + 1) - 1][c] : c \in Range(t.kids[n])})]
      BY <1>5, <3>1
    <3>3. once(g[k]) = [n \in t.live |-> 1 + Max({0} \cup {g[k][c] : c \in Range(t.kids[n])})]
      BY DEF once, HighestKid
    <3> HIDE DEF once, g
    <3> QED BY <3>1, <3>2, <3>3
  <2> QED BY <2>1, <2>2
<1> HIDE DEF g
<1>7. \A k \in Nat : g[k] = f[k]
  <2> DEFINE E == {k \in Nat : g[k] = f[k]}
  <2>1. 0 \in E
    BY <1>3, <1>6
  <2>2. ASSUME NEW k \in Nat, k \in E PROVE k + 1 \in E
    <3>1. k + 1 \in Nat /\ g[k] = f[k]
      BY <2>2
    <3> QED BY <1>3, <1>6, <3>1
  <2> HIDE DEF E
  <2>3. \A k \in Nat : k \in E
    BY <2>1, <2>2, NumberInduction
  <2> QED BY <2>3 DEF E
<1> DEFINE C == Cardinality(t.live)
           v == f[C]
<1>8. C \in Nat
  BY FS_CardinalityType DEF Sound, TreeType
<1>9. v \in S
  BY <1>3, <1>8
<1>10. Bottomup(f, t)
  <2> SUFFICES ASSUME NEW n \in t.live, NEW j \in Nat, NEW k \in Nat,
                      \A c \in Range(t.kids[n]) : f[j][c] = f[k][c]
               PROVE  f[j + 1][n] = f[k + 1][n]
    BY DEF Bottomup
  <2>1. HighestKid(t, f[j], n) = HighestKid(t, f[k], n)
    <3>1. {f[j][c] : c \in Range(t.kids[n])} = {f[k][c] : c \in Range(t.kids[n])}
      OBVIOUS
    <3> QED BY <3>1 DEF HighestKid
  <2>2. \A w : once(w)[n] = 1 + HighestKid(t, w, n)
    BY DEF once
  <2>3. f[j + 1] = once(f[j]) /\ f[k + 1] = once(f[k])
    BY <1>3
  <2> HIDE DEF once
  <2> QED BY <2>1, <2>2, <2>3
<1>11. \A n \in t.live : f[C + 1][n] = f[C][n]
  <2>1. C + 1 \in Nat /\ C + 1 >= C
    BY <1>8
  <2> QED BY <1>10, <2>1, Stabilizes
<1>12. f[C + 1] = once(v)
  BY <1>3, <1>8
<1>13. IsHeight(t, v)
  <2> HIDE DEF v
  <2>1. \A n \in t.live : v[n] = once(v)[n]
    BY <1>11, <1>12 DEF v
  <2> QED BY <1>9, <2>1 DEF IsHeight, once
<1>14. tree_get_depth(t) = IF t.root = NULL THEN 0 ELSE v[t.root]
  BY <1>4, <1>7, <1>8
<1> HIDE DEF v
<1> QED BY <1>13, <1>14

(* How far down a node is: the number of nodes on its chain of parents. *)
Level(t, n) == Cardinality(Ancestors(t, n))

LEMMA LevelUp ==
  ASSUME NEW t, Sound(t), NEW n \in t.live
  PROVE  /\ Level(t, n) \in Nat
         /\ t.parent[n] = NULL => Level(t, n) = 1
         /\ t.parent[n] # NULL => Level(t, n) = Level(t, t.parent[n]) + 1
<1>1. \A m \in t.live : IsFiniteSet(Ancestors(t, m)) /\ Level(t, m) \in Nat
  <2>1. \A m \in t.live : Ancestors(t, m) \in SUBSET t.live
    BY DEF Ancestors
  <2>2. IsFiniteSet(t.live)
    BY DEF Sound, TreeType
  <2> QED BY <2>1, <2>2, FS_Subset, FS_CardinalityType DEF Level
<1>2. CASE t.parent[n] = NULL
  <2>1. Ancestors(t, n) = {n}
    BY <1>2, AncestorsUp
  <2> QED BY <1>1, <1>2, <2>1, FS_Singleton DEF Level
<1>3. CASE t.parent[n] # NULL
  <2> DEFINE A == Ancestors(t, t.parent[n])
  <2>1. t.parent[n] \in t.live /\ Ancestors(t, n) = {n} \cup A
    BY <1>3, AncestorsUp
  <2>2. n \notin A
    BY <1>3, NotAboveParent
  <2>3. IsFiniteSet(A)
    BY <1>1, <2>1
  <2> HIDE DEF A
  <2>4. Cardinality(A \cup {n}) = Cardinality(A) + 1
    BY <2>2, <2>3, FS_AddElement
  <2>5. A \cup {n} = {n} \cup A
    OBVIOUS
  <2> QED BY <1>1, <1>3, <2>1, <2>4, <2>5 DEF Level, A
<1> QED BY <1>1, <1>2, <1>3

(* The deepest node below n is v[n] - 1 levels further down than n. *)
Plumbed(t, v, n) ==
  /\ \A m \in Below(t, n) : Level(t, m) <= (Level(t, n) + v[n]) - 1
  /\ \E m \in Below(t, n) : Level(t, m) = (Level(t, n) + v[n]) - 1

LEMMA HeightPlumbs ==
  ASSUME NEW t, Sound(t), NEW v, IsHeight(t, v), NEW n \in t.live
  PROVE  Plumbed(t, v, n)
<1> DEFINE S == {m \in t.live : Plumbed(t, v, m)}
<1> SUFFICES ASSUME NEW m \in t.live, Range(t.kids[m]) \subseteq S PROVE Plumbed(t, v, m)
  <2>1. t.live \subseteq S
    <3> HIDE DEF Plumbed
    <3> QED BY TreeInduction
  <2> QED BY <2>1
<1> DEFINE k == HighestKid(t, v, m)
           l == Level(t, m)
<1>1. v \in [t.live -> Nat] /\ v[m] = 1 + k
  BY DEF IsHeight
<1>2. k \in Nat /\ (\A c \in Range(t.kids[m]) : v[c] <= k)
      /\ (k = 0 \/ \E c \in Range(t.kids[m]) : v[c] = k)
  BY <1>1, HighestKidType DEF BoundsKids
<1>3. l \in Nat /\ m \in Below(t, m)
      /\ Below(t, m) = {m} \cup UNION {Below(t, c) : c \in Range(t.kids[m])}
  BY LevelUp, BelowIs
<1> HIDE DEF k
<1>4. \A y \in t.live : Level(t, y) \in Nat
  BY LevelUp
<1>5. \A y : Below(t, y) \subseteq t.live
  BY DEF Below
<1>6. ASSUME NEW c \in Range(t.kids[m])
      PROVE  c \in t.live /\ Level(t, c) = l + 1 /\ v[c] \in Nat /\ Plumbed(t, v, c)
  <2>1. c \in t.live /\ t.parent[c] = m /\ m # NULL
    BY KidsAre
  <2> QED BY <1>1, <2>1, LevelUp
<1> HIDE DEF l
<1>7. (l + v[m]) - 1 = l + k
  BY <1>1, <1>2, <1>3
<1>8. ASSUME NEW y \in Below(t, m) PROVE Level(t, y) <= l + k
  <2>1. CASE y = m
    BY <1>2, <1>3, <2>1 DEF l
  <2>2. CASE y # m
    <3>1. PICK c \in Range(t.kids[m]) : y \in Below(t, c)
      BY <1>3, <2>2
    <3>2. Level(t, y) <= (Level(t, c) + v[c]) - 1
      BY <1>6, <3>1 DEF Plumbed
    <3>3. Level(t, y) <= (l + 1 + v[c]) - 1 /\ v[c] <= k /\ v[c] \in Nat
      BY <1>2, <1>6, <3>2
    <3>4. Level(t, y) \in Nat
      BY <1>4, <1>5
    <3> QED BY <1>2, <1>3, <3>3, <3>4
  <2> QED BY <2>1, <2>2
<1>9. \E y \in Below(t, m) : Level(t, y) = l + k
  <2>1. CASE k = 0
    <3>1. Level(t, m) = l + k
      BY <1>3, <2>1 DEF l
    <3> QED BY <1>3, <3>1
  <2>2. CASE k # 0
    <3>1. PICK c \in Range(t.kids[m]) : v[c] = k
      BY <1>2, <2>2
    <3>2. PICK y \in Below(t, c) : Level(t, y) = (Level(t, c) + v[c]) - 1
      BY <1>6 DEF Plumbed
    <3>3. Level(t, y) = (l + 1 + k) - 1
      BY <1>6, <3>1, <3>2
    <3>4. Level(t, y) = l + k
      BY <1>2, <1>3, <3>3
    <3>5. y \in Below(t, m)
      BY <1>3, <3>2
    <3> QED BY <3>4, <3>5
  <2> QED BY <2>1, <2>2
<1> QED BY <1>7, <1>8, <1>9 DEF Plumbed, l

(* tree_get_depth is the length of the longest chain of parents of a linked node. *)
LEMMA DepthIsDeepest ==
  ASSUME NEW t, Sound(t)
  PROVE  tree_get_depth(t) = Max({0} \cup {Cardinality(Ancestors(t, n)) : n \in Linked(t)})
<1> DEFINE L == Linked(t)
           f == [n \in L |-> Level(t, n)]
           X == {f[n] : n \in L}
           Y == {0} \cup X
<1>1. L \in SUBSET t.live /\ L = IF t.root = NULL THEN {} ELSE Below(t, t.root)
  BY RootIsLinked, LinkedIsBelow
<1>2. PICK v : IsHeight(t, v) /\ tree_get_depth(t) = IF t.root = NULL THEN 0 ELSE v[t.root]
  BY HeightUnrolled
<1> HIDE DEF L
<1>3. Y = {0} \cup {Cardinality(Ancestors(t, n)) : n \in L}
  BY DEF Level
<1>4. X \subseteq Nat
  BY <1>1, LevelUp
<1>5. IsFiniteSet(X)
  <2>1. IsFiniteSet(L)
    BY <1>1, FS_Subset DEF Sound, TreeType
  <2> HIDE DEF f
  <2> QED BY <2>1, ImageFinite
<1>6. Max(Y) \in Y /\ \A y \in Y : y <= Max(Y)
  <2>1. Y \in SUBSET Nat /\ Y # {} /\ Y = X \cup {0}
    BY <1>4
  <2> HIDE DEF X
  <2>2. IsFiniteSet(X \cup {0})
    BY <1>5, FS_AddElement
  <2> HIDE DEF Y
  <2> QED BY <2>1, <2>2, MaxExists
<1>7. CASE t.root = NULL
  <2>1. X = {}
    BY <1>1, <1>7
  <2>2. Max(Y) = 0
    BY <1>6, <2>1
  <2> QED BY <1>2, <1>3, <1>7, <2>2 DEF L
<1>8. CASE t.root # NULL
  <2> DEFINE d == v[t.root]
  <2>1. t.root \in t.live /\ t.parent[t.root] = NULL /\ d \in Nat
    BY <1>2, <1>8 DEF Sound, LinksAgree, IsHeight
  <2>2. Level(t, t.root) = 1 /\ Plumbed(t, v, t.root) /\ L = Below(t, t.root)
    BY <1>1, <1>2, <1>8, <2>1, LevelUp, HeightPlumbs
  <2>3. (\A m \in L : Level(t, m) <= (1 + d) - 1) /\ (\E m \in L : Level(t, m) = (1 + d) - 1)
    BY <2>2 DEF Plumbed
  <2> HIDE DEF d
  <2>4. (1 + d) - 1 = d
    BY <2>1
  <2>5. \A m \in L : f[m] = Level(t, m)
    OBVIOUS
  <2>6. d \in X /\ \A y \in X : y <= d
    <3>1. (\A m \in L : Level(t, m) <= d) /\ \E m \in L : Level(t, m) = d
      BY <2>3, <2>4
    <3> HIDE DEF f
    <3> QED BY <2>5, <3>1
  <2>7. Max(Y) = d
    <3>1. Max(Y) \in Nat /\ d <= Max(Y) /\ Max(Y) <= d
      <4>1. d \in Y /\ (\A y \in Y : y <= d)
        BY <2>1, <2>6
      <4>2. Max(Y) \in Nat
        BY <1>4, <1>6
      <4> HIDE DEF Y
      <4> QED BY <1>6, <4>1, <4>2
    <3> QED BY <2>1, <3>1
  <2> QED BY <1>2, <1>3, <1>8, <2>7 DEF L, d
<1> QED BY <1>7, <1>8

-----------------------------------------------------------------------------
(* A pre-order starts at its node, and visits every other after its parent. *)
Leads(t, v, n) ==
  /\ Len(v[n]) \in Nat /\ Len(v[n]) >= 1 /\ v[n][1] = n
  /\ \A i \in 2..Len(v[n]) : \E j \in 1..(i - 1) : v[n][j] = t.parent[v[n][i]]

LEMMA PreorderLeads ==
  ASSUME NEW t, Sound(t), NEW v, IsPreorder(t, v), NEW n \in t.live
  PROVE  Leads(t, v, n)
<1> DEFINE S == {m \in t.live : Leads(t, v, m)}
<1>1. ASSUME NEW m \in t.live, Range(t.kids[m]) \subseteq S PROVE m \in S
  <2> DEFINE L == Len(t.kids[m])
             ss == BelowKids(t, v, m)
             fl == FlattenSeq(ss)
             one == <<m>>
             r == v[m]
             l == Len(fl)
  <2>0. v \in [t.live -> Seq(t.live)]
    BY DEF IsPreorder
  <2>1. /\ ss \in Seq(Seq(t.live)) /\ Len(ss) = L
        /\ \A i \in 1..L : t.kids[m][i] \in t.live /\ ss[i] = v[t.kids[m][i]]
    <3>1. KidByKid(ss, t, v, m)
      BY <2>0, BelowKidsType
    <3> HIDE DEF ss
    <3> QED BY <3>1 DEF KidByKid
  <2>2. r = one \o fl
    BY DEF IsPreorder
  <2>3. DOMAIN t.kids[m] = 1..L
    BY LenProperties DEF Sound, TreeType
  <2>4. one \in Seq(t.live) /\ Len(one) = 1 /\ one[1] = m
    BY SeqOfOne
  <2>5. fl \in Seq(t.live)
    BY <2>1, FlattenPlaces
  <2>6. PICK off : Placed(off, ss, fl)
    BY <2>1, FlattenPlaces
  <2> HIDE DEF L, ss, one, fl, r
  <2>7. \A i \in 1..L : t.kids[m][i] \in Range(t.kids[m])
    BY <2>3 DEF Range
  <2>8. \A b \in 1..L : Leads(t, v, t.kids[m][b]) /\ t.parent[t.kids[m][b]] = m
    BY <1>1, <2>7, KidsAre
  <2>9. l \in Nat /\ DOMAIN fl = 1..l /\ DOMAIN one = 1..1
    BY <2>4, <2>5, LenProperties
  <2>10. Joined(r, one, fl)
    BY <2>2, <2>4, <2>5, JoinElements
  <2> HIDE DEF l
  <2>11. Len(r) = 1 + l /\ r[1] = m /\ \A q \in 1..l : r[1 + q] = fl[q]
    <3>1. 1 \in DOMAIN one
      BY <2>9
    <3> QED BY <2>4, <2>9, <2>10, <3>1 DEF Joined, l
  <2>12. ASSUME NEW i \in 2..Len(r) PROVE \E j \in 1..(i - 1) : r[j] = t.parent[r[i]]
    <3>1. i \in Nat /\ i - 1 \in 1..l /\ 1 + (i - 1) = i /\ 1 \in 1..(i - 1)
      BY <2>9, <2>11
    <3>2. r[i] = fl[i - 1]
      BY <2>11, <3>1
    <3>3. PICK b \in 1..L : \E q \in 1..Len(ss[b]) : i - 1 = off[b] + q
      BY <2>1, <2>6, <3>1 DEF Placed, l
    <3>4. PICK q \in 1..Len(ss[b]) : i - 1 = off[b] + q
      BY <3>3
    <3>5. off[b] \in Nat /\ \A p \in 1..Len(ss[b]) : off[b] + p \in 1..l /\ fl[off[b] + p] = ss[b][p]
      BY <2>1, <2>6 DEF Placed, l
    <3>6. r[i] = ss[b][q]
      BY <3>2, <3>4, <3>5
    <3> DEFINE c == t.kids[m][b]
    <3>7. ss[b] = v[c] /\ Leads(t, v, c) /\ t.parent[c] = m
      BY <2>1, <2>8
    <3> HIDE DEF c
    <3>8. /\ Len(ss[b]) \in Nat /\ ss[b][1] = c
          /\ \A y \in 2..Len(ss[b]) : \E j \in 1..(y - 1) : ss[b][j] = t.parent[ss[b][y]]
      BY <3>7 DEF Leads
    <3>9. CASE q = 1
      BY <2>11, <3>1, <3>6, <3>7, <3>8, <3>9
    <3>10. CASE q # 1
      <4>1. q \in 2..Len(ss[b])
        BY <3>8, <3>10
      <4>2. PICK j \in 1..(q - 1) : ss[b][j] = t.parent[ss[b][q]]
        BY <3>8, <4>1
      <4>3. j \in 1..Len(ss[b]) /\ 1 + (off[b] + j) \in 1..(i - 1)
        BY <3>1, <3>4, <3>5, <3>8, <4>1
      <4>4. off[b] + j \in 1..l /\ fl[off[b] + j] = ss[b][j]
        BY <3>5, <4>3
      <4>5. r[1 + (off[b] + j)] = ss[b][j]
        BY <2>11, <4>4
      <4> QED BY <3>6, <4>2, <4>3, <4>5
    <3> QED BY <3>9, <3>10
  <2>13. Leads(t, v, m)
    <3>1. Len(r) \in Nat /\ Len(r) >= 1
      BY <2>9, <2>11
    <3> QED BY <2>11, <2>12, <3>1 DEF Leads, r
  <2> QED BY <2>13
<1> HIDE DEF S
<1>2. t.live \subseteq S
  BY <1>1, TreeInduction
<1> QED BY <1>2 DEF S

LEMMA DfsParentsFirst ==
  ASSUME NEW t, Sound(t)
  PROVE  ComesAfterParent(t, DfsOrder(t))
<1>1. PICK v : IsPreorder(t, v) /\ DfsOrder(t) = IF t.root = NULL THEN <<>> ELSE v[t.root]
  BY DfsUnrolled
<1>2. CASE t.root = NULL
  BY <1>1, <1>2, EmptySeq DEF ComesAfterParent
<1>3. CASE t.root # NULL
  <2> DEFINE s == v[t.root]
  <2>1. t.root \in t.live /\ t.parent[t.root] = NULL
    BY <1>3 DEF Sound, LinksAgree
  <2>2. Leads(t, v, t.root)
    BY <1>1, <2>1, PreorderLeads
  <2>3. s \in Seq(t.live)
    BY <1>1, <2>1 DEF IsPreorder
  <2>4. Len(s) \in Nat /\ DOMAIN s = 1..Len(s)
    BY <2>3, LenProperties
  <2>5. \A i \in DOMAIN s : i = 1 \/ i \in 2..Len(s)
    BY <2>4
  <2>6. s[1] = t.root /\ \A i \in 2..Len(s) : \E j \in 1..(i - 1) : s[j] = t.parent[s[i]]
    BY <2>2 DEF Leads
  <2> HIDE DEF s
  <2>7. ComesAfterParent(t, s)
    BY <2>1, <2>5, <2>6 DEF ComesAfterParent
  <2> QED BY <1>1, <1>3, <2>7 DEF s
<1> QED BY <1>2, <1>3

-----------------------------------------------------------------------------
(* The order of siblings *)

Precedes(s, m, n) == \E i, j \in DOMAIN s : i < j /\ s[i] = m /\ s[j] = n

LEMMA JoinKeepsOrder ==
  ASSUME NEW T, NEW a \in Seq(T), NEW b \in Seq(T), NEW m, NEW n, Precedes(a, m, n)
  PROVE  Precedes(a \o b, m, n)
<1>1. \A j \in DOMAIN a : j \in DOMAIN (a \o b) /\ (a \o b)[j] = a[j]
  BY JoinProperties
<1> QED BY <1>1 DEF Precedes

LEMMA AppendKeepsOrder ==
  ASSUME NEW T, NEW s \in Seq(T), NEW x \in T, NEW m, NEW n, Precedes(s, m, n)
  PROVE  Precedes(Append(s, x), m, n)
<1> DEFINE a == Append(s, x)
           l == Len(s)
<1>1. l \in Nat /\ DOMAIN s = 1..l /\ DOMAIN a = 1..(l + 1) /\ \A i \in 1..l : a[i] = s[i]
  BY AppendOne
<1> HIDE DEF a, l
<1>2. \A i \in 1..l : i \in 1..(l + 1)
  BY <1>1
<1> QED BY <1>1, <1>2 DEF Precedes, a

(* Closing the gap of x moves all that come after it, in step. *)
LEMMA GapKeepsOrder ==
  ASSUME NEW T, NEW s \in Seq(T), Distinct(s), NEW x \in Range(s),
         NEW m, NEW n, m # x, n # x, Precedes(s, m, n)
  PROVE  Precedes(CloseGap(s, x), m, n)
<1> DEFINE i == CHOOSE i \in DOMAIN s : s[i] = x /\ \A j \in 1..(i - 1) : s[j] # x
           a == SubSeq(s, 1, i - 1)
           b == SubSeq(s, i + 1, Len(s))
           r == a \o b
           l == Len(s)
           at(p) == IF p < i THEN p ELSE p - 1
<1>1. DOMAIN s = 1..l /\ l \in Nat
  BY LenProperties
<1> HIDE DEF l
<1>2. PICK k \in DOMAIN s : s[k] = x
  BY DEF Range
<1>3. \A j \in 1..(k - 1) : s[j] # x
  BY <1>1, <1>2 DEF Distinct
<1> HIDE DEF i
<1>4. i \in 1..l /\ s[i] = x
  BY <1>1, <1>2, <1>3 DEF i
<1>5. /\ i \in Nat /\ i >= 1 /\ i <= l /\ i - 1 \in Nat
      /\ 1 \in 1..(l + 1) /\ i - 1 \in (1 - 1)..l /\ (i - 1) + 1 - 1 = i - 1
      /\ i + 1 \in 1..(l + 1) /\ l \in ((i + 1) - 1)..l /\ l + 1 - (i + 1) = l - i
  <2>1. i \in Nat /\ i >= 1 /\ i <= l
    BY <1>1, <1>4
  <2>2. i - 1 \in Nat /\ 1 \in 1..(l + 1) /\ i - 1 \in 0..l /\ (i - 1) + 1 - 1 = i - 1
    BY <1>1, <2>1
  <2>3. i + 1 \in 1..(l + 1) /\ l \in i..l /\ l + 1 - (i + 1) = l - i /\ (i + 1) - 1 = i
    BY <1>1, <2>1
  <2>4. 1 - 1 = 0
    OBVIOUS
  <2> QED BY <2>1, <2>2, <2>3, <2>4
<1>6. /\ a \in Seq(T) /\ Len(a) = i - 1 /\ DOMAIN a = 1..(i - 1)
      /\ \A j \in 1..(i - 1) : a[j] = s[1 + j - 1]
  BY <1>5, SliceProperties DEF l
<1>7. /\ b \in Seq(T) /\ DOMAIN b = 1..(l - i)
      /\ \A j \in 1..(l - i) : b[j] = s[(i + 1) + j - 1]
  BY <1>5, SliceProperties DEF l
<1> HIDE DEF a, b
<1>8. /\ \A j \in 1..(i - 1) : j \in DOMAIN r /\ r[j] = a[j]
      /\ \A j \in 1..(l - i) : (i - 1) + j \in DOMAIN r /\ r[(i - 1) + j] = b[j]
  <2>1. /\ \A j \in DOMAIN a : j \in DOMAIN (a \o b) /\ (a \o b)[j] = a[j]
        /\ \A j \in DOMAIN b : Len(a) + j \in DOMAIN (a \o b) /\ (a \o b)[Len(a) + j] = b[j]
    <3>1. a \in Seq(T) /\ b \in Seq(T)
      BY <1>6, <1>7
    <3> QED BY <3>1, JoinProperties
  <2> QED BY <1>6, <1>7, <2>1
<1> HIDE DEF r
<1>9. ASSUME NEW p \in 1..l, p # i PROVE at(p) \in DOMAIN r /\ r[at(p)] = s[p]
  <2>1. CASE p < i
    <3>1. p \in 1..(i - 1) /\ 1 + p - 1 = p
      BY <1>1, <1>4, <2>1
    <3>2. a[p] = s[p]
      BY <1>6, <3>1
    <3> QED BY <1>8, <2>1, <3>1, <3>2
  <2>2. CASE ~(p < i)
    <3>1. p - i \in 1..(l - i) /\ (i - 1) + (p - i) = p - 1 /\ (i + 1) + (p - i) - 1 = p
      BY <1>1, <1>4, <1>9, <2>2
    <3>2. b[p - i] = s[p]
      BY <1>7, <3>1
    <3>3. p - 1 \in DOMAIN r /\ r[p - 1] = b[p - i]
      BY <1>8, <3>1
    <3> QED BY <2>2, <3>2, <3>3
  <2> QED BY <2>1, <2>2
<1>10. PICK p \in 1..l : \E q \in 1..l : p < q /\ s[p] = m /\ s[q] = n
  BY <1>1 DEF Precedes
<1>11. PICK q \in 1..l : p < q /\ s[p] = m /\ s[q] = n
  BY <1>10
<1>12. p # i /\ q # i
  BY <1>4, <1>11
<1>13. at(p) < at(q)
  BY <1>1, <1>4, <1>11, <1>12
<1>14. at(p) \in DOMAIN r /\ at(q) \in DOMAIN r /\ r[at(p)] = m /\ r[at(q)] = n
  BY <1>9, <1>11, <1>12
<1> HIDE DEF at
<1>15. Precedes(r, m, n)
  BY <1>13, <1>14 DEF Precedes
<1>16. CloseGap(s, x) = r
  BY DEF CloseGap, SlotOf, RemoveAt, r, a, b, i, l
<1> QED BY <1>15, <1>16

(* So does cutting the end off. *)
LEMMA CutKeepsOrder ==
  ASSUME NEW T, NEW s \in Seq(T), Distinct(s), NEW k \in 0..Len(s), NEW m, NEW n,
         m \in Range(SubSeq(s, 1, k)), n \in Range(SubSeq(s, 1, k)), Precedes(s, m, n)
  PROVE  Precedes(SubSeq(s, 1, k), m, n)
<1> DEFINE u == SubSeq(s, 1, k)
           l == Len(s)
<1>1. DOMAIN s = 1..l /\ l \in Nat
  BY LenProperties
<1>2. 1 \in 1..(l + 1) /\ k \in (1 - 1)..l /\ k + 1 - 1 = k /\ k \in Nat /\ k <= l
  BY <1>1
<1>3. DOMAIN u = 1..k /\ \A j \in 1..k : u[j] = s[1 + j - 1]
  BY <1>2, SliceProperties
<1> HIDE DEF u, l
<1>4. \A j \in DOMAIN u : j \in DOMAIN s /\ u[j] = s[j]
  <2>1. \A j \in 1..k : 1 + j - 1 = j /\ j \in 1..l
    BY <1>1, <1>2
  <2> QED BY <1>1, <1>3, <2>1
<1>5. PICK p \in DOMAIN s : \E q \in DOMAIN s : p < q /\ s[p] = m /\ s[q] = n
  BY DEF Precedes
<1>6. PICK q \in DOMAIN s : p < q /\ s[p] = m /\ s[q] = n
  BY <1>5
<1>7. p \in DOMAIN u /\ q \in DOMAIN u
  <2>1. ASSUME NEW y \in DOMAIN s, s[y] \in Range(u) PROVE y \in DOMAIN u
    <3>1. PICK z \in DOMAIN u : u[z] = s[y]
      BY <2>1 DEF Range
    <3>2. z = y
      BY <1>4, <3>1 DEF Distinct
    <3> QED BY <3>2
  <2> QED BY <1>6, <2>1 DEF u
<1> QED BY <1>4, <1>6, <1>7 DEF Precedes, u

LEMMA AdoptableBounds ==
  ASSUME NEW t, Sound(t), NEW x \in t.live
  PROVE  Adoptable(t, x) \in 0..Len(t.kids[x])
<1> DEFINE l == Len(t.kids[x])
           s == Len(Siblings(t, x))
<1>1. l \in Nat
  BY LenProperties DEF Sound, TreeType
<1>2. CASE t.parent[x] = NULL
  BY <1>1, <1>2 DEF Adoptable
<1>3. CASE t.parent[x] # NULL
  <2>1. s \in Nat /\ s + Len(Adopted(t, x)) <= MAX_CHILDREN /\ Len(Adopted(t, x)) \in Nat
    BY <1>3, DetachPieces, LenProperties
  <2>2. MAX_CHILDREN - s \in Nat
    BY <2>1, TreeAssumption
  <2>3. Adoptable(t, x) = Min({MAX_CHILDREN - s, l})
    BY <1>3 DEF Adoptable
  <2> HIDE DEF s, l
  <2>4. Adoptable(t, x) \in Nat /\ Adoptable(t, x) <= l
    BY <1>1, <2>2, <2>3, MinOfTwo
  <2> QED BY <1>1, <2>4 DEF l
<1> QED BY <1>2, <1>3

(* Two nodes with one parent, in the order of its array. *)
SiblingsIn(t, m, n, p) == p \in t.live /\ Precedes(t.kids[p], m, n)

LEMMA DetachKeepsOrder ==
  ASSUME NEW t, Sound(t), NEW x \in t.live, NEW T, T = DetachNode(t, x),
         NEW p, NEW m \in T.live, NEW n \in T.live, SiblingsIn(t, m, n, p),
         T.parent[m] # NULL, T.parent[m] = T.parent[n]
  PROVE  SiblingsIn(T, m, n, T.parent[m])
<1> DEFINE g == t.parent[x]
           A == Range(Adopted(t, x))
           C == Range(CastOff(t, x))
           L == t.live \ {x}
<1>1. /\ T.live = L
      /\ T.parent = [y \in L |-> IF y \in A THEN g ELSE IF y \in C THEN NULL ELSE t.parent[y]]
      /\ T.kids = [y \in L |-> IF y = g THEN Siblings(t, x) \o Adopted(t, x) ELSE t.kids[y]]
  BY DEF DetachNode, NewParent, NewKids
<1>2. /\ g # x /\ A \cup C = ChildrenOf(t, x) /\ A \cap C = {}
      /\ Siblings(t, x) \in Seq(Node) /\ Adopted(t, x) \in Seq(Node)
      /\ g # NULL => g \in t.live
      /\ g = NULL => Adopted(t, x) = <<>>
  BY DetachPieces
<1>3. /\ p \in t.live /\ Precedes(t.kids[p], m, n)
      /\ m \in Range(t.kids[p]) /\ n \in Range(t.kids[p])
  BY DEF SiblingsIn, Precedes, Range
<1>4. t.parent[m] = p /\ t.parent[n] = p /\ p # NULL /\ m \in t.live /\ n \in t.live /\ m # x /\ n # x
  BY <1>1, <1>3, KidsAre
<1>5. t.kids[p] \in Seq(Node) /\ Distinct(t.kids[p])
  BY <1>3, LinksAreSets DEF Sound, TreeType, LinksAsSets
<1> HIDE DEF A, C, L, g
<1>6. m \in L /\ n \in L
  BY <1>1
<1>7. CASE p # x
  <2>1. m \notin A /\ m \notin C
    BY <1>2, <1>4, <1>7 DEF ChildrenOf
  <2>2. T.parent[m] = p /\ p \in L
    BY <1>1, <1>3, <1>4, <1>6, <1>7, <2>1 DEF L
  <2>3. CASE p = g
    <3>1. x \in Range(t.kids[p]) /\ Siblings(t, x) = CloseGap(t.kids[p], x)
      BY <1>3, <1>4, <2>3, KidsAre DEF Siblings, g
    <3>2. Precedes(Siblings(t, x), m, n)
      BY <1>3, <1>4, <1>5, <3>1, GapKeepsOrder
    <3>3. Precedes(T.kids[p], m, n)
      BY <1>1, <1>2, <2>2, <2>3, <3>2, JoinKeepsOrder
    <3> QED BY <1>1, <2>2, <3>3 DEF SiblingsIn
  <2>4. CASE p # g
    BY <1>1, <1>3, <2>2, <2>4 DEF SiblingsIn
  <2> QED BY <2>3, <2>4
<1>8. CASE p = x
  <2>1. m \in A /\ n \in A
    <3>1. m \in A \cup C /\ n \in A \cup C
      BY <1>2, <1>4, <1>8 DEF ChildrenOf
    <3> QED BY <1>1, <1>2, <1>6, <3>1
  <2>2. T.parent[m] = g /\ g \in L
    <3>1. g # NULL
      BY <1>1, <1>6, <2>1
    <3> QED BY <1>1, <1>2, <1>6, <2>1, <3>1 DEF L
  <2>3. Precedes(Adopted(t, x), m, n)
    <3>1. Adoptable(t, x) \in 0..Len(t.kids[x])
      BY AdoptableBounds
    <3> QED BY <1>3, <1>5, <1>8, <2>1, <3>1, CutKeepsOrder DEF Adopted, A
  <2>4. Precedes(Siblings(t, x) \o Adopted(t, x), m, n)
    <3> DEFINE a == Siblings(t, x)
               b == Adopted(t, x)
    <3>1. a \in Seq(Node) /\ b \in Seq(Node)
      BY <1>2
    <3> HIDE DEF a, b
    <3>2. /\ Len(a) \in Nat /\ DOMAIN b = 1..Len(b) /\ Len(b) \in Nat
          /\ \A j \in DOMAIN b : Len(a) + j \in DOMAIN (a \o b) /\ (a \o b)[Len(a) + j] = b[j]
      BY <3>1, JoinProperties, LenProperties
    <3>3. PICK i \in DOMAIN b : \E j \in DOMAIN b : i < j /\ b[i] = m /\ b[j] = n
      BY <2>3 DEF Precedes, b
    <3>4. PICK j \in DOMAIN b : i < j /\ b[i] = m /\ b[j] = n
      BY <3>3
    <3>5. Len(a) + i < Len(a) + j
      BY <3>2, <3>4
    <3>6. Precedes(a \o b, m, n)
      BY <3>2, <3>4, <3>5 DEF Precedes
    <3> QED BY <3>6 DEF a, b
  <2> QED BY <1>1, <2>2, <2>4 DEF SiblingsIn
<1> QED BY <1>7, <1>8

-----------------------------------------------------------------------------
(* What a new last leaf does to the depth-first order *)

LEMMA FlattenAppend ==
  ASSUME NEW T, NEW ss \in Seq(Seq(T)), NEW u \in Seq(T)
  PROVE  FlattenSeq(Append(ss, u)) = FlattenSeq(ss) \o u
<1> DEFINE L == Len(ss)
           uu == Append(ss, u)
<1>1. L \in Nat
  BY LenProperties
<1>2. uu \in Seq(Seq(T)) /\ Len(uu) = L + 1 /\ (\A i \in 1..L : uu[i] = ss[i]) /\ uu[L + 1] = u
  BY AppendProperties
<1>3. PICK f \in [Nat -> Seq(T)] : Accumulates(f, ss) /\ FlattenSeq(ss) = f[L]
  BY FlattenAccumulates
<1> HIDE DEF uu
<1>4. PICK g \in [Nat -> Seq(T)] : Accumulates(g, uu) /\ FlattenSeq(uu) = g[Len(uu)]
  BY <1>2, FlattenAccumulates
<1> HIDE DEF L
<1>5. /\ f[0] = <<>> /\ \A i \in 1..L : f[i] = f[i - 1] \o ss[i]
      /\ g[0] = <<>> /\ \A i \in 1..(L + 1) : g[i] = g[i - 1] \o uu[i]
  BY <1>2, <1>3, <1>4 DEF Accumulates, L
<1>6. f[L] = g[L]
  <2> DEFINE Same(k) == k <= L => f[k] = g[k]
             Sames == {k \in Nat : Same(k)}
  <2>1. Same(0)
    BY <1>5
  <2>2. ASSUME NEW k \in Nat, Same(k), k + 1 <= L PROVE f[k + 1] = g[k + 1]
    <3>1. k <= L /\ k + 1 \in 1..L /\ k + 1 \in 1..(L + 1) /\ (k + 1) - 1 = k
      BY <1>1, <2>2
    <3>2. f[k] = g[k] /\ uu[k + 1] = ss[k + 1]
      BY <1>2, <2>2, <3>1
    <3>3. f[k + 1] = f[k] \o ss[k + 1] /\ g[k + 1] = g[k] \o uu[k + 1]
      BY <1>5, <3>1
    <3> QED BY <3>2, <3>3
  <2>3. \A k \in Nat : Same(k) => Same(k + 1)
    BY <2>2
  <2> HIDE DEF Same
  <2>4. 0 \in Sames /\ \A k \in Nat : k \in Sames => k + 1 \in Sames
    <3>1. \A k \in Nat : k + 1 \in Nat
      OBVIOUS
    <3> QED BY <2>1, <2>3, <3>1
  <2> HIDE DEF Sames
  <2>5. L \in Sames
    BY <1>1, <2>4, NumberInduction
  <2> QED BY <1>1, <2>5 DEF Sames, Same
<1>7. g[L + 1] = g[L] \o u
  <2>1. L + 1 \in 1..(L + 1) /\ (L + 1) - 1 = L
    BY <1>1
  <2> QED BY <1>2, <1>5, <2>1
<1>8. FlattenSeq(uu) = FlattenSeq(ss) \o u
  BY <1>2, <1>3, <1>4, <1>6, <1>7
<1> QED BY <1>8 DEF uu

(* The order is one of the children alone. *)
LEMMA SameOrder ==
  ASSUME NEW t, Sound(t), NEW T, Sound(T),
         T.live = t.live, T.kids = t.kids, T.root = t.root
  PROVE  DfsOrder(T) = DfsOrder(t)
<1>1. PICK v : IsPreorder(t, v) /\ DfsOrder(t) = IF t.root = NULL THEN <<>> ELSE v[t.root]
  BY DfsUnrolled
<1>2. PICK w : IsPreorder(T, w) /\ DfsOrder(T) = IF T.root = NULL THEN <<>> ELSE w[T.root]
  BY DfsUnrolled
<1> DEFINE S == {m \in t.live : w[m] = v[m]}
<1>3. ASSUME NEW m \in t.live, Range(t.kids[m]) \subseteq S PROVE m \in S
  <2>1. DOMAIN T.kids[m] = DOMAIN t.kids[m]
        /\ \A i \in DOMAIN t.kids[m] : w[T.kids[m][i]] = v[t.kids[m][i]]
    BY <1>3 DEF Range
  <2>2. BelowKids(T, w, m) = BelowKids(t, v, m)
    BY <2>1 DEF BelowKids
  <2>3. w[m] = v[m]
    BY <1>1, <1>2, <2>2 DEF IsPreorder
  <2> QED BY <2>3
<1> HIDE DEF S
<1>4. t.live \subseteq S
  BY <1>3, TreeInduction
<1>5. t.root # NULL => t.root \in t.live
  BY DEF Sound, LinksAgree
<1> QED BY <1>1, <1>2, <1>4, <1>5 DEF S

(* After a node comes a child of it, or of a node above it. *)
Turns(t, v, n) ==
  \A i \in 2..Len(v[n]) : t.parent[v[n][i]] \in Ancestors(t, v[n][i - 1])

LEMMA PreorderTurns ==
  ASSUME NEW t, Sound(t), NEW v, IsPreorder(t, v), NEW n \in t.live
  PROVE  Turns(t, v, n)
<1> DEFINE S == {m \in t.live : Turns(t, v, m)}
<1>1. ASSUME NEW m \in t.live, Range(t.kids[m]) \subseteq S PROVE m \in S
  <2> DEFINE L == Len(t.kids[m])
             ss == BelowKids(t, v, m)
             fl == FlattenSeq(ss)
             one == <<m>>
             r == v[m]
             l == Len(fl)
  <2>0. v \in [t.live -> Seq(t.live)]
    BY DEF IsPreorder
  <2>1. /\ ss \in Seq(Seq(t.live)) /\ Len(ss) = L
        /\ \A i \in 1..L : t.kids[m][i] \in t.live /\ ss[i] = v[t.kids[m][i]]
    <3>1. KidByKid(ss, t, v, m)
      BY <2>0, BelowKidsType
    <3> HIDE DEF ss
    <3> QED BY <3>1 DEF KidByKid
  <2>2. r = one \o fl
    BY DEF IsPreorder
  <2>3. DOMAIN t.kids[m] = 1..L
    BY LenProperties DEF Sound, TreeType
  <2>4. one \in Seq(t.live) /\ Len(one) = 1 /\ one[1] = m
    BY SeqOfOne
  <2>5. fl \in Seq(t.live)
    BY <2>1, FlattenPlaces
  <2>6. PICK off : Placed(off, ss, fl)
    BY <2>1, FlattenPlaces
  <2>14. Range(r) = Below(t, m) /\ r \in Seq(t.live)
    BY <2>0, PreorderVisits DEF Visits
  <2> HIDE DEF L, ss, one, fl, r
  <2>7. \A i \in 1..L : t.kids[m][i] \in Range(t.kids[m])
    BY <2>3 DEF Range
  <2>8. \A b \in 1..L : Turns(t, v, t.kids[m][b]) /\ t.parent[t.kids[m][b]] = m
    BY <1>1, <2>7, KidsAre
  <2>9. l \in Nat /\ DOMAIN fl = 1..l /\ DOMAIN one = 1..1 /\ DOMAIN r = 1..Len(r)
    BY <2>4, <2>5, <2>14, LenProperties
  <2>10. Joined(r, one, fl)
    BY <2>2, <2>4, <2>5, JoinElements
  <2> HIDE DEF l
  <2>11. Len(r) = 1 + l /\ r[1] = m /\ \A q \in 1..l : r[1 + q] = fl[q]
    <3>1. 1 \in DOMAIN one
      BY <2>9
    <3> QED BY <2>4, <2>9, <2>10, <3>1 DEF Joined, l
  <2>12. ASSUME NEW i \in 2..Len(r) PROVE t.parent[r[i]] \in Ancestors(t, r[i - 1])
    <3>1. i \in Nat /\ i - 1 \in 1..l /\ 1 + (i - 1) = i /\ i - 1 \in 1..Len(r)
      BY <2>9, <2>11
    <3>2. r[i] = fl[i - 1]
      BY <2>11, <3>1
    <3>12. m \in Ancestors(t, r[i - 1])
      <4>1. r[i - 1] \in Range(r)
        BY <2>9, <3>1 DEF Range
      <4> QED BY <2>14, <4>1 DEF Below
    <3>3. PICK b \in 1..L : \E q \in 1..Len(ss[b]) : i - 1 = off[b] + q
      BY <2>1, <2>6, <3>1 DEF Placed, l
    <3>4. PICK q \in 1..Len(ss[b]) : i - 1 = off[b] + q
      BY <3>3
    <3>5. off[b] \in Nat /\ \A p \in 1..Len(ss[b]) : off[b] + p \in 1..l /\ fl[off[b] + p] = ss[b][p]
      BY <2>1, <2>6 DEF Placed, l
    <3>6. r[i] = ss[b][q]
      BY <3>2, <3>4, <3>5
    <3> DEFINE c == t.kids[m][b]
    <3>7. ss[b] = v[c] /\ Turns(t, v, c) /\ t.parent[c] = m /\ c \in t.live
      BY <2>1, <2>8
    <3> HIDE DEF c
    <3>8. Len(ss[b]) \in Nat /\ ss[b][1] = c
      BY <3>7, PreorderLeads DEF Leads
    <3>9. CASE q = 1
      BY <3>6, <3>7, <3>8, <3>9, <3>12
    <3>10. CASE q # 1
      <4>1. q \in 2..Len(ss[b]) /\ q - 1 \in 1..Len(ss[b])
        BY <3>8, <3>10
      <4>2. t.parent[ss[b][q]] \in Ancestors(t, ss[b][q - 1])
        BY <3>7, <4>1 DEF Turns
      <4>3. off[b] + (q - 1) \in 1..l /\ fl[off[b] + (q - 1)] = ss[b][q - 1]
        BY <3>5, <4>1
      <4>4. 1 + (off[b] + (q - 1)) = i - 1
        <5>1. \A o, j, k \in Int : k = o + j => 1 + (o + (j - 1)) = k
          OBVIOUS
        <5>2. off[b] \in Int /\ q \in Int /\ i - 1 \in Int
          BY <3>1, <3>5, <4>1
        <5> QED BY <3>4, <5>1, <5>2
      <4>5. r[1 + (off[b] + (q - 1))] = ss[b][q - 1]
        BY <2>11, <4>3
      <4> QED BY <3>6, <4>2, <4>4, <4>5
    <3> QED BY <3>9, <3>10
  <2>13. Turns(t, v, m)
    BY <2>12 DEF Turns, r
  <2> QED BY <2>13
<1> HIDE DEF S
<1>2. t.live \subseteq S
  BY <1>1, TreeInduction
<1> QED BY <1>2 DEF S

(* The part of m when q, the last but for what is below it, gets the leaf n. *)
LastOf(s) == s[Len(s)]

Grown(t, q, n, v, w, m) ==
  /\ q \notin Below(t, m) => w[m] = v[m]
  /\ q \in Below(t, m) /\ q \in Ancestors(t, LastOf(v[m])) => w[m] = Append(v[m], n)

LeafAt(t, n, q, T) ==
  /\ T.live = t.live \cup {n} /\ T.root = t.root
  /\ T.kids[n] = <<>>
  /\ T.kids[q] = Append(t.kids[q], n)
  /\ \A m \in t.live : m # q => T.kids[m] = t.kids[m]

LEMMA AttachIsLeaf ==
  ASSUME NEW t, Sound(t), NEW n \in Node \ t.live, NEW x, NEW q \in t.live
  PROVE  LeafAt(t, n, q, AttachNode(t, n, x, q))
<1> DEFINE T == AttachNode(t, n, x, q)
           L == t.live \cup {n}
<1>1. q # NULL /\ q # n
  BY KidsAre
<1>2. T.live = L /\ T.root = IF q = NULL THEN n ELSE t.root
  BY DEF AttachNode
<1>3. T.kids = [m \in L |-> IF m = n THEN <<>> ELSE IF m = q THEN Append(t.kids[m], n) ELSE t.kids[m]]
  BY DEF AttachNode
<1> HIDE DEF T
<1>4. LeafAt(t, n, q, T)
  BY <1>1, <1>2, <1>3 DEF LeafAt
<1> QED BY <1>4 DEF T

LEMMA FlattenNothing == FlattenSeq(<<>>) = <<>>
<1>1. <<>> \in Seq(Seq({})) /\ Len(<<>>) = 0
  BY EmptySeq
<1>2. PICK f \in [Nat -> Seq({})] : Accumulates(f, <<>>) /\ FlattenSeq(<<>>) = f[Len(<<>>)]
  BY <1>1, FlattenAccumulates
<1> QED BY <1>1, <1>2 DEF Accumulates

LEMMA LeafOrder ==
  ASSUME NEW T, NEW n, n \in T.live, T.kids[n] = <<>>, NEW w, IsPreorder(T, w)
  PROVE  w[n] = <<n>>
<1>1. BelowKids(T, w, n) = <<>>
  <2>1. DOMAIN T.kids[n] = {}
    OBVIOUS
  <2> QED BY <2>1 DEF BelowKids
<1>2. w[n] = <<n>> \o <<>>
  BY <1>1, FlattenNothing DEF IsPreorder
<1>3. <<n>> \in Seq(T.live)
  BY SeqOfOne
<1> QED BY <1>2, <1>3, ConcatEmptySeq

(* A whole that gets one more element at its end. *)
LEMMA AppendLast ==
  ASSUME NEW R, NEW a \in Seq(R), NEW b \in Seq(R), NEW n \in R
  PROVE  a \o Append(b, n) = Append(a \o b, n)
<1>1. <<n>> \in Seq(R) /\ a \o b \in Seq(R)
  BY SeqOfOne, ConcatProperties
<1>2. Append(b, n) = b \o <<n>> /\ Append(a \o b, n) = (a \o b) \o <<n>>
  BY <1>1, AppendIsConcat
<1>3. (a \o b) \o <<n>> = a \o (b \o <<n>>)
  BY <1>1, ConcatAssociative
<1> QED BY <1>2, <1>3


(* v is the order before, w the one after. *)
Growth(t, n, q, T, v, w) ==
  /\ Sound(t) /\ Sound(T) /\ q \in t.live /\ LeafAt(t, n, q, T)
  /\ IsPreorder(t, v) /\ IsPreorder(T, w)

KidsGrown(t, q, n, v, w, m) == \A c \in Range(t.kids[m]) : Grown(t, q, n, v, w, c)

(* Above an ancestor are ancestors only. *)
LEMMA AncestorsAbove ==
  ASSUME NEW t, NEW m \in t.live, NEW a \in Ancestors(t, m), NEW b \in Ancestors(t, a)
  PROVE  b \in Ancestors(t, m)
<1>1. a \in t.live /\ b \in t.live
  BY DEF Ancestors
<1> SUFFICES ASSUME NEW S \in SUBSET t.live, m \in S, ClosedUnderParent(t, S) PROVE b \in S
  BY <1>1 DEF Ancestors
<1>2. a \in S
  BY DEF Ancestors
<1> QED BY <1>2 DEF Ancestors

LEMMA GrowsElsewhere ==
  ASSUME NEW t, NEW n, NEW q, NEW T, NEW v, NEW w, Growth(t, n, q, T, v, w),
         NEW m \in t.live, KidsGrown(t, q, n, v, w, m),
         q \notin Below(t, m)
  PROVE  w[m] = v[m]
<1> USE DEF Growth, KidsGrown
<1>1. q # m /\ \A c \in Range(t.kids[m]) : q \notin Below(t, c)
  BY BelowIs
<1>2. T.kids[m] = t.kids[m] /\ m \in T.live
  BY <1>1 DEF LeafAt
<1>3. \A c \in Range(t.kids[m]) : w[c] = v[c]
  BY <1>1 DEF Grown
<1>4. \A i \in DOMAIN t.kids[m] : t.kids[m][i] \in Range(t.kids[m])
  BY DEF Range
<1>5. BelowKids(T, w, m) = BelowKids(t, v, m)
  BY <1>2, <1>3, <1>4 DEF BelowKids
<1> QED BY <1>2, <1>5 DEF IsPreorder

(* What there is of an order once its pieces are known. *)
Pieces(ss, t, v, m) ==
  /\ ss \in Seq(Seq(t.live)) /\ Len(ss) = Len(t.kids[m])
  /\ Len(t.kids[m]) \in Nat /\ DOMAIN t.kids[m] = 1..Len(t.kids[m])
  /\ \A i \in 1..Len(t.kids[m]) : /\ t.kids[m][i] \in Range(t.kids[m])
                                  /\ ss[i] = v[t.kids[m][i]]
  /\ v[m] = <<m>> \o FlattenSeq(ss)
  /\ FlattenSeq(ss) \in Seq(t.live) /\ <<m>> \in Seq(t.live) /\ v[m] \in Seq(t.live)

LEMMA PreorderPieces ==
  ASSUME NEW t, Sound(t), NEW v, IsPreorder(t, v), NEW m \in t.live
  PROVE  Pieces(BelowKids(t, v, m), t, v, m)
<1> DEFINE ss == BelowKids(t, v, m)
<1>1. v \in [t.live -> Seq(t.live)] /\ v[m] = <<m>> \o FlattenSeq(ss)
  BY DEF IsPreorder
<1>2. KidByKid(ss, t, v, m)
  BY <1>1, BelowKidsType
<1> HIDE DEF ss
<1>3. Len(t.kids[m]) \in Nat /\ DOMAIN t.kids[m] = 1..Len(t.kids[m])
  BY LenProperties DEF Sound, TreeType
<1>4. \A i \in 1..Len(t.kids[m]) : t.kids[m][i] \in Range(t.kids[m])
  BY <1>3 DEF Range
<1>5. ss \in Seq(Seq(t.live)) /\ Len(ss) = Len(t.kids[m])
      /\ \A i \in 1..Len(t.kids[m]) : ss[i] = v[t.kids[m][i]]
  BY <1>2 DEF KidByKid
<1>6. FlattenSeq(ss) \in Seq(t.live)
  BY <1>5, FlattenPlaces
<1>7. <<m>> \in Seq(t.live)
  BY SeqOfOne
<1>8. Pieces(ss, t, v, m)
  BY <1>1, <1>3, <1>4, <1>5, <1>6, <1>7 DEF Pieces
<1> QED BY <1>8 DEF ss

LEMMA GrowsHere ==
  ASSUME NEW t, NEW n, NEW q, NEW T, NEW v, NEW w, Growth(t, n, q, T, v, w),
         KidsGrown(t, q, n, v, w, q)
  PROVE  w[q] = Append(v[q], n)
<1> USE DEF Growth, KidsGrown
<1> DEFINE R == T.live
           L == Len(t.kids[q])
           ss == BelowKids(t, v, q)
           uu == BelowKids(T, w, q)
           one == <<n>>
           aa == Append(ss, one)
<1>1. t.live \subseteq R /\ n \in R /\ q \in R /\ T.kids[q] = Append(t.kids[q], n)
  BY DEF LeafAt
<1>2. Pieces(ss, t, v, q)
  BY PreorderPieces
<1>3. Pieces(uu, T, w, q)
  BY <1>1, PreorderPieces
<1>4. one \in Seq(R) /\ w[n] = one
  BY <1>1, LeafOrder, SeqOfOne DEF LeafAt
<1>5. \A c \in Range(t.kids[q]) : w[c] = v[c]
  BY BelowApart DEF Grown
<1>6. t.kids[q] \in Seq(Node) /\ n \in Node
  BY <1>1 DEF Sound, TreeType
<1>7. /\ Len(Append(t.kids[q], n)) = L + 1
      /\ \A i \in 1..L : Append(t.kids[q], n)[i] = t.kids[q][i]
      /\ Append(t.kids[q], n)[L + 1] = n
  BY <1>6, AppendProperties
<1> HIDE DEF ss, uu, one
<1>8. ss \in Seq(Seq(R)) /\ Len(ss) = L /\ L \in Nat
  <2>1. Seq(t.live) \subseteq Seq(R)
    BY <1>1, SeqMonotonic
  <2> QED BY <1>2, <2>1, SeqMonotonic DEF Pieces
<1>9. /\ aa \in Seq(Seq(R)) /\ Len(aa) = L + 1
      /\ (\A i \in 1..L : aa[i] = ss[i]) /\ aa[L + 1] = one
  BY <1>4, <1>8, AppendProperties
<1>10. uu \in Seq(Seq(R)) /\ Len(uu) = L + 1 /\ \A i \in 1..(L + 1) : uu[i] = w[Append(t.kids[q], n)[i]]
  BY <1>1, <1>3, <1>7 DEF Pieces
<1> HIDE DEF aa
<1>11. ASSUME NEW i \in 1..(L + 1) PROVE uu[i] = aa[i]
  <2>1. CASE i = L + 1
    BY <1>4, <1>7, <1>9, <1>10, <2>1
  <2>2. CASE i # L + 1
    <3>1. i \in 1..L
      BY <1>8, <2>2
    <3>2. t.kids[q][i] \in Range(t.kids[q]) /\ ss[i] = v[t.kids[q][i]]
      BY <1>2, <3>1 DEF Pieces
    <3> QED BY <1>5, <1>7, <1>9, <1>10, <1>11, <3>1, <3>2
  <2> QED BY <2>1, <2>2
<1> HIDE DEF R
<1>12. uu = aa
  BY <1>9, <1>10, <1>11, SeqEqual
<1>13. FlattenSeq(uu) = FlattenSeq(ss) \o one
  BY <1>4, <1>8, <1>12, FlattenAppend DEF aa
<1> DEFINE fl == FlattenSeq(ss)
           me == <<q>>
<1>14. fl \in Seq(R) /\ me \in Seq(R) /\ v[q] = me \o fl /\ w[q] = me \o FlattenSeq(uu)
  BY <1>1, <1>2, <1>3, SeqMonotonic DEF Pieces
<1> HIDE DEF fl, me
<1>15. FlattenSeq(uu) = Append(fl, n)
  BY <1>1, <1>13, <1>14, AppendIsConcat DEF fl, one
<1> QED BY <1>1, <1>14, <1>15, AppendLast


LEMMA LastOfJoin ==
  ASSUME NEW R, NEW a \in Seq(R), NEW b \in Seq(R), Len(b) >= 1
  PROVE  LastOf(a \o b) = LastOf(b)
<1> DEFINE r == a \o b
<1>1. Len(a) \in Nat /\ Len(b) \in Nat /\ DOMAIN b = 1..Len(b)
  BY LenProperties
<1>2. Joined(r, a, b)
  BY JoinElements
<1> HIDE DEF r
<1>3. Len(b) \in DOMAIN b
  BY <1>1
<1>4. LastOf(r) = LastOf(b)
  BY <1>2, <1>3 DEF Joined, LastOf
<1> QED BY <1>4 DEF r

LEMMA GrowsBelow ==
  ASSUME NEW t, NEW n, NEW q, NEW T, NEW v, NEW w, Growth(t, n, q, T, v, w),
         NEW m \in t.live, m # q, KidsGrown(t, q, n, v, w, m),
         q \in Below(t, m), q \in Ancestors(t, LastOf(v[m]))
  PROVE  w[m] = Append(v[m], n)
<1> USE DEF Growth, KidsGrown
<1> DEFINE R == T.live
           L == Len(t.kids[m])
           ss == BelowKids(t, v, m)
           uu == BelowKids(T, w, m)
           c == t.kids[m][L]
<1>1. Seq(t.live) \subseteq Seq(R) /\ n \in R /\ m \in R /\ T.kids[m] = t.kids[m]
  BY SeqMonotonic DEF LeafAt
<1>2. Pieces(ss, t, v, m)
  BY PreorderPieces
<1>3. Pieces(uu, T, w, m)
  BY <1>1, PreorderPieces
<1>4. PICK d \in Range(t.kids[m]) : q \in Below(t, d)
  BY BelowIs
<1> HIDE DEF ss, uu
<1>5. L \in Nat /\ L # 0 /\ L \in 1..L /\ DOMAIN t.kids[m] = 1..L
  BY <1>2, <1>4 DEF Pieces, Range
<1>6. c \in Range(t.kids[m]) /\ ss[L] = v[c] /\ uu[L] = w[c]
  BY <1>1, <1>2, <1>3, <1>5 DEF Pieces
<1> HIDE DEF c
<1>7. c \in t.live /\ d \in t.live
  BY <1>4, <1>6, KidsAre
<1>8. v[c] \in Seq(t.live) /\ Len(v[c]) \in Nat /\ Len(v[c]) >= 1 /\ Range(v[c]) = Below(t, c)
  <2>1. v[c] \in Seq(t.live)
    BY <1>7 DEF IsPreorder
  <2>2. Leads(t, v, c) /\ Visits(t, v, c)
    BY <1>7, PreorderLeads, PreorderVisits
  <2> QED BY <2>1, <2>2 DEF Leads, Visits
<1>9. /\ ss \in Seq(Seq(R)) /\ Len(ss) = L /\ uu \in Seq(Seq(R)) /\ Len(uu) = L
      /\ ss \in Seq(Seq(t.live))
  BY <1>1, <1>2, <1>3, SeqMonotonic DEF Pieces
<1>20. ss \in Seq(Seq(R)) /\ uu \in Seq(Seq(R)) /\ Len(ss) # 0 /\ Len(uu) = Len(ss)
  BY <1>5, <1>9
<1> DEFINE me == <<m>>
<1>10. me \in Seq(R) /\ v[m] = me \o FlattenSeq(ss) /\ w[m] = me \o FlattenSeq(uu)
  BY <1>1, <1>2, <1>3 DEF Pieces
<1> HIDE DEF me
(* The last node of the part of m is that of the part of its last child, which q is *)
(* above and so is in.                                                              *)
<1>11. LastOf(v[m]) = LastOf(v[c])
  <2>5. PICK s \in Seq(R) : FlattenSeq(ss) = s \o ss[Len(ss)]
    BY <1>20, FlattenSplit
  <2>1. FlattenSeq(ss) = s \o ss[L]
    BY <1>9, <2>5
  <2>2. v[c] \in Seq(R) /\ s \o v[c] \in Seq(R)
    BY <1>1, <1>8, ConcatProperties
  <2>3. LastOf(s \o v[c]) = LastOf(v[c]) /\ Len(s \o v[c]) >= 1
    <3>1. Len(s \o v[c]) = Len(s) + Len(v[c]) /\ Len(s) \in Nat
      BY <2>2, ConcatProperties, LenProperties
    <3> QED BY <1>8, <2>2, <3>1, LastOfJoin
  <2>4. LastOf(me \o (s \o v[c])) = LastOf(s \o v[c])
    BY <1>10, <2>2, <2>3, LastOfJoin
  <2> QED BY <1>6, <1>10, <2>1, <2>3, <2>4
<1>12. LastOf(v[c]) \in Below(t, c) /\ LastOf(v[c]) \in t.live
  <2>1. DOMAIN v[c] = 1..Len(v[c])
    BY <1>8, LenProperties
  <2>2. LastOf(v[c]) \in Range(v[c])
    BY <1>8, <2>1 DEF LastOf, Range
  <2> QED BY <1>8, <2>2 DEF Below
<1>13. d = c
  <2>1. d \in Ancestors(t, q)
    BY <1>4 DEF Below
  <2>2. LastOf(v[c]) \in Below(t, d)
    BY <1>11, <1>12, <2>1, AncestorsAbove DEF Below
  <2> QED BY <1>4, <1>6, <1>12, <2>2, BelowApart
<1>14. w[c] = Append(v[c], n)
  BY <1>4, <1>6, <1>11, <1>13 DEF Grown
<1>15. ASSUME NEW i \in 1..(L - 1) PROVE uu[i] = ss[i]
  <2>1. i \in 1..L /\ i # L
    BY <1>5
  <2>2. t.kids[m][i] \in Range(t.kids[m]) /\ ss[i] = v[t.kids[m][i]] /\ uu[i] = w[t.kids[m][i]]
    BY <1>1, <1>2, <1>3, <2>1 DEF Pieces
  <2>3. t.kids[m][i] # c
    BY <1>5, <2>1 DEF c, Sound, LinksAgree
  <2>4. q \notin Below(t, t.kids[m][i])
    BY <1>4, <1>13, <2>2, <2>3, BelowApart
  <2> QED BY <2>2, <2>4 DEF Grown
<1>21. \A i \in 1..(Len(ss) - 1) : uu[i] = ss[i]
  BY <1>9, <1>15
<1>22. PICK s \in Seq(R) : FlattenSeq(ss) = s \o ss[Len(ss)] /\ FlattenSeq(uu) = s \o uu[Len(ss)]
  BY <1>20, <1>21, FlattenSplit
<1>16. FlattenSeq(ss) = s \o ss[L] /\ FlattenSeq(uu) = s \o uu[L]
  BY <1>9, <1>22
<1>17. v[c] \in Seq(R) /\ s \o v[c] \in Seq(R)
  BY <1>1, <1>8, ConcatProperties
<1>18. s \o Append(v[c], n) = Append(s \o v[c], n)
  BY <1>1, <1>17, AppendLast
<1>19. me \o Append(s \o v[c], n) = Append(me \o (s \o v[c]), n)
  BY <1>1, <1>10, <1>17, AppendLast
<1> QED BY <1>6, <1>10, <1>14, <1>16, <1>18, <1>19

(* All that is above a node of the root's part is in it. *)
LEMMA RootAbove ==
  ASSUME NEW t, Sound(t), t.root # NULL, NEW m \in Below(t, t.root), NEW q \in Ancestors(t, m)
  PROVE  q \in Below(t, t.root)
<1> DEFINE S == Below(t, t.root)
<1>1. t.root \in t.live /\ t.parent[t.root] = NULL
  BY DEF Sound, LinksAgree
<1>2. S \in SUBSET t.live /\ m \in t.live
  BY DEF Below
<1>3. ASSUME NEW a \in S PROVE t.parent[a] = NULL \/ t.parent[a] \in S
  <2>1. a \in t.live /\ t.root \in Ancestors(t, a)
    BY DEF Below
  <2> SUFFICES ASSUME t.parent[a] # NULL PROVE t.parent[a] \in S
    OBVIOUS
  <2>2. a # t.root
    BY <1>1
  <2>3. t.parent[a] \in t.live /\ t.root \in Ancestors(t, t.parent[a])
    BY <2>1, <2>2, AncestorsUp
  <2> QED BY <2>3 DEF Below
<1> HIDE DEF S
<1>4. ClosedUnderParent(t, S)
  BY <1>3 DEF ClosedUnderParent
<1>5. m \in S
  BY DEF S
<1>6. q \in S
  BY <1>2, <1>4, <1>5 DEF Ancestors
<1> QED BY <1>6 DEF S

(* A leaf given to the last node visited, or to one above it, is visited last. *)
LEMMA LeafComesLast ==
  ASSUME NEW t, Sound(t), NEW n \in Node \ t.live, NEW x, NEW q \in t.live, HasRoom(t, q),
         DfsOrder(t) # <<>>, q \in Ancestors(t, LastOf(DfsOrder(t)))
  PROVE  DfsOrder(AttachNode(t, n, x, q)) = Append(DfsOrder(t), n)
<1> DEFINE T == AttachNode(t, n, x, q)
<1>1. Sound(T) /\ LeafAt(t, n, q, T)
  <2>1. q # NULL /\ q \in t.live \cup {NULL}
    BY KidsAre
  <2> QED BY <2>1, AttachSound, AttachIsLeaf
<1> HIDE DEF T
<1>2. PICK v : IsPreorder(t, v) /\ DfsOrder(t) = IF t.root = NULL THEN <<>> ELSE v[t.root]
  BY DfsUnrolled
<1>3. PICK w : IsPreorder(T, w) /\ DfsOrder(T) = IF T.root = NULL THEN <<>> ELSE w[T.root]
  BY <1>1, DfsUnrolled
<1> DEFINE S == {m \in t.live : Grown(t, q, n, v, w, m)}
<1>4. ASSUME NEW m \in t.live, Range(t.kids[m]) \subseteq S PROVE m \in S
  <2>1. Growth(t, n, q, T, v, w) /\ KidsGrown(t, q, n, v, w, m)
    BY <1>1, <1>2, <1>3, <1>4 DEF Growth, KidsGrown
  <2>2. q \notin Below(t, m) => w[m] = v[m]
    BY <2>1, GrowsElsewhere
  <2>3. m = q => w[m] = Append(v[m], n)
    BY <2>1, GrowsHere
  <2>4. m # q /\ q \in Below(t, m) /\ q \in Ancestors(t, LastOf(v[m])) => w[m] = Append(v[m], n)
    BY <2>1, GrowsBelow
  <2> QED BY <2>2, <2>3, <2>4 DEF Grown
<1> HIDE DEF S
<1>5. t.live \subseteq S
  BY <1>4, TreeInduction
<1>6. t.root # NULL /\ t.root \in t.live /\ T.root = t.root
  BY <1>1, <1>2 DEF Sound, LinksAgree, LeafAt
<1>7. Grown(t, q, n, v, w, t.root)
  BY <1>5, <1>6 DEF S
<1>8. DfsOrder(t) = v[t.root] /\ DfsOrder(T) = w[t.root]
  BY <1>2, <1>3, <1>6
<1>9. q \in Below(t, t.root)
  <2>1. Visits(t, v, t.root) /\ Leads(t, v, t.root)
    BY <1>2, <1>6, PreorderVisits, PreorderLeads
  <2>2. v[t.root] \in Seq(t.live)
    BY <1>2, <1>6 DEF IsPreorder
  <2>3. DOMAIN v[t.root] = 1..Len(v[t.root])
    BY <2>2, LenProperties
  <2>4. LastOf(v[t.root]) \in Range(v[t.root])
    BY <2>1, <2>3 DEF Leads, LastOf, Range
  <2>5. LastOf(v[t.root]) \in t.live /\ t.root \in Ancestors(t, LastOf(v[t.root]))
    BY <2>1, <2>4 DEF Visits, Below
  <2>6. LastOf(v[t.root]) \in Below(t, t.root) /\ q \in Ancestors(t, LastOf(v[t.root]))
    BY <1>8, <2>5 DEF Below
  <2> QED BY <1>6, <2>6, RootAbove
<1>10. DfsOrder(T) = Append(DfsOrder(t), n)
  BY <1>7, <1>8, <1>9 DEF Grown
<1> QED BY <1>10 DEF T


(* The first node of all is visited alone. *)
LEMMA RootComesAlone ==
  ASSUME NEW t, Sound(t), t.root = NULL, NEW n \in Node \ t.live, NEW x
  PROVE  DfsOrder(AttachNode(t, n, x, NULL)) = <<n>>
<1> DEFINE T == AttachNode(t, n, x, NULL)
<1>1. Sound(T)
  BY AttachSound
<1>2. T.root = n /\ n # NULL /\ n \in T.live /\ T.kids[n] = <<>>
  BY TreeAssumption DEF AttachNode
<1> HIDE DEF T
<1>3. PICK w : IsPreorder(T, w) /\ DfsOrder(T) = IF T.root = NULL THEN <<>> ELSE w[T.root]
  BY <1>1, DfsUnrolled
<1>4. w[n] = <<n>>
  BY <1>2, <1>3, LeafOrder
<1>5. DfsOrder(T) = <<n>>
  BY <1>2, <1>3, <1>4
<1> QED BY <1>5 DEF T

(* The order starts at the root; then comes, each time, a child of a node on the *)
(* way up from the one before.                                                   *)
DfsTurns(t, d) ==
  /\ d # <<>> => t.root # NULL /\ d[1] = t.root /\ t.root \in t.live /\ t.parent[t.root] = NULL
  /\ \A i \in 2..Len(d) :
       /\ t.parent[d[i]] \in Ancestors(t, d[i - 1])
       /\ \E j \in 1..(i - 1) : d[j] = t.parent[d[i]]

LEMMA DfsTakesTurns ==
  ASSUME NEW t, Sound(t)
  PROVE  DfsTurns(t, DfsOrder(t))
<1>1. PICK v : IsPreorder(t, v) /\ DfsOrder(t) = IF t.root = NULL THEN <<>> ELSE v[t.root]
  BY DfsUnrolled
<1>2. CASE t.root = NULL
  <2>1. DfsOrder(t) = <<>> /\ Len(<<>>) = 0
    BY <1>1, <1>2
  <2>2. 2..0 = {}
    OBVIOUS
  <2> QED BY <2>1, <2>2 DEF DfsTurns
<1>3. CASE t.root # NULL
  <2>1. t.root \in t.live /\ t.parent[t.root] = NULL
    BY <1>3 DEF Sound, LinksAgree
  <2>2. Leads(t, v, t.root) /\ Turns(t, v, t.root)
    BY <1>1, <2>1, PreorderLeads, PreorderTurns
  <2> QED BY <1>1, <1>3, <2>1, <2>2 DEF Leads, Turns, DfsTurns
<1> QED BY <1>2, <1>3

(* As many different elements as places. *)
LEMMA DistinctCounts ==
  ASSUME NEW R, NEW s \in Seq(R), Distinct(s)
  PROVE  /\ Len(s) \in Nat /\ DOMAIN s = 1..Len(s)
         /\ IsFiniteSet(Range(s)) /\ Cardinality(Range(s)) = Len(s)
<1> DEFINE l == Len(s)
<1>1. l \in Nat /\ DOMAIN s = 1..l /\ s \in [1..l -> R]
  BY LenProperties
<1> HIDE DEF l
<1>2. s \in [1..l -> Range(s)] /\ \A x \in Range(s) : \E i \in 1..l : s[i] = x
  BY <1>1 DEF Range
<1>3. s \in Bijection(1..l, Range(s))
  BY <1>1, <1>2 DEF Distinct, Bijection, Injection, IsInjective, Surjection
<1>4. IsFiniteSet(1..l) /\ Cardinality(1..l) = l
  <2>1. Cardinality(1..l) = IF 1 > l THEN 0 ELSE l - 1 + 1
    BY <1>1, FS_Interval
  <2>2. IsFiniteSet(1..l)
    BY <1>1, FS_Interval
  <2> QED BY <1>1, <2>1, <2>2
<1>5. ExistsBijection(1..l, Range(s))
  BY <1>3 DEF ExistsBijection
<1>6. IsFiniteSet(Range(s)) /\ Cardinality(Range(s)) = l
  BY <1>4, <1>5, FS_Bijection
<1> QED BY <1>1, <1>6 DEF l

=============================================================================
