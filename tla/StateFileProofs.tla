---------------------------- MODULE StateFileProofs ----------------------------
(***************************************************************************)
(* What crashes, saves, loads and other threads never do to the tree and   *)
(* the file of StateFile, for every set of addresses, every MAX_CHILDREN   *)
(* and queue size and any number of ids and processes.                     *)
(***************************************************************************)
EXTENDS StateFile, TreeOpsProofs

-----------------------------------------------------------------------------
(* The types of what goes to the file and comes from it, and what state_save   *)
(* and state_load know of the file at each point.                              *)

Id == Nat \X Nat
Header == [node_count : Nat, checksum : {<<>>}]
Record == [id : Id, parent_id : Id \cup {NULL}, is_root : BOOLEAN]
Phase == {"idle", "count", "nodes", "flush", "load", "name"}

IsFile(f) ==
  /\ f \in Seq(Header \cup Record)
  /\ \A i \in 1..Len(f) : IF i = 1 THEN f[i] \in Header ELSE f[i] \in Record

Prefix(f, g) == Len(f) <= Len(g) /\ \A i \in 1..Len(f) : f[i] = g[i]

TreeKept(t) == Sound(t) /\ CountExact(t) /\ t.id \in [t.live -> Id]

IoType == [pc : Phase, out : Seq(Header \cup Record), count : Nat, done : Nat, node : Node \cup {NULL}]

IoKept ==
  /\ io \in IoType
  /\ io.pc \in {"idle", "count"} => io.out = <<>>
  /\ io.pc \in {"count", "nodes"} => file = <<>>
  /\ io.pc = "nodes" => io.out = <<header>>
  /\ io.pc = "flush" => io.out # <<>> /\ Prefix(file, io.out)
  /\ io.pc \notin {"load", "name"} => io.done = 0
  /\ io.pc \in {"load", "name"} => file # <<>> /\ io.count = Head(file).node_count
  /\ io.done <= io.count
  /\ io.pc = "name" => MoreToLoad /\ io.node \in Node

IInv ==
  /\ TreeKept(tree)
  /\ second \in 0..MaxSecond /\ counter \in Nat
  /\ header \in Header
  /\ IsFile(file) /\ IsFile(io.out)
  /\ IoKept
  /\ quiet \in BOOLEAN

-----------------------------------------------------------------------------
(* The tree's part *)

LEMMA EmptyIsKept == TreeKept(EmptyTree)
<1> DEFINE t == EmptyTree
<1>1. /\ t = [live |-> {}, root |-> NULL, total |-> 0, parent |-> <<>>,
              kids |-> <<>>, isRoot |-> <<>>, id |-> <<>>]
      /\ t.live = {} /\ t.root = NULL /\ t.total = 0
      /\ t.parent = <<>> /\ t.kids = <<>> /\ t.isRoot = <<>> /\ t.id = <<>>
  BY DEF EmptyTree
<1>2. IsFiniteSet({}) /\ Cardinality({}) = 0
  BY FS_EmptySet
<1>3. TreeType(t)
  BY <1>1, <1>2 DEF TreeType
<1>4. LinksAgree(t) /\ Acyclic(t) /\ ChildrenFit(t)
  BY <1>1 DEF LinksAgree, Acyclic, ChildrenFit
<1>5. CountExact(t) /\ t.id \in [t.live -> Id]
  BY <1>1, <1>2 DEF CountExact
<1> HIDE DEF t
<1> QED BY <1>3, <1>4, <1>5 DEF TreeKept, Sound, t

LEMMA AttachKept ==
  ASSUME NEW t, TreeKept(t), NEW n \in Node \ t.live, NEW x \in Id,
         NEW q \in t.live \cup {NULL}, q = NULL => t.root = NULL, q # NULL => HasRoom(t, q)
  PROVE  TreeKept(AttachNode(t, n, x, q))
<1> DEFINE T == AttachNode(t, n, x, q)
<1>1. T.live = t.live \cup {n} /\ T.id = [m \in T.live |-> IF m = n THEN x ELSE t.id[m]]
  BY DEF AttachNode
<1>2. Sound(T) /\ CountExact(T)
  BY AttachSound, AttachCounts DEF TreeKept
<1> HIDE DEF T
<1>3. T.id \in [T.live -> Id]
  BY <1>1 DEF TreeKept
<1> QED BY <1>2, <1>3 DEF TreeKept, T

LEMMA CreateKept ==
  ASSUME NEW t, TreeKept(t), NEW n \in Node \ t.live, NEW x \in Id, NEW p
  PROVE  TreeKept(tree_create_node(t, n, x, p))
<1>1. ASSUME NEW q \in t.live \cup {NULL}, q = NULL => t.root = NULL, q # NULL => HasRoom(t, q)
      PROVE  TreeKept(AttachNode(t, n, x, q))
  BY <1>1, AttachKept
<1>2. Sound(t)
  BY DEF TreeKept
<1> QED BY <1>1, <1>2, CreateAttaches

LEMMA DeleteKept ==
  ASSUME NEW t, TreeKept(t), NEW x
  PROVE  TreeKept(tree_delete_node(t, x))
<1>1. ASSUME NEW n \in t.live PROVE TreeKept(DetachNode(t, n))
  <2> DEFINE T == DetachNode(t, n)
  <2>1. T.live = t.live \ {n} /\ T.id = [m \in T.live |-> t.id[m]]
    BY DEF DetachNode
  <2>2. t.total > 0 /\ Sound(t)
    BY DetachCounts DEF TreeKept
  <2>3. Sound(T) /\ CountExact(T)
    BY <2>2, DetachSound, DetachCounts DEF TreeKept
  <2> HIDE DEF T
  <2>4. T.id \in [T.live -> Id]
    BY <2>1 DEF TreeKept
  <2> QED BY <2>3, <2>4 DEF TreeKept, T
<1>2. Sound(t)
  BY DEF TreeKept
<1> QED BY <1>1, <1>2, DeleteDetaches

(* What state_load writes into a node. *)
Named(t, n, r) == [t EXCEPT !.id[n] = r.id, !.isRoot[n] = r.is_root]

NamedFields(t, n, r, T) ==
  /\ T.live = t.live /\ T.root = t.root /\ T.total = t.total
  /\ T.parent = t.parent /\ T.kids = t.kids
  /\ T.id = [t.id EXCEPT ![n] = r.id]
  /\ T.isRoot = [t.isRoot EXCEPT ![n] = r.is_root]

LEMMA NamedIs ==
  ASSUME NEW t, TreeKept(t), NEW n \in t.live, NEW r \in Record
  PROVE  NamedFields(t, n, r, Named(t, n, r)) /\ TreeKept(Named(t, n, r))
<1> DEFINE T == Named(t, n, r)
<1>1. TreeType(t) /\ LinksAgree(t) /\ Acyclic(t) /\ ChildrenFit(t) /\ CountExact(t)
      /\ t.id \in [t.live -> Id]
  BY DEF TreeKept, Sound
<1>2. t = [live |-> t.live, root |-> t.root, total |-> t.total, parent |-> t.parent,
           kids |-> t.kids, isRoot |-> t.isRoot, id |-> t.id]
  BY <1>1 DEF TreeType
<1>3. /\ T.live = t.live /\ T.root = t.root /\ T.total = t.total
      /\ T.parent = t.parent /\ T.kids = t.kids
      /\ T.id = [t.id EXCEPT ![n] = r.id]
      /\ T.isRoot = [t.isRoot EXCEPT ![n] = r.is_root]
      /\ T = [live |-> T.live, root |-> T.root, total |-> T.total, parent |-> T.parent,
              kids |-> T.kids, isRoot |-> T.isRoot, id |-> T.id]
  <2> DEFINE u == [t EXCEPT !.id[n] = r.id]
  <2>1. T = [u EXCEPT !.isRoot[n] = r.is_root]
    BY DEF Named
  <2>2. u = [live |-> t.live, root |-> t.root, total |-> t.total, parent |-> t.parent,
             kids |-> t.kids, isRoot |-> t.isRoot, id |-> [t.id EXCEPT ![n] = r.id]]
    BY <1>2
  <2> HIDE DEF T, u
  <2>3. u.live = t.live /\ u.root = t.root /\ u.total = t.total /\ u.parent = t.parent
        /\ u.kids = t.kids /\ u.isRoot = t.isRoot /\ u.id = [t.id EXCEPT ![n] = r.id]
    BY <2>2
  <2>4. T = [live |-> u.live, root |-> u.root, total |-> u.total, parent |-> u.parent,
             kids |-> u.kids, isRoot |-> [u.isRoot EXCEPT ![n] = r.is_root], id |-> u.id]
    BY <2>1, <2>2, <2>3
  <2> QED BY <2>3, <2>4
<1> HIDE DEF T
<1>4. T.id \in [T.live -> Id] /\ T.isRoot \in [T.live -> BOOLEAN] /\ DOMAIN T.id = T.live
  BY <1>1, <1>3 DEF Record, TreeType
<1>5. TreeType(T)
  BY <1>1, <1>3, <1>4 DEF TreeType
<1>6. LinksAgree(T) /\ Acyclic(T) /\ ChildrenFit(T) /\ CountExact(T)
  BY <1>1, <1>3 DEF LinksAgree, Acyclic, ChildrenFit, CountExact
<1>7. TreeKept(T)
  BY <1>4, <1>5, <1>6 DEF TreeKept, Sound
<1>8. NamedFields(t, n, r, T)
  BY <1>3 DEF NamedFields
<1> QED BY <1>7, <1>8 DEF T

-----------------------------------------------------------------------------
(* The file's part *)

LEMMA NodeStatesType ==
  ASSUME NEW t, TreeKept(t)
  PROVE  /\ NodeStates(t) \in Seq(Record)
         /\ Len(NodeStates(t)) = Len(DfsOrder(t))
         /\ \A i \in 1..Len(DfsOrder(t)) :
              DfsOrder(t)[i] \in t.live /\ NodeStates(t)[i] = NodeState(t, DfsOrder(t)[i])
<1> DEFINE d == DfsOrder(t)
           l == Len(d)
           s == NodeStates(t)
<1>1. d \in Seq(t.live) /\ l \in Nat /\ DOMAIN d = 1..l
  BY DfsType, LenProperties DEF TreeKept
<1>2. \A i \in 1..l : d[i] \in t.live
  BY <1>1, ElementOfSeq
<1>3. s = [i \in 1..l |-> NodeState(t, d[i])]
  BY <1>1 DEF NodeStates
<1>4. ASSUME NEW n \in t.live PROVE NodeState(t, n) \in Record
  <2>1. t.isRoot[n] \in BOOLEAN /\ t.id[n] \in Id
    BY DEF TreeKept, Sound, TreeType
  <2>2. t.parent[n] # NULL => t.id[t.parent[n]] \in Id
    BY DEF TreeKept, Sound, LinksAgree
  <2> QED BY <2>1, <2>2 DEF NodeState, Record
<1> HIDE DEF d, l, s
<1>5. s \in [1..l -> Record]
  BY <1>2, <1>3, <1>4
<1>6. s \in Seq(Record) /\ Len(s) = l
  BY <1>1, <1>5, SeqOfFunction
<1> QED BY <1>2, <1>3, <1>6 DEF d, l, s

(* A header, then records. *)
LEMMA FileFrom ==
  ASSUME NEW h \in Header, NEW s \in Seq(Record)
  PROVE  /\ IsFile(<<h>> \o s) /\ <<h>> \o s # <<>>
         /\ Len(<<h>> \o s) = Len(s) + 1
         /\ \A i \in 2..(Len(s) + 1) : (<<h>> \o s)[i] = s[i - 1]
         /\ (<<h>> \o s)[1] = h
<1> DEFINE f == <<h>> \o s
           I == Header \cup Record
<1>1. <<h>> \in Seq(I) /\ Len(<<h>>) = 1 /\ <<h>>[1] = h
  BY SeqOfOne
<1>2. s \in Seq(I) /\ Len(s) \in Nat /\ \A i \in 1..Len(s) : s[i] \in Record
  BY SeqMonotonic, LenProperties, ElementOfSeq
<1>3. /\ f \in Seq(I) /\ Len(f) = 1 + Len(s)
      /\ \A i \in 1..(1 + Len(s)) : f[i] = IF i <= 1 THEN <<h>>[i] ELSE s[i - 1]
  BY <1>1, <1>2, ConcatProperties
<1> HIDE DEF f
<1>4. f[1] = h
  BY <1>1, <1>2, <1>3
<1>5. ASSUME NEW i \in 2..(Len(s) + 1) PROVE f[i] = s[i - 1] /\ f[i] \in Record
  <2>1. i \in 1..(1 + Len(s)) /\ ~(i <= 1) /\ i - 1 \in 1..Len(s)
    BY <1>2
  <2> QED BY <1>2, <1>3, <2>1
<1>6. IsFile(f)
  <2>1. ASSUME NEW i \in 1..Len(f), i # 1 PROVE f[i] \in Record
    BY <1>2, <1>3, <1>5, <2>1
  <2> QED BY <1>3, <1>4, <2>1 DEF IsFile
<1>7. f # <<>>
  BY <1>2, <1>3, EmptySeq
<1> QED BY <1>2, <1>3, <1>4, <1>5, <1>6, <1>7 DEF f

(* A file is its header and its records. *)
LEMMA FileParts ==
  ASSUME NEW f, IsFile(f), f # <<>>
  PROVE  /\ Len(f) \in Nat \ {0} /\ DOMAIN f = 1..Len(f)
         /\ Head(f) = f[1] /\ Head(f) \in Header
         /\ Tail(f) \in Seq(Record) /\ Len(Tail(f)) = Len(f) - 1
         /\ \A i \in 1..Len(Tail(f)) : Tail(f)[i] = f[i + 1] /\ f[i + 1] \in Record
<1> DEFINE I == Header \cup Record
           s == Tail(f)
<1>1. f \in Seq(I) /\ Len(f) \in Nat /\ DOMAIN f = 1..Len(f) /\ Len(f) # 0
  BY LenProperties, EmptySeq DEF IsFile
<1>2. Head(f) = f[1] /\ f[1] \in Header
  BY <1>1, HeadTailProperties DEF IsFile
<1>3. s \in Seq(I) /\ Len(s) = Len(f) - 1 /\ \A i \in 1..Len(s) : s[i] = f[i + 1]
  BY <1>1, HeadTailProperties
<1> HIDE DEF s
<1>4. ASSUME NEW i \in 1..Len(s) PROVE f[i + 1] \in Record
  <2>1. i + 1 \in 1..Len(f) /\ i + 1 # 1
    BY <1>1, <1>3
  <2> QED BY <2>1 DEF IsFile
<1>5. s \in Seq(Record)
  <2>1. Len(s) \in Nat /\ DOMAIN s = 1..Len(s) /\ s \in [1..Len(s) -> I]
    BY <1>3, LenProperties
  <2>2. s \in [1..Len(s) -> Record]
    BY <1>3, <1>4, <2>1
  <2> QED BY <2>1, <2>2, SeqOfFunction
<1> QED BY <1>1, <1>2, <1>3, <1>4, <1>5 DEF s

LEMMA EmptyIsFile == IsFile(<<>>)
<1>1. <<>> \in Seq(Header \cup Record) /\ Len(<<>>) = 0
  OBVIOUS
<1> QED BY <1>1 DEF IsFile

LEMMA FlushedIsFile ==
  ASSUME NEW f, IsFile(f), NEW g, IsFile(g), Prefix(f, g), Len(f) < Len(g)
  PROVE  IsFile(Append(f, g[Len(f) + 1])) /\ Prefix(Append(f, g[Len(f) + 1]), g)
<1> DEFINE I == Header \cup Record
           l == Len(f)
           x == g[l + 1]
           a == Append(f, x)
<1>1. f \in Seq(I) /\ l \in Nat /\ g \in Seq(I) /\ Len(g) \in Nat
  BY LenProperties DEF IsFile
<1>2. l + 1 \in 1..Len(g) /\ l + 1 <= Len(g)
  BY <1>1
<1>3. x \in I /\ IF l + 1 = 1 THEN x \in Header ELSE x \in Record
  BY <1>2 DEF IsFile
<1> HIDE DEF x, I, l
<1>4. /\ a \in Seq(I) /\ Len(a) = l + 1
      /\ \A i \in 1..l : a[i] = f[i]
      /\ a[l + 1] = x
  BY <1>1, <1>3, AppendProperties DEF l
<1> HIDE DEF a
<1>5. ASSUME NEW i \in 1..(l + 1)
      PROVE  a[i] = g[i] /\ IF i = 1 THEN a[i] \in Header ELSE a[i] \in Record
  <2>1. CASE i = l + 1
    BY <1>3, <1>4, <2>1 DEF x
  <2>2. CASE i # l + 1
    <3>1. i \in 1..l
      BY <1>1, <2>2
    <3>2. a[i] = f[i] /\ f[i] = g[i]
      BY <1>4, <3>1 DEF Prefix, l
    <3> QED BY <3>1, <3>2 DEF IsFile, l
  <2> QED BY <2>1, <2>2
<1>6. IsFile(a) /\ Prefix(a, g)
  BY <1>2, <1>4, <1>5 DEF IsFile, Prefix, I
<1> QED BY <1>6 DEF a, x, l

LEMMA SealedIsFile ==
  ASSUME NEW f, IsFile(f), f # <<>>, NEW h \in Header
  PROVE  LET g == [f EXCEPT ![1] = h]
         IN  IsFile(g) /\ Len(g) = Len(f) /\ g[1] = h /\ \A i \in 2..Len(f) : g[i] = f[i]
<1> DEFINE I == Header \cup Record
           g == [f EXCEPT ![1] = h]
<1>1. f \in Seq(I) /\ Len(f) \in Nat \ {0} /\ h \in I /\ 1 \in 1..Len(f)
  BY FileParts DEF IsFile
<1> HIDE DEF I
<1>2. g \in Seq(I) /\ Len(g) = Len(f) /\ \A j \in 1..Len(f) : g[j] = IF j = 1 THEN h ELSE f[j]
  BY <1>1, ExceptSeq
<1> HIDE DEF g
<1>3. IsFile(g)
  BY <1>1, <1>2 DEF IsFile, I
<1>4. \A i \in 2..Len(f) : g[i] = f[i]
  BY <1>1, <1>2
<1> QED BY <1>1, <1>2, <1>3, <1>4 DEF g

-----------------------------------------------------------------------------
(* Every step keeps it *)

LEMMA HeaderKept ==
  /\ EmptyHeader \in Header
  /\ \A h \in Header : \A k \in Nat : [h EXCEPT !.node_count = k] \in Header
  /\ \A h \in Header : [h EXCEPT !.checksum = calculate_checksum(<<>>)] = h
<1>1. EmptyHeader \in Header
  BY DEF EmptyHeader, Header, calculate_checksum
<1>2. ASSUME NEW h \in Header, NEW k \in Nat PROVE [h EXCEPT !.node_count = k] \in Header
  BY DEF Header
<1>3. ASSUME NEW h \in Header PROVE [h EXCEPT !.checksum = calculate_checksum(<<>>)] = h
  BY DEF Header, calculate_checksum
<1> QED BY <1>1, <1>2, <1>3

LEMMA IdleIsKept ==
  ASSUME io' = Idle
  PROVE  IoKept' /\ IsFile(io.out)'
<1>1. Idle \in IoType
  BY DEF Idle, IoType, Phase
<1>2. io'.pc = "idle" /\ io'.out = <<>> /\ io'.done = 0 /\ io'.count = 0
  BY DEF Idle
<1> QED BY <1>1, <1>2, EmptyIsFile DEF IoKept

LEMMA InitEstablishes == Init => IInv
<1> SUFFICES ASSUME Init PROVE IInv
  OBVIOUS
<1>1. tree = EmptyTree /\ second = 0 /\ counter = 0 /\ header = EmptyHeader /\ file = <<>>
      /\ io = Idle /\ quiet = TRUE
  BY DEF Init
<1>2. Idle \in IoType
  BY DEF Idle, IoType, Phase
<1>3. io.pc = "idle" /\ io.out = <<>> /\ io.done = 0 /\ io.count = 0
  BY <1>1 DEF Idle
<1>4. IoKept
  BY <1>1, <1>2, <1>3 DEF IoKept
<1> QED BY <1>1, <1>3, <1>4, EmptyIsKept, EmptyIsFile, HeaderKept, StateFileAssumption DEF IInv

LEMMA NewIdType ==
  ASSUME IInv
  PROVE  NewId \in Id
<1>1. second \in Nat /\ counter \in Nat
  BY StateFileAssumption DEF IInv
<1> QED BY <1>1 DEF NewId, Id

LEMMA OthersStep ==
  ASSUME IInv, \/ Restart
               \/ \E n \in Node \ tree.live, p \in Ids \cup {NULL} : CreateNode(n, p)
               \/ \E x \in Ids : DeleteNode(x)
  PROVE  IInv'
<1>0. second \in 0..MaxSecond /\ counter \in Nat /\ counter + 1 \in Nat /\ header \in Header
      /\ IsFile(file) /\ IsFile(io.out)
  BY DEF IInv
<1>1. CASE Restart
  <2>1. second' \in 0..MaxSecond
    BY <1>1, StateFileAssumption DEF Restart, IInv
  <2> QED BY <1>1, <2>1, EmptyIsKept, HeaderKept, IdleIsKept DEF Restart, IInv
<1>2. ASSUME NEW n \in Node \ tree.live, NEW p, CreateNode(n, p) PROVE IInv'
  <2>1. TreeKept(tree')
    BY <1>2, CreateKept, NewIdType DEF CreateNode, IInv
  <2>2. second' = second /\ counter' = counter + 1 /\ header' = header /\ file' = file
        /\ io' = io /\ quiet' = FALSE
    BY <1>2 DEF CreateNode, fileVars
  <2>3. IoKept'
    BY <2>2 DEF IInv, IoKept, MoreToLoad
  <2> QED BY <1>0, <2>1, <2>2, <2>3 DEF IInv
<1>3. ASSUME NEW x, DeleteNode(x) PROVE IInv'
  <2>1. TreeKept(tree')
    BY <1>3, DeleteKept DEF DeleteNode, IInv
  <2>2. second' = second /\ counter' = counter /\ header' = header /\ file' = file
        /\ io' = io /\ quiet' = FALSE
    BY <1>3 DEF DeleteNode, fileVars
  <2>3. IoKept'
    BY <2>2 DEF IInv, IoKept, MoreToLoad
  <2> QED BY <1>0, <2>1, <2>2, <2>3 DEF IInv
<1> QED BY <1>1, <1>2, <1>3

LEMMA SaveStep ==
  ASSUME IInv, state_save
  PROVE  IInv'
<1>0. /\ io \in IoType /\ IoKept /\ IsFile(file) /\ IsFile(io.out) /\ header \in Header
      /\ TreeKept(tree) /\ second \in 0..MaxSecond /\ counter \in Nat /\ quiet \in BOOLEAN
  BY DEF IInv, IoKept
<1>1. tree' = tree /\ second' = second /\ counter' = counter
  BY DEF state_save, SaveOpen, SaveCount, SaveNodes, Flush, SaveSeal, treeVars
<1>2. CASE SaveOpen
  <2>1. io'.pc = "count" /\ io'.out = <<>> /\ io'.done = 0 /\ io'.done <= io'.count /\ io' \in IoType
    BY <1>0, <1>2 DEF SaveOpen, IoType, Phase, IoKept
  <2>2. file' = <<>> /\ header' = header /\ quiet' \in BOOLEAN
    BY <1>2 DEF SaveOpen
  <2>3. IoKept'
    BY <2>1, <2>2 DEF IoKept
  <2> QED BY <1>0, <1>1, <2>1, <2>2, <2>3, EmptyIsFile DEF IInv
<1>3. CASE SaveCount
  <2>1. Len(DfsOrder(tree)) \in Nat
    BY <1>0, DfsType DEF TreeKept
  <2>2. header' = [header EXCEPT !.node_count = Len(DfsOrder(tree))]
    BY <1>3 DEF SaveCount
  <2>3. header' \in Header
    BY <1>0, <2>1, <2>2, HeaderKept
  <2>4. <<header'>> \in Seq(Header \cup Record) /\ Len(<<header'>>) = 1 /\ <<header'>>[1] = header'
    BY <2>3, SeqOfOne
  <2>5. io' = [io EXCEPT !.pc = "nodes", !.out = <<header'>>]
    BY <1>3 DEF SaveCount
  <2>6. io'.pc = "nodes" /\ io'.out = <<header'>> /\ io'.done = io.done /\ io'.count = io.count
        /\ io' \in IoType
    BY <1>0, <2>4, <2>5 DEF IoType, Phase
  <2>7. file' = <<>> /\ file' = file /\ io.done = 0 /\ quiet' = quiet /\ io.done <= io.count
    BY <1>0, <1>3 DEF SaveCount, IoKept, ghostVars
  <2>8. IoKept'
    BY <2>6, <2>7 DEF IoKept
  <2>9. IsFile(<<header'>>)
    BY <2>3, <2>4 DEF IsFile
  <2> QED BY <1>0, <1>1, <2>3, <2>6, <2>7, <2>8, <2>9 DEF IInv
<1>4. CASE SaveNodes
  <2> DEFINE s == NodeStates(tree)
             g == <<header>> \o s
  <2>1. s \in Seq(Record) /\ io.out = <<header>>
    BY <1>0, <1>4, NodeStatesType DEF SaveNodes, IoKept
  <2>2. IsFile(g) /\ g # <<>>
    BY <1>0, <2>1, FileFrom
  <2>3. io' = [io EXCEPT !.pc = "flush", !.out = g]
    BY <1>4, <2>1 DEF SaveNodes
  <2> HIDE DEF g, s
  <2>4. g \in Seq(Header \cup Record)
    BY <2>2 DEF IsFile
  <2>5. io'.pc = "flush" /\ io'.out = g /\ io'.done = io.done /\ io'.count = io.count /\ io' \in IoType
    BY <1>0, <2>3, <2>4 DEF IoType, Phase
  <2>6. file' = <<>> /\ file' = file /\ header' = header /\ io.done = 0 /\ quiet' = quiet
        /\ io.done <= io.count
    BY <1>0, <1>4 DEF SaveNodes, IoKept, ghostVars, fileVars
  <2>7. Prefix(<<>>, g)
    <3>1. Len(<<>>) = 0 /\ Len(g) \in Nat
      BY <2>4, LenProperties
    <3> QED BY <3>1 DEF Prefix
  <2>8. IoKept'
    BY <2>2, <2>5, <2>6, <2>7 DEF IoKept
  <2> QED BY <1>0, <1>1, <2>2, <2>5, <2>6, <2>8 DEF IInv
<1>5. CASE Flush
  <2>1. io.pc = "flush" /\ Len(file) < Len(io.out) /\ file' = Append(file, io.out[Len(file) + 1])
        /\ io' = io /\ header' = header /\ quiet' = quiet
    BY <1>5 DEF Flush, ghostVars
  <2>2. Prefix(file, io.out) /\ io.out # <<>>
    BY <1>0, <2>1 DEF IoKept
  <2>3. IsFile(file') /\ Prefix(file', io.out)
    BY <1>0, <2>1, <2>2, FlushedIsFile
  <2>4. IoKept'
    BY <1>0, <2>1, <2>3 DEF IoKept
  <2> QED BY <1>0, <1>1, <2>1, <2>3, <2>4 DEF IInv
<1>6. CASE SaveSeal
  <2>1. io.pc = "flush" /\ file = io.out
        /\ header' = [header EXCEPT !.checksum = calculate_checksum(<<>>)]
        /\ file' = [file EXCEPT ![1] = header'] /\ io' = Idle /\ quiet' = quiet
    BY <1>6 DEF SaveSeal
  <2>2. header' = header /\ file # <<>>
    BY <1>0, <2>1, HeaderKept DEF IoKept
  <2>3. IsFile(file')
    BY <1>0, <2>1, <2>2, SealedIsFile
  <2> QED BY <1>0, <1>1, <2>1, <2>2, <2>3, IdleIsKept DEF IInv
<1> QED BY <1>2, <1>3, <1>4, <1>5, <1>6 DEF state_save

LEMMA LoadStep ==
  ASSUME IInv, state_load
  PROVE  IInv'
<1>0. /\ io \in IoType /\ IoKept /\ IsFile(file) /\ IsFile(io.out) /\ header \in Header
      /\ TreeKept(tree) /\ second \in 0..MaxSecond /\ counter \in Nat /\ quiet \in BOOLEAN
  BY DEF IInv, IoKept
<1>1. second' = second /\ file' = file
  BY DEF state_load, LoadOpen, LoadNode, SkipRecord, LoadName, LoadEnd, treeVars, fileVars
<1>2. CASE LoadOpen
  <2>1. io.pc = "idle" /\ file # <<>> /\ header' = Head(file)
        /\ io' = [io EXCEPT !.pc = "load", !.count = Head(file).node_count]
        /\ quiet' = (tree.live = {}) /\ tree' = tree /\ counter' = counter
    BY <1>2 DEF LoadOpen, treeVars
  <2>2. Head(file) \in Header /\ Head(file).node_count \in Nat
    BY <1>0, <2>1, FileParts DEF Header
  <2>3. io'.pc = "load" /\ io'.count = Head(file).node_count /\ io'.done = 0 /\ io'.out = io.out
        /\ io' \in IoType
    BY <1>0, <2>1, <2>2 DEF IoType, Phase, IoKept
  <2>4. IoKept'
    BY <1>1, <2>1, <2>2, <2>3 DEF IoKept
  <2> QED BY <1>0, <1>1, <2>1, <2>2, <2>3, <2>4 DEF IInv
<1>3. ASSUME NEW n \in Node \ tree.live, LoadNode(n) PROVE IInv'
  <2>1. io.pc = "load" /\ MoreToLoad /\ counter' = counter + 1 /\ header' = header /\ quiet' = quiet
        /\ tree' = tree_create_node(tree, n, NewId, NextRecord.parent_id)
        /\ io' = IF n \in tree'.live THEN [io EXCEPT !.pc = "name", !.node = n]
                 ELSE [io EXCEPT !.done = @ + 1]
    BY <1>3 DEF LoadNode, fileVars, ghostVars
  <2>2. TreeKept(tree')
    BY <1>0, <2>1, CreateKept, NewIdType
  <2>3. io.done \in Nat /\ io.count \in Nat /\ io.done < io.count /\ file # <<>>
        /\ io.count = Head(file).node_count /\ io.done < Len(Tail(file)) /\ io.done + 1 \in Nat
    BY <1>0, <2>1 DEF IoType, IoKept, MoreToLoad
  <2>4. io'.out = io.out /\ io'.count = io.count /\ io' \in IoType
        /\ IF n \in tree'.live THEN io'.pc = "name" /\ io'.done = io.done /\ io'.node = n
           ELSE io'.pc = "load" /\ io'.done = io.done + 1
    <3>1. CASE n \in tree'.live
      <4>1. io' = [io EXCEPT !.pc = "name", !.node = n]
        BY <2>1, <3>1
      <4> QED BY <1>0, <3>1, <4>1 DEF IoType, Phase
    <3>2. CASE n \notin tree'.live
      <4>1. io' = [io EXCEPT !.done = @ + 1]
        BY <2>1, <3>2
      <4>2. io'.done = io.done + 1 /\ io'.out = io.out /\ io'.count = io.count
            /\ io'.pc = "load" /\ io'.node = io.node
        BY <1>0, <2>1, <4>1 DEF IoType
      <4>3. io' \in IoType
        BY <1>0, <2>1, <2>3, <4>1 DEF IoType, Phase
      <4> QED BY <3>2, <4>2, <4>3
    <3> QED BY <3>1, <3>2
  <2>5. io'.done <= io'.count
    BY <2>3, <2>4
  <2>6. IoKept'
    BY <1>1, <2>3, <2>4, <2>5 DEF IoKept, MoreToLoad
  <2> QED BY <1>0, <1>1, <2>1, <2>2, <2>4, <2>6 DEF IInv
<1>4. CASE SkipRecord
  <2>1. io.pc = "load" /\ MoreToLoad /\ io' = [io EXCEPT !.done = @ + 1]
        /\ tree' = tree /\ counter' = counter /\ header' = header /\ quiet' = quiet
    BY <1>4 DEF SkipRecord, treeVars, fileVars, ghostVars
  <2>2. io.done \in Nat /\ io.count \in Nat /\ io.done < io.count /\ file # <<>>
        /\ io.count = Head(file).node_count /\ io.done + 1 \in Nat
    BY <1>0, <2>1 DEF IoType, IoKept, MoreToLoad
  <2>3. io'.out = io.out /\ io'.count = io.count /\ io' \in IoType
        /\ io'.pc = "load" /\ io'.done = io.done + 1
    <3>1. io' = [io EXCEPT !.done = @ + 1]
      BY <2>1
    <3>2. io'.out = io.out /\ io'.count = io.count /\ io'.pc = io.pc /\ io'.done = io.done + 1
      BY <1>0, <3>1 DEF IoType
    <3>3. io' \in IoType
      BY <1>0, <2>2, <3>1 DEF IoType, Phase
    <3> QED BY <2>1, <3>2, <3>3
  <2>4. io'.done <= io'.count
    BY <2>2, <2>3
  <2>5. IoKept'
    BY <1>1, <2>2, <2>3, <2>4 DEF IoKept
  <2> QED BY <1>0, <1>1, <2>1, <2>3, <2>5 DEF IInv
<1>5. CASE LoadName
  <2>1. io.pc = "name" /\ io' = [io EXCEPT !.pc = "load", !.done = @ + 1, !.node = NULL]
        /\ tree' = (IF io.node \in tree.live THEN Named(tree, io.node, NextRecord) ELSE tree)
        /\ counter' = counter /\ header' = header /\ quiet' = quiet
    BY <1>5 DEF LoadName, Named, fileVars, ghostVars
  <2>2. io.done \in Nat /\ io.count \in Nat /\ io.done < io.count /\ file # <<>>
        /\ io.count = Head(file).node_count /\ io.done < Len(Tail(file)) /\ io.done + 1 \in Nat
    BY <1>0, <2>1 DEF IoType, IoKept, MoreToLoad
  <2>3. NextRecord \in Record
    BY <1>0, <2>2, FileParts DEF NextRecord
  <2>4. TreeKept(tree')
    BY <1>0, <2>1, <2>3, NamedIs
  <2>5. io'.out = io.out /\ io'.count = io.count /\ io' \in IoType
        /\ io'.pc = "load" /\ io'.done = io.done + 1
    <3> DEFINE k == io.done + 1
    <3>1. io' = [io EXCEPT !.pc = "load", !.done = k, !.node = NULL] /\ k \in Nat
      BY <1>0, <2>1, <2>2 DEF IoType
    <3> HIDE DEF k
    <3>2. io'.out = io.out /\ io'.count = io.count /\ io'.pc = "load" /\ io'.done = k
      BY <1>0, <3>1 DEF IoType
    <3>3. io' \in IoType
      BY <1>0, <3>1 DEF IoType, Phase
    <3> QED BY <3>2, <3>3 DEF k
  <2>6. io'.done <= io'.count
    BY <2>2, <2>5
  <2>7. IoKept'
    BY <1>1, <2>2, <2>5, <2>6 DEF IoKept
  <2> QED BY <1>0, <1>1, <2>1, <2>4, <2>5, <2>7 DEF IInv
<1>6. CASE LoadEnd
  <2>1. io' = Idle /\ tree' = tree /\ counter' = counter /\ header' = header /\ quiet' = quiet
    BY <1>6 DEF LoadEnd, treeVars, fileVars, ghostVars
  <2> QED BY <1>0, <1>1, <2>1, IdleIsKept DEF IInv
<1> QED BY <1>2, <1>3, <1>4, <1>5, <1>6 DEF state_load

LEMMA StepPreserves == IInv /\ [Next]_vars => IInv'
<1> SUFFICES ASSUME IInv, [Next]_vars PROVE IInv'
  OBVIOUS
<1>1. CASE UNCHANGED vars
  BY <1>1 DEF vars, treeVars, fileVars, ghostVars, IInv, IoKept, MoreToLoad
<1> QED BY <1>1, OthersStep, SaveStep, LoadStep DEF Next

(* The inductive invariant holds in every reachable state. *)
THEOREM Invariance == Spec => []IInv
BY InitEstablishes, StepPreserves, PTL DEF Spec

(* Whether the heap is damaged is set by LoadName and Restart alone. *)
KnownDamage == damaged \in BOOLEAN

LEMMA DamageIsKnown == Spec => []KnownDamage
<1>1. Init => KnownDamage
  BY DEF Init, KnownDamage
<1>2. KnownDamage /\ [Next]_vars => KnownDamage'
  BY DEF KnownDamage, vars, Next, Restart, CreateNode, DeleteNode, state_save, SaveOpen, SaveCount, SaveNodes,
         Flush, SaveSeal, state_load, LoadOpen, LoadNode, SkipRecord, LoadName, LoadEnd
<1> QED BY <1>1, <1>2, PTL DEF Spec

(* Every variable keeps its type, the file its format, and a load its place in *)
(* the file, whatever ends the process (state_save, state_load).               *)
THEOREM TypeCorrect == Spec => []TypeOK
<1>1. IInv /\ KnownDamage => TypeOK
  <2> SUFFICES ASSUME IInv, damaged \in BOOLEAN PROVE TypeOK
    BY DEF KnownDamage
  <2>1. \A h \in Header : IsHeader(h)
    BY DEF Header, IsHeader
  <2>2. file # <<>> => Head(file) \in Header
    BY FileParts DEF IInv
  <2>3. io \in IoType /\ io.done <= io.count
    BY DEF IInv, IoKept
  <2>4. io.pc \in Phase /\ io.done \in 0..io.count /\ io.node \in Node \cup {NULL}
    BY <2>3 DEF IoType
  <2> QED BY <2>1, <2>2, <2>4 DEF IInv, TreeKept, Sound, TypeOK, Phase
<1> QED BY <1>1, Invariance, DamageIsKnown, PTL

-----------------------------------------------------------------------------
(* What a load rebuilds *)

(* The first k nodes of t, in the order of a traversal, are what e says. *)
Shows(t, e, k) ==
  /\ TreeKept(t)
  /\ k \in Nat /\ k <= Len(DfsOrder(t))
  /\ \A i \in 1..k : NodeState(t, DfsOrder(t)[i]) = e[i]

(* They are all there is. *)
Rebuilt(t, e, k) ==
  /\ Shows(t, e, k)
  /\ Len(DfsOrder(t)) = k
  /\ Range(DfsOrder(t)) = t.live

(* Who is whose parent, by places in e. *)
Places(t, e, k, d) ==
  /\ d \in Seq(t.live) /\ Len(d) \in Nat /\ k <= Len(d) /\ DOMAIN d = 1..Len(d) /\ Distinct(d)
  /\ \A i \in 1..k :
       /\ d[i] \in t.live /\ d[i] # NULL /\ i \in DOMAIN d
       /\ e[i].id = t.id[d[i]] /\ e[i].id \in Id /\ e[i].is_root = t.isRoot[d[i]]
       /\ e[i].parent_id = IF t.parent[d[i]] = NULL THEN NULL ELSE t.id[t.parent[d[i]]]
       /\ e[i] = [id |-> e[i].id, parent_id |-> e[i].parent_id, is_root |-> e[i].is_root]
  /\ k # 0 => t.parent[d[1]] = NULL /\ e[1].parent_id = NULL
  /\ \A i \in 2..k : \E j \in 1..(i - 1) : t.parent[d[i]] = d[j]
  /\ \A i, j \in 1..k : t.parent[d[i]] = d[j] <=> e[i].parent_id = e[j].id

DifferentIds(e, k) == \A i, j \in 1..k : e[i].id = e[j].id => i = j

LEMMA PlacesShown ==
  ASSUME NEW t, NEW e, NEW k \in Nat, Shows(t, e, k), DifferentIds(e, k)
  PROVE  Places(t, e, k, DfsOrder(t))
<1> DEFINE d == DfsOrder(t)
<1>1. /\ TreeKept(t) /\ Sound(t) /\ k <= Len(d) /\ t.id \in [t.live -> Id]
      /\ \A i \in 1..k : NodeState(t, d[i]) = e[i]
  BY DEF Shows, TreeKept
<1>2. d \in Seq(t.live) /\ Len(d) \in Nat /\ DOMAIN d = 1..Len(d)
  BY <1>1, DfsType, LenProperties
<1>3. Distinct(d) /\ DfsTurns(t, d)
  BY <1>1, DfsVisits, DfsTakesTurns
<1> HIDE DEF d
<1>4. ASSUME NEW i \in 1..k PROVE d[i] \in t.live /\ i \in 1..Len(d)
  <2>1. i \in 1..Len(d)
    BY <1>1, <1>2
  <2> QED BY <1>2, <2>1, ElementOfSeq
<1>5. ASSUME NEW i \in 1..k
      PROVE  /\ d[i] # NULL
             /\ e[i].id = t.id[d[i]] /\ e[i].id \in Id /\ e[i].is_root = t.isRoot[d[i]]
             /\ e[i].parent_id = IF t.parent[d[i]] = NULL THEN NULL ELSE t.id[t.parent[d[i]]]
             /\ e[i] = [id |-> e[i].id, parent_id |-> e[i].parent_id, is_root |-> e[i].is_root]
  <2>1. e[i] = [id |-> t.id[d[i]],
                parent_id |-> IF t.parent[d[i]] = NULL THEN NULL ELSE t.id[t.parent[d[i]]],
                is_root |-> t.isRoot[d[i]]]
    BY <1>1 DEF NodeState
  <2>2. d[i] # NULL /\ t.id[d[i]] \in Id
    BY <1>1, <1>4, KidsAre
  <2> QED BY <2>1, <2>2
<1>6. ASSUME k # 0 PROVE t.parent[d[1]] = NULL /\ e[1].parent_id = NULL
  <2>1. 1 \in 1..k /\ 1 \in 1..Len(d)
    BY <1>1, <1>2, <1>6
  <2>2. d # <<>>
    BY <1>2, <2>1
  <2>3. t.parent[d[1]] = NULL
    BY <1>3, <2>2 DEF DfsTurns
  <2> QED BY <1>5, <2>1, <2>3
<1>7. ASSUME NEW i \in 2..k PROVE \E j \in 1..(i - 1) : t.parent[d[i]] = d[j]
  <2>1. i \in 2..Len(d)
    BY <1>1, <1>2
  <2> QED BY <1>3, <2>1 DEF DfsTurns
<1>10. \A i \in 1..k : e[i].id = t.id[d[i]] /\ d[i] # NULL
  BY <1>5
<1>11. ASSUME NEW i \in 1..k, t.parent[d[i]] # NULL PROVE e[i].parent_id = t.id[t.parent[d[i]]]
  BY <1>5, <1>11
<1>8. ASSUME NEW i \in 1..k, NEW j \in 1..k PROVE t.parent[d[i]] = d[j] <=> e[i].parent_id = e[j].id
  <2>1. t.parent[d[i]] = d[j] => e[i].parent_id = e[j].id
    <3> SUFFICES ASSUME t.parent[d[i]] = d[j] PROVE e[i].parent_id = e[j].id
      OBVIOUS
    <3>1. t.parent[d[i]] # NULL
      BY <1>10
    <3>2. e[i].parent_id = t.id[t.parent[d[i]]]
      BY <1>11, <3>1
    <3> QED BY <1>10, <3>2
  <2>2. ASSUME e[i].parent_id = e[j].id PROVE t.parent[d[i]] = d[j]
    <3>1. e[j].id # NULL
      BY <1>5, StateFileAssumption DEF Id
    <3>2. t.parent[d[i]] # NULL
      BY <1>5, <2>2, <3>1
    <3>3. i \in 2..k
      <4>1. i # 1
        BY <1>6, <3>2
      <4> QED BY <4>1
    <3>4. PICK h \in 1..(i - 1) : t.parent[d[i]] = d[h]
      BY <1>7, <3>3
    <3>5. h \in 1..k
      BY <3>3
    <3>6. e[i].parent_id = e[h].id
      <4>1. e[i].parent_id = t.id[t.parent[d[i]]]
        BY <1>11, <3>2
      <4> QED BY <1>10, <3>4, <3>5, <4>1
    <3>7. h = j
      BY <2>2, <3>5, <3>6 DEF DifferentIds
    <3> QED BY <3>4, <3>7
  <2> QED BY <2>1, <2>2
<1>9. Places(t, e, k, d)
  <2>1. \A i \in 1..k : i \in DOMAIN d
    BY <1>2, <1>4
  <2> QED BY <1>1, <1>2, <1>3, <1>4, <1>5, <1>6, <1>7, <1>8, <2>1 DEF Places
<1> QED BY <1>9 DEF d

(* s is the tree that was saved, c its order; t is the one that is loaded, d its   *)
(* order, which has the first k records of e.                                      *)
Meeting(s, c, t, d, e, k) ==
  /\ k \in Nat /\ k # 0
  /\ Sound(s) /\ Sound(t)
  /\ Places(s, e, k + 1, c) /\ DfsTurns(s, c)
  /\ Places(t, e, k, d) /\ Len(d) = k /\ Range(d) = t.live
  /\ DifferentIds(e, k + 1)

LEMMA SameParents ==
  ASSUME NEW s, NEW c, NEW t, NEW d, NEW e, NEW k, Meeting(s, c, t, d, e, k),
         NEW i \in 1..k, NEW j \in 1..k
  PROVE  s.parent[c[i]] = c[j] <=> t.parent[d[i]] = d[j]
<1>1. i \in 1..(k + 1) /\ j \in 1..(k + 1)
  BY DEF Meeting
<1>2. s.parent[c[i]] = c[j] <=> e[i].parent_id = e[j].id
  BY <1>1 DEF Meeting, Places
<1>3. t.parent[d[i]] = d[j] <=> e[i].parent_id = e[j].id
  BY DEF Meeting, Places
<1> QED BY <1>2, <1>3

LEMMA NextHasParent ==
  ASSUME NEW s, NEW c, NEW t, NEW d, NEW e, NEW k, Meeting(s, c, t, d, e, k)
  PROVE  \E j \in 1..k : s.parent[c[k + 1]] = c[j] /\ e[k + 1].parent_id = e[j].id
<1>1. k \in Nat /\ k # 0 /\ k + 1 \in 2..(k + 1) /\ k + 1 \in 1..(k + 1) /\ (k + 1) - 1 = k
  BY DEF Meeting
<1>2. PICK j \in 1..k : s.parent[c[k + 1]] = c[j]
  BY <1>1 DEF Meeting, Places
<1>3. j \in 1..(k + 1)
  BY <1>1
<1>4. e[k + 1].parent_id = e[j].id
  BY <1>1, <1>2, <1>3 DEF Meeting, Places
<1> QED BY <1>2, <1>4

(* What was above the last node read is above it again. *)
LEMMA WayUpAgain ==
  ASSUME NEW s, NEW c, NEW t, NEW d, NEW e, NEW k, Meeting(s, c, t, d, e, k),
         NEW j \in 1..k, s.parent[c[k + 1]] = c[j]
  PROVE  d[j] \in Ancestors(t, d[k]) /\ d[k] \in t.live
<1>1. k \in Nat /\ k # 0 /\ k + 1 \in 2..(k + 1) /\ (k + 1) - 1 = k /\ k \in 1..k /\ k + 1 <= Len(c)
      /\ Len(c) \in Nat
  BY DEF Meeting, Places
<1>2. \A i \in 1..k : d[i] \in t.live /\ c[i] \in s.live
  <2>1. \A i \in 1..k : i \in 1..(k + 1)
    BY <1>1
  <2> QED BY <2>1 DEF Meeting, Places
<1>3. \A i, l \in 1..k : c[i] = c[l] => i = l
  <2>1. \A i \in 1..k : i \in DOMAIN c
    <3>1. \A i \in 1..k : i \in 1..(k + 1)
      BY <1>1
    <3> QED BY <3>1 DEF Meeting, Places
  <2> QED BY <2>1 DEF Meeting, Places, Distinct
<1>4. c[j] \in Ancestors(s, c[k])
  <2>1. k + 1 \in 2..Len(c)
    BY <1>1
  <2> QED BY <1>1, <2>1 DEF Meeting, DfsTurns
<1> SUFFICES ASSUME NEW S \in SUBSET t.live, d[k] \in S, ClosedUnderParent(t, S) PROVE d[j] \in S
  BY <1>1, <1>2 DEF Ancestors
<1> DEFINE Z == {c[l] : l \in {l \in 1..k : d[l] \in S}}
<1>5. Z \in SUBSET s.live /\ c[k] \in Z
  BY <1>1, <1>2
<1>6. ASSUME NEW i \in 1..k, d[i] \in S PROVE s.parent[c[i]] = NULL \/ s.parent[c[i]] \in Z
  <2>1. CASE i = 1
    <3>1. k + 1 # 0
      BY <1>1
    <3>2. s.parent[c[1]] = NULL
      BY <3>1 DEF Meeting, Places
    <3> QED BY <2>1, <3>2
  <2>2. CASE i # 1
    <3>1. i \in 2..(k + 1)
      BY <1>1, <2>2
    <3>2. PICK l \in 1..(i - 1) : s.parent[c[i]] = c[l]
      BY <3>1 DEF Meeting, Places
    <3>3. l \in 1..k
      BY <1>1
    <3>4. t.parent[d[i]] = d[l]
      BY <3>2, <3>3, SameParents
    <3>5. d[l] # NULL
      BY <3>3 DEF Meeting, Places
    <3>6. d[l] \in S
      BY <1>6, <3>4, <3>5 DEF ClosedUnderParent
    <3> QED BY <3>2, <3>3, <3>6
  <2> QED BY <2>1, <2>2
<1>7. ClosedUnderParent(s, Z)
  BY <1>6 DEF ClosedUnderParent
<1>8. c[j] \in Z
  BY <1>4, <1>5, <1>7 DEF Ancestors
<1> QED BY <1>3, <1>8

(* The parent has a slot: the one the next node had. *)
LEMMA SlotAgain ==
  ASSUME NEW s, NEW c, NEW t, NEW d, NEW e, NEW k, Meeting(s, c, t, d, e, k),
         NEW j \in 1..k, s.parent[c[k + 1]] = c[j]
  PROVE  HasRoom(t, d[j])
<1> DEFINE A == Range(t.kids[d[j]])
           B == Range(s.kids[c[j]])
           next == c[k + 1]
           place(m) == CHOOSE l \in 1..k : d[l] = m
           f == [m \in A |-> c[place(m)]]
<1>1. k \in Nat /\ k # 0 /\ k + 1 \in 1..(k + 1) /\ k + 1 \notin 1..k
  BY DEF Meeting
<1>2. /\ \A i \in 1..k : d[i] \in t.live /\ c[i] \in s.live /\ i \in DOMAIN c
      /\ next \in s.live /\ k + 1 \in DOMAIN c
  <2>1. \A i \in 1..k : i \in 1..(k + 1)
    BY <1>1
  <2> QED BY <1>1, <2>1 DEF Meeting, Places
<1>3. \A i, l \in 1..(k + 1) : c[i] = c[l] => i = l
  BY DEF Meeting, Places, Distinct
<1>4. ASSUME NEW m \in A
      PROVE  place(m) \in 1..k /\ d[place(m)] = m /\ c[place(m)] \in B \ {next}
  <2>1. m \in t.live /\ t.parent[m] = d[j]
    BY <1>2, KidsAre DEF Meeting
  <2>2. m \in Range(d) /\ DOMAIN d = 1..k
    BY <2>1 DEF Meeting, Places
  <2>3. \E l \in 1..k : d[l] = m
    BY <2>2 DEF Range
  <2>4. place(m) \in 1..k /\ d[place(m)] = m
    BY <2>3
  <2> DEFINE l == place(m)
  <2> HIDE DEF l
  <2>5. l \in 1..k /\ d[l] = m
    BY <2>4 DEF l
  <2>6. s.parent[c[l]] = c[j]
    BY <2>1, <2>5, SameParents
  <2>7. c[l] \in B
    BY <1>2, <2>5, <2>6, KidsAre DEF Meeting
  <2>8. c[l] # next
    <3>1. l \in 1..(k + 1) /\ l # k + 1
      BY <1>1, <2>5
    <3> QED BY <1>1, <1>3, <3>1
  <2> QED BY <2>5, <2>7, <2>8 DEF l
<1>5. next \in B
  BY <1>2, KidsAre DEF Meeting
<1> HIDE DEF place, next, A, B
<1>6. f \in Injection(A, B \ {next})
  <2>1. f \in [A -> B \ {next}]
    BY <1>4
  <2>2. ASSUME NEW m \in A, NEW u \in A, f[m] = f[u] PROVE m = u
    <3>1. c[place(m)] = c[place(u)] /\ place(m) \in 1..(k + 1) /\ place(u) \in 1..(k + 1)
      BY <1>1, <1>4, <2>2
    <3>2. place(m) = place(u)
      BY <1>3, <3>1
    <3> QED BY <1>4, <3>2
  <2> HIDE DEF f
  <2> QED BY <2>1, <2>2 DEF Injection, IsInjective
<1> HIDE DEF f
<1>7. /\ Len(s.kids[c[j]]) \in Nat /\ Len(s.kids[c[j]]) <= MAX_CHILDREN
      /\ IsFiniteSet(B) /\ Cardinality(B) = Len(s.kids[c[j]])
  <2>1. s.kids[c[j]] \in Seq(Node) /\ Distinct(s.kids[c[j]]) /\ Len(s.kids[c[j]]) <= MAX_CHILDREN
    BY <1>2 DEF Meeting, Sound, TreeType, LinksAgree, Distinct, ChildrenFit
  <2> QED BY <2>1, DistinctCounts DEF B
<1>8. /\ Len(t.kids[d[j]]) \in Nat
      /\ IsFiniteSet(A) /\ Cardinality(A) = Len(t.kids[d[j]])
  <2>1. t.kids[d[j]] \in Seq(Node) /\ Distinct(t.kids[d[j]])
    BY <1>2 DEF Meeting, Sound, TreeType, LinksAgree, Distinct
  <2> QED BY <2>1, DistinctCounts DEF A
<1>9. IsFiniteSet(B \ {next}) /\ Cardinality(B \ {next}) = Cardinality(B) - 1
  BY <1>5, <1>7, FS_RemoveElement
<1>10. Cardinality(A) <= Cardinality(B \ {next})
  BY <1>6, <1>9, FS_Injection
<1>11. Len(t.kids[d[j]]) < MAX_CHILDREN
  BY <1>7, <1>8, <1>9, <1>10, TreeAssumption
<1> QED BY <1>11 DEF HasRoom

(* And it is found. *)
LEMMA ParentFound ==
  ASSUME NEW s, NEW c, NEW t, NEW d, NEW e, NEW k, Meeting(s, c, t, d, e, k),
         Range(d) = Linked(t), k <= MAX_QUEUE_SIZE,
         NEW j \in 1..k, e[k + 1].parent_id = e[j].id
  PROVE  tree_find_node(t, e[k + 1].parent_id) = d[j]
<1>1. /\ k \in Nat /\ d \in Seq(t.live) /\ Distinct(d) /\ Len(d) = k /\ DOMAIN d = 1..k /\ Sound(t)
      /\ \A i \in 1..k : d[i] \in t.live /\ e[i].id = t.id[d[i]]
  BY DEF Meeting, Places
<1>2. Cardinality(Linked(t)) = k
  BY <1>1, DistinctCounts
<1>3. Roomy(t)
  BY <1>2 DEF Roomy
<1>4. d[j] \in Linked(t)
  BY <1>1 DEF Range
<1>5. ASSUME NEW m \in Linked(t), t.id[m] = t.id[d[j]] PROVE m = d[j]
  <2>1. PICK i \in 1..k : m = d[i]
    BY <1>1 DEF Range
  <2>2. e[i].id = e[j].id
    BY <1>1, <1>5, <2>1
  <2>3. i \in 1..(k + 1) /\ j \in 1..(k + 1)
    BY <1>1
  <2>4. i = j
    BY <2>2, <2>3 DEF Meeting, DifferentIds
  <2> QED BY <2>1, <2>4
<1>6. tree_find_node(t, t.id[d[j]]) = d[j]
  BY <1>1, <1>3, <1>4, <1>5, LinkedIsFound
<1> QED BY <1>1, <1>6


-----------------------------------------------------------------------------
(* One record becomes one node *)

(* N is t with node n for record r, under q. *)
OneMore(t, n, q, r, N) ==
  /\ TreeKept(N) /\ N.live = t.live \cup {n}
  /\ \A m \in t.live : NodeState(N, m) = NodeState(t, m)
  /\ NodeState(N, n) = [id |-> r.id, parent_id |-> IF q = NULL THEN NULL ELSE t.id[q],
                        is_root |-> r.is_root]

LEMMA LoadedIsOneMore ==
  ASSUME NEW t, TreeKept(t), NEW n \in Node \ t.live, NEW x \in Id,
         NEW q \in t.live \cup {NULL}, q = NULL => t.root = NULL, q # NULL => HasRoom(t, q),
         NEW r \in Record
  PROVE  LET T == AttachNode(t, n, x, q)
             N == Named(T, n, r)
         IN  /\ n \in T.live
             /\ DfsOrder(N) = DfsOrder(T)
             /\ OneMore(t, n, q, r, N)
<1> DEFINE T == AttachNode(t, n, x, q)
           N == Named(T, n, r)
           L == t.live \cup {n}
<1>1. /\ T.live = L
      /\ T.parent = [m \in L |-> IF m = n THEN q ELSE t.parent[m]]
      /\ T.isRoot = [m \in L |-> IF m = n THEN q = NULL ELSE t.isRoot[m]]
      /\ T.id = [m \in L |-> IF m = n THEN x ELSE t.id[m]]
  BY DEF AttachNode
<1>2. TreeKept(T)
  BY AttachKept
<1> HIDE DEF T
<1>3. n \in T.live
  BY <1>1
<1>4. NamedFields(T, n, r, N) /\ TreeKept(N)
  BY <1>2, <1>3, NamedIs
<1> HIDE DEF N
<1>5. DfsOrder(N) = DfsOrder(T)
  <2>1. N.live = T.live /\ N.kids = T.kids /\ N.root = T.root /\ Sound(N) /\ Sound(T)
    BY <1>2, <1>4 DEF NamedFields, TreeKept
  <2> QED BY <2>1, SameOrder
<1>6. /\ N.live = L /\ N.parent = T.parent
      /\ \A m \in L : N.id[m] = IF m = n THEN r.id ELSE t.id[m]
      /\ \A m \in L : N.isRoot[m] = IF m = n THEN r.is_root ELSE t.isRoot[m]
  BY <1>1, <1>4 DEF NamedFields
<1>7. ASSUME NEW m \in t.live PROVE NodeState(N, m) = NodeState(t, m)
  <2>1. m \in L /\ m # n
    OBVIOUS
  <2>2. N.id[m] = t.id[m] /\ N.isRoot[m] = t.isRoot[m] /\ N.parent[m] = t.parent[m]
    BY <1>1, <1>6, <2>1
  <2>3. t.parent[m] # NULL => t.parent[m] \in t.live
    BY DEF TreeKept, Sound, LinksAgree
  <2>4. t.parent[m] # NULL => N.id[t.parent[m]] = t.id[t.parent[m]]
    BY <1>6, <2>3
  <2>5. CASE t.parent[m] = NULL
    BY <2>2, <2>5 DEF NodeState
  <2>6. CASE t.parent[m] # NULL
    BY <2>2, <2>4, <2>6 DEF NodeState
  <2> QED BY <2>5, <2>6
<1>8. NodeState(N, n) = [id |-> r.id, parent_id |-> IF q = NULL THEN NULL ELSE t.id[q],
                         is_root |-> r.is_root]
  <2>1. N.id[n] = r.id /\ N.isRoot[n] = r.is_root /\ N.parent[n] = q
    BY <1>1, <1>6
  <2>2. q # NULL => N.id[q] = t.id[q]
    BY <1>6
  <2>3. CASE q = NULL
    BY <2>1, <2>3 DEF NodeState
  <2>4. CASE q # NULL
    BY <2>1, <2>2, <2>4 DEF NodeState
  <2> QED BY <2>3, <2>4
<1>9. OneMore(t, n, q, r, N)
  BY <1>4, <1>6, <1>7, <1>8 DEF OneMore
<1> QED BY <1>3, <1>5, <1>9 DEF N, T

LEMMA LoadFirst ==
  ASSUME NEW e, NEW t, Rebuilt(t, e, 0), e[1] \in Record, e[1].parent_id = NULL,
         e[1] = [id |-> e[1].id, parent_id |-> e[1].parent_id, is_root |-> e[1].is_root],
         NEW n \in Node \ t.live, NEW x \in Id, NEW p
  PROVE  LET T == tree_create_node(t, n, x, p)
         IN  n \in T.live /\ Rebuilt(Named(T, n, e[1]), e, 1)
<1> DEFINE T == AttachNode(t, n, x, NULL)
           r == e[1]
           N == Named(T, n, r)
<1>1. TreeKept(t) /\ Sound(t) /\ Len(DfsOrder(t)) = 0 /\ Range(DfsOrder(t)) = t.live
  BY DEF Rebuilt, Shows, TreeKept
<1>2. t.live = {}
  <2>1. DfsOrder(t) \in Seq(t.live)
    BY <1>1, DfsType
  <2>2. DfsOrder(t) = <<>>
    BY <1>1, <2>1, EmptySeq
  <2> QED BY <1>1, <2>2 DEF Range
<1>3. t.root = NULL
  BY <1>1, <1>2 DEF Sound, LinksAgree
<1>4. tree_create_node(t, n, x, p) = T
  BY <1>3 DEF tree_create_node
<1>5. n \in T.live /\ DfsOrder(N) = DfsOrder(T) /\ OneMore(t, n, NULL, r, N)
  BY <1>1, <1>3, LoadedIsOneMore
<1>6. DfsOrder(T) = <<n>>
  BY <1>1, <1>3, RootComesAlone
<1> HIDE DEF T, N
<1>7. Len(<<n>>) = 1 /\ <<n>>[1] = n /\ Range(<<n>>) = {n}
  BY SeqOfOne
<1>8. NodeState(N, n) = r
  BY <1>5 DEF OneMore
<1>9. TreeKept(N) /\ N.live = {n} /\ DfsOrder(N) = <<n>>
  BY <1>2, <1>5, <1>6 DEF OneMore
<1>10. \A i \in 1..1 : NodeState(N, <<n>>[i]) = e[i]
  <2>1. \A i \in 1..1 : i = 1
    OBVIOUS
  <2> QED BY <1>7, <1>8, <2>1
<1>11. Shows(N, e, 1)
  BY <1>7, <1>9, <1>10 DEF Shows
<1>12. Rebuilt(N, e, 1)
  BY <1>7, <1>9, <1>11 DEF Rebuilt
<1> QED BY <1>4, <1>5, <1>12 DEF N

LEMMA LoadNext ==
  ASSUME NEW e, NEW s, NEW t, NEW k \in Nat, k # 0, k <= MAX_QUEUE_SIZE,
         Shows(s, e, k + 1), Rebuilt(t, e, k), DifferentIds(e, k + 1), e[k + 1] \in Record,
         NEW n \in Node \ t.live, NEW x \in Id
  PROVE  LET T == tree_create_node(t, n, x, e[k + 1].parent_id)
         IN  n \in T.live /\ Rebuilt(Named(T, n, e[k + 1]), e, k + 1)
<1> DEFINE c == DfsOrder(s)
           d == DfsOrder(t)
           r == e[k + 1]
<1>1. /\ TreeKept(t) /\ Sound(t) /\ Shows(t, e, k) /\ Len(d) = k /\ Range(d) = t.live
      /\ TreeKept(s) /\ Sound(s) /\ \A i \in 1..k : NodeState(t, d[i]) = e[i]
  BY DEF Rebuilt, Shows, TreeKept
<1>2. k + 1 \in Nat /\ DifferentIds(e, k)
  BY DEF DifferentIds
<1>3. Places(s, e, k + 1, c) /\ Places(t, e, k, d)
  BY <1>1, <1>2, PlacesShown
<1>4. Meeting(s, c, t, d, e, k)
  BY <1>1, <1>3, DfsTakesTurns DEF Meeting
<1>5. PICK j \in 1..k : s.parent[c[k + 1]] = c[j] /\ r.parent_id = e[j].id
  BY <1>4, NextHasParent
<1> DEFINE q == d[j]
           T == AttachNode(t, n, x, q)
           N == Named(T, n, r)
<1>6. Range(d) = Linked(t)
  BY <1>1, DfsVisits
<1>7. tree_find_node(t, r.parent_id) = q
  BY <1>4, <1>5, <1>6, ParentFound
<1>8. HasRoom(t, q) /\ q \in Ancestors(t, d[k]) /\ d[k] \in t.live
  BY <1>4, <1>5, SlotAgain, WayUpAgain
<1>9. /\ q \in t.live /\ q # NULL /\ t.id[q] = r.parent_id /\ r.parent_id \in Id
      /\ d \in Seq(t.live) /\ DOMAIN d = 1..k
      /\ r = [id |-> r.id, parent_id |-> r.parent_id, is_root |-> r.is_root]
  <2>1. k + 1 \in 1..(k + 1)
    BY <1>2
  <2> QED BY <1>1, <1>3, <1>5, <2>1 DEF Places
<1> HIDE DEF c, q
<1>10. d # <<>> /\ LastOf(d) = d[k]
  BY <1>1 DEF LastOf
<1> HIDE DEF d, r
<1>11. t.root # NULL
  <2>1. t.root = NULL => Linked(t) = {}
    BY <1>1, RootIsLinked
  <2> QED BY <1>1, <1>6, <1>9, <2>1
<1>12. r.parent_id # NULL
  BY <1>9, StateFileAssumption DEF Id
<1>13. tree_create_node(t, n, x, r.parent_id) = T
  BY <1>7, <1>8, <1>9, <1>11, <1>12 DEF tree_create_node
<1>14. DfsOrder(T) = Append(d, n)
  BY <1>1, <1>8, <1>9, <1>10, LeafComesLast DEF d
<1>15. n \in T.live /\ DfsOrder(N) = DfsOrder(T) /\ OneMore(t, n, q, r, N)
  <2>1. r \in Record
    BY DEF r
  <2> QED BY <1>1, <1>8, <1>9, <2>1, LoadedIsOneMore
<1> HIDE DEF T, N
<1> DEFINE a == Append(d, n)
<1>16. /\ Len(a) = k + 1 /\ Range(a) = t.live \cup {n}
       /\ (\A i \in 1..k : a[i] = d[i]) /\ a[k + 1] = n
  <2>1. d \in Seq(t.live \cup {n}) /\ n \in t.live \cup {n}
    BY <1>9, SeqMonotonic
  <2>2. Len(d) = k /\ Range(d) = t.live
    BY <1>1 DEF d
  <2> QED BY <2>1, <2>2, AppendOne
<1>17. TreeKept(N) /\ N.live = t.live \cup {n} /\ DfsOrder(N) = a
  BY <1>14, <1>15 DEF OneMore
<1> HIDE DEF a
<1>18. ASSUME NEW i \in 1..(k + 1) PROVE NodeState(N, a[i]) = e[i]
  <2>1. CASE i = k + 1
    <3>1. NodeState(N, n) = [id |-> r.id, parent_id |-> t.id[q], is_root |-> r.is_root]
      BY <1>9, <1>15 DEF OneMore
    <3>2. NodeState(N, n) = r
      BY <1>9, <3>1
    <3> QED BY <1>16, <2>1, <3>2 DEF r
  <2>2. CASE i # k + 1
    <3>1. i \in 1..k
      BY <2>2
    <3>2. d[i] \in t.live
      BY <1>9, <3>1, ElementOfSeq, LenProperties
    <3>3. NodeState(N, d[i]) = NodeState(t, d[i])
      BY <1>15, <3>2 DEF OneMore
    <3>4. NodeState(t, d[i]) = e[i]
      BY <1>1, <3>1 DEF d
    <3> QED BY <1>16, <3>1, <3>3, <3>4
  <2> QED BY <2>1, <2>2
<1>19. Shows(N, e, k + 1)
  BY <1>2, <1>16, <1>17, <1>18 DEF Shows
<1>20. Rebuilt(N, e, k + 1)
  BY <1>16, <1>17, <1>19 DEF Rebuilt
<1> QED BY <1>13, <1>15, <1>20 DEF N, r


(* What is rebuilt, as a sequence of records. *)
LEMMA RebuiltStates ==
  ASSUME NEW e \in Seq(Record), NEW k \in Nat, k <= Len(e), NEW t, Rebuilt(t, e, k)
  PROVE  NodeStates(t) = SubSeq(e, 1, k)
<1> DEFINE u == SubSeq(e, 1, k)
           s == NodeStates(t)
           d == DfsOrder(t)
<1>1. TreeKept(t) /\ Len(d) = k /\ \A i \in 1..k : NodeState(t, d[i]) = e[i]
  BY DEF Rebuilt, Shows
<1>2. s \in Seq(Record) /\ Len(s) = Len(d) /\ \A i \in 1..Len(d) : s[i] = NodeState(t, d[i])
  BY <1>1, NodeStatesType
<1>3. u \in Seq(Record) /\ Len(u) = k /\ \A i \in 1..k : u[i] = e[i]
  <2>1. 1 \in 1..(Len(e) + 1) /\ k \in (1 - 1)..Len(e) /\ k + 1 - 1 = k
        /\ \A i \in 1..k : 1 + i - 1 = i
    BY LenProperties
  <2>2. u \in Seq(Record) /\ Len(u) = k + 1 - 1 /\ \A i \in 1..(k + 1 - 1) : u[i] = e[1 + i - 1]
    BY <2>1, SliceProperties
  <2> HIDE DEF u
  <2> QED BY <2>1, <2>2
<1> HIDE DEF u, s, d
<1>4. Len(s) = Len(u) /\ \A i \in 1..Len(s) : s[i] = u[i]
  BY <1>1, <1>2, <1>3
<1>5. s = u
  BY <1>2, <1>3, <1>4, SeqEqual
<1> QED BY <1>5 DEF s, u

(* There was an address for each node saved, so there is one for the next. *)
LEMMA AddressLeft ==
  ASSUME NEW e, NEW k \in Nat, NEW s, Shows(s, e, k + 1), NEW t, Rebuilt(t, e, k)
  PROVE  t.live # Node
<1> DEFINE c == DfsOrder(s)
           d == DfsOrder(t)
<1>1. Sound(s) /\ Sound(t) /\ k + 1 <= Len(c) /\ Len(d) = k /\ Range(d) = t.live
  BY DEF Rebuilt, Shows, TreeKept
<1>2. c \in Seq(s.live) /\ Distinct(c) /\ d \in Seq(t.live) /\ Distinct(d)
  BY <1>1, DfsType, DfsVisits
<1> HIDE DEF c, d
<1>3. IsFiniteSet(t.live) /\ Cardinality(t.live) = k
  BY <1>1, <1>2, DistinctCounts
<1>4. c \in Seq(Node)
  <2>1. s.live \subseteq Node
    BY <1>1 DEF Sound, TreeType
  <2> QED BY <1>2, <2>1, SeqMonotonic
<1> SUFFICES ASSUME t.live = Node PROVE FALSE
  OBVIOUS
<1>5. Len(c) <= k /\ Len(c) \in Nat
  BY <1>2, <1>3, <1>4, DistinctFits
<1> QED BY <1>1, <1>5

-----------------------------------------------------------------------------
(* What is in the file, and what a load has made of it *)

(* The records of a file, whole or cut off, are the first nodes of some tree. *)
FileSaved(f) == f # <<>> => \E t : Shows(t, Tail(f), Len(Tail(f)))

LEMMA PartSaved ==
  ASSUME NEW f, IsFile(f), FileSaved(f), NEW g, IsFile(g), Len(g) <= Len(f),
         \A i \in 2..Len(g) : g[i] = f[i]
  PROVE  FileSaved(g)
<1> SUFFICES ASSUME g # <<>> PROVE \E t : Shows(t, Tail(g), Len(Tail(g)))
  BY DEF FileSaved
<1> DEFINE k == Len(Tail(g))
           K == Len(Tail(f))
<1>1. Len(g) \in Nat \ {0} /\ k = Len(g) - 1 /\ \A i \in 1..k : Tail(g)[i] = g[i + 1]
  BY FileParts
<1>2. Len(f) \in Nat /\ f # <<>>
  <2>1. Len(f) \in Nat
    BY LenProperties DEF IsFile
  <2>2. Len(f) # 0
    BY <1>1, <2>1
  <2> QED BY <2>1, <2>2, EmptySeq DEF IsFile
<1>3. K = Len(f) - 1 /\ \A i \in 1..K : Tail(f)[i] = f[i + 1]
  BY <1>2, FileParts
<1>4. PICK t : Shows(t, Tail(f), K)
  BY <1>2 DEF FileSaved
<1> HIDE DEF k, K
<1>5. k \in Nat /\ k <= K /\ K \in Nat
  BY <1>1, <1>2, <1>3
<1>6. ASSUME NEW i \in 1..k PROVE Tail(g)[i] = Tail(f)[i]
  <2>1. i \in 1..K /\ i + 1 \in 2..Len(g)
    BY <1>1, <1>5
  <2> QED BY <1>1, <1>3, <2>1
<1>7. k <= Len(DfsOrder(t))
  <2>1. Len(DfsOrder(t)) \in Nat
    BY <1>4, DfsType DEF Shows, TreeKept
  <2> QED BY <1>4, <1>5, <2>1 DEF Shows
<1>8. \A i \in 1..k : NodeState(t, DfsOrder(t)[i]) = Tail(g)[i]
  <2>1. \A i \in 1..k : i \in 1..K
    BY <1>5
  <2> QED BY <1>4, <1>6, <2>1 DEF Shows
<1>9. Shows(t, Tail(g), k)
  BY <1>4, <1>5, <1>7, <1>8 DEF Shows
<1> QED BY <1>9 DEF k

LEMMA HeaderSaved ==
  ASSUME NEW t, TreeKept(t), NEW h \in Header
  PROVE  FileSaved(<<h>>)
<1>1. <<h>> \in Seq(Header \cup Record) /\ Len(<<h>>) = 1 /\ <<h>>[1] = h
  BY SeqOfOne
<1>2. IsFile(<<h>>)
  BY <1>1 DEF IsFile
<1>3. Len(Tail(<<h>>)) = 0
  <2>1. <<h>> # <<>>
    BY <1>1
  <2> QED BY <1>1, <1>2, <2>1, FileParts
<1>4. Len(DfsOrder(t)) \in Nat
  BY DfsType DEF TreeKept
<1>5. Shows(t, Tail(<<h>>), Len(Tail(<<h>>)))
  <2>1. 1..0 = {}
    OBVIOUS
  <2> QED BY <1>3, <1>4, <2>1 DEF Shows
<1> QED BY <1>5 DEF FileSaved

LEMMA TreeSaved ==
  ASSUME NEW t, TreeKept(t), NEW h \in Header
  PROVE  LET f == <<h>> \o NodeStates(t)
         IN  FileSaved(f) /\ f # <<>> /\ Len(Tail(f)) = Len(DfsOrder(t))
<1> DEFINE s == NodeStates(t)
           f == <<h>> \o s
           d == DfsOrder(t)
<1>1. /\ s \in Seq(Record) /\ Len(s) = Len(d) /\ Len(d) \in Nat
      /\ \A i \in 1..Len(d) : s[i] = NodeState(t, d[i])
  BY NodeStatesType, DfsType DEF TreeKept
<1> HIDE DEF s
<1>2. IsFile(f) /\ f # <<>> /\ Len(f) = Len(s) + 1 /\ \A i \in 2..(Len(s) + 1) : f[i] = s[i - 1]
  BY <1>1, FileFrom
<1> HIDE DEF f, d
<1>3. Len(Tail(f)) = Len(f) - 1 /\ \A i \in 1..Len(Tail(f)) : Tail(f)[i] = f[i + 1]
  BY <1>2, FileParts
<1>4. Len(Tail(f)) = Len(d)
  BY <1>1, <1>2, <1>3
<1>5. ASSUME NEW i \in 1..Len(d) PROVE NodeState(t, d[i]) = Tail(f)[i]
  <2>1. i \in 1..Len(Tail(f)) /\ i + 1 \in 2..(Len(s) + 1) /\ (i + 1) - 1 = i
    BY <1>1, <1>4
  <2> QED BY <1>1, <1>2, <1>3, <2>1
<1>6. Shows(t, Tail(f), Len(Tail(f)))
  BY <1>1, <1>4, <1>5 DEF Shows, d
<1>7. FileSaved(f)
  BY <1>6 DEF FileSaved
<1> QED BY <1>2, <1>4, <1>7 DEF f, s, d


FilesKept == FileSaved(file) /\ FileSaved(io.out)

LEMMA NoFileSaved == FileSaved(<<>>)
BY DEF FileSaved

LEMMA FilesStep ==
  ASSUME IInv, FilesKept, [Next]_vars
  PROVE  FilesKept'
<1>0. /\ io \in IoType /\ IoKept /\ IsFile(file) /\ IsFile(io.out) /\ header \in Header
      /\ TreeKept(tree) /\ FileSaved(file) /\ FileSaved(io.out)
  BY DEF IInv, IoKept, FilesKept
<1>1. ASSUME file' = file, io'.out = io.out PROVE FilesKept'
  BY <1>0, <1>1 DEF FilesKept
<1>2. ASSUME file' = file, io' = Idle PROVE FilesKept'
  BY <1>0, <1>2, NoFileSaved DEF FilesKept, Idle
<1>3. CASE UNCHANGED vars
  BY <1>1, <1>3 DEF vars, fileVars
<1>4. CASE Restart
  BY <1>2, <1>4 DEF Restart
<1>5. CASE (\E n \in Node \ tree.live, p \in Ids \cup {NULL} : CreateNode(n, p)) \/ \E x \in Ids : DeleteNode(x)
  BY <1>1, <1>5 DEF CreateNode, DeleteNode, fileVars
<1>6. CASE SaveOpen
  <2>1. file' = <<>> /\ io'.out = io.out
    BY <1>0, <1>6 DEF SaveOpen, IoType
  <2> QED BY <1>0, <2>1, NoFileSaved DEF FilesKept
<1>7. CASE SaveCount
  <2>1. file' = file /\ header' \in Header
    <3>1. Len(DfsOrder(tree)) \in Nat
      BY <1>0, DfsType DEF TreeKept
    <3> QED BY <1>0, <1>7, <3>1, HeaderKept DEF SaveCount
  <2>2. io'.out = <<header'>>
    <3>1. io' = [io EXCEPT !.pc = "nodes", !.out = <<header'>>]
      BY <1>7 DEF SaveCount
    <3> QED BY <1>0, <3>1 DEF IoType
  <2> QED BY <1>0, <2>1, <2>2, HeaderSaved DEF FilesKept
<1>8. CASE SaveNodes
  <2> DEFINE g == <<header>> \o NodeStates(tree)
  <2>1. file' = file /\ io.out = <<header>>
    BY <1>0, <1>8 DEF SaveNodes, IoKept, fileVars
  <2>2. io' = [io EXCEPT !.pc = "flush", !.out = g]
    BY <1>8, <2>1 DEF SaveNodes
  <2>3. FileSaved(g)
    BY <1>0, TreeSaved
  <2> HIDE DEF g
  <2>4. io'.out = g
    BY <1>0, <2>2 DEF IoType
  <2> QED BY <1>0, <2>1, <2>3, <2>4 DEF FilesKept
<1>9. CASE Flush
  <2>1. io.pc = "flush" /\ Len(file) < Len(io.out) /\ file' = Append(file, io.out[Len(file) + 1])
        /\ io' = io
    BY <1>9 DEF Flush
  <2>2. Prefix(file, io.out)
    BY <1>0, <2>1 DEF IoKept
  <2>3. IsFile(file') /\ Prefix(file', io.out)
    BY <1>0, <2>1, <2>2, FlushedIsFile
  <2>4. Len(file') <= Len(io.out) /\ \A i \in 2..Len(file') : file'[i] = io.out[i]
    BY <2>3 DEF Prefix
  <2>5. FileSaved(file')
    BY <1>0, <2>3, <2>4, PartSaved
  <2> QED BY <1>0, <2>1, <2>5 DEF FilesKept
<1>10. CASE SaveSeal
  <2>1. io.pc = "flush" /\ file = io.out
        /\ header' = [header EXCEPT !.checksum = calculate_checksum(<<>>)]
        /\ file' = [file EXCEPT ![1] = header'] /\ io' = Idle
    BY <1>10 DEF SaveSeal
  <2>2. header' = header /\ file # <<>>
    BY <1>0, <2>1, HeaderKept DEF IoKept
  <2>3. IsFile(file') /\ Len(file') = Len(file) /\ \A i \in 2..Len(file) : file'[i] = file[i]
    BY <1>0, <2>1, <2>2, SealedIsFile
  <2>4. Len(file') <= Len(file)
    BY <1>0, <2>2, <2>3, FileParts
  <2>5. FileSaved(file')
    BY <1>0, <2>3, <2>4, PartSaved
  <2>6. io'.out = <<>>
    BY <2>1 DEF Idle
  <2> QED BY <2>5, <2>6, NoFileSaved DEF FilesKept
<1>11. CASE LoadOpen
  <2>1. file' = file /\ io' = [io EXCEPT !.pc = "load", !.count = Head(file).node_count]
    BY <1>11 DEF LoadOpen
  <2>2. io'.out = io.out
    BY <1>0, <2>1 DEF IoType
  <2> QED BY <1>1, <2>1, <2>2
<1>12. ASSUME NEW n, LoadNode(n) PROVE FilesKept'
  <2>1. file' = file
        /\ \/ io' = [io EXCEPT !.pc = "name", !.node = n]
           \/ io' = [io EXCEPT !.done = @ + 1]
    BY <1>12 DEF LoadNode, fileVars
  <2>2. io'.out = io.out
    BY <1>0, <2>1 DEF IoType
  <2> QED BY <1>1, <2>1, <2>2
<1>13. CASE SkipRecord \/ LoadName
  <2>1. file' = file
        /\ \/ io' = [io EXCEPT !.done = @ + 1]
           \/ io' = [io EXCEPT !.pc = "load", !.done = @ + 1, !.node = NULL]
    BY <1>13 DEF SkipRecord, LoadName, fileVars
  <2>2. io'.out = io.out
    BY <1>0, <2>1 DEF IoType
  <2> QED BY <1>1, <2>1, <2>2
<1>14. CASE LoadEnd
  BY <1>2, <1>14 DEF LoadEnd, fileVars
<1> QED BY <1>3, <1>4, <1>5, <1>6, <1>7, <1>8, <1>9, <1>10, <1>11, <1>12, <1>13, <1>14
    DEF Next, state_save, state_load

-----------------------------------------------------------------------------
(* A file with at most as many nodes as the queue of a search has slots: others  *)
(* lose some, as MCTreeQueue.cfg shows.                                          *)
ShortFile == Len(file) <= MAX_QUEUE_SIZE + 1

LoadIsClean == quiet /\ ShortFile /\ DistinctIds(Tail(file))

LoadKept ==
  /\ io.pc = "load" /\ LoadIsClean =>
       Rebuilt(tree, Tail(file), io.done) /\ io.done <= Len(Tail(file))
  /\ io.pc = "name" /\ LoadIsClean =>
       /\ io.node \in tree.live
       /\ Rebuilt(Named(tree, io.node, NextRecord), Tail(file), io.done + 1)

(* What is known when the next record is read. *)
AtRecord(t, e, k) ==
  /\ e \in Seq(Record) /\ k \in Nat /\ k + 1 \in 1..Len(e) /\ k <= MAX_QUEUE_SIZE
  /\ Rebuilt(t, e, k)
  /\ DifferentIds(e, k + 1)
  /\ \E s : Shows(s, e, k + 1)

LEMMA RecordRead ==
  ASSUME NEW t, NEW e, NEW k, AtRecord(t, e, k), NEW n \in Node \ t.live, NEW x \in Id
  PROVE  LET T == tree_create_node(t, n, x, e[k + 1].parent_id)
         IN  n \in T.live /\ Rebuilt(Named(T, n, e[k + 1]), e, k + 1)
<1>1. e[k + 1] \in Record /\ k \in Nat /\ k <= MAX_QUEUE_SIZE /\ Rebuilt(t, e, k)
      /\ DifferentIds(e, k + 1)
  BY ElementOfSeq DEF AtRecord
<1>2. PICK s : Shows(s, e, k + 1)
  BY DEF AtRecord
<1>3. CASE k = 0
  <2>1. Places(s, e, 1, DfsOrder(s))
    BY <1>1, <1>2, <1>3, PlacesShown
  <2>2. 1 \in 1..1
    OBVIOUS
  <2>3. e[1].parent_id = NULL
        /\ e[1] = [id |-> e[1].id, parent_id |-> e[1].parent_id, is_root |-> e[1].is_root]
    BY <2>1, <2>2 DEF Places
  <2>4. k + 1 = 1
    BY <1>3
  <2> QED BY <1>1, <1>3, <2>3, <2>4, LoadFirst
<1>4. CASE k # 0
  BY <1>1, <1>2, <1>4, LoadNext
<1> QED BY <1>3, <1>4


LEMMA NothingInNothing == \A s \in Seq({}) : s = <<>>
<1> SUFFICES ASSUME NEW s \in Seq({}), s # <<>> PROVE FALSE
  OBVIOUS
<1>1. Len(s) \in Nat \ {0}
  BY EmptySeq
<1>2. 1 \in 1..Len(s)
  BY <1>1
<1> QED BY <1>2, ElementOfSeq


LEMMA AtNextRecord ==
  ASSUME IInv, FilesKept, LoadKept, io.pc = "load", LoadIsClean, MoreToLoad
  PROVE  AtRecord(tree, Tail(file), io.done) /\ NextRecord = Tail(file)[io.done + 1]
<1> DEFINE e == Tail(file)
           k == io.done
<1>1. io \in IoType /\ IoKept /\ IsFile(file) /\ file # <<>>
  BY DEF IInv, IoKept
<1>2. k \in Nat /\ k < Len(e) /\ Rebuilt(tree, e, k)
  BY <1>1 DEF LoadKept, MoreToLoad, IoType
<1>3. e \in Seq(Record) /\ Len(e) = Len(file) - 1 /\ Len(file) \in Nat
  BY <1>1, FileParts
<1>4. DistinctIds(e) /\ Len(file) <= MAX_QUEUE_SIZE + 1
  BY DEF LoadIsClean, ShortFile
<1>5. PICK s : Shows(s, e, Len(e))
  BY <1>1 DEF FilesKept, FileSaved
<1> HIDE DEF e, k
<1>6. Len(e) \in Nat /\ DOMAIN e = 1..Len(e)
  BY <1>3, LenProperties
<1>7. k + 1 \in Nat /\ k + 1 \in 1..Len(e) /\ k + 1 <= Len(e) /\ k <= MAX_QUEUE_SIZE
  BY <1>2, <1>3, <1>4, <1>6, TreeAssumption
<1>8. DifferentIds(e, k + 1)
  <2>1. \A i \in 1..(k + 1) : i \in DOMAIN e
    BY <1>6, <1>7
  <2> QED BY <1>4, <2>1 DEF DistinctIds, DifferentIds
<1>9. Shows(s, e, k + 1)
  <2>1. Len(DfsOrder(s)) \in Nat
    BY <1>5, DfsType DEF Shows, TreeKept
  <2>2. k + 1 <= Len(DfsOrder(s))
    BY <1>5, <1>6, <1>7, <2>1 DEF Shows
  <2>3. \A i \in 1..(k + 1) : i \in 1..Len(e)
    BY <1>6, <1>7
  <2> QED BY <1>5, <1>7, <2>2, <2>3 DEF Shows
<1>10. AtRecord(tree, e, k)
  BY <1>2, <1>3, <1>7, <1>8, <1>9 DEF AtRecord
<1> QED BY <1>10 DEF e, k, NextRecord

LEMMA LoadKeptElsewhere ==
  ASSUME io'.pc \notin {"load", "name"} \/ quiet' = FALSE
  PROVE  LoadKept'
BY DEF LoadKept, LoadIsClean

LEMMA LoadKeptStep ==
  ASSUME IInv, FilesKept, LoadKept, [Next]_vars
  PROVE  LoadKept'
<1>0. /\ io \in IoType /\ IoKept /\ IsFile(file) /\ TreeKept(tree)
      /\ io.pc \in Phase /\ io.done \in Nat
  BY DEF IInv, IoKept, IoType
<1>1. CASE UNCHANGED vars
  BY <1>1 DEF vars, treeVars, fileVars, ghostVars, LoadKept, LoadIsClean, ShortFile, NextRecord
<1>2. CASE Restart \/ LoadEnd \/ SaveSeal
  <2>1. io'.pc = "idle"
    BY <1>2 DEF Restart, LoadEnd, SaveSeal, Idle
  <2> QED BY <2>1, LoadKeptElsewhere
<1>3. CASE (\E n \in Node \ tree.live, p \in Ids \cup {NULL} : CreateNode(n, p)) \/ \E x \in Ids : DeleteNode(x)
  <2>1. quiet' = FALSE
    BY <1>3 DEF CreateNode, DeleteNode
  <2> QED BY <2>1, LoadKeptElsewhere
<1>4. CASE SaveOpen \/ SaveCount \/ SaveNodes \/ Flush
  <2>1. \/ io' = [io EXCEPT !.pc = "count"]
        \/ io' = [io EXCEPT !.pc = "nodes", !.out = <<header'>>]
        \/ io' = [io EXCEPT !.pc = "flush", !.out = @ \o NodeStates(tree)]
        \/ io' = io /\ io.pc = "flush"
    BY <1>4 DEF SaveOpen, SaveCount, SaveNodes, Flush
  <2>2. io'.pc \in {"count", "nodes", "flush"}
    BY <1>0, <2>1 DEF IoType
  <2> QED BY <2>2, LoadKeptElsewhere
<1>5. CASE LoadOpen
  <2>1. io.pc = "idle" /\ io' = [io EXCEPT !.pc = "load", !.count = Head(file).node_count]
        /\ file' = file /\ tree' = tree /\ quiet' = (tree.live = {})
    BY <1>5 DEF LoadOpen, treeVars
  <2>2. io'.pc = "load" /\ io'.done = 0
    BY <1>0, <2>1 DEF IoType, IoKept
  <2>3. ASSUME tree.live = {} PROVE Rebuilt(tree, Tail(file), 0)
    <3>1. DfsOrder(tree) \in Seq({}) /\ Len(DfsOrder(tree)) \in Nat
      BY <1>0, <2>3, DfsType DEF TreeKept
    <3>2. DfsOrder(tree) = <<>>
      BY <3>1, NothingInNothing
    <3>3. Len(<<>>) = 0 /\ Range(<<>>) = {}
      BY DEF Range
    <3>4. 1..0 = {}
      OBVIOUS
    <3> QED BY <1>0, <2>3, <3>2, <3>3, <3>4 DEF Rebuilt, Shows
  <2>4. 0 <= Len(Tail(file))
    <3>1. Len(Tail(file)) = Len(file) - 1 /\ Len(file) \in Nat \ {0}
      BY <1>0, <1>5, FileParts DEF LoadOpen
    <3> QED BY <3>1
  <2> QED BY <2>1, <2>2, <2>3, <2>4 DEF LoadKept, LoadIsClean
<1>6. ASSUME NEW n \in Node \ tree.live, LoadNode(n) PROVE LoadKept'
  <2>1. /\ io.pc = "load" /\ MoreToLoad /\ file' = file /\ quiet' = quiet
        /\ tree' = tree_create_node(tree, n, NewId, NextRecord.parent_id)
        /\ io' = IF n \in tree'.live THEN [io EXCEPT !.pc = "name", !.node = n]
                 ELSE [io EXCEPT !.done = @ + 1]
    BY <1>6 DEF LoadNode, fileVars, ghostVars
  <2> SUFFICES ASSUME LoadIsClean' PROVE LoadKept'
    BY DEF LoadKept
  <2>2. LoadIsClean
    BY <2>1 DEF LoadIsClean, ShortFile
  <2>3. AtRecord(tree, Tail(file), io.done) /\ NextRecord = Tail(file)[io.done + 1]
    BY <2>1, <2>2, AtNextRecord
  <2>4. NewId \in Id
    BY NewIdType
  <2>5. n \in tree'.live /\ Rebuilt(Named(tree', n, NextRecord), Tail(file), io.done + 1)
    BY <2>1, <2>3, <2>4, RecordRead
  <2>6. io' = [io EXCEPT !.pc = "name", !.node = n]
    BY <2>1, <2>5
  <2>7. io'.pc = "name" /\ io'.node = n /\ io'.done = io.done
    BY <1>0, <2>6 DEF IoType
  <2>8. NextRecord' = NextRecord
    BY <2>1, <2>7 DEF NextRecord
  <2> QED BY <2>1, <2>5, <2>7, <2>8 DEF LoadKept
<1>7. CASE SkipRecord
  <2>1. /\ io.pc = "load" /\ MoreToLoad /\ tree.live = Node /\ file' = file /\ quiet' = quiet
    BY <1>7 DEF SkipRecord, fileVars, ghostVars
  <2> SUFFICES ASSUME LoadIsClean' PROVE FALSE
    BY DEF LoadKept
  <2>2. LoadIsClean
    BY <2>1 DEF LoadIsClean, ShortFile
  <2>3. AtRecord(tree, Tail(file), io.done)
    BY <2>1, <2>2, AtNextRecord
  <2> QED BY <2>1, <2>3, AddressLeft DEF AtRecord
<1>8. CASE LoadName
  <2>1. /\ io.pc = "name" /\ file' = file /\ quiet' = quiet
        /\ io' = [io EXCEPT !.pc = "load", !.done = @ + 1, !.node = NULL]
        /\ tree' = (IF io.node \in tree.live THEN Named(tree, io.node, NextRecord) ELSE tree)
    BY <1>8 DEF LoadName, Named, fileVars, ghostVars
  <2> SUFFICES ASSUME LoadIsClean' PROVE LoadKept'
    BY DEF LoadKept
  <2>2. LoadIsClean
    BY <2>1 DEF LoadIsClean, ShortFile
  <2>3. io.node \in tree.live /\ Rebuilt(Named(tree, io.node, NextRecord), Tail(file), io.done + 1)
    BY <2>1, <2>2 DEF LoadKept
  <2>4. io'.pc = "load" /\ io'.done = io.done + 1
    <3> DEFINE k == io.done + 1
    <3>1. io' = [io EXCEPT !.pc = "load", !.done = k, !.node = NULL]
      BY <1>0, <2>1 DEF IoType
    <3> HIDE DEF k
    <3>2. io'.pc = "load" /\ io'.done = k
      BY <1>0, <3>1 DEF IoType
    <3> QED BY <3>2 DEF k
  <2>5. io.done + 1 <= Len(Tail(file))
    <3>1. io.done < Len(Tail(file)) /\ file # <<>>
      BY <1>0, <2>1 DEF IoKept, MoreToLoad
    <3>2. Len(Tail(file)) = Len(file) - 1 /\ Len(file) \in Nat
      BY <1>0, <3>1, FileParts
    <3> QED BY <1>0, <3>1, <3>2
  <2> QED BY <2>1, <2>3, <2>4, <2>5 DEF LoadKept
<1> QED BY <1>1, <1>2, <1>3, <1>4, <1>5, <1>6, <1>7, <1>8 DEF Next, state_save, state_load


-----------------------------------------------------------------------------
(* What the last undisturbed save wrote is in the file, all of it *)

SnapshotKept ==
  /\ io.pc = "nodes" /\ quiet => header.node_count = Len(DfsOrder(tree))
  /\ io.pc = "flush" /\ quiet => header.node_count = Len(Tail(io.out))
  /\ snapshot # NULL =>
       /\ io.pc \in {"idle", "load", "name"}
       /\ file # <<>> /\ snapshot = Tail(file) /\ Head(file).node_count = Len(Tail(file))

LEMMA SealedTail ==
  ASSUME NEW f, IsFile(f), f # <<>>, NEW h \in Header
  PROVE  LET g == [f EXCEPT ![1] = h]
         IN  g # <<>> /\ Head(g) = h /\ Tail(g) = Tail(f)
<1> DEFINE g == [f EXCEPT ![1] = h]
<1>1. IsFile(g) /\ Len(g) = Len(f) /\ g[1] = h /\ \A i \in 2..Len(f) : g[i] = f[i]
  BY SealedIsFile
<1>2. /\ Len(f) \in Nat \ {0}
      /\ Tail(f) \in Seq(Record) /\ Len(Tail(f)) = Len(f) - 1
      /\ \A i \in 1..Len(Tail(f)) : Tail(f)[i] = f[i + 1]
  BY FileParts
<1> HIDE DEF g
<1>3. g # <<>>
  <2>1. Len(g) # 0
    BY <1>1, <1>2
  <2> QED BY <2>1, EmptySeq
<1>4. /\ Head(g) = g[1]
      /\ Tail(g) \in Seq(Record) /\ Len(Tail(g)) = Len(g) - 1
      /\ \A i \in 1..Len(Tail(g)) : Tail(g)[i] = g[i + 1]
  BY <1>1, <1>3, FileParts
<1>5. ASSUME NEW i \in 1..Len(Tail(g)) PROVE Tail(g)[i] = Tail(f)[i]
  <2>1. i \in 1..Len(Tail(f)) /\ i + 1 \in 2..Len(f)
    BY <1>1, <1>2, <1>4
  <2> QED BY <1>1, <1>2, <1>4, <2>1
<1>6. Tail(g) = Tail(f)
  BY <1>1, <1>2, <1>4, <1>5, SeqEqual
<1> QED BY <1>1, <1>3, <1>4, <1>6 DEF g

LEMMA SnapshotStep ==
  ASSUME IInv, SnapshotKept, [Next]_vars
  PROVE  SnapshotKept'
<1>0. /\ io \in IoType /\ IoKept /\ IsFile(file) /\ IsFile(io.out) /\ TreeKept(tree)
      /\ header \in Header
  BY DEF IInv, IoKept
<1>1. CASE UNCHANGED vars
  BY <1>1 DEF vars, treeVars, fileVars, ghostVars, SnapshotKept
<1>2. CASE Restart \/ LoadEnd
  <2>1. io'.pc = "idle" /\ file' = file /\ snapshot' = snapshot
    BY <1>2 DEF Restart, LoadEnd, Idle, fileVars, ghostVars
  <2> QED BY <2>1 DEF SnapshotKept
<1>3. CASE (\E n \in Node \ tree.live, p \in Ids \cup {NULL} : CreateNode(n, p)) \/ \E x \in Ids : DeleteNode(x)
  <2>1. quiet' = FALSE /\ io' = io /\ file' = file /\ snapshot' = snapshot
    BY <1>3 DEF CreateNode, DeleteNode, fileVars
  <2> QED BY <2>1 DEF SnapshotKept
<1>4. CASE SaveOpen
  <2>1. io'.pc = "count" /\ snapshot' = NULL
    BY <1>0, <1>4 DEF SaveOpen, IoType
  <2> QED BY <2>1 DEF SnapshotKept
<1>5. CASE SaveCount
  <2>1. io.pc = "count" /\ tree' = tree /\ snapshot' = snapshot
        /\ header' = [header EXCEPT !.node_count = Len(DfsOrder(tree))]
    BY <1>5 DEF SaveCount, treeVars, ghostVars
  <2>2. io'.pc = "nodes"
    <3>1. io' = [io EXCEPT !.pc = "nodes", !.out = <<header'>>]
      BY <1>5 DEF SaveCount
    <3> QED BY <1>0, <3>1 DEF IoType
  <2>3. header'.node_count = Len(DfsOrder(tree))
    BY <1>0, <2>1 DEF Header
  <2>4. snapshot = NULL
    BY <2>1 DEF SnapshotKept
  <2> QED BY <2>1, <2>2, <2>3, <2>4 DEF SnapshotKept
<1>6. CASE SaveNodes
  <2> DEFINE g == <<header>> \o NodeStates(tree)
  <2>1. io.pc = "nodes" /\ header' = header /\ snapshot' = snapshot /\ quiet' = quiet
        /\ io.out = <<header>>
    BY <1>0, <1>6 DEF SaveNodes, IoKept, fileVars, ghostVars
  <2>2. io' = [io EXCEPT !.pc = "flush", !.out = g]
    BY <1>6, <2>1 DEF SaveNodes
  <2>3. Len(Tail(g)) = Len(DfsOrder(tree))
    BY <1>0, TreeSaved
  <2> HIDE DEF g
  <2>4. io'.pc = "flush" /\ io'.out = g
    BY <1>0, <2>2 DEF IoType
  <2>5. snapshot = NULL
    BY <2>1 DEF SnapshotKept
  <2> QED BY <2>1, <2>3, <2>4, <2>5 DEF SnapshotKept
<1>7. CASE Flush
  <2>1. io.pc = "flush" /\ io' = io /\ header' = header /\ snapshot' = snapshot /\ quiet' = quiet
    BY <1>7 DEF Flush, ghostVars
  <2>2. snapshot = NULL
    BY <2>1 DEF SnapshotKept
  <2> QED BY <2>1, <2>2 DEF SnapshotKept
<1>8. CASE SaveSeal
  <2>1. io.pc = "flush" /\ file = io.out
        /\ header' = [header EXCEPT !.checksum = calculate_checksum(<<>>)]
        /\ file' = [file EXCEPT ![1] = header'] /\ io' = Idle
        /\ snapshot' = IF quiet THEN Tail(file) ELSE NULL
    BY <1>8 DEF SaveSeal
  <2>2. header' = header /\ file # <<>>
    BY <1>0, <2>1, HeaderKept DEF IoKept
  <2>3. file' # <<>> /\ Head(file') = header /\ Tail(file') = Tail(file)
    BY <1>0, <2>1, <2>2, SealedTail
  <2>4. io'.pc = "idle"
    BY <2>1 DEF Idle
  <2>5. quiet => header.node_count = Len(Tail(file))
    BY <2>1 DEF SnapshotKept
  <2> QED BY <2>1, <2>3, <2>4, <2>5 DEF SnapshotKept
<1>9. CASE LoadOpen
  <2>1. file' = file /\ snapshot' = snapshot /\ io.pc = "idle"
        /\ io' = [io EXCEPT !.pc = "load", !.count = Head(file).node_count]
    BY <1>9 DEF LoadOpen
  <2>2. io'.pc = "load"
    BY <1>0, <2>1 DEF IoType
  <2> QED BY <2>1, <2>2 DEF SnapshotKept
<1>10. CASE (\E n \in Node \ tree.live : LoadNode(n)) \/ SkipRecord \/ LoadName
  <2>1. file' = file /\ snapshot' = snapshot
    BY <1>10 DEF LoadNode, SkipRecord, LoadName, fileVars, ghostVars
  <2>2. io'.pc \in {"load", "name"}
    <3>1. \/ \E n : io' = [io EXCEPT !.pc = "name", !.node = n]
          \/ io.pc = "load" /\ io' = [io EXCEPT !.done = @ + 1]
          \/ io' = [io EXCEPT !.pc = "load", !.done = @ + 1, !.node = NULL]
      BY <1>10 DEF LoadNode, SkipRecord, LoadName
    <3> QED BY <1>0, <3>1 DEF IoType
  <2> QED BY <2>1, <2>2 DEF SnapshotKept
<1> QED BY <1>1, <1>2, <1>3, <1>4, <1>5, <1>6, <1>7, <1>8, <1>9, <1>10
    DEF Next, state_save, state_load

-----------------------------------------------------------------------------
(* Saved and loaded *)

KeptInv == IInv /\ FilesKept /\ LoadKept /\ SnapshotKept

THEOREM KeptInvariance == Spec => []KeptInv
<1>1. Init => KeptInv
  <2> SUFFICES ASSUME Init PROVE KeptInv
    OBVIOUS
  <2>1. file = <<>> /\ io.pc = "idle" /\ io.out = <<>> /\ snapshot = NULL
    BY DEF Init, Idle
  <2> QED BY <2>1, InitEstablishes, NoFileSaved DEF KeptInv, FilesKept, LoadKept, SnapshotKept
<1>2. KeptInv /\ [Next]_vars => KeptInv'
  BY StepPreserves, FilesStep, LoadKeptStep, SnapshotStep DEF KeptInv
<1> QED BY <1>1, <1>2, PTL DEF Spec

(* What is rebuilt when a load has read so far. *)
LEMMA LoadedSoFar ==
  ASSUME KeptInv, io.pc = "load", LoadIsClean
  PROVE  /\ NodeStates(tree) = SubSeq(Tail(file), 1, io.done)
         /\ Tail(file) \in Seq(Record) /\ io.done <= io.count /\ io.done \in Nat
         /\ io.count = Head(file).node_count /\ file # <<>> /\ io.done <= Len(Tail(file))
<1>1. io \in IoType /\ IoKept /\ IsFile(file) /\ file # <<>> /\ Rebuilt(tree, Tail(file), io.done)
  BY DEF KeptInv, IInv, IoKept, LoadKept
<1>2. io.done \in Nat /\ io.count = Head(file).node_count /\ io.done <= io.count
  BY <1>1 DEF IoKept, IoType
<1>3. Tail(file) \in Seq(Record)
  BY <1>1, FileParts
<1>4. io.done <= Len(Tail(file))
  BY <1>1 DEF KeptInv, LoadKept
<1> QED BY <1>1, <1>2, <1>3, <1>4, RebuiltStates

(* A load into an empty tree, while no other thread uses the tree, has at every  *)
(* record built exactly the tree that was saved, of any file a save or a crash   *)
(* has left that is no longer than the queue of a search (load_node).            *)
THEOREM LoadAlwaysRebuilds == Spec => [](ShortFile => LoadRebuilds)
<1>1. KeptInv => (ShortFile => LoadRebuilds)
  <2> SUFFICES ASSUME KeptInv, ShortFile, quiet, io.pc = "load", DistinctIds(Tail(file))
               PROVE  NodeStates(tree) = SubSeq(Tail(file), 1, io.done)
    BY DEF LoadRebuilds
  <2> QED BY LoadedSoFar DEF LoadIsClean
<1> QED BY <1>1, KeptInvariance, PTL

(* What a save wrote undisturbed comes back whole when the next process, or any  *)
(* later one, loads it undisturbed (state_save, state_load).                     *)
THEOREM SavedComesBack == Spec /\ []ShortFile => SavedIsRestored
<1> DEFINE Restored ==
      LoadEnd /\ quiet /\ snapshot # NULL /\ DistinctIds(snapshot) => NodeStates(tree') = snapshot
<1>1. ASSUME KeptInv, ShortFile, LoadEnd, quiet, snapshot # NULL, DistinctIds(snapshot)
      PROVE  NodeStates(tree') = snapshot
  <2>1. io.pc = "load" /\ ~MoreToLoad /\ tree' = tree
    BY <1>1 DEF LoadEnd, treeVars
  <2> DEFINE e == Tail(file)
             l == Len(e)
  <2>2. snapshot = e /\ Head(file).node_count = l
    BY <1>1 DEF KeptInv, SnapshotKept
  <2>3. /\ NodeStates(tree) = SubSeq(e, 1, io.done)
        /\ e \in Seq(Record) /\ io.done <= io.count /\ io.done \in Nat
        /\ io.count = Head(file).node_count /\ io.done <= l
    BY <1>1, <2>1, <2>2, LoadedSoFar DEF LoadIsClean
  <2>4. ~(io.done < io.count /\ io.done < l)
    BY <2>1 DEF MoreToLoad
  <2> HIDE DEF e
  <2>5. l \in Nat
    BY <2>3, LenProperties
  <2>6. io.done = l
    BY <2>2, <2>3, <2>4, <2>5
  <2>7. SubSeq(e, 1, l) = e
    BY <2>3, SubSeqFull
  <2> QED BY <2>1, <2>2, <2>3, <2>6, <2>7
<1>2. KeptInv /\ ShortFile /\ [Next]_vars => [Restored]_vars
  BY <1>1
<1> QED BY <1>2, KeptInvariance, PTL DEF Spec, SavedIsRestored

(* Files are that short when no more nodes than that fit into memory, for every  *)
(* file is the first nodes of some tree: what a save wrote comes back.           *)
FewNodes == IsFiniteSet(Node) /\ Cardinality(Node) <= MAX_QUEUE_SIZE

THEOREM FewNodesComeBack ==
  FewNodes => (Spec => []LoadRebuilds /\ SavedIsRestored)
<1> SUFFICES ASSUME FewNodes PROVE Spec => []LoadRebuilds /\ SavedIsRestored
  OBVIOUS
<1>1. KeptInv => ShortFile
  <2> SUFFICES ASSUME IsFile(file), FileSaved(file), file # <<>> PROVE ShortFile
    <3>1. Len(<<>>) = 0 /\ MAX_QUEUE_SIZE \in Nat
      BY EmptySeq, TreeAssumption
    <3>2. file = <<>> => ShortFile
      BY <3>1 DEF ShortFile
    <3> QED BY <3>2 DEF KeptInv, IInv, FilesKept
  <2> DEFINE l == Len(Tail(file))
  <2>1. PICK t : Shows(t, Tail(file), l)
    BY DEF FileSaved
  <2> DEFINE d == DfsOrder(t)
  <2>2. Sound(t) /\ l \in Nat /\ l <= Len(d)
    BY <2>1 DEF Shows, TreeKept
  <2>3. d \in Seq(t.live) /\ t.live \subseteq Node
    BY <2>2, DfsType DEF Sound, TreeType
  <2>4. Distinct(d) /\ Range(d) = Linked(t)
    BY <2>2, DfsVisits
  <2> HIDE DEF d
  <2>5. Len(d) \in Nat /\ Cardinality(Range(d)) = Len(d) /\ Range(d) \subseteq Node
    BY <2>3, <2>4, DistinctCounts DEF Linked
  <2>6. Cardinality(Range(d)) <= Cardinality(Node) /\ Cardinality(Node) \in Nat
    BY <2>5, FS_Subset, FS_CardinalityType DEF FewNodes
  <2>7. Len(file) \in Nat /\ l = Len(file) - 1
    BY FileParts, LenProperties DEF IsFile
  <2> HIDE DEF l
  <2> QED BY <2>2, <2>5, <2>6, <2>7, TreeAssumption DEF ShortFile, FewNodes
<1> QED BY <1>1, KeptInvariance, LoadAlwaysRebuilds, SavedComesBack, PTL

=============================================================================
