-------------------------- MODULE TreeHandlersProofs --------------------------
(***************************************************************************)
(* Proofs about TreeHandlers, for every set of threads and addresses.      *)
(***************************************************************************)
EXTENDS TreeHandlers, TreeOpsProofs

Op == {"none", "created", "deleted", "data", "command"}
Place == {"idle", "source", "target", "act", "delete", "tell"}
SearchPlace == {"none", "root", "pop", "push", "torn", "over"}

Activity ==
  [op : Op, at : Place, want : Nat \cup {NULL}, to : Nat \cup {NULL},
   src : Node \cup {NULL}, dst : Node \cup {NULL}, new : Node \cup {NULL},
   did : Nat \cup {NULL, JUNK}]

Locals ==
  [at : SearchPlace, queue : Seq(Node \cup {NULL}), node : Node \cup {NULL},
   slot : Nat, there : BOOLEAN]

(* What the calls of the tree preserve. *)
TreeGood ==
  /\ Sound(tree) /\ CountExact(tree)
  /\ counter \in Nat
  /\ \A n \in tree.live : tree.id[n] \in 0..(counter - 1)
  /\ \A m, n \in tree.live : tree.id[m] = tree.id[n] => m = n

Remainders == remains \in [Node -> Nat \cup {JUNK}]
Ends == crashed \in {"no", "search", "target", "data"}

(* Which pointers a handler has at which point, and when it is in a search. *)
Shape(t) ==
  /\ doing[t].at # "tell" => doing[t].new = NULL
  /\ doing[t].at \in {"act", "delete"} => doing[t].src # NULL
  /\ doing[t].at = "tell" =>
       IF doing[t].op = "deleted" THEN doing[t].src # NULL /\ doing[t].new = NULL
                                  ELSE doing[t].new # NULL
  /\ doing[t].at = "delete" => doing[t].op = "deleted"
  /\ doing[t].at = "source" => doing[t].src = NULL
  /\ doing[t].at \in {"source", "target"} => doing[t].dst = NULL
  /\ doing[t].at = "target" /\ doing[t].to = NULL => search[t].at = "none"
  /\ doing[t].at \notin {"source", "target"} => search[t].at = "none"
  /\ search[t].at = "none" => search[t].node = NULL
  /\ search[t].at \in {"push", "torn"} => search[t].slot >= 1

(* HoldsWhatItFound for one thread, and what the loop of its search rests on: *)
(* nothing but nodes of the tree in the queue.                                *)
Holds(t) ==
  /\ search[t].at = "over" /\ search[t].node # NULL =>
       search[t].node \in tree.live /\ tree.id[search[t].node] = Sought(t)
  /\ doing[t].src # NULL /\ doing[t].at # "tell" =>
       doing[t].src \in tree.live /\ tree.id[doing[t].src] = doing[t].want
  /\ doing[t].dst # NULL /\ doing[t].at # "tell" =>
       doing[t].dst \in tree.live /\ tree.id[doing[t].dst] = doing[t].to
  /\ doing[t].new # NULL =>
       doing[t].new \in tree.live /\ tree.id[doing[t].new] = doing[t].did

OnTheTree(t) ==
  /\ search[t].at # "torn"
  /\ search[t].at = "root" => tree.root # NULL
  /\ search[t].at # "none" => search[t].queue \in Seq(tree.live)
  /\ search[t].at = "push" => search[t].node \in tree.live

Threads ==
  /\ doing \in [Thread -> Activity] /\ search \in [Thread -> Locals]
  /\ disturbed \subseteq Thread
  /\ \A t \in Thread : Shape(t)
  /\ \A t \in Thread : t \notin disturbed => Holds(t) /\ OnTheTree(t)

IInv == TreeGood /\ Remainders /\ Ends /\ Threads

-----------------------------------------------------------------------------
(* The calls of the tree *)

LEMMA CreateGood ==
  ASSUME TreeGood, NEW n \in Node, NEW p, Create(n, p)
  PROVE  /\ TreeGood'
         /\ n \notin tree.live
         /\ tree.live \subseteq tree'.live
         /\ \A m \in tree.live : tree'.id[m] = tree.id[m]
         /\ n \in tree'.live => tree'.id[n] = counter
         /\ n \in tree'.live /\ tree.root # NULL =>
              /\ tree_find_node(tree, p) \in tree.live
              /\ tree'.parent[n] = tree_find_node(tree, p)
         /\ n \in tree'.live /\ tree.root = NULL => tree'.parent[n] = NULL
         /\ n \notin tree'.live => tree' = tree
         /\ tree.root # NULL => tree'.root # NULL
<1>1. n \in Node \ tree.live /\ counter' = counter + 1 /\ tree' = tree_create_node(tree, n, counter, p)
  BY DEF Create
<1>2. Sound(tree) /\ CountExact(tree) /\ counter \in Nat
  BY DEF TreeGood
<1>3. CASE tree' = tree
  BY <1>1, <1>2, <1>3 DEF TreeGood
<1>4. ASSUME NEW q \in tree.live \cup {NULL},
             /\ q = NULL => tree.root = NULL
             /\ q # NULL => HasRoom(tree, q)
             /\ tree' = AttachNode(tree, n, counter, q)
      PROVE  /\ TreeGood' /\ tree'.live = tree.live \cup {n}
             /\ \A m \in tree.live : tree'.id[m] = tree.id[m]
             /\ tree'.id[n] = counter
  <2>1. /\ tree'.live = tree.live \cup {n}
        /\ tree'.id = [m \in tree.live \cup {n} |-> IF m = n THEN counter ELSE tree.id[m]]
    BY <1>4 DEF AttachNode
  <2>2. Sound(tree') /\ CountExact(tree')
    BY <1>1, <1>2, <1>4, AttachSound, AttachCounts
  <2>3. /\ tree'.id[n] = counter
        /\ \A m \in tree.live : tree'.id[m] = tree.id[m]
    BY <1>1, <2>1
  <2>4. \A m \in tree'.live : tree'.id[m] \in 0..(counter' - 1)
    BY <1>1, <1>2, <2>1, <2>3 DEF TreeGood
  <2>5. \A m, k \in tree'.live : tree'.id[m] = tree'.id[k] => m = k
    BY <1>1, <1>2, <2>1, <2>3 DEF TreeGood
  <2> QED BY <1>1, <1>2, <2>1, <2>2, <2>3, <2>4, <2>5 DEF TreeGood
<1>5. ASSUME n \in tree'.live
      PROVE  /\ tree.root = NULL => tree'.parent[n] = NULL
             /\ tree.root # NULL =>
                  /\ tree_find_node(tree, p) \in tree.live
                  /\ tree'.parent[n] = tree_find_node(tree, p)
  <2> DEFINE q == tree_find_node(tree, p)
  <2>1. tree' # tree
    BY <1>1, <1>5
  <2>2. \A r : AttachNode(tree, n, counter, r).parent[n] = r
    BY DEF AttachNode
  <2>3. q \in tree.live \cup {NULL}
    BY FoundIsLive
  <2> HIDE DEF q
  <2>4. CASE tree.root = NULL
    BY <1>1, <2>2, <2>4 DEF tree_create_node
  <2>5. CASE tree.root # NULL
    BY <1>1, <2>1, <2>2, <2>3, <2>5 DEF tree_create_node, q
  <2> QED BY <2>4, <2>5 DEF q
<1>6. /\ TreeGood' /\ tree.live \subseteq tree'.live
      /\ \A m \in tree.live : tree'.id[m] = tree.id[m]
      /\ n \in tree'.live => tree'.id[n] = counter
  <2>1. CASE tree' = tree
    BY <1>1, <1>3, <2>1
  <2>2. CASE tree' # tree
    <3>1. PICK q \in tree.live \cup {NULL} :
            /\ q = NULL => tree.root = NULL
            /\ q # NULL => HasRoom(tree, q)
            /\ tree' = AttachNode(tree, n, counter, q)
      BY <1>1, <1>2, <2>2, CreateAttaches
    <3>2. /\ TreeGood' /\ tree'.live = tree.live \cup {n}
          /\ \A m \in tree.live : tree'.id[m] = tree.id[m]
          /\ tree'.id[n] = counter
      BY <1>4, <3>1
    <3> QED BY <3>2
  <2> QED BY <2>1, <2>2
<1>7. /\ n \notin tree'.live => tree' = tree
      /\ tree.root # NULL => tree'.root # NULL
  <2>1. \A r : /\ n \in AttachNode(tree, n, counter, r).live
              /\ AttachNode(tree, n, counter, r).root = IF r = NULL THEN n ELSE tree.root
    BY DEF AttachNode
  <2>2. tree' = tree \/ \E r : tree' = AttachNode(tree, n, counter, r)
    BY <1>1 DEF tree_create_node
  <2> QED BY <1>1, <2>1, <2>2, TreeAssumption
<1> QED BY <1>1, <1>5, <1>6, <1>7

LEMMA DeleteGood ==
  ASSUME TreeGood, NEW t \in Thread, NEW x, Delete(t, x), counter' = counter
  PROVE  /\ TreeGood'
         /\ tree_find_node(tree, x) = NULL => tree' = tree
         /\ tree'.live \subseteq tree.live
         /\ \A m \in tree'.live : tree'.id[m] = tree.id[m]
         /\ tree_find_node(tree, x) # NULL =>
              /\ tree_find_node(tree, x) \in tree.live
              /\ tree.id[tree_find_node(tree, x)] = x
              /\ tree.live \ tree'.live = {tree_find_node(tree, x)}
<1> DEFINE n == tree_find_node(tree, x)
<1>1. tree' = tree_delete_node(tree, x)
  BY DEF Delete
<1>2. n = NULL \/ (n \in tree.live /\ tree.id[n] = x)
  BY FoundIsLive
<1>3. tree' = IF n = NULL THEN tree ELSE DetachNode(tree, n)
  BY <1>1 DEF tree_delete_node
<1> HIDE DEF n
<1>4. CASE n = NULL
  BY <1>3, <1>4 DEF TreeGood, n
<1>5. CASE n # NULL
  <2>1. n \in tree.live /\ tree.id[n] = x /\ tree' = DetachNode(tree, n)
    BY <1>2, <1>3, <1>5
  <2>2. /\ tree'.live = tree.live \ {n}
        /\ tree'.id = [m \in tree.live \ {n} |-> tree.id[m]]
    BY <2>1 DEF DetachNode
  <2>3. Sound(tree') /\ CountExact(tree')
    BY <2>1, DetachSound, DetachCounts DEF TreeGood
  <2>4. tree.live \ tree'.live = {n}
    BY <2>1, <2>2
  <2> QED BY <1>5, <2>1, <2>2, <2>3, <2>4 DEF TreeGood, n
<1> QED BY <1>4, <1>5

-----------------------------------------------------------------------------
(* What one step does to the threads *)

LEMMA HoldsEach == HoldsWhatItFound <=> \A t \in Thread \ disturbed : Holds(t)
BY DEF HoldsWhatItFound, Holds

LEMMA NothingHeld ==
  /\ Nothing \in Activity
  /\ Nothing.op = "none" /\ Nothing.at = "idle"
  /\ Nothing.src = NULL /\ Nothing.dst = NULL /\ Nothing.new = NULL
<1>1. "none" \in Op /\ "idle" \in Place
  BY DEF Op, Place
<1>2. Nothing \in Activity
  BY <1>1 DEF Nothing, Activity
<1> QED BY <1>2 DEF Nothing

LEMMA NoSearchIsLocal ==
  /\ NoSearch \in Locals /\ NoSearch.at = "none" /\ NoSearch.node = NULL
  /\ NoSearch.queue = <<>> /\ NoSearch.slot = 0 /\ NoSearch.there = FALSE
<1>1. "none" \in SearchPlace /\ <<>> \in Seq(Node \cup {NULL})
  BY DEF SearchPlace
<1>2. NoSearch \in Locals
  BY <1>1 DEF NoSearch, Locals
<1> QED BY <1>2 DEF NoSearch

(* A step of t that leaves the tree alone is enough to look at for t. *)
LEMMA QuietStep ==
  ASSUME Threads, NEW t \in Thread, NEW a \in Activity, NEW s \in Locals,
         doing' = [doing EXCEPT ![t] = a], search' = [search EXCEPT ![t] = s],
         tree' = tree,
         disturbed' = disturbed \/ disturbed' = disturbed \ {t},
         Shape(t)', t \notin disturbed' => Holds(t)' /\ OnTheTree(t)'
  PROVE  Threads'
<1>0. /\ doing \in [Thread -> Activity] /\ search \in [Thread -> Locals]
      /\ disturbed \subseteq Thread
  BY DEF Threads
<1>1. doing' \in [Thread -> Activity] /\ search' \in [Thread -> Locals]
      /\ disturbed' \subseteq Thread
  BY <1>0
<1>2. ASSUME NEW u \in Thread, u # t
      PROVE  Shape(u)' /\ (u \notin disturbed' => Holds(u)' /\ OnTheTree(u)')
  <2>1. doing'[u] = doing[u] /\ search'[u] = search[u]
    BY <1>0, <1>2
  <2>2. Shape(u)'
    BY <2>1 DEF Threads, Shape
  <2>3. ASSUME u \notin disturbed' PROVE Holds(u)' /\ OnTheTree(u)'
    <3>1. Holds(u) /\ OnTheTree(u)
      BY <1>2, <2>3 DEF Threads
    <3>2. Sought(u)' = Sought(u)
      BY <2>1 DEF Sought
    <3> QED BY <2>1, <3>1, <3>2 DEF Holds, OnTheTree
  <2> QED BY <2>2, <2>3
<1> QED BY <1>1, <1>2 DEF Threads

(* A handler that returns holds nothing. *)
LEMMA ReturnStep ==
  ASSUME Threads, NEW t \in Thread, Return(t), tree' = tree
  PROVE  Threads'
<1>1. /\ doing' = [doing EXCEPT ![t] = Nothing] /\ search' = [search EXCEPT ![t] = NoSearch]
      /\ disturbed' = disturbed \ {t}
  BY DEF Return
<1>2. doing'[t] = Nothing /\ search'[t] = NoSearch
  BY <1>1 DEF Threads
<1>3. Shape(t)'
  BY <1>2, NothingHeld, NoSearchIsLocal DEF Shape
<1>4. Holds(t)' /\ OnTheTree(t)'
  BY <1>2, NothingHeld, NoSearchIsLocal DEF Holds, OnTheTree
<1> QED BY <1>1, <1>3, <1>4, NothingHeld, NoSearchIsLocal, QuietStep

(* A search as another thread's change of the tree leaves it. *)
LEMMA MetSearch ==
  ASSUME Threads, NEW t \in Thread, MeetSearches(t)
  PROVE  /\ search' \in [Thread -> Locals]
         /\ disturbed' \subseteq Thread /\ disturbed \subseteq disturbed'
         /\ t \in disturbed' => t \in disturbed
         /\ \A u \in Thread :
              /\ search'[u].queue = search[u].queue /\ search'[u].node = search[u].node
              /\ search'[u].slot = search[u].slot
              /\ \/ search'[u].at = search[u].at
                 \/ u \in disturbed' /\ u # t /\ search[u].at = "push" /\ search'[u].at = "torn"
         /\ \A u \in Thread : u \notin disturbed' /\ u # t =>
              /\ search[u].at # "none" => tree.live \subseteq tree'.live
              /\ Held(u) \cap (tree.live \ tree'.live) = {}
<1> DEFINE gone == tree.live \ tree'.live
<1>1. PICK S \in SUBSET Racing(t) :
        /\ search' = [u \in Thread |-> [search[u] EXCEPT
             !.at = IF u \in S THEN "torn" ELSE @,
             !.there = @ /\ tree_find_node(tree', Sought(u)) # NULL]]
        /\ disturbed' = disturbed \cup S \cup
             {u \in Thread \ {t} : \/ gone # {} /\ search[u].at # "none"
                                   \/ Held(u) \cap gone # {}}
  BY DEF MeetSearches
<1>2. \A u \in S : u \in Thread /\ u # t /\ search[u].at = "push"
  BY <1>1 DEF Racing
<1>3. ASSUME NEW u \in Thread
      PROVE  /\ search'[u] \in Locals
             /\ search'[u].queue = search[u].queue /\ search'[u].node = search[u].node
             /\ search'[u].slot = search[u].slot
             /\ search'[u].at = IF u \in S THEN "torn" ELSE search[u].at
  <2> DEFINE p == IF u \in S THEN "torn" ELSE search[u].at
             b == search[u].there /\ tree_find_node(tree', Sought(u)) # NULL
  <2>1. search[u] \in Locals
    BY DEF Threads
  <2>2. p \in SearchPlace /\ b \in BOOLEAN
    BY <2>1 DEF Locals, SearchPlace
  <2>3. search'[u] = [search[u] EXCEPT !.at = p, !.there = b]
    BY <1>1
  <2> HIDE DEF p, b
  <2>4. /\ [search[u] EXCEPT !.at = p, !.there = b] \in Locals
        /\ [search[u] EXCEPT !.at = p, !.there = b].at = p
        /\ [search[u] EXCEPT !.at = p, !.there = b].queue = search[u].queue
        /\ [search[u] EXCEPT !.at = p, !.there = b].node = search[u].node
        /\ [search[u] EXCEPT !.at = p, !.there = b].slot = search[u].slot
    BY <2>1, <2>2 DEF Locals
  <2> QED BY <2>3, <2>4 DEF p
<1>4. search' \in [Thread -> Locals]
  <2>1. DOMAIN search' = Thread /\ search' = [u \in Thread |-> search'[u]]
    BY <1>1
  <2> QED BY <1>3, <2>1
<1>5. \A u \in Thread : u \notin disturbed' /\ u # t =>
        (search[u].at # "none" => gone = {}) /\ Held(u) \cap gone = {}
  BY <1>1
<1>6. disturbed' \subseteq Thread /\ disturbed \subseteq disturbed' /\ S \subseteq disturbed'
      /\ (t \in disturbed' => t \in disturbed)
  BY <1>1, <1>2 DEF Threads
<1> QED BY <1>2, <1>3, <1>4, <1>5, <1>6

(* A step of t that changes the tree: what is left to look at is what t holds. *)
LEMMA MeetingStep ==
  ASSUME Threads, NEW t \in Thread, MeetSearches(t), NEW a \in Activity,
         doing' = [doing EXCEPT ![t] = a], search[t].at = "none",
         tree.live \subseteq tree'.live /\ tree.root # NULL => tree'.root # NULL,
         \A m \in tree.live \cap tree'.live : tree'.id[m] = tree.id[m],
         Shape(t)', t \notin disturbed => Holds(t)'
  PROVE  Threads'
<1>0. doing \in [Thread -> Activity] /\ doing' \in [Thread -> Activity]
  BY DEF Threads
<1>1. /\ search' \in [Thread -> Locals]
      /\ disturbed' \subseteq Thread /\ disturbed \subseteq disturbed'
      /\ t \in disturbed' => t \in disturbed
  BY MetSearch
<1>2. ASSUME NEW u \in Thread
      PROVE  /\ search'[u].queue = search[u].queue /\ search'[u].node = search[u].node
             /\ search'[u].slot = search[u].slot
             /\ \/ search'[u].at = search[u].at
                \/ u \in disturbed' /\ u # t /\ search[u].at = "push" /\ search'[u].at = "torn"
  BY MetSearch
<1>3. ASSUME NEW u \in Thread, u \notin disturbed', u # t
      PROVE  /\ search[u].at # "none" => tree.live \subseteq tree'.live
             /\ Held(u) \cap (tree.live \ tree'.live) = {}
  BY <1>3, MetSearch
<1>4. OnTheTree(t)'
  BY <1>2 DEF OnTheTree
<1>5. ASSUME NEW u \in Thread, u # t
      PROVE  Shape(u)' /\ (u \notin disturbed' => Holds(u)' /\ OnTheTree(u)')
  <2>1. doing'[u] = doing[u] /\ Shape(u)
    BY <1>0, <1>5 DEF Threads
  <2>2. Shape(u)'
    BY <1>2, <2>1 DEF Shape
  <2>3. ASSUME u \notin disturbed' PROVE Holds(u)' /\ OnTheTree(u)'
    <3>1. Holds(u) /\ OnTheTree(u) /\ search'[u].at = search[u].at
      BY <1>1, <1>2, <2>3 DEF Threads
    <3>2. Sought(u)' = Sought(u)
      BY <2>1 DEF Sought
    <3>3. ASSUME NEW m \in tree.live, m \in Held(u) \/ search[u].at # "none"
          PROVE  m \in tree'.live /\ tree'.id[m] = tree.id[m]
      BY <1>3, <1>5, <2>3, <3>3
    <3>4. Holds(u)'
      BY <1>2, <2>1, <3>1, <3>2, <3>3 DEF Holds, Held
    <3>5. search[u].at # "none" /\ search[u].queue \in Seq(tree.live) => search[u].queue \in Seq(tree'.live)
      <4>1. CASE search[u].at = "none"
        BY <4>1
      <4>2. CASE search[u].at # "none"
        BY <1>3, <1>5, <2>3, <4>2
      <4> QED BY <4>1, <4>2
    <3>6. OnTheTree(u)'
      BY <1>2, <1>3, <1>5, <2>3, <3>1, <3>3, <3>5 DEF OnTheTree
    <3> QED BY <3>4, <3>6
  <2> QED BY <2>2, <2>3
<1> QED BY <1>0, <1>1, <1>4, <1>5 DEF Threads

-----------------------------------------------------------------------------
(* The steps of a search *)

(* What thread t does in a search is a quiet step of its locals. *)
LEMMA SearchingStep ==
  ASSUME Threads, NEW t \in Thread, NEW s \in Locals, Go(t, s),
         search[t].at \notin {"none", "over"}, s.at # "none",
         s.at \in {"push", "torn"} => s.slot >= 1,
         t \notin disturbed =>
           /\ s.at = "over" /\ s.node # NULL => s.node \in tree.live /\ tree.id[s.node] = Sought(t)
           /\ s.at # "torn" /\ s.queue \in Seq(tree.live)
           /\ s.at = "root" => tree.root # NULL
           /\ s.at = "push" => s.node \in tree.live
  PROVE  Threads'
<1>0. /\ doing \in [Thread -> Activity] /\ search \in [Thread -> Locals] /\ Shape(t)
      /\ t \notin disturbed => Holds(t)
  BY DEF Threads
<1>1. /\ search' = [search EXCEPT ![t] = s] /\ tree' = tree /\ doing' = doing
      /\ disturbed' = disturbed
  BY DEF Go, memory
<1>2. doing' = [doing EXCEPT ![t] = doing[t]] /\ doing[t] \in Activity
  BY <1>0, <1>1
<1>3. search'[t] = s
  BY <1>0, <1>1
<1>4. Shape(t)'
  BY <1>0, <1>1, <1>3 DEF Shape
<1>5. Sought(t)' = Sought(t)
  BY <1>1 DEF Sought
<1>6. ASSUME t \notin disturbed PROVE Holds(t)' /\ OnTheTree(t)'
  <2>1. Holds(t)'
    BY <1>0, <1>1, <1>3, <1>5, <1>6 DEF Holds
  <2>2. OnTheTree(t)'
    BY <1>1, <1>3, <1>6 DEF OnTheTree
  <2> QED BY <2>1, <2>2
<1> QED BY <1>1, <1>2, <1>4, <1>6, QuietStep

(* Queues of one pointer, and what is left of a longer one. *)
LEMMA OneQueued ==
  ASSUME NEW T, NEW x \in T
  PROVE  <<x>> \in Seq(T)
OBVIOUS

LEMMA FirstOf ==
  ASSUME NEW T, NEW q \in Seq(T), q # <<>>
  PROVE  Head(q) \in T /\ Tail(q) \in Seq(T)
OBVIOUS

LEMMA LocalsOf ==
  ASSUME NEW s \in Locals
  PROVE  /\ s.at \in SearchPlace /\ s.queue \in Seq(Node \cup {NULL}) /\ s.node \in Node \cup {NULL}
         /\ s.slot \in Nat /\ s.there \in BOOLEAN
BY DEF Locals

LEMMA OverIs ==
  ASSUME NEW s \in Locals, NEW n \in Node \cup {NULL}
  PROVE  /\ Over(s, n) \in Locals /\ Over(s, n).at = "over" /\ Over(s, n).node = n
         /\ Over(s, n).queue = <<>>
<1>1. "over" \in SearchPlace /\ <<>> \in Seq(Node \cup {NULL}) /\ 0 \in Nat
  BY DEF SearchPlace
<1> QED BY <1>1 DEF Over, Locals

LEMMA PushedIs ==
  ASSUME NEW s \in Locals, NEW m \in Node \cup {NULL}
  PROVE  /\ Pushed(s, m) \in Locals /\ Pushed(s, m).at = "push" /\ Pushed(s, m).node = s.node
         /\ Pushed(s, m).slot >= 1
         /\ \A S : s.queue \in Seq(S) /\ m \in S => Pushed(s, m).queue \in Seq(S)
<1> DEFINE q == PushAll(s.queue, <<m>>)
           k == s.slot + 1
<1>0. s.queue \in Seq(Node \cup {NULL}) /\ s.slot \in Nat
  BY LocalsOf
<1>1. \A S : m \in S => <<m>> \in Seq(S)
  OBVIOUS
<1>2. q \in Seq(Node \cup {NULL})
  BY <1>0, <1>1, PushAllProperties
<1>3. ASSUME NEW S, s.queue \in Seq(S), m \in S PROVE q \in Seq(S)
  BY <1>1, <1>3, PushAllProperties
<1>4. "push" \in SearchPlace /\ k \in Nat /\ k >= 1
  BY <1>0 DEF SearchPlace
<1>5. Pushed(s, m) = [s EXCEPT !.at = "push", !.queue = q, !.slot = k]
  BY DEF Pushed
<1> HIDE DEF q, k
<1>6. /\ Pushed(s, m) \in Locals /\ Pushed(s, m).at = "push" /\ Pushed(s, m).node = s.node
      /\ Pushed(s, m).slot = k /\ Pushed(s, m).queue = q
  BY <1>2, <1>4, <1>5 DEF Locals
<1> QED BY <1>3, <1>4, <1>6

LEMMA LeftIs ==
  ASSUME NEW s \in Locals
  PROVE  /\ Left(s) \in Locals /\ Left(s).at = "pop" /\ Left(s).queue = s.queue
<1>1. "pop" \in SearchPlace /\ 0 \in Nat
  BY DEF SearchPlace
<1> QED BY <1>1 DEF Left, Locals

(* The turn of a search, in each of its places. *)
LEMMA SearchStepKeeps ==
  ASSUME IInv, NEW t \in Thread, SearchStep(t)
  PROVE  IInv'
<1> DEFINE s == search[t]
<1>0. /\ s \in Locals /\ search \in [Thread -> Locals] /\ Shape(t)
      /\ t \notin disturbed => OnTheTree(t)
      /\ LinksAgree(tree) /\ TreeType(tree)
  BY DEF IInv, Threads, TreeGood, Sound
<1>1. /\ s.at \in SearchPlace /\ s.queue \in Seq(Node \cup {NULL}) /\ s.node \in Node \cup {NULL}
      /\ s.slot \in Nat
  BY <1>0, LocalsOf
<1>2. ASSUME Go(t, s) PROVE Threads'
  <2>1. /\ search' = search /\ tree' = tree /\ doing' = doing /\ disturbed' = disturbed
    BY <1>0, <1>2 DEF Go, memory
  <2> QED BY <2>1 DEF IInv, Threads, Shape, Holds, OnTheTree, Sought
<1>3. tree' = tree /\ counter' = counter /\ remains' = remains /\ Ends'
  BY DEF SearchStep, PushRoot, PopNode, PushChild, PushStale, Go, memory, IInv, Ends
<1>4. CASE PushRoot(t)
  <2> DEFINE q == <<tree.root>>
             r == [s EXCEPT !.at = "pop", !.queue = q]
  <2>1. s.at = "root" /\ Go(t, r)
    BY <1>4 DEF PushRoot, Searching
  <2>2. "pop" \in SearchPlace /\ q \in Seq(Node \cup {NULL})
    <3>1. tree.root \in Node \cup {NULL}
      BY <1>0 DEF TreeType
    <3> QED BY <3>1 DEF SearchPlace
  <2>3. ASSUME t \notin disturbed PROVE q \in Seq(tree.live)
    <3>1. tree.root \in tree.live
      BY <1>0, <2>1, <2>3 DEF OnTheTree, LinksAgree
    <3> QED BY <3>1, OneQueued
  <2> HIDE DEF q
  <2>4. r \in Locals /\ r.at = "pop" /\ r.queue = q
    BY <1>0, <2>2 DEF Locals
  <2> HIDE DEF r
  <2>5. Threads'
    BY <2>1, <2>3, <2>4, SearchingStep DEF IInv
  <2> QED BY <1>3, <2>5 DEF IInv, TreeGood, Remainders
<1>5. CASE PopNode(t)
  <2> DEFINE n == Head(s.queue)
  <2>1. s.at = "pop"
    BY <1>5 DEF PopNode, Searching
  <2>2. CASE Go(t, Over(s, NULL))
    <3>1. /\ Over(s, NULL) \in Locals /\ Over(s, NULL).at = "over" /\ Over(s, NULL).node = NULL
          /\ Over(s, NULL).queue = <<>>
      BY <1>0, OverIs
    <3>2. <<>> \in Seq(tree.live)
      OBVIOUS
    <3>3. Threads'
      BY <2>1, <2>2, <3>1, <3>2, SearchingStep DEF IInv
    <3> QED BY <1>3, <3>3 DEF IInv, TreeGood, Remainders
  <2>3. CASE Go(t, s)
    BY <1>2, <1>3, <2>3 DEF IInv, TreeGood, Remainders
  <2>4. ASSUME s.queue # <<>>, n # NULL, NEW x \in IdAt(n),
               Go(t, IF x = Sought(t) THEN Over(s, n)
                     ELSE [s EXCEPT !.at = "push", !.queue = Tail(@), !.node = n, !.slot = 1])
        PROVE  IInv'
    <3>1. n \in Node /\ Tail(s.queue) \in Seq(Node \cup {NULL})
      BY <1>1, <2>4
    <3>2. ASSUME t \notin disturbed PROVE n \in tree.live /\ Tail(s.queue) \in Seq(tree.live)
      <4>1. s.queue \in Seq(tree.live)
        BY <1>0, <2>1, <3>2 DEF OnTheTree
      <4> QED BY <2>4, <4>1, FirstOf
    <3>3. t \notin disturbed => x = tree.id[n]
      BY <2>4, <3>2 DEF IdAt
    <3> HIDE DEF n
    <3>4. CASE x = Sought(t)
      <4>1. /\ Over(s, n) \in Locals /\ Over(s, n).at = "over" /\ Over(s, n).node = n
            /\ Over(s, n).queue = <<>> /\ Go(t, Over(s, n))
        BY <1>0, <2>4, <3>1, <3>4, OverIs
      <4>2. <<>> \in Seq(tree.live)
        OBVIOUS
      <4>3. Threads'
        BY <2>1, <3>2, <3>3, <3>4, <4>1, <4>2, SearchingStep DEF IInv
      <4> QED BY <1>3, <4>3 DEF IInv, TreeGood, Remainders
    <3>5. CASE x # Sought(t)
      <4> DEFINE q == Tail(s.queue)
                 r == [s EXCEPT !.at = "push", !.queue = q, !.node = n, !.slot = 1]
      <4>1. Go(t, r)
        BY <2>4, <3>5
      <4>2. "push" \in SearchPlace /\ 1 \in Nat /\ q \in Seq(Node \cup {NULL})
        BY <3>1 DEF SearchPlace
      <4>3. t \notin disturbed => q \in Seq(tree.live)
        BY <3>2
      <4> HIDE DEF q
      <4>4. r \in Locals /\ r.at = "push" /\ r.queue = q /\ r.node = n /\ r.slot = 1
        BY <1>0, <3>1, <4>2 DEF Locals
      <4> HIDE DEF r
      <4>5. Threads'
        BY <2>1, <3>2, <4>1, <4>3, <4>4, SearchingStep DEF IInv
      <4> QED BY <1>3, <4>5 DEF IInv, TreeGood, Remainders
    <3> QED BY <3>4, <3>5
  <2> QED BY <1>5, <2>2, <2>3, <2>4 DEF PopNode
<1>6. CASE PushChild(t)
  <2>1. /\ s.at = "push" /\ s.node \in tree.live
        /\ Go(t, IF s.slot <= Len(tree.kids[s.node]) THEN Pushed(s, tree.kids[s.node][s.slot])
                 ELSE Left(s))
    BY <1>6 DEF PushChild, Searching
  <2>2. CASE s.slot <= Len(tree.kids[s.node])
    <3> DEFINE m == tree.kids[s.node][s.slot]
    <3>1. tree.kids[s.node] \in Seq(Node) /\ s.slot >= 1
      BY <1>0, <2>1 DEF TreeType, Shape
    <3>2. s.slot \in DOMAIN tree.kids[s.node]
      BY <1>1, <2>2, <3>1, LenProperties
    <3>3. m \in tree.live /\ m \in Node \cup {NULL}
      BY <1>0, <2>1, <3>2 DEF LinksAgree, TreeType
    <3>4. Go(t, Pushed(s, m))
      BY <2>1, <2>2
    <3> HIDE DEF m
    <3>5. /\ Pushed(s, m) \in Locals /\ Pushed(s, m).at = "push" /\ Pushed(s, m).node = s.node
          /\ Pushed(s, m).slot >= 1
          /\ s.queue \in Seq(tree.live) => Pushed(s, m).queue \in Seq(tree.live)
      BY <1>0, <3>3, PushedIs
    <3>6. t \notin disturbed => s.queue \in Seq(tree.live)
      BY <1>0, <2>1 DEF OnTheTree
    <3>7. Threads'
      BY <2>1, <3>4, <3>5, <3>6, SearchingStep DEF IInv
    <3> QED BY <1>3, <3>7 DEF IInv, TreeGood, Remainders
  <2>3. CASE ~(s.slot <= Len(tree.kids[s.node]))
    <3>1. Left(s) \in Locals /\ Left(s).at = "pop" /\ Left(s).queue = s.queue /\ Go(t, Left(s))
      BY <1>0, <2>1, <2>3, LeftIs
    <3>2. t \notin disturbed => s.queue \in Seq(tree.live)
      BY <1>0, <2>1 DEF OnTheTree
    <3>3. Threads'
      BY <2>1, <3>1, <3>2, SearchingStep DEF IInv
    <3> QED BY <1>3, <3>3 DEF IInv, TreeGood, Remainders
  <2> QED BY <2>2, <2>3
<1>7. CASE PushStale(t)
  <2>1. s.at \in {"push", "torn"} /\ (s.at = "torn" \/ s.node \notin tree.live)
    BY <1>7 DEF PushStale
  <2>2. t \in disturbed
    BY <1>0, <2>1 DEF OnTheTree
  <2>3. ASSUME NEW m \in Node \cup {NULL}, Go(t, Pushed(s, m)) PROVE Threads'
    <3>1. /\ Pushed(s, m) \in Locals /\ Pushed(s, m).at = "push" /\ Pushed(s, m).slot >= 1
      BY <1>0, PushedIs
    <3> QED BY <2>1, <2>2, <2>3, <3>1, SearchingStep DEF IInv
  <2>4. ASSUME Go(t, Left(s)) PROVE Threads'
    <3>1. Left(s) \in Locals /\ Left(s).at = "pop"
      BY <1>0, LeftIs
    <3> QED BY <2>1, <2>2, <2>4, <3>1, SearchingStep DEF IInv
  <2>5. Threads'
    BY <1>2, <1>7, <2>3, <2>4 DEF PushStale
  <2> QED BY <1>3, <2>5 DEF IInv, TreeGood, Remainders
<1> QED BY <1>4, <1>5, <1>6, <1>7 DEF SearchStep

-----------------------------------------------------------------------------
(* The steps of the handlers *)

LEMMA BegunIs ==
  ASSUME TreeGood, NEW x
  PROVE  /\ Begun(x) \in Locals /\ Begun(x).at \in {"root", "over"} /\ Begun(x).node = NULL
         /\ Begun(x).queue = <<>>
         /\ Begun(x).at = "root" => tree.root # NULL
<1> DEFINE b == tree_find_node(tree, x) # NULL
<1>1. {"over", "root"} \subseteq SearchPlace /\ b \in BOOLEAN
  BY DEF SearchPlace
<1> HIDE DEF b
<1>2. LET o == [NoSearch EXCEPT !.at = "over"]
      IN  o \in Locals /\ o.at = "over" /\ o.node = NULL /\ o.queue = <<>>
  BY <1>1, NoSearchIsLocal DEF Locals
<1>3. LET o == [NoSearch EXCEPT !.at = "root", !.there = b]
      IN  o \in Locals /\ o.at = "root" /\ o.node = NULL /\ o.queue = <<>>
  BY <1>1, NoSearchIsLocal DEF Locals
<1> QED BY <1>2, <1>3 DEF Begun, b

LEMMA FindSourceKeeps ==
  ASSUME IInv, NEW t \in Thread, NEW op \in {"created", "deleted", "data"}, NEW x \in NamedIds,
         NEW y \in Targets(op), FindSource(t, op, x, y)
  PROVE  Threads'
<1> DEFINE a == [Nothing EXCEPT !.op = op, !.at = "source", !.want = x, !.to = y]
           s == Begun(x)
<1>1. /\ doing' = [doing EXCEPT ![t] = a] /\ search' = [search EXCEPT ![t] = s]
      /\ tree' = tree /\ disturbed' = disturbed
  BY DEF FindSource, memory
<1>2. op \in Op /\ "source" \in Place /\ x \in Nat /\ y \in Nat \cup {NULL}
  BY DEF Op, Place, NamedIds, Targets, IInv, TreeGood
<1>3. /\ a \in Activity /\ a.at = "source" /\ a.src = NULL /\ a.dst = NULL /\ a.new = NULL
  BY <1>2, NothingHeld DEF Nothing, Activity
<1>4. /\ s \in Locals /\ s.at \in {"root", "over"} /\ s.node = NULL /\ s.queue = <<>>
      /\ s.at = "root" => tree.root # NULL
  BY BegunIs DEF IInv
<1> HIDE DEF a, s
<1>5. doing'[t] = a /\ search'[t] = s
  BY <1>1 DEF IInv, Threads
<1>6. <<>> \in Seq(tree.live)
  OBVIOUS
<1>7. Shape(t)'
  BY <1>3, <1>4, <1>5 DEF Shape
<1>8. Holds(t)' /\ OnTheTree(t)'
  BY <1>1, <1>3, <1>4, <1>5, <1>6 DEF Holds, OnTheTree
<1> QED BY <1>1, <1>3, <1>4, <1>7, <1>8, QuietStep DEF IInv

LEMMA FindTargetKeeps ==
  ASSUME IInv, NEW t \in Thread, FindTarget(t)
  PROVE  Threads'
<1> DEFINE n == search[t].node
           a == [doing[t] EXCEPT !.src = n, !.at = "target"]
           s == IF doing[t].to = NULL THEN NoSearch ELSE Begun(doing[t].to)
<1>0. /\ doing \in [Thread -> Activity] /\ doing[t] \in Activity /\ search \in [Thread -> Locals]
      /\ Shape(t) /\ (t \notin disturbed => Holds(t))
  BY DEF IInv, Threads
<1>1. /\ doing' = [doing EXCEPT ![t] = a] /\ search' = [search EXCEPT ![t] = s]
      /\ tree' = tree /\ disturbed' = disturbed
      /\ doing[t].at = "source" /\ search[t].at = "over"
  BY <1>0 DEF FindTarget, Searching, memory
<1>2. n \in Node \cup {NULL} /\ "target" \in Place
  BY <1>0, LocalsOf DEF Place
<1>3. t \notin disturbed /\ n # NULL => n \in tree.live /\ tree.id[n] = doing[t].want
  BY <1>0, <1>1 DEF Holds, Sought
<1> HIDE DEF n
<1>4. /\ a \in Activity /\ a.at = "target" /\ a.src = n /\ a.want = doing[t].want
      /\ a.to = doing[t].to /\ a.dst = doing[t].dst /\ a.new = doing[t].new
  BY <1>0, <1>2 DEF Activity
<1>5. /\ s \in Locals /\ s.at \in {"none", "root", "over"} /\ s.node = NULL /\ s.queue = <<>>
      /\ s.at = "root" => tree.root # NULL
      /\ doing[t].to = NULL => s.at = "none"
  BY BegunIs, NoSearchIsLocal DEF IInv
<1> HIDE DEF a, s
<1>6. doing'[t] = a /\ search'[t] = s
  BY <1>0, <1>1
<1>7. <<>> \in Seq(tree.live)
  OBVIOUS
<1>8. Shape(t)'
  BY <1>0, <1>1, <1>4, <1>5, <1>6 DEF Shape
<1>9. t \notin disturbed => Holds(t)' /\ OnTheTree(t)'
  BY <1>0, <1>1, <1>3, <1>4, <1>5, <1>6, <1>7 DEF Holds, OnTheTree, Shape
<1> QED BY <1>1, <1>4, <1>5, <1>8, <1>9, QuietStep DEF IInv

LEMMA EndParseKeeps ==
  ASSUME IInv, NEW t \in Thread, EndParse(t)
  PROVE  Threads'
<1> DEFINE n == search[t].node
           a == [doing[t] EXCEPT !.dst = n, !.at = "act"]
<1>0. /\ doing \in [Thread -> Activity] /\ doing[t] \in Activity /\ search \in [Thread -> Locals]
      /\ Shape(t) /\ (t \notin disturbed => Holds(t))
      /\ doing[t].at = "target" /\ search[t].at \in {"none", "over"} /\ tree' = tree
  BY DEF IInv, Threads, EndParse, memory
<1>1. CASE Return(t)
  BY <1>0, <1>1, ReturnStep DEF IInv
<1>2. CASE ~Return(t)
  <2>1. /\ doing' = [doing EXCEPT ![t] = a] /\ search' = [search EXCEPT ![t] = NoSearch]
        /\ disturbed' = disturbed
        /\ doing[t].src # NULL /\ ~(doing[t].to # NULL /\ n = NULL)
    BY <1>0, <1>2 DEF EndParse
  <2>2. n \in Node \cup {NULL} /\ "act" \in Place
    BY <1>0, LocalsOf DEF Place
  <2>3. t \notin disturbed /\ n # NULL => n \in tree.live /\ tree.id[n] = doing[t].to
    BY <1>0 DEF Holds, Sought, Shape
  <2> HIDE DEF n
  <2>4. /\ a \in Activity /\ a.at = "act" /\ a.src = doing[t].src /\ a.want = doing[t].want
        /\ a.to = doing[t].to /\ a.dst = n /\ a.new = doing[t].new
    BY <1>0, <2>2 DEF Activity
  <2> HIDE DEF a
  <2>5. doing'[t] = a /\ search'[t] = NoSearch
    BY <1>0, <2>1
  <2>6. Shape(t)'
    BY <1>0, <2>1, <2>4, <2>5, NoSearchIsLocal DEF Shape
  <2>7. t \notin disturbed => Holds(t)' /\ OnTheTree(t)'
    <3>1. OnTheTree(t)'
      BY <2>5, NoSearchIsLocal DEF OnTheTree
    <3>2. t \notin disturbed => Holds(t)'
      BY <1>0, <2>3, <2>4, <2>5, NoSearchIsLocal DEF Holds, Shape
    <3> QED BY <3>1, <3>2
  <2> QED BY <1>0, <2>1, <2>4, <2>6, <2>7, NoSearchIsLocal, QuietStep DEF IInv
<1> QED BY <1>1, <1>2

LEMMA CheckRootKeeps ==
  ASSUME IInv, NEW t \in Thread, CheckRoot(t)
  PROVE  Threads'
<1> DEFINE a == [doing[t] EXCEPT !.at = "delete"]
<1>0. /\ doing \in [Thread -> Activity] /\ doing[t] \in Activity /\ search \in [Thread -> Locals]
      /\ Shape(t) /\ (t \notin disturbed => Holds(t) /\ OnTheTree(t))
      /\ doing[t].at = "act" /\ doing[t].op = "deleted" /\ tree' = tree
  BY DEF IInv, Threads, CheckRoot, At, memory
<1>1. CASE Return(t)
  BY <1>0, <1>1, ReturnStep DEF IInv
<1>2. CASE ~Return(t)
  <2>1. /\ doing' = [doing EXCEPT ![t] = a] /\ UNCHANGED <<search, disturbed>>
        /\ search' = [search EXCEPT ![t] = search[t]]
    BY <1>0, <1>2 DEF CheckRoot
  <2>2. "delete" \in Place
    BY DEF Place
  <2>3. /\ a \in Activity /\ a.at = "delete" /\ a.op = "deleted" /\ a.src = doing[t].src
        /\ a.want = doing[t].want /\ a.to = doing[t].to /\ a.dst = doing[t].dst /\ a.new = doing[t].new
    BY <1>0, <2>2 DEF Activity
  <2> HIDE DEF a
  <2>4. doing'[t] = a /\ search'[t] = search[t] /\ search[t] \in Locals
    BY <1>0, <2>1
  <2>5. Shape(t)'
    BY <1>0, <2>3, <2>4 DEF Shape
  <2>6. t \notin disturbed => Holds(t)' /\ OnTheTree(t)'
    BY <1>0, <2>3, <2>4 DEF Holds, OnTheTree, Shape
  <2> QED BY <1>0, <2>1, <2>3, <2>4, <2>5, <2>6, QuietStep DEF IInv
<1> QED BY <1>1, <1>2

(* The end of the process changes nothing else. *)
LEMMA StoppedKeeps ==
  ASSUME IInv, UNCHANGED <<memory, doing, search, disturbed>>
  PROVE  Threads' /\ TreeGood' /\ Remainders'
BY DEF IInv, memory, Threads, Shape, Holds, OnTheTree, Sought, TreeGood, Remainders

LEMMA handle_node_createdKeeps ==
  ASSUME IInv, NEW t \in Thread, handle_node_created(t)
  PROVE  IInv'
<1>0. /\ doing \in [Thread -> Activity] /\ doing[t] \in Activity /\ Shape(t) /\ TreeGood
      /\ doing[t].op = "created" /\ doing[t].at = "act" /\ crashed' = crashed
  BY DEF IInv, Threads, handle_node_created, At
<1>1. PICK n \in Node, p \in IdAt(doing[t].src) :
        /\ Create(n, p)
        /\ IF n \in tree'.live
           THEN /\ doing' = [doing EXCEPT ![t].new = n, ![t].did = counter, ![t].at = "tell"]
                /\ MeetSearches(t)
           ELSE Return(t)
  BY DEF handle_node_created
<1>2. /\ TreeGood' /\ tree.live \subseteq tree'.live
      /\ \A m \in tree.live : tree'.id[m] = tree.id[m]
      /\ n \in tree'.live => tree'.id[n] = counter
      /\ n \notin tree'.live => tree' = tree
      /\ tree.root # NULL => tree'.root # NULL
  BY <1>0, <1>1, CreateGood
<1>3. Remainders' /\ Ends'
  BY <1>0, <1>1 DEF Create, TreeGood, IInv, Remainders, Ends
<1>4. CASE n \notin tree'.live
  BY <1>1, <1>2, <1>3, <1>4, ReturnStep DEF IInv
<1>5. CASE n \in tree'.live
  <2> DEFINE a == [doing[t] EXCEPT !.new = n, !.did = counter, !.at = "tell"]
  <2>1. doing' = [doing EXCEPT ![t] = a] /\ MeetSearches(t)
    BY <1>0, <1>1, <1>5
  <2>2. "tell" \in Place /\ counter \in Nat
    BY <1>0 DEF TreeGood, Place
  <2>3. /\ a \in Activity /\ a.at = "tell" /\ a.op = "created" /\ a.did = counter /\ a.new = n
    BY <1>0, <2>2 DEF Activity
  <2> HIDE DEF a
  <2>4. doing'[t] = a /\ n # NULL
    BY <1>0, <2>1, TreeAssumption
  <2>5. search'[t].at = search[t].at /\ search'[t].node = search[t].node /\ search[t].at = "none"
    <3>1. search[t].at = "none"
      BY <1>0 DEF Shape
    <3> QED BY <2>1, <3>1, MetSearch DEF IInv
  <2>6. Shape(t)'
    BY <1>0, <2>3, <2>4, <2>5 DEF Shape
  <2>7. Holds(t)'
    BY <1>2, <1>5, <2>3, <2>4, <2>5 DEF Holds
  <2>8. Threads'
    BY <1>2, <2>1, <2>3, <2>5, <2>6, <2>7, MeetingStep DEF IInv
  <2> QED BY <1>2, <1>3, <2>8 DEF IInv
<1> QED BY <1>4, <1>5

LEMMA handle_create_commandKeeps ==
  ASSUME IInv, NEW t \in Thread, NEW p \in NamedIds \cup {NULL}, handle_create_command(t, p)
  PROVE  IInv'
<1>0. /\ doing \in [Thread -> Activity] /\ Shape(t) /\ TreeGood
      /\ doing[t] = Nothing /\ crashed' = crashed
  BY DEF IInv, Threads, handle_create_command, Idle
<1>1. PICK n \in Node :
        /\ Create(n, p)
        /\ IF n \in tree'.live
           THEN /\ doing' = [doing EXCEPT ![t] = [Nothing EXCEPT
                      !.op = "command", !.at = "tell", !.new = n, !.did = counter]]
                /\ MeetSearches(t)
           ELSE UNCHANGED <<doing, search, disturbed>>
  BY DEF handle_create_command
<1>2. /\ TreeGood' /\ tree.live \subseteq tree'.live
      /\ \A m \in tree.live : tree'.id[m] = tree.id[m]
      /\ n \in tree'.live => tree'.id[n] = counter
      /\ n \notin tree'.live => tree' = tree
      /\ tree.root # NULL => tree'.root # NULL
  BY <1>0, <1>1, CreateGood
<1>3. Remainders' /\ Ends'
  BY <1>0, <1>1 DEF Create, TreeGood, IInv, Remainders, Ends
<1>4. CASE n \notin tree'.live
  <2>1. tree' = tree /\ UNCHANGED <<doing, search, disturbed>>
    BY <1>1, <1>2, <1>4
  <2>2. Threads'
    BY <2>1 DEF IInv, Threads, Shape, Holds, OnTheTree, Sought
  <2> QED BY <1>2, <1>3, <2>2 DEF IInv
<1>5. CASE n \in tree'.live
  <2> DEFINE a == [Nothing EXCEPT !.op = "command", !.at = "tell", !.new = n, !.did = counter]
  <2>1. doing' = [doing EXCEPT ![t] = a] /\ MeetSearches(t)
    BY <1>1, <1>5
  <2>2. "tell" \in Place /\ "command" \in Op /\ counter \in Nat
    BY <1>0 DEF TreeGood, Place, Op
  <2>3. /\ a \in Activity /\ a.at = "tell" /\ a.op = "command" /\ a.did = counter /\ a.new = n
    BY <2>2, NothingHeld DEF Nothing, Activity
  <2> HIDE DEF a
  <2>4. doing'[t] = a /\ n # NULL
    BY <1>0, <2>1, TreeAssumption
  <2>5. search'[t].at = search[t].at /\ search'[t].node = search[t].node /\ search[t].at = "none"
    <3>1. search[t].at = "none"
      BY <1>0, NothingHeld DEF Shape
    <3> QED BY <2>1, <3>1, MetSearch DEF IInv
  <2>6. Shape(t)'
    BY <1>0, <2>3, <2>4, <2>5 DEF Shape
  <2>7. Holds(t)'
    BY <1>2, <1>5, <2>3, <2>4, <2>5 DEF Holds
  <2>8. Threads'
    BY <1>2, <2>1, <2>3, <2>5, <2>6, <2>7, MeetingStep DEF IInv
  <2> QED BY <1>2, <1>3, <2>8 DEF IInv
<1> QED BY <1>4, <1>5

AfterDeletion(a) ==
  /\ a.new = NULL
  /\ \/ a.at = "idle" /\ a.src = NULL /\ a.dst = NULL
     \/ a.at = "tell" /\ a.op = "deleted" /\ a.src # NULL

(* The deletion of the node with id x by t, who afterwards does a. *)
LEMMA DeletionKeeps ==
  ASSUME IInv, NEW t \in Thread, NEW x, Delete(t, x), NEW a \in Activity,
         doing' = [doing EXCEPT ![t] = a], UNCHANGED <<counter, remains, crashed>>,
         search[t].at = "none", AfterDeletion(a)
  PROVE  IInv'
<1>0. TreeGood /\ doing \in [Thread -> Activity] /\ MeetSearches(t) /\ Shape(t)
  BY DEF IInv, Threads, Delete
<1>1. /\ TreeGood' /\ tree'.live \subseteq tree.live
      /\ \A m \in tree'.live : tree'.id[m] = tree.id[m]
      /\ tree_find_node(tree, x) = NULL => tree' = tree
      /\ tree_find_node(tree, x) # NULL => tree_find_node(tree, x) \in tree.live \ tree'.live
  BY <1>0, DeleteGood
<1>2. tree.live \subseteq tree'.live /\ tree.root # NULL => tree'.root # NULL
  BY <1>1
<1>3. search'[t].at = "none" /\ search'[t].node = search[t].node
  BY <1>0, MetSearch DEF IInv
<1>4. doing'[t] = a
  BY <1>0
<1>5. Shape(t)'
  BY <1>0, <1>3, <1>4 DEF Shape, AfterDeletion
<1>6. Holds(t)'
  BY <1>3, <1>4 DEF Holds, AfterDeletion
<1>7. Threads'
  BY <1>0, <1>1, <1>2, <1>5, <1>6, MeetingStep DEF IInv
<1> QED BY <1>1, <1>7 DEF IInv, Remainders, Ends

LEMMA handle_node_deletedKeeps ==
  ASSUME IInv, NEW t \in Thread, handle_node_deleted(t)
  PROVE  IInv'
<1>0. /\ doing \in [Thread -> Activity] /\ doing[t] \in Activity /\ Shape(t) /\ TreeGood
      /\ doing[t].op = "deleted" /\ doing[t].at = "delete"
      /\ UNCHANGED <<counter, remains, crashed>>
  BY DEF IInv, Threads, handle_node_deleted, At
<1>1. PICK x \in IdAt(doing[t].src) :
        IF tree_find_node(tree, x) = NULL
        THEN Return(t) /\ UNCHANGED tree
        ELSE /\ Delete(t, x)
             /\ doing' = [doing EXCEPT ![t].did = x, ![t].at = "tell"]
  BY DEF handle_node_deleted
<1>2. CASE tree_find_node(tree, x) = NULL
  <2>1. Return(t) /\ tree' = tree
    BY <1>1, <1>2
  <2>2. Threads'
    BY <2>1, ReturnStep DEF IInv
  <2> QED BY <1>0, <2>1, <2>2 DEF IInv, TreeGood, Remainders, Ends
<1>3. CASE tree_find_node(tree, x) # NULL
  <2> DEFINE a == [doing[t] EXCEPT !.did = x, !.at = "tell"]
  <2>1. Delete(t, x) /\ doing' = [doing EXCEPT ![t] = a]
    BY <1>0, <1>1, <1>3
  <2>2. tree_find_node(tree, x) \in tree.live /\ tree.id[tree_find_node(tree, x)] = x
    BY <1>3, FoundIsLive
  <2>3. x \in Nat /\ "tell" \in Place
    <3>1. x \in 0..(counter - 1)
      BY <1>0, <2>2 DEF TreeGood
    <3> QED BY <1>0, <3>1 DEF TreeGood, Place
  <2>4. /\ a \in Activity /\ a.at = "tell" /\ a.op = "deleted" /\ a.src = doing[t].src
        /\ a.new = doing[t].new
    BY <1>0, <2>3 DEF Activity
  <2> HIDE DEF a
  <2>5. search[t].at = "none" /\ doing[t].src # NULL /\ doing[t].new = NULL
    BY <1>0 DEF Shape
  <2>6. AfterDeletion(a)
    BY <2>4, <2>5 DEF AfterDeletion
  <2> QED BY <1>0, <2>1, <2>4, <2>5, <2>6, DeletionKeeps
<1> QED BY <1>2, <1>3

LEMMA StepPreserves == IInv /\ [Next]_vars => IInv'
<1> SUFFICES ASSUME IInv, [Next]_vars PROVE IInv'
  OBVIOUS
<1>1. ASSUME tree' = tree, counter' = counter, remains' = remains, Ends', Threads'
      PROVE  IInv'
  BY <1>1 DEF IInv, TreeGood, Remainders
<1>2. crashed' = crashed => Ends'
  BY DEF IInv, Ends
<1>3. ASSUME NEW t \in Thread, NEW op \in {"created", "deleted", "data"}, NEW x \in NamedIds,
             NEW y \in Targets(op), FindSource(t, op, x, y)
      PROVE  IInv'
  <2>1. UNCHANGED <<memory, crashed>>
    BY <1>3 DEF FindSource, memory
  <2> QED BY <1>1, <1>2, <1>3, <2>1, FindSourceKeeps DEF memory
<1>4. ASSUME NEW t \in Thread, FindTarget(t) PROVE IInv'
  BY <1>1, <1>2, <1>4, FindTargetKeeps DEF FindTarget, memory
<1>5. ASSUME NEW t \in Thread, EndParse(t) PROVE IInv'
  BY <1>1, <1>2, <1>5, EndParseKeeps DEF EndParse, memory
<1>6. ASSUME NEW t \in Thread, CheckRoot(t) PROVE IInv'
  BY <1>1, <1>2, <1>6, CheckRootKeeps DEF CheckRoot, memory
<1>7. ASSUME NEW t \in Thread, FillNotice(t) PROVE IInv'
  <2>1. UNCHANGED <<memory, doing, search, disturbed>> /\ crashed' = "data"
    BY <1>7 DEF FillNotice
  <2> QED BY <2>1, StoppedKeeps DEF IInv, Ends
<1>8. ASSUME NEW t \in Thread, Return(t), UNCHANGED <<memory, crashed>> PROVE IInv'
  <2>1. Threads'
    BY <1>8, ReturnStep DEF IInv, memory
  <2> QED BY <1>1, <1>2, <1>8, <2>1 DEF memory
<1>9. ASSUME NEW t \in Thread, AnswerCommand(t) PROVE IInv'
  BY <1>8, <1>9 DEF AnswerCommand
<1>10. ASSUME NEW t \in Thread, handle_node_message(t) PROVE IInv'
  <2>1. CASE Return(t) /\ UNCHANGED crashed
    BY <1>8, <1>10, <2>1 DEF handle_node_message
  <2>2. CASE ~(Return(t) /\ UNCHANGED crashed)
    <3>1. UNCHANGED <<memory, doing, search, disturbed>> /\ Ends'
      BY <1>10, <2>2 DEF handle_node_message, Ends
    <3> QED BY <3>1, StoppedKeeps DEF IInv
  <2> QED BY <2>1, <2>2
<1>11. ASSUME NEW t \in Thread, NEW x \in NamedIds, handle_delete_command(t, x) PROVE IInv'
  <2>1. /\ Delete(t, x) /\ UNCHANGED <<counter, remains, doing, crashed>> /\ doing[t] = Nothing
        /\ doing \in [Thread -> Activity] /\ Shape(t)
    BY <1>11 DEF handle_delete_command, Idle, IInv, Threads
  <2>2. doing' = [doing EXCEPT ![t] = Nothing] /\ search[t].at = "none"
    BY <2>1, NothingHeld DEF Shape
  <2> DEFINE a == Nothing
  <2>3. a \in Activity /\ AfterDeletion(a) /\ doing' = [doing EXCEPT ![t] = a]
    BY <2>2, NothingHeld DEF AfterDeletion
  <2>4. Delete(t, x) /\ UNCHANGED <<counter, remains, crashed>>
    BY <2>1
  <2>5. search[t].at = "none"
    BY <2>2
  <2> HIDE DEF a
  <2> QED BY <2>3, <2>4, <2>5, DeletionKeeps
<1>12. CASE UNCHANGED vars
  <2>1. UNCHANGED <<memory, doing, search, disturbed, crashed>>
    BY <1>12 DEF vars, memory
  <2> QED BY <1>2, <2>1, StoppedKeeps DEF IInv
<1> QED BY <1>3, <1>4, <1>5, <1>6, <1>7, <1>9, <1>10, <1>11, <1>12, SearchStepKeeps,
           handle_node_createdKeeps, handle_create_commandKeeps, handle_node_deletedKeeps DEF Next

LEMMA InitEstablishes == Init => IInv
<1> SUFFICES ASSUME Init PROVE IInv
  OBVIOUS
<1>1. tree = EmptyTree /\ counter = 0
  BY DEF Init
<1>2. /\ tree = [live |-> {}, root |-> NULL, total |-> 0, parent |-> <<>>,
                 kids |-> <<>>, isRoot |-> <<>>, id |-> <<>>]
      /\ tree.live = {} /\ tree.root = NULL /\ tree.total = 0
      /\ tree.parent = <<>> /\ tree.kids = <<>> /\ tree.isRoot = <<>> /\ tree.id = <<>>
  BY <1>1 DEF EmptyTree
<1>3. IsFiniteSet({}) /\ Cardinality({}) = 0
  BY FS_EmptySet
<1>4. TreeType(tree)
  BY <1>2, <1>3 DEF TreeType
<1>5. LinksAgree(tree) /\ Acyclic(tree) /\ ChildrenFit(tree) /\ CountExact(tree)
  BY <1>2, <1>3 DEF LinksAgree, Acyclic, ChildrenFit, CountExact
<1>6. TreeGood
  BY <1>1, <1>2, <1>4, <1>5 DEF TreeGood, Sound
<1>7. \A t \in Thread : doing[t] = Nothing /\ search[t] = NoSearch
  BY DEF Init
<1>8. /\ doing \in [Thread -> Activity] /\ search \in [Thread -> Locals]
      /\ disturbed \subseteq Thread
  BY NothingHeld, NoSearchIsLocal DEF Init
<1>9. \A t \in Thread : Shape(t) /\ Holds(t) /\ OnTheTree(t)
  BY <1>7, NothingHeld, NoSearchIsLocal DEF Shape, Holds, OnTheTree
<1>10. Remainders /\ Ends
  BY DEF Init, Remainders, Ends
<1> QED BY <1>6, <1>8, <1>9, <1>10 DEF IInv, Threads

THEOREM Invariance == Spec => []IInv
BY InitEstablishes, StepPreserves, PTL DEF Spec

(* Types, and a source found whenever a handler acts on one. *)
THEOREM TypeCorrect == Spec => []TypeOK
<1>1. IInv => TypeOK
  <2> SUFFICES ASSUME IInv PROVE TypeOK
    OBVIOUS
  <2>1. ASSUME NEW t \in Thread
        PROVE  /\ doing[t].src \in Node \cup {NULL} /\ doing[t].dst \in Node \cup {NULL}
               /\ doing[t].new \in Node \cup {NULL} /\ Shape(t)
    <3>1. doing[t] \in Activity /\ Shape(t)
      BY DEF IInv, Threads
    <3> QED BY <3>1 DEF Activity
  <2>2. ASSUME NEW t \in Thread, doing[t].at = "tell"
        PROVE  (IF doing[t].op = "deleted" THEN doing[t].src ELSE doing[t].new) \in Node
    BY <2>1, <2>2 DEF Shape
  <2>3. ASSUME NEW t \in Thread, doing[t].at \in {"act", "delete"} PROVE doing[t].src # NULL
    BY <2>1, <2>3 DEF Shape
  <2>4. ASSUME NEW t \in Thread
        PROVE  search[t].queue \in Seq(Node \cup {NULL}) /\ search[t].node \in Node \cup {NULL}
    <3>1. search[t] \in Locals
      BY DEF IInv, Threads
    <3> QED BY <3>1, LocalsOf
  <2> QED BY <2>1, <2>2, <2>3, <2>4 DEF IInv, Threads, TreeGood, Sound, Remainders, Ends, TypeOK
<1> QED BY <1>1, Invariance, PTL

(* Whatever the handlers read from freed memory, the tree stays sound. *)
THEOREM AlwaysSound == Spec => []SoundAnyway
<1>1. IInv => SoundAnyway
  BY DEF IInv, TreeGood, Sound, SoundAnyway
<1> QED BY <1>1, Invariance, PTL

(* What a search without the lock finds is the node it was asked for, and it   *)
(* stays so for the handler that holds it, unless another thread disturbs the  *)
(* search or deletes the node.                                                 *)
THEOREM AlwaysHoldsWhatItFound == Spec => []HoldsWhatItFound
<1>1. IInv => HoldsWhatItFound
  BY HoldsEach DEF IInv, Threads
<1> QED BY <1>1, Invariance, PTL

-----------------------------------------------------------------------------
(* What the handlers do *)

(* A change of what thread t does is a step of t. *)
LEMMA ActorIsKnown ==
  ASSUME IInv, [Next]_vars, NEW t \in Thread, doing'[t] # doing[t]
  PROVE  \/ \E op \in {"created", "deleted", "data"}, x \in NamedIds : \E y \in Targets(op) :
              FindSource(t, op, x, y)
         \/ FindTarget(t) \/ EndParse(t)
         \/ handle_node_created(t) \/ CheckRoot(t) \/ handle_node_deleted(t)
         \/ handle_node_message(t)
         \/ \E p \in NamedIds \cup {NULL} : handle_create_command(t, p)
         \/ AnswerCommand(t)
<1>0. doing \in [Thread -> Activity]
  BY DEF IInv, Threads
<1>1. PICK u \in Thread :
        \/ \E op \in {"created", "deleted", "data"}, x \in NamedIds : \E y \in Targets(op) :
              FindSource(u, op, x, y)
        \/ SearchStep(u) \/ FindTarget(u) \/ EndParse(u)
        \/ handle_node_created(u) \/ CheckRoot(u) \/ handle_node_deleted(u) \/ FillNotice(u)
        \/ handle_node_message(u)
        \/ \E p \in NamedIds \cup {NULL} : handle_create_command(u, p)
        \/ AnswerCommand(u)
        \/ \E x \in NamedIds : handle_delete_command(u, x)
  BY DEF Next, vars
<1>2. (SearchStep(u) \/ FillNotice(u) \/ \E x \in NamedIds : handle_delete_command(u, x))
        => doing' = doing
  BY DEF SearchStep, PushRoot, PopNode, PushChild, PushStale, Go, FillNotice, handle_delete_command
<1>3. ASSUME u # t PROVE doing'[t] = doing[t]
  <2>1. CASE Return(u)
    BY <1>0, <1>3, <2>1 DEF Return
  <2>2. ASSUME NEW a, doing' = [doing EXCEPT ![u] = a] PROVE doing'[t] = doing[t]
    BY <1>0, <1>3, <2>2
  <2>3. CASE \E op \in {"created", "deleted", "data"}, x \in NamedIds : \E y \in Targets(op) :
               FindSource(u, op, x, y)
    BY <2>2, <2>3 DEF FindSource
  <2>4. CASE FindTarget(u)
    BY <1>0, <1>3, <2>4 DEF FindTarget
  <2>5. CASE EndParse(u)
    BY <1>0, <1>3, <2>1, <2>5 DEF EndParse
  <2>6. CASE handle_node_created(u)
    BY <1>0, <1>3, <2>1, <2>6 DEF handle_node_created
  <2>7. CASE CheckRoot(u)
    BY <1>0, <1>3, <2>1, <2>7 DEF CheckRoot
  <2>8. CASE handle_node_deleted(u)
    BY <1>0, <1>3, <2>1, <2>8 DEF handle_node_deleted
  <2>9. CASE handle_node_message(u)
    BY <2>1, <2>9 DEF handle_node_message
  <2>10. CASE \E p \in NamedIds \cup {NULL} : handle_create_command(u, p)
    BY <2>2, <2>10 DEF handle_create_command
  <2>11. CASE AnswerCommand(u)
    BY <2>1, <2>11 DEF AnswerCommand
  <2> QED BY <1>1, <1>2, <2>3, <2>4, <2>5, <2>6, <2>7, <2>8, <2>9, <2>10, <2>11
<1>4. u = t /\ doing' # doing
  BY <1>3
<1> QED BY <1>1, <1>2, <1>4

LEMMA DeletionStep ==
  ASSUME IInv, [Next]_vars, NEW t \in Thread \ disturbed, Deletes(t)
  PROVE  /\ tree.live \ tree'.live = {doing[t].src}
         /\ tree.id[doing[t].src] = doing[t].want
<1>0. /\ TreeGood /\ Holds(t) /\ Shape(t) /\ doing \in [Thread -> Activity]
      /\ doing[t].at = "delete" /\ doing'[t].at = "tell"
  BY DEF IInv, Threads, Deletes
<1>1. doing'[t] # doing[t]
  BY <1>0
<1>2. handle_node_deleted(t)
  <2>1. /\ ~FindTarget(t) /\ ~EndParse(t) /\ ~handle_node_created(t) /\ ~CheckRoot(t)
        /\ ~handle_node_message(t) /\ ~AnswerCommand(t)
    BY <1>0 DEF FindTarget, EndParse, handle_node_created, At, CheckRoot, handle_node_message,
                AnswerCommand
  <2>2. \A op, x, y : ~FindSource(t, op, x, y)
    BY <1>0, NothingHeld DEF FindSource, Idle
  <2>3. \A p : ~handle_create_command(t, p)
    BY <1>0, NothingHeld DEF handle_create_command, Idle
  <2> QED BY <1>1, <2>1, <2>2, <2>3, ActorIsKnown
<1>3. doing[t].src \in tree.live /\ tree.id[doing[t].src] = doing[t].want
  BY <1>0 DEF Holds, Shape
<1>4. PICK x \in IdAt(doing[t].src) :
        IF tree_find_node(tree, x) = NULL
        THEN Return(t) /\ UNCHANGED tree
        ELSE /\ Delete(t, x)
             /\ doing' = [doing EXCEPT ![t].did = x, ![t].at = "tell"]
  BY <1>2 DEF handle_node_deleted
<1>5. x = doing[t].want /\ counter' = counter
  BY <1>2, <1>3, <1>4 DEF IdAt, handle_node_deleted
<1>6. tree_find_node(tree, x) # NULL
  <2>1. Return(t) => doing'[t].at = "idle"
    BY <1>0, NothingHeld DEF Return
  <2> QED BY <1>0, <1>4, <2>1
<1>7. /\ tree_find_node(tree, x) \in tree.live /\ tree.id[tree_find_node(tree, x)] = x
      /\ tree.live \ tree'.live = {tree_find_node(tree, x)}
  BY <1>0, <1>4, <1>5, <1>6, DeleteGood
<1>8. tree_find_node(tree, x) = doing[t].src
  BY <1>0, <1>3, <1>5, <1>7 DEF TreeGood
<1> QED BY <1>3, <1>7, <1>8

LEMMA CreationStep ==
  ASSUME IInv, [Next]_vars, NEW t \in Thread \ disturbed, Creates(t)
  PROVE  tree'.parent[doing'[t].new] = IF tree.root = NULL THEN NULL ELSE doing[t].src
<1>0. /\ TreeGood /\ Holds(t) /\ Shape(t) /\ doing \in [Thread -> Activity]
      /\ doing[t].at = "act" /\ doing'[t].new # NULL /\ doing[t].new = NULL
  BY DEF IInv, Threads, Creates, Shape
<1>1. doing'[t] # doing[t]
  BY <1>0
<1>2. Return(t) => doing'[t].new = NULL
  BY <1>0, NothingHeld DEF Return
<1>3. doing' = [doing EXCEPT ![t].at = "delete"] => doing'[t].new = NULL
  BY <1>0
<1>4. handle_node_created(t)
  <2>1. ~FindTarget(t) /\ ~EndParse(t) /\ ~handle_node_deleted(t) /\ ~AnswerCommand(t)
    BY <1>0 DEF FindTarget, EndParse, handle_node_deleted, At, AnswerCommand
  <2>2. \A op, x, y : ~FindSource(t, op, x, y)
    BY <1>0, NothingHeld DEF FindSource, Idle
  <2>3. \A p : ~handle_create_command(t, p)
    BY <1>0, NothingHeld DEF handle_create_command, Idle
  <2>4. ~CheckRoot(t)
    BY <1>0, <1>2, <1>3 DEF CheckRoot
  <2>5. ~handle_node_message(t)
    BY <1>0, <1>1, <1>2 DEF handle_node_message
  <2> QED BY <1>1, <2>1, <2>2, <2>3, <2>4, <2>5, ActorIsKnown
<1>5. doing[t].src \in tree.live /\ tree.id[doing[t].src] = doing[t].want
  BY <1>0 DEF Holds, Shape
<1>6. PICK n \in Node, p \in IdAt(doing[t].src) :
        /\ Create(n, p)
        /\ IF n \in tree'.live
           THEN /\ doing' = [doing EXCEPT ![t].new = n, ![t].did = counter, ![t].at = "tell"]
                /\ MeetSearches(t)
           ELSE Return(t)
  BY <1>4 DEF handle_node_created
<1>7. p = doing[t].want
  BY <1>5, <1>6 DEF IdAt
<1>8. n \in tree'.live /\ doing'[t].new = n
  <2>1. n \in tree'.live
    BY <1>0, <1>2, <1>6
  <2>2. doing' = [doing EXCEPT ![t].new = n, ![t].did = counter, ![t].at = "tell"]
    BY <1>6, <2>1
  <2>3. doing[t] \in Activity
    BY <1>0
  <2>4. [doing[t] EXCEPT !.new = n, !.did = counter, !.at = "tell"].new = n
    BY <2>3 DEF Activity
  <2>5. doing'[t] = [doing[t] EXCEPT !.new = n, !.did = counter, !.at = "tell"]
    BY <1>0, <2>2
  <2> QED BY <2>1, <2>4, <2>5
<1>9. CASE tree.root = NULL
  BY <1>0, <1>6, <1>8, <1>9, CreateGood
<1>10. CASE tree.root # NULL
  <2>1. tree_find_node(tree, p) \in tree.live /\ tree'.parent[n] = tree_find_node(tree, p)
    BY <1>0, <1>6, <1>8, <1>10, CreateGood
  <2>2. tree.id[tree_find_node(tree, p)] = p
    <3>1. NULL \notin tree.live
      BY <1>0, TreeAssumption DEF TreeGood, Sound, TreeType
    <3>2. \/ tree_find_node(tree, p) = NULL
          \/ tree_find_node(tree, p) \in tree.live /\ tree.id[tree_find_node(tree, p)] = p
      BY FoundIsLive
    <3> QED BY <2>1, <3>1, <3>2
  <2>3. \A m, k \in tree.live : tree.id[m] = tree.id[k] => m = k
    BY <1>0 DEF TreeGood
  <2>4. tree_find_node(tree, p) = doing[t].src
    BY <1>5, <1>7, <2>1, <2>2, <2>3
  <2> QED BY <1>8, <1>10, <2>1, <2>4
<1> QED BY <1>9, <1>10

(* handle_node_deleted deletes the node its message names, and                 *)
(* handle_node_created puts the new node under the one its message names, or   *)
(* at the top of a tree that has lost its root, however creations in other     *)
(* threads overlap its searches, unless another thread has deleted a node      *)
(* during them, changed the array they were reading, or deleted the node found.*)
THEOREM HandlersActOnTheirSource == Spec => ActsOnItsSource
<1>1. IInv /\ [Next]_vars =>
        [\A t \in Thread \ disturbed :
           /\ Deletes(t) => tree.live \ tree'.live = {doing[t].src}
                            /\ tree.id[doing[t].src] = doing[t].want
           /\ Creates(t) => tree'.parent[doing'[t].new] =
                              IF tree.root = NULL THEN NULL ELSE doing[t].src]_vars
  BY DeletionStep, CreationStep
<1> QED BY <1>1, Invariance, PTL DEF Spec, ActsOnItsSource

LEMMA TellingStep ==
  ASSUME IInv, [Next]_vars, NEW t \in Thread \ disturbed
  PROVE  /\ Tells(t, "command") => said'[2] = doing[t].did
         /\ Tells(t, "data") => said'[2] = doing[t].want /\ said'[3] = doing[t].to
<1>0. Holds(t) /\ Shape(t)
  BY DEF IInv, Threads
<1>1. ASSUME NEW op, Tells(t, op) PROVE AnswerCommand(t) \/ handle_node_message(t)
  <2>1. doing'[t] # doing[t] /\ said' # <<>>
    BY <1>1 DEF Tells
  <2>2. /\ ~FindTarget(t) /\ ~EndParse(t) /\ ~handle_node_created(t) /\ ~CheckRoot(t)
        /\ ~handle_node_deleted(t)
    BY <2>1 DEF FindTarget, EndParse, handle_node_created, CheckRoot, handle_node_deleted
  <2>3. \A o, x, y : ~FindSource(t, o, x, y)
    BY <2>1 DEF FindSource
  <2>4. \A p : ~handle_create_command(t, p)
    BY <2>1 DEF handle_create_command
  <2> QED BY <2>1, <2>2, <2>3, <2>4, ActorIsKnown
<1>2. ASSUME Tells(t, "command") PROVE said'[2] = doing[t].did
  <2>1. doing[t].op = "command"
    BY <1>2 DEF Tells
  <2>2. AnswerCommand(t)
    BY <1>1, <1>2, <2>1 DEF handle_node_message, At
  <2>3. doing[t].new \in tree.live /\ tree.id[doing[t].new] = doing[t].did
    BY <1>0, <2>1, <2>2 DEF AnswerCommand, At, Holds, Shape
  <2>4. PICK x \in IdAt(doing[t].new) : said' = <<"command", x>>
    BY <2>2 DEF AnswerCommand
  <2> QED BY <2>3, <2>4 DEF IdAt
<1>3. ASSUME Tells(t, "data") PROVE said'[2] = doing[t].want /\ said'[3] = doing[t].to
  <2>1. doing[t].op = "data" /\ said' # <<>>
    BY <1>3 DEF Tells
  <2>2. handle_node_message(t)
    BY <1>1, <1>3, <2>1 DEF AnswerCommand, At
  <2>3. doing[t].dst # NULL /\ doing[t].at = "act" /\
        said' \in {<<"data", x, y>> : x \in IdAt(doing[t].src), y \in IdAt(doing[t].dst)}
    BY <2>1, <2>2 DEF handle_node_message, At
  <2>4. /\ doing[t].src \in tree.live /\ tree.id[doing[t].src] = doing[t].want
        /\ doing[t].dst \in tree.live /\ tree.id[doing[t].dst] = doing[t].to
    BY <1>0, <2>3 DEF Holds, Shape
  <2>5. IdAt(doing[t].src) = {doing[t].want} /\ IdAt(doing[t].dst) = {doing[t].to}
    BY <2>4 DEF IdAt
  <2> QED BY <2>3, <2>5
<1> QED BY <1>2, <1>3

(* A created node is answered for by its own id, and empty data goes from and  *)
(* to the nodes its message names, under the same condition.                   *)
THEOREM AlwaysTellsTheTruth == Spec => TellsTheTruth
<1>1. IInv /\ [Next]_vars =>
        [\A t \in Thread \ disturbed :
           /\ Tells(t, "command") => said'[2] = doing[t].did
           /\ Tells(t, "data") => said'[2] = doing[t].want /\ said'[3] = doing[t].to]_vars
  BY TellingStep
<1> QED BY <1>1, Invariance, PTL DEF Spec, TellsTheTruth

=============================================================================
