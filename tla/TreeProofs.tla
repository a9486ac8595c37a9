----------------------------- MODULE TreeProofs -----------------------------
(***************************************************************************)
(* Proofs about Tree, for every set of addresses, every MAX_CHILDREN and   *)
(* every queue size.                                                       *)
(***************************************************************************)
EXTENDS Tree, TreeOpsProofs

-----------------------------------------------------------------------------
(* The inductive invariant: it adds nothing to the properties TLC checks but   *)
(* needs all of them, for each step relies on the pointers agreeing and on     *)
(* there being no cycle.                                                       *)

IInv ==
  /\ Sound(tree)
  /\ RootFlagsTrue
  /\ counter \in Nat
  /\ open \in BOOLEAN
  /\ SizeCountsAllocated
  /\ IdsUnique

LEMMA InitEstablishes == Init => IInv
<1> SUFFICES ASSUME Init PROVE IInv
  OBVIOUS
<1>1. tree = EmptyTree /\ counter = 0 /\ open = TRUE
  BY DEF Init, tree_create
<1>2. /\ tree = [live |-> {}, root |-> NULL, total |-> 0, parent |-> <<>>,
                 kids |-> <<>>, isRoot |-> <<>>, id |-> <<>>]
      /\ tree.live = {} /\ tree.root = NULL /\ tree.total = 0
      /\ tree.parent = <<>> /\ tree.kids = <<>> /\ tree.isRoot = <<>> /\ tree.id = <<>>
  BY <1>1 DEF EmptyTree
<1>3. IsFiniteSet({}) /\ Cardinality({}) = 0
  BY FS_EmptySet
<1>4. TreeType(tree)
  BY <1>2, <1>3 DEF TreeType
<1>5. LinksAgree(tree) /\ Acyclic(tree) /\ RootFlagsTrue /\ ChildrenFit(tree)
  BY <1>2 DEF LinksAgree, Acyclic, RootFlagsTrue, RootsHaveNoParent, ChildrenFit
<1>6. SizeCountsAllocated /\ IdsUnique
  BY <1>2, <1>3 DEF SizeCountsAllocated, CountExact, IdsUnique
<1> QED BY <1>1, <1>4, <1>5, <1>6 DEF IInv, Sound

LEMMA StepPreserves == IInv /\ [Next]_vars => IInv'
<1> SUFFICES ASSUME IInv, [Next]_vars PROVE IInv'
  OBVIOUS
<1>1. /\ Sound(tree) /\ RootsHaveNoParent(tree) /\ counter \in Nat /\ open \in BOOLEAN
      /\ open => CountExact(tree)
  BY DEF IInv, RootFlagsTrue, SizeCountsAllocated
<1>2. ASSUME NEW n \in Node \ tree.live, NEW p \in NamedIds \cup {NULL}, CreateNode(n, p)
      PROVE  IInv'
  <2>1. open /\ open' = open /\ counter' = counter + 1 /\ counter' \in Nat
    BY <1>1, <1>2 DEF CreateNode
  <2>2. CASE tree' = tree
    <3>1. IdsUnique'
      BY <1>1, <2>1, <2>2 DEF IInv, IdsUnique
    <3> QED BY <1>1, <2>1, <2>2, <3>1 DEF IInv, SizeCountsAllocated, RootFlagsTrue
  <2>3. ASSUME NEW q \in tree.live \cup {NULL},
               q = NULL => tree.root = NULL,
               q # NULL => HasRoom(tree, q),
               tree' = AttachNode(tree, n, counter, q)
        PROVE  IInv'
    <3>1. Sound(tree') /\ RootFlagsTrue'
      BY <1>1, <2>3, AttachSound DEF RootFlagsTrue
    <3>2. /\ tree'.live = tree.live \cup {n}
          /\ tree'.id = [m \in tree.live \cup {n} |-> IF m = n THEN counter ELSE tree.id[m]]
      BY <2>3 DEF AttachNode
    <3>3. SizeCountsAllocated'
      BY <1>1, <2>1, <2>3, AttachCounts DEF SizeCountsAllocated
    <3>4. IdsUnique'
      BY <1>1, <2>1, <3>2 DEF IInv, IdsUnique
    <3> QED BY <1>1, <2>1, <3>1, <3>3, <3>4 DEF IInv
  <2> QED BY <1>1, <1>2, <2>2, <2>3, CreateAttaches DEF CreateNode
<1>3. ASSUME NEW x \in NamedIds, DeleteNode(x) PROVE IInv'
  <2>1. open /\ open' = open /\ counter' = counter
    BY <1>3 DEF DeleteNode
  <2>2. CASE tree' = tree
    BY <1>1, <2>1, <2>2 DEF IInv, IdsUnique, SizeCountsAllocated, RootFlagsTrue
  <2>3. ASSUME NEW n \in tree.live, tree' = DetachNode(tree, n) PROVE IInv'
    <3>1. tree.total > 0 /\ CountExact(tree')
      BY <1>1, <2>1, <2>3, DetachCounts
    <3>2. Sound(tree') /\ RootFlagsTrue'
      BY <1>1, <2>3, <3>1, DetachSound DEF RootFlagsTrue
    <3>3. /\ tree'.live = tree.live \ {n}
          /\ tree'.id = [m \in tree.live \ {n} |-> tree.id[m]]
      BY <2>3 DEF DetachNode
    <3>4. IdsUnique'
      BY <2>1, <3>3 DEF IInv, IdsUnique
    <3> QED BY <1>1, <2>1, <3>1, <3>2, <3>4 DEF IInv, SizeCountsAllocated
  <2> QED BY <1>1, <1>3, <2>2, <2>3, DeleteDetaches DEF DeleteNode
<1>4. ASSUME DestroyTree PROVE IInv'
  <2>1. tree' = tree_destroy(tree) /\ open' = FALSE /\ counter' = counter
    BY <1>4 DEF DestroyTree
  <2>2. Sound(tree') /\ RootFlagsTrue'
    BY <1>1, <2>1, DestroySound DEF RootFlagsTrue
  <2>3. /\ tree'.live \subseteq tree.live
        /\ tree'.id = [m \in tree'.live |-> tree.id[m]]
    BY <2>1 DEF tree_destroy
  <2>4. IdsUnique'
    BY <2>1, <2>3 DEF IInv, IdsUnique
  <2> QED BY <1>1, <2>1, <2>2, <2>4 DEF IInv, SizeCountsAllocated
<1>5. CASE UNCHANGED vars
  BY <1>1, <1>5 DEF IInv, IdsUnique, SizeCountsAllocated, RootFlagsTrue, vars
<1> QED BY <1>2, <1>3, <1>4, <1>5 DEF Next

(* Every reachable tree satisfies the inductive invariant: whatever creations,  *)
(* deletions and destruction tree.c has run, the node structure is sound.      *)
THEOREM Invariance == Spec => []IInv
  BY InitEstablishes, StepPreserves, PTL DEF Spec

-----------------------------------------------------------------------------
(* The invariants TLC checks on a small instance, for every instance. *)

(* Every field of every node keeps its type (create_node, handle_orphans).     *)
THEOREM TypeCorrect == Spec => []TypeOK
<1>1. IInv => TypeOK
  BY DEF IInv, Sound, TypeOK
<1> QED BY <1>1, Invariance, PTL

(* No operation of tree.c leaves a dangling or one-sided pointer.              *)
THEOREM PointersAlwaysAgree == Spec => []PointersAgree
<1>1. IInv => PointersAgree
  BY DEF IInv, Sound, PointersAgree
<1> QED BY <1>1, Invariance, PTL

(* No operation of tree.c closes a cycle: dfs_helper, get_depth_helper and     *)
(* cleanup_node terminate.                                                     *)
THEOREM NeverACycle == Spec => []NoCycles
<1>1. IInv => NoCycles
  BY DEF IInv, Sound, NoCycles
<1> QED BY <1>1, Invariance, PTL

(* is_root is set on exactly the nodes without a parent.                       *)
THEOREM RootFlagsAlwaysTrue == Spec => []RootFlagsTrue
<1>1. IInv => RootFlagsTrue
  BY DEF IInv, Sound, RootFlagsTrue
<1> QED BY <1>1, Invariance, PTL

(* Neither tree_create_node nor handle_orphans overruns a children array.      *)
THEOREM ArraysAlwaysFit == Spec => []ArraysFit
<1>1. IInv => ArraysFit
  BY DEF IInv, Sound, ArraysFit
<1> QED BY <1>1, Invariance, PTL

(* total_nodes is the number of nodes allocated.                               *)
THEOREM SizeAlwaysCounts == Spec => []SizeCountsAllocated
<1>1. IInv => SizeCountsAllocated
  BY DEF IInv
<1> QED BY <1>1, Invariance, PTL

(* generate_node_id never repeats an id among the nodes allocated.             *)
THEOREM IdsAlwaysUnique == Spec => []IdsUnique
<1>1. IInv => IdsUnique
  BY DEF IInv
<1> QED BY <1>1, Invariance, PTL

(* The flags, the arrays, the number of nodes and the ids stay true to the     *)
(* pointers, whatever sequence of operations rewires them.                     *)
THEOREM BooksAlwaysKept == Spec => []BooksKept
<1>1. RootFlagsTrue /\ ArraysFit /\ SizeCountsAllocated /\ IdsUnique => BooksKept
  BY DEF BooksKept
<1> QED BY <1>1, RootFlagsAlwaysTrue, ArraysAlwaysFit, SizeAlwaysCounts, IdsAlwaysUnique, PTL

-----------------------------------------------------------------------------
(* The operations of tree.c, with their arrays and searches, do what the       *)
(* abstract forest allows: a deletion moves only the children of the node      *)
(* deleted, to its parent or to the top, and tree_destroy frees whole trees.   *)
THEOREM TreeImplementsForest == Spec => ImplementsForest
<1>1. Init => Abstract!FInit
  BY DEF Init, tree_create, EmptyTree, Abstract!FInit
<1>2. IInv /\ [Next]_vars => [Abstract!FNext]_(Abstract!fvars)
  <2> SUFFICES ASSUME IInv, [Next]_vars PROVE [Abstract!FNext]_(Abstract!fvars)
    OBVIOUS
  <2>1. Sound(tree) /\ LinksAsSets(tree) /\ NULL \notin tree.live /\ tree.live \subseteq Node
    BY LinksAreSets, TreeAssumption DEF IInv, Sound, TreeType
  <2>2. CASE tree' = tree
    BY <2>2 DEF Abstract!fvars
  <2>3. ASSUME NEW n \in Node \ tree.live, NEW p \in NamedIds \cup {NULL}, CreateNode(n, p)
        PROVE  [Abstract!FNext]_(Abstract!fvars)
    <3>1. ASSUME NEW q \in tree.live \cup {NULL}, tree' = AttachNode(tree, n, counter, q)
          PROVE  Abstract!Enter(n, q)
      <4>1. /\ tree'.live = tree.live \cup {n}
            /\ tree'.parent = [m \in tree.live \cup {n} |->
                                 IF m = n THEN q ELSE tree.parent[m]]
        BY <3>1 DEF AttachNode
      <4> QED BY <4>1 DEF Abstract!Enter
    <3>2. \A q \in tree.live \cup {NULL} : q \in Node \cup {NULL}
      BY <2>1
    <3> QED BY <2>1, <2>2, <2>3, <3>1, <3>2, CreateAttaches DEF CreateNode, Abstract!FNext
  <2>4. ASSUME NEW x \in NamedIds, DeleteNode(x)
        PROVE  [Abstract!FNext]_(Abstract!fvars)
    <3>1. ASSUME NEW n \in tree.live, tree' = DetachNode(tree, n)
          PROVE  Abstract!Leave(n)
      <4> DEFINE p == tree.parent[n]
                 A == Range(Adopted(tree, n))
                 C == Range(CastOff(tree, n))
                 L == tree.live \ {n}
      <4>1. tree'.live = L /\ tree'.parent =
              [m \in L |-> IF m \in A THEN p ELSE IF m \in C THEN NULL ELSE tree.parent[m]]
        BY <3>1 DEF DetachNode, NewParent
      <4>2. A \cup C = {c \in tree.live : tree.parent[c] = n}
        BY <2>1, DetachPieces DEF ChildrenOf
      <4> HIDE DEF p, A, C
      <4>3. \A m \in L : IF tree.parent[m] = n THEN tree'.parent[m] \in {p, NULL}
                         ELSE tree'.parent[m] = tree.parent[m]
        BY <4>1, <4>2
      <4>4. DOMAIN tree'.parent = L /\ tree'.parent = [m \in L |-> tree'.parent[m]]
        BY <4>1
      <4> QED BY <4>1, <4>3, <4>4 DEF Abstract!Leave, p
    <3> QED BY <2>1, <2>2, <2>4, <3>1, DeleteDetaches DEF DeleteNode, Abstract!FNext
  <2>5. ASSUME DestroyTree PROVE Abstract!Dissolve
    <3> DEFINE L == tree.live \ Descendants(tree)
    <3>1. tree'.live = L /\ tree'.parent = [m \in L |-> tree.parent[m]]
      BY <2>5 DEF DestroyTree, tree_destroy
    <3>2. \A m \in L : tree.parent[m] \in L \cup {NULL}
      BY <2>1, SurvivorsApart DEF LinksAsSets
    <3> QED BY <3>1, <3>2 DEF Abstract!Dissolve
  <2>6. CASE UNCHANGED vars
    BY <2>2, <2>6 DEF vars
  <2> QED BY <2>3, <2>4, <2>5, <2>6 DEF Next, Abstract!FNext
<1> QED BY <1>1, <1>2, Invariance, PTL DEF Spec, ImplementsForest, Abstract!FSpec

-----------------------------------------------------------------------------
(* A deletion with room in the grandparent loses no node of the tree.          *)
THEOREM DeletionWithRoomKeepsAll == Spec => NoNodeLostWithRoom
<1> DEFINE Kept == open /\ open' /\ tree'.live # tree.live /\ tree'.live \subseteq tree.live
                     /\ RoomForOrphans(tree, DeletedNode)
                   => Linked(tree') = Linked(tree) \ {DeletedNode}
<1>1. IInv /\ [Next]_vars => [Kept]_vars
  <2> SUFFICES ASSUME IInv, [Next]_vars,
                      open, open', tree'.live # tree.live, tree'.live \subseteq tree.live,
                      RoomForOrphans(tree, DeletedNode)
               PROVE  Linked(tree') = Linked(tree) \ {DeletedNode}
    OBVIOUS
  <2>1. Sound(tree)
    BY DEF IInv
  <2>2. tree' # tree
    OBVIOUS
  <2>3. ASSUME NEW n \in Node \ tree.live, NEW p \in NamedIds \cup {NULL}, CreateNode(n, p)
        PROVE  FALSE
    <3>1. PICK q \in tree.live \cup {NULL} : tree' = AttachNode(tree, n, counter, q)
      BY <2>1, <2>2, <2>3, CreateAttaches DEF CreateNode
    <3>2. n \in tree'.live
      BY <3>1 DEF AttachNode
    <3> QED BY <3>2
  <2>4. ASSUME NEW x \in NamedIds, DeleteNode(x)
        PROVE  Linked(tree') = Linked(tree) \ {DeletedNode}
    <3>1. PICK n \in tree.live : tree' = DetachNode(tree, n)
      BY <2>1, <2>2, <2>4, DeleteDetaches DEF DeleteNode
    <3>2. tree'.live = tree.live \ {n}
      BY <3>1 DEF DetachNode
    <3>3. DeletedNode = n
      BY <3>2 DEF DeletedNode
    <3> QED BY <2>1, <3>1, <3>3, DetachKeepsLinked
  <2>5. ASSUME DestroyTree PROVE FALSE
    BY <2>5 DEF DestroyTree
  <2>6. CASE UNCHANGED vars
    BY <2>2, <2>6 DEF vars
  <2> QED BY <2>3, <2>4, <2>5, <2>6 DEF Next
<1> QED BY <1>1, Invariance, PTL DEF Spec, NoNodeLostWithRoom

-----------------------------------------------------------------------------
(* The searches *)

(* tree_find_node sees what is linked to ctx->root and nothing else, as long   *)
(* as the nodes linked there are no more than a NodeQueue holds: push_queue    *)
(* then never drops one.                                                       *)
THEOREM SearchFindsLinked == Spec => [](Roomy(tree) => FindSeesLinked)
<1>1. IInv => (Roomy(tree) => FindSeesLinked)
  <2> SUFFICES ASSUME IInv, Roomy(tree), NEW n \in tree.live
               PROVE  tree_find_node(tree, tree.id[n]) = IF n \in Linked(tree) THEN n ELSE NULL
    BY DEF FindSeesLinked
  <2>1. Sound(tree) /\ \A m \in tree.live : tree.id[m] = tree.id[n] => m = n
    BY DEF IInv, IdsUnique
  <2>2. Linked(tree) \in SUBSET tree.live
    BY <2>1, RootIsLinked
  <2>3. CASE n \in Linked(tree)
    BY <2>1, <2>2, <2>3, LinkedIsFound
  <2>4. CASE n \notin Linked(tree)
    <3> DEFINE m == tree_find_node(tree, tree.id[n])
    <3>1. \/ m = NULL
          \/ m \in Linked(tree) /\ tree.id[m] = tree.id[n]
      BY <2>1, FoundIsLinked
    <3> QED BY <2>1, <2>2, <2>4, <3>1
  <2> QED BY <2>3, <2>4
<1> QED BY <1>1, Invariance, PTL

(* Under the same condition the two traversals visit the same nodes, each once *)
(* and after its parent; tree_get_depth is right whatever the queue holds.     *)
THEOREM TraversalsAlwaysAgree == Spec => [](Roomy(tree) => TraversalsAgree)
<1>1. IInv => (Roomy(tree) => TraversalsAgree)
  <2> SUFFICES ASSUME IInv, Roomy(tree) PROVE TraversalsAgree
    OBVIOUS
  <2>1. Sound(tree)
    BY DEF IInv
  <2>2. /\ Range(BfsOrder(tree)) = Linked(tree) /\ Distinct(BfsOrder(tree))
        /\ ComesAfterParent(tree, BfsOrder(tree))
    BY <2>1, SearchVisits DEF BfsVisits
  <2>3. /\ Range(DfsOrder(tree)) = Linked(tree) /\ Distinct(DfsOrder(tree))
        /\ ComesAfterParent(tree, DfsOrder(tree))
    BY <2>1, DfsVisits, DfsParentsFirst
  <2>4. IsInjective(BfsOrder(tree)) /\ IsInjective(DfsOrder(tree))
    BY <2>2, <2>3 DEF IsInjective, Distinct
  <2>5. ParentsFirst(BfsOrder(tree)) /\ ParentsFirst(DfsOrder(tree))
    BY <2>2, <2>3 DEF ParentsFirst, ComesAfterParent
  <2>6. tree_get_depth(tree) =
          Max({0} \cup {Cardinality(Ancestors(tree, n)) : n \in Linked(tree)})
    BY <2>1, DepthIsDeepest
  <2> QED BY <2>2, <2>3, <2>4, <2>5, <2>6 DEF TraversalsAgree
<1> QED BY <1>1, Invariance, PTL

-----------------------------------------------------------------------------
(* What a step never does *)

LEMMA DestroyFreesLinked ==
  ASSUME NEW t, Sound(t)
  PROVE  Descendants(t) \subseteq Linked(t) /\ Linked(tree_destroy(t)) = {}
<1>1. Linked(t) \in SUBSET t.live /\ ClosedUnderKids(t, Linked(t))
  BY RootIsLinked, KidsLinked DEF ClosedUnderKids
<1>2. Descendants(t) \subseteq Linked(t)
  BY <1>1, RootIsLinked DEF Descendants
<1>3. Sound(tree_destroy(t)) /\ tree_destroy(t).root = NULL
  BY DestroySound DEF tree_destroy
<1> QED BY <1>2, <1>3, RootIsLinked

(* What handle_orphans casts off, and all below it, stays allocated and cut    *)
(* off from ctx->root through every later operation, tree_destroy included.    *)
THEOREM DetachedStaysDetached == Spec => DetachedForGood
<1> DEFINE Kept == tree.live \ Linked(tree) \subseteq tree'.live \ Linked(tree')
<1>1. IInv /\ [Next]_vars => [Kept]_vars
  <2> SUFFICES ASSUME IInv, [Next]_vars, tree' # tree PROVE Kept
    BY DEF vars
  <2>1. Sound(tree)
    BY DEF IInv
  <2>2. ASSUME NEW n \in Node \ tree.live, NEW p \in NamedIds \cup {NULL}, CreateNode(n, p)
        PROVE  Kept
    <3>1. PICK q \in tree.live \cup {NULL} :
            /\ q = NULL => tree.root = NULL
            /\ q # NULL => HasRoom(tree, q)
            /\ tree' = AttachNode(tree, n, counter, q)
      BY <2>1, <2>2, CreateAttaches DEF CreateNode
    <3>2. tree'.live = tree.live \cup {n}
      BY <3>1 DEF AttachNode
    <3>3. Linked(tree') \subseteq Linked(tree) \cup {n}
      BY <2>1, <3>1, AttachLinks
    <3> QED BY <3>2, <3>3
  <2>3. ASSUME NEW x \in NamedIds, DeleteNode(x) PROVE Kept
    <3> DEFINE n == tree_find_node(tree, x)
    <3>1. n # NULL /\ tree' = DetachNode(tree, n)
      BY <2>3 DEF DeleteNode, tree_delete_node
    <3>2. n \in Linked(tree) /\ n \in tree.live
      BY <2>1, <3>1, FoundIsLinked, RootIsLinked
    <3> HIDE DEF n
    <3>3. tree'.live = tree.live \ {n}
      BY <3>1 DEF DetachNode
    <3>4. Linked(tree') \subseteq Linked(tree) \ {n}
      BY <2>1, <3>1, <3>2, DetachLinks
    <3> QED BY <3>2, <3>3, <3>4
  <2>4. ASSUME DestroyTree PROVE Kept
    <3>1. tree' = tree_destroy(tree)
      BY <2>4 DEF DestroyTree
    <3>2. tree'.live = tree.live \ Descendants(tree)
      BY <3>1 DEF tree_destroy
    <3> QED BY <2>1, <3>1, <3>2, DestroyFreesLinked
  <2>5. CASE UNCHANGED vars
    BY <2>5 DEF vars
  <2> QED BY <2>2, <2>3, <2>4, <2>5 DEF Next
<1> QED BY <1>1, Invariance, PTL DEF Spec, DetachedForGood

(* Closing a gap, adopting orphans and destroying a tree keep the order of the *)
(* children that stay together, so later slots never overtake earlier ones.    *)
THEOREM OrderKept == Spec => SiblingsKeepOrder
<1> DEFINE Kept == \A m, n \in tree.live \cap tree'.live :
                     /\ Before(tree, m, n)
                     /\ tree'.parent[m] # NULL
                     /\ tree'.parent[m] = tree'.parent[n]
                     => Before(tree', m, n)
<1>1. IInv /\ [Next]_vars => [Kept]_vars
  <2> SUFFICES ASSUME IInv, [Next]_vars, tree' # tree,
                      NEW m \in tree.live \cap tree'.live, NEW n \in tree.live \cap tree'.live,
                      Before(tree, m, n),
                      tree'.parent[m] # NULL, tree'.parent[m] = tree'.parent[n]
               PROVE  Before(tree', m, n)
    BY DEF vars
  <2>1. Sound(tree)
    BY DEF IInv
  <2>2. PICK p \in tree.live : Precedes(tree.kids[p], m, n)
    BY DEF Before, Precedes
  <2>3. ASSUME NEW q \in tree'.live, Precedes(tree'.kids[q], m, n) PROVE Before(tree', m, n)
    BY <2>3 DEF Before, Precedes
  <2>4. p # NULL /\ tree.parent[m] = p /\ tree.kids[p] \in Seq(Node)
    <3>1. m \in Range(tree.kids[p])
      BY <2>2 DEF Precedes, Range
    <3> QED BY <2>1, <3>1, KidsAre DEF Sound, TreeType
  <2>5. ASSUME NEW y \in Node \ tree.live, NEW z \in NamedIds \cup {NULL}, CreateNode(y, z)
        PROVE  Before(tree', m, n)
    <3>1. PICK q \in tree.live \cup {NULL} : tree' = AttachNode(tree, y, counter, q)
      BY <2>1, <2>5, CreateAttaches DEF CreateNode
    <3>2. /\ p \in tree'.live
          /\ tree'.kids[p] = IF p = q THEN Append(tree.kids[p], y) ELSE tree.kids[p]
      BY <3>1 DEF AttachNode
    <3>3. Precedes(tree'.kids[p], m, n)
      BY <2>2, <2>4, <3>2, AppendKeepsOrder
    <3> QED BY <2>3, <3>2, <3>3
  <2>6. ASSUME NEW x \in NamedIds, DeleteNode(x) PROVE Before(tree', m, n)
    <3>1. PICK y \in tree.live : tree' = DetachNode(tree, y)
      BY <2>1, <2>6, DeleteDetaches DEF DeleteNode
    <3>2. SiblingsIn(tree, m, n, p)
      BY <2>2 DEF SiblingsIn
    <3>3. SiblingsIn(tree', m, n, tree'.parent[m])
      BY <2>1, <3>1, <3>2, DetachKeepsOrder
    <3> QED BY <2>3, <3>3 DEF SiblingsIn
  <2>7. ASSUME DestroyTree PROVE Before(tree', m, n)
    <3>1. /\ tree'.live = tree.live \ Descendants(tree)
          /\ tree'.kids = [y \in tree.live \ Descendants(tree) |-> tree.kids[y]]
      BY <2>7 DEF DestroyTree, tree_destroy
    <3>2. p \in tree'.live
      BY <2>1, <2>4, <3>1, LinksAreSets, SurvivorsApart DEF Sound, LinksAsSets
    <3> QED BY <2>2, <2>3, <3>1, <3>2
  <2>8. CASE UNCHANGED vars
    BY <2>8 DEF vars
  <2> QED BY <2>5, <2>6, <2>7, <2>8 DEF Next
<1> QED BY <1>1, Invariance, PTL DEF Spec, SiblingsKeepOrder

=============================================================================
