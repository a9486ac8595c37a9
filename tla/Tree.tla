--------------------------------- MODULE Tree ---------------------------------
(***************************************************************************)
(* The tree component: one TreeContext and the callers of its operations.  *)
(* Creating, deleting and destroying hold ctx->lock from their first read  *)
(* to their last write, so each is one action, whichever thread calls it.  *)
(***************************************************************************)
EXTENDS TreeOps

CONSTANT MaxIds   \* bound of the model: ids generated in one behaviour

VARIABLES
  tree,      \* the TreeContext and its nodes
  counter,   \* generate_node_id's static counter, the number in the next id
  open       \* FALSE once tree_destroy has freed the context

vars == <<tree, counter, open>>

(* Ids callers may name: all that were generated, and one that was not. *)
NamedIds == 0..counter

tree_create ==
  /\ tree = EmptyTree
  /\ counter = 0
  /\ open = TRUE

(* tree_create_node(ctx, p); n is what calloc returns.  When it returns NULL  *)
(* nothing happens: no step.                                                  *)
CreateNode(n, p) ==
  /\ open
  /\ counter < MaxIds
  /\ tree' = tree_create_node(tree, n, counter, p)
  /\ counter' = counter + 1
  /\ UNCHANGED open

(* tree_delete_node(ctx, x); when x is not found nothing happens. *)
DeleteNode(x) ==
  /\ open
  /\ tree' = tree_delete_node(tree, x)
  /\ UNCHANGED <<counter, open>>

DestroyTree ==
  /\ open
  /\ tree' = tree_destroy(tree)
  /\ open' = FALSE
  /\ UNCHANGED counter

Init == tree_create

Next ==
  \/ \E n \in Node \ tree.live, p \in NamedIds \cup {NULL} : CreateNode(n, p)
  \/ \E x \in NamedIds : DeleteNode(x)
  \/ DestroyTree

Spec == Init /\ [][Next]_vars

-----------------------------------------------------------------------------
TypeOK ==
  /\ TreeType(tree)
  /\ counter \in Nat
  /\ open \in BOOLEAN

(* No pointer of the forest dangles and none is one-sided: a node is in the    *)
(* children array of its parent, once, and in no other; ctx->root is live.     *)
(* Unlinking, adoption and casting off (tree_delete_node, handle_orphans)      *)
(* each change three pointers of two nodes.                                    *)
PointersAgree == LinksAgree(tree)

(* No chain of parents comes back to where it started, in the main tree or in  *)
(* a cast-off one, so every recursive traversal ends.                          *)
NoCycles == Acyclic(tree)

(* is_root marks exactly the nodes without a parent: the root, and the nodes   *)
(* handle_orphans cast off.                                                    *)
RootFlagsTrue == RootsHaveNoParent(tree)

(* handle_orphans never writes past the end of the grandparent's array.        *)
ArraysFit == ChildrenFit(tree)

(* tree_get_size is the number of nodes allocated, cast-off ones included.     *)
SizeCountsAllocated == open => CountExact(tree)

(* Ids are unique and were all generated by this context's counter.            *)
IdsUnique ==
  /\ \A n \in tree.live : tree.id[n] \in 0..(counter - 1)
  /\ \A m, n \in tree.live : tree.id[m] = tree.id[n] => m = n

(* What the tree keeps beside its pointers follows every rewiring of them.     *)
BooksKept == RootFlagsTrue /\ ArraysFit /\ SizeCountsAllocated /\ IdsUnique

(* The breadth-first search through children arrays finds by id exactly the    *)
(* nodes whose chain of parents ends at ctx->root, provided no level of the    *)
(* tree outgrows the search's queue.                                           *)
FindSeesLinked ==
  \A n \in tree.live :
    tree_find_node(tree, tree.id[n]) = IF n \in Linked(tree) THEN n ELSE NULL

(* Breadth-first and depth-first traversal visit the same nodes, each once,    *)
(* and both visit a parent before its children (state_load relies on it);      *)
(* tree_get_depth is the longest chain of parents that ends at ctx->root.      *)
ParentsFirst(order) ==
  \A i \in DOMAIN order : tree.parent[order[i]] # NULL =>
    \E j \in 1..(i - 1) : order[j] = tree.parent[order[i]]

TraversalsAgree ==
  /\ Range(BfsOrder(tree)) = Range(DfsOrder(tree))
  /\ IsInjective(BfsOrder(tree)) /\ IsInjective(DfsOrder(tree))
  /\ ParentsFirst(BfsOrder(tree)) /\ ParentsFirst(DfsOrder(tree))
  /\ tree_get_depth(tree) =
       Max({0} \cup {Cardinality(Ancestors(tree, n)) : n \in Linked(tree)})

-----------------------------------------------------------------------------
(* The deletion of a node loses no other node when the node has a parent and   *)
(* the parent has room for all of its children in the slot it vacates.         *)
DeletedNode == CHOOSE n \in tree.live : n \notin tree'.live

NoNodeLostWithRoom ==
  [][open /\ open' /\ tree'.live # tree.live /\ tree'.live \subseteq tree.live
       /\ RoomForOrphans(tree, DeletedNode)
     => Linked(tree') = Linked(tree) \ {DeletedNode}]_vars

(* A node cut off from ctx->root is never found again and never freed, not     *)
(* even by tree_destroy: what handle_orphans cast off is out of reach for good.*)
DetachedForGood ==
  [][tree.live \ Linked(tree) \subseteq tree'.live \ Linked(tree')]_vars

(* Two children that keep the same parent keep their order: closing the gap    *)
(* and appending orphans never reorders siblings.                              *)
Before(t, m, n) ==
  \E p \in t.live : \E i, j \in DOMAIN t.kids[p] :
    i < j /\ t.kids[p][i] = m /\ t.kids[p][j] = n

SiblingsKeepOrder ==
  [][\A m, n \in tree.live \cap tree'.live :
       /\ Before(tree, m, n)
       /\ tree'.parent[m] # NULL
       /\ tree'.parent[m] = tree'.parent[n]
       => Before(tree', m, n)]_vars

-----------------------------------------------------------------------------
(* The tree implements the forest. *)
Abstract == INSTANCE Forest WITH
  Member <- Node, members <- tree.live, above <- tree.parent

ImplementsForest == Abstract!FSpec

-----------------------------------------------------------------------------
(* What the tests say of an orphan (tests/unit/test_tree.c:88-92): after the   *)
(* deletion of a node in the middle of the tree, each of its children can be   *)
(* found by its id, under the grandparent or as a root.                        *)
OrphansCanBeFound ==
  [][\A n \in tree.live \ tree'.live :
       open' /\ tree.parent[n] # NULL
       => \A c \in Range(tree.kids[n]) : tree_find_node(tree', tree.id[c]) = c]_vars

(* What the tests say of a search (tests/unit/test_tree.c:133-137): a node     *)
(* that is in the tree is found by its id.                                     *)
LinkedNodesAreFound ==
  \A n \in Linked(tree) : tree_find_node(tree, tree.id[n]) = n

=============================================================================
