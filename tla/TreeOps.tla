------------------------------- MODULE TreeOps -------------------------------
(***************************************************************************)
(* The data structure of src/runtime/tree/tree.c, as operators from one    *)
(* value of a TreeContext to the next.  A tree is a record:                *)
(*                                                                         *)
(*   live    the addresses of the TreeNodes allocated and not yet freed    *)
(*   root    ctx->root            total   ctx->total_nodes                 *)
(*   parent  node->parent         kids    node->children[0..child_count-1] *)
(*   isRoot  node->is_root        id      node->id                         *)
(*                                                                         *)
(* The last four are functions on live: freed memory has no fields.  A     *)
(* node's address and its id are different things, as in the code: free    *)
(* lets an address be used again, and a load overwrites an id.             *)
(***************************************************************************)
EXTENDS Naturals, Sequences, FiniteSets, SequencesExt

CONSTANTS
  Node,            \* addresses create_node's calloc may return
  NULL,            \* the null pointer, and an absent parent_id
  MAX_CHILDREN,    \* slots of the array node->children
  MAX_QUEUE_SIZE   \* slots of the NodeQueue of a breadth-first search

ASSUME TreeAssumption ==
  /\ NULL \notin Node
  /\ MAX_CHILDREN \in Nat
  /\ MAX_QUEUE_SIZE \in Nat \ {0}

EmptyTree ==
  [live |-> {}, root |-> NULL, total |-> 0,
   parent |-> <<>>, kids |-> <<>>, isRoot |-> <<>>, id |-> <<>>]

-----------------------------------------------------------------------------
(* Searches and traversals *)

(* Mutant of PushAll: a queue no longer than one node's children. *)
PushAll_short(queue, nodes) ==
  LET all == queue \o nodes
  IN  SubSeq(all, 1, Min({Len(all), MAX_CHILDREN}))

(* The pushes of a node's children in order; queue_push drops what does not fit. *)
PushAll(queue, nodes) ==
  LET all == queue \o nodes
  IN  SubSeq(all, 1, Min({Len(all), MAX_QUEUE_SIZE}))

(* The order in which the bounded breadth-first loop pops the nodes of t.      *)
(* In a tree (Acyclic) no node is popped twice: Cardinality(t.live) turns of   *)
(* the loop empty the queue.                                                   *)
BfsOrder(t) ==
  LET loop[k \in Nat] ==
        IF k = 0
        THEN [queue |-> IF t.root = NULL THEN <<>> ELSE <<t.root>>, popped |-> <<>>]
        ELSE LET s == loop[k - 1]
             IN  IF s.queue = <<>> THEN s
                 ELSE [queue  |-> PushAll(Tail(s.queue), t.kids[Head(s.queue)]),
                       popped |-> Append(s.popped, Head(s.queue))]
  IN  loop[Cardinality(t.live)].popped

(* Node n is the first that the search for id x pops with that id. *)
FirstPopped(t, n, x) ==
  LET order == BfsOrder(t)
  IN  \E i \in DOMAIN order :
         /\ order[i] = n
         /\ t.id[n] = x
         /\ \A j \in 1..(i - 1) : t.id[order[j]] # x

(* Mutant of tree_find_node: a search of every node allocated. *)
tree_find_node_anywhere(t, x) ==
  IF \E n \in t.live : t.id[n] = x
  THEN CHOOSE n \in t.live : t.id[n] = x
  ELSE NULL

tree_find_node(t, x) ==
  IF \E n \in t.live : FirstPopped(t, n, x)
  THEN CHOOSE n \in t.live : FirstPopped(t, n, x)
  ELSE NULL

(* The pre-order of dfs_helper; k bounds its recursion. *)
DfsOrder(t) ==
  LET visit[k \in Nat] ==
        [n \in t.live |->
           IF k = 0 THEN <<>>
           ELSE <<n>> \o FlattenSeq([i \in DOMAIN t.kids[n] |-> visit[k - 1][t.kids[n][i]]])]
  IN  IF t.root = NULL THEN <<>> ELSE visit[Cardinality(t.live)][t.root]

tree_get_depth(t) ==
  LET height[k \in Nat] ==
        [n \in t.live |->
           IF k = 0 THEN 0
           ELSE 1 + Max({0} \cup {height[k - 1][c] : c \in Range(t.kids[n])})]
  IN  IF t.root = NULL THEN 0 ELSE height[Cardinality(t.live)][t.root]

-----------------------------------------------------------------------------
(* Creating a node *)

(* A new node at address n with id x under parent q, or as ctx->root (q = NULL). *)
AttachNode(t, n, x, q) ==
  LET live == t.live \cup {n}
  IN  [live   |-> live,
       root   |-> IF q = NULL THEN n ELSE t.root,
       total  |-> t.total + 1,
       parent |-> [m \in live |-> IF m = n THEN q ELSE t.parent[m]],
       kids   |-> [m \in live |-> IF m = n THEN <<>>
                                  ELSE IF m = q THEN Append(t.kids[m], n)
                                  ELSE t.kids[m]],
       isRoot |-> [m \in live |-> IF m = n THEN q = NULL ELSE t.isRoot[m]],
       id     |-> [m \in live |-> IF m = n THEN x ELSE t.id[m]]]

HasRoom(t, q) == Len(t.kids[q]) < MAX_CHILDREN

(* tree_create_node with parent id p, whose create_node got address n and    *)
(* whose generate_node_id produced x.  An empty tree ignores p; a rejected   *)
(* node is freed again, so the tree is the same.                             *)
tree_create_node(t, n, x, p) ==
  LET q == tree_find_node(t, p)
  IN  IF t.root = NULL THEN AttachNode(t, n, x, NULL)
      ELSE IF p # NULL /\ q # NULL /\ HasRoom(t, q) THEN AttachNode(t, n, x, q)
      ELSE t

-----------------------------------------------------------------------------
(* Deleting a node *)

(* The (first) slot of children that holds n. *)
SlotOf(children, n) ==
  CHOOSE i \in DOMAIN children :
    children[i] = n /\ \A j \in 1..(i - 1) : children[j] # n

(* Mutant of CloseGap: the slot is cleared and stays. *)
CloseGap_cleared(children, n) == [children EXCEPT ![SlotOf(children, n)] = NULL]

(* children with the slot that holds n closed up by the memmove. *)
CloseGap(children, n) == RemoveAt(children, SlotOf(children, n))

(* The children of the parent of n once n is unlinked. *)
Siblings(t, n) ==
  IF t.parent[n] = NULL THEN <<>> ELSE CloseGap(t.kids[t.parent[n]], n)

(* Mutant of Adoptable: the slot n vacates is not counted. *)
Adoptable_oneless(t, n) ==
  IF t.parent[n] = NULL THEN 0
  ELSE Min({MAX_CHILDREN - Len(t.kids[t.parent[n]]), Len(t.kids[n])})

(* How many of its grandchildren the parent of n has free slots for. *)
Adoptable(t, n) ==
  IF t.parent[n] = NULL THEN 0
  ELSE Min({MAX_CHILDREN - Len(Siblings(t, n)), Len(t.kids[n])})

(* Mutant of Adopted: the children are taken from the last to the first. *)
Adopted_reversed(t, n) == Reverse(SubSeq(t.kids[n], 1, Adoptable(t, n)))

(* handle_orphans goes through the children of n in order: the first ones go   *)
(* to the grandparent, the ones after its last free slot become roots.         *)
Adopted(t, n) == SubSeq(t.kids[n], 1, Adoptable(t, n))
CastOff(t, n) == SubSeq(t.kids[n], Adoptable(t, n) + 1, Len(t.kids[n]))

(* Mutants of NewParent: an adopted child keeps its parent, goes to ctx->root, *)
(* or to the first child of n.                                                 *)
NewParent_stale(t, n, m) ==
  IF m \in Range(CastOff(t, n)) THEN NULL ELSE t.parent[m]

NewParent_root(t, n, m) ==
  IF m \in Range(Adopted(t, n)) THEN t.root ELSE NewParent_stale(t, n, m)

NewParent_first(t, n, m) ==
  IF m \in Range(Adopted(t, n)) THEN t.kids[n][1] ELSE NewParent_stale(t, n, m)

(* The fields of a node m that stays, after the deletion of n. *)
NewParent(t, n, m) ==
  IF m \in Range(Adopted(t, n)) THEN t.parent[n]
  ELSE IF m \in Range(CastOff(t, n)) THEN NULL
  ELSE t.parent[m]

(* Mutant of NewKids: the grandparent does not list the children it adopts. *)
NewKids_unlisted(t, n, m) == IF m = t.parent[n] THEN Siblings(t, n) ELSE t.kids[m]

NewKids(t, n, m) ==
  IF m = t.parent[n] THEN Siblings(t, n) \o Adopted(t, n) ELSE t.kids[m]

(* Mutant of NewFlag: a node that is cast off is not marked. *)
NewFlag_unmarked(t, n, m) == t.isRoot[m]

NewFlag(t, n, m) == m \in Range(CastOff(t, n)) \/ t.isRoot[m]

(* tree_delete_node's critical section, once the search has found n. *)
DetachNode(t, n) ==
  LET live == t.live \ {n}
  IN  [live   |-> live,
       root   |-> IF t.parent[n] = NULL /\ t.root = n THEN NULL ELSE t.root,
       total  |-> t.total - 1,
       parent |-> [m \in live |-> NewParent(t, n, m)],
       kids   |-> [m \in live |-> NewKids(t, n, m)],
       isRoot |-> [m \in live |-> NewFlag(t, n, m)],
       id     |-> [m \in live |-> t.id[m]]]

tree_delete_node(t, x) ==
  LET n == tree_find_node(t, x)
  IN  IF n = NULL THEN t ELSE DetachNode(t, n)

-----------------------------------------------------------------------------
(* Destroying the tree *)

ClosedUnderKids(t, S) == \A m \in S : Range(t.kids[m]) \subseteq S

(* What the recursion of cleanup_node reaches from ctx->root: the least set    *)
(* that contains the root and the children of its members.                     *)
Descendants(t) ==
  IF t.root = NULL THEN {}
  ELSE {n \in t.live :
          \A S \in SUBSET t.live : t.root \in S /\ ClosedUnderKids(t, S) => n \in S}

(* The nodes tree_destroy leaves allocated; the context itself is freed. *)
tree_destroy(t) ==
  LET live == t.live \ Descendants(t)
  IN  [live   |-> live,
       root   |-> NULL,
       total  |-> 0,
       parent |-> [m \in live |-> t.parent[m]],
       kids   |-> [m \in live |-> t.kids[m]],
       isRoot |-> [m \in live |-> t.isRoot[m]],
       id     |-> [m \in live |-> t.id[m]]]

-----------------------------------------------------------------------------
(* What a tree should be: reference notions the operations are judged by.     *)

ClosedUnderParent(t, S) == \A m \in S : t.parent[m] = NULL \/ t.parent[m] \in S

(* n and everything above it, following parent pointers only. *)
Ancestors(t, n) ==
  {a \in t.live :
     \A S \in SUBSET t.live : n \in S /\ ClosedUnderParent(t, S) => a \in S}

(* The nodes whose chain of parents ends at ctx->root. *)
Linked(t) == {n \in t.live : t.root \in Ancestors(t, n)}

(* The parent of n has room for all of the children of n in the slot n vacates. *)
RoomForOrphans(t, n) ==
  /\ t.parent[n] # NULL
  /\ Len(t.kids[t.parent[n]]) - 1 + Len(t.kids[n]) <= MAX_CHILDREN

TreeType(t) ==
  /\ t = [live |-> t.live, root |-> t.root, total |-> t.total, parent |-> t.parent,
          kids |-> t.kids, isRoot |-> t.isRoot, id |-> t.id]
  /\ t.live \in SUBSET Node
  /\ IsFiniteSet(t.live)
  /\ t.root \in Node \cup {NULL}
  /\ t.total \in Nat
  /\ t.parent \in [t.live -> Node \cup {NULL}]
  /\ t.kids \in [t.live -> Seq(Node)]
  /\ t.isRoot \in [t.live -> BOOLEAN]
  /\ DOMAIN t.id = t.live

(* Parent pointers and children arrays say the same, and name live nodes only. *)
LinksAgree(t) ==
  /\ t.root # NULL => t.root \in t.live /\ t.parent[t.root] = NULL
  /\ \A n \in t.live : t.parent[n] # NULL =>
        t.parent[n] \in t.live /\ n \in Range(t.kids[t.parent[n]])
  /\ \A n \in t.live : \A i \in DOMAIN t.kids[n] :
        t.kids[n][i] \in t.live /\ t.parent[t.kids[n][i]] = n
  /\ \A n \in t.live : \A i, j \in DOMAIN t.kids[n] :
        t.kids[n][i] = t.kids[n][j] => i = j

(* Going up from any node of any part of the forest comes to an end. *)
Acyclic(t) ==
  \A S \in SUBSET t.live : S # {} => \E n \in S : t.parent[n] \notin S

RootsHaveNoParent(t) == \A n \in t.live : t.isRoot[n] <=> t.parent[n] = NULL

ChildrenFit(t) == \A n \in t.live : Len(t.kids[n]) <= MAX_CHILDREN

CountExact(t) == t.total = Cardinality(t.live)

=============================================================================
