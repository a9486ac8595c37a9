----------------------------- MODULE TreeHandlers -----------------------------
(***************************************************************************)
(* The handlers of src/programs/handlers.c over the tree of TreeOps.  A    *)
(* creation and a deletion hold the tree's lock from the first read to the *)
(* last write.  tree_find_node takes no lock: called by a handler it reads *)
(* ctx->root, ids and arrays one after the other while other threads link, *)
(* move and free nodes.  The pointer it returns is used after that, when   *)
(* the node may be freed and its memory be another node's.  An id is       *)
(* passed on as a pointer into the node, so it is read in the critical     *)
(* section of the call it is passed to.                                    *)
(***************************************************************************)
EXTENDS TreeOps

CONSTANTS
  Thread,   \* threads that dispatch commands
  Receiver, \* those of them that dispatch messages also
  JUNK,     \* what the allocator may leave of an id: no node's id
  MaxIds    \* bound of the model: ids generated in one behaviour

ASSUME TreeHandlersAssumption == Receiver \subseteq Thread

VARIABLES
  tree, counter,   \* as in Tree
  remains,         \* the id written last at each address, or JUNK
  doing,           \* per thread: the handler it is in
  search,          \* per thread: the tree_find_node it is in
  disturbed,       \* history: threads beside whose search a node was deleted or an
                   \* array changed as they read it, or whose node others freed
  said,            \* history: what the last step sent, its kind and ids
  crashed          \* the null or stray pointer that ended the process

vars == <<tree, counter, remains, doing, search, disturbed, said, crashed>>
memory == <<tree, counter, remains>>

NamedIds == 0..counter
Running == crashed = "no"

(* op is the type of the message, "command" for the command that creates; want *)
(* and to are the ids in it; src, dst, new the pointers a handler has; did is  *)
(* history, the id of the node it has created or deleted.                      *)
Nothing == [op |-> "none", at |-> "idle", want |-> NULL, to |-> NULL,
            src |-> NULL, dst |-> NULL, new |-> NULL, did |-> NULL]

(* The locals of tree_find_node: the queue, the node whose children it pushes  *)
(* and the slot it comes to; node is the answer once it is over.  there is     *)
(* history: the node sought was linked at the start and ever since.            *)
NoSearch == [at |-> "none", queue |-> <<>>, node |-> NULL, slot |-> 0, there |-> FALSE]

Idle(t) == doing[t] = Nothing /\ Running
At(t, op, place) == doing[t].op = op /\ doing[t].at = place /\ Running
Searching(t, place) == search[t].at = place /\ Running

(* What a read of the id at n may give. *)
IdAt(n) == IF n \in tree.live THEN {tree.id[n]} ELSE {JUNK, remains[n]}

(* The id thread t searches for. *)
Sought(t) == IF doing[t].at = "source" THEN doing[t].want ELSE doing[t].to

Held(t) == {doing[t].src, doing[t].dst, doing[t].new} \ {NULL}

Return(t) ==
  /\ doing' = [doing EXCEPT ![t] = Nothing]
  /\ search' = [search EXCEPT ![t] = NoSearch]
  /\ disturbed' = disturbed \ {t}

-----------------------------------------------------------------------------
(* Changes of the tree, and the searches they meet *)

(* Other threads in the loop over a children array that this step changes, who *)
(* have come to a slot that is in it for part of the step only: child_count is *)
(* written before the slot, and goes down by one before a deletion adds the    *)
(* children that are adopted.                                                  *)
Racing(t) ==
  {u \in Thread \ {t} :
     LET n   == search[u].node
         old == Len(tree.kids[n])
     IN  /\ search[u].at = "push" /\ n \in tree.live \cap tree'.live
         /\ tree'.kids[n] # tree.kids[n]
         /\ search[u].slot \in (IF tree.live \subseteq tree'.live THEN old + 1 ELSE old) ..
                               Max({old, Len(tree'.kids[n])})}

(* Some of them read the count and the slot in the middle of the step.         *)
(* Deletions disturb all searches and those who hold the node.                 *)
MeetSearches(t) ==
  LET gone == tree.live \ tree'.live
  IN  \E S \in SUBSET Racing(t) :
        /\ search' = [u \in Thread |-> [search[u] EXCEPT
             !.at = IF u \in S THEN "torn" ELSE @,
             !.there = @ /\ tree_find_node(tree', Sought(u)) # NULL]]
        /\ disturbed' = disturbed \cup S \cup
             {u \in Thread \ {t} : \/ gone # {} /\ search[u].at # "none"
                                   \/ Held(u) \cap gone # {}}

(* Thread t deletes the node with id x, if there is one. *)
Delete(t, x) == tree' = tree_delete_node(tree, x) /\ MeetSearches(t)

(* A node at n under the one with id p; accepted or not, an id is used up. *)
Create(n, p) ==
  /\ counter < MaxIds
  /\ n \notin tree.live
  /\ tree' = tree_create_node(tree, n, counter, p)
  /\ remains' = [remains EXCEPT ![n] = counter]
  /\ counter' = counter + 1

-----------------------------------------------------------------------------
(* tree_find_node without the lock *)

Go(t, s) ==
  /\ search' = [search EXCEPT ![t] = s]
  /\ said' = <<>>
  /\ UNCHANGED <<memory, doing, disturbed>>

(* The check of ctx->root, and the search for x it lets begin. *)
Begun(x) ==
  IF tree.root = NULL THEN [NoSearch EXCEPT !.at = "over"]
  ELSE [NoSearch EXCEPT !.at = "root", !.there = tree_find_node(tree, x) # NULL]

Over(s, n) == [s EXCEPT !.at = "over", !.queue = <<>>, !.node = n, !.slot = 0]

(* ctx->root is read a second time. *)
PushRoot(t) ==
  /\ Searching(t, "root")
  /\ Go(t, [search[t] EXCEPT !.at = "pop", !.queue = <<tree.root>>])
  /\ UNCHANGED crashed

(* The id of a freed node may still be there or not. *)
PopNode(t) ==
  LET s == search[t]
      n == Head(s.queue)
  IN  /\ Searching(t, "pop")
      /\ \/ s.queue = <<>> /\ Go(t, Over(s, NULL)) /\ UNCHANGED crashed
         \/ s.queue # <<>> /\ n = NULL /\ Go(t, s) /\ crashed' = "search"
         \/ /\ s.queue # <<>> /\ n # NULL
            /\ \E x \in IdAt(n) :
                 Go(t, IF x = Sought(t) THEN Over(s, n)
                       ELSE [s EXCEPT !.at = "push", !.queue = Tail(@), !.node = n, !.slot = 1])
            /\ UNCHANGED crashed

Pushed(s, m) == [s EXCEPT !.at = "push", !.queue = PushAll(@, <<m>>), !.slot = @ + 1]
Left(s) == [s EXCEPT !.at = "pop", !.node = NULL, !.slot = 0]

(* Mutant of PushChild: the last child is not pushed. *)
PushChild_butlast(t) ==
  LET s == search[t]
  IN  /\ Searching(t, "push") /\ s.node \in tree.live
      /\ Go(t, IF s.slot < Len(tree.kids[s.node]) THEN Pushed(s, tree.kids[s.node][s.slot])
               ELSE Left(s))
      /\ UNCHANGED crashed

(* One turn of the loop over the children, which reads child_count again. *)
PushChild(t) ==
  LET s == search[t]
  IN  /\ Searching(t, "push") /\ s.node \in tree.live
      /\ Go(t, IF s.slot <= Len(tree.kids[s.node]) THEN Pushed(s, tree.kids[s.node][s.slot])
               ELSE Left(s))
      /\ UNCHANGED crashed

(* The same where the array is changing or the node is freed: any pointer that *)
(* was ever written to the slot, or the end of the loop; a freed array may be  *)
(* no memory of the process.                                                   *)
PushStale(t) ==
  LET s == search[t]
      freed == s.at = "push" /\ s.node \notin tree.live
  IN  /\ Running /\ (s.at = "torn" \/ freed)
      /\ \/ /\ s.slot <= MAX_CHILDREN
            /\ \E m \in Node \cup {NULL} : Go(t, Pushed(s, m))
            /\ UNCHANGED crashed
         \/ Go(t, Left(s)) /\ UNCHANGED crashed
         \/ freed /\ Go(t, s) /\ crashed' = "search"

SearchStep(t) == PushRoot(t) \/ PopNode(t) \/ PushChild(t) \/ PushStale(t)

-----------------------------------------------------------------------------
(* parse_message_context *)

(* A message of type op with source x and target y (NULL: it has none) comes: *)
(* its source is searched for,                                                *)
FindSource(t, op, x, y) ==
  /\ Idle(t)
  /\ doing' = [doing EXCEPT ![t] = [Nothing EXCEPT
       !.op = op, !.at = "source", !.want = x, !.to = y]]
  /\ search' = [search EXCEPT ![t] = Begun(x)]
  /\ said' = <<>>
  /\ UNCHANGED <<memory, disturbed, crashed>>

(* Mutant of FindTarget: the root is taken for the source. *)
FindTarget_root(t) ==
  /\ doing[t].at = "source" /\ Searching(t, "over")
  /\ doing' = [doing EXCEPT ![t].src = tree.root, ![t].at = "target"]
  /\ search' = [search EXCEPT ![t] =
       IF doing[t].to = NULL THEN NoSearch ELSE Begun(doing[t].to)]
  /\ said' = <<>>
  /\ UNCHANGED <<memory, disturbed, crashed>>

(* then its target, found or not, *)
FindTarget(t) ==
  /\ doing[t].at = "source" /\ Searching(t, "over")
  /\ doing' = [doing EXCEPT ![t].src = search[t].node, ![t].at = "target"]
  /\ search' = [search EXCEPT ![t] =
       IF doing[t].to = NULL THEN NoSearch ELSE Begun(doing[t].to)]
  /\ said' = <<>>
  /\ UNCHANGED <<memory, disturbed, crashed>>

(* Mutant of EndParse: only the target is looked at. *)
EndParse_anysource(t) ==
  LET dst == search[t].node
  IN  /\ doing[t].at = "target" /\ Running
      /\ search[t].at \in {"none", "over"}
      /\ IF doing[t].to # NULL /\ dst = NULL
         THEN Return(t)
         ELSE /\ doing' = [doing EXCEPT ![t].dst = dst, ![t].at = "act"]
              /\ search' = [search EXCEPT ![t] = NoSearch]
              /\ UNCHANGED disturbed
      /\ said' = <<>>
      /\ UNCHANGED <<memory, crashed>>

(* and if both were found, the handler goes on. *)
EndParse(t) ==
  LET dst == search[t].node
  IN  /\ doing[t].at = "target" /\ Running
      /\ search[t].at \in {"none", "over"}
      /\ IF doing[t].src = NULL \/ (doing[t].to # NULL /\ dst = NULL)
         THEN Return(t)
         ELSE /\ doing' = [doing EXCEPT ![t].dst = dst, ![t].at = "act"]
              /\ search' = [search EXCEPT ![t] = NoSearch]
              /\ UNCHANGED disturbed
      /\ said' = <<>>
      /\ UNCHANGED <<memory, crashed>>

-----------------------------------------------------------------------------
(* The handlers *)

(* Mutant of handle_node_created: the node is put under the one that was found, *)
(* with no search for its id.                                                   *)
handle_node_created_held(t) ==
  /\ At(t, "created", "act")
  /\ \E n \in Node \ tree.live :
        /\ counter < MaxIds
        /\ tree' = AttachNode(tree, n, counter, doing[t].src)
        /\ remains' = [remains EXCEPT ![n] = counter]
        /\ counter' = counter + 1
        /\ doing' = [doing EXCEPT ![t].new = n, ![t].did = counter, ![t].at = "tell"]
  /\ MeetSearches(t)
  /\ said' = <<>>
  /\ UNCHANGED crashed

handle_node_created(t) ==
  /\ At(t, "created", "act")
  /\ \E n \in Node, p \in IdAt(doing[t].src) :
        /\ Create(n, p)
        /\ IF n \in tree'.live
           THEN /\ doing' = [doing EXCEPT ![t].new = n, ![t].did = counter, ![t].at = "tell"]
                /\ MeetSearches(t)
           ELSE Return(t)
  /\ said' = <<>>
  /\ UNCHANGED crashed

(* handle_node_deleted: the check, without the lock, that a root has no       *)
(* children; memory that is freed answers either way.                         *)
CheckRoot(t) ==
  LET n == doing[t].src
  IN  /\ At(t, "deleted", "act")
      /\ \E refused \in BOOLEAN :
            /\ n \in tree.live => (refused <=> tree.isRoot[n] /\ tree.kids[n] # <<>>)
            /\ IF refused THEN Return(t)
               ELSE doing' = [doing EXCEPT ![t].at = "delete"] /\ UNCHANGED <<search, disturbed>>
      /\ said' = <<>>
      /\ UNCHANGED <<memory, crashed>>

(* Mutant of handle_node_deleted: the parent's id is passed. *)
handle_node_deleted_parent(t) ==
  /\ At(t, "deleted", "delete")
  /\ \E x \in IdAt(doing[t].src) :
        LET n == tree_find_node(tree, x)
            p == IF n \in tree.live THEN tree.parent[n] ELSE NULL
        IN  /\ Delete(t, IF p = NULL THEN x ELSE tree.id[p])
            /\ doing' = [doing EXCEPT ![t] = IF tree'.live = tree.live THEN Nothing
                                             ELSE [@ EXCEPT !.did = x, !.at = "tell"]]
  /\ said' = <<>>
  /\ UNCHANGED <<counter, remains, crashed>>

handle_node_deleted(t) ==
  /\ At(t, "deleted", "delete")
  /\ \E x \in IdAt(doing[t].src) :
        IF tree_find_node(tree, x) = NULL
        THEN Return(t) /\ UNCHANGED tree
        ELSE /\ Delete(t, x)
             /\ doing' = [doing EXCEPT ![t].did = x, ![t].at = "tell"]
  /\ said' = <<>>
  /\ UNCHANGED <<counter, remains, crashed>>

(* The message that is to tell of it has no memory for its data: the           *)
(* initialiser leaves notify.data null and the id is copied to it.             *)
FillNotice(t) ==
  /\ doing[t].op \in {"created", "deleted"} /\ doing[t].at = "tell" /\ Running
  /\ crashed' = "data"
  /\ said' = <<>>
  /\ UNCHANGED <<memory, doing, search, disturbed>>

(* Mutant of handle_node_message: source and target are exchanged. *)
handle_node_message_exchanged(t) ==
  /\ At(t, "data", "act") /\ doing[t].dst # NULL
  /\ said' \in {<<"data", x, y>> : x \in IdAt(doing[t].dst), y \in IdAt(doing[t].src)}
  /\ Return(t)
  /\ UNCHANGED <<memory, crashed>>

(* handle_node_message: tree_can_communicate is external and may refuse; a     *)
(* message without a target has a null pointer for one; forward.data is null   *)
(* as notify.data is, and only empty data can be copied to it.                 *)
handle_node_message(t) ==
  /\ At(t, "data", "act")
  /\ \/ Return(t) /\ said' = <<>> /\ UNCHANGED crashed
     \/ /\ crashed' = IF doing[t].dst = NULL THEN "target" ELSE "data"
        /\ said' = <<>> /\ UNCHANGED <<doing, search, disturbed>>
     \/ /\ doing[t].dst # NULL
        /\ said' \in {<<"data", x, y>> : x \in IdAt(doing[t].src), y \in IdAt(doing[t].dst)}
        /\ Return(t) /\ UNCHANGED crashed
  /\ UNCHANGED memory

(* handle_create_command with parent id p, *)
handle_create_command(t, p) ==
  /\ Idle(t)
  /\ \E n \in Node :
        /\ Create(n, p)
        /\ IF n \in tree'.live
           THEN /\ doing' = [doing EXCEPT ![t] = [Nothing EXCEPT
                      !.op = "command", !.at = "tell", !.new = n, !.did = counter]]
                /\ MeetSearches(t)
           ELSE UNCHANGED <<doing, search, disturbed>>
  /\ said' = <<>>
  /\ UNCHANGED crashed

(* and its answer, which reads the id in the new node after the unlock. *)
AnswerCommand(t) ==
  /\ At(t, "command", "tell")
  /\ \E x \in IdAt(doing[t].new) : said' = <<"command", x>>
  /\ Return(t)
  /\ UNCHANGED <<memory, crashed>>

handle_delete_command(t, x) ==
  /\ Idle(t)
  /\ Delete(t, x)
  /\ said' = <<>>
  /\ UNCHANGED <<counter, remains, doing, crashed>>

Init ==
  /\ tree = EmptyTree /\ counter = 0
  /\ remains = [n \in Node |-> JUNK]
  /\ doing = [t \in Thread |-> Nothing] /\ search = [t \in Thread |-> NoSearch]
  /\ disturbed = {} /\ said = <<>> /\ crashed = "no"

(* Bound of the model: only data comes with a target, which only its handler uses. *)
Targets(op) == IF op = "data" THEN NamedIds \cup {NULL} ELSE {NULL}

Next ==
  \E t \in Thread :
    \/ \E op \in {"created", "deleted", "data"}, x \in NamedIds : \E y \in Targets(op) :
          t \in Receiver /\ FindSource(t, op, x, y)
    \/ SearchStep(t) \/ FindTarget(t) \/ EndParse(t)
    \/ handle_node_created(t) \/ CheckRoot(t) \/ handle_node_deleted(t) \/ FillNotice(t)
    \/ handle_node_message(t)
    \/ \E p \in NamedIds \cup {NULL} : handle_create_command(t, p)
    \/ AnswerCommand(t)
    \/ \E x \in NamedIds : handle_delete_command(t, x)

Spec == Init /\ [][Next]_vars

-----------------------------------------------------------------------------
(* A handler that acts has found its source, and one that tells has a node to  *)
(* tell of.                                                                    *)
TypeOK ==
  /\ TreeType(tree)
  /\ counter \in Nat
  /\ remains \in [Node -> Nat \cup {JUNK}]
  /\ disturbed \subseteq Thread
  /\ crashed \in {"no", "search", "target", "data"}
  /\ \A t \in Thread :
       /\ search[t].queue \in Seq(Node \cup {NULL}) /\ search[t].node \in Node \cup {NULL}
       /\ doing[t].src \in Node \cup {NULL} /\ doing[t].dst \in Node \cup {NULL}
       /\ doing[t].at \in {"act", "delete"} => doing[t].src # NULL
       /\ doing[t].at = "tell" => (IF doing[t].op = "deleted" THEN doing[t].src
                                                            ELSE doing[t].new) \in Node

(* Whatever freed memory the handlers read and pass to the tree for an id, the *)
(* tree stays a tree and its ids different.                                    *)
SoundAnyway ==
  /\ LinksAgree(tree) /\ Acyclic(tree) /\ ChildrenFit(tree)
  /\ \A m, n \in tree.live : tree.id[m] = tree.id[n] => m = n

(* A search that creations in other threads overlap, but no deletion and no    *)
(* change of the very array it reads, finds a node that is linked throughout.  *)
FindsWhatIsThere ==
  \A t \in Thread \ disturbed :
    search[t].at = "over" /\ search[t].there => search[t].node # NULL

(* What a handler's searches have found is allocated and is what the message   *)
(* names, and the node it has created is still its own, unless another thread  *)
(* has deleted any node during one of its searches, changed the array the      *)
(* search was reading, or deleted one of these nodes since.                    *)
HoldsWhatItFound ==
  \A t \in Thread \ disturbed :
    /\ search[t].at = "over" /\ search[t].node # NULL =>
         search[t].node \in tree.live /\ tree.id[search[t].node] = Sought(t)
    /\ doing[t].src # NULL /\ doing[t].at # "tell" =>
         doing[t].src \in tree.live /\ tree.id[doing[t].src] = doing[t].want
    /\ doing[t].dst # NULL /\ doing[t].at # "tell" =>
         doing[t].dst \in tree.live /\ tree.id[doing[t].dst] = doing[t].to
    /\ doing[t].new # NULL =>
         doing[t].new \in tree.live /\ tree.id[doing[t].new] = doing[t].did

(* The steps of thread t in which it creates, deletes and tells. *)
Creates(t) == doing[t].at = "act" /\ doing'[t].new # NULL
Deletes(t) == doing[t].at = "delete" /\ doing'[t].at = "tell"
Tells(t, op) == doing[t].op = op /\ said' # <<>> /\ said'[1] = op /\ doing'[t] # doing[t]

(* A deletion that a message asks for deletes the node it names and no other;  *)
(* a creation puts the node under the one it names, or makes it the root of a  *)
(* tree that has lost its own: when no other thread has deleted a node during  *)
(* the handler's searches, changed the array they were reading, or deleted     *)
(* the node that they found.                                                   *)
ActsOnItsSource ==
  [][\A t \in Thread \ disturbed :
       /\ Deletes(t) => tree.live \ tree'.live = {doing[t].src}
                        /\ tree.id[doing[t].src] = doing[t].want
       /\ Creates(t) => tree'.parent[doing'[t].new] =
                          IF tree.root = NULL THEN NULL ELSE doing[t].src]_vars

(* The command that creates answers with the id of the node it has created,    *)
(* and what is forwarded, which is empty data alone, goes from and to the      *)
(* nodes its message names: under the same condition as ActsOnItsSource.       *)
TellsTheTruth ==
  [][\A t \in Thread \ disturbed :
       /\ Tells(t, "command") => said'[2] = doing[t].did
       /\ Tells(t, "data") => said'[2] = doing[t].want /\ said'[3] = doing[t].to]_vars

-----------------------------------------------------------------------------
(* Thread safety lock (tree.h:25): a search finds what is linked throughout,   *)
(* whatever other threads do to other nodes.                                   *)
AlwaysFindsWhatIsThere ==
  \A t \in Thread : search[t].at = "over" /\ search[t].there => search[t].node # NULL

(* Broadcast creation to network, Broadcast deletion (handlers.c:45, :75),     *)
(* Forward message (handlers.c:101): what was done comes to be sent.           *)
SendingSurvives == crashed # "data"

(* Cannot delete root node with children (handlers.c:65). *)
RootsKeepChildren ==
  [][\A t \in Thread : Deletes(t) =>
       \A n \in tree.live \ tree'.live : ~tree.isRoot[n] \/ tree.kids[n] = <<>>]_vars

(* Delete node and handle orphans (handlers.c:70): the node meant is the source *)
(* of the message, whatever other threads do.                                   *)
AlwaysDeletesItsSource ==
  [][\A t \in Thread : Deletes(t) => doing'[t].did = doing[t].want]_vars

(* Forward message to target (handlers.c:101): there is one. *)
TargetIsThere == crashed # "target"

=============================================================================
