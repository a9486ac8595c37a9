------------------------------- MODULE StateFile -------------------------------
(***************************************************************************)
(* src/runtime/state/state.c: one StateContext whose state_save and        *)
(* state_load run one at a time (ctx->lock), the tree they save and fill,  *)
(* the other threads that use the tree meanwhile, the file on disk, and    *)
(* processes that end at any moment and start again from the file.         *)
(*                                                                         *)
(* The tree's lock is free between two accesses of a save or a load to the *)
(* tree: each of those is a step.  A file is the sequence of its whole     *)
(* items, the header first; a torn item is as good as none, for fread      *)
(* answers both alike.  Disks do not fill up.                              *)
(*                                                                         *)
(* A write to memory that is freed may damage the heap.  What a process    *)
(* does after that, before it ends, is not modelled.                       *)
(***************************************************************************)
EXTENDS TreeOps

CONSTANTS
  SameSecond,   \* a process may start in the second its predecessor started in
  LoadAnyTime,  \* state_load is called on trees with nodes too
  MaxIds,       \* bound of the model: no create or load begins after so many ids
  MaxSecond     \* bound of the model: the last second a process starts in

ASSUME StateFileAssumption ==
  /\ {SameSecond, LoadAnyTime} \subseteq BOOLEAN
  /\ {MaxIds, MaxSecond} \subseteq Nat
  /\ NULL \notin Nat \X Nat

VARIABLES
  tree,      \* the TreeContext and its nodes
  second,    \* time(NULL), the first number in an id
  counter,   \* generate_node_id's static counter, the second number in an id
  header,    \* ctx->header
  file,      \* the file on disk; <<>> when there is none or it has no header
  io,        \* where state_save or state_load is, and its locals
  damaged,   \* a load has written to freed memory and harmed what is there now
  quiet,     \* ghost: no other thread has used the tree since io left "idle"
  snapshot   \* ghost: what the last save wrote, once it returned, if quiet

treeVars == <<tree, second, counter>>
fileVars == <<header, file>>
ghostVars == <<quiet, snapshot>>
vars == <<treeVars, fileVars, ghostVars, io, damaged>>

NewId == <<second, counter>>

(* The checksum of a sequence of records, as one that tells all of them apart; *)
(* that of no record is 0.                                                     *)
calculate_checksum(records) == records

EmptyHeader == [node_count |-> 0, checksum |-> calculate_checksum(<<>>)]

(* What save_node writes of node n. *)
NodeState(t, n) ==
  [id        |-> t.id[n],
   parent_id |-> IF t.parent[n] = NULL THEN NULL ELSE t.id[t.parent[n]],
   is_root   |-> t.isRoot[n]]

(* The records of a traversal, parents before their children. *)
NodeStates(t) == [i \in DOMAIN DfsOrder(t) |-> NodeState(t, DfsOrder(t)[i])]

Idle == [pc |-> "idle", out |-> <<>>, count |-> 0, done |-> 0, node |-> NULL]

-----------------------------------------------------------------------------
(* A process starts, with state_create and tree_create. *)
Init ==
  /\ tree = EmptyTree
  /\ second = 0
  /\ counter = 0
  /\ header = EmptyHeader
  /\ file = <<>>
  /\ io = Idle
  /\ damaged = FALSE
  /\ quiet = TRUE
  /\ snapshot = NULL

(* The process ends, in the middle of whatever it does, and another starts. *)
Restart ==
  /\ \/ SameSecond /\ UNCHANGED second
     \/ second < MaxSecond /\ second' = second + 1
  /\ tree' = EmptyTree
  /\ counter' = 0
  /\ header' = EmptyHeader
  /\ io' = Idle
  /\ damaged' = FALSE
  /\ quiet' = TRUE
  /\ UNCHANGED <<file, snapshot>>

-----------------------------------------------------------------------------
(* Other threads, and this one when it neither saves nor loads *)

CreateNode(n, p) ==
  /\ counter < MaxIds
  /\ tree' = tree_create_node(tree, n, NewId, p)
  /\ counter' = counter + 1
  /\ quiet' = FALSE
  /\ UNCHANGED <<second, fileVars, io, snapshot, damaged>>

DeleteNode(x) ==
  /\ tree' = tree_delete_node(tree, x)
  /\ quiet' = FALSE
  /\ UNCHANGED <<second, counter, fileVars, io, snapshot, damaged>>

-----------------------------------------------------------------------------
(* state_save *)

(* fopen empties the file that is there. *)
SaveOpen ==
  /\ io.pc = "idle"
  /\ file' = <<>>
  /\ io' = [io EXCEPT !.pc = "count"]
  /\ quiet' = TRUE
  /\ snapshot' = NULL
  /\ UNCHANGED <<treeVars, header, damaged>>

SaveCount ==
  /\ io.pc = "count"
  /\ header' = [header EXCEPT !.node_count = Len(DfsOrder(tree))]
  /\ io' = [io EXCEPT !.pc = "nodes", !.out = <<header'>>]
  /\ UNCHANGED <<treeVars, file, ghostVars, damaged>>

SaveNodes ==
  /\ io.pc = "nodes"
  /\ io' = [io EXCEPT !.pc = "flush", !.out = @ \o NodeStates(tree)]
  /\ UNCHANGED <<treeVars, fileVars, ghostVars, damaged>>

(* The stream's buffer goes to disk piece by piece, at the latest in fseek. *)
Flush ==
  /\ io.pc = "flush"
  /\ Len(file) < Len(io.out)
  /\ file' = Append(file, io.out[Len(file) + 1])
  /\ UNCHANGED <<treeVars, header, io, ghostVars, damaged>>

(* The stream was opened for writing only: nothing can be read back from it,   *)
(* so the checksum is that of no record.                                       *)
SaveSeal ==
  /\ io.pc = "flush"
  /\ file = io.out
  /\ header' = [header EXCEPT !.checksum = calculate_checksum(<<>>)]
  /\ file' = [file EXCEPT ![1] = header']
  /\ io' = Idle
  /\ snapshot' = IF quiet THEN Tail(file) ELSE NULL
  /\ UNCHANGED <<treeVars, quiet, damaged>>

state_save == SaveOpen \/ SaveCount \/ SaveNodes \/ Flush \/ SaveSeal

-----------------------------------------------------------------------------
(* state_load; without a header it returns at once and nothing changes. *)

LoadOpen ==
  /\ io.pc = "idle"
  /\ file # <<>>
  /\ LoadAnyTime \/ tree.root = NULL
  /\ counter < MaxIds
  /\ header' = Head(file)
  /\ io' = [io EXCEPT !.pc = "load", !.count = Head(file).node_count]
  /\ quiet' = (tree.live = {})
  /\ UNCHANGED <<treeVars, file, snapshot, damaged>>

(* Mutants of MoreToLoad: the loop ends a record too late, or too early. *)
MoreToLoad_late == io.done <= io.count /\ io.done < Len(Tail(file))
MoreToLoad_early == io.done + 1 < io.count /\ io.done < Len(Tail(file))

MoreToLoad == io.done < io.count /\ io.done < Len(Tail(file))

NextRecord == Tail(file)[io.done + 1]

(* The next record becomes a node at address n, unless the tree rejects it. *)
LoadNode(n) ==
  /\ io.pc = "load"
  /\ MoreToLoad
  /\ tree' = tree_create_node(tree, n, NewId, NextRecord.parent_id)
  /\ counter' = counter + 1
  /\ io' = IF n \in tree'.live THEN [io EXCEPT !.pc = "name", !.node = n]
                               ELSE [io EXCEPT !.done = @ + 1]
  /\ UNCHANGED <<second, fileVars, ghostVars, damaged>>

(* No memory for another node: the record is skipped. *)
SkipRecord ==
  /\ io.pc = "load"
  /\ MoreToLoad
  /\ tree.live = Node
  /\ io' = [io EXCEPT !.done = @ + 1]
  /\ UNCHANGED <<treeVars, fileVars, ghostVars, damaged>>

(* Mutant of LoadName: the node keeps the id it was generated with. *)
LoadName_unnamed ==
  /\ io.pc = "name"
  /\ io' = [io EXCEPT !.pc = "load", !.done = @ + 1, !.node = NULL]
  /\ UNCHANGED <<treeVars, fileVars, ghostVars, damaged>>

(* Outside the tree's lock: if the node has been freed meanwhile, the write    *)
(* goes to the node that has its address now, or to what the allocator or      *)
(* other code keeps there, which may matter or not.                            *)
LoadName ==
  /\ io.pc = "name"
  /\ IF io.node \in tree.live
     THEN /\ tree' = [tree EXCEPT !.id[io.node] = NextRecord.id,
                                  !.isRoot[io.node] = NextRecord.is_root]
          /\ UNCHANGED damaged
     ELSE damaged' \in BOOLEAN /\ UNCHANGED tree
  /\ io' = [io EXCEPT !.pc = "load", !.done = @ + 1, !.node = NULL]
  /\ UNCHANGED <<second, counter, fileVars, ghostVars>>

(* Every record is read, or one is missing. *)
LoadEnd ==
  /\ io.pc = "load"
  /\ ~MoreToLoad
  /\ io' = Idle
  /\ UNCHANGED <<treeVars, fileVars, ghostVars, damaged>>

state_load ==
  LoadOpen \/ (\E n \in Node \ tree.live : LoadNode(n)) \/ SkipRecord \/ LoadName \/ LoadEnd

Ids == {tree.id[n] : n \in tree.live}

(* A process whose heap is damaged only ends. *)
Next ==
  \/ Restart
  \/ /\ ~damaged
     /\ \/ \E n \in Node \ tree.live, p \in Ids \cup {NULL} : CreateNode(n, p)
        \/ \E x \in Ids : DeleteNode(x)
        \/ state_save
        \/ state_load

Spec == Init /\ [][Next]_vars

-----------------------------------------------------------------------------
IsHeader(h) == h = [node_count |-> h.node_count, checksum |-> h.checksum] /\ h.node_count \in Nat

TypeOK ==
  /\ TreeType(tree)
  /\ second \in 0..MaxSecond /\ counter \in Nat
  /\ IsHeader(header)
  /\ file # <<>> => IsHeader(Head(file))
  /\ io.pc \in {"idle", "count", "nodes", "flush", "load", "name"}
  /\ io.done \in 0..io.count
  /\ io.node \in Node \cup {NULL}
  /\ {damaged, quiet} \subseteq BOOLEAN

(* Two records of a file never have the same id. *)
DistinctIds(records) ==
  \A i, j \in DOMAIN records : records[i].id = records[j].id => i = j

(* A load into an empty tree has, after each record of any file a crash may    *)
(* have left, built exactly the tree those records were saved from: every      *)
(* parent comes before its children, and finds room for them.                  *)
LoadRebuilds ==
  quiet /\ io.pc = "load" /\ DistinctIds(Tail(file)) =>
    NodeStates(tree) = SubSeq(Tail(file), 1, io.done)

(* What a save wrote while no other thread used the tree is what a load into   *)
(* an empty tree brings back, however many processes have ended in between.    *)
SavedIsRestored ==
  [][LoadEnd /\ quiet /\ snapshot # NULL /\ DistinctIds(snapshot)
       => NodeStates(tree') = snapshot]_vars

-----------------------------------------------------------------------------
(* tree.h:10, "Unique node identifier", and tree.c:75, "Generate unique node ID":   *)
(* nodes in the tree have different ids, those loaded and those created since. *)
LinkedIdsUnique ==
  \A m, n \in Linked(tree) : tree.id[m] = tree.id[n] => m = n

(* state.c:159, "Create node", and the lines after it: what a load writes goes *)
(* to the node it has created, and to no memory that is freed.                 *)
WritesToNodes == ~damaged

(* state.h:25, "Number of nodes in state": the count a save leaves in the      *)
(* header is the number of records it wrote.                                   *)
CountsItsNodes == [][SaveSeal => Head(file').node_count = Len(Tail(file'))]_vars

(* state.h:26, "State data checksum": the checksum a save leaves in the header *)
(* is the one state_verify_checksum computes from the records.                 *)
state_verify_checksum(f, h) == calculate_checksum(Tail(f)) = h.checksum

ChecksumCoversData == [][SaveSeal => state_verify_checksum(file', header')]_vars

(* tree.h:12, "If this is a root node": what is marked as a root has no parent,*)
(* and what has no parent is marked.                                           *)
RootFlagsTrue == io.pc = "idle" => RootsHaveNoParent(tree)

=============================================================================
