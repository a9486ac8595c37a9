# PhantomID: specifications, model checking and proofs

TLA+ modules for the C sources of PhantomID (`src/src/`): what its components
keep, what their operations do step by step, what TLC checks of small instances
of them and what TLAPS proves of all of them. Paths below are relative to
`src/src/`; tests are in `src/tests/`.

## The system

PhantomID is a server that keeps a tree of anonymous nodes, one per connected
client, and passes messages between them. There are three layers.

- `runtime/` holds the contexts: the node tree, the network server, the state
  file and the command line. Each context has a mutex of its own, and the
  headers offer them to several threads ("Thread safety lock"). The repository
  itself creates no thread: the concurrency modelled is that of callers of this
  interface, which is what the locks are for.
- `interface/` holds what programs are built on: the table of program
  interfaces, the message queues, the registries of handlers, the state cache.
- `programs/` is the one program there is, `phantomid`: hooks that tie the two
  together. It uses functions the repository does not define
  (`message_create`, `program_get_tree`, `tree_can_communicate`, ...).

### Inventory

| Component | State | Operations | Correct when | Module |
|---|---|---|---|---|
| Node tree, `runtime/tree` | nodes with parent, children array, id, root flag; root and count of the context; the id counter | create, delete with adoption of orphans, find, traverse breadth-first and depth-first, depth, size, destroy | pointers agree in both directions, no cycles, arrays fit, ids unique, searches see the whole tree, deletions lose nobody | `TreeOps`, `Tree` |
| Network server, `runtime/network` | listening socket, slots, count of connections | start, stop, destroy, one poll, send, broadcast | slots hold open sockets, each its own; no socket leaked; nobody else's descriptor closed; a poll ends | `Network` |
| State file, `runtime/state` | header of the context, the file | save, load, create | what was saved comes back, also after a crash in the middle; header and records agree | `StateFile` |
| Message queue, `interface/message.c` | ring of slots, head, tail, count, next id | send, forward, broadcast, register a handler | a bounded queue in order; ids distinct | `MessageQueue` |
| Command registry, `interface/command.c` | entries of type and handler, lock | register, execute, route | one entry a type, the last handler registered is called, never under the lock | `HandlerRegistry` |
| Program lifecycle, `interface/program.c` | table of interfaces, programs, their contexts | register, create, start, stop, destroy, run | failures undo what was done; contexts have one owner | `Program` |
| Handlers, `programs/handlers.c` | none; nodes found and used outside the tree's lock | create, delete, message, network status, commands | the node named is the node acted on, what is told is what was done, the tree stays a tree | `TreeHandlers` |
| State cache, `interface/state.c` | array of entries, change handlers, file | set, get, delete, save, load, register | entries unique, handlers told after each change, saved caches load | `StateCache` |
| PhantomID state, `programs/state.c` | configuration, last save | save all, change handler, check | what the cache refers to is alive; saving does not block | none, see *Not modelled* |
| Command line, `runtime/cli` | running flag, last error | node, net, state commands | a result and its error message agree | none, see *Not modelled* |

Calls go downwards: a program's hooks call the interfaces, which call the
contexts. Callbacks go upwards: the network has pointers for connect, disconnect
and data handlers, which nothing sets; the registries call handlers outside
their locks. `state_load` and `state_save` go through the public operations of the
tree and take its lock again for each of them.

### What is hard

- **Order of threads.** A start takes no lock at all; `accept` runs before the
  lock is taken, and the descriptor set is built before `select` and used after;
  a save walks the tree twice; a load names a node after the tree's lock is
  gone; a handler is looked up before an unlock and called after it; a message's
  nodes are found by searches that take no lock, and used after them; changes of
  the cache are told to handlers after the unlock.
- **The same thread twice.** A handler that calls back into a component whose
  lock is held waits for itself.
- **Partial failure.** A start that fails half way, a creation that fails after
  three of its four steps, orphans for whom there is no room.
- **Crash and restart.** A process may end in the middle of a save or a load;
  ids are told apart by the second a process starts in and a counter.
- **Reuse.** Addresses after `free`, descriptors after `close`, slots, ring
  positions and message ids all come round again.
- **Boundaries.** Arrays of children, the queue of a search, the ring, the
  registries, the table of interfaces.

`PROJECT.json` lists each hazard at its line, with the properties that would
catch it going wrong, or the reason why none does yet.

## The modules

### `TreeOps`, `Tree`, `Forest`, `TreeOpsProofs`, `TreeProofs`: the node tree

`TreeOps` translates `tree.c` function by function to operators on a record for
the context and its nodes; pointers are addresses, addresses are reused after
`free`, and a node's id is data that a load may overwrite. Children arrays are
sequences of at most `MAX_CHILDREN`, a constant that the sources use and do not
define. The search queue is the bounded one of the code: what does not fit is
dropped silently. `handle_orphans` is modelled child by child with the room
that is left, including what happens to a child for whom there is none.

`Tree` is the component. Creation, deletion and the traversals hold the lock from
their first read to their last write and are therefore one action each, and so
is destruction, after which there is nothing to share. `tree_find_node`,
`tree_get_depth` and `tree_get_size` take no lock: what `Tree` says of them is
what they return when nothing else runs, or when a caller has the lock, as
creation and deletion do. The search beside other threads is in `TreeHandlers`. `Forest` is what the tree promises,
with no arrays, counters or ids: members under members, and a leaving member
hands each of those under it to its own superior or lets it be a root.
`TreeOpsProofs` has the lemmas about the operators, which the proofs about
`Tree`, `TreeHandlers` and `StateFile` share.

Left out: timestamps, `is_active`, `is_admin`, `max_children` and the payload
pointer, which no operation of the tree reads.

### `Network`, `NetworkProofs`: the network server

The poller is a sequence of steps between accesses to shared state, with the
locals of `poll_connections` (`poller`). `network_start`, which takes no lock, is
a sequence of its calls (`StartSocket`, `StartGoesOn`, `StartListens`), each of
which may fail (`StartFails`), with `server_socket` read anew for each; a call
and the read of its argument are one step. `network_stop` is one critical
section. Between any two steps of one the others may move. The environment is
external: the descriptor table of the process (lowest free number first, as
POSIX says), the kernel's queue of pending connections, clients that connect,
send and hang up, and other code that opens and closes files.

`handle_disconnect` locks a mutex its caller holds. POSIX leaves open what a
default mutex does then; with glibc it blocks. The model blocks: no step of the
poller follows `handle_disconnect`, and the lock is never free again. `FD_SET`
of an invalid descriptor, which a concurrent stop can cause, is a choice between
an abort and a poll that sees nothing.

Left out: `network_send` and `network_broadcast`, which change no state of the
server; handlers and node ids of connections, because nothing in the repository
registers the first or sets the second, so that `network_send` finds no
connection by its id.

### `StateFile`, `StateFileProofs`: saving and loading

`state_save` and `state_load` are steps between which the tree's lock is free:
count, write the records, seal the header; open, create a node, name it.
`Restart` ends the process in any state, keeps the file as far as it was
written, and starts with an empty tree, `second` being the time a new process
generates ids with; it may be the second the process before it started in. A
file is the sequence of its items, header first; a torn
one counts as absent because `fread` answers both alike. `calculate_checksum`
is taken as one that tells records apart; a real one collides, which no property
here depends on. `LoadName` writes to a node that another thread may have freed
meanwhile: to the node that has its address now, or into freed memory, which may
damage the heap or not (`damaged`). What a process does with a damaged heap
before it ends is undefined, and not modelled: it only ends. The ghost variables `quiet` and `snapshot` remember whether
other threads used the tree meanwhile, and what the last undisturbed save wrote.

Left out: full disks and failing writes; `state_save` ignores their results.

### `MessageQueue`, `BoundedFifo`, `InterfaceProofs`: the ring of messages

`send_message` is one critical section and one action. Nothing in the
repository takes messages out; the consumer is external, and does with `head`
and `count` what the fields are for. `BoundedFifo` is a queue that numbers what
it takes. Ids come round (`IdRange` stands for 2^32). The module's general names
begin with `queue` or `Queue`, so that `InterfaceProofs` can extend it together
with `HandlerRegistry`, of which it knows nothing.

Left out: the incoming queue, which nothing uses; `validate_message`, `encode`
and `decode`, which keep no state.

### `HandlerRegistry`, `HandlerBindings`, `InterfaceProofs`: handlers

The registry of `command.c`; the one in `message.c` registers in the same way
(`Bind`). The lock is explicit here, because the point of the code is what it
does not do under it: a thread asks, gets the lock, and registers, or finds a
handler and is in it after the unlock, where it may ask again. `stack` is the
calls a thread is in. `HandlerBindings` is a table from types to handlers that
at most `capacity` types can be in.

Left out: the response of a command and the cleanup of the registry, which
nothing calls.

### `StateCache`, `CacheMap`, `StateCacheProofs`: the state cache

`interface/state.c`. `set_entry` (`Overwrite`, `AddEntry`), `delete_entry`,
`save_state` and `load_state` hold the lock from the search to the last write
and are one action each. Two things the code does without the lock are steps of
their own: `register_handler` compares `handler_count` with `MAX_HANDLERS`
before it locks (`CheckRoom`) and registers after it, and after every change a
thread walks along the handlers (`PassOver`, `CallHandler`, `EndWalk`), reading
`handler_count` at each turn, while others change entries and handlers. A
handler first looks at the entry it is told of, as `handle_state_change` of
`programs/state.c` does, and returns (`HandlerReturns`) or never does: that one
goes on to create a node, which waits for ever when the change was made by
`phantom_save_state` under the lock of the tree. After a load each handler is
called with NULL for an id, for which `get_entry` finds nothing, so that it
looks at nothing (`Concerned`, and `about = {}`). An entry
is what it is found by (type and id: `Key`) and its data (`Value`).
`Registrar` is the set of threads that register handlers; `Weightless` the
entries whose bytes leave the rotating sum of the checksum at 0. A file is the
entries that came to be written and the checksum in the header, which
`save_state` computes from a stream opened for writing only, that is from
nothing (`ReadBack`). `Restart` ends the process at any point.

`news` is history: the keys whose type has a handler and whose last change no
handler has looked at. `CacheMap` is what the cache promises: a map from keys to
data, a saved part of it, and, per thread, the keys it goes on to tell of (none
after a load).

Left out: the other fields of the header, sums that come round to 0, a full
disk during a save except as a shorter file, and who owns the data of an entry:
the interface copies the pointer.

### `TreeHandlers`, `TreeHandlersProofs`: the handlers of messages and commands

`programs/handlers.c` over `TreeOps`. A message names a source and perhaps a
target by id; `parse_message_context` searches for the one and then the other
with `tree_find_node`, which takes no lock. The search is a sequence of steps
(`PushRoot`, `PopNode`, `PushChild`): it reads `ctx->root` twice, the id of each
node in its queue, and at each turn of the loop over the children the count and
one slot, while other threads create and delete. Where it meets freed memory, or
a children array in the middle of a change (`Racing`, `MeetSearches`), it reads
any pointer that was ever in the slot, or the end of the array, or ends the
process (`PushStale`).

The handler uses the pointers after that: to check that a root has no children
(`CheckRoot`), as the source of the id it passes to `tree_create_node` or
`tree_delete_node`, and in what it sends. An id is passed to the tree as a
pointer into the node and is read in the critical section of the call. What a
read of a freed node gives is what was written there last, or what the allocator
left (`JUNK`), or the id of the node that has its address now (`IdAt`).

Once a node is created or deleted by a message its notice is filled through
`notify.data`, which the initialiser leaves null, so the process ends there
(`FillNotice`), and so it does with a message that forwards any data;
only an empty one is sent. `crashed` says which null or stray pointer ended the
process. What is told to anyone is therefore the answer to a creating command
(`AnswerCommand`) and the ends of an empty message.

`there` (the node sought is linked, from the start of the search on),
`disturbed` (threads beside whose search a node was deleted or the array they
read was changed, or who hold a node another thread has freed), `said` (what the
last step sent) and `did` (the node a handler created or deleted) are history.
The file includes a header whose `MessageContext` conflicts with its own and
calls `program_get_tree` and `tree_can_communicate`, which are defined nowhere;
the model takes the first as the accessor of the tree and the second as
external, with either answer.

Left out: the network status message, whose effect on the cache is
`StateCache`'s, the status command, which changes nothing, and the registration
of the handlers.

### `Program`, `ProgramProofs`: the lifecycle

`program.c` takes no lock: one thread makes the calls, and each is one action
with every outcome it can have. `CreatedBefore` and `DestroyedAfter` are the
contexts that exist when a step of a creation fails and those the error path of
that step destroys. The init, run and cleanup hooks belong to the program.
`program.c` includes no header of the runtime, so its calls there are
implicitly declared; the model takes them as calls of the real prototypes, with
the missing third argument of `cli_create` being whatever the register holds.

## Model checking

Each run is one `.cfg` file with its module `MC...`. These must pass:

| Run | Shows |
|---|---|
| `MCTree.cfg` | With five addresses, two children a node and a search queue no level outgrows: pointers agree, no cycles, flags, arrays, sizes and ids are right (`BooksKept`), searches, traversals and depth agree with the parent pointers (`FindSeesLinked`, `TraversalsAgree`); deletions with room for the orphans lose nobody; what is cut off stays cut off; siblings keep their order; the tree implements `Forest`. |
| `MCNetwork.cfg` | With two slots, two clients, starts that may fail at each call and a file of other code: slots hold sockets of their own (`SlotsHoldOwnSockets`), nothing is leaked (`NoSocketLeaked`), only a stop closes a file, through the number in `server_socket` (`OnlyStopClosesFiles`), and a poll ends (`PollEnds`), in every order of poller, starts and stops. |
| `MCStateFile.cfg` | With three addresses, crashes at any step, processes that start in one second, loads into any tree and other threads at work on it: a load into an empty tree has after each record built the tree the records came from (`LoadRebuilds`), and what was saved undisturbed is what it brings back (`SavedIsRestored`). |
| `MCMessageQueue.cfg` | Three slots, five ids: ids in the queue are distinct and the ring is a bounded queue that numbers its messages, also when ring and ids come round. |
| `MCHandlerRegistry.cfg` | Two threads, three types for two entries, calls two deep: no handler under the lock, and `HandlerBindings` is implemented. |
| `MCProgram.cfg` | Two programs, a table of two for three names, memory for four contexts: whatever fails, contexts have one owner. |
| `MCStateCache.cfg` | Two threads, one of which registers, two keys, three types for two handlers, which need not return: the array of entries implements `CacheMap`, no entry set or deleted that has a handler is overlooked (`NoNewsLost`), and each is looked at some time (`NewsArrives`). |
| `MCTreeHandlers.cfg` | Two threads, one in the handlers of messages and both in those of commands, three addresses, three ids: whatever freed memory is read the tree stays a tree (`SoundAnyway`); a search that no deletion and no change of the array it reads disturbs finds what is linked all the time (`FindsWhatIsThere`); and a handler not disturbed holds what it found (`HoldsWhatItFound`), acts on the node its message names (`ActsOnItsSource`) and tells what it did (`TellsTheTruth`). |

Four runs each check one statement of a comment, a header or a test that the
code does not keep; TLC gives the shortest way there.

| Run | Statement | What happens |
|---|---|---|
| `MCTreeOrphans.cfg` | orphans can be found (`tests/unit/test_tree.c:88`) | a child for whom the grandparent has no slot becomes a root nothing refers to |
| `MCNetworkRelock.cfg` | the lock is for thread safety (`network.h:41`) | the first hang-up makes the poller wait for itself |
| `MCTreeHandlersSearch.cfg` | the lock is for thread safety (`tree.h:25`) | a search that takes no lock finds no children where a deletion is about to hand some over, and misses a node that is linked |
| `MCNetworkFiles.cfg` | stopping closes the server socket (`network.c:303`) | a start that fails half-way leaves its number behind, which a file has by the time of the stop |

Nineteen more configurations (in seventeen files) show further disagreements in the same way. They are
kept for whoever repairs the code at these places, and are not among the runs of
`PROJECT.json`.

| Configuration | Statement | What happens |
|---|---|---|
| `MCTreeQueue.cfg` | existing nodes are found (`test_tree.c:133`) | a level wider than the search queue hides the rest of it |
| `MCNetworkStop.cfg`, with `StdinStaysOpen` | stopping closes the server socket (`network.c:303`) | a context that was never started closes descriptor 0 |
| `MCNetworkStop.cfg` | stopping closes client connections (`network.c:295`) | one accepted just before the stop becomes active after it |
| `MCNetworkStop.cfg`, with `CountExact` | the count is that of active connections (`network.h:40`) | a stop does not count down |
| `MCNetworkDisconnect.cfg` | what is handled is a disconnection (`network.c:168`) | a fresh client has the number of an old one in the set that `select` was given |
| `MCStateFileCount.cfg` | the header counts the nodes of the state (`runtime/state/state.h:25`) | another thread adds or deletes a node between the two traversals |
| `MCStateFileFreed.cfg` | what a load writes goes to the node it created (`state.c:159`) | another thread has deleted the node by then, and the write goes to freed memory |
| `MCStateFileSum.cfg` | the header has the checksum of the data (`state.h:26`) | the file is opened for writing only, and reading it back fails |
| `MCStateFileIds.cfg` | ids are unique (`tree.c:75`) | two processes started in the same second |
| `MCStateFileReload.cfg` | ids are unique (`tree.h:10`) | a load into a tree that has the nodes already |
| `MCStateFileFlags.cfg` | root flags mark roots (`tree.h:12`) | a load writes the flag after the node has lost its parent |
| `MCProgramSave.cfg` | a stop saves the state (`program.c:172`) | the tree passed is NULL, and nothing is written |
| `MCProgramCli.cfg` | the command line has its contexts (`cli.h:26`, `cli.h:34`) | `cli_create` is called with two of its three arguments |
| `MCStateCacheRace.cfg` | handlers fit their array (`interface/state.c:201`) | two threads find the last place free before either takes it |
| `MCStateCacheSave.cfg` | the header has the checksum of the data (`interface/state.h:32`) | the file cannot be read back, so what is saved is refused when loaded |
| `MCTreeHandlersSend.cfg` | creations, deletions and messages are sent (`handlers.c:45`, `:75`, `:101`) | the data is copied through a null pointer first |
| `MCTreeHandlersRoot.cfg` | a root with children is not deleted (`handlers.c:65`) | it gets its first child between the check and the deletion |
| `MCTreeHandlersSource.cfg` | the source is what is deleted (`handlers.c:70`) | the source was freed and its address is another node's by then |
| `MCTreeHandlersTarget.cfg` | a message is forwarded to its target (`handlers.c:101`) | one that names no target has a null pointer for it |

### Bounds, and why they are enough

- *Tree.* Five addresses and `MAX_CHILDREN = 2` make every shape that matters to
  a deletion: a middle node with two children, a grandparent with room for
  both, one or none of them, cast-off trees beside the main one, reused
  addresses. `MaxIds = 6` lets one address be used again. The search queue of
  1000 slots is 5 where it must not overflow, 2 where it must.
- *Network.* Two clients and two slots, the first of which serves both one after
  the other. A full table is reached with them, and a refusal at any accept, for
  `set_nonblocking` may fail. Five descriptors are standard input, the listener,
  two clients and one to be reused. Two starts: one to fail or be stopped, one
  after it. One file of other code; behaviours are followed up to the first stop
  that closes it (`CONSTRAINT FilesStayOpen`), which `MCNetworkFiles.cfg` is
  about: after that the other code, closing its own number, may close any socket.
- *State file.* Three nodes are a chain, a root with two children, or a node
  created or reused beside a load of two; four are beyond TLC in five minutes
  with restarts in one second and loads into any tree, and the proofs are for any
  number. One second after the first separates the process that saves from the
  one that loads, where it does not start in the same one.
- *Message queue.* Three slots and five ids: neither divides the other, so ring
  and ids wrap at different times.
- *Handlers.* More types than entries; calls two deep are what the code can
  distinguish, for it keeps nothing about the depth.
- *Programs.* Two programs that share memory for four contexts: creation of the
  second fails for want of memory in some states, and addresses are reused.
- *State cache.* Two keys of different types are two entries, one of which the
  memmove of a deletion moves; three are beyond TLC in five minutes, and the
  proofs are for any number. Two handlers are one that is passed and one that
  is not, and a third type finds no room.
- *Tree handlers.* Three addresses are a source, a target or child, and a node
  created at the address of one that was freed; three ids use each address once,
  or one of them again. One thread dispatches messages and both dispatch
  commands: to a search or a handler other threads are nodes that come and go,
  which commands make them do. Only data messages name targets, for the other
  handlers do not use one. The search queue holds as many nodes as there are.

Symmetry is used in some runs without liveness properties, for addresses,
threads and payloads, which the models only compare. Deadlock is
checked in all runs but those where the system really ends (the tree destroyed,
the process aborted, a null pointer followed) or the bounds end it (no id or
second left), as their `.cfg` files say.

### Fairness

Nothing in the repository polls again and again: `network_run` polls once and
the program calls it once. What can be asked is that a poll that has begun ends.
`MCNetwork` assumes weak fairness of the steps of such a poll (`PollGoesOn`): its
thread is scheduled, `select` returns after 100 ms at the latest, and the lock
it waits for is one a stop gives back. Nothing is assumed of clients, starts,
stops, or of another poll. `PollEnds` allows for the end the code has:
the poller may come to wait for itself in `handle_disconnect`.

`MCStateCache` assumes weak fairness of each thread's walk along the handlers
(`PassOver \/ CallHandler \/ EndWalk`), a loop that takes no lock. It is not
assumed that a handler returns; each looks at its entry first, and walks
of one change call one handler. Nothing is assumed of who changes, saves, loads
or registers, nor that a process goes on: when it ends there is nothing left to
be told.

## Proofs

TLAPS checks these for every value of the constants that satisfies the named
assumption of the module; the assumptions say only that NULL and the like are
not addresses, nor ids where ids are more than values, and that sizes are
numbers, and, for the message queue, that the ring has at least one slot and at
most as many as there are ids (1000 and 2^32 in the code).

- **`TreeOpsProofs`, `TreeProofs`.** `TypeCorrect`, `PointersAlwaysAgree`,
  `NeverACycle`, `BooksAlwaysKept`, `TreeImplementsForest`,
  `DeletionWithRoomKeepsAll`, `SearchFindsLinked`, `TraversalsAlwaysAgree`,
  `DetachedStaysDetached`, `OrderKept`.
  The inductive invariant is that the context, while it is open, is well formed
  (types, links, acyclicity, flags, arrays, counts together), that the counter
  is a number, and that ids are unique. None of the parts is inductive alone:
  that a deletion leaves no one-sided pointer needs that nobody lists a node
  twice, that it closes no cycle needs that links agree in both directions, and
  that arrays fit needs the order in which slots are vacated and filled. Each
  operator has a lemma, in `TreeOpsProofs`, on what it does to the parents and
  arrays of a well formed tree, and the invariant follows action by action.

  `SearchFindsLinked` and `TraversalsAlwaysAgree` are about trees whose linked
  nodes the search queue has room for (`Roomy`); `MCTreeQueue.cfg` shows what
  happens in others. Searches and traversals are recursive functions of a number
  or a node, and what holds of all their values is proved as facts about sets:
  a set of numbers that has 0 and each successor has all (`NumberInduction`), a
  set of nodes that has whatever has all its children in it has every node of an
  acyclic tree (`TreeInduction`), and a definition on the numbers has the
  function it describes (`IterationExists`; `DfsUnrolled`, `BfsUnrolled`,
  `HeightUnrolled` are its uses). The search keeps that its queue and what it has
  passed make up what is linked (`SearchInv`), the breadth-first traversal the
  same and the order of its turns (`TurnInv`), the depth-first one lists each
  node below its start once (`PreorderVisits`) and after its parent
  (`DfsParentsFirst`), and the depth is that of the deepest (`DepthIsDeepest`).
- **`StateFileProofs`.** `TypeCorrect`, `LoadAlwaysRebuilds`, `SavedComesBack`,
  `FewNodesComeBack`.
  While the heap is not damaged the tree is well formed (`TreeKept`) at every
  point of a save, a load, a crash or another thread's change; the file is a
  header and records (`IsFile`), a part of what is being written while it is
  (`IoKept`). That ids are unique is not proved, for they are not:
  `MCStateFileIds.cfg` and `MCStateFileReload.cfg` show both ways in which they
  come twice. The theorems are about loads into an empty tree of files whose
  records have different ids, wherever those come from.

  That a load builds what was saved is proved of files with at most as many
  records as the search queue has slots (`ShortFile`), because a search in a
  larger tree may miss the parent; files are that short when no more nodes than
  slots fit into memory (`FewNodes`), which is how the runs are bounded. Every
  file, and every part of one that a crash leaves, is the first nodes of some
  tree (`FilesKept`). The nodes of the tree being loaded are the records read so
  far in depth-first order (`LoadKept`). In that order the parent of a node is
  the node before it or one above that (`DfsTakesTurns`), so the parent of the
  next record is on the way from the last loaded node to the root (`WayUpAgain`),
  the search finds it because ids differ (`ParentFound`), it has a slot because
  it had one when it was saved (`SlotAgain`), and the new node, last child of a
  parent on that way, comes last (`LeafComesLast`). For `SavedComesBack` the
  header must count all the records, which a save leaves when no other thread
  came between its two traversals (`SnapshotKept`).
- **`InterfaceProofs`**, the message queue: `QueueTypeCorrect`,
  `EndsAlwaysAgree`, `IdsAlwaysDistinct`, `RingImplementsFifo`. To be inductive, distinctness of ids
  needs to say which id each message has: the i-th oldest is as far behind the
  counter as there are messages from it on (`Numbered`). The arithmetic of
  remainders is in five lemmas; the rest of the proof is about places.
- **`InterfaceProofs`**, the handlers: `TypeCorrect`, `TypesAlwaysDistinct`,
  `NeverUnderLock`, `RegistryImplementsBindings`. One entry a type makes the
  first entry found the only one, so a registration changes one binding
  (`Rebinds`, `BindsNew`), and makes the number of types bound the number of
  entries (`BoundCount`), so that a full array is a full table.
- **`NetworkProofs`.** `TypeCorrect`, without a condition; `SlotsAlwaysOwn`,
  `NoSocketEverLeaked` and `OnlyStopsCloseFiles`, as long as no file of other code has been closed
  (`[]FilesStayOpen`), which is where `MCNetwork.cfg` stops too; and
  `FilesLostOnlyByNumber`: files stay open as long as `server_socket` never holds
  the number of one (`NumberIsOwn`), so that the number a failed start leaves
  behind, or the 0 a context begins with, is the only way to lose one. Starts may
  fail at each of their calls. The inductive invariant adds to the properties
  what makes them survive each other's steps: what `server_socket` numbers is no
  client's, and is the start's own socket while one is under way
  (`ServerApart`); a socket in accept's hands is in no slot (`PollerHolds`).
- **`StateCacheProofs`.** `TypeCorrect` (under `OneRegistrar`: one thread
  registers; with two the array is overrun, `MCStateCacheRace.cfg`),
  `EntriesAlwaysUnique`, `NewsNeverLost`, `CacheImplementsMap`. A key has one
  entry, so the first found is the only one, and the map changes at one key.
  That no news is lost rests on handlers being only ever appended, one a type,
  on walks starting at the first, and on a walk being about the key: one after a
  load is about none, and takes no news away.
- **`TreeHandlersProofs`.** `TypeCorrect`, `AlwaysSound`,
  `AlwaysHoldsWhatItFound`, `HandlersActOnTheirSource`, `AlwaysTellsTheTruth`.
  The tree is good (`TreeGood`: well formed, with unique ids below the counter)
  whatever ids the handlers pass. A thread that is not disturbed has nothing but
  nodes of the tree in the queue of its search (`OnTheTree`), so that what the
  search returns has the id it is for, and keeps it until the node is deleted
  (`Holds`); what each place of a handler may hold is said by `Shape`. The
  condition is about interference that `MCTreeHandlersSearch.cfg` and
  `MCTreeHandlersSource.cfg` show to be needed. That an undisturbed search also
  finds what is linked (`FindsWhatIsThere`) stays with the run.
- **`ProgramProofs`.** `TypeCorrect`, `ContextsAlwaysOwned`. The two are
  inductive together: a step that fails leaves nothing of what was created
  (`LeftOver`), one that succeeds adds a program and just its contexts
  (`StructureOfNew`), and the search by name ends because among the places with
  the name there is a least one (`LeastExists`).

Model-checked only: the two liveness properties (`PollEnds`, `NewsArrives`),
because ENABLED and liveness under fairness are out of the provers' reach, and
`FindsWhatIsThere`, whose proof is left. The library's
induction theorems, whose parameter is an operator, are out of reach too; the
inductions here go over sets instead, as said above. Every other invariant and
action property of the passing runs is stated by a theorem, under the
conditions named with it.

## Plan

Done, in this order, from what everything rests on upwards: `TreeOps`, `Tree`
and `Forest` with proofs; `Network`; `StateFile` over `TreeOps`; `MessageQueue`
and `BoundedFifo` with proofs; `HandlerRegistry` and `HandlerBindings` with
proofs; `Program`; `StateCache` and `CacheMap` with proofs; `TreeHandlers` over
`TreeOps` with proofs; the proofs of `Network` and of `Program`; what searches
and traversals of `TreeOps` compute; the proofs of `StateFile`.

What is left of the properties the runs check is that an undisturbed search
finds what is linked, and liveness, which stays with the runs.

## Not modelled

- **`programs/state.c`.** `program->user_data` is the `ProgramState` of this
  file, or the context of `programs/phantomid.c`, which overwrites it, and every
  call of `interface/state.h` made with the program takes the same field for a
  `StateContext`; `state->tree` is set nowhere. No execution after
  `phantom_state_init` is defined, so there is no behaviour for a model to be
  faithful to. What its handler of changes shows of handlers, that they look
  at their entry first and may never return, is in `StateCache`; that several
  components take one field for theirs is in the list of hazards.
- **`runtime/cli`.** `cli.c` defines `cli_execute_node` twice and does not
  compile. Beyond that it parses a line and calls the tree, the network and the
  state file, which are modelled, and prints.
- **The hooks of `programs/phantomid.c`.** They use `message_create`,
  `message_destroy` and `message_process_queue`, which are defined nowhere.
- **Data inside messages and nodes**, encodings, timestamps, logging: no
  operation modelled depends on them.

## Running

In this directory: `tlasany M.tla` parses a module, `tlc -workers 2 -config
X.cfg MCM` runs a configuration, `tlapm MProofs.tla` checks proofs. Operators
whose name is that of another one with a suffix (`send_message_sameid`) are
mutants: plausible mistakes in the operator they stand beside, each of which
breaks the property `PROJECT.json` pairs it with.
