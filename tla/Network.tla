-------------------------------- MODULE Network --------------------------------
(***************************************************************************)
(* src/runtime/network: one NetworkContext, the thread that calls          *)
(* network_run (the poller), other threads that start and stop the server, *)
(* the clients at the other end, and the process's descriptor table.       *)
(*                                                                         *)
(* The poller and network_start, which takes no lock, move from one access *)
(* to shared state to the next; network_stop is one critical section.      *)
(* No handler is registered anywhere in the program, and nothing gives a   *)
(* connection a node_id: network_send and network_broadcast write to       *)
(* sockets and change no state of their own.                               *)
(***************************************************************************)
EXTENDS Integers, Sequences, FiniteSets, FiniteSetsExt, Functions

CONSTANTS
  Client,           \* the peers
  MAX_CONNECTIONS,  \* slots of ctx->connections
  MaxFd,            \* bound of the model: the largest descriptor
  MaxStarts,        \* bound of the model: calls to network_start
  MaxFiles          \* bound of the model: files other code has open at once

ASSUME NetworkAssumption ==
  /\ Client \cap {"free", "stdin", "file", "socket", "listen"} = {}
  /\ {MAX_CONNECTIONS, MaxFd, MaxStarts, MaxFiles} \subseteq Nat

VARIABLES
  fds,                 \* what each descriptor of the process refers to
  server_socket,       \* ctx->server_socket, -1 is INVALID_SOCKET
  connections,         \* ctx->connections: [socket, is_active]
  active_connections,  \* ctx->active_connections
  poller,              \* where poll_connections is, and its locals
  starter,             \* where network_start is: the call it makes next
  backlog,             \* clients the kernel has connected and nobody accepted yet
  client,              \* per client: has it sent unread data, has it hung up
  files,               \* descriptors other code of the process has open
  starts               \* calls to network_start so far

osVars == <<fds, backlog, client>>
ctxVars == <<server_socket, connections, active_connections>>
otherVars == <<files, starter, starts>>
vars == <<osVars, ctxVars, otherVars, poller>>

INVALID == -1
Fd == 0..MaxFd
Slot == 1..MAX_CONNECTIONS

Active == {s \in Slot : connections[s].is_active}
FreeFds == {fd \in Fd : fds[fd] = "free"}
Kind(fd) == IF fd = INVALID THEN "free" ELSE fds[fd]
Open == Client \cap Range(fds)

(* The process is up: not aborted, ctx not destroyed. *)
Up == poller.pc \notin {"aborted", "destroyed"}

(* Nobody but the poller holds ctx->lock between two steps. *)
LockFree == poller.pc \notin {"scan", "disconnect"}

Quiet == [data |-> FALSE, eof |-> FALSE]

(* Closing the descriptors in S: peers see their connections end, a listener's *)
(* queue of pending connections is dropped; closing a free one does nothing.   *)
CLOSE_SOCKET(S) ==
  /\ fds' = [fd \in Fd |-> IF fd \in S THEN "free" ELSE fds[fd]]
  /\ backlog' = IF \E fd \in S : fds[fd] = "listen" THEN <<>> ELSE backlog
  /\ client' = [c \in Client |-> IF \E fd \in S : fds[fd] = c THEN Quiet ELSE client[c]]

-----------------------------------------------------------------------------
(* network_create: calloc leaves server_socket 0, the descriptor of stdin. *)
Init ==
  /\ fds = [fd \in Fd |-> IF fd = 0 THEN "stdin" ELSE "free"]
  /\ server_socket = 0
  /\ connections = [s \in Slot |-> [socket |-> 0, is_active |-> FALSE]]
  /\ active_connections = 0
  /\ poller = [pc |-> "idle", fdset |-> {}, slot |-> 0, fd |-> INVALID]
  /\ starter = "idle"
  /\ backlog = <<>>
  /\ client = [c \in Client |-> Quiet]
  /\ files = {}
  /\ starts = 0

(* network_start, one at a time, reads ctx->server_socket anew for each call.  *)
StartSocket ==
  /\ Up /\ starter = "idle" /\ starts < MaxStarts
  /\ starts' = starts + 1
  /\ \/ /\ FreeFds # {}
        /\ server_socket' = Min(FreeFds)
        /\ fds' = [fds EXCEPT ![Min(FreeFds)] = "socket"]
        /\ starter' = "options"
     \/ /\ FreeFds = {}
        /\ server_socket' = INVALID
        /\ UNCHANGED <<fds, starter>>
  /\ UNCHANGED <<connections, active_connections, poller, backlog, client, files>>

(* setsockopt and fcntl; bind, which a second listener on the port refuses.    *)
StartGoesOn ==
  /\ Up /\ Kind(server_socket) = "socket"
  /\ \/ starter = "options" /\ starter' = "bind"
     \/ starter = "bind" /\ "listen" \notin Range(fds) /\ starter' = "listen"
  /\ UNCHANGED <<osVars, ctxVars, poller, files, starts>>

StartListens ==
  /\ Up /\ starter = "listen" /\ Kind(server_socket) = "socket"
  /\ fds' = [fds EXCEPT ![server_socket] = "listen"]
  /\ starter' = "idle"
  /\ UNCHANGED <<backlog, client, ctxVars, poller, files, starts>>

(* Any of the calls may fail; server_socket keeps the number of what it closes.*)
StartFails ==
  /\ Up /\ starter # "idle"
  /\ CLOSE_SOCKET({server_socket} \ {INVALID})
  /\ starter' = "idle"
  /\ UNCHANGED <<ctxVars, poller, files, starts>>

network_start == StartSocket \/ StartGoesOn \/ StartListens \/ StartFails

(* Mutants of StopServer: slots stay active; sockets of free slots are closed too. *)
StopServer_slots ==
  /\ LockFree
  /\ CLOSE_SOCKET({connections[s].socket : s \in Active} \cup ({server_socket} \ {INVALID}))
  /\ server_socket' = INVALID
  /\ UNCHANGED <<connections, active_connections, otherVars>>

StopServer_all ==
  /\ LockFree
  /\ CLOSE_SOCKET({connections[s].socket : s \in Slot} \cup ({server_socket} \ {INVALID}))
  /\ connections' = [s \in Slot |-> [connections[s] EXCEPT !.is_active = FALSE]]
  /\ server_socket' = INVALID
  /\ UNCHANGED <<active_connections, otherVars>>

(* network_stop's critical section; active_connections is left as it was. *)
StopServer ==
  /\ LockFree
  /\ CLOSE_SOCKET({connections[s].socket : s \in Active} \cup ({server_socket} \ {INVALID}))
  /\ connections' = [s \in Slot |-> [connections[s] EXCEPT !.is_active = FALSE]]
  /\ server_socket' = INVALID
  /\ UNCHANGED <<active_connections, otherVars>>

network_stop == Up /\ StopServer /\ UNCHANGED poller

(* network_destroy frees the context: no poll and no start is under way. *)
network_destroy ==
  /\ poller.pc = "idle" /\ starter = "idle"
  /\ StopServer
  /\ poller' = [poller EXCEPT !.pc = "destroyed"]

-----------------------------------------------------------------------------
(* poll_connections, step by step *)

(* Mutant of PollBegin: INVALID gets into the set. *)
PollBegin_invalid ==
  /\ poller.pc = "idle"
  /\ poller' = [poller EXCEPT !.pc = "collect", !.fdset = {server_socket}]
  /\ UNCHANGED <<osVars, ctxVars, otherVars>>

(* server_socket is read without the lock.  FD_SET of -1 writes outside the    *)
(* set's range: a fortified build aborts, others set a bit select ignores.     *)
PollBegin ==
  /\ poller.pc = "idle"
  /\ \/ poller' = [poller EXCEPT !.pc = "collect", !.fdset = {server_socket} \ {INVALID}]
     \/ server_socket = INVALID /\ poller' = [poller EXCEPT !.pc = "aborted"]
  /\ UNCHANGED <<osVars, ctxVars, otherVars>>

Collect ==
  /\ poller.pc = "collect"
  /\ LockFree
  /\ poller' = [poller EXCEPT !.pc = "select",
                              !.fdset = @ \cup {connections[s].socket : s \in Active}]
  /\ UNCHANGED <<osVars, ctxVars, otherVars>>

Readable(fd) ==
  \/ fds[fd] = "listen" /\ backlog # <<>>
  \/ fds[fd] \in Client /\ (client[fds[fd]].data \/ client[fds[fd]].eof)
  \/ fds[fd] \in {"stdin", "file", "socket"}

(* select: an error when a descriptor of the set is closed, else those that    *)
(* are readable, or none after the timeout.                                    *)
Select ==
  /\ poller.pc = "select"
  /\ LET ready == {fd \in poller.fdset : Readable(fd)}
     IN  poller' = IF ready = {} \/ poller.fdset \cap FreeFds # {}
                   THEN [poller EXCEPT !.pc = "idle", !.fdset = {}]
                   ELSE [poller EXCEPT !.pc = "accept", !.fdset = ready]
  /\ UNCHANGED <<osVars, ctxVars, otherVars>>

(* server_socket is read again; FD_ISSET of -1 may abort as FD_SET does. *)
NothingToAccept ==
  /\ poller.pc = "accept"
  /\ \/ /\ server_socket \notin poller.fdset \/ Kind(server_socket) # "listen"
           \/ backlog = <<>> \/ FreeFds = {}
        /\ poller' = [poller EXCEPT !.pc = "check"]
     \/ /\ server_socket = INVALID
        /\ poller' = [poller EXCEPT !.pc = "aborted"]
  /\ UNCHANGED <<osVars, ctxVars, otherVars>>

Accept ==
  /\ poller.pc = "accept"
  /\ server_socket \in poller.fdset /\ Kind(server_socket) = "listen" /\ backlog # <<>> /\ FreeFds # {}
  /\ fds' = [fds EXCEPT ![Min(FreeFds)] = Head(backlog)]
  /\ backlog' = Tail(backlog)
  /\ poller' = [poller EXCEPT !.pc = "claim", !.fd = Min(FreeFds)]
  /\ UNCHANGED <<client, ctxVars, otherVars>>

(* accept_connection's critical section: the first free slot. *)
Claim ==
  /\ poller.pc = "claim"
  /\ LockFree
  /\ Active # Slot
  /\ LET s == Min(Slot \ Active)
     IN  /\ connections' = [connections EXCEPT ![s].socket = poller.fd, ![s].is_active = TRUE]
         /\ poller' = [poller EXCEPT !.pc = "check", !.fd = INVALID]
  /\ active_connections' = active_connections + 1
  /\ UNCHANGED <<server_socket, osVars, otherVars>>

(* Mutant of Refuse: the socket is not closed. *)
Refuse_unclosed ==
  /\ poller.pc = "claim"
  /\ poller' = [poller EXCEPT !.pc = "check", !.fd = INVALID]
  /\ UNCHANGED <<osVars, ctxVars, otherVars>>

(* No slot is free, or the new socket cannot be made non-blocking. *)
Refuse ==
  /\ poller.pc = "claim"
  /\ CLOSE_SOCKET({poller.fd})
  /\ poller' = [poller EXCEPT !.pc = "check", !.fd = INVALID]
  /\ UNCHANGED <<ctxVars, otherVars>>

(* The lock is taken for the whole second loop. *)
LockForScan ==
  /\ poller.pc = "check"
  /\ LockFree
  /\ poller' = [poller EXCEPT !.pc = "scan", !.slot = 1]
  /\ UNCHANGED <<osVars, ctxVars, otherVars>>

(* Is the connection of slot s to be read: live, and its descriptor in the set? *)
ToRead(s) == s \in Active /\ connections[s].socket \in poller.fdset

HasData(s) ==
  LET peer == fds[connections[s].socket] IN peer \in Client /\ client[peer].data

NextSlot == [poller EXCEPT !.pc = "scan", !.slot = @ + 1]

SkipSlot ==
  /\ poller.pc = "scan" /\ poller.slot \in Slot
  /\ ~ToRead(poller.slot)
  /\ poller' = NextSlot
  /\ UNCHANGED <<osVars, ctxVars, otherVars>>

(* Mutant of Receive: it reads on until there is nothing to read. *)
Receive_drain ==
  /\ poller.pc = "scan" /\ poller.slot \in Slot
  /\ ToRead(poller.slot) /\ HasData(poller.slot)
  /\ client' = [client EXCEPT ![fds[connections[poller.slot].socket]].data = FALSE]
  /\ UNCHANGED <<fds, backlog, poller, ctxVars, otherVars>>

(* recv returns data; no message handler is registered. *)
Receive ==
  /\ poller.pc = "scan" /\ poller.slot \in Slot
  /\ ToRead(poller.slot) /\ HasData(poller.slot)
  /\ client' = [client EXCEPT ![fds[connections[poller.slot].socket]].data = FALSE]
  /\ poller' = NextSlot
  /\ UNCHANGED <<fds, backlog, ctxVars, otherVars>>

(* handle_disconnect locks the mutex the poller holds: a default mutex is not  *)
(* granted twice, so the poller waits for itself and no step follows.          *)
handle_disconnect == poller' = [poller EXCEPT !.pc = "disconnect"]

(* recv returns 0 (hung up) or -1 (nothing to read, or no such socket). *)
ReceiveNothing ==
  /\ poller.pc = "scan" /\ poller.slot \in Slot
  /\ ToRead(poller.slot) /\ ~HasData(poller.slot)
  /\ handle_disconnect
  /\ UNCHANGED <<osVars, ctxVars, otherVars>>

UnlockAfterScan ==
  /\ poller.pc = "scan" /\ poller.slot \notin Slot
  /\ poller' = [poller EXCEPT !.pc = "idle", !.slot = 0, !.fdset = {}]
  /\ UNCHANGED <<osVars, ctxVars, otherVars>>

(* The rest of a poll that has begun. *)
PollGoesOn ==
  \/ Collect \/ Select
  \/ NothingToAccept \/ Accept \/ Claim \/ Refuse
  \/ LockForScan \/ SkipSlot \/ Receive \/ ReceiveNothing \/ UnlockAfterScan

-----------------------------------------------------------------------------
(* The clients, and the other users of descriptors *)

Connect(c) ==
  /\ c \notin Open \cup Range(backlog)
  /\ \E fd \in Fd : fds[fd] = "listen"
  /\ backlog' = Append(backlog, c)
  /\ UNCHANGED <<fds, poller, client, ctxVars, otherVars>>

SendData(c) ==
  /\ c \in Open /\ client[c] = Quiet
  /\ client' = [client EXCEPT ![c].data = TRUE]
  /\ UNCHANGED <<fds, poller, backlog, ctxVars, otherVars>>

HangUp(c) ==
  /\ c \in Open /\ ~client[c].eof
  /\ client' = [client EXCEPT ![c].eof = TRUE]
  /\ UNCHANGED <<fds, poller, backlog, ctxVars, otherVars>>

(* fopen and fclose elsewhere in the process (state_save, state_load). *)
OpenFile ==
  /\ Up /\ Cardinality(files) < MaxFiles /\ FreeFds # {}
  /\ fds' = [fds EXCEPT ![Min(FreeFds)] = "file"]
  /\ files' = files \cup {Min(FreeFds)}
  /\ UNCHANGED <<poller, backlog, client, starter, starts, ctxVars>>

CloseFile(fd) ==
  /\ Up /\ fd \in files
  /\ CLOSE_SOCKET({fd})
  /\ files' = files \ {fd}
  /\ UNCHANGED <<poller, starter, starts, ctxVars>>

Next ==
  \/ network_start \/ network_stop \/ network_destroy
  \/ PollBegin \/ PollGoesOn
  \/ \E c \in Client : Connect(c) \/ SendData(c) \/ HangUp(c)
  \/ OpenFile
  \/ \E fd \in Fd : CloseFile(fd)

Spec == Init /\ [][Next]_vars

(* network_run polls once and nobody has to call it again; but the thread that *)
(* polls is scheduled, waits for no lock others keep, and select gives up      *)
(* after 100 ms.                                                               *)
FairSpec == Spec /\ WF_vars(PollGoesOn)

-----------------------------------------------------------------------------
TypeOK ==
  /\ fds \in [Fd -> {"free", "stdin", "file", "socket", "listen"} \cup Client]
  /\ server_socket \in Fd \cup {INVALID}
  /\ connections \in [Slot -> [socket : Fd, is_active : BOOLEAN]]
  /\ active_connections \in Nat
  /\ poller \in [pc : {"idle", "collect", "select", "accept", "claim", "check",
                       "scan", "disconnect", "aborted", "destroyed"},
                 fdset : SUBSET Fd, slot : 0..(MAX_CONNECTIONS + 1), fd : Fd \cup {INVALID}]
  /\ starter \in {"idle", "options", "bind", "listen"}
  /\ Range(backlog) \subseteq Client
  /\ client \in [Client -> [data : BOOLEAN, eof : BOOLEAN]]
  /\ files \in SUBSET Fd /\ starts \in 0..MaxStarts

(* network.c:303, "Close server socket": a file that other code of the process *)
(* has open stays open until that code closes it.                              *)
FilesStayOpen == \A fd \in files : fds[fd] = "file"

(* The next four hold as long as FilesStayOpen does: other code that closes a  *)
(* number it no longer owns may close any socket of the server.                *)

(* A slot marked active holds an open client socket, and no two hold the same: *)
(* network_stop leaves no active slot with a descriptor that the next accept   *)
(* or fopen may be given.                                                      *)
SlotsHoldOwnSockets ==
  /\ \A s \in Active : fds[connections[s].socket] \in Client
  /\ \A s, t \in Active : connections[s].socket = connections[t].socket => s = t

(* Every client socket of the process is in an active slot or in the hands of  *)
(* accept_connection: neither the full table nor a stop leaks one.             *)
NoSocketLeaked ==
  \A fd \in Fd : fds[fd] \in Client =>
    \/ \E s \in Active : connections[s].socket = fd
    \/ poller.pc = "claim" /\ poller.fd = fd

(* A file of other code is only ever closed by a stop or a destruction through *)
(* a server_socket that holds its number: no accept that is turned away, no    *)
(* start that fails half-way, and no slot freed before closes one.             *)
OnlyStopClosesFiles ==
  [][\A fd \in files : fds[fd] = "file" /\ fds'[fd] # "file" =>
       fd \notin files' \/ (server_socket = fd /\ server_socket' = INVALID)]_vars

(* A poll ends, however much its clients send and whoever stops or starts the  *)
(* server meanwhile: it returns, or it waits for itself in handle_disconnect.  *)
PollEnds ==
  poller.pc # "idle" ~> poller.pc \in {"idle", "disconnect", "aborted", "destroyed"}

-----------------------------------------------------------------------------
(* network.h:41, "Thread safety lock": a thread that asks for the lock does    *)
(* not hold it already.                                                        *)
NeverWaitsForItself == poller.pc = "disconnect" => LockFree

(* network.c:168, "Handle disconnection": what is handled as a disconnection   *)
(* is one, not a client the descriptor was given to since select.              *)
DisconnectsOnlyEnded ==
  poller.pc = "disconnect" =>
    \E c \in Client : fds[connections[poller.slot].socket] = c /\ client[c].eof

(* network.c:303, "Close server socket": what network_stop and network_destroy *)
(* close is the server socket, not stdin.                                      *)
StdinStaysOpen == fds[0] = "stdin"

(* network.c:295, "Close client connections": once the server is stopped no    *)
(* connection is active.                                                       *)
StoppedHasNoClients == server_socket = INVALID => Active = {}

(* network.h:40, "Current active connections".                                 *)
CountExact == active_connections = Cardinality(Active)

=============================================================================
