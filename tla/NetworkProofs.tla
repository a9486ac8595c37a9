----------------------------- MODULE NetworkProofs -----------------------------
(***************************************************************************)
(* Proofs about Network, for any number of clients, slots, descriptors and *)
(* starts: types; slots and sockets stay matched as long as no file of     *)
(* other code is closed; and a file is closed only when server_socket      *)
(* holds its number.                                                       *)
(***************************************************************************)
EXTENDS Network, FiniteSetTheorems, SequenceTheorems, WellFoundedInduction, TLAPS

(* Types, and what the locals of accept_connection add to them. *)
Plain ==
  /\ TypeOK
  /\ backlog \in Seq(Client)
  /\ poller.pc = "claim" => poller.fd \in Fd

(* What the context calls its server socket is no client's; while a start is   *)
(* under way it is the start's own socket, unless a stop has been there.       *)
ServerApart ==
  server_socket # INVALID =>
    /\ fds[server_socket] \notin Client
    /\ starter # "idle" => fds[server_socket] = "socket"

(* The socket accept_connection has not put into a slot yet is in none. *)
PollerHolds ==
  poller.pc = "claim" =>
    /\ fds[poller.fd] \in Client
    /\ \A s \in Active : connections[s].socket # poller.fd

IInv ==
  /\ Plain
  /\ ServerApart
  /\ PollerHolds
  /\ SlotsHoldOwnSockets
  /\ NoSocketLeaked

(* The number in server_socket is not that of a file other code has open. *)
NumberIsOwn == server_socket \notin files

-----------------------------------------------------------------------------
(* The least element *)

(* A set of numbers that is not empty has a least one: the smallest of its      *)
(* initial segments, which are finite, is that of the least number.             *)
LEMMA LeastOfSet ==
  ASSUME NEW S \in SUBSET Nat, S # {}
  PROVE  Min(S) \in S
<1> DEFINE Upto(x) == {y \in S : y <= x}
           T == {Upto(x) : x \in S}
<1>1. T \subseteq FiniteSubsetsOf(Nat) /\ T # {}
  <2>1. ASSUME NEW x \in S PROVE IsFiniteSet(Upto(x))
    BY FS_BoundedSetOfNaturals
  <2> QED BY <2>1 DEF FiniteSubsetsOf
<1>2. PICK M \in T : \A U \in T : <<U, M>> \notin StrictSubsetOrdering(Nat)
  <2> HIDE DEF T
  <2> QED BY <1>1, WFMin, FS_StrictSubsetOrderingWellFounded
<1>3. PICK x \in S : M = Upto(x)
  OBVIOUS
<1>4. ASSUME NEW y \in S PROVE x <= y
  <2> SUFFICES ASSUME y < x PROVE FALSE
    OBVIOUS
  <2>0. x \in Nat /\ y \in Nat /\ \A z \in S : z \in Nat
    OBVIOUS
  <2>1. Upto(y) \subseteq Upto(x) /\ x \in Upto(x) /\ x \notin Upto(y)
    <3>1. \A z \in S : z <= y => z <= x
      BY <2>0
    <3>2. ~(x <= y) /\ x <= x
      BY <2>0
    <3> QED BY <3>1, <3>2
  <2>2. Upto(y) \in T /\ Upto(y) \in SUBSET Nat /\ Upto(x) \in SUBSET Nat
    OBVIOUS
  <2>3. <<Upto(y), Upto(x)>> \in StrictSubsetOrdering(Nat)
    BY <2>1, <2>2 DEF StrictSubsetOrdering
  <2> QED BY <1>2, <1>3, <2>2, <2>3
<1> QED BY <1>4 DEF Min

(* What the allocation of a descriptor, or of a slot, finds. *)
LEMMA FreeFound ==
  ASSUME TypeOK
  PROVE  /\ FreeFds # {} => Min(FreeFds) \in Fd /\ fds[Min(FreeFds)] = "free"
         /\ Active # Slot => Min(Slot \ Active) \in Slot /\ Min(Slot \ Active) \notin Active
<1>1. FreeFds \in SUBSET Nat /\ Slot \ Active \in SUBSET Nat
  BY NetworkAssumption DEF FreeFds, Fd, Slot
<1>2. Active # Slot => Slot \ Active # {}
  BY DEF Active
<1>3. FreeFds # {} => Min(FreeFds) \in FreeFds
  BY <1>1, LeastOfSet
<1>4. Slot \ Active # {} => Min(Slot \ Active) \in Slot \ Active
  BY <1>1, LeastOfSet
<1> QED BY <1>2, <1>3, <1>4 DEF FreeFds

(* The words for what a descriptor is are no clients. *)
LEMMA WordsApart ==
  /\ "free" \notin Client /\ "stdin" \notin Client /\ "file" \notin Client
  /\ "socket" \notin Client /\ "listen" \notin Client
BY NetworkAssumption

LEMMA Numbers ==
  /\ MAX_CONNECTIONS \in Nat /\ MaxFd \in Nat /\ MaxStarts \in Nat /\ MaxFiles \in Nat
  /\ INVALID \in Int /\ INVALID \notin Fd
BY NetworkAssumption DEF INVALID, Fd

-----------------------------------------------------------------------------
(* Types *)

FdKind == {"free", "stdin", "file", "socket", "listen"} \cup Client

LEMMA CloseTypes ==
  ASSUME Plain, NEW S, CLOSE_SOCKET(S)
  PROVE  /\ fds' \in [Fd -> FdKind]
         /\ client' \in [Client -> [data : BOOLEAN, eof : BOOLEAN]]
         /\ backlog' \in Seq(Client) /\ Range(backlog') \subseteq Client
<1>1. fds' \in [Fd -> FdKind]
  BY DEF Plain, TypeOK, CLOSE_SOCKET, FdKind
<1>2. client' \in [Client -> [data : BOOLEAN, eof : BOOLEAN]]
  BY DEF Plain, TypeOK, CLOSE_SOCKET, Quiet
<1>3. backlog' \in Seq(Client) /\ Range(backlog') \subseteq Client
  <2>1. backlog' \in {backlog, <<>>} /\ Range(<<>>) = {} /\ <<>> \in Seq(Client)
    BY DEF CLOSE_SOCKET, Range
  <2> QED BY <2>1 DEF Plain, TypeOK
<1> QED BY <1>1, <1>2, <1>3

(* Where the poller is, and what a slot holds. *)
Place == [pc : {"idle", "collect", "select", "accept", "claim", "check",
                "scan", "disconnect", "aborted", "destroyed"},
          fdset : SUBSET Fd, slot : 0..(MAX_CONNECTIONS + 1), fd : Fd \cup {INVALID}]

Connection == [socket : Fd, is_active : BOOLEAN]

(* A slot is taken for a socket. *)
Taken(s, x) == [connections EXCEPT ![s].socket = x, ![s].is_active = TRUE]

LEMMA TakenSlot ==
  ASSUME TypeOK, NEW s \in Slot, NEW x \in Fd
  PROVE  /\ Taken(s, x) \in [Slot -> Connection]
         /\ Taken(s, x)[s].socket = x /\ Taken(s, x)[s].is_active
         /\ \A t \in Slot \ {s} : Taken(s, x)[t] = connections[t]
<1> DEFINE r == [connections[s] EXCEPT !.socket = x, !.is_active = TRUE]
<1>1. connections \in [Slot -> Connection] /\ connections[s] \in Connection
  BY DEF TypeOK, Connection
<1>2. r \in Connection /\ r.socket = x /\ r.is_active
  BY <1>1 DEF Connection
<1>3. Taken(s, x) = [connections EXCEPT ![s] = r]
  BY <1>1 DEF Taken
<1> HIDE DEF r
<1> QED BY <1>1, <1>2, <1>3

(* Stopping keeps the types. *)
LEMMA StopTypes ==
  ASSUME Plain, StopServer,
         UNCHANGED poller \/ (poller.pc = "idle" /\ poller' = [poller EXCEPT !.pc = "destroyed"])
  PROVE  Plain'
<1>1. connections' \in [Slot -> Connection]
  <2>1. ASSUME NEW s \in Slot PROVE [connections[s] EXCEPT !.is_active = FALSE] \in Connection
    <3>1. connections[s] \in Connection
      BY DEF Plain, TypeOK, Connection
    <3> QED BY <3>1 DEF Connection
  <2> QED BY <2>1 DEF StopServer
<1>2. UNCHANGED <<active_connections, files, starter, starts>> /\ server_socket' = INVALID
  BY DEF StopServer, otherVars
<1>3. \E S : CLOSE_SOCKET(S)
  BY DEF StopServer
<1>4. poller' \in Place /\ (poller'.pc = "claim" => poller'.fd \in Fd)
  BY DEF Plain, TypeOK, Place
<1> QED BY <1>1, <1>2, <1>3, <1>4, CloseTypes DEF Plain, TypeOK, Connection, Place, FdKind

(* So do the steps of a poll. *)
LEMMA PollTypes ==
  ASSUME Plain, PollBegin \/ PollGoesOn
  PROVE  Plain'
<1>0. TypeOK /\ 0 \in 0..(MAX_CONNECTIONS + 1)
      /\ 1 \in 0..(MAX_CONNECTIONS + 1) /\ \A s \in Slot : s \in 0..(MAX_CONNECTIONS + 1)
                                                         /\ s + 1 \in 0..(MAX_CONNECTIONS + 1)
  BY Numbers DEF Plain, Slot
<1>1. ASSUME UNCHANGED <<osVars, ctxVars, otherVars>>,
             poller' \in Place, poller'.pc # "claim"
      PROVE  Plain'
  <2>1. UNCHANGED <<fds, backlog, client, server_socket, connections, active_connections,
                    files, starter, starts>>
    BY <1>1 DEF osVars, ctxVars, otherVars
  <2> QED BY <1>0, <1>1, <2>1 DEF Plain, TypeOK, Place
<1>2. CASE PollBegin
  <2>1. {server_socket} \ {INVALID} \in SUBSET Fd /\ poller \in Place
    BY <1>0 DEF TypeOK, Place
  <2>2. \A S \in SUBSET Fd : /\ [poller EXCEPT !.pc = "collect", !.fdset = S] \in Place
                            /\ [poller EXCEPT !.pc = "collect", !.fdset = S].pc # "claim"
    BY <2>1 DEF Place
  <2>3. [poller EXCEPT !.pc = "aborted"] \in Place /\ [poller EXCEPT !.pc = "aborted"].pc # "claim"
    BY <2>1 DEF Place
  <2> QED BY <1>1, <1>2, <2>1, <2>2, <2>3 DEF PollBegin
<1>3. CASE Collect
  <2>1. {connections[s].socket : s \in Active} \subseteq Fd
    BY <1>0 DEF TypeOK, Active
  <2>2. poller' \in Place /\ poller'.pc # "claim"
    BY <1>0, <1>3, <2>1 DEF Collect, TypeOK, Place
  <2> QED BY <1>1, <1>3, <2>2 DEF Collect
<1>4. CASE Select
  <2>1. poller' \in Place /\ poller'.pc # "claim"
    BY <1>0, <1>4 DEF Select, TypeOK, Place
  <2> QED BY <1>1, <1>4, <2>1 DEF Select
<1>5. CASE NothingToAccept
  <2>1. poller' \in Place /\ poller'.pc # "claim"
    BY <1>0, <1>5 DEF NothingToAccept, TypeOK, Place
  <2> QED BY <1>1, <1>5, <2>1 DEF NothingToAccept
<1>6. CASE Accept
  <2>1. Head(backlog) \in Client /\ Tail(backlog) \in Seq(Client)
    BY <1>6, HeadTailProperties DEF Plain, Accept
  <2>2. Range(Tail(backlog)) \subseteq Client
    BY <2>1 DEF Range
  <2>3. Min(FreeFds) \in Fd
    BY <1>0, <1>6, FreeFound DEF Accept
  <2>4. fds' \in [Fd -> FdKind]
    BY <1>0, <1>6, <2>1, <2>3 DEF Accept, TypeOK, FdKind
  <2>5. UNCHANGED <<client, server_socket, connections, active_connections, files, starter,
                    starts>>
    BY <1>6 DEF Accept, ctxVars, otherVars
  <2>6. poller' = [poller EXCEPT !.pc = "claim", !.fd = Min(FreeFds)] /\ backlog' = Tail(backlog)
    BY <1>6 DEF Accept
  <2>7. poller' \in Place /\ poller'.fd \in Fd
    BY <1>0, <2>3, <2>6 DEF TypeOK, Place
  <2> QED BY <1>0, <2>1, <2>2, <2>4, <2>5, <2>6, <2>7 DEF Plain, TypeOK, Place, FdKind
<1>7. CASE Claim
  <2> DEFINE s == Min(Slot \ Active)
  <2>1. s \in Slot /\ poller.fd \in Fd
    BY <1>0, <1>7, FreeFound DEF Claim, Plain
  <2> HIDE DEF s
  <2>2. connections' = Taken(s, poller.fd)
        /\ poller' = [poller EXCEPT !.pc = "check", !.fd = INVALID]
        /\ active_connections' = active_connections + 1
        /\ UNCHANGED <<server_socket, fds, backlog, client, files, starter, starts>>
    BY <1>7 DEF Claim, s, osVars, otherVars, Taken
  <2>3. connections' \in [Slot -> Connection]
    BY <1>0, <2>1, <2>2, TakenSlot
  <2>4. poller' \in Place /\ poller'.pc # "claim"
    BY <1>0, <2>1, <2>2 DEF TypeOK, Place
  <2> QED BY <1>0, <2>2, <2>3, <2>4 DEF Plain, TypeOK, Place, Connection
<1>8. CASE Refuse
  <2>1. UNCHANGED <<server_socket, connections, active_connections, files, starter, starts>>
        /\ poller' = [poller EXCEPT !.pc = "check", !.fd = INVALID]
    BY <1>8 DEF Refuse, ctxVars, otherVars
  <2>2. CLOSE_SOCKET({poller.fd})
    BY <1>8 DEF Refuse
  <2>3. poller' \in Place /\ poller'.pc # "claim"
    BY <1>0, <2>1 DEF TypeOK, Place
  <2> QED BY <1>0, <2>1, <2>2, <2>3, CloseTypes DEF Plain, TypeOK, Place, FdKind
<1>9. CASE LockForScan
  <2>1. poller' \in Place /\ poller'.pc # "claim"
    BY <1>0, <1>9 DEF LockForScan, TypeOK, Place
  <2> QED BY <1>1, <1>9, <2>1 DEF LockForScan
<1>10. CASE SkipSlot
  <2>1. poller' \in Place /\ poller'.pc # "claim"
    BY <1>0, <1>10 DEF SkipSlot, NextSlot, TypeOK, Place
  <2> QED BY <1>1, <1>10, <2>1 DEF SkipSlot
<1>11. CASE Receive
  <2>1. UNCHANGED <<fds, backlog, server_socket, connections, active_connections, files, starter,
                    starts>>
        /\ poller' = NextSlot /\ poller.slot \in Slot
    BY <1>11 DEF Receive, ctxVars, otherVars
  <2>2. client' \in [Client -> [data : BOOLEAN, eof : BOOLEAN]]
    BY <1>0, <1>11 DEF Receive, HasData, TypeOK
  <2>3. poller' \in Place /\ poller'.pc # "claim"
    BY <1>0, <2>1 DEF NextSlot, TypeOK, Place
  <2> QED BY <1>0, <2>1, <2>2, <2>3 DEF Plain, TypeOK, Place
<1>12. CASE ReceiveNothing
  <2>1. poller' \in Place /\ poller'.pc # "claim"
    BY <1>0, <1>12 DEF ReceiveNothing, handle_disconnect, TypeOK, Place
  <2> QED BY <1>1, <1>12, <2>1 DEF ReceiveNothing
<1>13. CASE UnlockAfterScan
  <2>1. poller' \in Place /\ poller'.pc # "claim"
    BY <1>0, <1>13 DEF UnlockAfterScan, TypeOK, Place
  <2> QED BY <1>1, <1>13, <2>1 DEF UnlockAfterScan
<1> QED BY <1>2, <1>3, <1>4, <1>5, <1>6, <1>7, <1>8, <1>9, <1>10, <1>11, <1>12, <1>13
        DEF PollGoesOn

(* So do the steps of a start. *)
LEMMA StartTypes ==
  ASSUME Plain, network_start
  PROVE  Plain'
<1>0. TypeOK
  BY DEF Plain
<1>1. CASE StartSocket
  <2>1. server_socket' \in Fd \cup {INVALID} /\ fds' \in [Fd -> FdKind]
        /\ starter' \in {"idle", "options", "bind", "listen"}
    BY <1>0, <1>1, FreeFound DEF StartSocket, TypeOK, FdKind
  <2>2. starts' \in 0..MaxStarts
    BY <1>0, <1>1, Numbers DEF StartSocket, TypeOK
  <2>3. UNCHANGED <<connections, active_connections, poller, backlog, client, files>>
    BY <1>1 DEF StartSocket
  <2> QED BY <2>1, <2>2, <2>3 DEF Plain, TypeOK, FdKind
<1>2. CASE StartGoesOn
  BY <1>2 DEF StartGoesOn, Plain, TypeOK, osVars, ctxVars
<1>3. CASE StartListens
  <2>1. fds' \in [Fd -> FdKind]
    BY <1>0, <1>3 DEF StartListens, TypeOK, FdKind
  <2>2. UNCHANGED <<backlog, client, server_socket, connections, active_connections, poller,
                    files, starts>> /\ starter' = "idle"
    BY <1>3 DEF StartListens, ctxVars
  <2> QED BY <2>1, <2>2 DEF Plain, TypeOK, FdKind
<1>4. CASE StartFails
  <2>1. UNCHANGED <<server_socket, connections, active_connections, poller, files, starts>>
        /\ starter' = "idle" /\ CLOSE_SOCKET({server_socket} \ {INVALID})
    BY <1>4 DEF StartFails, ctxVars
  <2> QED BY <2>1, CloseTypes DEF Plain, TypeOK, FdKind
<1> QED BY <1>1, <1>2, <1>3, <1>4 DEF network_start

(* So does what becomes of files. *)
LEMMA FileTypes ==
  ASSUME Plain, OpenFile \/ \E fd \in Fd : CloseFile(fd)
  PROVE  Plain'
<1>1. CASE OpenFile
  <2>1. Min(FreeFds) \in Fd
    BY <1>1, FreeFound DEF OpenFile, Plain
  <2>2. fds' \in [Fd -> FdKind] /\ files' \in SUBSET Fd
    BY <1>1, <2>1 DEF OpenFile, Plain, TypeOK, FdKind
  <2>3. UNCHANGED <<poller, backlog, client, starter, starts, server_socket, connections,
                    active_connections>>
    BY <1>1 DEF OpenFile, ctxVars
  <2> QED BY <2>2, <2>3 DEF Plain, TypeOK, FdKind
<1>2. ASSUME NEW fd \in Fd, CloseFile(fd) PROVE Plain'
  <2>1. CLOSE_SOCKET({fd}) /\ files' = files \ {fd}
        /\ UNCHANGED <<poller, starter, starts, server_socket, connections, active_connections>>
    BY <1>2 DEF CloseFile, ctxVars
  <2> QED BY <2>1, CloseTypes DEF Plain, TypeOK, FdKind
<1> QED BY <1>1, <1>2

(* So do the steps of a client. *)
LEMMA ClientTypes ==
  ASSUME Plain, NEW c \in Client, Connect(c) \/ SendData(c) \/ HangUp(c)
  PROVE  Plain'
<1>1. CASE Connect(c)
  <2>1. backlog' = Append(backlog, c)
        /\ UNCHANGED <<fds, poller, client, server_socket, connections, active_connections,
                       files, starter, starts>>
    BY <1>1 DEF Connect, ctxVars, otherVars
  <2>2. backlog' \in Seq(Client)
    BY <2>1, AppendProperties DEF Plain
  <2>3. Range(backlog') \subseteq Client
    BY <2>2 DEF Range
  <2> QED BY <2>1, <2>2, <2>3 DEF Plain, TypeOK
<1>2. CASE SendData(c)
  <2>1. client' \in [Client -> [data : BOOLEAN, eof : BOOLEAN]]
    BY <1>2 DEF SendData, Plain, TypeOK
  <2>2. UNCHANGED <<fds, poller, backlog, server_socket, connections, active_connections,
                    files, starter, starts>>
    BY <1>2 DEF SendData, ctxVars, otherVars
  <2> QED BY <2>1, <2>2 DEF Plain, TypeOK
<1>3. CASE HangUp(c)
  <2>1. client' \in [Client -> [data : BOOLEAN, eof : BOOLEAN]]
    BY <1>3 DEF HangUp, Plain, TypeOK
  <2>2. UNCHANGED <<fds, poller, backlog, server_socket, connections, active_connections,
                    files, starter, starts>>
    BY <1>3 DEF HangUp, ctxVars, otherVars
  <2> QED BY <2>1, <2>2 DEF Plain, TypeOK
<1> QED BY <1>1, <1>2, <1>3

LEMMA TypesKept ==
  ASSUME Plain, [Next]_vars
  PROVE  Plain'
<1>1. CASE UNCHANGED vars
  BY <1>1 DEF vars, osVars, ctxVars, otherVars, Plain, TypeOK
<1>2. CASE network_stop \/ network_destroy
  <2>1. StopServer /\ \/ UNCHANGED poller
                      \/ poller.pc = "idle" /\ poller' = [poller EXCEPT !.pc = "destroyed"]
    BY <1>2 DEF network_stop, network_destroy
  <2> QED BY <2>1, StopTypes
<1> QED BY <1>1, <1>2, PollTypes, StartTypes, FileTypes, ClientTypes DEF Next

LEMMA TypesAtFirst ==
  ASSUME Init
  PROVE  Plain
<1>1. 0 \in Fd /\ 0 \in 0..(MAX_CONNECTIONS + 1) /\ 0 \in 0..MaxStarts
  BY Numbers DEF Fd
<1>2. Range(<<>>) = {} /\ <<>> \in Seq(Client)
  BY DEF Range
<1>3. connections \in [Slot -> Connection]
  BY <1>1 DEF Init, Connection
<1>4. poller \in Place /\ poller.pc # "claim"
  BY <1>1 DEF Init, Place
<1> QED BY <1>1, <1>2, <1>3, <1>4 DEF Init, Plain, TypeOK, Connection, Place, Quiet

-----------------------------------------------------------------------------
(* The slots and the sockets stay matched *)

(* Stopping frees every slot with its socket, and no socket that is in use. *)
LEMMA StopMatches ==
  ASSUME IInv, StopServer, Plain',
         UNCHANGED poller \/ (poller.pc = "idle" /\ poller'.pc = "destroyed")
  PROVE  IInv'
<1> DEFINE S == {connections[s].socket : s \in Active} \cup ({server_socket} \ {INVALID})
<1>1. CLOSE_SOCKET(S) /\ server_socket' = INVALID /\ LockFree
  BY DEF StopServer
<1>2. Active' = {}
  BY DEF StopServer, Active, IInv, Plain, TypeOK
<1>3. \A fd \in Fd : fds'[fd] = IF fd \in S THEN "free" ELSE fds[fd]
  BY <1>1 DEF CLOSE_SOCKET
<1>4. ASSUME NEW fd \in Fd, fds[fd] \in Client, \A s \in Active : connections[s].socket # fd
      PROVE  fd \notin S
  BY <1>4 DEF IInv, ServerApart
<1>5. PollerHolds'
  <2>1. CASE UNCHANGED poller
    BY <1>1, <1>2, <1>3, <1>4, <2>1 DEF IInv, Plain, PollerHolds
  <2>2. CASE poller'.pc = "destroyed"
    BY <2>2 DEF PollerHolds
  <2> QED BY <2>1, <2>2
<1>6. NoSocketLeaked'
  <2>1. ASSUME NEW fd \in Fd, fds'[fd] \in Client
        PROVE  poller'.pc = "claim" /\ poller'.fd = fd
    <3>1. fd \notin S /\ fds[fd] \in Client
      BY <1>3, <2>1, WordsApart
    <3>2. \A s \in Active : connections[s].socket # fd
      BY <3>1
    <3>3. poller.pc = "claim" /\ poller.fd = fd
      BY <3>1, <3>2 DEF IInv, NoSocketLeaked
    <3> QED BY <3>3
  <2> QED BY <2>1 DEF NoSocketLeaked
<1>7. ServerApart' /\ SlotsHoldOwnSockets'
  BY <1>1, <1>2 DEF ServerApart, SlotsHoldOwnSockets
<1> QED BY <1>5, <1>6, <1>7 DEF IInv

(* A step that closes, opens or moves no client's socket and leaves the slots   *)
(* and accept_connection alone.                                                 *)
LEMMA OthersMove ==
  ASSUME IInv, Plain', ServerApart', UNCHANGED connections,
         \A fd \in Fd : fds[fd] \in Client \/ fds'[fd] \in Client => fds'[fd] = fds[fd],
         UNCHANGED poller \/ (poller.pc # "claim" /\ poller'.pc # "claim")
  PROVE  IInv'
<1>1. Active' = Active /\ \A s \in Active : connections[s].socket \in Fd
  BY DEF Active, IInv, Plain, TypeOK
<1>2. SlotsHoldOwnSockets'
  BY <1>1 DEF IInv, SlotsHoldOwnSockets
<1>3. PollerHolds'
  BY <1>1 DEF IInv, Plain, PollerHolds
<1>4. NoSocketLeaked'
  BY <1>1 DEF IInv, NoSocketLeaked
<1> QED BY <1>2, <1>3, <1>4 DEF IInv

(* A start takes a free descriptor, or none, and gives back none but its own. *)
LEMMA StartMatches ==
  ASSUME IInv, Plain', network_start
  PROVE  IInv'
<1>0. TypeOK
  BY DEF IInv, Plain
<1>1. UNCHANGED <<connections, poller>>
  BY DEF network_start, StartSocket, StartGoesOn, StartListens, StartFails, ctxVars
<1>2. CASE StartSocket
  <2> DEFINE m == Min(FreeFds)
  <2>1. FreeFds # {} => m \in Fd /\ fds[m] = "free"
    BY <1>0, FreeFound
  <2> HIDE DEF m
  <2>2. \/ /\ FreeFds # {} /\ server_socket' = m /\ fds' = [fds EXCEPT ![m] = "socket"]
        \/ server_socket' = INVALID /\ UNCHANGED fds
    BY <1>2 DEF StartSocket, m
  <2>3. ServerApart'
    BY <1>0, <2>1, <2>2, WordsApart DEF TypeOK, ServerApart
  <2>4. \A fd \in Fd : fds[fd] \in Client \/ fds'[fd] \in Client => fds'[fd] = fds[fd]
    BY <1>0, <2>1, <2>2, WordsApart DEF TypeOK
  <2> QED BY <1>1, <2>3, <2>4, OthersMove
<1>3. CASE StartGoesOn
  <2>1. UNCHANGED <<fds, server_socket>> /\ fds[server_socket] = "socket"
    BY <1>3 DEF StartGoesOn, Kind, osVars, ctxVars
  <2>2. ServerApart'
    BY <2>1 DEF IInv, ServerApart
  <2> QED BY <1>1, <2>1, <2>2, OthersMove
<1>4. CASE StartListens
  <2>1. /\ server_socket \in Fd /\ fds[server_socket] = "socket"
        /\ fds' = [fds EXCEPT ![server_socket] = "listen"]
        /\ UNCHANGED server_socket /\ starter' = "idle"
    BY <1>0, <1>4 DEF StartListens, Kind, ctxVars, TypeOK
  <2>2. ServerApart'
    BY <1>0, <2>1, WordsApart DEF TypeOK, ServerApart
  <2>3. \A fd \in Fd : fds[fd] \in Client \/ fds'[fd] \in Client => fds'[fd] = fds[fd]
    BY <1>0, <2>1, WordsApart DEF TypeOK
  <2> QED BY <1>1, <2>2, <2>3, OthersMove
<1>5. CASE StartFails
  <2>1. /\ UNCHANGED server_socket /\ starter' = "idle"
        /\ \A fd \in Fd : fds'[fd] = IF fd = server_socket /\ fd # INVALID THEN "free" ELSE fds[fd]
    BY <1>5 DEF StartFails, CLOSE_SOCKET, ctxVars
  <2>2. server_socket # INVALID => fds[server_socket] \notin Client /\ server_socket \in Fd
    BY <1>0 DEF IInv, ServerApart, TypeOK
  <2>3. ServerApart'
    BY <2>1, <2>2, WordsApart DEF ServerApart
  <2>4. \A fd \in Fd : fds[fd] \in Client \/ fds'[fd] \in Client => fds'[fd] = fds[fd]
    BY <2>1, <2>2, WordsApart
  <2> QED BY <1>1, <2>3, <2>4, OthersMove
<1> QED BY <1>2, <1>3, <1>4, <1>5 DEF network_start

(* Opening a file takes a free descriptor, closing one that is open gives it    *)
(* back.                                                                        *)
LEMMA FileMatches ==
  ASSUME IInv, FilesStayOpen, Plain', NEW f \in Fd, OpenFile \/ CloseFile(f)
  PROVE  IInv'
<1>0. TypeOK
  BY DEF IInv, Plain
<1>1. UNCHANGED <<poller, server_socket, connections, starter>>
  BY DEF OpenFile, CloseFile, ctxVars
<1>2. PICK x \in Fd :
        /\ fds[x] \in {"free", "file"} /\ fds'[x] \in {"free", "file"}
        /\ \A fd \in Fd \ {x} : fds'[fd] = fds[fd]
  <2>1. CASE OpenFile
    <3> DEFINE m == Min(FreeFds)
    <3>1. m \in Fd /\ fds[m] = "free"
      BY <1>0, <2>1, FreeFound DEF OpenFile
    <3>2. fds' = [fds EXCEPT ![m] = "file"]
      BY <2>1 DEF OpenFile
    <3> HIDE DEF m
    <3> QED BY <1>0, <3>1, <3>2 DEF TypeOK
  <2>2. CASE CloseFile(f)
    <3>1. fds[f] = "file" /\ CLOSE_SOCKET({f})
      BY <2>2 DEF CloseFile, FilesStayOpen
    <3> QED BY <1>0, <3>1 DEF TypeOK, CLOSE_SOCKET
  <2> QED BY <2>1, <2>2
<1>3. \A fd \in Fd : fds[fd] \in Client \/ fds'[fd] \in Client => fds'[fd] = fds[fd]
  BY <1>2, WordsApart
<1>4. ServerApart'
  BY <1>0, <1>1, <1>2, WordsApart DEF IInv, TypeOK, ServerApart
<1> QED BY <1>1, <1>3, <1>4, OthersMove

(* The new socket is the poller's, and in no slot. *)
LEMMA AcceptMatches ==
  ASSUME IInv, Plain', Accept
  PROVE  IInv'
<1> DEFINE m == Min(FreeFds)
<1>0. TypeOK
  BY DEF IInv, Plain
<1>1. m \in Fd /\ fds[m] = "free"
  BY <1>0, FreeFound DEF Accept
<1>2. Head(backlog) \in Client
  BY HeadTailProperties DEF Accept, IInv, Plain
<1> HIDE DEF m
<1>3. /\ fds' = [fds EXCEPT ![m] = Head(backlog)]
      /\ server_socket # INVALID => fds[server_socket] = "listen"
      /\ poller' = [poller EXCEPT !.pc = "claim", !.fd = m]
      /\ UNCHANGED <<server_socket, connections, starter>>
  BY DEF Accept, Kind, ctxVars, otherVars, m
<1>4. /\ fds'[m] \in Client /\ poller'.pc = "claim" /\ poller'.fd = m
      /\ \A fd \in Fd \ {m} : fds'[fd] = fds[fd]
  BY <1>0, <1>1, <1>2, <1>3 DEF TypeOK
<1>5. Active' = Active /\ \A s \in Active : connections[s].socket \in Fd \ {m}
  <2>1. \A s \in Active : connections[s].socket \in Fd
    BY <1>0 DEF Active, TypeOK
  <2> QED BY <1>1, <1>3, <2>1, WordsApart DEF Active, IInv, SlotsHoldOwnSockets
<1>6. ServerApart'
  BY <1>0, <1>1, <1>3, <1>4 DEF IInv, ServerApart, TypeOK
<1>7. PollerHolds' /\ SlotsHoldOwnSockets'
  BY <1>1, <1>3, <1>4, <1>5 DEF IInv, PollerHolds, SlotsHoldOwnSockets
<1>8. poller.pc # "claim"
  BY DEF Accept
<1>9. NoSocketLeaked'
  <2>1. ASSUME NEW fd \in Fd \ {m}, fds'[fd] \in Client
        PROVE  \E s \in Active : connections[s].socket = fd
    BY <1>4, <1>8, <2>1 DEF IInv, NoSocketLeaked
  <2> QED BY <1>3, <1>4, <1>5, <2>1 DEF NoSocketLeaked
<1> QED BY <1>6, <1>7, <1>9 DEF IInv

(* The slot that was free holds the socket the poller had. *)
LEMMA ClaimMatches ==
  ASSUME IInv, Plain', Claim
  PROVE  IInv'
<1> DEFINE s == Min(Slot \ Active)
           fd0 == poller.fd
<1>0. TypeOK
  BY DEF IInv, Plain
<1>1. s \in Slot /\ s \notin Active
  BY <1>0, FreeFound DEF Claim
<1>2. fd0 \in Fd /\ fds[fd0] \in Client /\ \A t \in Active : connections[t].socket # fd0
  BY DEF Claim, IInv, Plain, PollerHolds
<1> HIDE DEF s, fd0
<1>3. /\ connections' = Taken(s, fd0)
      /\ poller' = [poller EXCEPT !.pc = "check", !.fd = INVALID]
      /\ UNCHANGED <<server_socket, fds, starter>>
  BY DEF Claim, Taken, s, fd0, osVars, otherVars
<1>4. /\ connections'[s].socket = fd0 /\ connections'[s].is_active
      /\ \A t \in Slot \ {s} : connections'[t] = connections[t]
  BY <1>0, <1>1, <1>2, <1>3, TakenSlot
<1>5. Active' = Active \cup {s}
  BY <1>1, <1>4 DEF Active
<1>6. poller'.pc = "check"
  BY <1>0, <1>3 DEF TypeOK
<1>7. \A t \in Active : t \in Slot \ {s}
  BY <1>1 DEF Active
<1>8. ServerApart' /\ PollerHolds'
  BY <1>3, <1>6 DEF IInv, ServerApart, PollerHolds
<1>9. SlotsHoldOwnSockets'
  <2>1. \A t \in Active' : fds[connections'[t].socket] \in Client
    BY <1>2, <1>4, <1>5, <1>7 DEF IInv, SlotsHoldOwnSockets
  <2>2. ASSUME NEW t \in Active', NEW u \in Active',
               connections'[t].socket = connections'[u].socket
        PROVE  t = u
    <3>1. CASE t \in Active /\ u \in Active
      BY <2>2, <3>1, <1>4, <1>7 DEF IInv, SlotsHoldOwnSockets
    <3>2. CASE t = s \/ u = s
      <4>1. \A v \in Active : connections'[v].socket # fd0
        BY <1>2, <1>4, <1>7
      <4> QED BY <2>2, <3>2, <4>1, <1>4, <1>5
    <3> QED BY <3>1, <3>2, <1>5
  <2> QED BY <2>1, <2>2, <1>3 DEF SlotsHoldOwnSockets
<1>10. NoSocketLeaked'
  <2>1. ASSUME NEW fd \in Fd, fds'[fd] \in Client
        PROVE  \E t \in Active' : connections'[t].socket = fd
    <3>1. CASE fd = fd0
      BY <3>1, <1>4, <1>5
    <3>2. CASE fd # fd0
      <4>1. \E t \in Active : connections[t].socket = fd
        BY <2>1, <3>2, <1>3 DEF IInv, NoSocketLeaked, fd0
      <4> QED BY <4>1, <1>4, <1>5, <1>7
    <3> QED BY <3>1, <3>2
  <2> QED BY <2>1 DEF NoSocketLeaked
<1> QED BY <1>8, <1>9, <1>10 DEF IInv

(* The socket of a client that is turned away is closed. *)
LEMMA RefuseMatches ==
  ASSUME IInv, Plain', Refuse
  PROVE  IInv'
<1> DEFINE fd0 == poller.fd
<1>0. TypeOK
  BY DEF IInv, Plain
<1>1. fd0 \in Fd /\ fds[fd0] \in Client /\ \A t \in Active : connections[t].socket # fd0
  BY DEF Refuse, IInv, Plain, PollerHolds
<1>2. /\ CLOSE_SOCKET({fd0}) /\ poller' = [poller EXCEPT !.pc = "check", !.fd = INVALID]
      /\ UNCHANGED <<server_socket, connections, starter>>
  BY DEF Refuse, ctxVars, otherVars
<1>3. \A fd \in Fd : fds'[fd] = IF fd = fd0 THEN "free" ELSE fds[fd]
  BY <1>2 DEF CLOSE_SOCKET
<1>4. poller'.pc = "check"
  BY <1>0, <1>2 DEF TypeOK
<1>5. Active' = Active /\ \A s \in Active : connections[s].socket \in Fd
  BY <1>0, <1>2 DEF Active, TypeOK
<1>6. ServerApart' /\ PollerHolds'
  BY <1>0, <1>1, <1>2, <1>3, <1>4 DEF IInv, TypeOK, ServerApart, PollerHolds
<1>7. SlotsHoldOwnSockets'
  BY <1>1, <1>2, <1>3, <1>5 DEF IInv, SlotsHoldOwnSockets
<1>8. NoSocketLeaked'
  BY <1>2, <1>3, <1>5, WordsApart DEF IInv, NoSocketLeaked
<1> QED BY <1>6, <1>7, <1>8 DEF IInv

(* The other steps of a poll touch neither. *)
LEMMA PollMatches ==
  ASSUME IInv, Plain', PollBegin \/ PollGoesOn
  PROVE  IInv'
<1>1. poller \in Place
  BY DEF IInv, Plain, TypeOK, Place
<1>2. ASSUME UNCHANGED <<fds, ctxVars, otherVars>>, poller.pc # "claim", poller'.pc # "claim"
      PROVE  IInv'
  <2>1. UNCHANGED <<server_socket, connections, starter>>
    BY <1>2 DEF ctxVars, otherVars
  <2>2. ServerApart'
    BY <1>2, <2>1 DEF IInv, ServerApart
  <2> QED BY <1>2, <2>1, <2>2, OthersMove
<1>3. ASSUME UNCHANGED <<osVars, ctxVars, otherVars>> PROVE UNCHANGED <<fds, ctxVars, otherVars>>
  BY <1>3 DEF osVars
<1>4. CASE PollBegin
  BY <1>1, <1>2, <1>3, <1>4 DEF PollBegin, Place
<1>5. CASE Collect \/ Select \/ NothingToAccept
  BY <1>1, <1>2, <1>3, <1>5 DEF Collect, Select, NothingToAccept, Place
<1>6. CASE LockForScan \/ SkipSlot \/ UnlockAfterScan
  BY <1>1, <1>2, <1>3, <1>6 DEF LockForScan, SkipSlot, UnlockAfterScan, NextSlot, Place
<1>7. CASE Receive
  BY <1>1, <1>2, <1>7 DEF Receive, NextSlot, Place
<1>8. CASE ReceiveNothing
  BY <1>1, <1>2, <1>3, <1>8 DEF ReceiveNothing, handle_disconnect, Place
<1> QED BY <1>4, <1>5, <1>6, <1>7, <1>8, AcceptMatches, ClaimMatches, RefuseMatches
        DEF PollGoesOn

-----------------------------------------------------------------------------
(* The invariant *)

LEMMA Initially ==
  ASSUME Init
  PROVE  IInv /\ FilesStayOpen
<1>1. Plain
  BY TypesAtFirst
<1>2. Active = {}
  BY DEF Init, Active
<1>3. 0 \in Fd /\ \A fd \in Fd : fds[fd] \notin Client
  BY Numbers, WordsApart DEF Init, Fd
<1>4. FilesStayOpen /\ ServerApart /\ PollerHolds
  BY <1>3 DEF Init, FilesStayOpen, ServerApart, PollerHolds
<1>5. SlotsHoldOwnSockets /\ NoSocketLeaked
  BY <1>2, <1>3 DEF SlotsHoldOwnSockets, NoSocketLeaked
<1> QED BY <1>1, <1>4, <1>5 DEF IInv

LEMMA Step ==
  ASSUME IInv, FilesStayOpen, [Next]_vars
  PROVE  IInv'
<1>0. Plain /\ Plain' /\ poller \in Place
  BY TypesKept DEF IInv, Plain, TypeOK, Place
<1>1. ASSUME UNCHANGED <<fds, server_socket, connections, starter, poller>> PROVE IInv'
  <2>1. ServerApart'
    BY <1>1 DEF IInv, ServerApart
  <2> QED BY <1>0, <1>1, <2>1, OthersMove
<1>2. CASE UNCHANGED vars
  BY <1>1, <1>2 DEF vars, osVars, ctxVars, otherVars
<1>3. CASE network_stop
  BY <1>0, <1>3, StopMatches DEF network_stop
<1>4. CASE network_destroy
  <2>1. StopServer /\ poller.pc = "idle" /\ poller'.pc = "destroyed"
    BY <1>0, <1>4 DEF network_destroy, Place
  <2> QED BY <1>0, <2>1, StopMatches
<1>5. ASSUME NEW c \in Client, Connect(c) \/ SendData(c) \/ HangUp(c) PROVE IInv'
  BY <1>1, <1>5 DEF Connect, SendData, HangUp, ctxVars, otherVars
<1>6. 0 \in Fd
  BY Numbers DEF Fd
<1> QED BY <1>0, <1>2, <1>3, <1>4, <1>5, <1>6, FileMatches, StartMatches, PollMatches DEF Next

(* What the server closes is a client's socket, a start's own, or the number    *)
(* that is in server_socket.                                                    *)
LEMMA FilesClosed ==
  ASSUME IInv, FilesStayOpen, [Next]_vars,
         NEW f \in files, fds'[f] # "file"
  PROVE  f \notin files' \/ (server_socket = f /\ server_socket' = INVALID)
<1>0. TypeOK /\ f \in Fd /\ fds[f] = "file"
  BY DEF IInv, Plain, TypeOK, FilesStayOpen
<1>1. fds'[f] # fds[f]
  BY <1>0
<1>3. CASE StopServer
  <2>1. (\E s \in Active : connections[s].socket = f) \/ f = server_socket
    BY <1>0, <1>1, <1>3 DEF StopServer, CLOSE_SOCKET
  <2>2. \A s \in Active : connections[s].socket # f
    BY <1>0, WordsApart DEF IInv, SlotsHoldOwnSockets
  <2> QED BY <1>3, <2>1, <2>2 DEF StopServer
<1>4. CASE Refuse
  <2>1. f = poller.fd
    BY <1>0, <1>1, <1>4 DEF Refuse, CLOSE_SOCKET
  <2>2. fds[poller.fd] # "file"
    BY <1>4, WordsApart DEF Refuse, IInv, PollerHolds
  <2> QED BY <1>0, <2>1, <2>2
<1>5. CASE Accept \/ OpenFile \/ StartSocket \/ StartListens
  <2>1. FreeFds # {} => Min(FreeFds) \in Fd /\ fds[Min(FreeFds)] = "free"
    BY <1>0, FreeFound
  <2>2. \/ FreeFds # {} /\ f = Min(FreeFds)
        \/ fds[f] = "socket"
    BY <1>0, <1>1, <1>5 DEF Accept, OpenFile, StartSocket, StartListens, Kind, TypeOK
  <2> QED BY <1>0, <2>1, <2>2
<1>6. CASE StartFails
  <2>1. starter # "idle" /\ f = server_socket /\ server_socket # INVALID
    BY <1>0, <1>1, <1>6 DEF StartFails, CLOSE_SOCKET
  <2> QED BY <1>0, <2>1 DEF IInv, ServerApart
<1>7. ASSUME NEW g \in Fd, CloseFile(g) PROVE f \notin files'
  BY <1>0, <1>1, <1>7 DEF CloseFile, CLOSE_SOCKET
<1>8. ~UNCHANGED fds
  BY <1>1
<1>9. ~StartGoesOn /\ ~UNCHANGED vars
  BY <1>8 DEF StartGoesOn, vars, osVars
<1>10. ASSUME NEW c \in Client PROVE ~Connect(c) /\ ~SendData(c) /\ ~HangUp(c)
  BY <1>8 DEF Connect, SendData, HangUp
<1>11. ~PollBegin /\ ~Collect /\ ~Select /\ ~NothingToAccept /\ ~LockForScan
  BY <1>8 DEF PollBegin, Collect, Select, NothingToAccept, LockForScan, osVars
<1>12. ~Claim /\ ~SkipSlot /\ ~Receive /\ ~ReceiveNothing /\ ~UnlockAfterScan
  BY <1>8 DEF Claim, SkipSlot, Receive, ReceiveNothing, UnlockAfterScan, osVars
<1> QED BY <1>3, <1>4, <1>5, <1>6, <1>7, <1>9, <1>10, <1>11, <1>12
        DEF Next, network_start, network_stop, network_destroy, PollGoesOn

(* A descriptor becomes a file's when it is opened as one.                      *)
LEMMA FilesOpened ==
  ASSUME IInv, [Next]_vars,
         NEW f \in files' \ files
  PROVE  fds'[f] = "file"
<1>1. CASE OpenFile
  <2>1. f = Min(FreeFds) /\ f \in Fd
    BY <1>1, FreeFound DEF OpenFile, IInv, Plain
  <2> QED BY <1>1, <2>1 DEF OpenFile, IInv, Plain, TypeOK
<1>2. ~UNCHANGED files
  OBVIOUS
<1>3. ~UNCHANGED vars /\ ~StopServer /\ ~network_start
  BY <1>2 DEF vars, otherVars, StopServer, network_start, StartSocket, StartGoesOn,
              StartListens, StartFails
<1>4. ~PollBegin /\ ~PollGoesOn
  BY <1>2 DEF PollBegin, PollGoesOn, Collect, Select, NothingToAccept, Accept, Claim, Refuse,
              LockForScan, SkipSlot, Receive, ReceiveNothing, UnlockAfterScan, otherVars
<1>5. ASSUME NEW c \in Client PROVE ~Connect(c) /\ ~SendData(c) /\ ~HangUp(c)
  BY <1>2 DEF Connect, SendData, HangUp, otherVars
<1>6. ASSUME NEW g \in Fd PROVE ~CloseFile(g)
  BY DEF CloseFile
<1> QED BY <1>1, <1>3, <1>4, <1>5, <1>6 DEF Next, network_stop, network_destroy

LEMMA FilesKept ==
  ASSUME IInv, FilesStayOpen, NumberIsOwn, [Next]_vars
  PROVE  FilesStayOpen'
BY FilesClosed, FilesOpened DEF FilesStayOpen, NumberIsOwn

(* Until a stop closes a file of other code, slots and sockets stay matched.   *)
LEMMA Invariance == Spec /\ []FilesStayOpen => []IInv
<1>1. Init => IInv
  BY Initially
<1>2. IInv /\ FilesStayOpen /\ [Next]_vars => IInv'
  BY Step
<1> QED BY <1>1, <1>2, PTL DEF Spec

(* Every variable keeps its type, whatever other code closes.                  *)
THEOREM TypeCorrect == Spec => []TypeOK
<1>1. Init => Plain
  BY TypesAtFirst
<1>2. Plain /\ [Next]_vars => Plain'
  BY TypesKept
<1>3. Plain => TypeOK
  BY DEF Plain
<1> QED BY <1>1, <1>2, <1>3, PTL DEF Spec

(* While no file of other code has been closed, a slot marked active holds an  *)
(* open client socket, and no two hold the same.                               *)
THEOREM SlotsAlwaysOwn == Spec /\ []FilesStayOpen => []SlotsHoldOwnSockets
<1>1. IInv => SlotsHoldOwnSockets
  BY DEF IInv
<1> QED BY <1>1, Invariance, PTL

(* While no file of other code has been closed, every client socket is in an   *)
(* active slot or in accept_connection's hands.                                *)
THEOREM NoSocketEverLeaked == Spec /\ []FilesStayOpen => []NoSocketLeaked
<1>1. IInv => NoSocketLeaked
  BY DEF IInv
<1> QED BY <1>1, Invariance, PTL

(* While no file of other code has been closed under it, the next one that is   *)
(* closed is closed by a stop or a destruction through server_socket: not by an *)
(* accept that is turned away, a start that fails half-way, or a slot.          *)
THEOREM OnlyStopsCloseFiles == Spec /\ []FilesStayOpen => OnlyStopClosesFiles
<1> DEFINE Closes ==
             \A fd \in files : fds[fd] = "file" /\ fds'[fd] # "file" =>
               fd \notin files' \/ (server_socket = fd /\ server_socket' = INVALID)
<1>1. IInv /\ FilesStayOpen /\ [Next]_vars => [Closes]_vars
  BY FilesClosed
<1> QED BY <1>1, Invariance, PTL DEF Spec, OnlyStopClosesFiles

(* Files of other code stay open as long as server_socket holds the number of  *)
(* none of them: the number a failed start leaves behind, or the 0 that a      *)
(* context is created with, is the only way for the server to close one.       *)
THEOREM FilesLostOnlyByNumber == Spec /\ []NumberIsOwn => []FilesStayOpen
<1>1. Init => IInv /\ FilesStayOpen
  BY Initially
<1>2. IInv /\ FilesStayOpen /\ NumberIsOwn /\ [Next]_vars => IInv' /\ FilesStayOpen'
  BY Step, FilesKept
<1> QED BY <1>1, <1>2, PTL DEF Spec

=============================================================================
