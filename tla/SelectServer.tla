------------------------------ MODULE SelectServer ------------------------------
(***************************************************************************)
(* simple_web_server: TCPServer (src/tcp_server.cpp) as MultiClientChat    *)
(* uses it.  One thread waits in select for the sockets of main_, then     *)
(* serves the ready ones: it accepts on the listening socket, and passes   *)
(* what it receives from a client on to all the others.  All its sockets   *)
(* block, so a send waits for room in the buffers of the client's link.    *)
(*                                                                         *)
(* A socket is the client it belongs to; a byte is its sender and its      *)
(* number; the welcome message is one byte of the listening socket.        *)
(* CleanUp is left out: run never leaves its loop.                         *)
(***************************************************************************)
EXTENDS Naturals, Sequences, SequencesExt, Filters

CONSTANTS
  Clients,      \* the clients; each connects at most once
  socket_,      \* the listening socket
  INVALID,      \* INVALID_SOCKET, what a failing accept returns
  FD_SETSIZE,   \* sockets a fd_set holds (64)
  BufSize,      \* bytes recv takes at most (4096)
  Room,         \* bytes the buffers of a link to a client hold
  MaxSays,      \* bound: MaxSays[c] bytes come from client c
  Leavers       \* bound: the clients that may go away

Sockets == Clients \cup {socket_, INVALID}

ASSUME SocketsAssumption ==
  socket_ # INVALID /\ socket_ \notin Clients /\ INVALID \notin Clients
ASSUME SizesAssumption ==
  /\ FD_SETSIZE \in Nat \ {0} /\ BufSize \in Nat \ {0}
  /\ Room \in Nat /\ Room >= BufSize
ASSUME BoundsAssumption == MaxSays \in [Clients -> Nat] /\ Leavers \subseteq Clients

VARIABLES
  server,    \* starting, running, failing (select has failed: the loop runs
             \* through main_) or lost (and past its last entry, without end)
  client,    \* client[c]: away, queued (in the backlog), aborted (left while
             \* queued), joined, gone, closed (the server's
             \* socket as well)
  said,      \* said[c]: how many bytes c has sent
  unread,    \* unread[c]: how many of them the server has yet to receive
  inbox,     \* inbox[c]: bytes sent to c and not yet read by it
  shown,     \* shown[c]: bytes c has read
  main_,     \* main_, in the order of fd_array; empty without a listening
             \* socket
  ready,     \* sockets of copy_main the loop has yet to visit,
  uncut,     \* and where select has failed, which leaves copy_main as it was
  chunk,     \* what recv put into buf
  rest,      \* the clients SendToAllClients has yet to send it to
  log,       \* every byte received, in order (history)
  joined     \* joined[c]: Len(log) when c was accepted (history)

clientVars == <<client, said>>
vars == <<server, clientVars, unread, inbox, shown, main_, ready, uncut, chunk,
          rest, log, joined>>

Byte == [from : Clients \cup {socket_}, n : Nat \ {0}]
Welcome == [from |-> socket_, n |-> 1]
Members == Range(main_)

MinOf(a, b) == IF a <= b THEN a ELSE b

-----------------------------------------------------------------------------
(* Variants of the operations below with one mistake each.                 *)

\* The socket is closed but stays in main_
ClrForgotten(s, set) == set

\* A full set is not noticed
SetUnbounded(s, set) == IF s \in Range(set) THEN set ELSE Append(set, s)

\* The sender is sent its own bytes
ReceiversAndSender(c) == Filter(main_, Sockets \ {socket_})

\* The loop of SendToAllClients ends before the last socket
ReceiversButLast(c) == Filter(Front(main_), Sockets \ {socket_, c})

-----------------------------------------------------------------------------
(* fd_set, and the sockets select finds ready.                             *)

\* FD_SET: no effect on a socket that is in the set, or on a full set
FD_SET(s, set) ==
  IF s \in Range(set) \/ Len(set) >= FD_SETSIZE THEN set ELSE Append(set, s)

\* FD_CLR: the entries after the first one that is s move up
FD_CLR(s, set) ==
  IF s \in Range(set) THEN RemoveAt(set, CHOOSE i \in DOMAIN set : set[i] = s)
                     ELSE set

Backlog == {c \in Clients : client[c] \in {"queued", "aborted"}}
Readable(s) ==
  IF s = socket_ THEN Backlog # {}
                 ELSE client[s] = "gone" \/ (client[s] = "joined" /\ unread[s] > 0)

\* Whether select fails: an entry of the set is not a socket
NotASocket(s) == s = INVALID \/ (s \in Clients /\ client[s] = "closed")

\* The clients SendToAllClients sends to
Receivers(c) == Filter(main_, Sockets \ {socket_, c})

-----------------------------------------------------------------------------
Init ==
  /\ server = "starting"
  /\ client = [c \in Clients |-> "away"]
  /\ said = [c \in Clients |-> 0]
  /\ unread = [c \in Clients |-> 0]
  /\ inbox = [c \in Clients |-> <<>>]
  /\ shown = [c \in Clients |-> <<>>]
  /\ main_ = <<>>
  /\ ready = {} /\ uncut = <<>> /\ chunk = <<>> /\ rest = <<>>
  /\ log = <<>>
  /\ joined = [c \in Clients |-> 0]

-----------------------------------------------------------------------------
(* The clients.                                                            *)

\* The link is up, and waits to be accepted
Connect(c) ==
  /\ client[c] = "away" /\ main_ # <<>>
  /\ client' = [client EXCEPT ![c] = "queued"]
  /\ UNCHANGED <<server, said, unread, inbox, shown, main_, ready, uncut,
                 chunk, rest, log, joined>>

Say(c) ==
  /\ client[c] \in {"queued", "joined"} /\ said[c] < MaxSays[c]
  /\ said' = [said EXCEPT ![c] = @ + 1]
  /\ unread' = [unread EXCEPT ![c] = @ + 1]
  /\ UNCHANGED <<server, client, inbox, shown, main_, ready, uncut, chunk,
                 rest, log, joined>>

Read(c) ==
  /\ client[c] = "joined" /\ inbox[c] # <<>>
  /\ shown' = [shown EXCEPT ![c] = @ \o inbox[c]]
  /\ inbox' = [inbox EXCEPT ![c] = <<>>]
  /\ UNCHANGED <<server, clientVars, unread, main_, ready, uncut, chunk, rest,
                 log, joined>>

Leave(c) ==
  /\ c \in Leavers /\ client[c] \in {"queued", "joined"}
  /\ client' = [client EXCEPT ![c] = IF @ = "queued" THEN "aborted" ELSE "gone"]
  /\ UNCHANGED <<server, said, unread, inbox, shown, main_, ready, uncut,
                 chunk, rest, log, joined>>

-----------------------------------------------------------------------------
(* TCPServer::init and TCPServer::run.                                     *)

InitServer ==
  /\ server = "starting"
  /\ server' = "running" /\ main_' = <<socket_>>
  /\ UNCHANGED <<clientVars, unread, inbox, shown, ready, uncut, chunk, rest,
                 log, joined>>

\* WSAStartup, socket, bind or listen fails.  main goes on to run all the same,
\* and select fails on a set that has never been set up.
InitFails ==
  /\ server = "starting"
  /\ server' = "lost"
  /\ UNCHANGED <<clientVars, unread, inbox, shown, main_, ready, uncut, chunk,
                 rest, log, joined>>

AtSelect == server = "running" /\ ready = {} /\ rest = <<>>

\* The loop comes to a socket of copy_main, and has come to it
Visiting(s) == rest = <<>> /\ (s \in ready \/ (uncut # <<>> /\ Head(uncut) = s))
Visited(s) ==
  /\ ready' = ready \ {s}
  /\ uncut' = IF uncut = <<>> THEN uncut ELSE Tail(uncut)

\* select returns the sockets that are ready, in any order
Select ==
  /\ AtSelect /\ \A s \in Members : ~NotASocket(s)
  /\ ready' = {s \in Members : Readable(s)}
  /\ ready' # {}
  /\ UNCHANGED <<server, clientVars, unread, inbox, shown, main_, uncut, chunk,
                 rest, log, joined>>

\* With something else in main_ it returns SOCKET_ERROR, -1, and the loop
\* compares a size_t with it: it visits all of main_, where accept and recv wait,
SelectFails ==
  /\ AtSelect /\ \E s \in Members : NotASocket(s)
  /\ server' = "failing" /\ uncut' = main_
  /\ UNCHANGED <<clientVars, unread, inbox, shown, main_, ready, chunk, rest,
                 log, joined>>

\* and goes on to what lies behind the entries of fd_array, and behind fd_array
RunsOff ==
  /\ server = "failing" /\ uncut = <<>> /\ rest = <<>>
  /\ server' = "lost"
  /\ UNCHANGED <<clientVars, unread, inbox, shown, main_, ready, uncut, chunk,
                 rest, log, joined>>

\* accept, FD_SET and OnClientConnected, which sends the welcome message
Accept(c) ==
  /\ Visiting(socket_) /\ c \in Backlog
  /\ Visited(socket_)
  /\ main_' = FD_SET(c, main_)
  /\ client' = [client EXCEPT ![c] = IF @ = "queued" THEN "joined" ELSE "gone"]
  /\ inbox' = [inbox EXCEPT ![c] = <<Welcome>>]
  /\ joined' = [joined EXCEPT ![c] = Len(log)]
  /\ UNCHANGED <<server, said, unread, shown, chunk, rest, log>>

\* accept fails, because the peer has reset the link; the send of
\* OnClientConnected then fails as well
AcceptFails(c) ==
  /\ Visiting(socket_) /\ client[c] = "aborted"
  /\ Visited(socket_)
  /\ main_' = FD_SET(INVALID, main_)
  /\ client' = [client EXCEPT ![c] = "gone"]
  /\ UNCHANGED <<server, said, unread, inbox, shown, chunk, rest, log, joined>>

\* recv returns bytes: OnClientDataReceived begins SendToAllClients
Receive(c) ==
  /\ Visiting(c) /\ unread[c] > 0
  /\ LET k == MinOf(unread[c], BufSize)
         got == said[c] - unread[c]
     IN  /\ chunk' = [i \in 1..k |-> [from |-> c, n |-> got + i]]
         /\ unread' = [unread EXCEPT ![c] = @ - k]
  /\ log' = log \o chunk'
  /\ Visited(c)
  /\ rest' = Receivers(c)
  /\ UNCHANGED <<server, clientVars, inbox, shown, main_, joined>>

\* recv returns 0, or fails and loses what is unread: closesocket and FD_CLR
Disconnect(c) ==
  /\ Visiting(c) /\ client[c] = "gone"
  /\ client' = [client EXCEPT ![c] = "closed"]
  /\ Visited(c)
  /\ main_' = FD_CLR(c, main_)
  /\ UNCHANGED <<server, said, unread, inbox, shown, chunk, rest, log, joined>>

\* recv and closesocket fail on INVALID_SOCKET, and it is taken out of main_
VisitInvalid ==
  /\ Visiting(INVALID)
  /\ Visited(INVALID)
  /\ main_' = FD_CLR(INVALID, main_)
  /\ UNCHANGED <<server, clientVars, unread, inbox, shown, chunk, rest, log,
                 joined>>

\* SendToClient for one client: send waits for room; where it fails, the error
\* is ignored
SendToClient ==
  /\ rest # <<>>
  /\ LET s == Head(rest)
     IN  IF NotASocket(s) \/ client[s] = "gone" THEN UNCHANGED inbox
         ELSE /\ Len(inbox[s]) + Len(chunk) <= Room
              /\ inbox' = [inbox EXCEPT ![s] = @ \o chunk]
  /\ rest' = Tail(rest)
  /\ UNCHANGED <<server, clientVars, unread, shown, main_, ready, uncut, chunk,
                 log, joined>>

-----------------------------------------------------------------------------
Run ==
  \/ Select \/ SelectFails \/ RunsOff \/ VisitInvalid \/ SendToClient
  \/ \E c \in Clients : Accept(c) \/ AcceptFails(c) \/ Receive(c) \/ Disconnect(c)

Next ==
  \/ InitServer \/ InitFails
  \/ Run
  \/ \E c \in Clients : Connect(c) \/ Say(c) \/ Read(c) \/ Leave(c)

Spec == Init /\ [][Next]_vars

\* The server's thread runs; a client that stays keeps reading, which is what
\* the server relies on: it has no way to go on while a send waits.
Fairness ==
  /\ WF_vars(Run)
  /\ \A c \in Clients : WF_vars(Read(c))

FairSpec == Spec /\ Fairness

-----------------------------------------------------------------------------
TypeOK ==
  /\ server \in {"starting", "running", "failing", "lost"}
  /\ client \in [Clients -> {"away", "queued", "aborted", "joined", "gone",
                         "closed"}]
  /\ said \in [Clients -> Nat] /\ unread \in [Clients -> Nat]
  /\ inbox \in [Clients -> Seq(Byte)] /\ shown \in [Clients -> Seq(Byte)]
  /\ main_ \in Seq(Sockets) /\ Len(main_) <= FD_SETSIZE
  /\ ready \subseteq Sockets /\ uncut \in Seq(Sockets)
  /\ chunk \in Seq(Byte) /\ rest \in Seq(Sockets)
  /\ log \in Seq(Byte) /\ joined \in [Clients -> Nat]

-----------------------------------------------------------------------------
(* What makes the server correct.                                          *)

\* What is left of copy_main, a copy made before sockets were added to main_
\* and removed from it, names sockets of main_ only.  Where select has cut it to
\* the ready ones each of them still is ready: recv and accept do not wait.  And
\* main_ keeps no closed socket, on which select would fail: nothing but a failed
\* accept, whose INVALID_SOCKET stays in main_, ever makes it fail.
CopyNotStale ==
  /\ ready \cup Range(uncut) \subseteq Members
  /\ \A s \in ready : Readable(s)
  /\ \A s \in Members \ {INVALID} : ~NotASocket(s)

\* The bytes of others received since c was accepted
Due(c) ==
  Filter(SubSeq(log, joined[c] + 1, Len(log)),
         [from : Clients \ {c}, n : Nat \ {0}])

\* A client of main_ is sent the welcome message and then every byte of every
\* other client, in the order the server received them; all but the bytes of
\* the broadcast under way have been sent.
StreamComplete ==
  \A c \in Members \cap Clients :
    client[c] = "joined" =>
      shown[c] \o inbox[c] \o (IF c \in Range(rest) THEN chunk ELSE <<>>)
        = <<Welcome>> \o Due(c)

\* A byte sent by a client of main_ comes to be read by every other one, unless
\* one of them leaves or select has failed: as long as clients read, the sends
\* that wait do not hold the server up for ever.
EventuallyShown ==
  \A c, d \in Clients : c # d =>
    \A n \in 1..MaxSays[c] :
      said[c] >= n /\ {c, d} \subseteq Members /\ said[c] - unread[c] < n
        ~> \/ [from |-> c, n |-> n] \in Range(shown[d])
           \/ "gone" \in {client[c], client[d]}
           \/ "closed" \in {client[c], client[d]} \/ server # "running"

=============================================================================
