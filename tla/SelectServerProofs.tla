--------------------------- MODULE SelectServerProofs ---------------------------
(***************************************************************************)
(* Proofs about SelectServer for any clients, sizes and buffers: the copy  *)
(* of main_ the loop walks is never stale, although sockets are added to   *)
(* main_ and removed from it in between, and every client is sent all bytes*)
(* of the others, in one order.                                            *)
(***************************************************************************)
EXTENDS SelectServer, FilterProofs

-----------------------------------------------------------------------------
(* The inductive invariant.                                                *)

\* The types the argument needs
Types ==
  /\ server \in {"starting", "running", "failing", "lost"}
  /\ client \in [Clients -> {"away", "queued", "aborted", "joined", "gone",
                             "closed"}]
  /\ unread \in [Clients -> Nat]
  /\ main_ \in Seq(Sockets) /\ uncut \in Seq(Sockets)

\* No socket is in main_ twice, so that FD_CLR leaves none of it behind
Once == \A i, j \in DOMAIN main_ : main_[i] = main_[j] => i = j

\* A client of main_ has been accepted and its socket is not closed
MembersOpen == \A c \in Clients \cap Members : client[c] \in {"joined", "gone"}

\* What select has found ready still is
ReadyStays == \A s \in ready : s \in Members \ {INVALID} /\ Readable(s)

\* The server starts with an empty set
StartsEmpty == server = "starting" => main_ = <<>>

\* The loop runs through one copy at a time, the one or the other; the uncut one
\* has every socket once, and none that main_ has not
CopyKept ==
  /\ uncut # <<>> => server = "failing" /\ ready = {}
  /\ IsInjective(uncut) /\ Range(uncut) \subseteq Members

SelectInv == Types /\ Once /\ MembersOpen /\ ReadyStays /\ StartsEmpty /\ CopyKept

-----------------------------------------------------------------------------
(* FD_SET and FD_CLR as operations on sets.                                *)

\* FD_SET adds at most the socket it is given, and keeps a set free of
\* repetitions.
LEMMA FdSet ==
  ASSUME NEW set \in Seq(Sockets), NEW s \in Sockets,
         \A i, j \in DOMAIN set : set[i] = set[j] => i = j
  PROVE  /\ FD_SET(s, set) \in Seq(Sockets)
         /\ Range(set) \subseteq Range(FD_SET(s, set))
         /\ Range(FD_SET(s, set)) \subseteq Range(set) \cup {s}
         /\ \A i, j \in DOMAIN FD_SET(s, set) :
              FD_SET(s, set)[i] = FD_SET(s, set)[j] => i = j
<1>1. CASE s \in Range(set) \/ Len(set) >= FD_SETSIZE
      BY <1>1 DEF FD_SET
<1>2. CASE ~(s \in Range(set) \/ Len(set) >= FD_SETSIZE)
  <2> DEFINE grown == Append(set, s)
  <2>1. FD_SET(s, set) = grown
        BY <1>2 DEF FD_SET
  <2>2. /\ grown \in Seq(Sockets)
        /\ DOMAIN set = 1..Len(set) /\ Len(set) \in Nat
        /\ DOMAIN grown = 1..(Len(set) + 1)
        /\ \A i \in 1..Len(set) : grown[i] = set[i]
        /\ grown[Len(set) + 1] = s
        OBVIOUS
  <2>3. \A i \in 1..Len(set) : set[i] # s
        BY <1>2, <2>2 DEF Range
  <2>4. Range(set) \subseteq Range(grown)
        BY <2>2 DEF Range
  <2>5. Range(grown) \subseteq Range(set) \cup {s}
        BY <2>2 DEF Range
  <2>6. \A i, j \in DOMAIN grown : grown[i] = grown[j] => i = j
        BY <2>2, <2>3
  <2> QED
      BY <2>1, <2>2, <2>4, <2>5, <2>6
<1> QED
    BY <1>1, <1>2

\* FD_CLR takes a socket out of a set that holds it once, and nothing else.
LEMMA FdClr ==
  ASSUME NEW set \in Seq(Sockets), NEW s,
         \A i, j \in DOMAIN set : set[i] = set[j] => i = j
  PROVE  /\ FD_CLR(s, set) \in Seq(Sockets)
         /\ Range(FD_CLR(s, set)) = Range(set) \ {s}
         /\ \A i, j \in DOMAIN FD_CLR(s, set) :
              FD_CLR(s, set)[i] = FD_CLR(s, set)[j] => i = j
<1>1. CASE s \notin Range(set)
      BY <1>1 DEF FD_CLR
<1>2. CASE s \in Range(set)
  <2> DEFINE at == CHOOSE i \in DOMAIN set : set[i] = s
             less == RemoveAt(set, at)
  <2>1. at \in DOMAIN set /\ set[at] = s
        BY <1>2 DEF Range
  <2>2. DOMAIN set = 1..Len(set) /\ Len(set) \in Nat
        OBVIOUS
  <2>3. FD_CLR(s, set) = less
        BY <1>2 DEF FD_CLR
  <2> HIDE DEF at
  <2>4. /\ less \in Seq(Sockets)
        /\ Len(less) = Len(set) - 1
        /\ \A i \in 1..Len(less) :
             less[i] = IF i < at THEN set[i] ELSE set[i + 1]
        BY <2>1, RemoveAtElements
  <2> HIDE DEF less
  <2>5. DOMAIN less = 1..(Len(set) - 1)
        BY <2>4
  <2>6. Range(less) \subseteq Range(set) \ {s}
        BY <2>1, <2>2, <2>4, <2>5 DEF Range
  <2>7. ASSUME NEW i \in DOMAIN set, set[i] # s
        PROVE  set[i] \in Range(less)
    <3>1. CASE i < at
          BY <2>1, <2>2, <2>4, <2>5, <3>1 DEF Range
    <3>2. CASE i > at
      <4>1. i - 1 \in DOMAIN less /\ less[i - 1] = set[i]
            BY <2>1, <2>2, <2>4, <2>5, <3>2
      <4> QED
          BY <4>1 DEF Range
    <3> QED
        BY <2>1, <2>2, <2>7, <3>1, <3>2
  <2>8. Range(less) = Range(set) \ {s}
        BY ZenonT(40), <2>6, <2>7 DEF Range
  <2>9. ASSUME NEW i \in DOMAIN less, NEW j \in DOMAIN less, less[i] = less[j]
        PROVE  i = j
    <3> DEFINE From(k) == IF k < at THEN k ELSE k + 1
    <3>1. \A k \in DOMAIN less : From(k) \in DOMAIN set /\ less[k] = set[From(k)]
          BY <2>1, <2>2, <2>4, <2>5
    <3>2. From(i) = From(j)
          BY <2>9, <3>1
    <3> QED
        BY <2>1, <2>2, <2>5, <3>2
  <2> QED
      BY <2>3, <2>4, <2>8, <2>9
<1> QED
    BY <1>1, <1>2

-----------------------------------------------------------------------------
(* The invariant is inductive.                                             *)

\* The first state: nothing is set up.
LEMMA SelectInit == Init => SelectInv
BY DEF Init, SelectInv, Types, Once, MembersOpen, ReadyStays, StartsEmpty,
       CopyKept, IsInjective, Members, Range

\* A client is neither the listening socket nor INVALID_SOCKET.
LEMMA ClientsApart ==
  /\ socket_ # INVALID /\ socket_ \in Sockets /\ INVALID \in Sockets
  /\ \A c \in Clients : c \in Sockets /\ c # socket_ /\ c # INVALID
BY SocketsAssumption DEF Sockets

\* The socket that is visited is taken out of what is left of the copy.
LEMMA VisitKeeps ==
  ASSUME SelectInv, NEW s \in Sockets, Visiting(s), Visited(s)
  PROVE  /\ uncut' \in Seq(Sockets) /\ IsInjective(uncut')
         /\ Range(uncut') \subseteq Members \ {s}
         /\ uncut' # <<>> => server = "failing" /\ ready' = {}
<1> USE DEF SelectInv
<1>1. uncut \in Seq(Sockets) /\ CopyKept
      BY DEF Types
<1>2. CASE uncut = <<>>
  <2>1. uncut' = <<>>
        BY <1>2 DEF Visited
  <2> QED
      BY <2>1, EmptySeq DEF IsInjective, Range
<1>3. CASE uncut # <<>>
  <2>1. /\ uncut' = Tail(uncut) /\ Head(uncut) = s /\ ready' = {}
        /\ server = "failing"
        BY <1>1, <1>3 DEF Visiting, Visited, CopyKept
  <2>2. Tail(uncut) \in Seq(Sockets)
        BY <1>1, <1>3, HeadTailProperties
  <2>3. IsInjective(Tail(uncut)) /\ s \notin Range(Tail(uncut))
        /\ Range(Tail(uncut)) \subseteq Range(uncut)
        BY <1>1, <1>3, <2>1, TailOnce DEF CopyKept
  <2> QED
      BY <1>1, <2>1, <2>2, <2>3 DEF CopyKept
<1> QED
    BY <1>2, <1>3

\* A server that has not started visits no socket.
LEMMA VisitStarted ==
  ASSUME SelectInv, NEW s \in Sockets, Visiting(s)
  PROVE  server # "starting"
<1>1. s \in ready \/ uncut # <<>>
      BY DEF Visiting
<1>2. s \in ready => main_ # <<>>
      BY DEF SelectInv, ReadyStays, Members, Range
<1> QED
    BY <1>1, <1>2 DEF SelectInv, StartsEmpty, CopyKept

\* The clients keep the invariant: what makes a socket readable stays, whether
\* its client sends more, leaves the backlog or leaves the chat.
LEMMA ClientStep ==
  ASSUME SelectInv, NEW c \in Clients,
         Connect(c) \/ Say(c) \/ Read(c) \/ Leave(c)
  PROVE  SelectInv'
<1> USE DEF SelectInv
<1>1. CASE Connect(c)
  <2>1. Types' /\ Once' /\ StartsEmpty' /\ CopyKept'
        BY <1>1 DEF Connect, Types, Once, StartsEmpty, CopyKept, Members
  <2>2. MembersOpen'
        BY <1>1 DEF Connect, Types, MembersOpen, Members
  <2>3. ReadyStays'
        BY <1>1 DEF Connect, Types, ReadyStays, Readable, Backlog, Members
  <2> QED
      BY <2>1, <2>2, <2>3
<1>2. CASE Say(c)
  <2>1. Types' /\ Once' /\ StartsEmpty' /\ CopyKept' /\ MembersOpen'
        BY <1>2 DEF Say, Types, Once, StartsEmpty, CopyKept, MembersOpen, Members
  <2>2. ReadyStays'
        BY <1>2 DEF Say, Types, ReadyStays, Readable, Backlog, Members
  <2> QED
      BY <2>1, <2>2
<1>3. CASE Read(c)
      BY <1>3 DEF Read, clientVars, Types, Once, StartsEmpty, CopyKept, MembersOpen, Members,
                  ReadyStays, Readable, Backlog
<1>4. CASE Leave(c)
  <2>1. Types' /\ Once' /\ StartsEmpty' /\ CopyKept'
        BY <1>4 DEF Leave, Types, Once, StartsEmpty, CopyKept, Members
  <2>2. MembersOpen'
        BY <1>4 DEF Leave, Types, MembersOpen, Members
  <2>3. ReadyStays'
        BY <1>4 DEF Leave, Types, ReadyStays, Readable, Backlog, Members
  <2> QED
      BY <2>1, <2>2, <2>3
<1> QED
    BY <1>1, <1>2, <1>3, <1>4

\* Starting keeps the invariant, whether it succeeds or not.
LEMMA StartStep ==
  ASSUME SelectInv, InitServer \/ InitFails
  PROVE  SelectInv'
<1> USE DEF SelectInv
<1>1. CASE InitServer
  <2>1. main_ = <<>> /\ ready = {} /\ main_' = <<socket_>>
        /\ uncut = <<>> /\ uncut' = <<>>
        BY <1>1 DEF InitServer, StartsEmpty, CopyKept, ReadyStays, Members, Range
  <2>2. Range(main_') = {socket_}
        BY <2>1 DEF Range
  <2>3. Types' /\ Once'
        BY <1>1, <2>1, ClientsApart DEF InitServer, clientVars, Types, Once
  <2>4. MembersOpen' /\ ReadyStays' /\ StartsEmpty' /\ CopyKept'
        BY <1>1, <2>1, <2>2, ClientsApart
        DEF InitServer, MembersOpen, ReadyStays, StartsEmpty, CopyKept, IsInjective,
            Members, Range
  <2> QED
      BY <2>3, <2>4
<1>2. CASE InitFails
      BY <1>2 DEF InitFails, clientVars, Types, Once, MembersOpen, ReadyStays,
                  Readable, Backlog, StartsEmpty, CopyKept, Members
<1> QED
    BY <1>1, <1>2

\* select keeps the invariant: it finds what is ready, or fails and leaves the
\* copy as it was made.
LEMMA SelectStep ==
  ASSUME SelectInv, Select \/ SelectFails \/ RunsOff
  PROVE  SelectInv'
<1> USE DEF SelectInv
<1>1. CASE Select
  <2>1. Types' /\ Once' /\ MembersOpen' /\ StartsEmpty'
        BY <1>1 DEF Select, AtSelect, clientVars, Types, Once, MembersOpen,
                    StartsEmpty, Members
  <2>2. ReadyStays'
        BY <1>1 DEF Select, clientVars, ReadyStays, NotASocket, Readable, Backlog,
                    Members
  <2>3. uncut = <<>> /\ uncut' = uncut
        BY <1>1 DEF Select, AtSelect, CopyKept
  <2>4. CopyKept'
        BY <2>3 DEF CopyKept, IsInjective, Range
  <2> QED
      BY <2>1, <2>2, <2>4
<1>2. CASE SelectFails
  <2>1. Types' /\ Once' /\ MembersOpen' /\ ReadyStays' /\ StartsEmpty'
        BY <1>2 DEF SelectFails, clientVars, Types, Once, MembersOpen, ReadyStays,
                    StartsEmpty, Readable, Backlog, Members
  <2>2. CopyKept'
        BY <1>2 DEF SelectFails, AtSelect, CopyKept, Once, IsInjective, Members
  <2> QED
      BY <2>1, <2>2
<1>3. CASE RunsOff
      BY <1>3 DEF RunsOff, clientVars, Types, Once, MembersOpen, ReadyStays,
                  StartsEmpty, CopyKept, Readable, Backlog, Members
<1> QED
    BY <1>1, <1>2, <1>3

\* Accepting keeps the invariant: the set only grows, and only the listening
\* socket, which has been visited, can stop being readable.
LEMMA AcceptStep ==
  ASSUME SelectInv, NEW c \in Clients,
         Accept(c) \/ AcceptFails(c)
  PROVE  SelectInv'
<1> USE DEF SelectInv
<1> DEFINE s == IF Accept(c) THEN c ELSE INVALID
<1>1. s \in Sockets /\ main_' = FD_SET(s, main_)
      BY ClientsApart DEF Accept, AcceptFails
<1>2. /\ main_' \in Seq(Sockets)
      /\ Range(main_) \subseteq Range(main_')
      /\ Range(main_') \subseteq Range(main_) \cup {s}
      /\ Once'
      BY <1>1, FdSet DEF Types, Once
<1> HIDE DEF s
<1>3. client[c] \in {"queued", "aborted"} /\ c \notin Members
      BY DEF Accept, AcceptFails, Backlog, MembersOpen
<1>a. /\ uncut' \in Seq(Sockets) /\ IsInjective(uncut')
      /\ Range(uncut') \subseteq Members
      /\ uncut' # <<>> => server = "failing" /\ ready' = {}
      BY VisitKeeps, ClientsApart DEF Accept, AcceptFails
<1>4. Types' /\ server' = server /\ server # "starting"
  <2>1. Types' /\ server' = server
        BY <1>2, <1>a DEF Accept, AcceptFails, Types
  <2>2. server # "starting"
        BY VisitStarted, ClientsApart DEF Accept, AcceptFails
  <2> QED
      BY <2>1, <2>2
<1>5. MembersOpen'
  <2>1. CASE Accept(c)
        BY <1>2, <2>1 DEF s, Accept, Backlog, Types, MembersOpen, Members
  <2>2. CASE ~Accept(c)
        BY <1>2, <1>3, <2>2, ClientsApart DEF s, AcceptFails, Types, MembersOpen, Members
  <2> QED
      BY <2>1, <2>2
<1>6. ReadyStays'
  <2>1. \A t \in ready' : t \in ready /\ t # socket_
        BY DEF Accept, AcceptFails, Visited
  <2>2. \A t \in ready' : t \in Members' \ {INVALID}
        BY <1>2, <2>1 DEF ReadyStays, Members
  <2>3. ASSUME NEW t \in ready'
        PROVE  Readable(t)'
    <3>1. t \in Clients /\ t # c
          BY <1>3, <2>1, <2>2 DEF ReadyStays, Types, Members, Range, Sockets
    <3>2. Readable(t) /\ t # socket_
          BY <2>1 DEF ReadyStays
    <3> QED
        BY <3>1, <3>2 DEF Accept, AcceptFails, Types, Readable
  <2> QED
      BY <2>2, <2>3 DEF ReadyStays
<1>7. StartsEmpty' /\ CopyKept'
      BY <1>2, <1>4, <1>a DEF StartsEmpty, CopyKept, Members
<1> QED
    BY <1>2, <1>4, <1>5, <1>6, <1>7

\* Serving a client keeps the invariant: its socket is left out of the copy,
\* and of the set when it is closed.
LEMMA ServeStep ==
  ASSUME SelectInv, NEW c \in Clients,
         Receive(c) \/ Disconnect(c)
  PROVE  SelectInv'
<1> USE DEF SelectInv
<1>1. CASE Receive(c)
  <2>1. unread' \in [Clients -> Nat] /\ \A d \in Clients : d # c => unread'[d] = unread[d]
        BY <1>1, SizesAssumption DEF Receive, Types, MinOf
  <2>a. /\ uncut' \in Seq(Sockets) /\ IsInjective(uncut')
        /\ Range(uncut') \subseteq Members
        /\ uncut' # <<>> => server = "failing" /\ ready' = {}
        BY <1>1, VisitKeeps, ClientsApart DEF Receive
  <2>2. Types' /\ Once' /\ MembersOpen' /\ StartsEmpty'
        BY <1>1, <2>1, <2>a DEF Receive, clientVars, Types, Once, MembersOpen,
                                StartsEmpty, Members
  <2>b. CopyKept'
        BY <1>1, <2>a DEF Receive, CopyKept, Members
  <2>3. ReadyStays'
    <3>1. ASSUME NEW t \in ready'
          PROVE  t \in Members' \ {INVALID} /\ Readable(t)'
      <4>1. t \in ready /\ t # c /\ client' = client /\ main_' = main_
            BY <1>1 DEF Receive, clientVars, Visited
      <4>2. t \in Members \ {INVALID} /\ Readable(t)
            BY <4>1 DEF ReadyStays
      <4>3. t = socket_ \/ t \in Clients
            BY <4>2 DEF Types, Members, Range, Sockets
      <4> QED
          BY <2>1, <4>1, <4>2, <4>3 DEF Readable, Backlog, Members
    <3> QED
        BY <3>1 DEF ReadyStays
  <2> QED
      BY <2>2, <2>3, <2>b
<1>2. CASE Disconnect(c)
  <2>1. /\ main_' \in Seq(Sockets) /\ Once'
        /\ Range(main_') = Range(main_) \ {c}
        BY <1>2, FdClr DEF Disconnect, Types, Once
  <2>a. /\ uncut' \in Seq(Sockets) /\ IsInjective(uncut')
        /\ Range(uncut') \subseteq Members \ {c}
        /\ uncut' # <<>> => server = "failing" /\ ready' = {}
        BY <1>2, VisitKeeps, ClientsApart DEF Disconnect
  <2>b. server # "starting"
        BY <1>2, VisitStarted, ClientsApart DEF Disconnect
  <2>2. Types' /\ StartsEmpty' /\ CopyKept'
        BY <1>2, <2>1, <2>a, <2>b DEF Disconnect, Types, StartsEmpty, CopyKept, Members
  <2>3. MembersOpen'
        BY <1>2, <2>1 DEF Disconnect, Types, MembersOpen, Members
  <2>4. ReadyStays'
    <3>1. ASSUME NEW t \in ready'
          PROVE  t \in Members' \ {INVALID} /\ Readable(t)'
      <4>1. t \in ready /\ t # c
            BY <1>2 DEF Disconnect, Visited
      <4>2. t \in Members \ {INVALID} /\ Readable(t)
            BY <4>1 DEF ReadyStays
      <4>3. t = socket_ \/ t \in Clients
            BY <4>2 DEF Types, Members, Range, Sockets
      <4>4. Backlog' = Backlog
            BY <1>2 DEF Disconnect, Types, Backlog
      <4> QED
          BY <1>2, <2>1, <4>1, <4>2, <4>3, <4>4 DEF Disconnect, Types, Readable, Members
    <3> QED
        BY <3>1 DEF ReadyStays
  <2> QED
      BY <2>1, <2>2, <2>3, <2>4
<1> QED
    BY <1>1, <1>2

\* Taking INVALID_SOCKET out of main_ keeps the invariant: it is in no copy twice.
LEMMA InvalidStep ==
  ASSUME SelectInv, VisitInvalid
  PROVE  SelectInv'
<1> USE DEF SelectInv
<1>1. /\ main_' \in Seq(Sockets) /\ Once'
      /\ Range(main_') = Range(main_) \ {INVALID}
      BY FdClr DEF VisitInvalid, Types, Once
<1>2. /\ uncut' \in Seq(Sockets) /\ IsInjective(uncut')
      /\ Range(uncut') \subseteq Members \ {INVALID}
      /\ uncut' # <<>> => server = "failing" /\ ready' = {}
      BY VisitKeeps, ClientsApart DEF VisitInvalid
<1>3. server # "starting" /\ UNCHANGED <<server, client, unread>>
      BY VisitStarted, ClientsApart DEF VisitInvalid, clientVars
<1>4. Types' /\ StartsEmpty' /\ CopyKept' /\ MembersOpen'
      BY <1>1, <1>2, <1>3 DEF Types, StartsEmpty, CopyKept, MembersOpen, Members
<1>5. ReadyStays'
  <2>1. \A t \in ready' : t \in ready
        BY DEF VisitInvalid, Visited
  <2> QED
      BY <1>1, <1>3, <2>1 DEF ReadyStays, Readable, Backlog, Members
<1> QED
    BY <1>1, <1>4, <1>5

\* Every step keeps the invariant.
LEMMA SelectNext == SelectInv /\ [Next]_vars => SelectInv'
<1> SUFFICES ASSUME SelectInv, [Next]_vars PROVE SelectInv'
    OBVIOUS
<1>1. CASE InitServer \/ InitFails
      BY <1>1, StartStep
<1>2. CASE Run
  <2>1. CASE Select \/ SelectFails \/ RunsOff
        BY <1>2, <2>1, SelectStep
  <2>2. CASE SendToClient
        BY <2>2 DEF SendToClient, clientVars, SelectInv, Types, Once, MembersOpen,
                    ReadyStays, Readable, Backlog, StartsEmpty, CopyKept, Members
  <2>3. ASSUME NEW c \in Clients, Accept(c) \/ AcceptFails(c)
        PROVE  SelectInv'
        BY <1>2, <2>3, AcceptStep
  <2>4. ASSUME NEW c \in Clients, Receive(c) \/ Disconnect(c)
        PROVE  SelectInv'
        BY <1>2, <2>4, ServeStep
  <2> QED
      BY <1>2, <2>1, <2>2, <2>3, <2>4, InvalidStep DEF Run
<1>3. ASSUME NEW c \in Clients, Connect(c) \/ Say(c) \/ Read(c) \/ Leave(c)
      PROVE  SelectInv'
      BY <1>3, ClientStep
<1>4. CASE UNCHANGED vars
      BY <1>4 DEF vars, clientVars, SelectInv, Types, Once, MembersOpen, ReadyStays,
                  Readable, Backlog, StartsEmpty, CopyKept, Members
<1> QED
    BY <1>1, <1>2, <1>3, <1>4 DEF Next

\* The copy of main_ names open sockets, which are still ready where select has
\* found them so, and main_ keeps no closed one, so that nothing but a failed
\* accept makes select fail, for any number of clients.
THEOREM CopyStaysFresh == Spec => []CopyNotStale
<1>1. SelectInv => CopyNotStale
  <2> SUFFICES ASSUME SelectInv PROVE CopyNotStale
      OBVIOUS
  <2>1. \A s \in ready : s \in Members /\ Readable(s)
        BY DEF SelectInv, ReadyStays
  <2>2. \A s \in Members \ {INVALID} : ~NotASocket(s)
        BY DEF SelectInv, MembersOpen, NotASocket
  <2>3. Range(uncut) \subseteq Members
        BY DEF SelectInv, CopyKept
  <2> QED
      BY <2>1, <2>2, <2>3 DEF CopyNotStale
<1> QED
    BY <1>1, SelectInit, SelectNext, PTL DEF Spec

-----------------------------------------------------------------------------
(* The types, and the stream of bytes.                                     *)

\* The types, and what they rest on: a client's unread bytes are some it has
\* sent, and it joined the log at a place the log has reached
StreamTypes ==
  /\ TypeOK
  /\ \A c \in Clients : unread[c] <= said[c] /\ joined[c] <= Len(log)

\* A client that has not been accepted has been shown nothing
Unshown ==
  \A c \in Clients : client[c] \in {"away", "queued", "aborted"} => shown[c] = <<>>

\* The clients a broadcast has yet to reach are in main_, each once
Reaching == IsInjective(rest) /\ Range(rest) \subseteq Members

\* StreamComplete for one client, whether it has joined or not
Stream(c) ==
  shown[c] \o inbox[c] \o (IF c \in Range(rest) THEN chunk ELSE <<>>)
    = <<Welcome>> \o Due(c)
Streams == \A c \in Members \cap Clients : client[c] = "joined" => Stream(c)

StreamInv == StreamTypes /\ Unshown /\ Reaching /\ Streams

\* The bytes that are not a client's own
Others(c) == [from : Clients \ {c}, n : Nat \ {0}]

\* The first state: nothing has been sent.
LEMMA StreamInit == Init => StreamInv
<1> SUFFICES ASSUME Init PROVE StreamInv
    OBVIOUS
<1>1. <<>> \in Seq(Byte) /\ <<>> \in Seq(Sockets) /\ Len(<<>>) = 0
      BY EmptySeq
<1>2. StreamTypes
      BY <1>1, SizesAssumption DEF Init, StreamTypes, TypeOK
<1>3. Unshown /\ Reaching /\ Streams
      BY DEF Init, Unshown, Reaching, Streams, Members, Range, IsInjective
<1> QED
    BY <1>2, <1>3 DEF StreamInv

\* What is sent and shown are lists of bytes.
LEMMA StreamParts ==
  ASSUME StreamTypes, NEW c \in Clients
  PROVE  /\ shown[c] \in Seq(Byte) /\ inbox[c] \in Seq(Byte) /\ chunk \in Seq(Byte)
         /\ log \in Seq(Byte) /\ joined[c] \in 0..Len(log)
         /\ Due(c) \in Seq(Byte) /\ <<Welcome>> \in Seq(Byte) /\ <<>> \in Seq(Byte)
<1>1. /\ shown[c] \in Seq(Byte) /\ inbox[c] \in Seq(Byte) /\ chunk \in Seq(Byte)
      /\ log \in Seq(Byte) /\ joined[c] \in Nat /\ joined[c] <= Len(log)
      BY DEF StreamTypes, TypeOK
<1>2. joined[c] \in 0..Len(log)
      BY <1>1, LenProperties
<1>3. Due(c) \in Seq(Byte)
  <2>1. SubSeq(log, joined[c] + 1, Len(log)) \in Seq(Byte)
        BY <1>1, <1>2, RestConcat
  <2> QED
      BY <2>1, FilterSeq DEF Due
<1>4. Welcome \in Byte
      BY DEF Welcome, Byte
<1>5. <<Welcome>> \in Seq(Byte)
      BY <1>4
<1> QED
    BY <1>1, <1>2, <1>3, <1>5, EmptySeq

\* What the clients do: a client that reads has been shown what it has read.
LEMMA ClientStream ==
  ASSUME SelectInv, StreamInv, NEW c \in Clients,
         Connect(c) \/ Say(c) \/ Read(c) \/ Leave(c)
  PROVE  StreamInv'
<1>1. /\ UNCHANGED <<main_, chunk, rest, log, joined, Members>>
      /\ \A d \in Clients : Due(d)' = Due(d)
      BY DEF Connect, Say, Read, Leave, Members, Due
<1>2. Reaching'
      BY <1>1 DEF StreamInv, Reaching
<1>3. CASE ~Read(c)
  <2>1. StreamTypes'
    <3>1. UNCHANGED <<server, inbox, shown, ready, uncut>>
          BY <1>3 DEF Connect, Say, Leave
    <3>2. client' \in [Clients -> {"away", "queued", "aborted", "joined", "gone",
                                   "closed"}]
          BY <1>3 DEF Connect, Say, Leave, StreamInv, StreamTypes, TypeOK
    <3>3. /\ said' \in [Clients -> Nat] /\ unread' \in [Clients -> Nat]
          /\ \A d \in Clients : unread'[d] <= said'[d]
      <4>1. /\ said \in [Clients -> Nat] /\ unread \in [Clients -> Nat]
            /\ \A d \in Clients : unread[d] <= said[d]
            BY DEF StreamInv, StreamTypes, TypeOK
      <4>2. CASE Connect(c) \/ Leave(c)
            BY <4>1, <4>2 DEF Connect, Leave
      <4>3. CASE Say(c)
        <5>1. /\ said' = [said EXCEPT ![c] = said[c] + 1]
              /\ unread' = [unread EXCEPT ![c] = unread[c] + 1]
              BY <4>3 DEF Say
        <5>2. said[c] + 1 \in Nat /\ unread[c] + 1 \in Nat
              /\ unread[c] + 1 <= said[c] + 1
              BY <4>1
        <5>3. said' \in [Clients -> Nat] /\ unread' \in [Clients -> Nat]
              BY <4>1, <5>1, <5>2
        <5>4. ASSUME NEW d \in Clients PROVE unread'[d] <= said'[d]
          <6>1. CASE d = c
                BY <4>1, <5>1, <5>2, <6>1
          <6>2. CASE d # c
                BY <4>1, <5>1, <6>2
          <6> QED
              BY <6>1, <6>2
        <5> QED
            BY <5>3, <5>4
      <4> QED
          BY <1>3, <4>2, <4>3
    <3> QED
        BY <1>1, <3>1, <3>2, <3>3 DEF StreamInv, StreamTypes, TypeOK
  <2>2. /\ UNCHANGED <<shown, inbox>>
        /\ \A d \in Clients :
             /\ client'[d] = "joined" => client[d] = "joined"
             /\ client'[d] \in {"away", "queued", "aborted"} =>
                  client[d] \in {"away", "queued", "aborted"}
        BY <1>3 DEF Connect, Say, Leave, StreamInv, StreamTypes, TypeOK
  <2>3. Unshown'
        BY <2>2 DEF StreamInv, Unshown
  <2>4. Streams'
        BY <1>1, <2>2 DEF StreamInv, Streams, Stream
  <2> QED
      BY <1>2, <2>1, <2>3, <2>4 DEF StreamInv
<1>4. CASE Read(c)
  <2>1. /\ client[c] = "joined" /\ client' = client
        /\ shown[c] \in Seq(Byte) /\ inbox[c] \in Seq(Byte) /\ chunk \in Seq(Byte)
        /\ shown' = [shown EXCEPT ![c] = shown[c] \o inbox[c]]
        /\ inbox' = [inbox EXCEPT ![c] = <<>>]
        /\ shown \in [Clients -> Seq(Byte)] /\ inbox \in [Clients -> Seq(Byte)]
        BY <1>4 DEF Read, clientVars, StreamInv, StreamTypes, TypeOK
  <2>2. /\ shown[c] \o inbox[c] \in Seq(Byte) /\ <<>> \in Seq(Byte)
        /\ (shown[c] \o inbox[c]) \o <<>> = shown[c] \o inbox[c]
        BY <2>1, ConcatProperties, EmptySeq, ConcatEmptySeq
  <2>3. StreamTypes'
    <3>1. shown' \in [Clients -> Seq(Byte)] /\ inbox' \in [Clients -> Seq(Byte)]
          BY <2>1, <2>2
    <3> QED
        BY <1>1, <1>4, <3>1 DEF Read, clientVars, StreamInv, StreamTypes, TypeOK
  <2>4. Unshown'
        BY <2>1 DEF StreamInv, Unshown
  <2>5. \A d \in Clients : shown'[d] \o inbox'[d] = shown[d] \o inbox[d]
        BY <2>1, <2>2
  <2>6. Streams'
        BY <1>1, <2>1, <2>5 DEF StreamInv, Streams, Stream
  <2> QED
      BY <1>2, <2>3, <2>4, <2>6 DEF StreamInv
<1> QED
    BY <1>3, <1>4

\* FD_SET does not make a set larger than it may be, and FD_CLR only smaller.
LEMMA FdSizes ==
  ASSUME NEW set \in Seq(Sockets), Len(set) <= FD_SETSIZE, NEW s \in Sockets
  PROVE  Len(FD_SET(s, set)) <= FD_SETSIZE /\ Len(FD_CLR(s, set)) <= FD_SETSIZE
<1>1. Len(set) \in Nat /\ FD_SETSIZE \in Nat
      BY SizesAssumption
<1>2. Len(Append(set, s)) = Len(set) + 1
      BY AppendProperties
<1>3. Len(FD_SET(s, set)) <= FD_SETSIZE
      BY <1>1, <1>2 DEF FD_SET
<1>4. Len(FD_CLR(s, set)) <= FD_SETSIZE
  <2>1. CASE s \in Range(set)
    <3> DEFINE at == CHOOSE i \in DOMAIN set : set[i] = s
    <3>1. at \in DOMAIN set
          BY <2>1 DEF Range
    <3>2. FD_CLR(s, set) = RemoveAt(set, at)
          BY <2>1 DEF FD_CLR
    <3> HIDE DEF at
    <3>3. Len(RemoveAt(set, at)) = Len(set) - 1
          BY <3>1, RemoveAtElements
    <3> QED
        BY <1>1, <3>2, <3>3
  <2>2. CASE s \notin Range(set)
        BY <2>2 DEF FD_CLR
  <2> QED
      BY <2>1, <2>2
<1> QED
    BY <1>3, <1>4

\* Starting, and select, send nothing.
LEMMA StartStream ==
  ASSUME SelectInv, StreamInv,
         InitServer \/ InitFails \/ Select \/ SelectFails \/ RunsOff
  PROVE  StreamInv'
<1>1. /\ UNCHANGED <<client, said, unread, inbox, shown, chunk, rest, log, joined>>
      /\ \A d \in Clients : Due(d)' = Due(d)
      BY DEF InitServer, InitFails, Select, SelectFails, RunsOff, clientVars, Due
<1>2. Unshown'
      BY <1>1 DEF StreamInv, Unshown
<1>3. CASE InitServer
  <2>1. main_ = <<>> /\ main_' = <<socket_>> /\ server' = "running"
        /\ UNCHANGED <<ready, uncut>>
        BY <1>3 DEF InitServer, SelectInv, StartsEmpty
  <2>2. DOMAIN main_' = {1} /\ main_'[1] = socket_ /\ Len(main_') = 1
        /\ main_' \in Seq(Sockets)
        BY <2>1, ClientsApart
  <2>3. Members' = {socket_} /\ Members = {}
        BY <2>1, <2>2 DEF Members, Range
  <2>4. StreamTypes'
        BY <1>1, <2>1, <2>2, SizesAssumption DEF StreamInv, StreamTypes, TypeOK
  <2>5. Reaching'
        BY <1>1, <2>3 DEF StreamInv, Reaching
  <2>6. Streams'
        BY <2>3, SocketsAssumption DEF Streams
  <2> QED
      BY <1>2, <2>4, <2>5, <2>6 DEF StreamInv
<1>4. CASE ~InitServer
  <2>1. main_' = main_ /\ Members' = Members
        BY <1>4 DEF InitFails, Select, SelectFails, RunsOff, Members
  <2>2. /\ server' \in {"starting", "running", "failing", "lost"}
        /\ ready' \subseteq Sockets /\ uncut' \in Seq(Sockets)
    <3>1. ready' \subseteq ready \cup Members
          BY <1>4 DEF InitFails, Select, SelectFails, RunsOff
    <3>2. Members \subseteq Sockets
          BY RangeOfSeq DEF Members, StreamInv, StreamTypes, TypeOK
    <3> QED
        BY <1>4, <3>1, <3>2
           DEF InitFails, Select, SelectFails, RunsOff, StreamInv, StreamTypes, TypeOK
  <2>3. StreamTypes'
        BY <1>1, <2>1, <2>2 DEF StreamInv, StreamTypes, TypeOK
  <2>4. Reaching' /\ Streams'
        BY <1>1, <2>1 DEF StreamInv, Reaching, Streams, Stream
  <2> QED
      BY <1>2, <2>3, <2>4 DEF StreamInv
<1> QED
    BY <1>3, <1>4

\* A client that is accepted is sent the welcome message, and nothing is due to
\* it yet; accepting none changes no stream.
LEMMA AcceptStream ==
  ASSUME SelectInv, StreamInv, NEW c \in Clients, Accept(c) \/ AcceptFails(c)
  PROVE  StreamInv'
<1> DEFINE s == IF Accept(c) THEN c ELSE INVALID
<1>1. /\ s \in Sockets /\ main_' = FD_SET(s, main_) /\ rest = <<>>
      /\ ready' = ready \ {socket_} /\ uncut' \in Seq(Sockets)
      /\ client[c] \in {"queued", "aborted"} /\ client'[c] \in {"joined", "gone"}
      /\ \A d \in Clients \ {c} : client'[d] = client[d]
      /\ client' \in [Clients -> {"away", "queued", "aborted", "joined", "gone",
                                  "closed"}]
      /\ UNCHANGED <<server, said, unread, shown, chunk, rest, log>>
  <2>1. /\ s \in Sockets /\ main_' = FD_SET(s, main_) /\ rest = <<>>
        /\ ready' = ready \ {socket_}
        /\ client[c] \in {"queued", "aborted"} /\ client'[c] \in {"joined", "gone"}
        /\ \A d \in Clients \ {c} : client'[d] = client[d]
        /\ client' \in [Clients -> {"away", "queued", "aborted", "joined", "gone",
                                    "closed"}]
        /\ UNCHANGED <<server, said, unread, shown, chunk, rest, log>>
        BY ClientsApart DEF Accept, AcceptFails, Visiting, Visited, Backlog, StreamInv,
                            StreamTypes, TypeOK
  <2>2. uncut' \in Seq(Sockets)
        BY VisitKeeps, ClientsApart DEF Accept, AcceptFails
  <2> QED
      BY <2>1, <2>2
<1>2. /\ main_' \in Seq(Sockets) /\ Len(main_') <= FD_SETSIZE
      /\ Members \subseteq Members' /\ Members' \subseteq Members \cup {s}
  <2>1. main_ \in Seq(Sockets) /\ Len(main_) <= FD_SETSIZE
        BY DEF StreamInv, StreamTypes, TypeOK
  <2>2. \A i, j \in DOMAIN main_ : main_[i] = main_[j] => i = j
        BY DEF SelectInv, Once
  <2>3. Len(main_') <= FD_SETSIZE
        BY <1>1, <2>1, FdSizes
  <2>4. /\ main_' \in Seq(Sockets) /\ Range(main_) \subseteq Range(main_')
        /\ Range(main_') \subseteq Range(main_) \cup {s}
        BY <1>1, <2>1, <2>2, FdSet
  <2> QED
      BY <2>3, <2>4 DEF Members
<1> HIDE DEF s
<1>3. /\ inbox' = inbox \/ inbox' = [inbox EXCEPT ![c] = <<Welcome>>]
      /\ joined' = joined \/ joined' = [joined EXCEPT ![c] = Len(log)]
      BY DEF Accept, AcceptFails
<1>4. /\ <<Welcome>> \in Seq(Byte) /\ shown[c] = <<>>
      /\ log \in Seq(Byte) /\ Len(log) \in Nat
  <2>1. <<Welcome>> \in Seq(Byte) /\ log \in Seq(Byte)
        BY StreamParts DEF StreamInv
  <2>2. Len(log) \in Nat
        BY <2>1, LenProperties
  <2> QED
      BY <1>1, <2>1, <2>2 DEF StreamInv, Unshown
<1>5. StreamTypes'
  <2>a. /\ inbox \in [Clients -> Seq(Byte)] /\ joined \in [Clients -> Nat]
        /\ \A d \in Clients : joined[d] <= Len(log)
        BY DEF StreamInv, StreamTypes, TypeOK
  <2>b. inbox' \in [Clients -> Seq(Byte)]
        BY <1>3, <1>4, <2>a
  <2>c. joined' \in [Clients -> Nat]
        BY <1>3, <1>4, <2>a
  <2>d. \A d \in Clients : joined'[d] = joined[d] \/ joined'[d] = Len(log)
        BY <1>3, <2>a
  <2>1. /\ inbox' \in [Clients -> Seq(Byte)] /\ joined' \in [Clients -> Nat]
        /\ \A d \in Clients : joined'[d] <= Len(log)
        BY <1>4, <2>a, <2>b, <2>c, <2>d
  <2> QED
      BY <1>1, <1>2, <2>1 DEF StreamInv, StreamTypes, TypeOK
<1>6. Unshown'
      BY <1>1 DEF StreamInv, Unshown
<1>7. Reaching'
      BY <1>1, <1>2 DEF StreamInv, Reaching
<1>8. ASSUME NEW d \in Members' \cap Clients, client'[d] = "joined"
      PROVE  Stream(d)'
  <2>1. CASE d = c
    <3>1. /\ Accept(c) /\ inbox'[c] = <<Welcome>> /\ joined'[c] = Len(log)
          /\ shown'[c] = <<>>
      <4>1. Accept(c)
            BY <1>8, <2>1 DEF AcceptFails, StreamInv, StreamTypes, TypeOK
      <4> QED
          BY <1>1, <1>4, <4>1 DEF Accept, StreamInv, StreamTypes, TypeOK
    <3>2. Due(c)' = <<>>
      <4>1. SubSeq(log, Len(log) + 1, Len(log)) = <<>>
            BY <1>4, SubSeqEmpty
      <4>2. Filter(<<>>, Others(c)) = <<>>
            BY FilterEmpty
      <4> QED
          BY <1>1, <3>1, <4>1, <4>2 DEF Due, Others
    <3>3. Range(rest') = {}
          BY <1>1 DEF Range
    <3>4. /\ <<>> \o <<Welcome>> = <<Welcome>> /\ <<Welcome>> \o <<>> = <<Welcome>>
          BY <1>4, ConcatEmptySeq
    <3> QED
        BY <2>1, <3>1, <3>2, <3>3, <3>4 DEF Stream
  <2>2. CASE d # c
    <3>1. d \in Members /\ client[d] = "joined"
          BY <1>1, <1>2, <1>8, <2>2, ClientsApart DEF s
    <3>2. inbox'[d] = inbox[d] /\ joined'[d] = joined[d]
          BY <1>3, <2>2 DEF StreamInv, StreamTypes, TypeOK
    <3>3. Due(d)' = Due(d)
          BY <1>1, <3>2 DEF Due
    <3>4. Stream(d)
          BY <1>8, <3>1 DEF StreamInv, Streams
    <3> QED
        BY <1>1, <3>2, <3>3, <3>4 DEF Stream
  <2> QED
      BY <2>1, <2>2
<1> QED
    BY <1>5, <1>6, <1>7, <1>8 DEF StreamInv, Streams

\* A socket that is closed leaves main_, and no stream but its own changes.
LEMMA DisconnectStream ==
  ASSUME SelectInv, StreamInv, NEW c \in Clients, Disconnect(c)
  PROVE  StreamInv'
<1>a. uncut' \in Seq(Sockets)
      BY VisitKeeps, ClientsApart DEF Disconnect
<1>1. /\ main_' = FD_CLR(c, main_) /\ rest = <<>> /\ ready' = ready \ {c}
      /\ client' = [client EXCEPT ![c] = "closed"] /\ c \in Sockets
      /\ UNCHANGED <<server, said, unread, inbox, shown, chunk, rest, log, joined>>
      BY ClientsApart DEF Disconnect, Visiting, Visited
<1>2. /\ main_' \in Seq(Sockets) /\ Len(main_') <= FD_SETSIZE
      /\ Members' = Members \ {c}
  <2>1. main_ \in Seq(Sockets) /\ Len(main_) <= FD_SETSIZE
        BY DEF StreamInv, StreamTypes, TypeOK
  <2>2. \A i, j \in DOMAIN main_ : main_[i] = main_[j] => i = j
        BY DEF SelectInv, Once
  <2>3. Len(main_') <= FD_SETSIZE
        BY <1>1, <2>1, FdSizes
  <2>4. main_' \in Seq(Sockets) /\ Range(main_') = Range(main_) \ {c}
        BY <1>1, <2>1, <2>2, FdClr
  <2> QED
      BY <2>3, <2>4 DEF Members
<1>3. /\ client'[c] = "closed" /\ \A d \in Clients \ {c} : client'[d] = client[d]
      /\ client' \in [Clients -> {"away", "queued", "aborted", "joined", "gone",
                                  "closed"}]
      BY <1>1 DEF StreamInv, StreamTypes, TypeOK
<1>4. StreamTypes'
      BY <1>1, <1>2, <1>3, <1>a DEF StreamInv, StreamTypes, TypeOK
<1>5. Unshown'
      BY <1>1, <1>3 DEF StreamInv, Unshown
<1>6. Reaching'
  <2>1. Range(rest) = {}
        BY <1>1 DEF Range
  <2> QED
      BY <1>1, <2>1 DEF StreamInv, Reaching
<1>7. Streams'
  <2>1. \A d \in Clients : Due(d)' = Due(d)
        BY <1>1 DEF Due
  <2> QED
      BY <1>1, <1>2, <1>3, <2>1 DEF StreamInv, Streams, Stream
<1> QED
    BY <1>4, <1>5, <1>6, <1>7 DEF StreamInv

\* INVALID_SOCKET has no stream.
LEMMA InvalidStream ==
  ASSUME SelectInv, StreamInv, VisitInvalid
  PROVE  StreamInv'
<1>1. /\ main_' = FD_CLR(INVALID, main_) /\ rest = <<>> /\ ready' = ready \ {INVALID}
      /\ UNCHANGED <<server, client, said, unread, inbox, shown, chunk, rest, log,
                     joined>>
      BY DEF VisitInvalid, Visiting, Visited, clientVars
<1>2. uncut' \in Seq(Sockets)
      BY VisitKeeps, ClientsApart DEF VisitInvalid
<1>3. /\ main_' \in Seq(Sockets) /\ Len(main_') <= FD_SETSIZE
      /\ Members' = Members \ {INVALID}
  <2>1. main_ \in Seq(Sockets) /\ Len(main_) <= FD_SETSIZE
        BY DEF StreamInv, StreamTypes, TypeOK
  <2>2. \A i, j \in DOMAIN main_ : main_[i] = main_[j] => i = j
        BY DEF SelectInv, Once
  <2>3. Len(main_') <= FD_SETSIZE
        BY <1>1, <2>1, FdSizes, ClientsApart
  <2>4. main_' \in Seq(Sockets) /\ Range(main_') = Range(main_) \ {INVALID}
        BY <1>1, <2>1, <2>2, FdClr
  <2> QED
      BY <2>3, <2>4 DEF Members
<1>4. StreamTypes'
      BY <1>1, <1>2, <1>3 DEF StreamInv, StreamTypes, TypeOK
<1>5. Unshown'
      BY <1>1 DEF StreamInv, Unshown
<1>6. Reaching'
  <2>1. Range(rest) = {}
        BY <1>1 DEF Range
  <2> QED
      BY <1>1, <2>1 DEF StreamInv, Reaching
<1>7. Streams'
  <2>1. \A d \in Clients : Due(d)' = Due(d)
        BY <1>1 DEF Due
  <2> QED
      BY <1>1, <1>3, <2>1 DEF StreamInv, Streams, Stream
<1> QED
    BY <1>4, <1>5, <1>6, <1>7 DEF StreamInv

\* What is received is due to every client but its sender, and they are whom it
\* is sent to.
LEMMA ReceiveStream ==
  ASSUME SelectInv, StreamInv, NEW c \in Clients, Receive(c)
  PROVE  StreamInv'
<1> DEFINE k == MinOf(unread[c], BufSize)
           got == said[c] - unread[c]
<1>1. /\ rest = <<>> /\ ready' = ready \ {c}
      /\ chunk' = [i \in 1..k |-> [from |-> c, n |-> got + i]]
      /\ unread' = [unread EXCEPT ![c] = unread[c] - k]
      /\ log' = log \o chunk' /\ rest' = Receivers(c)
      /\ UNCHANGED <<server, client, said, inbox, shown, main_, joined>>
      BY DEF Receive, Visiting, Visited, clientVars
<1>c. uncut' \in Seq(Sockets)
      BY VisitKeeps, ClientsApart DEF Receive
<1>2. /\ unread[c] \in Nat /\ said[c] \in Nat /\ unread[c] <= said[c]
      /\ BufSize \in Nat
      BY SizesAssumption DEF StreamInv, StreamTypes, TypeOK
<1>3. k \in Nat /\ k <= unread[c] /\ got \in Nat
      BY <1>2 DEF MinOf
<1> HIDE DEF k, got
<1>a. PICK new : new = [i \in 1..k |-> [from |-> c, n |-> got + i]]
      OBVIOUS
<1>b. chunk' = new /\ log' = log \o new
      BY <1>1, <1>a
<1>4. new \in Seq(Byte) /\ \A x \in Range(new) : x.from = c /\ x \in Byte
  <2>1. \A i \in 1..k : [from |-> c, n |-> got + i] \in Byte
        BY <1>3 DEF Byte
  <2>2. new \in [1..k -> Byte]
        BY <1>a, <2>1
  <2>3. new \in Seq(Byte)
        BY <1>3, <2>2, SeqDef
  <2>4. \A x \in Range(new) : x.from = c /\ x \in Byte
        BY <1>a, <2>1 DEF Range
  <2> QED
      BY <2>3, <2>4
<1>5. /\ main_ \in Seq(Sockets) /\ log \in Seq(Byte)
      /\ rest' \in Seq(Sockets) /\ IsInjective(rest')
      /\ Range(rest') = Members \cap (Sockets \ {socket_, c})
  <2>1. main_ \in Seq(Sockets) /\ log \in Seq(Byte)
        BY DEF StreamInv, StreamTypes, TypeOK
  <2>2. IsInjective(main_)
        BY DEF SelectInv, Once, IsInjective
  <2> QED
      BY <1>1, <2>1, <2>2, FilterSeq, FilterOnce, FilterRange DEF Receivers, Members
<1>6. log' \in Seq(Byte) /\ Len(log') = Len(log) + Len(new)
      /\ Len(log) \in Nat /\ Len(new) \in Nat
  <2>1. log \o new \in Seq(Byte) /\ Len(log \o new) = Len(log) + Len(new)
        BY <1>4, <1>5, ConcatProperties
  <2>2. Len(log) \in Nat /\ Len(new) \in Nat
        BY <1>4, <1>5, LenProperties
  <2> QED
      BY <1>b, <2>1, <2>2
<1>7. StreamTypes'
  <2>1. /\ said \in [Clients -> Nat] /\ unread \in [Clients -> Nat]
        /\ joined \in [Clients -> Nat]
        /\ \A d \in Clients : unread[d] <= said[d] /\ joined[d] <= Len(log)
        BY DEF StreamInv, StreamTypes, TypeOK
  <2>2. unread[c] - k \in Nat /\ unread[c] - k <= said[c]
        BY <1>2, <1>3
  <2>3. unread' \in [Clients -> Nat]
        BY <1>1, <2>1, <2>2
  <2>4. ASSUME NEW d \in Clients PROVE unread'[d] <= said[d]
    <3>1. CASE d = c
          BY <1>1, <2>1, <2>2, <3>1
    <3>2. CASE d # c
          BY <1>1, <2>1, <3>2
    <3> QED
        BY <3>1, <3>2
  <2>5. ASSUME NEW d \in Clients PROVE joined'[d] <= Len(log')
    <3>1. joined'[d] = joined[d] /\ joined[d] \in Nat /\ joined[d] <= Len(log)
          BY <1>1, <2>1
    <3> QED
        BY <1>6, <3>1
  <2> QED
      BY <1>1, <1>b, <1>c, <1>4, <1>5, <1>6, <2>3, <2>4, <2>5
         DEF StreamInv, StreamTypes, TypeOK
<1>8. Unshown' /\ Reaching'
      BY <1>1, <1>5 DEF StreamInv, Unshown, Reaching, Members
<1>9. ASSUME NEW d \in Members' \cap Clients, client'[d] = "joined"
      PROVE  Stream(d)'
  <2> DEFINE since == SubSeq(log, joined[d] + 1, Len(log))
             more == Filter(new, Others(d))
             had == shown[d] \o inbox[d]
  <2>1. /\ shown[d] \in Seq(Byte) /\ inbox[d] \in Seq(Byte) /\ joined[d] \in 0..Len(log)
        /\ Due(d) \in Seq(Byte) /\ <<Welcome>> \in Seq(Byte) /\ <<>> \in Seq(Byte)
        BY StreamParts DEF StreamInv
  <2>2. had \in Seq(Byte) /\ had \o <<>> = had
        BY <2>1, ConcatProperties, ConcatEmptySeq
  <2>3. had = <<Welcome>> \o Due(d)
    <3>1. Stream(d) /\ Range(rest) = {}
          BY <1>1, <1>9 DEF StreamInv, Streams, Members, Range
    <3> QED
        BY <2>2, <3>1 DEF Stream
  <2>4. Due(d)' = Due(d) \o more
    <3>1. since \in Seq(Byte)
          /\ SubSeq(log \o new, joined[d] + 1, Len(log \o new)) = since \o new
      <4>1. \A s, u \in Seq(Byte) : \A n \in 0..Len(s) :
              /\ SubSeq(s, n + 1, Len(s)) \in Seq(Byte)
              /\ SubSeq(s \o u, n + 1, Len(s \o u)) = SubSeq(s, n + 1, Len(s)) \o u
            BY RestConcat
      <4> QED
          BY <1>4, <1>5, <2>1, <4>1
    <3>2. Filter(since \o new, Others(d)) = Filter(since, Others(d)) \o more
      <4>1. since \in Seq(Byte) /\ new \in Seq(Byte)
            BY <1>4, <3>1
      <4> HIDE DEF since
      <4>2. Filter(since \o new, Others(d)) =
              Filter(since, Others(d)) \o Filter(new, Others(d))
            BY <4>1, FilterConcat
      <4> QED
          BY <4>2
    <3> HIDE DEF since, more
    <3>3. Due(d)' = Filter(SubSeq(log \o new, joined[d] + 1, Len(log \o new)),
                           Others(d))
          BY <1>1, <1>b DEF Due, Others
    <3>4. Due(d) = Filter(since, Others(d))
          BY DEF Due, Others, since
    <3> QED
        BY <3>1, <3>2, <3>3, <3>4
  <2>5. more = IF d \in Range(rest') THEN new ELSE <<>>
    <3>1. CASE d = c
      <4>1. Range(new) \cap Others(d) = {}
            BY <1>4, <3>1 DEF Others
      <4>2. d \notin Range(rest')
            BY <1>5, <3>1
      <4> QED
          BY <1>4, <4>1, <4>2, FilterAllOrNone
    <3>2. CASE d # c
      <4>1. Range(new) \subseteq Others(d)
            BY <1>4, <3>2 DEF Others, Byte
      <4>2. d \in Range(rest')
            BY <1>1, <1>5, <1>9, <3>2, ClientsApart DEF Members
      <4> QED
          BY <1>4, <4>1, <4>2, FilterAllOrNone
    <3> QED
        BY <3>1, <3>2
  <2>6. more \in Seq(Byte)
        BY <1>4, <2>1, <2>5
  <2> HIDE DEF more, had
  <2>7. (<<Welcome>> \o Due(d)) \o more = <<Welcome>> \o (Due(d) \o more)
        BY <2>1, <2>6, ConcatAssociative
  <2>8. had \o more = <<Welcome>> \o Due(d)'
        BY <2>3, <2>4, <2>7
  <2>9. shown'[d] \o inbox'[d] = had
        BY <1>1 DEF had
  <2> QED
      BY <1>b, <2>5, <2>8, <2>9 DEF Stream, Welcome
<1> QED
    BY <1>7, <1>8, <1>9 DEF StreamInv, Streams

\* A client that is reached has the chunk in its stream, where it was due.
LEMMA SendStream ==
  ASSUME SelectInv, StreamInv, SendToClient
  PROVE  StreamInv'
<1>1. /\ rest # <<>> /\ rest \in Seq(Sockets) /\ rest' = Tail(rest)
      /\ UNCHANGED <<server, client, said, unread, shown, main_, ready, uncut, chunk,
                     log, joined>>
      /\ IsInjective(rest) /\ Range(rest) \subseteq Members
      BY DEF SendToClient, clientVars, StreamInv, StreamTypes, TypeOK, Reaching
<1>2. PICK s \in Sockets : s = Head(rest)
      BY <1>1, HeadTailProperties
<1>3. /\ Range(rest) = {s} \cup Range(rest') /\ s \notin Range(rest')
      /\ IsInjective(rest') /\ rest' \in Seq(Sockets)
      BY <1>1, <1>2, TailOnce, HeadTailProperties
<1>4. IF NotASocket(s) \/ client[s] = "gone"
        THEN inbox' = inbox
        ELSE inbox' = [inbox EXCEPT ![s] = @ \o chunk]
      BY <1>2 DEF SendToClient
<1>5. /\ inbox \in [Clients -> Seq(Byte)] /\ chunk \in Seq(Byte)
      BY DEF StreamInv, StreamTypes, TypeOK
<1>6. inbox' \in [Clients -> Seq(Byte)]
  <2>1. \A d \in Clients : inbox[d] \o chunk \in Seq(Byte)
        BY <1>5, ConcatProperties
  <2> QED
      BY <1>4, <1>5, <2>1
<1>7. StreamTypes'
      BY <1>1, <1>3, <1>6 DEF StreamInv, StreamTypes, TypeOK
<1>8. Unshown' /\ Reaching'
      BY <1>1, <1>3 DEF StreamInv, Unshown, Reaching, Members
<1>9. ASSUME NEW d \in Members' \cap Clients, client'[d] = "joined"
      PROVE  Stream(d)'
  <2>1. /\ d \in Members /\ client[d] = "joined" /\ Stream(d) /\ Due(d)' = Due(d)
        BY <1>1, <1>9 DEF StreamInv, Streams, Members, Due
  <2>2. CASE d = s
    <3>1. ~NotASocket(s)
          BY <2>1, <2>2, ClientsApart DEF NotASocket
    <3>2. inbox'[d] = inbox[d] \o chunk
          BY <1>4, <1>5, <2>1, <2>2, <3>1
    <3>3. d \in Range(rest) /\ d \notin Range(rest')
          BY <1>3, <2>2
    <3>4. shown[d] \in Seq(Byte) /\ inbox[d] \in Seq(Byte) /\ chunk \in Seq(Byte)
          /\ <<>> \in Seq(Byte)
          BY StreamParts DEF StreamInv
    <3>5. (shown[d] \o inbox[d]) \o chunk = shown[d] \o (inbox[d] \o chunk)
      <4>1. \A u, v, w \in Seq(Byte) : (u \o v) \o w = u \o (v \o w)
            BY ConcatAssociative
      <4> QED
          BY <3>4, <4>1
    <3>6. (shown[d] \o (inbox[d] \o chunk)) \o <<>> = shown[d] \o (inbox[d] \o chunk)
          BY <3>4, ConcatProperties, ConcatEmptySeq
    <3> QED
        BY <1>1, <2>1, <3>2, <3>3, <3>5, <3>6 DEF Stream
  <2>3. CASE d # s
    <3>1. inbox'[d] = inbox[d] /\ (d \in Range(rest') <=> d \in Range(rest))
          BY <1>3, <1>4, <1>5, <2>3
    <3> QED
        BY <1>1, <2>1, <3>1 DEF Stream
  <2> QED
      BY <2>2, <2>3
<1> QED
    BY <1>7, <1>8, <1>9 DEF StreamInv, Streams

\* Every step keeps the invariant.
LEMMA StreamNext == SelectInv /\ StreamInv /\ [Next]_vars => StreamInv'
<1> SUFFICES ASSUME SelectInv, StreamInv, [Next]_vars PROVE StreamInv'
    OBVIOUS
<1>1. CASE InitServer \/ InitFails
      BY <1>1, StartStream
<1>2. CASE Run
      BY <1>2, StartStream, SendStream, AcceptStream, ReceiveStream,
         DisconnectStream, InvalidStream DEF Run
<1>3. ASSUME NEW c \in Clients, Connect(c) \/ Say(c) \/ Read(c) \/ Leave(c)
      PROVE  StreamInv'
      BY <1>3, ClientStream
<1>4. CASE UNCHANGED vars
      BY <1>4 DEF vars, clientVars, StreamInv, StreamTypes, TypeOK, Unshown,
                  Reaching, Streams, Stream, Due, Members
<1> QED
    BY <1>1, <1>2, <1>3, <1>4 DEF Next

\* The inductive invariant holds in every state.
THEOREM StreamInvariant == Spec => []StreamInv
BY SelectInit, SelectNext, StreamInit, StreamNext, PTL DEF Spec

\* Every variable has its type; in particular main_ never holds more sockets than
\* an fd_set has room for.
THEOREM SelectTypeCorrect == Spec => []TypeOK
<1>1. StreamInv => TypeOK
      BY DEF StreamInv, StreamTypes
<1> QED
    BY <1>1, StreamInvariant, PTL

\* A client of main_ is sent the welcome message and then every byte of every
\* other client in the order the server received them, for any number of clients,
\* any sizes of the buffers and any way the stream is cut into chunks.
THEOREM StreamIsComplete == Spec => []StreamComplete
<1>1. StreamInv => StreamComplete
      BY DEF StreamInv, Streams, Stream, StreamComplete
<1> QED
    BY <1>1, StreamInvariant, PTL

=============================================================================
