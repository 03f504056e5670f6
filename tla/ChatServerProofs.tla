---------------------------- MODULE ChatServerProofs ----------------------------
(***************************************************************************)
(* Proofs about ChatServer for any set of clients, whatever they send and  *)
(* whenever they leave: the types of its state, that no asynchronous       *)
(* operation is outstanding on a connection that has been freed, that      *)
(* connections_ and users_count_ agree and lose only closed connections,   *)
(* and that the server is one log of which no client misses a message.     *)
(***************************************************************************)
EXTENDS ChatServer, FilterProofs

-----------------------------------------------------------------------------
(* erase(remove_if(...)) of ClearDisconnectedClients.                      *)

\* What is left of a list of clients is a list of clients, and only those that
\* were to go are missing.
LEMMA WithoutKeeps ==
  ASSUME NEW members \in Seq(Clients), NEW gone
  PROVE  /\ Without(members, gone) \in Seq(Clients)
         /\ Range(members) \ gone \subseteq Range(Without(members, gone))
<1>1. Range(Without(members, gone)) = Range(members) \cap (Clients \ gone)
      BY FilterRange DEF Without
<1>2. Range(members) \subseteq Clients
      BY RangeOfSeq
<1> QED
    BY <1>1, <1>2, FilterSeq DEF Without

-----------------------------------------------------------------------------
(* The invariant.                                                          *)

\* Types, and what the main thread and a write rely on: a message that is being
\* handled, a client that is being sent to, an entry that is being written
ServerTypes ==
  /\ TypeOK
  /\ said \in [Clients -> Nat]
  /\ pc # "idle" => handled # <<>>
  /\ pc = "send" => rest # <<>>
  /\ \A c \in Clients : write[c] # "none" => outcome[c] # <<>>

\* A socket is open only in a connection that connections_ keeps
OpenKept == \A c \in Clients : open[c] => memory[c] = "live" /\ c \in Members

\* A read outlives its socket only if a write failed, and then the message it
\* was to write stays in outcome_messages_ for good and keeps the connection
CutOff ==
  \A c \in Clients :
    reading[c] /\ ~open[c] => write[c] = "none" /\ outcome[c] # <<>>

\* Only closed connections are about to be erased
Removing ==
  /\ pc # "clear" => removed = {}
  /\ \A c \in removed : ~open[c]

\* LiveHandlers, inductively
Lifetimes ==
  /\ OpenKept /\ CutOff /\ Removing
  /\ \A c \in Clients : reading[c] \/ write[c] # "none" => memory[c] = "live"

ChatInv == ServerTypes /\ (~raced => Lifetimes)

\* The first state: no connection, and nothing to do.
LEMMA ChatInit == Init => ChatInv
<1> SUFFICES ASSUME Init PROVE ChatInv
    OBVIOUS
<1>1. ServerTypes
  <2>1. users \in 0..UsersMax
        BY UsersMaxAssumption DEF Init
  <2>2. \A c \in Clients : said[c] \in 0..MaxSends[c]
        BY MaxSendsAssumption DEF Init
  <2>3. /\ connections \in Seq(Clients) /\ rest \in Seq(Clients)
        /\ income \in Seq(Message) /\ handled \in Seq(Message)
        /\ <<>> \in Seq(Message)
        BY DEF Init
  <2> QED
      BY <2>1, <2>2, <2>3 DEF Init, ServerTypes, TypeOK
<1>2. Lifetimes
      BY DEF Init, Lifetimes, OpenKept, CutOff, Removing
<1> QED
    BY <1>1, <1>2 DEF ChatInv

-----------------------------------------------------------------------------
(* The steps of the clients and the io thread.                             *)

\* A client goes away, the server goes down, or a posted close runs: no
\* connection notices.
LEMMA OutsideStep ==
  ASSUME ChatInv, NEW c \in Clients,
         Leave(c) \/ AcceptThrows(c) \/ RunDestroyedClose(c)
  PROVE  ChatInv'
<1>1. ServerTypes'
      BY DEF ChatInv, ServerTypes, TypeOK, Leave, AcceptThrows,
             RunDestroyedClose, MayGoDown, sessions, sending, mainVars
<1>2. ~raced' => Lifetimes'
      BY DEF ChatInv, Leave, AcceptThrows, RunDestroyedClose, Lifetimes,
             OpenKept, CutOff, Removing, Members, sessions, sending, mainVars
<1> QED
    BY <1>1, <1>2 DEF ChatInv

\* A connection that is accepted while the main thread is between two messages
\* is kept by connections_; one that is accepted during a loop has raced.
LEMMA AcceptStep ==
  ASSUME ChatInv, NEW c \in Clients,
         Accept(c) \/ AcceptInLoop(c) \/ AcceptInClear(c)
  PROVE  ChatInv'
<1> USE DEF ChatInv
<1>1. connections' = Append(connections, c) /\ connections \in Seq(Clients)
      /\ handled \in Seq(Message) /\ handled' = handled
      BY DEF ServerTypes, TypeOK, Accept, AcceptInLoop, AcceptInClear,
             AddNewConnection, mainVars
<1>2. Members' = Members \cup {c}
  <2>1. /\ Len(connections') = Len(connections) + 1
        /\ \A i \in 1..Len(connections) : connections'[i] = connections[i]
        /\ connections'[Len(connections) + 1] = c
        /\ DOMAIN connections' = 1..(Len(connections) + 1)
        /\ DOMAIN connections = 1..Len(connections) /\ Len(connections) \in Nat
        BY <1>1, AppendProperties
  <2> QED
      BY <2>1 DEF Members, Range
<1>3. ServerTypes'
  <2>1. /\ memory' \in [Clients -> {"none", "live", "freed"}]
        /\ open' \in [Clients -> BOOLEAN] /\ reading' \in [Clients -> BOOLEAN]
        /\ joined' \in [Clients -> Nat]
        /\ client' \in [Clients -> {"waiting", "joined", "gone"}]
        /\ connections' \in Seq(Clients)
    <3>1. AddNewConnection(c)
          BY DEF Accept, AcceptInLoop, AcceptInClear
    <3>2. Len(handled) \in Nat
          BY <1>1
    <3>3. connections' \in Seq(Clients)
          BY <1>1, AppendProperties
    <3> QED
        BY <3>1, <3>2, <3>3 DEF ServerTypes, TypeOK, AddNewConnection
  <2>2. users' \in 0..UsersMax
    <3>1. \A n \in 0..UsersMax : CountUp(n) \in 0..UsersMax
          BY UsersMaxAssumption DEF CountUp
    <3>2. users' \in {users, CountUp(users), CountUp(CountUp(users))}
          BY DEF Accept, AcceptInLoop, AcceptInClear
    <3> QED
        BY <3>1, <3>2 DEF ServerTypes, TypeOK
  <2>3. rest' \in Seq(Clients) /\ (pc' = "send" => rest' # <<>>)
    <3>1. CASE rest' = rest /\ pc' = pc
          BY <3>1 DEF ServerTypes, TypeOK
    <3>2. CASE pc = "send" /\ rest' = <<Head(rest)>>
          BY <3>2 DEF ServerTypes, TypeOK
    <3>3. CASE pc # "send" /\ rest' = <<>> /\ pc' = pc
          BY <3>3
    <3> QED
        BY <3>1, <3>2, <3>3 DEF Accept, AcceptInLoop, AcceptInClear, mainVars
  <2>4. /\ removed' \subseteq Clients /\ raced' \in BOOLEAN
        /\ server' \in {"running", "down"}
        BY DEF ServerTypes, TypeOK, Accept, AcceptInLoop, AcceptInClear,
               MayGoDown, mainVars
  <2> QED
      BY <2>1, <2>2, <2>3, <2>4
         DEF ServerTypes, TypeOK, Accept, AcceptInLoop, AcceptInClear,
             sending, mainVars
<1>4. ASSUME Accept(c), ~raced'
      PROVE  Lifetimes'
      BY <1>2, <1>4
         DEF ServerTypes, TypeOK, Accept, AddNewConnection, Lifetimes, OpenKept,
             CutOff, Removing, sending, mainVars
<1>5. AcceptInLoop(c) \/ AcceptInClear(c) => raced'
      BY DEF AcceptInLoop, AcceptInClear
<1> QED
    BY <1>3, <1>4, <1>5

\* The handlers of a read.
LEMMA ReadStep ==
  ASSUME ChatInv, NEW c \in Clients, Receive(c) \/ ReadFailed(c)
  PROVE  ChatInv'
<1> USE DEF ChatInv
<1>1. ASSUME Receive(c)
      PROVE  ServerTypes'
  <2>1. said[c] \in Nat /\ MaxSends[c] \in Nat /\ said'[c] = said[c] + 1
        /\ said' = [said EXCEPT ![c] = @ + 1]
        BY <1>1, MaxSendsAssumption DEF ServerTypes, Receive
  <2>2. [from |-> c, n |-> said'[c]] \in Message
        BY <2>1 DEF Message
  <2>3. income' \in Seq(Message)
        BY <1>1, <2>2 DEF ServerTypes, TypeOK, Receive
  <2>4. /\ said' \in [Clients -> Nat]
        /\ \A d \in Clients : said'[d] \in 0..MaxSends[d]
    <3>1. ASSUME NEW d \in Clients
          PROVE  said'[d] \in 0..MaxSends[d]
      <4>1. said[d] \in 0..MaxSends[d]
            BY DEF ServerTypes, TypeOK
      <4>2. CASE d = c
            BY <1>1, <2>1, <4>2 DEF Receive
      <4>3. CASE d # c
            BY <2>1, <4>1, <4>3 DEF ServerTypes
      <4> QED
          BY <4>2, <4>3
    <3> QED
        BY <2>1, <3>1 DEF ServerTypes
  <2> QED
      BY <1>1, <2>3, <2>4
         DEF ServerTypes, TypeOK, Receive, sending, mainVars
<1>2. ASSUME ReadFailed(c)
      PROVE  ServerTypes'
      BY <1>2 DEF ServerTypes, TypeOK, ReadFailed, sending, mainVars
<1>3. ASSUME Receive(c), ~raced'
      PROVE  Lifetimes'
      BY <1>3 DEF Receive, Lifetimes, OpenKept, CutOff, Removing, Members,
                  sending, mainVars
<1>4. ASSUME ReadFailed(c), ~raced'
      PROVE  Lifetimes'
  <2>1. Lifetimes
        BY <1>4 DEF ReadFailed
  <2>2. OpenKept' /\ CutOff'
        BY <1>4, <2>1 DEF ServerTypes, TypeOK, ReadFailed, Lifetimes, OpenKept,
                          CutOff, Members, sending
  <2>3. Removing'
        BY <1>4, <2>1 DEF ServerTypes, TypeOK, ReadFailed, Lifetimes, Removing,
                          mainVars
  <2>4. \A d \in Clients : reading'[d] \/ write'[d] # "none" => memory'[d] = "live"
        BY <1>4, <2>1 DEF ServerTypes, TypeOK, ReadFailed, Lifetimes, sending
  <2> QED
      BY <2>2, <2>3, <2>4 DEF Lifetimes
<1> QED
    BY <1>1, <1>2, <1>3, <1>4

\* The handler SendMessage posted: a message is queued, and written if it is
\* the only one.
LEMMA SendStep ==
  ASSUME ChatInv, NEW c \in Clients, RunSend(c)
  PROVE  ChatInv'
<1> USE DEF ChatInv
<1>1. /\ posted[c] \in Seq(Message) /\ posted[c] # <<>>
      /\ outcome[c] \in Seq(Message)
      BY DEF ServerTypes, TypeOK, RunSend
<1>2. /\ Head(posted[c]) \in Message /\ Tail(posted[c]) \in Seq(Message)
      BY <1>1
<1>3. /\ Queued(outcome[c], Head(posted[c])) \in Seq(Message)
      /\ Queued(outcome[c], Head(posted[c])) # <<>>
      BY <1>1, <1>2, AppendProperties DEF Queued
<1>4. outcome' = [outcome EXCEPT ![c] = Queued(outcome[c], Head(posted[c]))]
      /\ posted' = [posted EXCEPT ![c] = Tail(posted[c])]
      BY DEF RunSend
<1>5. /\ posted' \in [Clients -> Seq(Message)]
      /\ outcome' \in [Clients -> Seq(Message)]
      /\ outcome'[c] # <<>> /\ \A d \in Clients \ {c} : outcome'[d] = outcome[d]
      BY <1>2, <1>3, <1>4 DEF ServerTypes, TypeOK
<1>6. /\ write' \in [Clients -> {"none", "issued", "done"}]
      /\ \A d \in Clients \ {c} : write'[d] = write[d]
      /\ outcome[c] # <<>> => write'[c] = write[c]
      BY DEF ServerTypes, TypeOK, RunSend
<1>7. ServerTypes'
      BY <1>5, <1>6 DEF ServerTypes, TypeOK, RunSend, sessions, mainVars
<1>8. ASSUME ~raced'
      PROVE  Lifetimes'
  <2>1. /\ Lifetimes /\ memory[c] = "live"
        /\ UNCHANGED <<memory, open, reading, connections, removed, pc>>
        BY <1>8 DEF RunSend, sessions, mainVars
  <2>2. CutOff'
        BY <1>5, <1>6, <2>1 DEF Lifetimes, CutOff
  <2>3. \A d \in Clients : reading'[d] \/ write'[d] # "none" => memory'[d] = "live"
        BY <1>6, <2>1 DEF Lifetimes
  <2> QED
      BY <2>1, <2>2, <2>3 DEF Lifetimes, OpenKept, Removing, Members
<1> QED
    BY <1>7, <1>8

\* The operating system takes a message of an open socket, or a write fails,
\* which closes the socket and leaves the queue as it is.
LEMMA WriteStep ==
  ASSUME ChatInv, NEW c \in Clients, TransferWrite(c) \/ WriteFailed(c)
  PROVE  ChatInv'
<1> USE DEF ChatInv
<1>1. outcome[c] \in Seq(Message) /\ outcome[c] # <<>>
      BY DEF ServerTypes, TypeOK, TransferWrite, WriteFailed
<1>2. ASSUME TransferWrite(c)
      PROVE  ServerTypes'
  <2>1. Head(outcome[c]) \in Message /\ delivered[c] \in Seq(Message)
        BY <1>1 DEF ServerTypes, TypeOK
  <2>2. Append(delivered[c], Head(outcome[c])) \in Seq(Message)
        BY <2>1, AppendProperties
  <2>3. delivered' = [delivered EXCEPT ![c] = Append(delivered[c], Head(outcome[c]))]
        BY <1>2 DEF TransferWrite
  <2>4. delivered' \in [Clients -> Seq(Message)]
        BY <2>2, <2>3 DEF ServerTypes, TypeOK
  <2>5. /\ write' \in [Clients -> {"none", "issued", "done"}]
        /\ \A d \in Clients : write'[d] # "none" => outcome[d] # <<>>
        BY <1>1, <1>2 DEF ServerTypes, TypeOK, TransferWrite
  <2> QED
      BY <1>2, <2>4, <2>5 DEF ServerTypes, TypeOK, TransferWrite, sessions, mainVars
<1>3. ASSUME WriteFailed(c)
      PROVE  ServerTypes'
  <2>1. /\ write' \in [Clients -> {"none", "issued", "done"}]
        /\ open' \in [Clients -> BOOLEAN]
        /\ \A d \in Clients : write'[d] # "none" => outcome[d] # <<>>
        BY <1>3 DEF ServerTypes, TypeOK, WriteFailed
  <2> QED
      BY <1>3, <2>1 DEF ServerTypes, TypeOK, WriteFailed, mainVars
<1>4. ASSUME TransferWrite(c), ~raced'
      PROVE  Lifetimes'
  <2>1. /\ Lifetimes /\ open[c]
        /\ UNCHANGED <<memory, open, reading, outcome, connections, removed, pc>>
        BY <1>4 DEF TransferWrite, sessions, mainVars
  <2>2. \A d \in Clients \ {c} : write'[d] = write[d]
        BY <1>4 DEF ServerTypes, TypeOK, TransferWrite
  <2>3. CutOff'
        BY <2>1, <2>2 DEF Lifetimes, CutOff
  <2>4. \A d \in Clients : reading'[d] \/ write'[d] # "none" => memory'[d] = "live"
        BY <2>1, <2>2 DEF Lifetimes, OpenKept
  <2> QED
      BY <2>1, <2>3, <2>4 DEF Lifetimes, OpenKept, Removing, Members
<1>5. ASSUME WriteFailed(c), ~raced'
      PROVE  Lifetimes'
  <2>1. /\ Lifetimes /\ memory[c] = "live"
        /\ UNCHANGED <<memory, reading, outcome, connections, removed, pc>>
        BY <1>5 DEF WriteFailed, mainVars
  <2>2. /\ write'[c] = "none" /\ ~open'[c]
        /\ \A d \in Clients \ {c} : write'[d] = write[d] /\ open'[d] = open[d]
        BY <1>5 DEF ServerTypes, TypeOK, WriteFailed
  <2>3. OpenKept' /\ CutOff'
        BY <1>1, <2>1, <2>2 DEF Lifetimes, OpenKept, CutOff, Members
  <2>4. \A d \in Clients : reading'[d] \/ write'[d] # "none" => memory'[d] = "live"
        BY <2>1, <2>2 DEF Lifetimes
  <2>5. Removing'
        BY <2>1, <2>2 DEF ServerTypes, TypeOK, Lifetimes, Removing
  <2> QED
      BY <2>3, <2>4, <2>5 DEF Lifetimes
<1> QED
    BY <1>2, <1>3, <1>4, <1>5

\* A message has been written and is popped.  If that frees the connection, the
\* connection had left connections_, so its socket was closed; and as a write
\* had not failed, its read had.
LEMMA PopStep ==
  ASSUME ChatInv, NEW c \in Clients, MessageWritten(c)
  PROVE  ChatInv'
<1> USE DEF ChatInv
<1>1. /\ outcome[c] \in Seq(Message) /\ outcome[c] # <<>>
      /\ write[c] = "done" /\ memory[c] = "live"
      BY DEF ServerTypes, TypeOK, MessageWritten
<1> DEFINE left == Tail(outcome[c])
<1>2. left \in Seq(Message)
      BY <1>1
<1>3. /\ outcome' = [outcome EXCEPT ![c] = left]
      /\ write' = [write EXCEPT ![c] = NextWrite(left)]
      /\ UNCHANGED <<client, said, reading, linked, posted, delivered, income,
                     connections, users, joined, raced>>
      /\ UNCHANGED mainVars
      BY DEF MessageWritten
<1> HIDE DEF left
<1>4. NextWrite(left) \in {"none", "issued"} /\ (NextWrite(left) # "none" => left # <<>>)
      BY DEF NextWrite
<1>5. /\ outcome' \in [Clients -> Seq(Message)]
      /\ write' \in [Clients -> {"none", "issued", "done"}]
      /\ outcome'[c] = left /\ write'[c] = NextWrite(left)
      /\ \A d \in Clients \ {c} : outcome'[d] = outcome[d] /\ write'[d] = write[d]
      BY <1>2, <1>3, <1>4 DEF ServerTypes, TypeOK
<1>6. CASE Held(c, Members, left)
  <2>1. UNCHANGED <<memory, open, closing, server>>
        BY <1>6 DEF MessageWritten, left
  <2>2. ServerTypes'
        BY <1>3, <1>4, <1>5, <2>1 DEF ServerTypes, TypeOK, mainVars
  <2>3. ASSUME ~raced'
        PROVE  Lifetimes'
    <3>1. Lifetimes /\ UNCHANGED <<removed, pc>>
          BY <1>3, <2>3 DEF mainVars
    <3>2. CutOff'
          BY <1>1, <1>3, <1>5, <2>1, <3>1 DEF Lifetimes, CutOff
    <3>3. \A d \in Clients : reading'[d] \/ write'[d] # "none" => memory'[d] = "live"
          BY <1>1, <1>3, <1>5, <2>1, <3>1 DEF Lifetimes
    <3> QED
        BY <1>3, <2>1, <3>1, <3>2, <3>3 DEF Lifetimes, OpenKept, Removing, Members
  <2> QED
      BY <2>2, <2>3
<1>7. CASE ~Held(c, Members, left)
  <2>1. Destroy({c}) /\ server' \in {server, "down"}
        BY <1>7 DEF MessageWritten, MayGoDown, left
  <2>2. /\ memory' \in [Clients -> {"none", "live", "freed"}]
        /\ open' \in [Clients -> BOOLEAN] /\ closing' \subseteq Clients
        /\ \A d \in Clients \ {c} : memory'[d] = memory[d] /\ open'[d] = open[d]
        /\ memory'[c] = "freed" /\ ~open'[c]
        BY <2>1 DEF ServerTypes, TypeOK, Destroy
  <2>3. ServerTypes'
        BY <1>3, <1>4, <1>5, <2>1, <2>2 DEF ServerTypes, TypeOK, mainVars
  <2>4. ASSUME ~raced'
        PROVE  Lifetimes'
    <3>1. Lifetimes /\ UNCHANGED <<removed, pc, reading, connections>>
          BY <1>3, <2>4 DEF mainVars
    <3>2. left = <<>> /\ c \notin Members
          BY <1>7 DEF Held, QueueHolds
    <3>3. write'[c] = "none"
          BY <1>5, <3>2 DEF NextWrite
    <3>4. ~reading[c]
          BY <1>1, <3>1, <3>2 DEF Lifetimes, OpenKept, CutOff
    <3>5. OpenKept' /\ CutOff'
          BY ZenonT(40), <1>5, <2>2, <3>1, <3>4 DEF Lifetimes, OpenKept, CutOff, Members
    <3>6. Removing'
          BY <2>2, <3>1 DEF ServerTypes, TypeOK, Lifetimes, Removing
    <3>7. \A d \in Clients : reading'[d] \/ write'[d] # "none" => memory'[d] = "live"
          BY <1>5, <2>2, <3>1, <3>3, <3>4 DEF Lifetimes
    <3> QED
        BY <3>5, <3>6, <3>7 DEF Lifetimes
  <2> QED
      BY <2>3, <2>4
<1> QED
    BY <1>6, <1>7

\* A handler that runs in a freed connection ends; no other connection notices.
LEMMA FreedStep ==
  ASSUME ChatInv, NEW c \in Clients, RunOnFreed(c)
  PROVE  ChatInv'
<1> USE DEF ChatInv
<1>1. /\ posted' \in [Clients -> Seq(Message)]
      /\ reading' \in [Clients -> BOOLEAN]
      /\ \A d \in Clients : reading'[d] => reading[d]
  <2>1. CASE posted[c] # <<>> /\ posted' = [posted EXCEPT ![c] = Tail(@)]
             /\ UNCHANGED reading
    <3>1. Tail(posted[c]) \in Seq(Message)
          BY <2>1 DEF ServerTypes, TypeOK
    <3> QED
        BY <2>1, <3>1 DEF ServerTypes, TypeOK
  <2>2. CASE reading' = [reading EXCEPT ![c] = FALSE] /\ UNCHANGED posted
        BY <2>2 DEF ServerTypes, TypeOK
  <2> QED
      BY <2>1, <2>2 DEF RunOnFreed
<1>2. ServerTypes'
      BY <1>1 DEF ServerTypes, TypeOK, RunOnFreed, MayGoDown, mainVars
<1>3. ASSUME ~raced'
      PROVE  Lifetimes'
  <2>1. /\ Lifetimes
        /\ UNCHANGED <<memory, open, outcome, write, connections, removed, pc>>
        BY <1>3 DEF RunOnFreed, mainVars
  <2> QED
      BY <1>1, <2>1 DEF Lifetimes, OpenKept, CutOff, Removing, Members
<1> QED
    BY <1>2, <1>3

-----------------------------------------------------------------------------
(* The steps of the main thread.                                           *)

\* Taking a message, and the loop of SendToAllClients, touch no connection but
\* by posting to it.
LEMMA BroadcastStep ==
  ASSUME ChatInv,
         TakeMessage \/ TakeUnhandled \/ VisitClient \/ SendMessage \/ EndLoop
  PROVE  ChatInv'
<1> USE DEF ChatInv
<1>1. /\ income \in Seq(Message) /\ handled \in Seq(Message)
      /\ rest \in Seq(Clients) /\ connections \in Seq(Clients)
      BY DEF ServerTypes, TypeOK
<1>2. ASSUME TakeMessage
      PROVE  ServerTypes'
  <2>1. Head(income) \in Message /\ Tail(income) \in Seq(Message)
        BY <1>1, <1>2 DEF TakeMessage
  <2>2. /\ Append(handled, Head(income)) \in Seq(Message)
        /\ Append(handled, Head(income)) # <<>>
        BY <1>1, <2>1, AppendProperties
  <2> QED
      BY <1>2, <2>1, <2>2 DEF ServerTypes, TypeOK, TakeMessage, sessions, sending
<1>3. ASSUME TakeUnhandled
      PROVE  ServerTypes'
  <2>1. Tail(income) \in Seq(Message)
        BY <1>1, <1>3 DEF TakeUnhandled
  <2> QED
      BY <1>3, <2>1
         DEF ServerTypes, TypeOK, TakeUnhandled, sessions, sending, mainVars
<1>4. ASSUME VisitClient
      PROVE  ServerTypes'
  <2>1. Tail(rest) \in Seq(Clients)
        BY <1>1, <1>4 DEF VisitClient
  <2> QED
      BY <1>4, <2>1 DEF ServerTypes, TypeOK, VisitClient, sessions, sending
<1>5. ASSUME SendMessage
      PROVE  ServerTypes'
  <2>1. Head(rest) \in Clients /\ Tail(rest) \in Seq(Clients)
        BY <1>1, <1>5 DEF ServerTypes, SendMessage
  <2>2. Current \in Message
    <3>1. handled # <<>> /\ Len(handled) \in Nat \ {0}
          BY <1>1, <1>5 DEF ServerTypes, SendMessage
    <3> QED
        BY <1>1, <3>1 DEF Current, Last
  <2>3. posted[Head(rest)] \in Seq(Message)
        BY <2>1 DEF ServerTypes, TypeOK
  <2>4. Append(posted[Head(rest)], Current) \in Seq(Message)
        BY <2>2, <2>3, AppendProperties
  <2>5. posted' = posted
        \/ posted' = [posted EXCEPT ![Head(rest)] =
                        Append(posted[Head(rest)], Current)]
        BY <1>5 DEF SendMessage
  <2>6. posted' \in [Clients -> Seq(Message)]
        BY <2>1, <2>4, <2>5 DEF ServerTypes, TypeOK
  <2> QED
      BY <1>5, <2>1, <2>6 DEF ServerTypes, TypeOK, SendMessage, sessions
<1>6. ASSUME EndLoop
      PROVE  ServerTypes'
  <2>1. stale' \subseteq Clients
    <3>1. stale' \subseteq Members \/ stale' = stale
          BY <1>6 DEF EndLoop
    <3>2. Members \subseteq Clients
          BY <1>1 DEF Members, Range
    <3> QED
        BY <3>1, <3>2 DEF ServerTypes, TypeOK
  <2> QED
      BY <1>1, <1>6, <2>1 DEF ServerTypes, TypeOK, EndLoop, sessions, sending
<1>7. ASSUME ~raced'
      PROVE  Lifetimes'
  <2>1. /\ Lifetimes
        /\ UNCHANGED <<memory, open, reading, outcome, write, connections>>
        BY <1>7 DEF TakeMessage, TakeUnhandled, VisitClient, SendMessage,
                    EndLoop, sessions, sending
  <2>2. pc # "clear" /\ removed' = removed
        BY DEF TakeMessage, TakeUnhandled, VisitClient, SendMessage, EndLoop,
               mainVars
  <2> QED
      BY <2>1, <2>2 DEF Lifetimes, OpenKept, CutOff, Removing, Members
<1> QED
    BY <1>2, <1>3, <1>4, <1>5, <1>6, <1>7

\* remove_if finds closed connections only.
LEMMA ScanStep ==
  ASSUME ChatInv, Scan
  PROVE  ChatInv'
<1> USE DEF ChatInv
<1>1. Head(rest) \in Clients /\ Tail(rest) \in Seq(Clients)
      BY DEF ServerTypes, TypeOK, Scan
<1>2. users' \in 0..UsersMax
  <2>1. CountDown(users) \in 0..UsersMax
        BY UsersMaxAssumption DEF ServerTypes, TypeOK, CountDown
  <2> QED
      BY <2>1 DEF ServerTypes, TypeOK, Scan
<1>3. /\ removed' \subseteq removed \cup {Head(rest)}
      /\ open[Head(rest)] => removed' = removed
      BY DEF Scan, Keeps
<1>4. ServerTypes'
      BY <1>1, <1>2, <1>3 DEF ServerTypes, TypeOK, Scan, sessions, sending
<1>5. ASSUME ~raced'
      PROVE  Lifetimes'
  <2>1. /\ Lifetimes /\ pc = "clear"
        /\ UNCHANGED <<memory, open, reading, outcome, write, connections, pc>>
        BY <1>5 DEF Scan, sessions, sending
  <2> QED
      BY <1>3, <2>1 DEF Lifetimes, OpenKept, CutOff, Removing, Members
<1> QED
    BY <1>4, <1>5

\* erase frees a connection only if it is closed and its queue is empty: then
\* no write of it is outstanding, and no read either.
LEMMA EraseStep ==
  ASSUME ChatInv, Erase
  PROVE  ChatInv'
<1> USE DEF ChatInv
<1> DEFINE freed == {c \in removed : ~Held(c, Members \ removed, outcome[c])}
<1>1. /\ Destroy(freed) /\ pc' = "idle" /\ removed' = {} /\ stale' = {}
      /\ connections' = Without(connections, removed)
      /\ UNCHANGED <<server, client, said, reading, linked, sending, income,
                     users, rest, reached, handled, joined, raced>>
      BY DEF Erase
<1>2. freed \subseteq removed /\ removed \subseteq Clients
      BY DEF ServerTypes, TypeOK
<1>3. \A c \in freed : outcome[c] = <<>>
      BY DEF Held, QueueHolds
<1> HIDE DEF freed
<1>4. /\ connections' \in Seq(Clients)
      /\ Members \ removed \subseteq Members'
  <2>1. connections \in Seq(Clients)
        BY DEF ServerTypes, TypeOK
  <2> QED
      BY <1>1, <2>1, WithoutKeeps DEF Members
<1>5. /\ memory' \in [Clients -> {"none", "live", "freed"}]
      /\ open' \in [Clients -> BOOLEAN] /\ closing' \subseteq Clients
      /\ \A c \in Clients \ freed : memory'[c] = memory[c] /\ open'[c] = open[c]
      /\ \A c \in freed : memory'[c] = "freed" /\ ~open'[c]
      BY <1>1, <1>2 DEF ServerTypes, TypeOK, Destroy
<1>6. ServerTypes'
      BY <1>1, <1>4, <1>5 DEF ServerTypes, TypeOK, sending
<1>7. ASSUME ~raced'
      PROVE  Lifetimes'
  <2>1. Lifetimes /\ UNCHANGED <<reading, outcome, write>>
        BY <1>1, <1>7 DEF sending
  <2>2. \A c \in freed : ~open[c] /\ write[c] = "none" /\ ~reading[c]
        BY <1>2, <1>3, <2>1 DEF ServerTypes, TypeOK, Lifetimes, CutOff, Removing
  <2>3. OpenKept'
        BY <1>2, <1>4, <1>5, <2>1, <2>2 DEF Lifetimes, OpenKept, Removing
  <2>4. CutOff'
        BY <1>5, <2>1, <2>2 DEF Lifetimes, CutOff
  <2>5. \A c \in Clients : reading'[c] \/ write'[c] # "none" => memory'[c] = "live"
        BY <1>5, <2>1, <2>2 DEF Lifetimes
  <2> QED
      BY <1>1, <2>3, <2>4, <2>5 DEF Lifetimes, Removing
<1> QED
    BY <1>6, <1>7

-----------------------------------------------------------------------------
(* The theorems.                                                           *)

\* Every step keeps the invariant.
LEMMA ChatNext == ChatInv /\ [Next]_vars => ChatInv'
<1> SUFFICES ASSUME ChatInv, [Next]_vars PROVE ChatInv'
    OBVIOUS
<1>1. ASSUME NEW c \in Clients, Leave(c) \/ RunDestroyedClose(c)
      PROVE  ChatInv'
      BY <1>1, OutsideStep
<1>2. ASSUME NEW c \in Clients, IoThread(c)
      PROVE  ChatInv'
      BY <1>2, OutsideStep, AcceptStep, ReadStep, SendStep, PopStep, WriteStep,
         FreedStep DEF IoThread
<1>3. ASSUME NEW c \in Clients, TransferWrite(c)
      PROVE  ChatInv'
      BY <1>3, WriteStep
<1>4. CASE MainThread
      BY <1>4, BroadcastStep, ScanStep, EraseStep DEF MainThread
<1>5. CASE UNCHANGED vars
      BY <1>5 DEF vars, sessions, sending, mainVars, ChatInv, ServerTypes,
                  TypeOK, Lifetimes, OpenKept, CutOff, Removing, Members
<1> QED
    BY <1>1, <1>2, <1>3, <1>4, <1>5 DEF Next

\* The inductive invariant holds in every state.
THEOREM ChatInvariant == Spec => []ChatInv
BY ChatInit, ChatNext, PTL DEF Spec

\* Every variable of the server has its type; in particular the count of users,
\* which both threads change, stays within its unsigned type.
THEOREM ServerTypeCorrect == Spec => []TypeOK
<1>1. ChatInv => TypeOK
      BY DEF ChatInv, ServerTypes
<1> QED
    BY <1>1, ChatInvariant, PTL

\* No read or write is outstanding on a freed connection, however many clients
\* come, speak and go, unless the accept handler has run during a loop of Update.
THEOREM HandlersLive == Spec => []LiveHandlers
<1>1. ChatInv => LiveHandlers
      BY DEF ChatInv, Lifetimes, LiveHandlers
<1> QED
    BY <1>1, ChatInvariant, PTL

-----------------------------------------------------------------------------
(* What is queued for a client, and what a step does to it.                *)

\* The entries of outcome_messages_ that are not yet delivered
Unsent(c) == IF write[c] = "done" THEN Tail(outcome[c]) ELSE outcome[c]

\* What is queued for a client is a list of messages.
LEMMA PendingTypes ==
  ASSUME ServerTypes, NEW c \in Clients
  PROVE  /\ Unsent(c) \in Seq(Message) /\ posted[c] \in Seq(Message)
         /\ Pending(c) = Unsent(c) \o posted[c]
         /\ Pending(c) \in Seq(Message) /\ delivered[c] \in Seq(Message)
         /\ Given(c) = delivered[c] \o Pending(c) /\ Given(c) \in Seq(Message)
<1>1. /\ outcome[c] \in Seq(Message) /\ posted[c] \in Seq(Message)
      /\ delivered[c] \in Seq(Message)
      /\ write[c] = "done" => outcome[c] # <<>>
      BY DEF ServerTypes, TypeOK
<1>2. Unsent(c) \in Seq(Message)
      BY <1>1, HeadTailProperties DEF Unsent
<1>3. Pending(c) = Unsent(c) \o posted[c]
      BY DEF Pending, Unsent
<1>4. Pending(c) \in Seq(Message)
      BY <1>1, <1>2, <1>3, ConcatProperties
<1> HIDE DEF Unsent
<1>5. Given(c) \in Seq(Message)
      BY <1>1, <1>4, ConcatProperties DEF Given
<1> QED
    BY <1>1, <1>2, <1>3, <1>4, <1>5 DEF Given

\* The posted handler moves a message from one list to the end of the other.
LEMMA SendKeepsPending ==
  ASSUME ServerTypes, NEW c \in Clients, RunSend(c), NEW d \in Clients
  PROVE  Pending(d)' = Pending(d)
<1>1. /\ posted[c] \in Seq(Message) /\ posted[c] # <<>>
      /\ outcome[c] \in Seq(Message)
      /\ write[c] = "done" => outcome[c] # <<>>
      /\ posted' = [posted EXCEPT ![c] = Tail(posted[c])]
      /\ outcome' = [outcome EXCEPT ![c] = Append(outcome[c], Head(posted[c]))]
      /\ write' = IF outcome[c] = <<>> THEN [write EXCEPT ![c] = "issued"] ELSE write
      BY DEF ServerTypes, TypeOK, RunSend, Queued
<1>2. CASE d # c
      BY <1>1, <1>2 DEF Pending, ServerTypes, TypeOK
<1>3. CASE d = c
  <2> DEFINE h == Head(posted[c])
             t == Tail(posted[c])
  <2>1. h \in Message /\ t \in Seq(Message)
        BY <1>1, HeadTailProperties
  <2>2. posted'[c] = t /\ outcome'[c] = Append(outcome[c], h)
        BY <1>1 DEF ServerTypes, TypeOK
  <2>3. Unsent(c)' = Append(Unsent(c), h) /\ Unsent(c) \in Seq(Message)
    <3>1. Tail(Append(outcome[c], h)) =
            IF outcome[c] = <<>> THEN <<>> ELSE Append(Tail(outcome[c]), h)
          BY <1>1, HeadTailAppend
    <3>2. CASE outcome[c] = <<>>
          BY <1>1, <2>2, <3>2 DEF Unsent, ServerTypes, TypeOK
    <3>3. CASE outcome[c] # <<>>
          BY <1>1, <2>2, <3>1, <3>3, HeadTailProperties DEF Unsent
    <3> QED
        BY <3>2, <3>3
  <2>4. Append(Unsent(c), h) \o t = Unsent(c) \o posted[c]
        BY <1>1, <2>3, MoveHead
  <2>5. Pending(c)' = Unsent(c)' \o posted'[c] /\ Pending(c) = Unsent(c) \o posted[c]
        BY DEF Pending, Unsent
  <2> HIDE DEF Unsent, h, t
  <2> QED
      BY <1>3, <2>2, <2>3, <2>4, <2>5
<1> QED
    BY <1>2, <1>3

\* A message that is popped has been delivered, and one whose write has failed
\* stays where it is.
LEMMA WrittenKeepsPending ==
  ASSUME ServerTypes, NEW c \in Clients, MessageWritten(c) \/ WriteFailed(c),
         NEW d \in Clients
  PROVE  Pending(d)' = Pending(d)
<1>1. CASE MessageWritten(c)
      BY <1>1 DEF MessageWritten, NextWrite, Pending, ServerTypes, TypeOK
<1>2. CASE WriteFailed(c)
      BY <1>2 DEF WriteFailed, Pending, ServerTypes, TypeOK
<1> QED
    BY <1>1, <1>2

\* What is delivered is the first entry that was pending.
LEMMA TransferTakesFirst ==
  ASSUME ServerTypes, NEW c \in Clients, TransferWrite(c)
  PROVE  /\ Pending(c) # <<>> /\ Pending(c)' = Tail(Pending(c))
         /\ delivered' = [delivered EXCEPT ![c] = Append(@, Head(Pending(c)))]
         /\ \A d \in Clients \ {c} : Pending(d)' = Pending(d)
<1>1. /\ outcome[c] \in Seq(Message) /\ outcome[c] # <<>>
      /\ posted[c] \in Seq(Message)
      /\ write[c] = "issued" /\ write' = [write EXCEPT ![c] = "done"]
      /\ delivered' = [delivered EXCEPT ![c] = Append(@, Head(outcome[c]))]
      /\ outcome' = outcome /\ posted' = posted
      BY DEF ServerTypes, TypeOK, TransferWrite
<1>2. /\ Pending(c) = outcome[c] \o posted[c]
      /\ Pending(c)' = Tail(outcome[c]) \o posted[c]
      /\ \A d \in Clients \ {c} : Pending(d)' = Pending(d)
      BY <1>1 DEF Pending, ServerTypes, TypeOK
<1> DEFINE a == outcome[c]
           b == posted[c]
<1>3. /\ a \in Seq(Message) /\ b \in Seq(Message) /\ Tail(a) \in Seq(Message)
      /\ Len(a) \in Nat \ {0} /\ Len(b) \in Nat /\ Len(Tail(a)) = Len(a) - 1
      /\ \A i \in 1..Len(Tail(a)) : Tail(a)[i] = a[i + 1]
      /\ Head(a) = a[1]
      BY <1>1, HeadTailProperties, EmptySeq, LenProperties
<1> HIDE DEF a, b
<1>4. /\ a \o b \in Seq(Message) /\ Len(a \o b) = Len(a) + Len(b)
      /\ \A i \in 1..(Len(a) + Len(b)) :
           (a \o b)[i] = IF i <= Len(a) THEN a[i] ELSE b[i - Len(a)]
      BY <1>3, ConcatProperties
<1>5. a \o b # <<>> /\ Head(a \o b) = Head(a)
  <2>1. Len(a \o b) # 0
        BY <1>3, <1>4
  <2>2. a \o b # <<>>
        BY <2>1, EmptySeq
  <2>3. Head(a \o b) = (a \o b)[1]
        BY <1>4, <2>2
  <2> QED
      BY <1>3, <1>4, <2>2, <2>3
<1>6. Tail(a \o b) = Tail(a) \o b
  <2>1. /\ Tail(a \o b) \in Seq(Message) /\ Len(Tail(a \o b)) = Len(a) + Len(b) - 1
        /\ \A i \in 1..Len(Tail(a \o b)) : Tail(a \o b)[i] = (a \o b)[i + 1]
        BY <1>4, <1>5, HeadTailProperties
  <2>2. /\ Tail(a) \o b \in Seq(Message)
        /\ Len(Tail(a) \o b) = (Len(a) - 1) + Len(b)
        /\ \A i \in 1..((Len(a) - 1) + Len(b)) :
             (Tail(a) \o b)[i] = IF i <= Len(a) - 1 THEN Tail(a)[i]
                                                  ELSE b[i - (Len(a) - 1)]
        BY <1>3, ConcatProperties
  <2>3. ASSUME NEW i \in 1..Len(Tail(a \o b))
        PROVE  Tail(a \o b)[i] = (Tail(a) \o b)[i]
    <3>1. i \in Nat /\ i + 1 \in 1..(Len(a) + Len(b))
          BY <1>3, <2>1
    <3>2. CASE i <= Len(a) - 1
          BY <1>3, <1>4, <2>1, <2>2, <3>1, <3>2
    <3>3. CASE i > Len(a) - 1
      <4>1. Tail(a \o b)[i] = b[(i + 1) - Len(a)]
            BY <1>3, <1>4, <2>1, <3>1, <3>3
      <4>2. (Tail(a) \o b)[i] = b[i - (Len(a) - 1)]
            BY <1>3, <2>1, <2>2, <3>3
      <4>3. (i + 1) - Len(a) = i - (Len(a) - 1)
            BY <1>3, <3>1
      <4> QED
          BY <4>1, <4>2, <4>3
    <3> QED
        BY <1>3, <3>1, <3>2, <3>3
  <2> QED
      BY <1>3, <2>1, <2>2, <2>3, SeqEqual
<1> QED
    BY <1>1, <1>2, <1>5, <1>6 DEF a, b

\* A posted handler that runs in a freed connection queues nothing: its message
\* is lost.
LEMMA FreedLosesPosted ==
  ASSUME ServerTypes, NEW c \in Clients, RunOnFreed(c), posted' # posted
  PROVE  \E k \in DOMAIN Pending(c) :
           /\ Pending(c)' = RemoveAt(Pending(c), k)
           /\ \A d \in Clients \ {c} : Pending(d)' = Pending(d)
<1> DEFINE a == Unsent(c)
           b == posted[c]
           k == Len(a) + 1
<1>1. /\ b \in Seq(Message) /\ b # <<>> /\ a \in Seq(Message)
      /\ posted' = [posted EXCEPT ![c] = Tail(b)]
      /\ UNCHANGED <<outcome, write>>
  <2>1. b # <<>> /\ posted' = [posted EXCEPT ![c] = Tail(b)]
        BY DEF RunOnFreed
  <2>2. UNCHANGED <<outcome, write>>
        BY DEF RunOnFreed
  <2> QED
      BY <2>1, <2>2, PendingTypes
<1>2. Pending(c) = a \o b /\ Pending(c)' = a \o Tail(b)
      BY <1>1 DEF Pending, Unsent, ServerTypes, TypeOK
<1>3. \A d \in Clients \ {c} : Pending(d)' = Pending(d)
      BY <1>1 DEF Pending, ServerTypes, TypeOK
<1> HIDE DEF a, b
<1>4. /\ Tail(b) \in Seq(Message) /\ Len(Tail(b)) = Len(b) - 1
      /\ \A i \in 1..Len(Tail(b)) : Tail(b)[i] = b[i + 1]
      /\ Len(a) \in Nat /\ Len(b) \in Nat \ {0}
      BY <1>1, HeadTailProperties, EmptySeq, LenProperties
<1> DEFINE ab == a \o b
<1>5. /\ ab \in Seq(Message) /\ Len(ab) = Len(a) + Len(b)
      /\ \A i \in 1..(Len(a) + Len(b)) :
           ab[i] = IF i <= Len(a) THEN a[i] ELSE b[i - Len(a)]
      BY <1>1, ConcatProperties
<1>6. k \in DOMAIN ab
  <2>1. DOMAIN ab = 1..(Len(a) + Len(b))
        BY <1>5, LenProperties
  <2> QED
      BY <1>4, <2>1
<1>7. RemoveAt(ab, k) = a \o Tail(b)
  <2> DEFINE r == RemoveAt(ab, k)
             t == a \o Tail(b)
  <2> HIDE DEF ab
  <2>1. /\ r \in Seq(Message) /\ Len(r) = Len(ab) - 1
        /\ \A i \in 1..Len(r) : r[i] = IF i < k THEN ab[i] ELSE ab[i + 1]
        BY <1>5, <1>6, RemoveAtElements
  <2>a. Len(r) = Len(a) + (Len(b) - 1)
        BY <1>4, <1>5, <2>1
  <2>2. /\ t \in Seq(Message) /\ Len(t) = Len(a) + (Len(b) - 1)
        /\ \A i \in 1..(Len(a) + (Len(b) - 1)) :
             t[i] = IF i <= Len(a) THEN a[i] ELSE Tail(b)[i - Len(a)]
        BY <1>1, <1>4, ConcatProperties
  <2> HIDE DEF r, t
  <2>3. ASSUME NEW i \in 1..Len(r)
        PROVE  r[i] = t[i]
    <3>1. i \in Nat /\ i <= Len(a) + Len(b) - 1 /\ i >= 1
          BY <1>4, <2>a
    <3>2. CASE i <= Len(a)
      <4>1. r[i] = ab[i] /\ ab[i] = a[i]
        <5>1. i < k /\ i \in 1..(Len(a) + Len(b))
              BY <1>4, <3>1, <3>2 DEF k
        <5> QED
            BY <1>5, <2>1, <2>3, <3>2, <5>1
      <4>2. t[i] = a[i]
            BY <1>4, <2>2, <2>a, <3>1, <3>2
      <4> QED
          BY <4>1, <4>2
    <3>3. CASE i > Len(a)
      <4>1. r[i] = b[(i + 1) - Len(a)]
        <5>1. r[i] = ab[i + 1]
              BY <1>4, <2>1, <3>1, <3>3
        <5>2. i + 1 \in 1..(Len(a) + Len(b)) /\ ~(i + 1 <= Len(a))
              BY <1>4, <3>1, <3>3
        <5> QED
            BY <1>5, <5>1, <5>2
      <4>2. t[i] = Tail(b)[i - Len(a)]
            BY <1>4, <2>2, <3>1, <3>3
      <4>3. i - Len(a) \in 1..Len(Tail(b)) /\ (i - Len(a)) + 1 = (i + 1) - Len(a)
            BY <1>4, <3>1, <3>3
      <4> QED
          BY <1>4, <4>1, <4>2, <4>3
    <3> QED
        BY <1>4, <3>1, <3>2, <3>3
  <2>4. r = t
        BY <2>1, <2>2, <2>3, <2>a, SeqEqual
  <2> QED
      BY <2>4 DEF r, t
<1> QED
    BY <1>2, <1>3, <1>6, <1>7 DEF ab

\* SendMessage adds the message that is being handled to what is pending for
\* the client the loop has come to, if its socket is open.
LEMMA SendAddsCurrent ==
  ASSUME ServerTypes, SendMessage
  PROVE  \E c \in Clients :
           /\ c = Head(rest) /\ Current \in Message
           /\ Pending(c)' = IF open[c] THEN Append(Pending(c), Current)
                                       ELSE Pending(c)
           /\ \A d \in Clients \ {c} : Pending(d)' = Pending(d)
<1>1. rest \in Seq(Clients) /\ rest # <<>> /\ handled \in Seq(Message) /\ handled # <<>>
      BY DEF ServerTypes, TypeOK, SendMessage
<1>2. PICK c \in Clients : c = Head(rest)
      BY <1>1, HeadTailProperties
<1>3. Current \in Message
  <2>1. Len(handled) \in 1..Len(handled)
        BY <1>1, EmptySeq
  <2> QED
      BY <1>1, <2>1, ElementOfSeq DEF Current, Last
<1>4. /\ posted' = IF open[c] THEN [posted EXCEPT ![c] = Append(@, Current)] ELSE posted
      /\ UNCHANGED <<outcome, write>>
      BY <1>2 DEF SendMessage
<1>5. /\ Unsent(c) \in Seq(Message) /\ posted[c] \in Seq(Message)
      /\ Pending(c) = Unsent(c) \o posted[c]
      BY PendingTypes
<1>a. Pending(c)' = Unsent(c) \o posted'[c]
      BY <1>4 DEF Pending, Unsent
<1>6. CASE open[c]
  <2>1. posted'[c] = Append(posted[c], Current)
        BY <1>2, <1>4, <1>6 DEF ServerTypes, TypeOK
  <2>2. Unsent(c) \o Append(posted[c], Current)
          = Append(Unsent(c) \o posted[c], Current)
    <3>1. \A u, v \in Seq(Message), m \in Message :
            u \o Append(v, m) = Append(u \o v, m)
          BY AppendConcat
    <3> QED
        BY <1>3, <1>5, <3>1
  <2>3. \A d \in Clients \ {c} : Pending(d)' = Pending(d)
        BY <1>4, <1>6 DEF Pending, ServerTypes, TypeOK
  <2> QED
      BY <1>2, <1>3, <1>5, <1>6, <1>a, <2>1, <2>2, <2>3
<1>7. CASE ~open[c]
  <2>1. \A d \in Clients : Pending(d)' = Pending(d)
        BY <1>4, <1>7 DEF Pending, ServerTypes, TypeOK
  <2> QED
      BY <1>2, <1>3, <1>7, <2>1
<1> QED
    BY <1>6, <1>7

\* Every other step leaves it as it is.
LEMMA OthersKeepPending ==
  ASSUME UNCHANGED <<posted, outcome, write>>, NEW d \in Clients
  PROVE  Pending(d)' = Pending(d)
BY DEF Pending


-----------------------------------------------------------------------------
(* The list of connections, and what the clearing makes of it.             *)

\* A connection that has not been accepted has no queues, no open socket and
\* no place in connections_
Fresh ==
  \A c \in Clients : memory[c] = "none" =>
    /\ posted[c] = <<>> /\ outcome[c] = <<>> /\ delivered[c] = <<>>
    /\ ~open[c] /\ c \notin Members

\* Each connection is listed once, the loops visit listed connections, each
\* once, and what remove_if has found it does not visit again
Listed ==
  /\ IsInjective(connections) /\ IsInjective(rest)
  /\ Range(rest) \subseteq Members
  /\ removed \subseteq Members /\ removed \cap Range(rest) = {}
  /\ pc # "clear" => removed = {}

\* ClearDropsClosed, inductively: what was closed stays closed, and is found or
\* still to be visited
Clearing ==
  /\ \A c \in stale : ~open[c] /\ memory[c] # "none"
  /\ pc = "clear" => stale \subseteq removed \cup Range(rest)

\* UsersCounted, inductively: users_count_ is counted down when remove_if finds a
\* connection, before erase drops it
Counted == ~raced => users = Len(Without(connections, removed)) % (UsersMax + 1)

MembersInv == Fresh /\ Listed /\ Clearing /\ Counted


\* Counting up and counting down are arithmetic modulo the size of the type.
LEMMA CountsModulo ==
  ASSUME NEW n \in Nat
  PROVE  /\ CountUp(n % (UsersMax + 1)) = ((n + 1) % (UsersMax + 1))
         /\ CountDown((n + 1) % (UsersMax + 1)) = (n % (UsersMax + 1))
<1> DEFINE m == UsersMax + 1
           q == n \div m
           r == n % m
<1>1. m \in Nat /\ m > 1 /\ m = UsersMax + 1 /\ UsersMax \in Nat
      BY UsersMaxAssumption
<1> HIDE DEF m
<1>2. q \in Nat /\ r \in 0..(m - 1) /\ n = m * q + r
  <2>1. r \in 0..(m - 1) /\ n = m * q + r
        BY <1>1
  <2>2. q \in Int
        BY <1>1
  <2>3. q >= 0
        BY <1>1
  <2> QED
      BY <2>1, <2>2, <2>3
<1>3. ASSUME NEW a \in Nat, NEW b \in 0..(m - 1)
      PROVE  ((m * a + b) % m) = b
      BY <1>1
<1>4. m * (q + 1) = m * q + m /\ m * q \in Nat
      BY <1>1, <1>2
<1> HIDE DEF q, r
<1>5. CASE r = UsersMax
  <2>1. n + 1 = m * (q + 1) + 0
        BY <1>1, <1>2, <1>4, <1>5
  <2>2. ((n + 1) % m) = 0
        BY <1>1, <1>2, <1>3, <2>1
  <2> QED
      BY <1>1, <1>2, <1>5, <2>2 DEF CountUp, CountDown, m, r
<1>6. CASE r # UsersMax
  <2>1. n + 1 = m * q + (r + 1) /\ r + 1 \in 0..(m - 1)
        BY <1>1, <1>2, <1>4, <1>6
  <2>2. ((n + 1) % m) = r + 1
        BY <1>2, <1>3, <2>1
  <2> QED
      BY <1>1, <1>2, <1>6, <2>2 DEF CountUp, CountDown, m, r
<1> QED
    BY <1>5, <1>6

\* In the first state nothing is listed.
LEMMA MembersInit == Init => MembersInv
<1> SUFFICES ASSUME Init PROVE MembersInv
    OBVIOUS
<1>1. Members = {} /\ Range(rest) = {}
      BY DEF Init, Members, Range
<1>2. Listed
      BY <1>1 DEF Init, Listed, IsInjective
<1>3. Counted
  <2>1. Len(Without(connections, removed)) = 0
        BY FilterEmpty DEF Init, Without
  <2>2. (0 % (UsersMax + 1)) = 0
        BY UsersMaxAssumption
  <2> QED
      BY <2>1, <2>2 DEF Init, Counted
<1> QED
    BY <1>1, <1>2, <1>3 DEF Init, MembersInv, Fresh, Clearing

\* The clients and the handlers of a connection that has been accepted list and
\* count nothing.
LEMMA HandlerMembers ==
  ASSUME ServerTypes, MembersInv, NEW c \in Clients,
         \/ Leave(c) \/ AcceptThrows(c) \/ RunDestroyedClose(c)
         \/ Receive(c) \/ ReadFailed(c) \/ RunSend(c) \/ TransferWrite(c)
         \/ MessageWritten(c) \/ WriteFailed(c) \/ RunOnFreed(c)
  PROVE  MembersInv'
<1>1. /\ UNCHANGED <<connections, users, raced>> /\ UNCHANGED mainVars
      BY DEF Leave, AcceptThrows, RunDestroyedClose, Receive, ReadFailed, RunSend,
             TransferWrite, MessageWritten, WriteFailed, RunOnFreed
<1>2. UNCHANGED <<pc, rest, removed, stale, Members>>
      BY <1>1 DEF mainVars, Members
<1>3. \A d \in Clients : /\ open'[d] => open[d]
                         /\ memory'[d] = memory[d] \/ memory'[d] = "freed"
      BY ZenonT(40) DEF Leave, AcceptThrows, RunDestroyedClose, Receive, ReadFailed, RunSend,
             TransferWrite, MessageWritten, WriteFailed, RunOnFreed, Destroy,
             sessions, sending, ServerTypes, TypeOK
<1>4. \A d \in Clients : memory[d] = "none" =>
        /\ posted'[d] = posted[d] /\ outcome'[d] = outcome[d]
        /\ delivered'[d] = delivered[d]
  <2>1. \A d \in Clients : memory[d] = "none" => write[d] = "none"
        BY DEF MembersInv, Fresh, ServerTypes
  <2> QED
      BY <2>1 DEF Leave, AcceptThrows, RunDestroyedClose, Receive, ReadFailed,
             RunSend, TransferWrite, MessageWritten, WriteFailed, RunOnFreed,
             sessions, sending, ServerTypes, TypeOK
<1>5. Fresh'
      BY <1>2, <1>3, <1>4 DEF MembersInv, Fresh
<1>6. Clearing'
      BY <1>2, <1>3 DEF MembersInv, Clearing, ServerTypes, TypeOK
<1> QED
    BY <1>1, <1>2, <1>5, <1>6 DEF MembersInv, Listed, Counted

\* The accept handler lists a connection that was not listed, and counts it; if
\* it runs during a loop, the loop goes on with what it had to visit or ends.
LEMMA AcceptMembers ==
  ASSUME ServerTypes, MembersInv, NEW c \in Clients,
         Accept(c) \/ AcceptInLoop(c) \/ AcceptInClear(c)
  PROVE  MembersInv'
<1>1. /\ AddNewConnection(c) /\ memory[c] = "none"
      /\ UNCHANGED <<sending, pc, stale>>
      BY DEF Accept, AcceptInLoop, AcceptInClear, mainVars
<1>2. /\ connections' = Append(connections, c) /\ connections \in Seq(Clients)
      /\ memory' = [memory EXCEPT ![c] = "live"]
      /\ open' = [open EXCEPT ![c] = TRUE]
      BY <1>1 DEF AddNewConnection, ServerTypes, TypeOK
<1>3. Members' = Members \cup {c} /\ c \notin Members
      BY <1>1, <1>2, AppendRange DEF Members, MembersInv, Fresh
<1>4. IsInjective(connections')
      BY <1>2, <1>3, AppendOnce DEF Members, MembersInv, Listed
<1>5. \/ rest' = rest
      \/ rest' = <<>>
      \/ pc = "send" /\ rest' = <<Head(rest)>>
      BY DEF Accept, AcceptInLoop, AcceptInClear, mainVars
<1>6. IsInjective(rest') /\ Range(rest') \subseteq Range(rest)
  <2>1. CASE rest' = rest
        BY <2>1 DEF MembersInv, Listed
  <2>2. CASE rest' = <<>>
        BY <2>2 DEF IsInjective, Range
  <2>3. CASE pc = "send" /\ rest' = <<Head(rest)>>
    <3>1. rest \in Seq(Clients) /\ rest # <<>>
          BY <2>3 DEF ServerTypes, TypeOK
    <3>2. Head(rest) \in Range(rest) /\ Head(rest) \in Clients
          BY <3>1, TailOnce, HeadTailProperties
    <3>3. DOMAIN <<Head(rest)>> = {1}
          OBVIOUS
    <3>4. Range(<<Head(rest)>>) = {Head(rest)} /\ IsInjective(<<Head(rest)>>)
          BY <3>3 DEF Range, IsInjective
    <3> QED
        BY <2>3, <3>2, <3>4
  <2> QED
      BY <1>5, <2>1, <2>2, <2>3
<1>7. /\ removed' \subseteq removed \cup {c} /\ removed \subseteq removed'
      /\ pc # "clear" => removed' = removed
      BY DEF Accept, AcceptInLoop, AcceptInClear, mainVars
<1>8. rest' = rest \/ pc # "clear"
      BY DEF Accept, AcceptInLoop, AcceptInClear, mainVars
<1>9. Fresh'
      BY <1>1, <1>2, <1>3 DEF MembersInv, Fresh, sending, ServerTypes, TypeOK
<1>10. Listed'
      BY <1>1, <1>3, <1>4, <1>6, <1>7 DEF MembersInv, Listed
<1>11. Clearing'
      BY <1>1, <1>2, <1>6, <1>7, <1>8 DEF MembersInv, Clearing, ServerTypes, TypeOK
<1>12. ASSUME ~raced'
      PROVE  users' = (Len(Without(connections', removed')) % (UsersMax + 1))
  <2>1. /\ users' = CountUp(users) /\ ~raced /\ removed' = removed /\ removed = {}
        BY <1>12 DEF Accept, AcceptInLoop, AcceptInClear, mainVars, MembersInv, Listed
  <2> DEFINE left == Without(connections, removed)
  <2>2. left \in Seq(Clients) /\ Len(left) \in Nat
        BY <1>2, WithoutKeeps, LenProperties
  <2>3. Without(connections', removed') = Append(left, c)
        BY <1>2, <2>1, FilterAppend DEF Without
  <2>4. Len(Append(left, c)) = Len(left) + 1
        BY <2>2, AppendProperties
  <2>5. users = (Len(left) % (UsersMax + 1))
        BY <2>1 DEF MembersInv, Counted
  <2> QED
      BY <2>1, <2>2, <2>3, <2>4, <2>5, CountsModulo
<1> QED
    BY <1>9, <1>10, <1>11, <1>12 DEF MembersInv, Counted

\* Handling a message, until the clearing begins, lists and counts nothing.
LEMMA BroadcastMembers ==
  ASSUME ServerTypes, MembersInv,
         TakeMessage \/ TakeUnhandled \/ VisitClient \/ SendMessage \/ EndLoop
  PROVE  MembersInv'
<1>1. /\ UNCHANGED <<sessions, outcome, delivered, connections, users, removed, raced>>
      /\ pc # "clear" /\ removed = {} /\ Members' = Members
      BY DEF TakeMessage, TakeUnhandled, VisitClient, SendMessage, EndLoop,
             sending, mainVars, MembersInv, Listed, Members
<1>2. rest' = rest \/ rest' = connections \/ (rest # <<>> /\ rest' = Tail(rest))
      BY DEF TakeMessage, TakeUnhandled, VisitClient, SendMessage, EndLoop,
             mainVars, ServerTypes
<1>a. rest \in Seq(Clients) /\ connections \in Seq(Clients)
      BY DEF ServerTypes, TypeOK
<1>b. /\ IsInjective(rest) /\ IsInjective(connections)
      /\ Range(rest) \subseteq Members /\ Range(connections) = Members
      BY DEF MembersInv, Listed, Members
<1>c. rest # <<>> => IsInjective(Tail(rest)) /\ Range(Tail(rest)) \subseteq Range(rest)
      BY <1>a, <1>b, TailOnce
<1>3. IsInjective(rest') /\ Range(rest') \subseteq Members
      BY <1>b, <1>c, <1>2
<1>4. Listed'
      BY <1>1, <1>3 DEF MembersInv, Listed
<1>5. Fresh'
  <2>1. ASSUME NEW c \in Clients, memory[c] = "none"
        PROVE  posted'[c] = <<>>
    <3>1. posted[c] = <<>> /\ c \notin Members
          BY <2>1 DEF MembersInv, Fresh
    <3>2. CASE SendMessage
      <4>1. Head(rest) \in Range(rest)
            BY <1>a, <3>2, TailOnce DEF SendMessage, ServerTypes
      <4>2. Head(rest) # c
            BY <3>1, <4>1 DEF MembersInv, Listed
      <4> QED
          BY <3>1, <3>2, <4>2 DEF SendMessage, ServerTypes, TypeOK
    <3>3. CASE ~SendMessage
          BY <3>1, <3>3 DEF TakeMessage, TakeUnhandled, VisitClient, EndLoop, sending
    <3> QED
        BY <3>2, <3>3
  <2> QED
      BY <1>1, <2>1 DEF MembersInv, Fresh, sessions
<1>6. Clearing'
  <2>1. CASE EndLoop /\ reached
    <3>1. pc' = "clear" /\ rest' = connections /\ stale' = {c \in Members : ~open[c]}
          BY <2>1 DEF EndLoop
    <3>2. \A c \in Members : memory[c] # "none"
      <4>1. Members \subseteq Clients
            BY RangeOfSeq DEF Members, ServerTypes, TypeOK
      <4> QED
          BY <4>1 DEF MembersInv, Fresh
    <3>3. stale' \subseteq Range(rest')
          BY <3>1 DEF Members
    <3> QED
        BY <1>1, <3>1, <3>2, <3>3 DEF Clearing, sessions
  <2>2. CASE ~(EndLoop /\ reached)
    <3>1. pc' # "clear" /\ stale' = stale
          BY <1>1, <2>2 DEF TakeMessage, TakeUnhandled, VisitClient, SendMessage,
                            EndLoop, mainVars
    <3> QED
        BY <1>1, <3>1 DEF MembersInv, Clearing, sessions
  <2> QED
      BY <2>1, <2>2
<1> QED
    BY <1>1, <1>4, <1>5, <1>6 DEF MembersInv, Counted

\* What remove_if finds is counted down, once.
LEMMA ScanMembers ==
  ASSUME ServerTypes, MembersInv, Scan
  PROVE  MembersInv'
<1>1. /\ pc = "clear" /\ rest # <<>> /\ rest' = Tail(rest) /\ rest \in Seq(Clients)
      /\ UNCHANGED <<sessions, sending, connections, pc, stale, raced>>
      /\ Members' = Members
      BY DEF Scan, ServerTypes, TypeOK, Members
<1>2. PICK c \in Clients : c = Head(rest)
      BY <1>1, HeadTailProperties
<1>3. /\ Range(rest) = {c} \cup Range(rest')
      /\ IsInjective(rest') /\ c \notin Range(rest')
      BY <1>1, <1>2, TailOnce DEF MembersInv, Listed
<1>4. IF open[c] THEN removed' = removed /\ users' = users
                 ELSE removed' = removed \cup {c} /\ users' = CountDown(users)
      BY <1>2 DEF Scan, Keeps
<1>5. Listed'
      BY <1>1, <1>3, <1>4 DEF MembersInv, Listed
<1>6. Fresh'
      BY <1>1 DEF MembersInv, Fresh, sessions, sending
<1>7. Clearing'
  <2>1. c \in stale => ~open[c]
        BY DEF MembersInv, Clearing
  <2> QED
      BY <1>1, <1>3, <1>4, <2>1 DEF MembersInv, Clearing, sessions
<1>8. ASSUME ~raced', ~open[c]
      PROVE  users' = (Len(Without(connections', removed')) % (UsersMax + 1))
  <2> DEFINE left == Without(connections, removed')
  <2>1. /\ c \in Clients \ removed
        /\ (Clients \ removed) \ {c} = Clients \ removed'
        /\ c \in Range(connections) /\ connections \in Seq(Clients)
        /\ IsInjective(connections)
        BY <1>3, <1>4, <1>8 DEF MembersInv, Listed, Members, ServerTypes, TypeOK
  <2>2. Len(Without(connections, removed)) = Len(left) + 1
        BY <2>1, FilterOneLess DEF Without
  <2>3. Len(left) \in Nat
        BY <2>1, WithoutKeeps, LenProperties
  <2>4. users = ((Len(left) + 1) % (UsersMax + 1)) /\ users' = CountDown(users)
        BY <1>1, <1>4, <1>8, <2>2 DEF MembersInv, Counted
  <2> QED
      BY <1>1, <2>3, <2>4, CountsModulo
<1> QED
    BY <1>1, <1>4, <1>5, <1>6, <1>7, <1>8 DEF MembersInv, Counted

\* erase drops what remove_if has found, which is already counted, and every
\* client that was closed when the clearing began is among it.
LEMMA EraseMembers ==
  ASSUME ServerTypes, MembersInv, Erase
  PROVE  MembersInv' /\ stale \cap Members' = {}
<1>1. /\ pc = "clear" /\ rest = <<>> /\ pc' = "idle"
      /\ removed' = {} /\ stale' = {}
      /\ connections' = Without(connections, removed)
      /\ connections \in Seq(Clients) /\ removed \subseteq Clients
      /\ UNCHANGED <<sending, users, rest, raced>>
      BY DEF Erase, ServerTypes, TypeOK
<1>2. /\ connections' \in Seq(Clients) /\ IsInjective(connections')
      /\ Members' = Members \ removed
  <2>1. /\ Range(connections') = Range(connections) \cap (Clients \ removed)
        /\ Range(connections) \subseteq Clients
        BY <1>1, FilterRange, RangeOfSeq DEF Without
  <2>2. IsInjective(connections')
        BY <1>1, FilterOnce DEF Without, MembersInv, Listed
  <2> QED
      BY <1>1, <2>1, <2>2, WithoutKeeps DEF Members
<1>3. Range(rest) = {}
      BY <1>1 DEF Range
<1>4. Listed'
      BY <1>1, <1>2, <1>3 DEF MembersInv, Listed
<1>5. Fresh'
  <2>1. \A c \in Clients : /\ memory'[c] = "none" => memory[c] = "none"
                           /\ open'[c] => open[c]
        BY DEF Erase, Destroy, ServerTypes, TypeOK
  <2> QED
      BY <1>1, <1>2, <2>1 DEF MembersInv, Fresh, sending
<1>6. Clearing'
      BY <1>1 DEF Clearing
<1>7. Counted'
  <2>1. Without(connections', removed') = connections'
    <3>1. Range(connections') \subseteq Clients \ {}
          BY <1>2, RangeOfSeq
    <3> QED
        BY <1>1, <1>2, <3>1, FilterAllOrNone DEF Without
  <2> QED
      BY <1>1, <2>1 DEF MembersInv, Counted
<1>8. stale \subseteq removed
      BY <1>1, <1>3 DEF MembersInv, Clearing
<1> QED
    BY <1>2, <1>4, <1>5, <1>6, <1>7, <1>8 DEF MembersInv

\* Every step keeps the invariant.
LEMMA MembersNext == ServerTypes /\ MembersInv /\ [Next]_vars => MembersInv'
<1> SUFFICES ASSUME ServerTypes, MembersInv, [Next]_vars PROVE MembersInv'
    OBVIOUS
<1>1. ASSUME NEW c \in Clients,
             \/ Leave(c) \/ IoThread(c) \/ TransferWrite(c) \/ RunDestroyedClose(c)
      PROVE  MembersInv'
      BY <1>1, HandlerMembers, AcceptMembers DEF IoThread
<1>2. CASE MainThread
      BY <1>2, BroadcastMembers, ScanMembers, EraseMembers DEF MainThread
<1>3. CASE UNCHANGED vars
      BY <1>3 DEF vars, sessions, sending, mainVars, MembersInv, Fresh, Listed,
                  Clearing, Counted, Members
<1> QED
    BY <1>1, <1>2, <1>3 DEF Next

\* The server knows each connection once and has it counted in every state.
THEOREM MembersInvariant == Spec => []MembersInv
<1>1. ChatInv => ServerTypes
      BY DEF ChatInv
<1> QED
    BY <1>1, ChatInvariant, MembersInit, MembersNext, PTL DEF Spec

\* Between two messages the count of users is the number of connections, modulo
\* the size of its type, unless the accept handler has run during a loop of
\* Update.
THEOREM UsersAreCounted == Spec => []UsersCounted
<1>1. ServerTypes /\ MembersInv => UsersCounted
  <2> SUFFICES ASSUME ServerTypes, MembersInv, ~raced, pc = "idle"
               PROVE  users = Len(connections) % (UsersMax + 1)
      BY DEF UsersCounted
  <2>1. /\ removed = {} /\ connections \in Seq(Clients)
        /\ Range(connections) \subseteq Clients \ {}
        BY RangeOfSeq DEF MembersInv, Listed, ServerTypes, TypeOK
  <2>2. Without(connections, removed) = connections
        BY <2>1, FilterAllOrNone DEF Without
  <2> QED
      BY <2>2 DEF MembersInv, Counted
<1>2. ChatInv => ServerTypes
      BY DEF ChatInv
<1> QED
    BY <1>1, <1>2, ChatInvariant, MembersInvariant, PTL

\* A broadcast that reached somebody drops, when it returns, every client that
\* was closed when the clearing began.
THEOREM ClosedAreDropped == Spec => ClearDropsClosed
<1>1. ServerTypes /\ MembersInv /\ [Next]_vars =>
        [pc = "clear" /\ pc' = "idle" => stale \cap Range(connections') = {}]_vars
  <2> SUFFICES ASSUME ServerTypes, MembersInv, Next, pc = "clear", pc' = "idle"
               PROVE  stale \cap Range(connections') = {}
      OBVIOUS
  <2>1. ASSUME NEW c \in Clients,
               \/ Leave(c) \/ IoThread(c) \/ TransferWrite(c) \/ RunDestroyedClose(c)
        PROVE  pc' = pc
        BY <2>1 DEF IoThread, Leave, Accept, AcceptInLoop, AcceptInClear,
             AcceptThrows, RunDestroyedClose, Receive, ReadFailed, RunSend,
             TransferWrite, MessageWritten, WriteFailed, RunOnFreed, mainVars
  <2>2. ASSUME MainThread PROVE Erase
        BY <2>2 DEF MainThread, TakeMessage, TakeUnhandled, VisitClient,
             SendMessage, EndLoop, Scan
  <2>3. Erase
        BY <2>1, <2>2 DEF Next
  <2> QED
      BY <2>3, EraseMembers DEF Members
<1>2. ChatInv => ServerTypes
      BY DEF ChatInv
<1> QED
    BY <1>1, <1>2, ChatInvariant, MembersInvariant, PTL DEF Spec, ClearDropsClosed

-----------------------------------------------------------------------------
(* The order of the messages.                                              *)

\* A message is taken in once: it waits or has been handled, its number is one
\* that its sender has reached, and only handled messages are given to clients
Numbered ==
  /\ IsInjective(income) /\ IsInjective(handled)
  /\ Range(income) \cap Range(handled) = {}
  /\ \A m \in Range(income) \cup Range(handled) : m.n <= said[m.from]
  /\ \A c \in Clients : Range(Given(c)) \subseteq Range(handled)
  /\ \A c \in Clients : joined[c] <= Len(handled)

\* Whom the broadcast has yet to visit joined before the message was taken and
\* has not been given it, and SendMessage is not called for its sender
Visiting ==
  /\ pc \in {"loop", "send"} =>
       \A c \in Range(rest) :
         joined[c] < Len(handled) /\ Current \notin Range(Given(c))
  /\ pc = "send" => Head(rest) # Current.from

OrderInv == Numbered /\ Visiting

\* Whatever the io thread and the operating system do to a connection that has
\* not been freed, what was given to its client stays the same.
LEMMA GivenKept ==
  ASSUME ServerTypes, NEW d \in Clients,
         \/ UNCHANGED sending
         \/ \E c \in Clients : \/ RunSend(c) \/ TransferWrite(c)
                               \/ MessageWritten(c) \/ WriteFailed(c)
  PROVE  Given(d)' = Given(d)
<1>1. CASE UNCHANGED sending
      BY <1>1 DEF sending, Given, Pending
<1>2. ASSUME NEW c \in Clients, RunSend(c) \/ MessageWritten(c) \/ WriteFailed(c)
      PROVE  Given(d)' = Given(d)
  <2>1. delivered' = delivered
        BY <1>2 DEF RunSend, MessageWritten, WriteFailed
  <2>2. Pending(d)' = Pending(d)
        BY <1>2, SendKeepsPending, WrittenKeepsPending
  <2> QED
      BY <2>1, <2>2 DEF Given
<1>3. ASSUME NEW c \in Clients, TransferWrite(c)
      PROVE  Given(d)' = Given(d)
  <2>1. /\ Pending(c) # <<>> /\ Pending(c)' = Tail(Pending(c))
        /\ delivered' = [delivered EXCEPT ![c] = Append(@, Head(Pending(c)))]
        /\ \A e \in Clients \ {c} : Pending(e)' = Pending(e)
        BY <1>3, TransferTakesFirst
  <2>2. /\ Pending(c) \in Seq(Message) /\ delivered[c] \in Seq(Message)
        /\ delivered \in [Clients -> Seq(Message)]
        BY PendingTypes DEF ServerTypes, TypeOK
  <2>3. CASE d = c
    <3>1. delivered'[c] = Append(delivered[c], Head(Pending(c)))
          BY <2>1, <2>2
    <3>2. Append(delivered[c], Head(Pending(c))) \o Tail(Pending(c))
            = delivered[c] \o Pending(c)
          BY <2>1, <2>2, MoveHead
    <3>3. Given(c)' = delivered'[c] \o Pending(c)' /\ Given(c) = delivered[c] \o Pending(c)
          BY DEF Given
    <3> QED
        BY <2>1, <2>3, <3>1, <3>2, <3>3
  <2>4. CASE d # c
    <3>1. delivered'[d] = delivered[d] /\ Pending(d)' = Pending(d)
          BY <2>1, <2>2, <2>4
    <3> QED
        BY <3>1 DEF Given
  <2> QED
      BY <2>3, <2>4
<1> QED
    BY <1>1, <1>2, <1>3

\* SendMessage gives the message that is being handled to the client the loop
\* has come to, if its socket is open.
LEMMA GivenSent ==
  ASSUME ServerTypes, SendMessage
  PROVE  \E c \in Clients :
           /\ c = Head(rest) /\ Current \in Message
           /\ Given(c)' = IF open[c] THEN Append(Given(c), Current) ELSE Given(c)
           /\ \A d \in Clients \ {c} : Given(d)' = Given(d)
<1>1. PICK c \in Clients :
        /\ c = Head(rest) /\ Current \in Message
        /\ Pending(c)' = IF open[c] THEN Append(Pending(c), Current) ELSE Pending(c)
        /\ \A d \in Clients \ {c} : Pending(d)' = Pending(d)
      BY SendAddsCurrent
<1>2. delivered' = delivered
      BY DEF SendMessage
<1>3. \A d \in Clients \ {c} : Given(d)' = Given(d)
      BY <1>1, <1>2 DEF Given
<1>4. delivered[c] \in Seq(Message) /\ Pending(c) \in Seq(Message)
      BY PendingTypes
<1>5. Given(c) = delivered[c] \o Pending(c) /\ Given(c)' = delivered[c] \o Pending(c)'
      BY <1>2 DEF Given
<1>6. delivered[c] \o Append(Pending(c), Current)
        = Append(delivered[c] \o Pending(c), Current)
  <2>1. \A u, v \in Seq(Message), m \in Message :
          u \o Append(v, m) = Append(u \o v, m)
        BY AppendConcat
  <2> QED
      BY <1>1, <1>4, <2>1
<1> QED
    BY <1>1, <1>3, <1>5, <1>6

\* A handler that runs in a freed connection gives nothing new to anybody.
LEMMA GivenFreed ==
  ASSUME ServerTypes, NEW c \in Clients, RunOnFreed(c), NEW d \in Clients
  PROVE  /\ Range(Given(d)') \subseteq Range(Given(d))
         /\ d # c => Given(d)' = Given(d)
<1>1. UNCHANGED <<outcome, write, delivered>>
      BY DEF RunOnFreed
<1>2. CASE posted' = posted
      BY <1>1, <1>2 DEF Given, Pending
<1>3. CASE posted' # posted
  <2>1. PICK k \in DOMAIN Pending(c) :
          /\ Pending(c)' = RemoveAt(Pending(c), k)
          /\ \A e \in Clients \ {c} : Pending(e)' = Pending(e)
        BY <1>3, FreedLosesPosted
  <2>2. CASE d # c
        BY <1>1, <2>1, <2>2 DEF Given
  <2>3. CASE d = c
    <3>1. Pending(c) \in Seq(Message) /\ delivered[c] \in Seq(Message)
          BY PendingTypes
    <3>2. /\ RemoveAt(Pending(c), k) \in Seq(Message)
          /\ Range(RemoveAt(Pending(c), k)) \subseteq Range(Pending(c))
          BY <3>1, RemoveAtElements, RemoveAtRange
    <3>3. Given(c)' = delivered[c] \o RemoveAt(Pending(c), k)
          BY <1>1, <2>1 DEF Given
    <3>4. Range(delivered[c] \o RemoveAt(Pending(c), k))
            = Range(delivered[c]) \cup Range(RemoveAt(Pending(c), k))
          BY <3>1, <3>2, RangeConcatenation
    <3>5. Range(delivered[c] \o Pending(c)) = Range(delivered[c]) \cup Range(Pending(c))
          BY <3>1, RangeConcatenation
    <3> QED
        BY <2>3, <3>2, <3>3, <3>4, <3>5 DEF Given
  <2> QED
      BY <2>2, <2>3
<1> QED
    BY <1>2, <1>3

\* The message that is being handled is one of those that have been handled.
LEMMA CurrentHandled ==
  ASSUME ServerTypes, pc # "idle"
  PROVE  /\ Len(handled) \in DOMAIN handled /\ Current = handled[Len(handled)]
         /\ Current \in Range(handled)
<1>1. handled \in Seq(Message) /\ handled # <<>>
      BY DEF ServerTypes, TypeOK
<1>2. Len(handled) \in DOMAIN handled
      BY <1>1, EmptySeq, LenProperties
<1> QED
    BY <1>2 DEF Current, Last, Range
\* In the first state there are no messages.
LEMMA OrderInit == Init => OrderInv
<1> SUFFICES ASSUME Init PROVE OrderInv
    OBVIOUS
<1>1. Range(<<>>) = {} /\ IsInjective(<<>>)
      BY DEF Range, IsInjective
<1>2. \A c \in Clients : Given(c) = <<>>
  <2>1. <<>> \o <<>> = <<>>
        BY ConcatEmptySeq, EmptySeq
  <2> QED
      BY <2>1 DEF Init, Given, Pending
<1>3. Numbered
      BY <1>1, <1>2 DEF Init, Numbered
<1> QED
    BY <1>3 DEF Init, OrderInv, Visiting

\* What the clients, and the handlers of connections that have been accepted, do
\* without a message.
LEMMA HandlerOrder ==
  ASSUME ServerTypes, OrderInv, NEW c \in Clients,
         \/ Leave(c) \/ AcceptThrows(c) \/ RunDestroyedClose(c) \/ ReadFailed(c)
         \/ RunSend(c) \/ TransferWrite(c) \/ MessageWritten(c) \/ WriteFailed(c)
         \/ RunOnFreed(c)
  PROVE  OrderInv'
<1>1. /\ UNCHANGED <<said, income, joined>> /\ UNCHANGED mainVars
      BY DEF Leave, AcceptThrows, RunDestroyedClose, ReadFailed, RunSend,
             TransferWrite, MessageWritten, WriteFailed, RunOnFreed
<1>2. UNCHANGED <<handled, pc, rest, Current>>
      BY <1>1 DEF mainVars, Current
<1>3. \A d \in Clients : Range(Given(d)') \subseteq Range(Given(d))
  <2>1. CASE RunOnFreed(c)
        BY <2>1, GivenFreed
  <2>2. CASE ~RunOnFreed(c)
    <3>1. \/ UNCHANGED sending
          \/ RunSend(c) \/ TransferWrite(c) \/ MessageWritten(c) \/ WriteFailed(c)
          BY <2>2 DEF Leave, AcceptThrows, RunDestroyedClose, ReadFailed
    <3> QED
        BY <3>1, GivenKept
  <2> QED
      BY <2>1, <2>2
<1>4. Numbered'
      BY <1>1, <1>2, <1>3 DEF OrderInv, Numbered
<1>5. Visiting'
  <2>1. Range(rest) \subseteq Clients
        BY RangeOfSeq DEF ServerTypes, TypeOK
  <2> QED
      BY <1>1, <1>2, <1>3, <2>1 DEF OrderInv, Visiting
<1> QED
    BY <1>4, <1>5 DEF OrderInv

\* A message that is read has a number its sender has not reached before.
LEMMA ReceiveOrder ==
  ASSUME ServerTypes, OrderInv, NEW c \in Clients, Receive(c)
  PROVE  OrderInv'
<1> DEFINE m == [from |-> c, n |-> said[c] + 1]
<1>1. /\ said \in [Clients -> Nat] /\ said' = [said EXCEPT ![c] = said[c] + 1]
      /\ income \in Seq(Message) /\ income' = Append(income, m)
      /\ UNCHANGED joined /\ UNCHANGED sending /\ UNCHANGED mainVars
      BY DEF ServerTypes, TypeOK, Receive
<1>2. m \in Message /\ m.from = c /\ m.n = said[c] + 1
      BY <1>1 DEF Message
<1>3. UNCHANGED <<handled, pc, rest, Current>>
      BY <1>1 DEF mainVars, Current
<1>4. \A d \in Clients : Given(d)' = Given(d)
      BY <1>1, GivenKept
<1>5. \A x \in Range(income) \cup Range(handled) : x \in Message /\ x.n <= said[x.from]
  <2>1. Range(income) \subseteq Message /\ Range(handled) \subseteq Message
        BY RangeOfSeq DEF ServerTypes, TypeOK
  <2> QED
      BY <2>1 DEF OrderInv, Numbered
<1> HIDE DEF m
<1>6. m \notin Range(income) \cup Range(handled)
      BY <1>1, <1>2, <1>5
<1>7. Range(income') = Range(income) \cup {m} /\ IsInjective(income')
  <2>1. IsInjective(income)
        BY DEF OrderInv, Numbered
  <2> QED
      BY <1>1, <1>2, <1>6, <2>1, AppendRange, AppendOnce
<1>8. \A x \in Range(income') \cup Range(handled') : x.n <= said'[x.from]
  <2>1. ASSUME NEW x \in Range(income') \cup Range(handled')
        PROVE  x.n <= said'[x.from]
    <3>1. CASE x = m
          BY <1>1, <1>2, <3>1
    <3>2. CASE x # m
      <4>1. x \in Message /\ x.n <= said[x.from]
            BY <1>3, <1>5, <1>7, <3>2
      <4> QED
          BY <1>1, <4>1 DEF Message
    <3> QED
        BY <3>1, <3>2
  <2> QED
      BY <2>1
<1>9. Numbered'
      BY <1>1, <1>3, <1>4, <1>6, <1>7, <1>8 DEF OrderInv, Numbered
<1>10. Visiting'
  <2>1. Range(rest) \subseteq Clients
        BY RangeOfSeq DEF ServerTypes, TypeOK
  <2> QED
      BY <1>1, <1>3, <1>4, <2>1 DEF OrderInv, Visiting
<1> QED
    BY <1>9, <1>10 DEF OrderInv

\* A client that is accepted is not among those the broadcast has yet to visit.
LEMMA AcceptOrder ==
  ASSUME ServerTypes, MembersInv, OrderInv, NEW c \in Clients,
         Accept(c) \/ AcceptInLoop(c) \/ AcceptInClear(c)
  PROVE  OrderInv'
<1>1. /\ joined' = [joined EXCEPT ![c] = Len(handled)] /\ memory[c] = "none"
      /\ UNCHANGED <<said, income>> /\ UNCHANGED sending
      BY DEF Accept, AcceptInLoop, AcceptInClear, AddNewConnection
<1>a. UNCHANGED <<handled, pc, Current>>
      BY DEF Accept, AcceptInLoop, AcceptInClear, mainVars, Current
<1>2. joined \in [Clients -> Nat] /\ Len(handled) \in Nat
  <2>1. joined \in [Clients -> Nat] /\ handled \in Seq(Message)
        BY DEF ServerTypes, TypeOK
  <2> QED
      BY <2>1
<1>3. \A d \in Clients : Given(d)' = Given(d)
      BY <1>1, GivenKept
<1>4. Numbered'
      BY <1>1, <1>a, <1>2, <1>3 DEF OrderInv, Numbered
<1>5. rest \in Seq(Clients) /\ Range(rest) \subseteq Clients
      BY RangeOfSeq DEF ServerTypes, TypeOK
<1>6. \/ rest' = rest
      \/ pc # "send" /\ rest' = <<>>
      \/ pc = "send" /\ rest' = <<Head(rest)>>
      BY DEF Accept, AcceptInLoop, AcceptInClear, mainVars
<1>7. Range(rest') \subseteq Range(rest) /\ (pc = "send" => Head(rest') = Head(rest))
  <2>1. CASE rest' = rest
        BY <2>1
  <2>2. CASE pc # "send" /\ rest' = <<>>
        BY <2>2 DEF Range
  <2>3. CASE pc = "send" /\ rest' = <<Head(rest)>>
    <3>1. rest # <<>>
          BY <2>3 DEF ServerTypes
    <3>2. Head(rest) \in Range(rest)
          BY <1>5, <3>1, TailOnce
    <3>3. DOMAIN <<Head(rest)>> = {1}
          OBVIOUS
    <3>4. Range(<<Head(rest)>>) = {Head(rest)}
          BY <3>3 DEF Range
    <3> QED
        BY <2>3, <3>2, <3>4
  <2> QED
      BY <1>6, <2>1, <2>2, <2>3
<1>8. c \notin Range(rest)
      BY <1>1 DEF MembersInv, Fresh, Listed
<1>9. Visiting'
      BY <1>1, <1>a, <1>2, <1>3, <1>5, <1>7, <1>8 DEF OrderInv, Visiting
<1> QED
    BY <1>4, <1>9 DEF OrderInv

\* A message that is taken has not been handled before, so nobody has it.
LEMMA TakeOrder ==
  ASSUME ServerTypes, OrderInv, TakeMessage \/ TakeUnhandled
  PROVE  OrderInv'
<1>1. /\ income \in Seq(Message) /\ income # <<>> /\ income' = Tail(income)
      /\ handled \in Seq(Message) /\ joined \in [Clients -> Nat]
      /\ UNCHANGED <<said, joined>> /\ UNCHANGED sending
      BY DEF TakeMessage, TakeUnhandled, ServerTypes, TypeOK
<1>2. IsInjective(income) /\ IsInjective(handled) /\ Range(income) \cap Range(handled) = {}
      BY DEF OrderInv, Numbered
<1>3. /\ Range(income) = {Head(income)} \cup Range(income')
      /\ IsInjective(income') /\ Head(income) \notin Range(income')
      BY <1>1, <1>2, TailOnce
<1>4. \A c \in Clients : Given(c)' = Given(c)
      BY <1>1, GivenKept
<1>5. CASE TakeMessage
  <2> DEFINE m == Head(income)
  <2>1. /\ m \in Message /\ handled' = Append(handled, m)
        /\ pc' = "loop" /\ rest' = connections
        BY <1>1, <1>5, HeadTailProperties DEF TakeMessage
  <2>2. m \in Range(income) /\ m \notin Range(handled) /\ m \notin Range(income')
        BY <1>2, <1>3
  <2> HIDE DEF m
  <2>3. Range(handled') = Range(handled) \cup {m}
        BY <1>1, <2>1, AppendRange
  <2>4. IsInjective(handled')
        BY <1>1, <1>2, <2>1, <2>2, AppendOnce
  <2>5. Len(handled') = Len(handled) + 1 /\ Len(handled) \in Nat /\ Current' = m
        BY <1>1, <2>1, AppendProperties DEF Current, Last
  <2>6. Numbered'
    <3>1. Range(income') \cap Range(handled') = {}
          BY <1>2, <1>3, <2>2, <2>3
    <3>2. Range(income') \cup Range(handled') \subseteq Range(income) \cup Range(handled)
          BY <1>3, <2>2, <2>3
    <3>3. \A c \in Clients : joined'[c] <= Len(handled')
          BY <1>1, <2>5 DEF OrderInv, Numbered
    <3> QED
        BY <1>1, <1>3, <1>4, <2>3, <2>4, <3>1, <3>2, <3>3 DEF OrderInv, Numbered
  <2>7. Visiting'
    <3>1. Range(rest') \subseteq Clients
          BY <2>1, RangeOfSeq DEF ServerTypes, TypeOK
    <3>2. ASSUME NEW c \in Range(rest')
          PROVE  joined'[c] < Len(handled') /\ Current' \notin Range(Given(c)')
          BY <1>1, <1>4, <2>2, <2>5, <3>1 DEF OrderInv, Numbered
    <3> QED
        BY <2>1, <3>2 DEF Visiting
  <2> QED
      BY <2>6, <2>7 DEF OrderInv
<1>6. CASE TakeUnhandled
  <2>1. UNCHANGED <<pc, rest, handled, Current>>
        BY <1>6 DEF TakeUnhandled, mainVars, Current
  <2>2. Numbered'
        BY <1>1, <1>2, <1>3, <1>4, <2>1 DEF OrderInv, Numbered
  <2>3. Range(rest) \subseteq Clients
        BY RangeOfSeq DEF ServerTypes, TypeOK
  <2>4. Visiting'
        BY <1>1, <1>4, <2>1, <2>3 DEF OrderInv, Visiting
  <2> QED
      BY <2>2, <2>4 DEF OrderInv
<1> QED
    BY <1>5, <1>6

\* Whom the loop has visited it does not visit again.
LEMMA LoopOrder ==
  ASSUME ServerTypes, MembersInv, OrderInv,
         VisitClient \/ SendMessage \/ EndLoop \/ Scan \/ Erase
  PROVE  OrderInv'
<1>1. /\ UNCHANGED <<said, income, handled, joined, Current>>
      /\ rest \in Seq(Clients) /\ pc # "idle"
      BY DEF VisitClient, SendMessage, EndLoop, Scan, Erase, Current, ServerTypes, TypeOK
<1>2. IsInjective(rest) /\ Range(rest) \subseteq Clients
      BY <1>1, RangeOfSeq DEF MembersInv, Listed
<1>3. rest # <<>> =>
        Range(rest) = {Head(rest)} \cup Range(Tail(rest)) /\ Head(rest) \notin Range(Tail(rest))
      BY <1>1, <1>2, TailOnce
<1>4. Current \in Range(handled)
      BY <1>1, CurrentHandled
<1>5. CASE SendMessage
  <2>1. PICK c \in Clients :
          /\ c = Head(rest) /\ Current \in Message
          /\ Given(c)' = IF open[c] THEN Append(Given(c), Current) ELSE Given(c)
          /\ \A d \in Clients \ {c} : Given(d)' = Given(d)
        BY <1>5, GivenSent
  <2>2. Range(Given(c)') \subseteq Range(Given(c)) \cup {Current}
    <3>1. Given(c) \in Seq(Message)
          BY PendingTypes
    <3>2. Range(Append(Given(c), Current)) = Range(Given(c)) \cup {Current}
          BY <2>1, <3>1, AppendRange
    <3> QED
        BY <2>1, <3>2
  <2>3. Numbered'
        BY <1>1, <1>4, <2>1, <2>2 DEF OrderInv, Numbered
  <2>4. pc' = "loop" /\ rest # <<>> /\ rest' = Tail(rest) /\ pc = "send"
        BY <1>5 DEF SendMessage, ServerTypes
  <2>5. Visiting'
    <3>1. Range(rest') \subseteq Range(rest) /\ c \notin Range(rest')
          BY <1>3, <2>1, <2>4
    <3>2. ASSUME NEW d \in Range(rest')
          PROVE  joined'[d] < Len(handled') /\ Current' \notin Range(Given(d)')
          BY <1>1, <1>2, <2>1, <2>4, <3>1 DEF OrderInv, Visiting
    <3> QED
        BY <2>4, <3>2 DEF Visiting
  <2> QED
      BY <2>3, <2>5 DEF OrderInv
<1>6. CASE VisitClient \/ EndLoop \/ Scan \/ Erase
  <2>1. UNCHANGED sending
        BY <1>6 DEF VisitClient, EndLoop, Scan, Erase
  <2>2. \A d \in Clients : Given(d)' = Given(d)
        BY <2>1, GivenKept
  <2>3. Numbered'
        BY <1>1, <2>2 DEF OrderInv, Numbered
  <2>4. Visiting'
    <3>1. CASE VisitClient
      <4>1. /\ pc = "loop" /\ rest # <<>> /\ (rest' = rest \/ rest' = Tail(rest))
            /\ pc' = "send" => Head(rest') # Current.from
            BY <3>1 DEF VisitClient, Skips
      <4>2. Range(rest') \subseteq Range(rest)
            BY <1>3, <4>1
      <4> QED
          BY <1>1, <1>2, <2>2, <4>1, <4>2 DEF OrderInv, Visiting
    <3>2. CASE EndLoop \/ Scan \/ Erase
      <4>1. pc' \in {"idle", "clear"}
            BY <3>2 DEF EndLoop, Scan, Erase
      <4> QED
          BY <4>1 DEF Visiting
    <3> QED
        BY <1>6, <3>1, <3>2
  <2> QED
      BY <2>3, <2>4 DEF OrderInv
<1> QED
    BY <1>5, <1>6

\* Every step keeps the invariant.
LEMMA OrderNext ==
  ServerTypes /\ MembersInv /\ OrderInv /\ [Next]_vars => OrderInv'
<1> SUFFICES ASSUME ServerTypes, MembersInv, OrderInv, [Next]_vars PROVE OrderInv'
    OBVIOUS
<1>1. ASSUME NEW c \in Clients,
             \/ Leave(c) \/ IoThread(c) \/ TransferWrite(c) \/ RunDestroyedClose(c)
      PROVE  OrderInv'
      BY <1>1, HandlerOrder, ReceiveOrder, AcceptOrder DEF IoThread
<1>2. CASE MainThread
      BY <1>2, TakeOrder, LoopOrder DEF MainThread
<1>3. CASE UNCHANGED vars
      BY <1>3 DEF vars, sending, mainVars, OrderInv, Numbered, Visiting, Given,
                  Pending, Current
<1> QED
    BY <1>1, <1>2, <1>3 DEF Next

\* Every message is taken in once and given to nobody twice, in every state.
THEOREM OrderInvariant == Spec => []OrderInv
<1>1. ChatInv => ServerTypes
      BY DEF ChatInv
<1> QED
    BY <1>1, ChatInvariant, MembersInvariant, OrderInit, OrderNext, PTL DEF Spec
-----------------------------------------------------------------------------
(* The refinement of the log.                                              *)

\* Where in the log a message is
Place(m) == CHOOSE k \in DOMAIN handled : handled[k] = m
Spots == {Place(m) : m \in Message}

\* The places of a list of messages are a list of the same length.
LEMMA PlacesShape ==
  ASSUME NEW s \in Seq(Message)
  PROVE  /\ Places(s) \in Seq(Spots) /\ Len(Places(s)) = Len(s)
         /\ \A i \in 1..Len(s) : Places(s)[i] = Place(s[i])
<1> DEFINE t == Places(s)
<1>1. DOMAIN s = 1..Len(s) /\ Len(s) \in Nat
      BY LenProperties
<1>2. t = [i \in 1..Len(s) |-> Place(s[i])]
      BY <1>1 DEF Places, Place
<1>3. \A i \in 1..Len(s) : Place(s[i]) \in Spots
  <2>1. \A i \in 1..Len(s) : s[i] \in Message
        BY ElementOfSeq
  <2> QED
      BY <2>1 DEF Spots
<1> HIDE DEF t
<1>4. t \in [1..Len(s) -> Spots] /\ Len(s) \in Nat
      BY <1>1, <1>2, <1>3
<1>5. t \in Seq(Spots)
      BY <1>4, SeqDef
<1>6. Len(t) = Len(s)
  <2>1. DOMAIN t = 1..Len(t) /\ Len(t) \in Nat /\ DOMAIN t = 1..Len(s)
        BY <1>4, <1>5, LenProperties
  <2>2. \A n \in Nat : n \in 1..Len(t) <=> n \in 1..Len(s)
        BY <2>1
  <2>3. Len(t) <= Len(s)
        BY <1>1, <2>1, <2>2
  <2>4. Len(s) <= Len(t)
        BY <1>1, <2>1, <2>2
  <2>5. Len(t) \in Nat /\ Len(s) \in Nat
        BY <1>1, <2>1
  <2> QED
      BY <2>3, <2>4, <2>5
<1> QED
    BY <1>2, <1>5, <1>6 DEF t

\* The places of a longer list.
LEMMA PlacesAppend ==
  ASSUME NEW s \in Seq(Message), NEW m \in Message
  PROVE  Places(Append(s, m)) = Append(Places(s), Place(m))
<1> DEFINE t == Append(s, m)
           u == Append(Places(s), Place(m))
<1>1. /\ t \in Seq(Message) /\ Len(t) = Len(s) + 1 /\ Len(s) \in Nat
      /\ \A i \in 1..Len(s) : t[i] = s[i]
      /\ t[Len(s) + 1] = m
      BY AppendProperties, LenProperties
<1>2. /\ Places(s) \in Seq(Spots) /\ Len(Places(s)) = Len(s)
      /\ \A i \in 1..Len(s) : Places(s)[i] = Place(s[i])
      BY PlacesShape
<1>3. Place(m) \in Spots
      BY DEF Spots
<1>4. /\ u \in Seq(Spots) /\ Len(u) = Len(s) + 1
      /\ \A i \in 1..Len(s) : u[i] = Places(s)[i]
      /\ u[Len(s) + 1] = Place(m)
      BY <1>2, <1>3, AppendProperties
<1> HIDE DEF t, u
<1>5. /\ Places(t) \in Seq(Spots) /\ Len(Places(t)) = Len(t)
      /\ \A i \in 1..Len(t) : Places(t)[i] = Place(t[i])
      BY <1>1, PlacesShape
<1>6. \A i \in 1..Len(u) : Places(t)[i] = u[i]
  <2>1. ASSUME NEW i \in 1..Len(u)
        PROVE  Places(t)[i] = u[i]
    <3>1. CASE i \in 1..Len(s)
          BY <1>1, <1>2, <1>4, <1>5, <3>1
    <3>2. CASE i = Len(s) + 1
          BY <1>1, <1>4, <1>5, <3>2
    <3> QED
        BY <1>1, <1>4, <3>1, <3>2
  <2> QED
      BY <2>1
<1>7. Places(t) = u
      BY <1>1, <1>4, <1>5, <1>6, SeqEqual
<1> QED
    BY <1>7 DEF t, u

\* The places of a list without its first message.
LEMMA PlacesTail ==
  ASSUME NEW s \in Seq(Message), s # <<>>
  PROVE  /\ Places(s) # <<>> /\ Head(Places(s)) = Place(Head(s))
         /\ Places(Tail(s)) = Tail(Places(s))
<1> DEFINE t == Tail(s)
           p == Places(s)
           u == Tail(p)
<1>1. /\ t \in Seq(Message) /\ Len(t) = Len(s) - 1 /\ Len(s) \in Nat \ {0}
      /\ \A i \in 1..Len(t) : t[i] = s[i + 1]
      /\ Head(s) = s[1]
      BY HeadTailProperties, EmptySeq
<1>2. /\ p \in Seq(Spots) /\ Len(p) = Len(s)
      /\ \A i \in 1..Len(s) : p[i] = Place(s[i])
      BY PlacesShape
<1> HIDE DEF t, p
<1>3. p # <<>> /\ Head(p) = p[1]
  <2>1. p # <<>>
        BY <1>1, <1>2, EmptySeq
  <2> QED
      BY <1>2, <2>1
<1>4. /\ u \in Seq(Spots) /\ Len(u) = Len(s) - 1
      /\ \A i \in 1..Len(u) : u[i] = p[i + 1]
      BY <1>2, <1>3, HeadTailProperties
<1> HIDE DEF u
<1>5. /\ Places(t) \in Seq(Spots) /\ Len(Places(t)) = Len(t)
      /\ \A i \in 1..Len(t) : Places(t)[i] = Place(t[i])
      BY <1>1, PlacesShape
<1>6. ASSUME NEW i \in 1..Len(u)
      PROVE  Places(t)[i] = u[i]
  <2>1. i \in 1..Len(t) /\ i + 1 \in 1..Len(s)
        BY <1>1, <1>4
  <2> QED
      BY <1>1, <1>2, <1>4, <1>5, <2>1
<1>7. Places(t) = u
      BY <1>1, <1>4, <1>5, <1>6, SeqEqual
<1>8. 1 \in 1..Len(s)
      BY <1>1
<1> QED
    BY <1>1, <1>2, <1>3, <1>7, <1>8 DEF t, u, p

\* The places of a list that loses a message.
LEMMA PlacesRemoveAt ==
  ASSUME NEW s \in Seq(Message), NEW k \in DOMAIN s
  PROVE  k \in DOMAIN Places(s) /\ Places(RemoveAt(s, k)) = RemoveAt(Places(s), k)
<1> DEFINE t == RemoveAt(s, k)
           p == Places(s)
           u == RemoveAt(p, k)
<1>1. /\ t \in Seq(Message) /\ Len(t) = Len(s) - 1
      /\ \A i \in 1..Len(t) : t[i] = IF i < k THEN s[i] ELSE s[i + 1]
      BY RemoveAtElements
<1>2. /\ p \in Seq(Spots) /\ Len(p) = Len(s)
      /\ \A i \in 1..Len(s) : p[i] = Place(s[i])
      BY PlacesShape
<1> HIDE DEF t, p
<1>3. DOMAIN s = 1..Len(s) /\ DOMAIN p = 1..Len(s) /\ Len(s) \in Nat
      BY <1>2, LenProperties
<1>4. /\ u \in Seq(Spots) /\ Len(u) = Len(s) - 1
      /\ \A i \in 1..Len(u) : u[i] = IF i < k THEN p[i] ELSE p[i + 1]
      BY <1>2, <1>3, RemoveAtElements
<1> HIDE DEF u
<1>5. /\ Places(t) \in Seq(Spots) /\ Len(Places(t)) = Len(t)
      /\ \A i \in 1..Len(t) : Places(t)[i] = Place(t[i])
      BY <1>1, PlacesShape
<1>6. ASSUME NEW i \in 1..Len(u)
      PROVE  Places(t)[i] = u[i]
  <2>1. i \in 1..Len(t) /\ i \in 1..Len(s) /\ i + 1 \in 1..Len(s)
        BY <1>1, <1>3, <1>4
  <2>2. t[i] = IF i < k THEN s[i] ELSE s[i + 1]
        BY <1>1, <2>1
  <2>3. u[i] = IF i < k THEN p[i] ELSE p[i + 1]
        BY <1>4
  <2>4. p[i] = Place(s[i]) /\ p[i + 1] = Place(s[i + 1])
        BY <1>2, <2>1
  <2>5. Places(t)[i] = Place(t[i])
        BY <1>5, <2>1
  <2> QED
      BY <2>2, <2>3, <2>4, <2>5
<1>7. Places(t) = u
      BY <1>1, <1>4, <1>5, <1>6, SeqEqual
<1> QED
    BY <1>3, <1>7 DEF t, p, u

\* A handled message is at its place, and at no other.
LEMMA PlaceOf ==
  ASSUME ServerTypes, Numbered, NEW k \in DOMAIN handled
  PROVE  Place(handled[k]) = k
<1>1. IsInjective(handled)
      BY DEF Numbered
<1>2. /\ Place(handled[k]) \in DOMAIN handled
      /\ handled[Place(handled[k])] = handled[k]
      BY DEF Place
<1> QED
    BY <1>1, <1>2 DEF IsInjective

\* The places of messages that have been handled do not change when another
\* message is taken in.
LEMMA PlacesKept ==
  ASSUME ServerTypes, Numbered, NEW m \in Message, m \notin Range(handled),
         handled' = Append(handled, m),
         NEW s \in Seq(Message), Range(s) \subseteq Range(handled)
  PROVE  [i \in DOMAIN s |-> CHOOSE k \in DOMAIN handled' : handled'[k] = s[i]]
           = Places(s)
<1>1. /\ handled \in Seq(Message) /\ IsInjective(handled)
      /\ DOMAIN handled = 1..Len(handled) /\ Len(handled) \in Nat
      BY LenProperties DEF ServerTypes, TypeOK, Numbered
<1>2. /\ handled' \in Seq(Message) /\ Len(handled') = Len(handled) + 1
      /\ \A k \in 1..Len(handled) : handled'[k] = handled[k]
      /\ handled'[Len(handled) + 1] = m
      BY <1>1, AppendProperties
<1>3. IsInjective(handled') /\ DOMAIN handled' = 1..(Len(handled) + 1)
      BY <1>1, <1>2, AppendOnce, LenProperties
<1>4. ASSUME NEW i \in DOMAIN s
      PROVE  (CHOOSE k \in DOMAIN handled' : handled'[k] = s[i]) = Place(s[i])
  <2> DEFINE x == s[i]
             new == CHOOSE k \in DOMAIN handled' : handled'[k] = x
  <2>1. x \in Range(handled)
        BY DEF Range
  <2>2. PICK k \in DOMAIN handled : handled[k] = x
        BY <2>1 DEF Range
  <2>3. Place(x) = k
        BY <2>2, PlaceOf
  <2>4. k \in DOMAIN handled' /\ handled'[k] = x
        BY <1>1, <1>2, <1>3, <2>2
  <2> HIDE DEF x
  <2>5. new \in DOMAIN handled' /\ handled'[new] = x
        BY <2>4
  <2>6. new = k
        BY <1>3, <2>4, <2>5 DEF IsInjective
  <2> QED
      BY <2>3, <2>6 DEF x
<1> QED
    BY <1>4 DEF Places, Place
\* What the log calls on its way, and shown
OnWay == [c \in Clients |-> Places(Pending(c))]
Shown == [c \in Clients |-> Places(delivered[c])]

\* What is on its way to a client, or delivered to it, has been handled.
LEMMA GivenParts ==
  ASSUME ServerTypes, Numbered, NEW c \in Clients
  PROVE  /\ Range(Pending(c)) \subseteq Range(handled)
         /\ Range(delivered[c]) \subseteq Range(handled)
         /\ Range(Given(c)) = Range(delivered[c]) \cup Range(Pending(c))
<1>1. /\ delivered[c] \in Seq(Message) /\ Pending(c) \in Seq(Message)
      /\ Given(c) = delivered[c] \o Pending(c)
      BY PendingTypes
<1>2. Range(Given(c)) = Range(delivered[c]) \cup Range(Pending(c))
      BY <1>1, RangeConcatenation
<1> QED
    BY <1>2 DEF Numbered

\* Messages that were handled before the current one are at lower places.
LEMMA PlacesBelow ==
  ASSUME ServerTypes, Numbered, pc # "idle", NEW s \in Seq(Message),
         Range(s) \subseteq Range(handled), Current \notin Range(s)
  PROVE  \A j \in Range(Places(s)) : j < Len(handled)
<1>1. /\ Current = handled[Len(handled)] /\ Len(handled) \in Nat
      /\ DOMAIN handled = 1..Len(handled)
      BY CurrentHandled, LenProperties DEF ServerTypes, TypeOK
<1>2. /\ Places(s) \in Seq(Spots) /\ Len(Places(s)) = Len(s)
      /\ \A i \in 1..Len(s) : Places(s)[i] = Place(s[i])
      /\ DOMAIN Places(s) = 1..Len(s) /\ DOMAIN s = 1..Len(s)
      BY PlacesShape, LenProperties
<1>3. ASSUME NEW i \in 1..Len(s)
      PROVE  Place(s[i]) < Len(handled)
  <2>1. s[i] \in Range(s)
        BY <1>2 DEF Range
  <2>2. PICK k \in DOMAIN handled : handled[k] = s[i]
        BY <2>1 DEF Range
  <2>3. k # Len(handled)
        BY <1>1, <2>1, <2>2
  <2>4. Place(s[i]) = k
        BY <2>2, PlaceOf
  <2> QED
      BY <1>1, <2>3, <2>4
<1> QED
    BY <1>2, <1>3 DEF Range

\* A step that neither handles a message, nor accepts a client, nor changes what
\* is pending for one is invisible in the log.
LEMMA LogStays ==
  ASSUME UNCHANGED <<handled, joined, delivered>>,
         \A c \in Clients : Pending(c)' = Pending(c)
  PROVE  LogOf!vars' = LogOf!vars
BY DEF LogOf!vars, Places

\* TakeMessage takes the message into the log.
LEMMA TakeLogs ==
  ASSUME ServerTypes, OrderInv, TakeMessage
  PROVE  LogOf!Next
<1> DEFINE m == Head(income)
<1>1. /\ m \in Message /\ m \in Range(income) /\ handled \in Seq(Message)
      /\ handled' = Append(handled, m)
      /\ UNCHANGED <<joined, delivered, posted, outcome, write>>
  <2>1. income \in Seq(Message) /\ income # <<>> /\ handled \in Seq(Message)
        BY DEF TakeMessage, ServerTypes, TypeOK
  <2>2. m \in Message /\ m \in Range(income)
        BY <2>1, HeadTailProperties, TailOnce
  <2> QED
      BY <2>1, <2>2 DEF TakeMessage, sending
<1>2. Numbered /\ m \notin Range(handled)
      BY <1>1 DEF OrderInv, Numbered
<1> HIDE DEF m
<1>3. handled' # <<>> /\ Last(handled') = m
      BY <1>1, AppendProperties DEF Last
<1>4. ASSUME NEW c \in Clients
      PROVE  Places(Pending(c))' = Places(Pending(c)) /\ Places(delivered[c])' = Places(delivered[c])
  <2>1. /\ Pending(c) \in Seq(Message) /\ delivered[c] \in Seq(Message)
        /\ Range(Pending(c)) \subseteq Range(handled)
        /\ Range(delivered[c]) \subseteq Range(handled)
        BY <1>2, PendingTypes, GivenParts
  <2>2. Pending(c)' = Pending(c) /\ delivered'[c] = delivered[c]
        BY <1>1 DEF Pending
  <2>3. Places(Pending(c))' = [i \in DOMAIN Pending(c) |->
                                 CHOOSE k \in DOMAIN handled' : handled'[k] = Pending(c)[i]]
        BY <2>2 DEF Places
  <2>4. Places(delivered[c])' = [i \in DOMAIN delivered[c] |->
                                   CHOOSE k \in DOMAIN handled' : handled'[k] = delivered[c][i]]
        BY <2>2 DEF Places
  <2>5. [i \in DOMAIN Pending(c) |->
           CHOOSE k \in DOMAIN handled' : handled'[k] = Pending(c)[i]] = Places(Pending(c))
        BY <1>1, <1>2, <2>1, PlacesKept
  <2>6. [i \in DOMAIN delivered[c] |->
           CHOOSE k \in DOMAIN handled' : handled'[k] = delivered[c][i]] = Places(delivered[c])
        BY <1>1, <1>2, <2>1, PlacesKept
  <2> QED
      BY <2>3, <2>4, <2>5, <2>6
<1>5. OnWay' = OnWay /\ Shown' = Shown
      BY <1>4 DEF OnWay, Shown
<1>6. LogOf!Log
  <2>1. LogOf!Last(handled') = Last(handled')
        BY DEF LogOf!Last, Last
  <2> QED
      BY <1>1, <1>3, <1>5, <2>1 DEF LogOf!Log, OnWay, Shown
<1> QED
    BY <1>6 DEF LogOf!Next

\* The accept handler lets the client join, at the place where the log is.
LEMMA AcceptJoins ==
  ASSUME ServerTypes, MembersInv, NEW c \in Clients,
         Accept(c) \/ AcceptInLoop(c) \/ AcceptInClear(c)
  PROVE  LogOf!Next
<1>1. /\ memory[c] = "none" /\ joined' = [joined EXCEPT ![c] = Len(handled)]
      /\ UNCHANGED <<delivered, posted, outcome, write>>
      BY DEF Accept, AcceptInLoop, AcceptInClear, AddNewConnection, sending
<1>2. handled' = handled
      BY DEF Accept, AcceptInLoop, AcceptInClear, mainVars
<1>3. OnWay' = OnWay /\ Shown' = Shown
      BY <1>1, <1>2 DEF OnWay, Shown, Places, Pending
<1>4. OnWay[c] = <<>> /\ Shown[c] = <<>>
  <2>1. /\ posted[c] = <<>> /\ outcome[c] = <<>> /\ delivered[c] = <<>>
        /\ write[c] = "none"
        BY <1>1 DEF MembersInv, Fresh, ServerTypes, TypeOK
  <2>2. Pending(c) = <<>>
    <3>1. <<>> \o <<>> = <<>>
          BY EmptySeq, ConcatEmptySeq
    <3> QED
        BY <2>1, <3>1 DEF Pending
  <2>3. Places(<<>>) = <<>>
        BY DEF Places
  <2> QED
      BY <2>1, <2>2, <2>3 DEF OnWay, Shown
<1>5. LogOf!Join(c)
      BY <1>1, <1>2, <1>3, <1>4 DEF LogOf!Join, OnWay, Shown
<1> QED
    BY <1>5 DEF LogOf!Next

\* SendMessage passes the newest entry of the log on to a client that has not
\* been given it, or does nothing.
LEMMA SendPassesOn ==
  ASSUME ServerTypes, MembersInv, OrderInv, SendMessage
  PROVE  LogOf!vars' = LogOf!vars \/ LogOf!Next
<1>1. PICK c \in Clients :
        /\ c = Head(rest) /\ Current \in Message
        /\ Pending(c)' = IF open[c] THEN Append(Pending(c), Current) ELSE Pending(c)
        /\ \A d \in Clients \ {c} : Pending(d)' = Pending(d)
      BY SendAddsCurrent
<1>2. UNCHANGED <<handled, joined, delivered>> /\ pc = "send"
      BY DEF SendMessage
<1>3. CASE ~open[c]
      BY <1>1, <1>2, <1>3, LogStays
<1>4. CASE open[c]
  <2> DEFINE i == Len(handled)
  <2>1. /\ i \in DOMAIN handled /\ Current = handled[i] /\ Numbered
        /\ Pending(c) \in Seq(Message) /\ delivered[c] \in Seq(Message)
        BY <1>2, CurrentHandled, PendingTypes DEF OrderInv
  <2>2. c \in Range(rest)
    <3>1. rest \in Seq(Clients) /\ rest # <<>>
          BY <1>2 DEF ServerTypes, TypeOK
    <3> QED
        BY <1>1, <3>1, TailOnce
  <2>3. i > joined[c] /\ Current \notin Range(Given(c)) /\ handled[i].from # c
    <3>1. joined[c] \in Nat /\ i \in Nat
      <4>1. joined \in [Clients -> Nat] /\ handled \in Seq(Message)
            BY DEF ServerTypes, TypeOK
      <4> QED
          BY <4>1
    <3> QED
        BY <1>1, <1>2, <2>1, <2>2, <3>1 DEF OrderInv, Visiting
  <2> HIDE DEF i
  <2>4. \A j \in Range(Shown[c] \o OnWay[c]) : j < i
    <3>1. /\ \A j \in Range(Places(delivered[c])) : j < i
          /\ \A j \in Range(Places(Pending(c))) : j < i
          BY <1>2, <2>1, <2>3, GivenParts, PlacesBelow DEF i
    <3>2. Places(delivered[c]) \in Seq(Spots) /\ Places(Pending(c)) \in Seq(Spots)
          BY <2>1, PlacesShape
    <3>3. Range(Places(delivered[c]) \o Places(Pending(c)))
            = Range(Places(delivered[c])) \cup Range(Places(Pending(c)))
          BY <3>2, RangeConcatenation
    <3> QED
        BY <3>1, <3>3 DEF Shown, OnWay
  <2>5. Places(Append(Pending(c), Current)) = Append(Places(Pending(c)), i)
    <3>1. Place(Current) = i
          BY <2>1, PlaceOf
    <3> QED
        BY <1>1, <2>1, <3>1, PlacesAppend
  <2>6. OnWay' = [OnWay EXCEPT ![c] = Append(@, i)]
    <3>1. Pending(c)' = Append(Pending(c), Current) /\ handled' = handled
          BY <1>1, <1>2, <1>4
    <3>2. Places(Pending(c))' = Places(Append(Pending(c), Current))
          BY <3>1 DEF Places
    <3>3. \A d \in Clients \ {c} : Places(Pending(d))' = Places(Pending(d))
          BY <1>1, <3>1 DEF Places
    <3> QED
        BY <2>5, <3>2, <3>3 DEF OnWay
  <2>7. Shown' = Shown
        BY <1>2 DEF Shown, Places
  <2>8. LogOf!PassOn(c, i)
    <3>1. LogOf!Range(Shown[c] \o OnWay[c]) = Range(Shown[c] \o OnWay[c])
          BY DEF LogOf!Range, Range
    <3> QED
        BY <1>2, <2>3, <2>4, <2>6, <2>7, <3>1 DEF LogOf!PassOn, OnWay, Shown
  <2> QED
      BY <2>1, <2>8 DEF LogOf!Next
<1> QED
    BY <1>3, <1>4

\* What the operating system delivers to a client is shown to it.
LEMMA TransferShows ==
  ASSUME ServerTypes, NEW c \in Clients, TransferWrite(c)
  PROVE  LogOf!Next
<1>1. /\ Pending(c) # <<>> /\ Pending(c)' = Tail(Pending(c))
      /\ delivered' = [delivered EXCEPT ![c] = Append(@, Head(Pending(c)))]
      /\ \A d \in Clients \ {c} : Pending(d)' = Pending(d)
      BY TransferTakesFirst
<1>2. UNCHANGED <<handled, joined>>
      BY DEF TransferWrite, mainVars
<1>3. /\ Pending(c) \in Seq(Message) /\ delivered[c] \in Seq(Message)
      /\ Head(Pending(c)) \in Message /\ delivered \in [Clients -> Seq(Message)]
  <2>1. Pending(c) \in Seq(Message) /\ delivered[c] \in Seq(Message)
        BY PendingTypes
  <2> QED
      BY <1>1, <2>1, HeadTailProperties DEF ServerTypes, TypeOK
<1>4. /\ Places(Pending(c)) # <<>>
      /\ Head(Places(Pending(c))) = Place(Head(Pending(c)))
      /\ Places(Tail(Pending(c))) = Tail(Places(Pending(c)))
      /\ Places(Append(delivered[c], Head(Pending(c))))
           = Append(Places(delivered[c]), Place(Head(Pending(c))))
      BY <1>1, <1>3, PlacesTail, PlacesAppend
<1>5. /\ Places(Pending(c))' = Places(Tail(Pending(c)))
      /\ \A d \in Clients \ {c} : Places(Pending(d))' = Places(Pending(d))
  <2>1. Places(Pending(c))' = Places(Tail(Pending(c)))
        BY <1>1, <1>2 DEF Places
  <2>2. \A d \in Clients \ {c} : Places(Pending(d))' = Places(Pending(d))
        BY <1>1, <1>2 DEF Places
  <2> QED
      BY <2>1, <2>2
<1>6. /\ Places(delivered[c])' = Places(Append(delivered[c], Head(Pending(c))))
      /\ \A d \in Clients \ {c} : Places(delivered[d])' = Places(delivered[d])
  <2>1. /\ delivered'[c] = Append(delivered[c], Head(Pending(c)))
        /\ \A d \in Clients \ {c} : delivered'[d] = delivered[d]
        BY <1>1, <1>3
  <2>2. Places(delivered[c])' = Places(Append(delivered[c], Head(Pending(c))))
        BY <1>2, <2>1 DEF Places
  <2>3. \A d \in Clients \ {c} : Places(delivered[d])' = Places(delivered[d])
        BY <1>2, <2>1 DEF Places
  <2> QED
      BY <2>2, <2>3
<1>7. /\ OnWay[c] # <<>> /\ OnWay' = [OnWay EXCEPT ![c] = Tail(@)]
      /\ Shown' = [Shown EXCEPT ![c] = Append(@, Head(OnWay[c]))]
      BY <1>4, <1>5, <1>6 DEF OnWay, Shown
<1>8. LogOf!Show(c)
      BY <1>2, <1>7 DEF LogOf!Show, OnWay, Shown
<1> QED
    BY <1>8 DEF LogOf!Next

\* A message posted to a freed connection is lost.
LEMMA FreedLoses ==
  ASSUME ServerTypes, NEW c \in Clients, RunOnFreed(c)
  PROVE  LogOf!vars' = LogOf!vars \/ LogOf!Next
<1>1. UNCHANGED <<handled, joined, outcome, write, delivered>>
      BY DEF RunOnFreed, mainVars
<1>2. CASE posted' = posted
      BY <1>1, <1>2, OthersKeepPending, LogStays
<1>3. CASE posted' # posted
  <2>1. PICK k \in DOMAIN Pending(c) :
          /\ Pending(c)' = RemoveAt(Pending(c), k)
          /\ \A d \in Clients \ {c} : Pending(d)' = Pending(d)
        BY <1>3, FreedLosesPosted
  <2>2. k \in DOMAIN Places(Pending(c))
        /\ Places(RemoveAt(Pending(c), k)) = RemoveAt(Places(Pending(c)), k)
        BY PendingTypes, PlacesRemoveAt
  <2>3. /\ Places(Pending(c))' = Places(RemoveAt(Pending(c), k))
        /\ \A d \in Clients \ {c} : Places(Pending(d))' = Places(Pending(d))
    <3>1. Places(Pending(c))' = Places(RemoveAt(Pending(c), k))
          BY <1>1, <2>1 DEF Places
    <3>2. \A d \in Clients \ {c} : Places(Pending(d))' = Places(Pending(d))
          BY <1>1, <2>1 DEF Places
    <3> QED
        BY <3>1, <3>2
  <2>4. /\ k \in DOMAIN OnWay[c] /\ OnWay' = [OnWay EXCEPT ![c] = RemoveAt(@, k)]
        /\ Shown' = Shown
    <3>1. Shown' = Shown
          BY <1>1 DEF Shown, Places
    <3> QED
        BY <2>2, <2>3, <3>1 DEF OnWay
  <2>5. LogOf!Lose(c, k)
    <3>1. LogOf!RemoveAt(OnWay[c], k) = RemoveAt(OnWay[c], k)
          BY DEF LogOf!RemoveAt, RemoveAt
    <3> QED
        BY <1>1, <2>4, <3>1 DEF LogOf!Lose, OnWay, Shown
  <2> QED
      BY <2>4, <2>5 DEF LogOf!Next, OnWay
<1> QED
    BY <1>2, <1>3

\* No other step can be seen in the log.
LEMMA OthersInvisible ==
  ASSUME ServerTypes,
         \/ \E c \in Clients :
              \/ Leave(c) \/ AcceptThrows(c) \/ RunDestroyedClose(c)
              \/ Receive(c) \/ ReadFailed(c) \/ RunSend(c)
              \/ MessageWritten(c) \/ WriteFailed(c)
         \/ TakeUnhandled \/ VisitClient \/ EndLoop \/ Scan \/ Erase
  PROVE  LogOf!vars' = LogOf!vars
<1>1. UNCHANGED <<handled, joined, delivered>>
      BY DEF Leave, AcceptThrows, RunDestroyedClose, Receive, ReadFailed, RunSend,
             MessageWritten, WriteFailed, TakeUnhandled, VisitClient, EndLoop,
             Scan, Erase, mainVars, sending
<1>2. ASSUME NEW d \in Clients
      PROVE  Pending(d)' = Pending(d)
  <2>1. CASE \E c \in Clients : RunSend(c) \/ MessageWritten(c) \/ WriteFailed(c)
        BY <2>1, SendKeepsPending, WrittenKeepsPending
  <2>2. CASE ~\E c \in Clients : RunSend(c) \/ MessageWritten(c) \/ WriteFailed(c)
    <3>1. UNCHANGED <<posted, outcome, write>>
          BY <2>2 DEF Leave, AcceptThrows, RunDestroyedClose, Receive, ReadFailed,
               TakeUnhandled, VisitClient, EndLoop, Scan, Erase, sending
    <3> QED
        BY <3>1, OthersKeepPending
  <2> QED
      BY <2>1, <2>2
<1> QED
    BY <1>1, <1>2, LogStays

\* The server implements the log: all clients are given the messages in the
\* order Update took them in, each at most once and never their own, in every
\* interleaving of the two threads and whatever the accept handler does to a
\* loop of Update.
THEOREM BroadcastImplemented == Spec => ImplementsLog
<1>1. Init => LogOf!Init
  <2> SUFFICES ASSUME Init PROVE LogOf!Init
      OBVIOUS
  <2>1. \A c \in Clients : Places(Pending(c)) = <<>> /\ Places(delivered[c]) = <<>>
    <3>1. <<>> \o <<>> = <<>> /\ Places(<<>>) = <<>>
          BY EmptySeq, ConcatEmptySeq DEF Places
    <3>2. \A c \in Clients : Pending(c) = <<>> /\ delivered[c] = <<>>
          BY <3>1 DEF Init, Pending
    <3> QED
        BY <3>1, <3>2
  <2> QED
      BY <2>1 DEF Init, LogOf!Init
<1>2. ServerTypes /\ MembersInv /\ OrderInv /\ [Next]_vars =>
        [LogOf!vars' # LogOf!vars => LogOf!Next]_vars
  <2> SUFFICES ASSUME ServerTypes, MembersInv, OrderInv, Next
               PROVE  LogOf!vars' = LogOf!vars \/ LogOf!Next
      OBVIOUS
  <2>1. ASSUME NEW c \in Clients,
               \/ Leave(c) \/ IoThread(c) \/ TransferWrite(c) \/ RunDestroyedClose(c)
        PROVE  LogOf!vars' = LogOf!vars \/ LogOf!Next
        BY <2>1, AcceptJoins, TransferShows, FreedLoses, OthersInvisible DEF IoThread
  <2>2. CASE MainThread
        BY <2>2, TakeLogs, SendPassesOn, OthersInvisible DEF MainThread
  <2> QED
      BY <2>1, <2>2 DEF Next
<1>3. ChatInv => ServerTypes
      BY DEF ChatInv
<1> QED
    BY <1>1, <1>2, <1>3, ChatInvariant, MembersInvariant, OrderInvariant, PTL
       DEF Spec, ImplementsLog
-----------------------------------------------------------------------------
(* The completeness of the broadcast.                                      *)

\* CompleteBroadcast, inductively.  While the loop has yet to visit a client, the
\* message that is being handled is all that is due to it, unless it is its own.
Complete ==
  ~raced => \A c \in Members :
    /\ memory[c] = "live"
    /\ IsPrefix(Given(c), Due(c))
    /\ open[c] => Due(c) = IF pc \in {"loop", "send"} /\ c \in Range(rest) /\ Current.from # c
                             THEN Append(Given(c), Current)
                             ELSE Given(c)
\* The messages that are not a client's own
Others(c) == [from : Clients \ {c}, n : Nat \ {0}]

\* What is due to a client is a list of messages: nothing when it is accepted,
\* and one message more whenever another client's message is taken.
LEMMA DueGrows ==
  ASSUME NEW log \in Seq(Message), NEW n \in 0..Len(log), NEW c \in Clients,
         NEW m \in Message
  PROVE  LET due == Filter(SubSeq(log, n + 1, Len(log)), Others(c))
             next == Append(log, m)
         IN  /\ due \in Seq(Message)
             /\ n = Len(log) => due = <<>>
             /\ Filter(SubSeq(next, n + 1, Len(next)), Others(c))
                  = IF m.from # c THEN Append(due, m) ELSE due
<1> DEFINE since == SubSeq(log, n + 1, Len(log))
           next == Append(log, m)
<1>1. /\ since \in Seq(Message)
      /\ SubSeq(next, n + 1, Len(log) + 1) = Append(since, m)
      BY RestAppend
<1>2. Len(next) = Len(log) + 1
      BY AppendProperties
<1>3. m \in Others(c) <=> m.from # c
      BY DEF Others, Message
<1>4. n = Len(log) => since = <<>>
      BY SubSeqEmpty
<1>5. Filter(<<>>, Others(c)) = <<>>
      BY FilterEmpty
<1> HIDE DEF since, next
<1>6. /\ Filter(since, Others(c)) \in Seq(Message)
      /\ Filter(Append(since, m), Others(c)) =
           IF m \in Others(c) THEN Append(Filter(since, Others(c)), m)
                              ELSE Filter(since, Others(c))
      BY <1>1, FilterSeq, FilterAppend
<1> QED
    BY <1>1, <1>2, <1>3, <1>4, <1>5, <1>6 DEF since, next

\* In the first state there are no members.
LEMMA CompleteInit == Init => Complete
BY DEF Init, Complete, Members, Range

\* Nothing that a client does, or a handler of a connection that has been
\* accepted, changes what was given to a member or what is due to it.
LEMMA HandlerComplete ==
  ASSUME ServerTypes, Complete, NEW c \in Clients,
         \/ Leave(c) \/ AcceptThrows(c) \/ RunDestroyedClose(c)
         \/ Receive(c) \/ ReadFailed(c) \/ RunSend(c) \/ TransferWrite(c)
         \/ MessageWritten(c) \/ WriteFailed(c) \/ RunOnFreed(c)
  PROVE  Complete'
<1> SUFFICES ASSUME ~raced', NEW d \in Members'
             PROVE  /\ memory'[d] = "live"
                    /\ IsPrefix(Given(d), Due(d))'
                    /\ (open[d] => Due(d) =
                          IF pc \in {"loop", "send"} /\ d \in Range(rest) /\ Current.from # d
                            THEN Append(Given(d), Current)
                            ELSE Given(d))'
    BY DEF Complete
<1>1. /\ UNCHANGED <<connections, joined, raced>> /\ UNCHANGED mainVars
      BY DEF Leave, AcceptThrows, RunDestroyedClose, Receive, ReadFailed, RunSend,
             TransferWrite, MessageWritten, WriteFailed, RunOnFreed
<1>2. UNCHANGED <<Members, handled, pc, rest, Current>>
      BY <1>1 DEF mainVars, Members, Current
<1>3. d \in Members /\ d \in Clients
      BY <1>2, RangeOfSeq DEF Members, ServerTypes, TypeOK
<1>4. /\ memory[d] = "live" /\ IsPrefix(Given(d), Due(d))
      /\ open[d] => Due(d) =
           IF pc \in {"loop", "send"} /\ d \in Range(rest) /\ Current.from # d
             THEN Append(Given(d), Current)
             ELSE Given(d)
      BY <1>1, <1>3 DEF Complete
<1>5. memory'[d] = "live" /\ (open'[d] => open[d])
  <2>1. CASE MessageWritten(c)
    <3>1. CASE Held(c, Members, Tail(outcome[c]))
          BY <1>4, <2>1, <3>1 DEF MessageWritten
    <3>2. CASE ~Held(c, Members, Tail(outcome[c]))
      <4>1. Destroy({c}) /\ d # c
            BY <1>3, <2>1, <3>2 DEF MessageWritten, Held
      <4> QED
          BY <1>3, <1>4, <4>1 DEF Destroy
    <3> QED
        BY <3>1, <3>2
  <2>2. CASE ~MessageWritten(c)
    <3>1. memory' = memory
          BY <2>2 DEF Leave, AcceptThrows, RunDestroyedClose, Receive, ReadFailed,
               RunSend, TransferWrite, WriteFailed, RunOnFreed, sessions
    <3>2. open' = open \/ open' = [open EXCEPT ![c] = FALSE]
          BY <2>2 DEF Leave, AcceptThrows, RunDestroyedClose, Receive, ReadFailed,
               RunSend, TransferWrite, WriteFailed, RunOnFreed, sessions
    <3>3. open \in [Clients -> BOOLEAN]
          BY DEF ServerTypes, TypeOK
    <3> QED
        BY <1>3, <1>4, <3>1, <3>2, <3>3
  <2> QED
      BY <2>1, <2>2
<1>6. Given(d)' = Given(d)
  <2>1. CASE RunOnFreed(c)
    <3>1. d # c
          BY <1>4, <2>1 DEF RunOnFreed
    <3> QED
        BY <1>3, <2>1, <3>1, GivenFreed
  <2>2. CASE ~RunOnFreed(c)
    <3>1. \/ UNCHANGED sending
          \/ RunSend(c) \/ TransferWrite(c) \/ MessageWritten(c) \/ WriteFailed(c)
          BY <2>2 DEF Leave, AcceptThrows, RunDestroyedClose, Receive, ReadFailed
    <3> QED
        BY <1>3, <3>1, GivenKept
  <2> QED
      BY <2>1, <2>2
<1>7. Due(d)' = Due(d)
      BY <1>1, <1>2 DEF Due
<1>8. IsPrefix(Given(d), Due(d))'
      BY <1>4, <1>6, <1>7 DEF IsPrefix
<1> QED
    BY <1>2, <1>4, <1>5, <1>6, <1>7, <1>8

\* A client that is accepted between two messages is due nothing yet.
LEMMA AcceptComplete ==
  ASSUME ServerTypes, MembersInv, Complete, NEW c \in Clients,
         Accept(c) \/ AcceptInLoop(c) \/ AcceptInClear(c)
  PROVE  Complete'
<1> SUFFICES ASSUME ~raced', Accept(c)
             PROVE  Complete'
    BY DEF Complete, AcceptInLoop, AcceptInClear
<1>1. /\ connections' = Append(connections, c) /\ connections \in Seq(Clients)
      /\ memory' = [memory EXCEPT ![c] = "live"] /\ memory[c] = "none"
      /\ open' = [open EXCEPT ![c] = TRUE]
      /\ joined' = [joined EXCEPT ![c] = Len(handled)] /\ pc = "idle"
      /\ UNCHANGED sending /\ UNCHANGED raced /\ UNCHANGED mainVars
      BY DEF Accept, AddNewConnection, ServerTypes, TypeOK
<1>2. UNCHANGED <<handled, pc, rest, Current>>
      BY <1>1 DEF mainVars, Current
<1>3. Members' = Members \cup {c} /\ Members \subseteq Clients /\ c \notin Members
  <2>1. Members' = Members \cup {c}
        BY <1>1, AppendRange DEF Members
  <2>2. Members \subseteq Clients
        BY <1>1, RangeOfSeq DEF Members
  <2> QED
      BY <1>1, <2>1, <2>2 DEF MembersInv, Fresh
<1>4. \A d \in Clients : Given(d)' = Given(d)
      BY <1>1, GivenKept
<1>5. ASSUME NEW d \in Members
      PROVE  /\ memory'[d] = "live" /\ IsPrefix(Given(d), Due(d))'
             /\ open'[d] => Due(d)' = Given(d)'
  <2>1. /\ d # c /\ d \in Clients /\ memory[d] = "live" /\ IsPrefix(Given(d), Due(d))
        /\ open[d] => Due(d) = Given(d)
        BY <1>1, <1>3 DEF Complete
  <2>2. joined'[d] = joined[d] /\ memory'[d] = memory[d] /\ open'[d] = open[d]
        BY <1>1, <2>1 DEF ServerTypes, TypeOK
  <2>3. Due(d)' = Due(d)
        BY <1>2, <2>2 DEF Due
  <2>4. IsPrefix(Given(d), Due(d))'
        BY <1>4, <2>1, <2>3 DEF IsPrefix
  <2> QED
      BY <1>4, <2>1, <2>2, <2>3, <2>4
<1>6. /\ memory'[c] = "live" /\ IsPrefix(Given(c), Due(c))'
      /\ Due(c)' = Given(c)'
  <2>1. Given(c) = <<>>
    <3>1. /\ posted[c] = <<>> /\ outcome[c] = <<>> /\ delivered[c] = <<>>
          /\ write[c] = "none"
          BY <1>1 DEF MembersInv, Fresh, ServerTypes, TypeOK
    <3>2. <<>> \o <<>> = <<>>
          BY EmptySeq, ConcatEmptySeq
    <3> QED
        BY <3>1, <3>2 DEF Given, Pending
  <2>2. joined'[c] = Len(handled) /\ Len(handled) \in Nat /\ memory'[c] = "live"
    <3>1. /\ joined \in [Clients -> Nat] /\ handled \in Seq(Message)
          /\ memory \in [Clients -> {"none", "live", "freed"}]
          BY DEF ServerTypes, TypeOK
    <3> QED
        BY <1>1, <3>1
  <2>3. Due(c)' = <<>>
    <3>1. SubSeq(handled, Len(handled) + 1, Len(handled)) = <<>>
          BY <2>2, SubSeqEmpty
    <3>2. Filter(<<>>, Others(c)) = <<>>
          BY FilterEmpty
    <3> QED
        BY <1>2, <2>2, <3>1, <3>2 DEF Due, Others
  <2>4. IsPrefix(<<>>, <<>>)
        BY DEF IsPrefix
  <2>5. IsPrefix(Given(c), Due(c))' <=> IsPrefix(Given(c)', Due(c)')
        BY DEF IsPrefix
  <2> QED
      BY <1>4, <2>1, <2>2, <2>3, <2>4, <2>5
<1> QED
    BY <1>1, <1>2, <1>3, <1>5, <1>6 DEF Complete

\* A message that is taken becomes due to every member but its sender.
LEMMA TakeComplete ==
  ASSUME ServerTypes, MembersInv, OrderInv, Complete, TakeMessage \/ TakeUnhandled
  PROVE  Complete'
<1> SUFFICES ASSUME ~raced PROVE Complete'
    BY DEF Complete, TakeMessage, TakeUnhandled
<1>1. /\ UNCHANGED <<connections, joined, raced, memory, open, Members>>
      /\ UNCHANGED sending /\ pc = "idle"
      /\ handled \in Seq(Message) /\ Members \subseteq Clients
      BY RangeOfSeq DEF TakeMessage, TakeUnhandled, sessions, Members, ServerTypes, TypeOK
<1>2. \A d \in Clients : Given(d)' = Given(d) /\ Given(d) \in Seq(Message)
      BY <1>1, GivenKept, PendingTypes
<1>3. \A d \in Members : /\ memory[d] = "live" /\ IsPrefix(Given(d), Due(d))
                         /\ open[d] => Due(d) = Given(d)
      BY <1>1 DEF Complete
<1>4. CASE TakeMessage
  <2> DEFINE m == Head(income)
  <2>1. /\ m \in Message /\ handled' = Append(handled, m)
        /\ pc' = "loop" /\ rest' = connections
    <3>1. income \in Seq(Message) /\ income # <<>>
          BY <1>4 DEF TakeMessage, ServerTypes, TypeOK
    <3> QED
        BY <1>4, <3>1, HeadTailProperties DEF TakeMessage
  <2> HIDE DEF m
  <2>2. Current' = m
    <3>1. Len(handled') = Len(handled) + 1 /\ handled'[Len(handled) + 1] = m
          BY <1>1, <2>1, AppendProperties
    <3> QED
        BY <3>1 DEF Current, Last
  <2>3. ASSUME NEW d \in Members
        PROVE  /\ IsPrefix(Given(d), Due(d))'
               /\ open'[d] => Due(d)' = IF Current'.from # d THEN Append(Given(d)', Current')
                                                             ELSE Given(d)'
    <3>1. d \in Clients /\ joined[d] \in 0..Len(handled)
      <4>1. joined[d] \in Nat /\ joined[d] <= Len(handled)
            BY <1>1 DEF OrderInv, Numbered, ServerTypes, TypeOK
      <4>2. Len(handled) \in Nat
            BY <1>1
      <4> QED
          BY <1>1, <4>1, <4>2
    <3>2. Due(d) \in Seq(Message)
          BY <1>1, <2>1, <3>1, DueGrows DEF Due, Others
    <3>3. Due(d)' = IF m.from # d THEN Append(Due(d), m) ELSE Due(d)
      <4> DEFINE next == Append(handled, m)
      <4>1. Filter(SubSeq(next, joined[d] + 1, Len(next)), Others(d))
              = IF m.from # d THEN Append(Due(d), m) ELSE Due(d)
        <5>1. Due(d) = Filter(SubSeq(handled, joined[d] + 1, Len(handled)), Others(d))
              BY DEF Due, Others
        <5> QED
            BY <1>1, <2>1, <3>1, <5>1, DueGrows
      <4>2. handled' = next /\ joined' = joined
            BY <1>1, <2>1
      <4> HIDE DEF next
      <4> QED
          BY <4>1, <4>2 DEF Due, Others
    <3>4. IsPrefix(Given(d), Append(Due(d), m))
          BY <1>2, <1>3, <2>1, <3>1, <3>2, PrefixAppend
    <3>5. IsPrefix(Given(d), Due(d))' <=> IsPrefix(Given(d)', Due(d)')
          BY DEF IsPrefix
    <3> QED
        BY <1>1, <1>2, <1>3, <2>2, <3>1, <3>3, <3>4, <3>5
  <2> QED
      BY <1>1, <1>3, <2>1, <2>3 DEF Complete, Members
<1>5. CASE TakeUnhandled
  <2>1. UNCHANGED <<handled, pc, rest, Current>>
        BY <1>5 DEF TakeUnhandled, mainVars, Current
  <2>2. \A d \in Clients : Due(d)' = Due(d)
        BY <1>1, <2>1 DEF Due
  <2>3. \A d \in Clients : IsPrefix(Given(d), Due(d))' <=> IsPrefix(Given(d)', Due(d)')
        BY DEF IsPrefix
  <2> QED
      BY <1>1, <1>2, <1>3, <2>1, <2>2, <2>3 DEF Complete
<1> QED
    BY <1>4, <1>5

\* When SendMessage has been called for a client it has all that is due to it;
\* whom the loop passes over is closed or has sent the message.
LEMMA LoopComplete ==
  ASSUME ServerTypes, MembersInv, OrderInv, Complete,
         VisitClient \/ SendMessage \/ EndLoop \/ Scan
  PROVE  Complete'
<1> SUFFICES ASSUME ~raced PROVE Complete'
    BY DEF Complete, VisitClient, SendMessage, EndLoop, Scan
<1>1. /\ UNCHANGED <<connections, joined, raced, memory, open, handled>>
      /\ UNCHANGED <<Members, Current>>
      /\ rest \in Seq(Clients) /\ Members \subseteq Clients
      BY RangeOfSeq DEF VisitClient, SendMessage, EndLoop, Scan, sessions, Members,
             Current, ServerTypes, TypeOK
<1>2. \A d \in Clients : /\ Due(d)' = Due(d)
                         /\ IsPrefix(Given(d), Due(d))' <=> IsPrefix(Given(d)', Due(d)')
  <2>1. \A d \in Clients : Due(d)' = Due(d)
        BY <1>1 DEF Due
  <2> QED
      BY <2>1 DEF IsPrefix
<1>3. rest # <<>> =>
        /\ Range(rest) = {Head(rest)} \cup Range(Tail(rest))
        /\ Head(rest) \notin Range(Tail(rest))
      BY <1>1, TailOnce DEF MembersInv, Listed
<1>4. CASE SendMessage
  <2>1. /\ pc = "send" /\ pc' = "loop" /\ rest # <<>> /\ rest' = Tail(rest)
        /\ Head(rest) # Current.from
        BY <1>4 DEF SendMessage, ServerTypes, OrderInv, Visiting
  <2>2. PICK c \in Clients :
          /\ c = Head(rest) /\ Current \in Message
          /\ Given(c)' = IF open[c] THEN Append(Given(c), Current) ELSE Given(c)
          /\ \A d \in Clients \ {c} : Given(d)' = Given(d)
        BY <1>4, GivenSent
  <2>3. ASSUME NEW d \in Members, d # c
        PROVE  /\ memory'[d] = "live" /\ IsPrefix(Given(d), Due(d))'
               /\ open'[d] => Due(d)' =
                    IF d \in Range(rest') /\ Current'.from # d
                      THEN Append(Given(d)', Current') ELSE Given(d)'
    <3>1. d \in Clients /\ (d \in Range(rest') <=> d \in Range(rest))
          BY <1>1, <1>3, <2>1, <2>2, <2>3
    <3>2. Given(d)' = Given(d) /\ Due(d)' = Due(d)
          BY <1>2, <2>2, <2>3, <3>1
    <3>3. /\ memory[d] = "live" /\ IsPrefix(Given(d), Due(d))
          /\ open[d] => Due(d) = IF d \in Range(rest) /\ Current.from # d
                                   THEN Append(Given(d), Current) ELSE Given(d)
          BY <2>1 DEF Complete
    <3> QED
        BY <1>1, <1>2, <3>1, <3>2, <3>3
  <2>4. ASSUME c \in Members
        PROVE  /\ memory'[c] = "live" /\ IsPrefix(Given(c), Due(c))'
               /\ open'[c] => Due(c)' = Given(c)'
    <3>1. /\ c \in Range(rest) /\ Current.from # c
          BY <1>3, <2>1, <2>2
    <3>2. /\ memory[c] = "live" /\ IsPrefix(Given(c), Due(c))
          /\ open[c] => Due(c) = Append(Given(c), Current)
          BY <2>1, <2>4, <3>1 DEF Complete
    <3>3. CASE open[c]
      <4>1. Given(c)' = Due(c)
            BY <2>2, <3>2, <3>3
      <4>2. Due(c) \in Seq(Message)
        <5>1. Given(c) \in Seq(Message)
              BY PendingTypes
        <5> QED
            BY <2>2, <3>2, <3>3, <5>1, AppendProperties
      <4>3. IsPrefix(Due(c), Due(c))
            BY <2>2, <4>2, PrefixAppend
      <4> QED
          BY <1>1, <1>2, <3>2, <4>1, <4>3
    <3>4. CASE ~open[c]
          BY <1>1, <1>2, <2>2, <3>2, <3>4
    <3> QED
        BY <3>3, <3>4
  <2>5. c \notin Range(rest')
        BY <1>3, <2>1, <2>2
  <2> QED
      BY <1>1, <2>1, <2>3, <2>4, <2>5 DEF Complete
<1>5. CASE VisitClient \/ EndLoop \/ Scan
  <2>1. UNCHANGED sending
        BY <1>5 DEF VisitClient, EndLoop, Scan
  <2>2. \A d \in Clients : Given(d)' = Given(d)
        BY <2>1, GivenKept
  <2>3. ASSUME NEW d \in Members, open[d]
        PROVE  (pc' \in {"loop", "send"} /\ d \in Range(rest') /\ Current.from # d) <=>
               (pc \in {"loop", "send"} /\ d \in Range(rest) /\ Current.from # d)
    <3>1. CASE VisitClient /\ Skips(Head(rest))
      <4>1. /\ pc = "loop" /\ pc' = pc /\ rest # <<>> /\ rest' = Tail(rest)
            /\ Head(rest) = Current.from \/ ~open[Head(rest)]
            BY <3>1 DEF VisitClient, Skips
      <4> QED
          BY <1>3, <2>3, <4>1
    <3>2. CASE VisitClient /\ ~Skips(Head(rest))
          BY <3>2 DEF VisitClient
    <3>3. CASE EndLoop \/ Scan
      <4>1. /\ pc' \in {"idle", "clear"}
            /\ pc = "clear" \/ rest = <<>>
            BY <3>3 DEF EndLoop, Scan
      <4>2. rest = <<>> => Range(rest) = {}
            BY DEF Range
      <4> QED
          BY <4>1, <4>2
    <3> QED
        BY <1>5, <3>1, <3>2, <3>3
  <2>4. ASSUME NEW d \in Members
        PROVE  /\ memory'[d] = "live" /\ IsPrefix(Given(d), Due(d))'
               /\ open'[d] => Due(d)' =
                    IF pc' \in {"loop", "send"} /\ d \in Range(rest') /\ Current'.from # d
                      THEN Append(Given(d)', Current') ELSE Given(d)'
    <3>1. d \in Clients /\ Given(d)' = Given(d) /\ Due(d)' = Due(d)
          BY <1>1, <1>2, <2>2
    <3>2. /\ memory[d] = "live" /\ IsPrefix(Given(d), Due(d))
          /\ open[d] => Due(d) =
               IF pc \in {"loop", "send"} /\ d \in Range(rest) /\ Current.from # d
                 THEN Append(Given(d), Current) ELSE Given(d)
          BY DEF Complete
    <3> QED
        BY <1>1, <1>2, <2>3, <3>1, <3>2
  <2> QED
      BY <1>1, <2>4 DEF Complete
<1> QED
    BY <1>4, <1>5

\* erase frees no connection that stays.
LEMMA EraseComplete ==
  ASSUME ServerTypes, Complete, Erase
  PROVE  Complete'
<1> SUFFICES ASSUME ~raced PROVE Complete'
    BY DEF Complete, Erase
<1>1. /\ pc = "clear" /\ pc' = "idle" /\ connections' = Without(connections, removed)
      /\ connections \in Seq(Clients)
      /\ UNCHANGED <<handled, joined, raced>> /\ UNCHANGED sending
      BY DEF Erase, ServerTypes, TypeOK
<1>2. Members' \subseteq Members \ removed /\ Members \subseteq Clients
  <2>1. Range(connections') = Range(connections) \cap (Clients \ removed)
        BY <1>1, FilterRange DEF Without
  <2> QED
      BY <1>1, <2>1, RangeOfSeq DEF Members
<1>3. \A d \in Clients \ removed : memory'[d] = memory[d] /\ (open'[d] => open[d])
      BY DEF Erase, Destroy, ServerTypes, TypeOK
<1>4. \A d \in Clients : Given(d)' = Given(d) /\ Due(d)' = Due(d)
      BY <1>1, GivenKept DEF Due
<1>5. \A d \in Clients : IsPrefix(Given(d), Due(d))' <=> IsPrefix(Given(d)', Due(d)')
      BY DEF IsPrefix
<1>6. ASSUME NEW d \in Members'
      PROVE  /\ memory'[d] = "live" /\ IsPrefix(Given(d), Due(d))'
             /\ open'[d] => Due(d)' = Given(d)'
      BY <1>1, <1>2, <1>3, <1>4, <1>5 DEF Complete
<1> QED
    BY <1>1, <1>6 DEF Complete

\* Every step keeps the invariant.
LEMMA CompleteNext ==
  ServerTypes /\ MembersInv /\ OrderInv /\ Complete /\ [Next]_vars => Complete'
<1> SUFFICES ASSUME ServerTypes, MembersInv, OrderInv, Complete, [Next]_vars
             PROVE  Complete'
    OBVIOUS
<1>1. ASSUME NEW c \in Clients,
             \/ Leave(c) \/ IoThread(c) \/ TransferWrite(c) \/ RunDestroyedClose(c)
      PROVE  Complete'
      BY <1>1, HandlerComplete, AcceptComplete DEF IoThread
<1>2. CASE MainThread
      BY <1>2, TakeComplete, LoopComplete, EraseComplete DEF MainThread
<1>3. CASE UNCHANGED vars
      BY <1>3 DEF vars, sessions, sending, mainVars, Complete, Members, Given,
                  Pending, Due, Current, IsPrefix
<1> QED
    BY <1>1, <1>2, <1>3 DEF Next

\* A client misses no message from the moment it is accepted until its socket
\* closes, for any number of clients and messages, unless the accept handler has
\* run during a loop of Update.
THEOREM BroadcastComplete == Spec => []CompleteBroadcast
<1>1. Complete => CompleteBroadcast
      BY DEF Complete, CompleteBroadcast
<1>2. ChatInv => ServerTypes
      BY DEF ChatInv
<1> QED
    BY <1>1, <1>2, ChatInvariant, MembersInvariant, OrderInvariant, CompleteInit,
       CompleteNext, PTL DEF Spec

=============================================================================
