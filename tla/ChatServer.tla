------------------------------ MODULE ChatServer ------------------------------
(***************************************************************************)
(* The chat server of asio_web_service: net::BaseServer and net::MyServer  *)
(* (server/include, server/src) over the ServerConnection objects of the   *)
(* clients.  Two threads run it.  The io thread (server_thread_) runs the  *)
(* accept handler and the handlers of every connection, one at a time; the *)
(* main thread calls Update in a loop and broadcasts each message.  They   *)
(* share income_messages_, which has a lock, and connections_,             *)
(* users_count_ and the connection objects, which have none.               *)
(*                                                                         *)
(* A message is its sender and its number.  Module Connection shows what   *)
(* the header and body operations of one socket add up to; here a message  *)
(* is read, or written, whole.  What an unsynchronised access or a freed   *)
(* object may lead to is a choice: no harm, the damage named at the        *)
(* action, or a process that is down.                                      *)
(***************************************************************************)
EXTENDS Naturals, Sequences, SequencesExt, Filters

CONSTANTS
  Clients,    \* the clients; each connects at most once
  MaxSends,   \* bound: MaxSends[c] messages come from client c
  Leavers,    \* bound: the clients that may go away
  UsersMax    \* the largest value of users_count_ (2^32 - 1 in the code)

ASSUME MaxSendsAssumption == MaxSends \in [Clients -> Nat]
ASSUME LeaversAssumption == Leavers \subseteq Clients
ASSUME UsersMaxAssumption == UsersMax \in Nat \ {0}

VARIABLES
  server,       \* the process: running or down
  client,       \* client[c]: waiting (to be accepted), joined or gone
  said,         \* said[c]: how many messages of c have been read
  memory,       \* memory[c]: its ServerConnection: none, live or freed
  open,         \* open[c]: socket_.is_open()
  reading,      \* reading[c]: an async_read is outstanding
  linked,       \* linked[c]: temp_message_.connection is c itself
  posted,       \* posted[c]: SendMessage handlers waiting in context_
  outcome,      \* outcome[c]: outcome_messages_
  write,        \* write[c]: the outstanding async_write: none, issued, done
  closing,      \* connections whose destructor's posted closes are to run
  income,       \* income_messages_
  connections,  \* connections_
  users,        \* users_count_
  pc,           \* main thread: idle, loop, send (in SendMessage) or clear
  rest,         \* what its loop over connections_ has still to visit
  reached,      \* has_disconnected: set when SendToClient returned true
  removed,      \* what remove_if has found to remove
  handled,      \* every message Update has taken, in order (history)
  joined,       \* joined[c]: Len(handled) when c was accepted (history)
  delivered,    \* delivered[c]: the messages that reached client c (history)
  stale,        \* the members closed when the clearing began (history)
  raced         \* the accept handler has run during a loop of Update (history)

sessions == <<memory, open, reading, linked>>
sending  == <<posted, outcome, write, delivered>>
mainVars == <<pc, rest, reached, removed, handled, stale>>
vars == <<server, client, said, sessions, sending, closing, income,
          connections, users, mainVars, joined, raced>>

Message == [from : Clients, n : Nat \ {0}]
Members == Range(connections)
Current == Last(handled)   \* the message Update is handling

-----------------------------------------------------------------------------
(* Variants of the operations below with one mistake each.                 *)

\* An entry of outcome_messages_ does not keep the connection alive
QueueHoldsNot(queue) == FALSE

\* The message goes back to its sender as well
SkipsClosedOnly(c) == ~open[c]

\* Only one client is sent the message
SkipsAfterFirst(c) == c = Current.from \/ ~open[c] \/ reached

\* A message is queued before those that wait already
QueuedFirst(queue, m) == <<m>> \o queue

\* users_count_ is not counted down
CountDownForgotten(n) == n

\* users_count_ is counted below zero
CountDownSigned(n) == n - 1

\* Only the first disconnected client is removed
KeepsAfterFirst(c) == open[c] \/ removed # {}

\* The next message of the queue is not picked up after a pop
NextWriteForgotten(queue) == "none"

-----------------------------------------------------------------------------
(* The operations the handlers are built from.                             *)

\* SendToAllClients passes over the sender, SendToClient over a closed socket
Skips(c) == c = Current.from \/ ~open[c]

\* OnClientDisconnect: --users_count_
CountDown(n) == IF n = 0 THEN UsersMax ELSE n - 1
CountUp(n)   == IF n = UsersMax THEN 0 ELSE n + 1

\* The predicate of ClearDisconnectedClients
Keeps(c) == open[c]

\* erase(remove_if(...)): what is left of the connections, in their order
Without(members, gone) == Filter(members, Clients \ gone)

\* The write handlers, after the pop
NextWrite(queue) == IF queue = <<>> THEN "none" ELSE "issued"

\* outcome_messages_.push_back in the handler SendMessage posts
Queued(queue, m) == Append(queue, m)

\* An entry of outcome_messages_ holds shared_from_this()
QueueHolds(queue) == queue # <<>>

\* The shared_ptrs to c: connections_, outcome_messages_, and temp_message_ of
\* c itself, which AddNewMessage sets and push(T&&) copies but does not clear
Held(c, members, queue) == c \in members \/ QueueHolds(queue) \/ linked[c]

\* ~ServerConnection and ~Connection: each posts a close, the socket goes too
Destroy(cs) ==
  /\ memory' = [c \in Clients |-> IF c \in cs THEN "freed" ELSE memory[c]]
  /\ open' = [c \in Clients |-> open[c] /\ c \notin cs]
  /\ closing' = closing \cup cs

\* After a use of freed memory the process goes on unharmed, or is down
MayGoDown == server' \in {server, "down"}

-----------------------------------------------------------------------------
Init ==
  /\ server = "running"
  /\ client = [c \in Clients |-> "waiting"]
  /\ said = [c \in Clients |-> 0]
  /\ memory = [c \in Clients |-> "none"]
  /\ open = [c \in Clients |-> FALSE]
  /\ reading = [c \in Clients |-> FALSE]
  /\ linked = [c \in Clients |-> FALSE]
  /\ posted = [c \in Clients |-> <<>>]
  /\ outcome = [c \in Clients |-> <<>>]
  /\ write = [c \in Clients |-> "none"]
  /\ delivered = [c \in Clients |-> <<>>]
  /\ closing = {}
  /\ income = <<>>
  /\ connections = <<>>
  /\ users = 0
  /\ pc = "idle" /\ rest = <<>> /\ reached = FALSE /\ removed = {}
  /\ handled = <<>>
  /\ joined = [c \in Clients |-> 0]
  /\ stale = {}
  /\ raced = FALSE

-----------------------------------------------------------------------------
(* The clients.  A client that has yet to connect is one the accept handler *)
(* has yet to run for: both are "waiting".                                 *)

\* A client closes its socket, or its link is reset
Leave(c) ==
  /\ c \in Leavers /\ client[c] \in {"waiting", "joined"}
  /\ client' = [client EXCEPT ![c] = "gone"]
  /\ UNCHANGED <<server, said, sessions, sending, closing, income,
                 connections, users, mainVars, joined, raced>>

-----------------------------------------------------------------------------
(* The io thread.                                                          *)

\* push_back, users_count_++ and ConnectToClient of AddNewConnection
AddNewConnection(c) ==
  /\ memory' = [memory EXCEPT ![c] = "live"]
  /\ open' = [open EXCEPT ![c] = TRUE]
  /\ reading' = [reading EXCEPT ![c] = TRUE]
  /\ connections' = Append(connections, c)
  /\ joined' = [joined EXCEPT ![c] = Len(handled)]
  /\ client' = [client EXCEPT ![c] = IF @ = "waiting" THEN "joined" ELSE @]

\* The accept handler of WaitConnections while Update is not in a loop
Accept(c) ==
  /\ client[c] \in {"waiting", "gone"} /\ memory[c] = "none" /\ pc = "idle"
  /\ AddNewConnection(c)
  /\ users' = CountUp(users)
  /\ UNCHANGED <<server, said, linked, sending, closing, income, mainVars, raced>>

\* The same during the broadcast loop.  If push_back has to reallocate, the
\* loop goes on in the old storage, whose pointers have been moved from and
\* are skipped as nullptr; a client selected already is in the copy conn.
AcceptInLoop(c) ==
  /\ client[c] \in {"waiting", "gone"} /\ memory[c] = "none"
  /\ pc \in {"loop", "send"}
  /\ AddNewConnection(c)
  /\ users' = CountUp(users)
  /\ rest' \in {rest, IF pc = "send" THEN <<Head(rest)>> ELSE <<>>}
  /\ raced' = TRUE
  /\ MayGoDown
  /\ UNCHANGED <<said, linked, sending, closing, income, pc, reached, removed,
                 handled, stale>>

\* The same during the clearing.  users_count_++ and --users_count_ may each
\* overwrite the other, and erase(remove_if(...), end(...)) may take the new
\* end, in which case it also erases the connection just added.
AcceptInClear(c) ==
  /\ client[c] \in {"waiting", "gone"} /\ memory[c] = "none" /\ pc = "clear"
  /\ AddNewConnection(c)
  /\ users' \in {users, CountUp(users), CountUp(CountUp(users))}
  /\ removed' \in {removed, removed \cup {c}}
  /\ raced' = TRUE
  /\ MayGoDown
  /\ UNCHANGED <<said, linked, sending, closing, income, pc, rest, reached,
                 handled, stale>>

\* remote_endpoint() throws for a link already reset; nothing in the io thread
\* catches it
AcceptThrows(c) ==
  /\ client[c] = "gone" /\ memory[c] = "none"
  /\ server' = "down"
  /\ UNCHANGED <<client, said, sessions, sending, closing, income, connections,
                 users, mainVars, joined, raced>>

\* A message of c has been read: AddNewMessage, and the next read
Receive(c) ==
  /\ memory[c] = "live" /\ open[c] /\ reading[c]
  /\ client[c] = "joined" /\ said[c] < MaxSends[c]
  /\ said' = [said EXCEPT ![c] = @ + 1]
  /\ income' = Append(income, [from |-> c, n |-> said'[c]])
  /\ linked' = [linked EXCEPT ![c] = TRUE]
  /\ UNCHANGED <<server, client, memory, open, reading, sending, closing,
                 connections, users, mainVars, joined, raced>>

\* The read fails: the client has gone or the socket is closed
ReadFailed(c) ==
  /\ memory[c] = "live" /\ reading[c]
  /\ client[c] = "gone" \/ ~open[c]
  /\ reading' = [reading EXCEPT ![c] = FALSE]
  /\ open' = [open EXCEPT ![c] = FALSE]
  /\ UNCHANGED <<server, client, said, memory, linked, sending, closing, income,
                 connections, users, mainVars, joined, raced>>

\* The handler SendMessage posted
RunSend(c) ==
  /\ memory[c] = "live" /\ posted[c] # <<>>
  /\ posted' = [posted EXCEPT ![c] = Tail(@)]
  /\ outcome' = [outcome EXCEPT ![c] = Queued(@, Head(posted[c]))]
  /\ write' = IF outcome[c] = <<>> THEN [write EXCEPT ![c] = "issued"] ELSE write
  /\ UNCHANGED <<server, client, said, sessions, delivered, closing, income,
                 connections, users, mainVars, joined, raced>>

\* The operating system takes the message and delivers it to the client
TransferWrite(c) ==
  /\ write[c] = "issued" /\ open[c] /\ client[c] = "joined"
  /\ write' = [write EXCEPT ![c] = "done"]
  /\ delivered' = [delivered EXCEPT ![c] = Append(@, Head(outcome[c]))]
  /\ UNCHANGED <<server, client, said, sessions, posted, outcome, closing,
                 income, connections, users, mainVars, joined, raced>>

\* The handler of the last write of a message.  The pop may release the last
\* pointer to the connection: then the handler goes on in a destroyed object.
MessageWritten(c) ==
  /\ memory[c] = "live" /\ write[c] = "done"
  /\ outcome' = [outcome EXCEPT ![c] = Tail(@)]
  /\ write' = [write EXCEPT ![c] = NextWrite(Tail(outcome[c]))]
  /\ IF Held(c, Members, Tail(outcome[c]))
       THEN UNCHANGED <<memory, open, closing, server>>
       ELSE Destroy({c}) /\ MayGoDown
  /\ UNCHANGED <<client, said, reading, linked, posted, delivered, income,
                 connections, users, mainVars, joined, raced>>

\* A write fails: the socket is closed, the queue stays as it is
WriteFailed(c) ==
  /\ memory[c] = "live" /\ write[c] = "issued"
  /\ client[c] = "gone" \/ ~open[c]
  /\ write' = [write EXCEPT ![c] = "none"]
  /\ open' = [open EXCEPT ![c] = FALSE]
  /\ UNCHANGED <<server, client, said, memory, reading, linked, posted, outcome,
                 delivered, closing, income, connections, users, mainVars,
                 joined, raced>>

\* A handler that captured `this` runs after the connection has been freed
RunOnFreed(c) ==
  /\ memory[c] = "freed"
  /\ \/ /\ posted[c] # <<>>
        /\ posted' = [posted EXCEPT ![c] = Tail(@)]
        /\ UNCHANGED reading
     \/ /\ reading[c]
        /\ reading' = [reading EXCEPT ![c] = FALSE]
        /\ UNCHANGED posted
  /\ MayGoDown
  /\ UNCHANGED <<client, said, memory, open, linked, outcome, write, delivered,
                 closing, income, connections, users, mainVars, joined, raced>>

\* The system executor runs the closes the destructors posted with `this`
RunDestroyedClose(c) ==
  /\ c \in closing
  /\ closing' = closing \ {c}
  /\ MayGoDown
  /\ UNCHANGED <<client, said, sessions, sending, income, connections, users,
                 mainVars, joined, raced>>

-----------------------------------------------------------------------------
(* The main thread: MyServer::Update.                                      *)

\* Take a message and begin SendToAllClients, the only registered handler
TakeMessage ==
  /\ pc = "idle" /\ income # <<>>
  /\ income' = Tail(income)
  /\ handled' = Append(handled, Head(income))
  /\ pc' = "loop" /\ rest' = connections /\ reached' = FALSE
  /\ UNCHANGED <<server, client, said, sessions, sending, closing, connections,
                 users, removed, stale, joined, raced>>

\* A message of a type with no handler (CheckPing): message_handler_[type] is an
\* empty function, whose call throws, and nothing in main catches it
TakeUnhandled ==
  /\ pc = "idle" /\ income # <<>>
  /\ income' = Tail(income)
  /\ server' = "down"
  /\ UNCHANGED <<client, said, sessions, sending, closing, connections, users,
                 mainVars, joined, raced>>

\* One client of the loop: pass over it, or go on to SendMessage
VisitClient ==
  /\ pc = "loop" /\ rest # <<>>
  /\ IF Skips(Head(rest))
       THEN rest' = Tail(rest) /\ UNCHANGED pc
       ELSE pc' = "send" /\ UNCHANGED rest
  /\ UNCHANGED <<server, client, said, sessions, sending, closing, income,
                 connections, users, reached, removed, handled, stale, joined,
                 raced>>

\* SendMessage checks the socket again; SendToClient returns true either way
SendMessage ==
  /\ pc = "send"
  /\ LET c == Head(rest)
     IN  posted' = IF open[c] THEN [posted EXCEPT ![c] = Append(@, Current)]
                              ELSE posted
  /\ reached' = TRUE
  /\ pc' = "loop" /\ rest' = Tail(rest)
  /\ UNCHANGED <<server, client, said, sessions, outcome, write, delivered,
                 closing, income, connections, users, removed, handled, stale,
                 joined, raced>>

\* The end of the loop: if (has_disconnected) ClearDisconnectedClients()
EndLoop ==
  /\ pc = "loop" /\ rest = <<>>
  /\ IF reached
       THEN /\ pc' = "clear" /\ rest' = connections
            /\ stale' = {c \in Members : ~open[c]}
       ELSE pc' = "idle" /\ UNCHANGED <<rest, stale>>
  /\ UNCHANGED <<server, client, said, sessions, sending, closing, income,
                 connections, users, reached, removed, handled, joined, raced>>

\* remove_if asks of one connection whether to remove it
Scan ==
  /\ pc = "clear" /\ rest # <<>>
  /\ rest' = Tail(rest)
  /\ IF Keeps(Head(rest))
       THEN UNCHANGED <<removed, users>>
       ELSE /\ removed' = removed \cup {Head(rest)}
            /\ users' = CountDown(users)
  /\ UNCHANGED <<server, client, said, sessions, sending, closing, income,
                 connections, pc, reached, handled, stale, joined, raced>>

\* erase; by now the pointers in connections_ to what is removed are released
Erase ==
  /\ pc = "clear" /\ rest = <<>>
  /\ pc' = "idle" /\ removed' = {} /\ stale' = {}
  /\ connections' = Without(connections, removed)
  /\ Destroy({c \in removed : ~Held(c, Members \ removed, outcome[c])})
  /\ UNCHANGED <<server, client, said, reading, linked, sending, income, users,
                 rest, reached, handled, joined, raced>>

-----------------------------------------------------------------------------
IoThread(c) ==
  \/ Accept(c) \/ AcceptInLoop(c) \/ AcceptInClear(c) \/ AcceptThrows(c)
  \/ Receive(c) \/ ReadFailed(c)
  \/ RunSend(c) \/ MessageWritten(c) \/ WriteFailed(c) \/ RunOnFreed(c)

MainThread ==
  \/ TakeMessage \/ TakeUnhandled \/ VisitClient \/ SendMessage
  \/ EndLoop \/ Scan \/ Erase

Next ==
  /\ server = "running"
  /\ \/ \E c \in Clients :
          \/ Leave(c) \/ IoThread(c)
          \/ TransferWrite(c) \/ RunDestroyedClose(c)
     \/ MainThread

Spec == Init /\ [][Next]_vars

\* While the process runs, the main thread keeps calling Update, the io thread
\* runs every ready handler and the operating system completes the writes to a
\* client that is there.  Clients need not be accepted, speak or leave.
Fairness ==
  /\ WF_vars(server = "running" /\ MainThread)
  /\ \A c \in Clients :
       /\ WF_vars(server = "running" /\ RunSend(c))
       /\ WF_vars(server = "running" /\ (MessageWritten(c) \/ WriteFailed(c)))
       /\ WF_vars(server = "running" /\ TransferWrite(c))

FairSpec == Spec /\ Fairness

-----------------------------------------------------------------------------
TypeOK ==
  /\ server \in {"running", "down"}
  /\ client \in [Clients -> {"waiting", "joined", "gone"}]
  /\ \A c \in Clients : said[c] \in 0..MaxSends[c]
  /\ memory \in [Clients -> {"none", "live", "freed"}]
  /\ open \in [Clients -> BOOLEAN]
  /\ reading \in [Clients -> BOOLEAN]
  /\ linked \in [Clients -> BOOLEAN]
  /\ posted \in [Clients -> Seq(Message)]
  /\ outcome \in [Clients -> Seq(Message)]
  /\ write \in [Clients -> {"none", "issued", "done"}]
  /\ delivered \in [Clients -> Seq(Message)]
  /\ closing \subseteq Clients
  /\ income \in Seq(Message)
  /\ connections \in Seq(Clients)
  /\ users \in 0..UsersMax
  /\ pc \in {"idle", "loop", "send", "clear"}
  /\ rest \in Seq(Clients)
  /\ reached \in BOOLEAN
  /\ removed \subseteq Clients
  /\ handled \in Seq(Message)
  /\ joined \in [Clients -> Nat]
  /\ stale \subseteq Clients
  /\ raced \in BOOLEAN

-----------------------------------------------------------------------------
(* What makes the server correct.                                          *)

\* No outstanding async_read or async_write has captured the `this` of a freed
\* connection: only a failed handler closes a socket, only a closed one leaves
\* connections_, and what a failed write leaves in outcome_messages_ keeps the
\* object for the read that is still to be cancelled.  (It does not hold for
\* the handlers SendMessage posts, nor once the accept handler has raced.)
LiveHandlers ==
  ~raced => \A c \in Clients :
    reading[c] \/ write[c] # "none" => memory[c] = "live"

\* What is queued for c and not yet delivered, and all that was given to it,
\* oldest first
Pending(c) ==
  (IF write[c] = "done" THEN Tail(outcome[c]) ELSE outcome[c]) \o posted[c]
Given(c) == delivered[c] \o Pending(c)

Places(ms) ==
  [i \in DOMAIN ms |-> CHOOSE k \in DOMAIN handled : handled[k] = ms[i]]

LogOf ==
  INSTANCE BroadcastLog WITH
    log <- handled,
    start <- joined,
    onWay <- [c \in Clients |-> Places(Pending(c))],
    shown <- [c \in Clients |-> Places(delivered[c])]

\* All clients get the messages in one order, the order Update took them in,
\* each at most once and never their own, whatever the accept handler does to
\* the loop: with its queues, threads and asynchronous operations hidden the
\* server is a log, each step of it takes in a message, lets a client join,
\* passes an entry on to a client that has been given nothing later, delivers
\* what is first on its way, loses what a freed connection had yet to queue, or
\* is invisible.  (This is LogOf!Spec, without asking of invisible steps whether
\* they are steps of the log.)
ImplementsLog ==
  LogOf!Init /\ [][LogOf!vars' # LogOf!vars => LogOf!Next]_vars

\* The messages of others since c was accepted
Due(c) ==
  Filter(SubSeq(handled, joined[c] + 1, Len(handled)),
         [from : Clients \ {c}, n : Nat \ {0}])

\* From the moment it is accepted a client misses no message until its socket
\* closes: what it is given is a prefix of what is due, and all of it while
\* the socket is open and Update is between two messages.
CompleteBroadcast ==
  ~raced => \A c \in Members :
    /\ IsPrefix(Given(c), Due(c))
    /\ open[c] /\ pc = "idle" => Given(c) = Due(c)

\* Between two messages users_count_ is the number of connections, as far as
\* its type can tell.
UsersCounted ==
  ~raced /\ pc = "idle" => users = Len(connections) % (UsersMax + 1)

\* When a broadcast that reached somebody returns, every client found closed
\* when the clearing began has left connections_ (unless the accept raced).
ClearDropsClosed ==
  [][pc = "clear" /\ pc' = "idle" => stale \cap Range(connections') = {}]_vars

\* A message waiting in income_messages_ while c is connected comes to be
\* delivered to c, unless it is c's own, c disconnects, or the process is down.
EventuallyBroadcast ==
  \A c, d \in Clients : c # d =>
    \A n \in 1..MaxSends[d] :
      LET m == [from |-> d, n |-> n]
      IN  m \in Range(income) /\ c \in Members /\ open[c]
            ~> \/ m \in Range(delivered[c])
               \/ client[c] = "gone" \/ server = "down" \/ raced

=============================================================================
