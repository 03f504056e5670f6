------------------------------ MODULE Connection ------------------------------
(***************************************************************************)
(* One TCP link of asio_web_service and the two net::Connection objects at *)
(* its ends (connection/include): the ClientConnection that connects and   *)
(* the ServerConnection the acceptor creates.  Each end has one io thread  *)
(* (context_.run()) that runs completion handlers one at a time; an action *)
(* below is one handler, one call made by the program, or one step of the  *)
(* operating system.                                                       *)
(*                                                                         *)
(* A message is its number among the messages its end has sent and its     *)
(* header.size; bytes travel in chunks, a chunk being one header or one    *)
(* body, because that is what one async_write or async_read moves.         *)
(***************************************************************************)
EXTENDS Naturals, Sequences, SequencesExt

CONSTANTS
  Client, Server,   \* the two ends
  Sizes,            \* the values of header.size (0: a message without a body)
  MaxSends,         \* bound: MaxSends[e] calls of SendMessage at end e
  WireCap           \* chunks the socket buffers of one direction hold

Ends == {Client, Server}

ASSUME EndsAssumption == Client # Server
ASSUME SizesAssumption == Sizes \subseteq Nat
ASSUME BoundsAssumption == WireCap \in Nat \ {0} /\ MaxSends \in [Ends -> Nat]

VARIABLES
  connect,  \* the client's async_connect: idle, pending, established or
            \* refused (handler not run yet), finished
  link,     \* the TCP link: down (not established), up, reset
  context,  \* context[e]: context_ of e is idle, running, stopping (Disconnect
            \* called, stop() not yet) or stopped
  sock,     \* sock[e]: socket_ of e is unopened, open or closed
  closing,  \* closing[e]: socket_.close() is posted to the system executor
  posted,   \* posted[e]: SendMessage handlers waiting in the io_context
  outcome,  \* outcome[e]: outcome_messages_
  writes,   \* writes[e]: the outstanding async_writes of e
  wire,     \* wire[e]: chunks sent by e and not yet read by its peer
  reads,    \* reads[e]: the outstanding async_read of e
  temp,     \* temp[e]: temp_message_, the buffers the reads fill
  sent,     \* sent[e]: every message SendMessage accepted (history)
  received  \* received[e]: every message pushed to income_messages_ (history)

apiVars == <<sent, posted>>
vars == <<connect, link, context, sock, closing, posted, outcome, writes,
          wire, reads, temp, sent, received>>

Peer(e) == IF e = Client THEN Server ELSE Client

Message == [id : Nat \ {0}, size : Sizes]
Chunk   == [part : {"header", "body"}, msg : Message]
NoChunk == [part |-> "none", msg |-> [id |-> 0, size |-> 0]]
Status  == {"issued", "done", "error"}
NoRead  == [part |-> "none", status |-> "done"]
Read(part) == [part |-> part, status |-> "issued"]

IsConnected(e) == sock[e] = "open"
IsRunning(e) == context[e] \in {"running", "stopping"}

-----------------------------------------------------------------------------
(* Variants of the operations below with one mistake each.  They stand in  *)
(* for the real ones to show which property notices the mistake.           *)

\* SendMessage's handler starts a write whether or not one is under way
StartsWritingAlways(e) == TRUE

\* queue_size is read after the push: it is never zero
StartsWritingNever(e) == FALSE

\* The next message of the queue is not picked up after a pop
WriteNextForgotten(queue) == <<>>

\* The message is popped as soon as its header is written, body or not
QueueAfterHeaderPopped(queue) == Tail(queue)

\* A header announcing one byte is taken for a message without a body
ReadAfterHeaderOffByOne(chunk) ==
  Read(IF chunk.msg.size <= 1 THEN "header" ELSE "body")

\* No header is read after a body
ReadAfterBodyForgotten == NoRead

\* temp_message_ is pushed after having been moved from
AddNewMessageMoved(e) ==
  received' = [received EXCEPT ![e] =
                 Append(@, [header |-> NoChunk, body |-> NoChunk])]

\* The message is pushed twice
AddNewMessageTwice(e) ==
  received' = [received EXCEPT ![e] = Append(Append(@, temp[e]), temp[e])]

\* The handler of a failed operation leaves the socket open
CloseSocketForgotten(e) == UNCHANGED <<sock, link>>

-----------------------------------------------------------------------------
(* The operations the handlers are built from.                             *)

\* WriteMessageHeader and WriteMessageBody: an async_write of a part of front()
WriteOf(part, queue) == [part |-> part, msg |-> Head(queue), status |-> "issued"]
Ended(w, status) == [part |-> w.part, msg |-> w.msg, status |-> status]

\* SendMessage's handler starts a write only if the queue was empty before it
StartsWriting(e) == outcome[e] = <<>>

\* After a pop: write the next header if a message is left
WriteNext(queue) == IF queue = <<>> THEN <<>> ELSE <<WriteOf("header", queue)>>

\* The queue and the next write after the header of front() has been written
QueueAfterHeader(queue) == IF Head(queue).size = 0 THEN Tail(queue) ELSE queue
WriteAfterHeader(queue) ==
  IF Head(queue).size = 0 THEN WriteNext(Tail(queue))
                          ELSE <<WriteOf("body", queue)>>

\* The read that follows a header: its body, or the next header if it has none
ReadAfterHeader(chunk) == Read(IF chunk.msg.size = 0 THEN "header" ELSE "body")
ReadAfterBody == Read("header")

\* AddNewMessage pushes a copy of temp_message_ (push(T&&) copies its argument)
AddNewMessage(e) == received' = [received EXCEPT ![e] = Append(@, temp[e])]

\* socket_.close(); TCP resets the link if data the peer sent is still unread
CloseSocket(e) ==
  /\ sock' = [sock EXCEPT ![e] = "closed"]
  /\ link' = IF link = "up" /\ wire[Peer(e)] # <<>> THEN "reset" ELSE link

-----------------------------------------------------------------------------
Init ==
  /\ connect = "idle"
  /\ link = "down"
  /\ context = [e \in Ends |-> IF e = Server THEN "running" ELSE "idle"]
  /\ sock = [e \in Ends |-> "unopened"]
  /\ closing = [e \in Ends |-> FALSE]
  /\ posted = [e \in Ends |-> <<>>]
  /\ outcome = [e \in Ends |-> <<>>]
  /\ writes = [e \in Ends |-> <<>>]
  /\ wire = [e \in Ends |-> <<>>]
  /\ reads = [e \in Ends |-> NoRead]
  /\ temp = [e \in Ends |-> [header |-> NoChunk, body |-> NoChunk]]
  /\ sent = [e \in Ends |-> <<>>]
  /\ received = [e \in Ends |-> <<>>]

-----------------------------------------------------------------------------
(* Connecting.                                                             *)

\* BaseClient::ConnectToServer: async_connect opens the socket, Start() the thread
ConnectToServer ==
  /\ connect = "idle"
  /\ connect' = "pending"
  /\ sock' = [sock EXCEPT ![Client] = "open"]
  /\ context' = [context EXCEPT ![Client] = "running"]
  /\ UNCHANGED <<link, closing, posted, outcome, writes, wire, reads, temp,
                 sent, received>>

\* The operating system completes the handshake ...
Establish ==
  /\ connect = "pending" /\ IsConnected(Client)
  /\ connect' = "established"
  /\ link' = "up"
  /\ UNCHANGED <<context, sock, closing, posted, outcome, writes, wire, reads,
                 temp, sent, received>>

\* ... or the connect fails, by a refusal or because the socket was closed
Refuse ==
  /\ connect = "pending"
  /\ connect' = "refused"
  /\ UNCHANGED <<link, context, sock, closing, posted, outcome, writes, wire,
                 reads, temp, sent, received>>

\* The async_connect handler of ClientConnection::ConnectToServer
OnConnect ==
  /\ IsRunning(Client)
  /\ connect \in {"established", "refused"}
  /\ connect' = "finished"
  /\ reads' = IF connect = "established"
              THEN [reads EXCEPT ![Client] = Read("header")] ELSE reads
  /\ UNCHANGED <<link, context, sock, closing, posted, outcome, writes, wire,
                 temp, sent, received>>

\* The accept handler: AddNewConnection, then ServerConnection::ConnectToClient
OnAccept ==
  /\ IsRunning(Server)
  /\ link = "up" /\ sock[Server] = "unopened"
  /\ sock' = [sock EXCEPT ![Server] = "open"]
  /\ reads' = [reads EXCEPT ![Server] = Read("header")]
  /\ UNCHANGED <<connect, link, context, closing, posted, outcome, writes,
                 wire, temp, sent, received>>

-----------------------------------------------------------------------------
(* Sending.                                                                *)

\* Connection::SendMessage on a connected socket: post a handler to context_
SendMessage(e, size) ==
  /\ Len(sent[e]) < MaxSends[e]
  /\ IsConnected(e)
  /\ LET m == [id |-> Len(sent[e]) + 1, size |-> size]
     IN  /\ sent' = [sent EXCEPT ![e] = Append(@, m)]
         /\ posted' = [posted EXCEPT ![e] = Append(@, m)]
  /\ UNCHANGED <<connect, link, context, sock, closing, outcome, writes, wire,
                 reads, temp, received>>

\* The handler SendMessage posted
RunSend(e) ==
  /\ IsRunning(e) /\ posted[e] # <<>>
  /\ posted' = [posted EXCEPT ![e] = Tail(@)]
  /\ outcome' = [outcome EXCEPT ![e] = Append(@, Head(posted[e]))]
  /\ writes' = IF StartsWriting(e)
               THEN [writes EXCEPT ![e] =
                       Append(@, WriteOf("header", outcome'[e]))]
               ELSE writes
  /\ UNCHANGED <<connect, link, context, sock, closing, wire, reads, temp,
                 sent, received>>

\* The operating system takes the bytes of an async_write ...
TransferWrite(e) ==
  /\ IsConnected(e) /\ link = "up" /\ Len(wire[e]) < WireCap
  /\ \E i \in DOMAIN writes[e] :
       /\ writes[e][i].status = "issued"
       /\ writes' = [writes EXCEPT ![e][i] = Ended(@, "done")]
       /\ wire' = [wire EXCEPT ![e] =
                     Append(@, [part |-> writes[e][i].part,
                                msg |-> writes[e][i].msg])]
  /\ UNCHANGED <<connect, link, context, sock, closing, posted, outcome, reads,
                 temp, sent, received>>

\* ... or fails it: socket closed here or by the peer, not connected, reset
FailWrite(e) ==
  /\ ~IsConnected(e) \/ link # "up" \/ sock[Peer(e)] = "closed"
  /\ \E i \in DOMAIN writes[e] :
       /\ writes[e][i].status = "issued"
       /\ writes' = [writes EXCEPT ![e][i] = Ended(@, "error")]
  /\ UNCHANGED <<connect, link, context, sock, closing, posted, outcome, wire,
                 reads, temp, sent, received>>

\* The WriteMessageHeader handler, no error
HeaderWritten(e) ==
  /\ IsRunning(e)
  /\ \E i \in DOMAIN writes[e] :
       /\ writes[e][i].part = "header" /\ writes[e][i].status = "done"
       /\ outcome' = [outcome EXCEPT ![e] = QueueAfterHeader(@)]
       /\ writes' = [writes EXCEPT ![e] =
                       RemoveAt(@, i) \o WriteAfterHeader(outcome[e])]
  /\ UNCHANGED <<connect, link, context, sock, closing, posted, wire, reads,
                 temp, sent, received>>

\* The WriteMessageBody handler, no error
BodyWritten(e) ==
  /\ IsRunning(e)
  /\ \E i \in DOMAIN writes[e] :
       /\ writes[e][i].part = "body" /\ writes[e][i].status = "done"
       /\ outcome' = [outcome EXCEPT ![e] = Tail(@)]
       /\ writes' = [writes EXCEPT ![e] =
                       RemoveAt(@, i) \o WriteNext(Tail(outcome[e]))]
  /\ UNCHANGED <<connect, link, context, sock, closing, posted, wire, reads,
                 temp, sent, received>>

\* Either write handler with an error: close, and leave the queue as it is
WriteFailed(e) ==
  /\ IsRunning(e)
  /\ \E i \in DOMAIN writes[e] :
       /\ writes[e][i].status = "error"
       /\ writes' = [writes EXCEPT ![e] = RemoveAt(@, i)]
  /\ CloseSocket(e)
  /\ UNCHANGED <<connect, context, closing, posted, outcome, wire, reads, temp,
                 sent, received>>

-----------------------------------------------------------------------------
(* Receiving.                                                              *)

\* The operating system fills the buffer of the outstanding async_read ...
TransferRead(e) ==
  /\ reads[e].part # "none" /\ reads[e].status = "issued"
  /\ IsConnected(e) /\ link = "up" /\ wire[Peer(e)] # <<>>
  /\ wire' = [wire EXCEPT ![Peer(e)] = Tail(@)]
  /\ temp' = IF reads[e].part = "header"
             THEN [temp EXCEPT ![e] = [header |-> Head(wire[Peer(e)]), body |-> @.body]]
             ELSE [temp EXCEPT ![e] = [header |-> @.header, body |-> Head(wire[Peer(e)])]]
  /\ reads' = [reads EXCEPT ![e] = [part |-> @.part, status |-> "done"]]
  /\ UNCHANGED <<connect, link, context, sock, closing, posted, outcome,
                 writes, sent, received>>

\* ... or fails it: socket closed here, link reset, or end of file
FailRead(e) ==
  /\ reads[e].part # "none" /\ reads[e].status = "issued"
  /\ \/ ~IsConnected(e)
     \/ link = "reset"
     \/ sock[Peer(e)] = "closed" /\ wire[Peer(e)] = <<>>
  /\ reads' = [reads EXCEPT ![e] = [part |-> @.part, status |-> "error"]]
  /\ UNCHANGED <<connect, link, context, sock, closing, posted, outcome,
                 writes, wire, temp, sent, received>>

\* The ReadMessageHeader handler, no error
HeaderRead(e) ==
  /\ IsRunning(e)
  /\ reads[e] = [part |-> "header", status |-> "done"]
  /\ reads' = [reads EXCEPT ![e] = ReadAfterHeader(temp[e].header)]
  /\ IF temp[e].header.msg.size = 0 THEN AddNewMessage(e) ELSE UNCHANGED received
  /\ UNCHANGED <<connect, link, context, sock, closing, posted, outcome,
                 writes, wire, temp, sent>>

\* The ReadMessageBody handler, no error
BodyRead(e) ==
  /\ IsRunning(e)
  /\ reads[e] = [part |-> "body", status |-> "done"]
  /\ AddNewMessage(e)
  /\ reads' = [reads EXCEPT ![e] = ReadAfterBody]
  /\ UNCHANGED <<connect, link, context, sock, closing, posted, outcome,
                 writes, wire, temp, sent>>

\* Either read handler with an error
ReadFailed(e) ==
  /\ IsRunning(e)
  /\ reads[e].part # "none" /\ reads[e].status = "error"
  /\ reads' = [reads EXCEPT ![e] = NoRead]
  /\ CloseSocket(e)
  /\ UNCHANGED <<connect, context, closing, posted, outcome, writes, wire,
                 temp, sent, received>>

-----------------------------------------------------------------------------
(* Stopping and failing.                                                   *)

\* The first call of BaseServer::Stop and BaseClient::Disconnect:
\* Connection::Disconnect posts the close to the system executor ...
Disconnect(e) ==
  /\ context[e] = "running"
  /\ context' = [context EXCEPT ![e] = "stopping"]
  /\ closing' = [closing EXCEPT ![e] = sock[e] # "unopened"]
  /\ UNCHANGED <<connect, link, sock, posted, outcome, writes, wire, reads,
                 temp, sent, received>>

\* ... and their second: context_.stop(), after which no handler starts
StopContext(e) ==
  /\ context[e] = "stopping"
  /\ context' = [context EXCEPT ![e] = "stopped"]
  /\ UNCHANGED <<connect, link, sock, closing, posted, outcome, writes, wire,
                 reads, temp, sent, received>>

\* The handler Connection::Disconnect posted
RunClose(e) ==
  /\ closing[e]
  /\ closing' = [closing EXCEPT ![e] = FALSE]
  /\ CloseSocket(e)
  /\ UNCHANGED <<connect, context, posted, outcome, writes, wire, reads, temp,
                 sent, received>>

\* The network breaks the link
Reset ==
  /\ link = "up"
  /\ link' = "reset"
  /\ UNCHANGED <<connect, context, sock, closing, posted, outcome, writes,
                 wire, reads, temp, sent, received>>

-----------------------------------------------------------------------------
IoThread(e) ==
  \/ RunSend(e) \/ HeaderWritten(e) \/ BodyWritten(e) \/ WriteFailed(e)
  \/ HeaderRead(e) \/ BodyRead(e) \/ ReadFailed(e)

Next ==
  \/ ConnectToServer \/ Establish \/ Refuse \/ OnConnect \/ OnAccept \/ Reset
  \/ \E e \in Ends :
       \/ \E size \in Sizes : SendMessage(e, size)
       \/ IoThread(e)
       \/ TransferWrite(e) \/ FailWrite(e) \/ TransferRead(e) \/ FailRead(e)
       \/ Disconnect(e) \/ StopContext(e) \/ RunClose(e)

Spec == Init /\ [][Next]_vars

\* A running io_context executes every ready handler, the system executor runs
\* what is posted to it, and the operating system completes what it can.  No
\* fairness is assumed of the program, of Disconnect or of Reset.
Fairness ==
  /\ WF_vars(Establish \/ Refuse) /\ WF_vars(OnConnect) /\ WF_vars(OnAccept)
  /\ \A e \in Ends :
       /\ WF_vars(RunSend(e))
       /\ WF_vars(HeaderWritten(e) \/ BodyWritten(e) \/ WriteFailed(e))
       /\ WF_vars(HeaderRead(e) \/ BodyRead(e) \/ ReadFailed(e))
       /\ WF_vars(TransferWrite(e) \/ FailWrite(e))
       /\ WF_vars(TransferRead(e) \/ FailRead(e))
       /\ WF_vars(RunClose(e))

FairSpec == Spec /\ Fairness

-----------------------------------------------------------------------------
TypeOK ==
  /\ connect \in {"idle", "pending", "established", "refused", "finished"}
  /\ link \in {"down", "up", "reset"}
  /\ context \in [Ends -> {"idle", "running", "stopping", "stopped"}]
  /\ sock \in [Ends -> {"unopened", "open", "closed"}]
  /\ closing \in [Ends -> BOOLEAN]
  /\ posted \in [Ends -> Seq(Message)]
  /\ outcome \in [Ends -> Seq(Message)]
  /\ writes \in [Ends -> Seq([part : {"header", "body"}, msg : Message,
                              status : Status])]
  /\ wire \in [Ends -> Seq(Chunk)]
  /\ reads \in [Ends -> [part : {"none", "header", "body"}, status : Status]]
  /\ temp \in [Ends -> [header : Chunk \cup {NoChunk},
                        body : Chunk \cup {NoChunk}]]
  /\ sent \in [Ends -> Seq(Message)]
  /\ received \in [Ends -> Seq([header : Chunk,
                                body : Chunk \cup {NoChunk}])]
-----------------------------------------------------------------------------
(* What makes the link correct.                                            *)

\* At most one async_write of a socket is outstanding.  async_write is composed
\* of several writes, so a second one would mix its bytes into the first; the
\* only thing that prevents it is that SendMessage's handler starts a write on
\* an empty queue only, and that a handler pops before it writes the next.
OneWritePerSocket == \A e \in Ends : Len(writes[e]) <= 1

\* The buffer of an outstanding write is a part of outcome_messages_.front():
\* no handler pops that message before the write's own handler has run.
WriteBufferStable ==
  \A e \in Ends : \A i \in DOMAIN writes[e] :
    outcome[e] # <<>> /\ writes[e][i].msg = Head(outcome[e])

\* While the socket is open a message in outcome_messages_ has a write under
\* way: nothing else would ever start one, as SendMessage only starts a write
\* when the queue is empty.
NoStuckQueue ==
  \A e \in Ends : IsConnected(e) /\ outcome[e] # <<>> => writes[e] # <<>>

\* The end whose handlers have started reading
Reading(e) ==
  IF e = Client THEN connect = "finished" /\ link # "down"
                ELSE sock[e] # "unopened"

\* An open socket always has a read outstanding, so that the next message, the
\* end of file or the reset of the link is noticed.
ReadArmed ==
  \A e \in Ends : IsConnected(e) /\ Reading(e) => reads[e].part # "none"

\* What the body of temp_message_ is after the i-th message: nothing clears it, so
\* it is the body of the last of them that had one
LastBody(body, messages, i) ==
  \/ body = NoChunk /\ \A k \in 1..i : messages[k].size = 0
  \/ \E k \in 1..i :
       /\ messages[k].size # 0 /\ body = [part |-> "body", msg |-> messages[k]]
       /\ \A j \in (k + 1)..i : messages[j].size = 0

\* The i-th message pushed to income_messages_ is the i-th message handed to
\* SendMessage at the other end: it has its header, and its own body if it has one.
\* Header and body reads never slip against the headers and bodies written, across
\* any number of messages of both kinds, and whatever fails.  A message WITHOUT a
\* body is not delivered as it was sent: it comes with the body of the last message
\* before it that had one, as temp_message_ is pushed as it is; with no body at all
\* only if there was no such message.  The comments of connection.hpp (lines 61
\* and 106) say that bodies are never empty, which excludes the case; its code
\* (lines 68 and 113) handles it.
DeliveredInOrder ==
  \A e \in Ends : \A i \in DOMAIN received[e] :
    /\ i <= Len(sent[Peer(e)])
    /\ received[e][i].header = [part |-> "header", msg |-> sent[Peer(e)][i]]
    /\ LastBody(received[e][i].body, sent[Peer(e)], i)

\* The messages queued for the program at e
Arrived(e) == [i \in DOMAIN received[e] |-> received[e][i].header.msg]

\* With the asynchronous operations hidden, the link is a FIFO channel that
\* loses nothing but a suffix.
Channel == INSTANCE MessageChannel
             WITH arrived <- [e \in Ends |-> Arrived(e)],
                  Message <- [id : UNION {1..MaxSends[e] : e \in Ends},
                              size : Sizes]
ImplementsChannel == Channel!Spec

\* What may keep a message from arriving: the connect failed, the link was cut,
\* or an end closed its socket or was told to stop.
Broken ==
  \/ connect \in {"refused", "finished"} /\ link = "down"
  \/ link = "reset"
  \/ \E e \in Ends : sock[e] = "closed" \/ context[e] \in {"stopping", "stopped"}

\* Every message accepted by SendMessage arrives, or the link is broken; in
\* particular two ends that fill each other's socket buffers do not block.
EventuallyDelivered ==
  \A e \in Ends : \A n \in 1..MaxSends[e] :
    Len(sent[e]) >= n ~> (Len(received[Peer(e)]) >= n \/ Broken)

\* An end whose peer closed, or whose link was reset, comes to close its own
\* socket (unless it is stopped), so that IsConnected tells the program.
DisconnectNoticed ==
  \A e \in Ends :
    sock[Peer(e)] = "closed" \/ link = "reset"
      ~> (~IsConnected(e) \/ ~IsRunning(e))

-----------------------------------------------------------------------------
(* The inductive invariant behind the safety properties: where each chunk  *)
(* stands in the stream of headers and bodies an end has to write.         *)

\* The place of a header or body in its end's stream, and of what follows it
Position(chunk) == 2 * chunk.msg.id + (IF chunk.part = "body" THEN 1 ELSE 0)
PositionAfter(chunk) ==
  IF chunk.part = "header" /\ chunk.msg.size # 0
    THEN Position(chunk) + 1 ELSE 2 * chunk.msg.id + 2

\* How many messages of e have left its outcome_messages_
Popped(e) == Len(sent[e]) - Len(posted[e]) - Len(outcome[e])

\* Posted handlers and the queue hold the last messages sent, in order
InOrder(messages, handlers, queue) ==
  LET popped == Len(messages) - Len(handlers) - Len(queue)
  IN  /\ popped >= 0
      /\ \A i \in DOMAIN messages : messages[i].id = i
      /\ \A i \in DOMAIN queue : queue[i] = messages[popped + i]
      /\ \A i \in DOMAIN handlers : handlers[i] = messages[popped + Len(queue) + i]
SendOrder(e) == InOrder(sent[e], posted[e], outcome[e])

\* At most one write, of the front of the queue; none left idle on an open socket
WriteChain(e) ==
  /\ writes[e] # <<>> =>
       /\ Len(writes[e]) = 1 /\ outcome[e] # <<>>
       /\ writes[e][1].msg = outcome[e][1]
       /\ writes[e][1].part = "body" => outcome[e][1].size # 0
  /\ IsConnected(e) /\ outcome[e] # <<>> => writes[e] # <<>>

\* An end that has not opened its socket has done nothing
Untouched(e) ==
  sock[e] = "unopened" =>
    /\ ~closing[e] /\ sent[e] = <<>> /\ posted[e] = <<>> /\ outcome[e] = <<>>
    /\ writes[e] = <<>>

\* Reading has not begun
NotStarted(e) == IF e = Client THEN connect # "finished" ELSE sock[e] = "unopened"

\* A body has been read, and is not delivered yet
BodyIsRead(e) == reads[e].part = "body" /\ reads[e].status = "done"

\* What the buffers of the outstanding read hold
ReadBuffers(e) ==
  LET stream == sent[Peer(e)]
      n == Len(received[e]) + 1
      Header == [part |-> "header", msg |-> stream[n]]
  IN  /\ reads[e].part = "none" => reads[e].status = "done"
      /\ NotStarted(e) => reads[e].part = "none" /\ received[e] = <<>>
      /\ reads[e].part = "header" /\ reads[e].status = "done" =>
           n <= Len(stream) /\ temp[e].header = Header
      /\ reads[e].part = "body" =>
           n <= Len(stream) /\ temp[e].header = Header /\ stream[n].size # 0
      /\ BodyIsRead(e) => temp[e].body = [part |-> "body", msg |-> stream[n]]

\* Until the next body has been read, temp_message_ keeps the last one delivered
KeepsBody(e) ==
  ~BodyIsRead(e) =>
    /\ Len(received[e]) <= Len(sent[Peer(e)])
    /\ LastBody(temp[e].body, sent[Peer(e)], Len(received[e]))

\* An end that can still write has the stream from ToWrite(e) on to write
CanWrite(e) == outcome[e] = <<>> \/ (writes[e] # <<>> /\ writes[e][1].status # "error")
ToWrite(e) ==
  IF outcome[e] = <<>> THEN 2 * Popped(e) + 2
  ELSE IF writes[e][1].status = "issued" THEN Position(writes[e][1])
  ELSE PositionAfter(writes[e][1])

\* An end that can still read has the stream from ToRead(e) on to read
CanRead(e) == reads[e].status # "error" /\ (reads[e].part = "none" => NotStarted(e))
ToRead(e) ==
  LET n == Len(received[e]) + 1
  IN  IF reads[e].part = "none" THEN 2
      ELSE IF reads[e].status = "issued"
             THEN 2 * n + (IF reads[e].part = "body" THEN 1 ELSE 0)
      ELSE IF reads[e].part = "header" /\ temp[e].header.msg.size # 0
             THEN 2 * n + 1 ELSE 2 * n + 2

\* Chunks of messages that were sent, each after the one it follows
Consecutive(chunks, messages) ==
  /\ \A i \in DOMAIN chunks : /\ chunks[i].msg.id <= Len(messages)
                             /\ chunks[i].msg = messages[chunks[i].msg.id]
  /\ \A i \in 1..(Len(chunks) - 1) :
       Position(chunks[i + 1]) = PositionAfter(chunks[i])

\* The wire holds the stream between what is read and what is to be written
WireOrder(e) ==
  LET w == wire[e]
  IN  /\ Consecutive(w, sent[e])
      /\ w # <<>> /\ CanWrite(e) => PositionAfter(w[Len(w)]) = ToWrite(e)
      /\ w # <<>> /\ CanRead(Peer(e)) => Position(w[1]) = ToRead(Peer(e))
      /\ w = <<>> /\ CanWrite(e) /\ CanRead(Peer(e)) =>
           ToWrite(e) = ToRead(Peer(e))

\* How far the connect is, as the socket and the link show it
LinkState ==
  /\ connect = "idle" <=> sock[Client] = "unopened"
  /\ connect \in {"idle", "pending", "refused"} => link = "down"

StreamInv ==
  /\ TypeOK
  /\ LinkState
  /\ \A e \in Ends :
       /\ Untouched(e) /\ SendOrder(e) /\ WriteChain(e)
       /\ ReadBuffers(e) /\ KeepsBody(e) /\ WireOrder(e)
  /\ ReadArmed
  /\ DeliveredInOrder

=============================================================================
