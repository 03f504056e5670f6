------------------------------- MODULE NetProofs -------------------------------
(***************************************************************************)
(* Proofs about the two classes of namespace net a message passes through: *)
(* Connection, for any set of message sizes, any number of sends and any   *)
(* socket buffer, and ThreadSafeQueue, for any set of pushing threads and  *)
(* any number of pushes.  They share no variable.                          *)
(*                                                                         *)
(* StreamInv and QueueInv are inductive: the lemmas show that each action  *)
(* keeps them, and the theorems read the safety properties off them, and   *)
(* the refinements of MessageChannel and FifoQueue.                        *)
(***************************************************************************)
EXTENDS Connection, ThreadSafeQueue, SequenceTheorems, TLAPS

-----------------------------------------------------------------------------
(* The ends, and sequences.                                                *)

\* Each of the two ends is the other's peer.
LEMMA PeerFacts ==
  ASSUME NEW e \in Ends
  PROVE  Peer(e) \in Ends /\ Peer(e) # e /\ Peer(Peer(e)) = e
BY EndsAssumption DEF Ends, Peer

\* An element of a sequence is of the sequence's set, and its place is a number.
LEMMA ElementFacts ==
  ASSUME NEW S, NEW s \in Seq(S), NEW i \in DOMAIN s
  PROVE  s[i] \in S /\ i \in Nat \ {0}
OBVIOUS

\* Removing the only element of a sequence leaves nothing.
LEMMA RemoveOnly ==
  ASSUME NEW S, NEW s \in Seq(S), Len(s) = 1, NEW i \in DOMAIN s,
         NEW t \in Seq(S)
  PROVE  RemoveAt(s, i) = <<>> /\ RemoveAt(s, i) \o t = t
<1>1. i = 1
  OBVIOUS
<1>2. SubSeq(s, 1, 0) = <<>> /\ SubSeq(s, 2, 1) = <<>>
  OBVIOUS
<1>3. RemoveAt(s, i) = <<>>
  BY <1>1, <1>2 DEF RemoveAt
<1> QED BY <1>3

\* A sequence of one element.
LEMMA SingletonFacts ==
  ASSUME NEW x
  PROVE  Len(<<x>>) = 1 /\ <<x>>[1] = x /\ <<x>> # <<>>
OBVIOUS

\* The first element of a sequence.
LEMMA AppendEmpty ==
  ASSUME NEW x
  PROVE  Append(<<>>, x) = <<x>>
OBVIOUS

\* What Append does to the elements of a sequence.
LEMMA AppendFacts ==
  ASSUME NEW S, NEW s \in Seq(S), NEW x \in S
  PROVE  /\ Append(s, x) \in Seq(S) /\ Append(s, x) # <<>>
         /\ Len(s) \in Nat /\ DOMAIN s = 1..Len(s)
         /\ Len(Append(s, x)) = Len(s) + 1
         /\ DOMAIN Append(s, x) = 1..(Len(s) + 1)
         /\ \A i \in 1..Len(s) : Append(s, x)[i] = s[i]
         /\ Append(s, x)[Len(s) + 1] = x
BY AppendProperties, LenProperties

\* What Tail does to the elements of a sequence.
LEMMA TailFacts ==
  ASSUME NEW S, NEW s \in Seq(S), s # <<>>
  PROVE  /\ Tail(s) \in Seq(S) /\ Head(s) = s[1] /\ s[1] \in S /\ 1 \in DOMAIN s
         /\ Len(s) \in Nat \ {0} /\ DOMAIN s = 1..Len(s)
         /\ Len(Tail(s)) = Len(s) - 1
         /\ DOMAIN Tail(s) = 1..(Len(s) - 1)
         /\ \A i \in 1..(Len(s) - 1) : Tail(s)[i] = s[i + 1]
BY HeadTailProperties, LenProperties

\* SendMessage keeps the posted handlers and the queue in the order sent.
LEMMA InOrderSend ==
  ASSUME NEW s \in Seq(Message), NEW p \in Seq(Message), NEW o \in Seq(Message),
         InOrder(s, p, o), NEW m \in Message, m.id = Len(s) + 1
  PROVE  InOrder(Append(s, m), Append(p, m), o)
<1>1. Len(s) \in Nat /\ Len(p) \in Nat /\ Len(o) \in Nat
  OBVIOUS
<1>2. /\ Len(Append(s, m)) = Len(s) + 1 /\ Len(Append(p, m)) = Len(p) + 1
      /\ \A i \in 1..Len(s) : Append(s, m)[i] = s[i]
      /\ \A i \in 1..Len(p) : Append(p, m)[i] = p[i]
      /\ Append(s, m)[Len(s) + 1] = m /\ Append(p, m)[Len(p) + 1] = m
  BY AppendFacts
<1>3. /\ DOMAIN Append(s, m) = 1..(Len(s)+1) /\ DOMAIN Append(p, m) = 1..(Len(p)+1) /\ DOMAIN o = 1..Len(o)
      /\ DOMAIN s = 1..Len(s) /\ DOMAIN p = 1..Len(p)
  BY AppendFacts, LenProperties
<1> DEFINE s2 == Append(s, m)  p2 == Append(p, m) 
<1> HIDE DEF s2, p2
<1>4. Len(s2) - Len(p2) - Len(o) = Len(s) - Len(p) - Len(o)
  BY <1>1, <1>2 DEF s2, p2
<1>5. \A i \in DOMAIN s2 : s2[i].id = i
  BY <1>1, <1>2, <1>3 DEF InOrder, s2
<1>6. \A i \in DOMAIN o : o[i] = s2[Len(s) - Len(p) - Len(o) + i]
  BY <1>1, <1>2, <1>3 DEF InOrder, s2
<1>7. \A i \in DOMAIN p2 : p2[i] = s2[Len(s) - Len(p) + i]
  BY <1>1, <1>2, <1>3 DEF InOrder, s2, p2
<1>8. InOrder(s2, p2, o)
  BY SMTT(30), <1>1, <1>2, <1>4, <1>5, <1>6, <1>7 DEF InOrder, s2, p2
<1> QED BY <1>8 DEF s2, p2

\* So does the handler that moves the oldest message to the queue.
LEMMA InOrderRun ==
  ASSUME NEW s \in Seq(Message), NEW p \in Seq(Message), NEW o \in Seq(Message),
         InOrder(s, p, o), p # <<>>
  PROVE  InOrder(s, Tail(p), Append(o, Head(p)))
<1>1. Len(s) \in Nat /\ Len(p) \in Nat \ {0} /\ Len(o) \in Nat
  BY TailFacts
<1>2. /\ Len(Tail(p)) = Len(p) - 1
      /\ \A i \in 1..(Len(p) - 1) : Tail(p)[i] = p[i + 1]
      /\ DOMAIN Tail(p) = 1..(Len(p) - 1) /\ DOMAIN p = 1..Len(p) /\ Head(p) \in Message /\ Head(p) = p[1]
  BY TailFacts
<1>3. /\ Len(Append(o, Head(p))) = Len(o) + 1 
      /\ \A i \in 1..Len(o) : Append(o, Head(p))[i] = o[i] /\ Append(o, Head(p))[Len(o) + 1] = Head(p)
      /\ DOMAIN Append(o, Head(p)) = 1..(Len(o) + 1) /\ DOMAIN o = 1..Len(o)
  BY <1>2, AppendFacts
<1> DEFINE p2 == Tail(p)  o2 == Append(o, Head(p))
<1> HIDE DEF p2, o2
<1>4. Len(s) - Len(p2) - Len(o2) = Len(s) - Len(p) - Len(o)
  BY <1>1, <1>2, <1>3 DEF p2, o2
<1>5. \A i \in DOMAIN o2 : o2[i] = s[Len(s) - Len(p) - Len(o) + i]
  <2> SUFFICES ASSUME NEW i \in 1..(Len(o) + 1)
               PROVE  o2[i] = s[Len(s) - Len(p) - Len(o) + i]
    BY <1>3 DEF o2
  <2>1. CASE i \in 1..Len(o)
    BY <1>1, <1>3, <2>1 DEF InOrder, o2
  <2>2. CASE i = Len(o) + 1
    <3>1. p[1] = s[Len(s) - Len(p) - Len(o) + Len(o) + 1]
      BY SMTT(30), <1>1, <1>2 DEF InOrder
    <3> QED BY <1>1, <1>2, <1>3, <2>2, <3>1 DEF o2
  <2> QED BY <1>1, <2>1, <2>2
<1>6. \A i \in DOMAIN p2 : p2[i] = s[Len(s) - Len(p) - Len(o) + Len(o2) + i]
  <2> SUFFICES ASSUME NEW i \in 1..(Len(p) - 1)
               PROVE  p2[i] = s[Len(s) - Len(p) - Len(o) + Len(o2) + i]
    BY <1>2 DEF p2
  <2>1. p[i + 1] = s[Len(s) - Len(p) - Len(o) + Len(o) + (i + 1)]
    <3>1. i + 1 \in DOMAIN p
      BY <1>1, <1>2
    <3>2. \A j \in DOMAIN p : p[j] = s[Len(s) - Len(p) - Len(o) + Len(o) + j]
      BY DEF InOrder
    <3> QED BY <3>1, <3>2
  <2> QED BY <1>1, <1>2, <1>3, <2>1 DEF p2, o2
<1>7. InOrder(s, p2, o2)
  BY <1>1, <1>4, <1>5, <1>6 DEF InOrder
<1> QED BY <1>7 DEF p2, o2

\* So does popping the queue.
LEMMA InOrderPop ==
  ASSUME NEW s \in Seq(Message), NEW p \in Seq(Message), NEW o \in Seq(Message),
         InOrder(s, p, o), o # <<>>
  PROVE  InOrder(s, p, Tail(o))
<1>1. Len(s) \in Nat /\ Len(p) \in Nat /\ Len(o) \in Nat \ {0}
  BY TailFacts
<1>2. /\ Len(Tail(o)) = Len(o) - 1
      /\ \A i \in 1..(Len(o) - 1) : Tail(o)[i] = o[i + 1]
      /\ DOMAIN Tail(o) = 1..(Len(o) - 1) /\ DOMAIN o = 1..Len(o)
  BY TailFacts
<1> QED BY SMTT(30), <1>1, <1>2 DEF InOrder

\* Sending more does not disturb the chunks on the wire.
LEMMA ConsecutiveSent ==
  ASSUME NEW w \in Seq(Chunk), NEW s \in Seq(Message), NEW m \in Message, Consecutive(w, s)
  PROVE  Consecutive(w, Append(s, m))
<1>1. \A i \in DOMAIN w : w[i].msg.id \in Nat \ {0}
  <2> SUFFICES ASSUME NEW i \in DOMAIN w PROVE w[i].msg.id \in Nat \ {0}
    OBVIOUS
  <2>1. w[i] \in Chunk
    BY ElementOfSeq
  <2> QED BY <2>1 DEF Chunk, Message
<1> QED BY <1>1, AppendFacts DEF Consecutive

\* Writing the chunk that follows the last one keeps the wire consecutive.
LEMMA ConsecutiveAppend ==
  ASSUME NEW w \in Seq(Chunk), NEW s \in Seq(Message), NEW c \in Chunk, Consecutive(w, s),
         c.msg.id <= Len(s), c.msg = s[c.msg.id], w # <<>> => Position(c) = PositionAfter(w[Len(w)])
  PROVE  Consecutive(Append(w, c), s)
<1>1. /\ Len(w) \in Nat /\ DOMAIN w = 1..Len(w)
      /\ Len(Append(w, c)) = Len(w) + 1
      /\ DOMAIN Append(w, c) = 1..(Len(w) + 1)
      /\ \A i \in 1..Len(w) : Append(w, c)[i] = w[i]
      /\ Append(w, c)[Len(w) + 1] = c /\ (w # <<>> <=> Len(w) # 0)
  BY AppendFacts
<1> DEFINE w2 == Append(w, c)
<1> HIDE DEF w2
<1>2. \A i \in DOMAIN w2 : w2[i].msg.id <= Len(s) /\ w2[i].msg = s[w2[i].msg.id]
  BY <1>1 DEF Consecutive, w2
<1>3. ASSUME NEW i \in 1..(Len(w2) - 1) PROVE Position(w2[i + 1]) = PositionAfter(w2[i])
  BY <1>1 DEF Consecutive, w2
<1> QED BY <1>2, <1>3 DEF Consecutive, w2

\* Reading the first chunk does, too, and makes the one after it the first.
LEMMA ConsecutiveTail ==
  ASSUME NEW w \in Seq(Chunk), NEW s \in Seq(Message), Consecutive(w, s), w # <<>>
  PROVE  /\ Consecutive(Tail(w), s)
         /\ Tail(w) # <<>> => Position(Tail(w)[1]) = PositionAfter(w[1]) /\ Tail(w)[Len(Tail(w))] = w[Len(w)]
         /\ Tail(w) = <<>> => w[Len(w)] = w[1]
<1>1. /\ Len(w) \in Nat \ {0} /\ DOMAIN w = 1..Len(w)
         /\ Len(Tail(w)) = Len(w) - 1
         /\ DOMAIN Tail(w) = 1..(Len(w) - 1)
         /\ \A i \in 1..(Len(w) - 1) : Tail(w)[i] = w[i + 1]
         /\ Tail(w) \in Seq(Chunk) /\ (Tail(w) = <<>> <=> Len(Tail(w)) = 0)
  BY TailFacts, EmptySeq
<1> QED BY <1>1 DEF Consecutive

\* The front of the queue is the first message not popped.
LEMMA FrontMessage ==
  ASSUME NEW s \in Seq(Message), NEW p \in Seq(Message), NEW o \in Seq(Message),
         InOrder(s, p, o), o # <<>>
  PROVE  /\ Head(o).id = Len(s) - Len(p) - Len(o) + 1
         /\ Head(o).id \in 1..Len(s) /\ Head(o) = s[Head(o).id]
<1>1. /\ Len(s) \in Nat /\ Len(p) \in Nat /\ Len(o) \in Nat \ {0}
      /\ Head(o) = o[1] /\ 1 \in DOMAIN o /\ DOMAIN s = 1..Len(s)
  BY TailFacts
<1> DEFINE k == Len(s) - Len(p) - Len(o) + 1
<1>2. o[1] = s[k] /\ k \in 1..Len(s)
  BY SMTT(30), <1>1 DEF InOrder
<1>3. s[k].id = k
  BY <1>1, <1>2 DEF InOrder
<1> QED BY <1>1, <1>2, <1>3

\* If the queue is empty, the first message not popped is posted.
LEMMA FirstPosted ==
  ASSUME NEW s \in Seq(Message), NEW p \in Seq(Message), NEW o \in Seq(Message),
         InOrder(s, p, o), p # <<>>, o = <<>>
  PROVE  Head(p).id = Len(s) - Len(p) - Len(o) + 1
<1>1. InOrder(s, Tail(p), Append(o, Head(p))) /\ Head(p) \in Message
  BY ZenonT(40), InOrderRun, TailFacts
<1>2. Append(o, Head(p)) = <<Head(p)>> /\ <<Head(p)>> \in Seq(Message)
  BY <1>1, AppendEmpty
<1>3. Tail(p) \in Seq(Message) /\ Len(Tail(p)) = Len(p) - 1 /\ Len(p) \in Nat
      /\ Len(s) \in Nat
  BY TailFacts, LenProperties
<1>4. Head(<<Head(p)>>).id = Len(s) - Len(Tail(p)) - 1 + 1
  BY ZenonT(40), <1>1, <1>2, <1>3, FrontMessage, SingletonFacts
<1>5. Head(<<Head(p)>>) = Head(p) /\ Len(o) = 0
  BY <1>2
<1> QED BY <1>3, <1>4, <1>5

\* After a pop, the new front is the message after the one popped.
LEMMA FrontAfterPop ==
  ASSUME NEW s \in Seq(Message), NEW p \in Seq(Message), NEW o \in Seq(Message),
         InOrder(s, p, o), o # <<>>
  PROVE  /\ InOrder(s, p, Tail(o))
         /\ Head(o).id \in Nat
         /\ Len(s) - Len(p) - Len(Tail(o)) = Head(o).id
         /\ Tail(o) # <<>> => Tail(o)[1].id = Head(o).id + 1
<1> DEFINE rest == Tail(o)
<1>1. InOrder(s, p, rest) /\ rest \in Seq(Message)
  BY InOrderPop, TailFacts
<1>2. /\ Head(o).id = Len(s) - Len(p) - Len(o) + 1 /\ Head(o).id \in 1..Len(s)
      /\ Len(s) \in Nat /\ Len(p) \in Nat /\ Len(o) \in Nat
      /\ Len(rest) = Len(o) - 1
  BY FrontMessage, TailFacts, LenProperties
<1>3. Len(s) - Len(p) - Len(rest) = Head(o).id
  BY <1>2
<1>4. ASSUME rest # <<>> PROVE rest[1].id = Len(s) - Len(p) - Len(rest) + 1
  <2>1. Head(rest).id = Len(s) - Len(p) - Len(rest) + 1
    BY <1>1, <1>4, FrontMessage
  <2> QED BY <1>1, <1>4, <2>1, TailFacts
<1> QED BY <1>1, <1>2, <1>3, <1>4

-----------------------------------------------------------------------------
(* Steps that leave a part of the state alone.                             *)

\* SendOrder speaks of the messages sent, posted and queued only.
LEMMA SendOrderFrame ==
  ASSUME NEW f \in Ends, SendOrder(f),
         UNCHANGED <<sent[f], posted[f], outcome[f]>>
  PROVE  SendOrder(f)'
BY DEF SendOrder, InOrder

\* DeliveredInOrder speaks of the messages sent and received only.
LEMMA DeliveredFrame ==
  ASSUME DeliveredInOrder, UNCHANGED <<sent, received>>
  PROVE  DeliveredInOrder'
BY DEF DeliveredInOrder

\* The wire stays in order if its ends do not move.
LEMMA WireFrame ==
  ASSUME NEW f \in Ends, WireOrder(f), wire'[f] = wire[f],
         Consecutive(wire[f], sent'[f]),
         CanWrite(f)' => CanWrite(f) /\ ToWrite(f)' = ToWrite(f),
         CanRead(Peer(f))' =>
           CanRead(Peer(f)) /\ ToRead(Peer(f))' = ToRead(Peer(f))
  PROVE  WireOrder(f)'
<1>1. Consecutive(wire[f], sent[f])'
  BY DEF Consecutive, Position, PositionAfter
<1> QED BY <1>1 DEF WireOrder, Position, PositionAfter

\* What an end has to write depends on its queues and its write only.
LEMMA WriterFrame ==
  ASSUME NEW f \in Ends,
         UNCHANGED <<sent[f], posted[f], outcome[f], writes[f]>>
  PROVE  CanWrite(f)' = CanWrite(f) /\ ToWrite(f)' = ToWrite(f)
BY DEF CanWrite, ToWrite, Position, PositionAfter, Popped

\* What an end has to read depends on its read and its buffers only.
LEMMA ReaderFrame ==
  ASSUME NEW f \in Ends, UNCHANGED <<reads, temp, received>>,
         NotStarted(f)' => NotStarted(f)
  PROVE  CanRead(f)' => CanRead(f) /\ ToRead(f)' = ToRead(f)
BY DEF CanRead, ToRead

\* The last body stays as long as neither it nor what is delivered changes.
LEMMA BodyFrame ==
  ASSUME NEW f \in Ends, KeepsBody(f), BodyIsRead(f) => BodyIsRead(f)',
         UNCHANGED <<sent, received[f], temp[f]>>
  PROVE  KeepsBody(f)'
BY DEF KeepsBody, LastBody

\* The steps of connecting, stopping and failing move nothing of the stream:
\* it is enough that they keep the state of the sockets and reads consistent.
LEMMA ControlFrame ==
  ASSUME StreamInv,
         UNCHANGED <<posted, outcome, writes, wire, temp, sent, received>>,
         TypeOK', LinkState', ReadArmed',
         \A f \in Ends : Untouched(f)' /\ WriteChain(f)' /\ ReadBuffers(f)',
         \A f \in Ends : CanRead(f)' => CanRead(f) /\ ToRead(f)' = ToRead(f),
         \A f \in Ends : BodyIsRead(f) => BodyIsRead(f)'
  PROVE  StreamInv'
<1>1. ASSUME NEW f \in Ends PROVE SendOrder(f)' /\ KeepsBody(f)'
  BY SendOrderFrame, BodyFrame DEF StreamInv
<1>2. ASSUME NEW f \in Ends PROVE WireOrder(f)'
  <2>1. WireOrder(f) /\ Consecutive(wire[f], sent[f])
    BY DEF StreamInv, WireOrder
  <2> QED BY <2>1, PeerFacts, WriterFrame, WireFrame
<1>3. DeliveredInOrder'
  BY DeliveredFrame DEF StreamInv
<1> QED BY <1>1, <1>2, <1>3 DEF StreamInv

\* The steps of sending leave the reads and the wire alone.
LEMMA WriteFrame ==
  ASSUME StreamInv, UNCHANGED <<connect, reads, temp, received, wire, sent>>,
         \A f \in Ends : sock[f]' = "unopened" <=> sock[f] = "unopened",
         \A f \in Ends : sock[f]' = "open" => sock[f] = "open",
         link' = "down" <=> link = "down",
         TypeOK',
         \A f \in Ends : Untouched(f)' /\ SendOrder(f)' /\ WriteChain(f)',
         \A f \in Ends : CanWrite(f)' => CanWrite(f) /\ ToWrite(f)' = ToWrite(f)
  PROVE  StreamInv'
<1>1. LinkState'
  BY DEF StreamInv, LinkState, Ends
<1>2. ASSUME NEW f \in Ends PROVE ReadBuffers(f)' /\ KeepsBody(f)'
  <2>1. ReadBuffers(f)'
    BY PeerFacts DEF StreamInv, ReadBuffers, BodyIsRead, NotStarted
  <2>2. KeepsBody(f)'
    BY BodyFrame DEF StreamInv, BodyIsRead
  <2> QED BY <2>1, <2>2
<1>3. ASSUME NEW f \in Ends PROVE CanRead(f)' => CanRead(f) /\ ToRead(f)' = ToRead(f)
  BY ReaderFrame DEF NotStarted
<1>4. ASSUME NEW f \in Ends PROVE WireOrder(f)'
  <2>1. WireOrder(f) /\ Consecutive(wire[f], sent[f])
    BY DEF StreamInv, WireOrder
  <2> QED BY <2>1, <1>3, PeerFacts, WireFrame
<1>5. ReadArmed'
  BY DEF StreamInv, ReadArmed, Reading, IsConnected
<1>6. DeliveredInOrder'
  BY DeliveredFrame DEF StreamInv
<1> QED BY <1>1, <1>2, <1>4, <1>5, <1>6 DEF StreamInv

-----------------------------------------------------------------------------
(* Connecting, stopping and failing.                                       *)

\* The first header read is the first thing an end has to read.
LEMMA FirstRead ==
  ASSUME StreamInv, NEW f \in Ends, NotStarted(f),
         reads'[f] = Read("header"), received' = received
  PROVE  CanRead(f) /\ ToRead(f)' = ToRead(f)
<1>0. ReadBuffers(f)
  BY DEF StreamInv
<1>1. reads[f].part = "none" /\ reads[f].status = "done" /\ received[f] = <<>>
  BY <1>0 DEF ReadBuffers, BodyIsRead
<1>2. CanRead(f) /\ ToRead(f) = 2
  BY <1>1 DEF CanRead, ToRead
<1>3. ToRead(f)' = 2
  BY <1>1 DEF ToRead, Read
<1> QED BY <1>2, <1>3

\* async_connect opens the socket of an end that has done nothing.
LEMMA ConnectToServerKeeps ==
  ASSUME StreamInv, ConnectToServer
  PROVE  StreamInv'
<1> USE DEF StreamInv, ConnectToServer
<1>1. TypeOK'
  BY DEF TypeOK, Ends, Status
<1>2. LinkState'
  BY EndsAssumption DEF TypeOK, Ends, LinkState, Untouched, IsConnected, ReadBuffers, BodyIsRead, NotStarted
<1>3. ASSUME NEW f \in Ends PROVE Untouched(f)' /\ WriteChain(f)'
  BY EndsAssumption DEF TypeOK, Ends, LinkState, Untouched, WriteChain, IsConnected
<1>4. ASSUME NEW f \in Ends PROVE ReadBuffers(f)'
  BY EndsAssumption, PeerFacts DEF TypeOK, ReadBuffers, BodyIsRead, NotStarted, Ends
<1>5. ASSUME NEW f \in Ends PROVE CanRead(f)' => CanRead(f) /\ ToRead(f)' = ToRead(f)
  <2>1. NotStarted(f)' => NotStarted(f)
    BY EndsAssumption DEF NotStarted, TypeOK, Ends, Untouched
  <2> QED BY <2>1, ReaderFrame
<1>6. ReadArmed'
  BY EndsAssumption DEF TypeOK, LinkState, ReadArmed, Reading, IsConnected, Ends, Untouched
<1>7. ASSUME NEW f \in Ends PROVE BodyIsRead(f) => BodyIsRead(f)'
  BY EndsAssumption DEF TypeOK, ReadBuffers, BodyIsRead, NotStarted, Ends
<1> QED BY <1>1, <1>2, <1>3, <1>4, <1>5, <1>6, <1>7, ControlFrame

\* The handshake changes no queue.
LEMMA EstablishKeeps ==
  ASSUME StreamInv, Establish
  PROVE  StreamInv'
<1> USE DEF StreamInv, Establish
<1>1. TypeOK'
  BY DEF TypeOK, Ends, Status
<1>2. LinkState'
  BY EndsAssumption DEF TypeOK, Ends, LinkState, Untouched, IsConnected, ReadBuffers, BodyIsRead, NotStarted
<1>3. ASSUME NEW f \in Ends PROVE Untouched(f)' /\ WriteChain(f)'
  BY DEF TypeOK, Untouched, WriteChain, IsConnected
<1>4. ASSUME NEW f \in Ends PROVE ReadBuffers(f)'
  BY EndsAssumption, PeerFacts DEF TypeOK, ReadBuffers, BodyIsRead, NotStarted, Ends
<1>5. ASSUME NEW f \in Ends PROVE CanRead(f)' => CanRead(f) /\ ToRead(f)' = ToRead(f)
  <2>1. NotStarted(f)' => NotStarted(f)
    BY EndsAssumption DEF NotStarted, TypeOK, Ends, Untouched
  <2> QED BY <2>1, ReaderFrame
<1>6. ReadArmed'
  BY EndsAssumption DEF TypeOK, LinkState, ReadArmed, Reading, IsConnected, Ends, Untouched
<1>7. ASSUME NEW f \in Ends PROVE BodyIsRead(f) => BodyIsRead(f)'
  BY EndsAssumption DEF TypeOK, ReadBuffers, BodyIsRead, NotStarted, Ends
<1> QED BY <1>1, <1>2, <1>3, <1>4, <1>5, <1>6, <1>7, ControlFrame

\* Nor does its failure.
LEMMA RefuseKeeps ==
  ASSUME StreamInv, Refuse
  PROVE  StreamInv'
<1> USE DEF StreamInv, Refuse
<1>1. TypeOK'
  BY DEF TypeOK, Ends, Status
<1>2. LinkState'
  BY EndsAssumption DEF TypeOK, Ends, LinkState, Untouched, IsConnected, ReadBuffers, BodyIsRead, NotStarted
<1>3. ASSUME NEW f \in Ends PROVE Untouched(f)' /\ WriteChain(f)'
  BY DEF TypeOK, Untouched, WriteChain, IsConnected
<1>4. ASSUME NEW f \in Ends PROVE ReadBuffers(f)'
  BY EndsAssumption, PeerFacts DEF TypeOK, ReadBuffers, BodyIsRead, NotStarted, Ends
<1>5. ASSUME NEW f \in Ends PROVE CanRead(f)' => CanRead(f) /\ ToRead(f)' = ToRead(f)
  <2>1. NotStarted(f)' => NotStarted(f)
    BY EndsAssumption DEF NotStarted, TypeOK, Ends, Untouched
  <2> QED BY <2>1, ReaderFrame
<1>6. ReadArmed'
  BY EndsAssumption DEF TypeOK, LinkState, ReadArmed, Reading, IsConnected, Ends, Untouched
<1>7. ASSUME NEW f \in Ends PROVE BodyIsRead(f) => BodyIsRead(f)'
  BY EndsAssumption DEF TypeOK, ReadBuffers, BodyIsRead, NotStarted, Ends
<1> QED BY <1>1, <1>2, <1>3, <1>4, <1>5, <1>6, <1>7, ControlFrame

\* The client starts reading at the first header, and only once.
LEMMA OnConnectKeeps ==
  ASSUME StreamInv, OnConnect
  PROVE  StreamInv'
<1> USE DEF StreamInv, OnConnect, Read, NoRead
<1>1. TypeOK'
  BY DEF TypeOK, Ends, Status
<1>2. LinkState'
  BY EndsAssumption DEF TypeOK, Ends, LinkState, Untouched, IsConnected, ReadBuffers, BodyIsRead, NotStarted
<1>3. ASSUME NEW f \in Ends PROVE Untouched(f)' /\ WriteChain(f)'
  BY DEF TypeOK, Untouched, WriteChain, IsConnected
<1>4. ASSUME NEW f \in Ends PROVE ReadBuffers(f)'
  BY EndsAssumption, PeerFacts DEF TypeOK, ReadBuffers, BodyIsRead, NotStarted, Ends
<1>5. ASSUME NEW f \in Ends PROVE CanRead(f)' => CanRead(f) /\ ToRead(f)' = ToRead(f)
  <2>1. CASE f = Client /\ connect = "established"
    <3>1. NotStarted(f) /\ reads'[f] = Read("header")
      BY EndsAssumption, <2>1 DEF NotStarted, TypeOK, Ends
    <3> QED BY <3>1, FirstRead
  <2>2. CASE ~(f = Client /\ connect = "established")
    <3>1. UNCHANGED <<reads[f], temp, received>> /\ (NotStarted(f)' => NotStarted(f))
      BY EndsAssumption, <2>2 DEF NotStarted, TypeOK, Ends
    <3> QED BY <3>1 DEF CanRead, ToRead
  <2> QED BY <2>1, <2>2
<1>6. ReadArmed'
  BY EndsAssumption DEF TypeOK, LinkState, ReadArmed, Reading, IsConnected, Ends, Untouched
<1>7. ASSUME NEW f \in Ends PROVE BodyIsRead(f) => BodyIsRead(f)'
  BY EndsAssumption DEF TypeOK, ReadBuffers, BodyIsRead, NotStarted, Ends
<1> QED BY <1>1, <1>2, <1>3, <1>4, <1>5, <1>6, <1>7, ControlFrame

\* So does the server.
LEMMA OnAcceptKeeps ==
  ASSUME StreamInv, OnAccept
  PROVE  StreamInv'
<1> USE DEF StreamInv, OnAccept, Read, NoRead
<1>1. TypeOK'
  BY DEF TypeOK, Ends, Status
<1>2. LinkState'
  BY EndsAssumption DEF TypeOK, Ends, LinkState, Untouched, IsConnected, ReadBuffers, BodyIsRead, NotStarted
<1>3. ASSUME NEW f \in Ends PROVE Untouched(f)' /\ WriteChain(f)'
  BY DEF TypeOK, Untouched, WriteChain, IsConnected
<1>4. ASSUME NEW f \in Ends PROVE ReadBuffers(f)'
  BY EndsAssumption, PeerFacts DEF TypeOK, ReadBuffers, BodyIsRead, NotStarted, Ends
<1>5. ASSUME NEW f \in Ends PROVE CanRead(f)' => CanRead(f) /\ ToRead(f)' = ToRead(f)
  <2>1. CASE f = Server
    <3>1. NotStarted(f) /\ reads'[f] = Read("header")
      BY EndsAssumption, <2>1 DEF NotStarted, TypeOK, Ends
    <3> QED BY <3>1, FirstRead
  <2>2. CASE ~(f = Server)
    <3>1. UNCHANGED <<reads[f], temp, received>> /\ (NotStarted(f)' => NotStarted(f))
      BY EndsAssumption, <2>2 DEF NotStarted, TypeOK, Ends
    <3> QED BY <3>1 DEF CanRead, ToRead
  <2> QED BY <2>1, <2>2
<1>6. ReadArmed'
  BY EndsAssumption DEF TypeOK, LinkState, ReadArmed, Reading, IsConnected, Ends, Untouched
<1>7. ASSUME NEW f \in Ends PROVE BodyIsRead(f) => BodyIsRead(f)'
  BY EndsAssumption DEF TypeOK, ReadBuffers, BodyIsRead, NotStarted, Ends
<1> QED BY <1>1, <1>2, <1>3, <1>4, <1>5, <1>6, <1>7, ControlFrame

\* A reset leaves everything where it is.
LEMMA ResetKeeps ==
  ASSUME StreamInv, Reset
  PROVE  StreamInv'
<1> USE DEF StreamInv, Reset
<1>1. TypeOK'
  BY DEF TypeOK, Ends, Status
<1>2. LinkState'
  BY EndsAssumption DEF TypeOK, Ends, LinkState, Untouched, IsConnected, ReadBuffers, BodyIsRead, NotStarted
<1>3. ASSUME NEW f \in Ends PROVE Untouched(f)' /\ WriteChain(f)'
  BY DEF TypeOK, Untouched, WriteChain, IsConnected
<1>4. ASSUME NEW f \in Ends PROVE ReadBuffers(f)'
  BY EndsAssumption, PeerFacts DEF TypeOK, ReadBuffers, BodyIsRead, NotStarted, Ends
<1>5. ASSUME NEW f \in Ends PROVE CanRead(f)' => CanRead(f) /\ ToRead(f)' = ToRead(f)
  <2>1. NotStarted(f)' => NotStarted(f)
    BY EndsAssumption DEF NotStarted, TypeOK, Ends, Untouched
  <2> QED BY <2>1, ReaderFrame
<1>6. ReadArmed'
  BY EndsAssumption DEF TypeOK, LinkState, ReadArmed, Reading, IsConnected, Ends, Untouched
<1>7. ASSUME NEW f \in Ends PROVE BodyIsRead(f) => BodyIsRead(f)'
  BY EndsAssumption DEF TypeOK, ReadBuffers, BodyIsRead, NotStarted, Ends
<1> QED BY <1>1, <1>2, <1>3, <1>4, <1>5, <1>6, <1>7, ControlFrame

\* Posting the close changes no socket yet.
LEMMA DisconnectKeeps ==
  ASSUME StreamInv, NEW e \in Ends, Disconnect(e)
  PROVE  StreamInv'
<1> USE DEF StreamInv, Disconnect
<1>1. TypeOK'
  BY DEF TypeOK, Ends, Status
<1>2. LinkState'
  BY EndsAssumption DEF TypeOK, Ends, LinkState, Untouched, IsConnected, ReadBuffers, BodyIsRead, NotStarted
<1>3. ASSUME NEW f \in Ends PROVE Untouched(f)' /\ WriteChain(f)'
  BY DEF TypeOK, Untouched, WriteChain, IsConnected
<1>4. ASSUME NEW f \in Ends PROVE ReadBuffers(f)'
  BY EndsAssumption, PeerFacts DEF TypeOK, ReadBuffers, BodyIsRead, NotStarted, Ends
<1>5. ASSUME NEW f \in Ends PROVE CanRead(f)' => CanRead(f) /\ ToRead(f)' = ToRead(f)
  <2>1. NotStarted(f)' => NotStarted(f)
    BY EndsAssumption DEF NotStarted, TypeOK, Ends, Untouched
  <2> QED BY <2>1, ReaderFrame
<1>6. ReadArmed'
  BY EndsAssumption DEF TypeOK, LinkState, ReadArmed, Reading, IsConnected, Ends, Untouched
<1>7. ASSUME NEW f \in Ends PROVE BodyIsRead(f) => BodyIsRead(f)'
  BY EndsAssumption DEF TypeOK, ReadBuffers, BodyIsRead, NotStarted, Ends
<1> QED BY <1>1, <1>2, <1>3, <1>4, <1>5, <1>6, <1>7, ControlFrame

\* A stopped context only keeps handlers from running.
LEMMA StopContextKeeps ==
  ASSUME StreamInv, NEW e \in Ends, StopContext(e)
  PROVE  StreamInv'
<1> USE DEF StreamInv, StopContext
<1>1. TypeOK'
  BY DEF TypeOK, Ends, Status
<1>2. LinkState'
  BY EndsAssumption DEF TypeOK, Ends, LinkState, Untouched, IsConnected, ReadBuffers, BodyIsRead, NotStarted
<1>3. ASSUME NEW f \in Ends PROVE Untouched(f)' /\ WriteChain(f)'
  BY DEF TypeOK, Untouched, WriteChain, IsConnected
<1>4. ASSUME NEW f \in Ends PROVE ReadBuffers(f)'
  BY EndsAssumption, PeerFacts DEF TypeOK, ReadBuffers, BodyIsRead, NotStarted, Ends
<1>5. ASSUME NEW f \in Ends PROVE CanRead(f)' => CanRead(f) /\ ToRead(f)' = ToRead(f)
  <2>1. NotStarted(f)' => NotStarted(f)
    BY EndsAssumption DEF NotStarted, TypeOK, Ends, Untouched
  <2> QED BY <2>1, ReaderFrame
<1>6. ReadArmed'
  BY EndsAssumption DEF TypeOK, LinkState, ReadArmed, Reading, IsConnected, Ends, Untouched
<1>7. ASSUME NEW f \in Ends PROVE BodyIsRead(f) => BodyIsRead(f)'
  BY EndsAssumption DEF TypeOK, ReadBuffers, BodyIsRead, NotStarted, Ends
<1> QED BY <1>1, <1>2, <1>3, <1>4, <1>5, <1>6, <1>7, ControlFrame

\* The posted close only closes a socket that was opened.
LEMMA RunCloseKeeps ==
  ASSUME StreamInv, NEW e \in Ends, RunClose(e)
  PROVE  StreamInv'
<1> USE DEF StreamInv, RunClose, CloseSocket
<1>1. TypeOK'
  BY DEF TypeOK, Ends, Status
<1>2. LinkState'
  BY EndsAssumption DEF TypeOK, Ends, LinkState, Untouched, IsConnected, ReadBuffers, BodyIsRead, NotStarted
<1>3. ASSUME NEW f \in Ends PROVE Untouched(f)' /\ WriteChain(f)'
  BY DEF TypeOK, Untouched, WriteChain, IsConnected
<1>4. ASSUME NEW f \in Ends PROVE ReadBuffers(f)'
  BY EndsAssumption, PeerFacts DEF TypeOK, ReadBuffers, BodyIsRead, NotStarted, Ends
<1>5. ASSUME NEW f \in Ends PROVE CanRead(f)' => CanRead(f) /\ ToRead(f)' = ToRead(f)
  <2>1. NotStarted(f)' => NotStarted(f)
    BY EndsAssumption DEF NotStarted, TypeOK, Ends, Untouched
  <2> QED BY <2>1, ReaderFrame
<1>6. ReadArmed'
  BY EndsAssumption DEF TypeOK, LinkState, ReadArmed, Reading, IsConnected, Ends, Untouched
<1>7. ASSUME NEW f \in Ends PROVE BodyIsRead(f) => BodyIsRead(f)'
  BY EndsAssumption DEF TypeOK, ReadBuffers, BodyIsRead, NotStarted, Ends
<1> QED BY <1>1, <1>2, <1>3, <1>4, <1>5, <1>6, <1>7, ControlFrame

\* A failed read is the last of its end.
LEMMA FailReadKeeps ==
  ASSUME StreamInv, NEW e \in Ends, FailRead(e)
  PROVE  StreamInv'
<1> USE DEF StreamInv, FailRead
<1>1. TypeOK'
  BY DEF TypeOK, Ends, Status
<1>2. LinkState'
  BY EndsAssumption DEF TypeOK, Ends, LinkState, Untouched, IsConnected, ReadBuffers, BodyIsRead, NotStarted
<1>3. ASSUME NEW f \in Ends PROVE Untouched(f)' /\ WriteChain(f)'
  BY DEF TypeOK, Untouched, WriteChain, IsConnected
<1>4. ASSUME NEW f \in Ends PROVE ReadBuffers(f)'
  BY ZenonT(40), EndsAssumption, PeerFacts DEF TypeOK, ReadBuffers, BodyIsRead, NotStarted, Ends
<1>5. ASSUME NEW f \in Ends PROVE CanRead(f)' => CanRead(f) /\ ToRead(f)' = ToRead(f)
  BY EndsAssumption DEF TypeOK, CanRead, ToRead, ReadBuffers, BodyIsRead, NotStarted, Ends
<1>6. ReadArmed'
  BY EndsAssumption DEF TypeOK, LinkState, ReadArmed, Reading, IsConnected, Ends, Untouched
<1>7. ASSUME NEW f \in Ends PROVE BodyIsRead(f) => BodyIsRead(f)'
  BY EndsAssumption DEF TypeOK, ReadBuffers, BodyIsRead, NotStarted, Ends
<1> QED BY <1>1, <1>2, <1>3, <1>4, <1>5, <1>6, <1>7, ControlFrame

\* Its handler closes the socket.
LEMMA ReadFailedKeeps ==
  ASSUME StreamInv, NEW e \in Ends, ReadFailed(e)
  PROVE  StreamInv'
<1> USE DEF StreamInv, ReadFailed, CloseSocket, NoRead
<1>1. TypeOK'
  BY DEF TypeOK, Ends, Status
<1>2. LinkState'
  BY EndsAssumption DEF TypeOK, Ends, LinkState, Untouched, IsConnected, ReadBuffers, BodyIsRead, NotStarted
<1>3. ASSUME NEW f \in Ends PROVE Untouched(f)' /\ WriteChain(f)'
  BY DEF TypeOK, Untouched, WriteChain, IsConnected
<1>4. ASSUME NEW f \in Ends PROVE ReadBuffers(f)'
  BY EndsAssumption, PeerFacts DEF TypeOK, ReadBuffers, BodyIsRead, NotStarted, Ends
<1>5. ASSUME NEW f \in Ends PROVE CanRead(f)' => CanRead(f) /\ ToRead(f)' = ToRead(f)
  BY EndsAssumption DEF TypeOK, CanRead, ToRead, ReadBuffers, BodyIsRead, NotStarted, Ends
<1>6. ReadArmed'
  BY EndsAssumption DEF TypeOK, LinkState, ReadArmed, Reading, IsConnected, Ends, Untouched
<1>7. ASSUME NEW f \in Ends PROVE BodyIsRead(f) => BodyIsRead(f)'
  BY EndsAssumption DEF TypeOK, ReadBuffers, BodyIsRead, NotStarted, Ends
<1> QED BY <1>1, <1>2, <1>3, <1>4, <1>5, <1>6, <1>7, ControlFrame

-----------------------------------------------------------------------------
(* Sending.                                                                *)

\* After a pop the next header, if any, is what is to be written.
LEMMA NextWrite ==
  ASSUME StreamInv, NEW e \in Ends, outcome[e] # <<>>,
         UNCHANGED <<sent, posted>>, outcome'[e] = Tail(outcome[e]),
         writes'[e] = WriteNext(Tail(outcome[e]))
  PROVE  /\ SendOrder(e)'
         /\ writes'[e] # <<>> =>
              /\ Len(writes'[e]) = 1 /\ outcome'[e] # <<>>
              /\ writes'[e][1].msg = outcome'[e][1]
              /\ writes'[e][1].part = "header"
         /\ outcome'[e] # <<>> => writes'[e] # <<>>
         /\ ToWrite(e)' = 2 * Head(outcome[e]).id + 2
<1> DEFINE rest == Tail(outcome[e])
           front == Head(outcome[e])
<1>1. /\ sent[e] \in Seq(Message) /\ posted[e] \in Seq(Message)
      /\ outcome[e] \in Seq(Message) /\ rest \in Seq(Message)
      /\ rest # <<>> => Head(rest) = rest[1]
  BY TailFacts DEF StreamInv, TypeOK
<1>2. /\ InOrder(sent[e], posted[e], rest) /\ front.id \in Nat
      /\ Len(sent[e]) - Len(posted[e]) - Len(rest) = front.id
      /\ rest # <<>> => rest[1].id = front.id + 1
  <2>1. InOrder(sent[e], posted[e], outcome[e])
    BY DEF StreamInv, SendOrder
  <2> QED BY ZenonT(40), <1>1, <2>1, FrontAfterPop
<1>3. outcome'[e] = rest /\ writes'[e] = WriteNext(rest)
  OBVIOUS
<1> HIDE DEF rest, front
<1>4. SendOrder(e)'
  BY <1>2, <1>3 DEF SendOrder, InOrder
<1>5. CASE rest = <<>>
  <2>1. Popped(e)' = front.id
    BY <1>2, <1>3 DEF Popped
  <2> QED BY <1>3, <1>4, <1>5, <2>1 DEF WriteNext, ToWrite, front
<1>6. CASE rest # <<>>
  <2>1. writes'[e] = <<[part |-> "header", msg |-> rest[1], status |-> "issued"]>>
    BY <1>1, <1>3, <1>6 DEF WriteNext, WriteOf
  <2>2. /\ Len(writes'[e]) = 1 /\ writes'[e] # <<>>
        /\ writes'[e][1] = [part |-> "header", msg |-> rest[1], status |-> "issued"]
    BY <2>1, SingletonFacts, Zenon
  <2>5. /\ writes'[e][1].part = "header" /\ writes'[e][1].msg = rest[1]
        /\ writes'[e][1].status = "issued"
    BY <2>2
  <2>3. ToWrite(e)' = 2 * rest[1].id + 0
    BY <1>3, <1>6, <2>5 DEF ToWrite, Position
  <2>4. ToWrite(e)' = 2 * front.id + 2
    BY <1>2, <1>6, <2>3
  <2> QED BY <1>3, <1>4, <1>6, <2>2, <2>4, <2>5 DEF front
<1> QED BY <1>5, <1>6

\* Messages received are numbered from one.
LEMMA ReceivedLength ==
  ASSUME TypeOK, NEW f \in Ends
  PROVE  /\ Len(received[f]) \in Nat /\ DOMAIN received[f] = 1..Len(received[f])
         /\ received[f] \in Seq([header : Chunk, body : Chunk \cup {NoChunk}])
<1>1. received[f] \in Seq([header : Chunk, body : Chunk \cup {NoChunk}])
  BY DEF TypeOK
<1> QED BY <1>1, LenProperties

\* Only the messages up to the i-th count for the body it comes with.
LEMMA LastBodyLonger ==
  ASSUME NEW body, NEW messages, NEW longer, NEW i \in Nat, LastBody(body, messages, i),
         \A k \in 1..i : longer[k] = messages[k]
  PROVE  LastBody(body, longer, i)
<1>1. CASE body = NoChunk /\ \A k \in 1..i : messages[k].size = 0
  BY <1>1 DEF LastBody
<1>2. ASSUME NEW k \in 1..i,
             messages[k].size # 0, body = [part |-> "body", msg |-> messages[k]],
             \A j \in (k + 1)..i : messages[j].size = 0
      PROVE  LastBody(body, longer, i)
  <2>1. \A j \in (k + 1)..i : j \in 1..i
    BY <1>2
  <2> QED BY <1>2, <2>1 DEF LastBody
<1> QED BY <1>1, <1>2 DEF LastBody

\* A message that has a body comes with it.
LEMMA LastBodyOwn ==
  ASSUME NEW messages, NEW i \in Nat \ {0}, messages[i].size # 0
  PROVE  LastBody([part |-> "body", msg |-> messages[i]], messages, i)
<1>1. i \in 1..i /\ (i + 1)..i = {}
  OBVIOUS
<1> QED BY <1>1 DEF LastBody

\* One that has none comes with that of the message before it.
LEMMA LastBodyKept ==
  ASSUME NEW body, NEW messages, NEW i \in Nat, LastBody(body, messages, i),
         messages[i + 1].size = 0
  PROVE  LastBody(body, messages, i + 1)
<1>1. \A j \in 1..(i + 1) : j \in 1..i \/ j = i + 1
  OBVIOUS
<1>2. CASE body = NoChunk /\ \A k \in 1..i : messages[k].size = 0
  BY <1>1, <1>2 DEF LastBody
<1>3. ASSUME NEW k \in 1..i,
             messages[k].size # 0, body = [part |-> "body", msg |-> messages[k]],
             \A j \in (k + 1)..i : messages[j].size = 0
      PROVE  LastBody(body, messages, i + 1)
  <2>1. k \in 1..(i + 1) /\ \A j \in (k + 1)..(i + 1) : j \in (k + 1)..i \/ j = i + 1
    OBVIOUS
  <2> QED BY <1>3, <2>1 DEF LastBody
<1> QED BY <1>2, <1>3 DEF LastBody

\* The queue of posted handlers and the history grow together.
LEMMA SendMessageKeeps ==
  ASSUME StreamInv, NEW e \in Ends, NEW size \in Sizes, SendMessage(e, size)
  PROVE  StreamInv'
<1> DEFINE m == [id |-> Len(sent[e]) + 1, size |-> size]
<1>1. /\ sent' = [sent EXCEPT ![e] = Append(sent[e], m)]
      /\ posted' = [posted EXCEPT ![e] = Append(posted[e], m)]
      /\ UNCHANGED <<connect, link, context, sock, closing, outcome, writes,
                     wire, reads, temp, received>>
      /\ IsConnected(e)
  BY DEF SendMessage
<1>2. /\ TypeOK /\ sent[e] \in Seq(Message) /\ posted[e] \in Seq(Message)
      /\ outcome[e] \in Seq(Message)
  BY DEF StreamInv, TypeOK
<1>3. m \in Message /\ m.id = Len(sent[e]) + 1
  BY <1>2 DEF Message
<1> HIDE DEF m
<1>4. TypeOK'
  <2>1. Append(sent[e], m) \in Seq(Message) /\ Append(posted[e], m) \in Seq(Message)
    BY <1>2, <1>3, AppendFacts
  <2> QED BY <1>1, <1>2, <2>1 DEF TypeOK
<1>5. LinkState' /\ ReadArmed'
  BY <1>1 DEF StreamInv, LinkState, ReadArmed, Reading, IsConnected
<1>6. ASSUME NEW f \in Ends PROVE Untouched(f)' /\ WriteChain(f)'
  BY <1>1, <1>2 DEF StreamInv, TypeOK, Untouched, WriteChain, IsConnected
<1>7. ASSUME NEW f \in Ends PROVE SendOrder(f)'
  <2>1. CASE f = e
    <3>1. InOrder(Append(sent[e], m), Append(posted[e], m), outcome[e])
      BY <1>2, <1>3, InOrderSend DEF StreamInv, SendOrder
    <3>2. /\ sent'[f] = Append(sent[e], m) /\ posted'[f] = Append(posted[e], m)
          /\ outcome'[f] = outcome[e]
      BY <1>1, <1>2, <2>1 DEF TypeOK
    <3> QED BY <3>1, <3>2 DEF SendOrder, InOrder
  <2>2. CASE f # e
    BY <1>1, <1>2, <2>2 DEF StreamInv, SendOrder, InOrder, TypeOK
  <2> QED BY <2>1, <2>2
<1>8. ASSUME NEW f \in Ends
      PROVE  /\ Len(sent[f]) \in Nat /\ Len(sent'[f]) \in Nat
             /\ Len(sent[f]) <= Len(sent'[f])
             /\ \A i \in 1..Len(sent[f]) : sent'[f][i] = sent[f][i]
             /\ Consecutive(wire[f], sent'[f])
             /\ Popped(f)' = Popped(f)
  <2>1. /\ wire[f] \in Seq(Chunk) /\ Consecutive(wire[f], sent[f])
        /\ Len(outcome[f]) \in Nat /\ Len(posted[f]) \in Nat /\ Len(sent[f]) \in Nat
    BY LenProperties DEF StreamInv, TypeOK, WireOrder
  <2>2. CASE f = e
    <3>1. sent'[f] = Append(sent[f], m) /\ posted'[f] = Append(posted[f], m)
      BY <1>1, <1>2, <2>2 DEF TypeOK
    <3>2. Consecutive(wire[f], sent'[f])
      BY <1>2, <1>3, <2>1, <2>2, <3>1, ConsecutiveSent
    <3>3. /\ Len(sent'[f]) = Len(sent[f]) + 1 /\ Len(posted'[f]) = Len(posted[f]) + 1
          /\ \A i \in 1..Len(sent[f]) : sent'[f][i] = sent[f][i]
      BY <1>2, <1>3, <2>2, <3>1, AppendFacts
    <3>4. /\ Popped(f) = Len(sent[f]) - Len(posted[f]) - Len(outcome[f])
          /\ Popped(f)' = Len(sent'[f]) - Len(posted'[f]) - Len(outcome[f])
      BY <1>1 DEF Popped
    <3>5. Popped(f)' = Popped(f)
      BY <2>1, <3>3, <3>4
    <3> QED BY <2>1, <3>2, <3>3, <3>5
  <2>3. CASE f # e
    BY <1>1, <1>2, <2>1, <2>3 DEF TypeOK, Popped
  <2> QED BY <2>2, <2>3
<1>9. ASSUME NEW f \in Ends PROVE ReadBuffers(f)' /\ KeepsBody(f)'
  <2> DEFINE stream == sent[Peer(f)]
             n == Len(received[f]) + 1
  <2>1. /\ Len(stream) <= Len(stream') /\ Len(stream) \in Nat /\ Len(stream') \in Nat
        /\ \A i \in 1..Len(stream) : stream'[i] = stream[i]
    BY <1>8, PeerFacts
  <2>2. n <= Len(stream) => n <= Len(stream') /\ stream'[n] = stream[n]
    <3>1. Len(received[f]) \in Nat
      BY <1>2, ReceivedLength
    <3> QED BY <2>1, <3>1
  <2>3. ReadBuffers(f) /\ KeepsBody(f)
    BY DEF StreamInv
  <2>4. ReadBuffers(f)'
    BY <1>1, <2>2, <2>3 DEF ReadBuffers, BodyIsRead, NotStarted
  <2>5. KeepsBody(f)'
    <3>1. Len(received[f]) \in Nat
      BY <1>2, ReceivedLength
    <3> SUFFICES ASSUME ~BodyIsRead(f)'
                 PROVE  /\ Len(received[f]) <= Len(stream')
                        /\ LastBody(temp[f].body, stream', Len(received[f]))
      BY <1>1 DEF KeepsBody
    <3>2. Len(received[f]) <= Len(stream) /\ LastBody(temp[f].body, stream, Len(received[f]))
      BY <1>1, <2>3 DEF KeepsBody, BodyIsRead
    <3> QED BY <2>1, <3>1, <3>2, LastBodyLonger
  <2> QED BY <2>4, <2>5
<1>10. ASSUME NEW f \in Ends PROVE WireOrder(f)'
  <2>1. CanWrite(f)' => CanWrite(f) /\ ToWrite(f)' = ToWrite(f)
    BY <1>1, <1>8 DEF CanWrite, ToWrite, Position, PositionAfter
  <2>2. ASSUME NEW g \in Ends PROVE CanRead(g)' => CanRead(g) /\ ToRead(g)' = ToRead(g)
    BY <1>1, ReaderFrame DEF NotStarted
  <2> QED BY <1>1, <1>8, <2>1, <2>2, PeerFacts, WireFrame DEF StreamInv
<1>11. DeliveredInOrder'
  <2> SUFFICES ASSUME NEW f \in Ends, NEW i \in DOMAIN received[f]
               PROVE  /\ i <= Len(sent'[Peer(f)])
                      /\ received[f][i].header =
                           [part |-> "header", msg |-> sent'[Peer(f)][i]]
                      /\ LastBody(received[f][i].body, sent'[Peer(f)], i)
    BY <1>1 DEF DeliveredInOrder
  <2>1. i \in Nat \ {0}
    BY <1>2, ReceivedLength
  <2>2. /\ i <= Len(sent[Peer(f)])
        /\ received[f][i].header = [part |-> "header", msg |-> sent[Peer(f)][i]]
        /\ LastBody(received[f][i].body, sent[Peer(f)], i)
    BY DEF StreamInv, DeliveredInOrder
  <2>3. /\ i <= Len(sent'[Peer(f)]) /\ sent'[Peer(f)][i] = sent[Peer(f)][i]
        /\ \A k \in 1..i : sent'[Peer(f)][k] = sent[Peer(f)][k]
    BY <1>8, <2>1, <2>2, PeerFacts
  <2>4. LastBody(received[f][i].body, sent'[Peer(f)], i)
    BY <2>1, <2>2, <2>3, LastBodyLonger
  <2> QED BY <2>2, <2>3, <2>4
<1> QED BY <1>4, <1>5, <1>6, <1>7, <1>9, <1>10, <1>11 DEF StreamInv

\* The handler SendMessage posted starts a write only when none is under way.
LEMMA RunSendKeeps ==
  ASSUME StreamInv, NEW e \in Ends, RunSend(e)
  PROVE  StreamInv'
<1> DEFINE m == Head(posted[e])
           op == [part |-> "header", msg |-> Head(Append(outcome[e], m)),
                  status |-> "issued"]
<1>1. /\ posted[e] # <<>>
      /\ posted' = [posted EXCEPT ![e] = Tail(posted[e])]
      /\ outcome' = [outcome EXCEPT ![e] = Append(outcome[e], m)]
      /\ UNCHANGED <<connect, link, context, sock, closing, wire, reads, temp,
                     sent, received>>
  BY DEF RunSend
<1>2. /\ TypeOK /\ sent[e] \in Seq(Message) /\ posted[e] \in Seq(Message)
      /\ outcome[e] \in Seq(Message)
      /\ InOrder(sent[e], posted[e], outcome[e])
  BY DEF StreamInv, TypeOK, SendOrder
<1>3. m \in Message /\ Tail(posted[e]) \in Seq(Message)
      /\ Append(outcome[e], m) \in Seq(Message)
  BY <1>1, <1>2, TailFacts, AppendFacts
<1>4. /\ posted'[e] = Tail(posted[e]) /\ outcome'[e] = Append(outcome[e], m)
      /\ \A f \in Ends \ {e} : posted'[f] = posted[f] /\ outcome'[f] = outcome[f]
  BY <1>1, <1>2 DEF TypeOK
<1>5. outcome[e] = <<>> =>
        /\ Append(outcome[e], m)[1] = m /\ Head(Append(outcome[e], m)) = m
        /\ m.id = Popped(e) + 1
        /\ writes[e] = <<>>
  <2> SUFFICES ASSUME outcome[e] = <<>>
               PROVE  /\ Append(outcome[e], m)[1] = m
                      /\ Head(Append(outcome[e], m)) = m
                      /\ m.id = Popped(e) + 1 /\ writes[e] = <<>>
    OBVIOUS
  <2>1. Append(outcome[e], m)[1] = m /\ Head(Append(outcome[e], m)) = m
    BY <1>3, AppendFacts, TailFacts
  <2>2. writes[e] = <<>>
    BY DEF StreamInv, WriteChain
  <2>3. m.id = Len(sent[e]) - Len(posted[e]) - Len(outcome[e]) + 1
    BY <1>1, <1>2, FirstPosted
  <2> QED BY <2>1, <2>2, <2>3 DEF Popped
<1>6. /\ writes'[e] = IF outcome[e] = <<>> THEN <<op>> ELSE writes[e]
      /\ \A f \in Ends \ {e} : writes'[f] = writes[f]
      /\ writes' = [writes EXCEPT ![e] = writes'[e]]
  <2>1. outcome'[e] = Append(outcome[e], m)
    BY <1>4
  <2>2. CASE outcome[e] = <<>>
    <3>1. writes' = [writes EXCEPT ![e] = Append(writes[e], op)]
      BY <2>1, <2>2 DEF RunSend, StartsWriting, WriteOf
    <3>2. Append(writes[e], op) = <<op>>
      BY <1>5, <2>2, AppendEmpty
    <3> QED BY <1>2, <2>2, <3>1, <3>2 DEF TypeOK
  <2>3. CASE outcome[e] # <<>>
    BY <1>2, <2>3 DEF RunSend, StartsWriting, TypeOK
  <2> QED BY <2>2, <2>3
<1>7. op.part = "header" /\ op.msg = Head(Append(outcome[e], m)) /\ op.status = "issued"
  OBVIOUS
<1>8. op \in [part : {"header", "body"}, msg : Message, status : Status]
  BY <1>3, TailFacts, AppendFacts DEF Status
<1> HIDE DEF m, op
<1>9. TypeOK'
  <2>1. <<op>> \in Seq([part : {"header", "body"}, msg : Message, status : Status])
    BY <1>8
  <2>2. writes'[e] \in Seq([part : {"header", "body"}, msg : Message, status : Status])
    BY <1>2, <1>6, <2>1 DEF TypeOK
  <2> QED BY <1>1, <1>2, <1>3, <1>6, <2>2 DEF TypeOK
<1>10. ASSUME NEW f \in Ends PROVE Untouched(f)'
  BY <1>1, <1>4, <1>6 DEF StreamInv, Untouched
<1>11. ASSUME NEW f \in Ends PROVE SendOrder(f)'
  <2>1. CASE f = e
    <3>1. InOrder(sent[e], Tail(posted[e]), Append(outcome[e], m))
      BY <1>1, <1>2, InOrderRun DEF m
    <3>2. /\ sent'[f] = sent[e] /\ posted'[f] = Tail(posted[e])
          /\ outcome'[f] = Append(outcome[e], m)
      BY <1>1, <1>4, <2>1
    <3> QED BY <3>1, <3>2 DEF SendOrder, InOrder
  <2>2. CASE f # e
    <3>1. UNCHANGED <<sent[f], posted[f], outcome[f]>>
      BY <1>1, <1>4, <2>2
    <3> QED BY <3>1, SendOrderFrame DEF StreamInv
  <2> QED BY <2>1, <2>2
<1>12. ASSUME NEW f \in Ends PROVE WriteChain(f)'
  <2>1. CASE f = e /\ outcome[e] = <<>>
    <3>1. Len(writes'[e]) = 1 /\ writes'[e][1] = op /\ writes'[e] # <<>>
      BY <1>6, <2>1, SingletonFacts, Zenon
    <3>2. Append(outcome[e], m) # <<>>
      BY <1>2, <1>3, AppendFacts
    <3> QED BY <1>4, <1>5, <1>7, <2>1, <3>1, <3>2 DEF WriteChain
  <2>2. CASE f = e /\ outcome[e] # <<>>
    <3>1. Append(outcome[e], m) # <<>> /\ Append(outcome[e], m)[1] = outcome[e][1]
      BY <1>2, <1>3, <2>2, AppendFacts, TailFacts
    <3> QED BY <1>1, <1>4, <1>6, <2>2, <3>1 DEF StreamInv, WriteChain, IsConnected
  <2>3. CASE f # e
    BY <1>1, <1>4, <1>6, <2>3 DEF StreamInv, WriteChain, IsConnected
  <2> QED BY <2>1, <2>2, <2>3
<1>13. ASSUME NEW f \in Ends PROVE CanWrite(f)' => CanWrite(f) /\ ToWrite(f)' = ToWrite(f)
  <2>1. CASE f = e /\ outcome[e] = <<>>
    <3>0. Append(outcome[e], m) # <<>>
      BY <1>2, <1>3, AppendFacts
    <3>1. writes'[e][1] = op /\ Append(outcome[e], m) # <<>>
      BY <1>6, <2>1, <3>0, SingletonFacts, Zenon
    <3>2. ToWrite(e)' = 2 * m.id + 0
      BY <1>4, <1>5, <1>7, <2>1, <3>1 DEF ToWrite, Position
    <3>3. ToWrite(e) = 2 * Popped(e) + 2 /\ CanWrite(e) /\ Popped(e) \in Int
      BY <1>2, <2>1, LenProperties DEF ToWrite, CanWrite, Popped
    <3> QED BY <1>5, <2>1, <3>2, <3>3
  <2>2. CASE f = e /\ outcome[e] # <<>>
    <3>1. Append(outcome[e], m) # <<>>
      BY <1>2, <1>3, AppendFacts
    <3> QED BY <1>4, <1>6, <2>2, <3>1 DEF CanWrite, ToWrite, Position, PositionAfter
  <2>3. CASE f # e
    <3>1. UNCHANGED <<sent[f], posted[f], outcome[f], writes[f]>>
      BY <1>1, <1>4, <1>6, <2>3
    <3> QED BY <3>1, WriterFrame
  <2> QED BY <2>1, <2>2, <2>3
<1> QED BY <1>1, <1>9, <1>10, <1>11, <1>12, <1>13, WriteFrame

\* An end with an outstanding write has one, of the front of its queue.
LEMMA TheWrite ==
  ASSUME StreamInv, NEW e \in Ends, NEW i \in DOMAIN writes[e]
  PROVE  /\ i = 1 /\ Len(writes[e]) = 1 /\ writes[e] # <<>>
         /\ outcome[e] # <<>> /\ outcome[e] \in Seq(Message)
         /\ Head(outcome[e]) = outcome[e][1] /\ outcome[e][1] \in Message
         /\ writes[e][1].msg = outcome[e][1]
         /\ writes[e][1].part = "body" => outcome[e][1].size # 0
         /\ writes[e][1].part \in {"header", "body"}
         /\ sock[e] # "unopened"
         /\ \A t \in Seq([part : {"header", "body"}, msg : Message, status : Status]) :
              RemoveAt(writes[e], i) \o t = t
         /\ RemoveAt(writes[e], i) = <<>>
<1> DEFINE Write == [part : {"header", "body"}, msg : Message, status : Status]
<1>1. writes[e] \in Seq(Write) /\ outcome[e] \in Seq(Message)
  BY DEF StreamInv, TypeOK
<1>2. WriteChain(e) /\ Untouched(e)
  BY DEF StreamInv
<1>3. writes[e] # <<>> /\ Len(writes[e]) \in Nat /\ DOMAIN writes[e] = 1..Len(writes[e])
  BY <1>1, LenProperties
<1>4. Len(writes[e]) = 1 /\ i = 1
  BY <1>2, <1>3 DEF WriteChain
<1>5. outcome[e] # <<>> /\ writes[e][1].msg = outcome[e][1]
      /\ (writes[e][1].part = "body" => outcome[e][1].size # 0)
  BY <1>2, <1>3 DEF WriteChain
<1>6. writes[e][1] \in Write
  BY <1>1, <1>3, <1>4, ElementOfSeq
<1>7. RemoveAt(writes[e], i) = <<>> /\ \A t \in Seq(Write) : RemoveAt(writes[e], i) \o t = t
  <2>1. \A t \in Seq(Write) : RemoveAt(writes[e], i) = <<>> /\ RemoveAt(writes[e], i) \o t = t
    BY <1>1, <1>4, RemoveOnly
  <2>2. <<>> \in Seq(Write)
    OBVIOUS
  <2> QED BY <2>1, <2>2
<1>8. sock[e] # "unopened"
  BY <1>2, <1>3 DEF Untouched
<1> QED BY <1>1, <1>3, <1>4, <1>5, <1>6, <1>7, <1>8, TailFacts

\* A step that replaces the write of one end, and perhaps pops its queue,
\* keeps the invariant if it leaves that end consistent.
LEMMA WriterStep ==
  ASSUME StreamInv, NEW e \in Ends, sock[e] # "unopened",
         UNCHANGED <<connect, posted, wire, reads, temp, sent, received,
                     context, closing>>,
         outcome' = [outcome EXCEPT ![e] = outcome'[e]],
         outcome'[e] \in Seq(Message),
         writes' = [writes EXCEPT ![e] = writes'[e]],
         writes'[e] \in Seq([part : {"header", "body"}, msg : Message, status : Status]),
         UNCHANGED <<sock, link>> \/ CloseSocket(e),
         SendOrder(e)', WriteChain(e)',
         CanWrite(e)' => CanWrite(e) /\ ToWrite(e)' = ToWrite(e)
  PROVE  StreamInv'
<1>1. TypeOK
  BY DEF StreamInv
<1>2. /\ \A f \in Ends : sock[f]' = "unopened" <=> sock[f] = "unopened"
      /\ \A f \in Ends : sock[f]' = "open" => sock[f] = "open"
      /\ \A f \in Ends \ {e} : sock'[f] = sock[f]
      /\ link' = "down" <=> link = "down"
      /\ sock' \in [Ends -> {"unopened", "open", "closed"}]
      /\ link' \in {"down", "up", "reset"}
  BY <1>1 DEF CloseSocket, TypeOK
<1>3. TypeOK'
  BY <1>1, <1>2 DEF TypeOK
<1>4. \A f \in Ends \ {e} : outcome'[f] = outcome[f] /\ writes'[f] = writes[f]
  BY <1>1 DEF TypeOK
<1>5. ASSUME NEW f \in Ends PROVE Untouched(f)'
  BY <1>1, <1>2, <1>4 DEF StreamInv, Untouched
<1>6. ASSUME NEW f \in Ends PROVE SendOrder(f)' /\ WriteChain(f)'
  <2>1. CASE f # e
    <3>1. SendOrder(f)'
      BY <1>4, <2>1, SendOrderFrame DEF StreamInv
    <3>2. WriteChain(f)'
      BY <1>2, <1>4, <2>1 DEF StreamInv, WriteChain, IsConnected
    <3> QED BY <3>1, <3>2
  <2> QED BY <2>1
<1>7. ASSUME NEW f \in Ends PROVE CanWrite(f)' => CanWrite(f) /\ ToWrite(f)' = ToWrite(f)
  <2>1. CASE f # e
    BY <1>4, <2>1, WriterFrame
  <2> QED BY <2>1
<1> QED BY <1>2, <1>3, <1>5, <1>6, <1>7, WriteFrame

\* After a header comes its body, or the next header if it has none.
LEMMA HeaderWrittenKeeps ==
  ASSUME StreamInv, NEW e \in Ends, HeaderWritten(e)
  PROVE  StreamInv'
<1> DEFINE front == Head(outcome[e])
           op == [part |-> "body", msg |-> front, status |-> "issued"]
           Write == [part : {"header", "body"}, msg : Message, status : Status]
<1>1. PICK i \in DOMAIN writes[e] :
        /\ writes[e][i].part = "header" /\ writes[e][i].status = "done"
        /\ outcome' = [outcome EXCEPT ![e] = QueueAfterHeader(outcome[e])]
        /\ writes' = [writes EXCEPT ![e] =
                        RemoveAt(writes[e], i) \o WriteAfterHeader(outcome[e])]
  BY DEF HeaderWritten
<1>2. UNCHANGED <<connect, link, context, sock, closing, posted, wire, reads,
                  temp, sent, received>>
  BY DEF HeaderWritten
<1>3. /\ i = 1 /\ outcome[e] # <<>> /\ outcome[e] \in Seq(Message)
      /\ front = outcome[e][1] /\ front \in Message
      /\ writes[e][1].msg = front /\ sock[e] # "unopened"
      /\ writes[e] # <<>> /\ Tail(outcome[e]) \in Seq(Message)
  BY TheWrite, TailFacts
<1>4. TypeOK
  BY DEF StreamInv
<1>5. CanWrite(e) /\ ToWrite(e) = (IF front.size # 0 THEN 2 * front.id + 1
                                                     ELSE 2 * front.id + 2)
  <2>1. ToWrite(e) = PositionAfter(writes[e][1]) /\ CanWrite(e)
    BY <1>1, <1>3 DEF ToWrite, CanWrite
  <2>2. Position(writes[e][1]) = 2 * front.id + 0 /\ front.id \in Nat
    BY <1>1, <1>3 DEF Position, Message
  <2> QED BY <1>1, <1>3, <2>1, <2>2 DEF PositionAfter
<1>6. WriteAfterHeader(outcome[e]) \in Seq(Write)
  <2>1. op \in Write
    BY <1>3 DEF Status
  <2>2. CASE Tail(outcome[e]) # <<>>
    <3>1. [part |-> "header", msg |-> Head(Tail(outcome[e])), status |-> "issued"]
            \in Write
      BY <1>3, <2>2, TailFacts DEF Status
    <3> HIDE DEF Write
    <3> QED BY <2>1, <2>2, <3>1 DEF WriteAfterHeader, WriteNext, WriteOf
  <2>3. CASE Tail(outcome[e]) = <<>>
    <3> HIDE DEF Write
    <3> QED BY <2>1, <2>3 DEF WriteAfterHeader, WriteNext, WriteOf
  <2> QED BY <2>2, <2>3
<1>7. /\ writes' = [writes EXCEPT ![e] = WriteAfterHeader(outcome[e])]
      /\ writes'[e] = WriteAfterHeader(outcome[e])
      /\ outcome'[e] = QueueAfterHeader(outcome[e])
  <2>1. RemoveAt(writes[e], i) \o WriteAfterHeader(outcome[e]) = WriteAfterHeader(outcome[e])
    BY <1>6, TheWrite
  <2> QED BY <1>1, <1>4, <2>1 DEF TypeOK
<1> HIDE DEF front, op
<1>8. CASE front.size = 0
  <2>1. outcome'[e] = Tail(outcome[e]) /\ writes'[e] = WriteNext(Tail(outcome[e]))
    BY <1>7, <1>8 DEF QueueAfterHeader, WriteAfterHeader, front
  <2>2. /\ SendOrder(e)'
        /\ writes'[e] # <<>> =>
             /\ Len(writes'[e]) = 1 /\ outcome'[e] # <<>>
             /\ writes'[e][1].msg = outcome'[e][1]
             /\ writes'[e][1].part = "header"
        /\ outcome'[e] # <<>> => writes'[e] # <<>>
        /\ ToWrite(e)' = 2 * front.id + 2
    BY <1>2, <1>3, <2>1, NextWrite DEF front
  <2>3. WriteChain(e)'
    BY <2>2 DEF WriteChain
  <2> QED BY <1>1, <1>2, <1>3, <1>5, <1>6, <1>7, <1>8, <2>1, <2>2, <2>3, WriterStep
<1>9. CASE front.size # 0
  <2>1. outcome'[e] = outcome[e] /\ writes'[e] = <<op>>
    BY <1>7, <1>9 DEF QueueAfterHeader, WriteAfterHeader, WriteOf, front, op
  <2>2. Len(writes'[e]) = 1 /\ writes'[e][1] = op /\ writes'[e] # <<>>
    BY <2>1, SingletonFacts, Zenon
  <2>3. op.part = "body" /\ op.msg = front /\ op.status = "issued"
    BY DEF op
  <2>4. SendOrder(e)'
    BY ZenonT(40), <1>2, <2>1 DEF StreamInv, SendOrder, InOrder
  <2>5. WriteChain(e)'
    BY <1>3, <1>9, <2>1, <2>2, <2>3 DEF WriteChain
  <2>6. ToWrite(e)' = 2 * front.id + 1
    BY <1>3, <2>1, <2>2, <2>3 DEF ToWrite, Position
  <2> QED BY <1>1, <1>2, <1>3, <1>5, <1>6, <1>7, <1>9, <2>1, <2>4, <2>5, <2>6, WriterStep
<1> QED BY <1>8, <1>9

\* After a body comes the next header.
LEMMA BodyWrittenKeeps ==
  ASSUME StreamInv, NEW e \in Ends, BodyWritten(e)
  PROVE  StreamInv'
<1> DEFINE front == Head(outcome[e])
           Write == [part : {"header", "body"}, msg : Message, status : Status]
<1>1. PICK i \in DOMAIN writes[e] :
        /\ writes[e][i].part = "body" /\ writes[e][i].status = "done"
        /\ outcome' = [outcome EXCEPT ![e] = Tail(outcome[e])]
        /\ writes' = [writes EXCEPT ![e] =
                        RemoveAt(writes[e], i) \o WriteNext(Tail(outcome[e]))]
  BY DEF BodyWritten
<1>2. UNCHANGED <<connect, link, context, sock, closing, posted, wire, reads,
                  temp, sent, received>>
  BY DEF BodyWritten
<1>3. /\ i = 1 /\ outcome[e] # <<>> /\ outcome[e] \in Seq(Message)
      /\ front = outcome[e][1] /\ front \in Message
      /\ writes[e][1].msg = front /\ sock[e] # "unopened"
      /\ writes[e] # <<>> /\ Tail(outcome[e]) \in Seq(Message)
  BY TheWrite, TailFacts
<1>4. TypeOK
  BY DEF StreamInv
<1>5. CanWrite(e) /\ ToWrite(e) = 2 * front.id + 2
  BY <1>1, <1>3 DEF ToWrite, CanWrite, PositionAfter
<1>6. WriteNext(Tail(outcome[e])) \in Seq(Write)
  <2>1. CASE Tail(outcome[e]) # <<>>
    <3>1. [part |-> "header", msg |-> Head(Tail(outcome[e])), status |-> "issued"]
            \in Write
      BY <1>3, <2>1, TailFacts DEF Status
    <3> HIDE DEF Write
    <3> QED BY <2>1, <3>1 DEF WriteNext, WriteOf
  <2>2. CASE Tail(outcome[e]) = <<>>
    BY <2>2 DEF WriteNext
  <2> QED BY <2>1, <2>2
<1>7. /\ writes' = [writes EXCEPT ![e] = WriteNext(Tail(outcome[e]))]
      /\ writes'[e] = WriteNext(Tail(outcome[e]))
      /\ outcome'[e] = Tail(outcome[e])
  <2>1. RemoveAt(writes[e], i) \o WriteNext(Tail(outcome[e])) = WriteNext(Tail(outcome[e]))
    BY <1>6, TheWrite
  <2> QED BY <1>1, <1>4, <2>1 DEF TypeOK
<1> HIDE DEF front
<1>8. /\ SendOrder(e)'
      /\ writes'[e] # <<>> =>
           /\ Len(writes'[e]) = 1 /\ outcome'[e] # <<>>
           /\ writes'[e][1].msg = outcome'[e][1]
           /\ writes'[e][1].part = "header"
      /\ outcome'[e] # <<>> => writes'[e] # <<>>
      /\ ToWrite(e)' = 2 * front.id + 2
  BY <1>2, <1>3, <1>7, NextWrite DEF front
<1>9. WriteChain(e)'
  BY <1>8 DEF WriteChain
<1> QED BY <1>1, <1>2, <1>3, <1>5, <1>6, <1>7, <1>8, <1>9, WriterStep

\* The handler of a failed write closes the socket: nothing more is written.
LEMMA WriteFailedKeeps ==
  ASSUME StreamInv, NEW e \in Ends, WriteFailed(e)
  PROVE  StreamInv'
<1> DEFINE Write == [part : {"header", "body"}, msg : Message, status : Status]
<1>1. PICK i \in DOMAIN writes[e] :
        writes' = [writes EXCEPT ![e] = RemoveAt(writes[e], i)]
  BY DEF WriteFailed
<1>2. CloseSocket(e) /\ UNCHANGED <<connect, context, closing, posted, outcome,
                                    wire, reads, temp, sent, received>>
  BY DEF WriteFailed
<1>3. outcome[e] # <<>> /\ sock[e] # "unopened" /\ outcome[e] \in Seq(Message)
      /\ RemoveAt(writes[e], i) = <<>>
  BY TheWrite
<1>4. TypeOK
  BY DEF StreamInv
<1>5. writes' = [writes EXCEPT ![e] = <<>>] /\ writes'[e] = <<>>
      /\ outcome' = [outcome EXCEPT ![e] = outcome'[e]] /\ outcome'[e] = outcome[e]
  BY <1>1, <1>2, <1>3, <1>4 DEF TypeOK
<1>6. SendOrder(e)'
  BY <1>2 DEF StreamInv, SendOrder, InOrder
<1>7. WriteChain(e)' /\ ~CanWrite(e)'
  BY <1>2, <1>3, <1>4, <1>5 DEF WriteChain, CanWrite, CloseSocket, IsConnected, TypeOK
<1>8. <<>> \in Seq(Write)
  OBVIOUS
<1> QED BY <1>2, <1>3, <1>5, <1>6, <1>7, <1>8, WriterStep

\* A write that fails is the last of its end.
LEMMA FailWriteKeeps ==
  ASSUME StreamInv, NEW e \in Ends, FailWrite(e)
  PROVE  StreamInv'
<1> DEFINE Write == [part : {"header", "body"}, msg : Message, status : Status]
           ended == Ended(writes[e][1], "error")
<1>1. PICK i \in DOMAIN writes[e] :
        writes' = [writes EXCEPT ![e] = [writes[e] EXCEPT ![i] = Ended(writes[e][i], "error")]]
  BY DEF FailWrite
<1>2. UNCHANGED <<connect, link, context, sock, closing, posted, outcome, wire,
                  reads, temp, sent, received>>
  BY DEF FailWrite
<1>3. /\ i = 1 /\ Len(writes[e]) = 1 /\ outcome[e] # <<>> /\ outcome[e] \in Seq(Message)
      /\ outcome[e][1] \in Message /\ writes[e][1].msg = outcome[e][1]
      /\ writes[e][1].part = "body" => outcome[e][1].size # 0
      /\ writes[e][1].part \in {"header", "body"}
      /\ writes[e] # <<>> /\ sock[e] # "unopened"
  BY TheWrite
<1>4. TypeOK /\ writes[e] \in Seq(Write)
  BY DEF StreamInv, TypeOK
<1>5. /\ ended.part = writes[e][1].part /\ ended.msg = writes[e][1].msg
      /\ ended.status = "error" /\ ended \in Write
  BY <1>3 DEF Ended, Status
<1> HIDE DEF ended
<1>6. writes'[e] = [writes[e] EXCEPT ![1] = ended]
  BY <1>1, <1>3, <1>4 DEF TypeOK, ended
<1>7. /\ writes'[e] \in Seq(Write) /\ Len(writes'[e]) = 1 /\ writes'[e][1] = ended
      /\ writes'[e] # <<>>
  BY <1>3, <1>4, <1>5, <1>6, ExceptSeq, LenProperties
<1>8. writes' = [writes EXCEPT ![e] = writes'[e]]
      /\ outcome' = [outcome EXCEPT ![e] = outcome'[e]]
  BY <1>1, <1>2, <1>4 DEF TypeOK
<1>9. SendOrder(e)'
  BY <1>2 DEF StreamInv, SendOrder, InOrder
<1>10. WriteChain(e)' /\ ~CanWrite(e)'
  BY <1>2, <1>3, <1>5, <1>7 DEF WriteChain, CanWrite
<1> QED BY <1>2, <1>3, <1>7, <1>8, <1>9, <1>10, WriterStep

-----------------------------------------------------------------------------
(* The wire and receiving.                                                 *)

\* The chunk an end puts on the wire is the one that follows the last.
LEMMA TransferWriteKeeps ==
  ASSUME StreamInv, NEW e \in Ends, TransferWrite(e)
  PROVE  StreamInv'
<1> DEFINE Write == [part : {"header", "body"}, msg : Message, status : Status]
           w == wire[e]
           c == [part |-> writes[e][1].part, msg |-> writes[e][1].msg]
           ended == Ended(writes[e][1], "done")
<1>1. PICK i \in DOMAIN writes[e] :
        /\ writes[e][i].status = "issued"
        /\ writes' = [writes EXCEPT ![e] =
                        [writes[e] EXCEPT ![i] = Ended(writes[e][i], "done")]]
        /\ wire' = [wire EXCEPT ![e] =
                      Append(wire[e], [part |-> writes[e][i].part,
                                       msg |-> writes[e][i].msg])]
  BY DEF TransferWrite
<1>2. UNCHANGED <<connect, link, context, sock, closing, posted, outcome, reads,
                  temp, sent, received>>
  BY DEF TransferWrite
<1>3. /\ i = 1 /\ Len(writes[e]) = 1 /\ outcome[e] # <<>> /\ outcome[e] \in Seq(Message)
      /\ outcome[e][1] \in Message /\ writes[e][1].msg = outcome[e][1]
      /\ Head(outcome[e]) = outcome[e][1]
      /\ writes[e][1].part = "body" => outcome[e][1].size # 0
      /\ writes[e][1].part \in {"header", "body"}
      /\ writes[e] # <<>> /\ sock[e] # "unopened"
  BY TheWrite
<1>4. /\ TypeOK /\ writes[e] \in Seq(Write) /\ w \in Seq(Chunk)
      /\ sent[e] \in Seq(Message) /\ posted[e] \in Seq(Message)
  BY DEF StreamInv, TypeOK
<1>5. /\ ended.part = writes[e][1].part /\ ended.msg = writes[e][1].msg
      /\ ended.status = "done" /\ ended \in Write
  BY <1>3 DEF Ended, Status
<1>6. /\ c.part = writes[e][1].part /\ c.msg = writes[e][1].msg /\ c \in Chunk
  BY <1>3 DEF Chunk
<1>7. /\ writes' = [writes EXCEPT ![e] = [writes[e] EXCEPT ![1] = ended]]
      /\ wire' = [wire EXCEPT ![e] = Append(w, c)]
  BY <1>1, <1>3
<1> HIDE DEF ended, c
<1>8. writes'[e] = [writes[e] EXCEPT ![1] = ended] /\ wire'[e] = Append(w, c)
      /\ \A f \in Ends \ {e} : writes'[f] = writes[f] /\ wire'[f] = wire[f]
  BY <1>4, <1>7 DEF TypeOK
<1>9. /\ writes'[e] \in Seq(Write) /\ Len(writes'[e]) = 1 /\ writes'[e][1] = ended
      /\ writes'[e] # <<>>
  BY <1>3, <1>4, <1>5, <1>8, ExceptSeq, LenProperties
<1>10. Append(w, c) \in Seq(Chunk) /\ Append(w, c) # <<>>
  BY <1>4, <1>6, AppendFacts
<1>11. TypeOK'
  <2>1. wire' \in [Ends -> Seq(Chunk)]
    BY <1>4, <1>7, <1>10 DEF TypeOK
  <2>2. writes' \in [Ends -> Seq(Write)]
    BY <1>4, <1>7, <1>8, <1>9 DEF TypeOK
  <2> QED BY <1>2, <1>4, <2>1, <2>2 DEF TypeOK
<1>12. LinkState' /\ ReadArmed' /\ DeliveredInOrder'
  <2>1. DeliveredInOrder'
    BY <1>2, DeliveredFrame DEF StreamInv
  <2>2. LinkState' /\ ReadArmed'
    BY <1>2 DEF StreamInv, LinkState, ReadArmed, Reading, IsConnected
  <2> QED BY <2>1, <2>2
<1>13. ASSUME NEW f \in Ends PROVE Untouched(f)' /\ SendOrder(f)' /\ ReadBuffers(f)' /\ KeepsBody(f)'
  <2>1. Untouched(f)'
    BY <1>2, <1>3, <1>8 DEF StreamInv, Untouched
  <2>2. SendOrder(f)'
    BY <1>2, SendOrderFrame DEF StreamInv
  <2>3. ReadBuffers(f)'
    BY <1>2 DEF StreamInv, ReadBuffers, BodyIsRead, NotStarted
  <2>4. KeepsBody(f)'
    BY <1>2, BodyFrame DEF StreamInv, BodyIsRead
  <2> QED BY <2>1, <2>2, <2>3, <2>4
<1>14. ASSUME NEW f \in Ends PROVE WriteChain(f)'
  <2>1. CASE f = e
    BY <1>2, <1>3, <1>5, <1>9, <2>1 DEF WriteChain
  <2>2. CASE f # e
    BY <1>2, <1>8, <2>2 DEF StreamInv, WriteChain, IsConnected
  <2> QED BY <2>1, <2>2
<1>15. ASSUME NEW g \in Ends PROVE CanRead(g)' = CanRead(g) /\ ToRead(g)' = ToRead(g)
  BY <1>2 DEF CanRead, ToRead, NotStarted
<1>16. ASSUME NEW f \in Ends PROVE WireOrder(f)'
  <2>1. CASE f = e
    <3>1. /\ CanWrite(e) /\ ToWrite(e) = Position(c)
          /\ CanWrite(e)' /\ ToWrite(e)' = PositionAfter(c)
      BY <1>1, <1>2, <1>3, <1>5, <1>6, <1>9
         DEF CanWrite, ToWrite, Position, PositionAfter
    <3>2. WireOrder(e)
      BY DEF StreamInv
    <3>3. /\ c.msg.id <= Len(sent[e]) /\ c.msg = sent[e][c.msg.id]
      <4>1. InOrder(sent[e], posted[e], outcome[e])
        BY DEF StreamInv, SendOrder
      <4>2. Head(outcome[e]).id \in 1..Len(sent[e])
            /\ Head(outcome[e]) = sent[e][Head(outcome[e]).id]
        BY <1>3, <1>4, <4>1, FrontMessage
      <4> QED BY <1>3, <1>4, <1>6, <4>2, LenProperties
    <3>4. w # <<>> => Position(c) = PositionAfter(w[Len(w)])
      BY <3>1, <3>2 DEF WireOrder
    <3>5. Consecutive(Append(w, c), sent[e])
      BY <1>4, <1>6, <3>2, <3>3, <3>4, ConsecutiveAppend DEF WireOrder
    <3>6. Append(w, c)[Len(Append(w, c))] = c
          /\ (w = <<>> => Append(w, c)[1] = c) /\ (w # <<>> => Append(w, c)[1] = w[1])
      <4>1. Len(w) \in Nat /\ (w = <<>> => Len(w) = 0) /\ (w # <<>> => 1 \in 1..Len(w))
        BY <1>4, TailFacts
      <4> QED BY <1>4, <1>6, <4>1, AppendFacts
    <3>7. CanRead(Peer(e)) => Position(Append(w, c)[1]) = ToRead(Peer(e))
      BY <3>1, <3>2, <3>6 DEF WireOrder
    <3>8. CanRead(Peer(e))' = CanRead(Peer(e)) /\ ToRead(Peer(e))' = ToRead(Peer(e))
      BY <1>15, PeerFacts
    <3>9. Consecutive(wire[e], sent[e])'
      BY <1>2, <1>8, <3>5 DEF Consecutive, Position, PositionAfter
    <3>10. Position(wire[e][1])' = Position(Append(w, c)[1])
           /\ PositionAfter(wire[e][Len(wire[e])])' = PositionAfter(c)
      BY <1>8, <3>6 DEF Position, PositionAfter
    <3> HIDE DEF w
    <3> QED BY <1>8, <1>10, <2>1, <3>1, <3>7, <3>8, <3>9, <3>10 DEF WireOrder
  <2>2. CASE f # e
    <3>1. WireOrder(f) /\ Consecutive(wire[f], sent'[f])
      BY <1>2 DEF StreamInv, WireOrder
    <3>2. CanWrite(f)' => CanWrite(f) /\ ToWrite(f)' = ToWrite(f)
      BY <1>2, <1>8, <2>2, WriterFrame
    <3> QED BY <1>8, <1>15, <2>2, <3>1, <3>2, PeerFacts, WireFrame
  <2> QED BY <2>1, <2>2
<1> QED BY <1>11, <1>12, <1>13, <1>14, <1>16 DEF StreamInv

\* A step that moves the read of one end keeps the invariant if it leaves that
\* end's buffers, the wire towards it and what it delivered consistent.
LEMMA ReaderStep ==
  ASSUME StreamInv, NEW e \in Ends,
         UNCHANGED <<connect, link, context, sock, closing, posted, outcome,
                     writes, sent>>,
         TypeOK', ~NotStarted(e), reads'[e].part # "none",
         \A f \in Ends \ {e} : UNCHANGED <<reads[f], temp[f], received[f]>>,
         wire'[e] = wire[e],
         ReadBuffers(e)', KeepsBody(e)', WireOrder(Peer(e))', DeliveredInOrder'
  PROVE  StreamInv'
<1>1. LinkState' /\ ReadArmed'
  <2>1. LinkState'
    BY DEF StreamInv, LinkState
  <2>2. ReadArmed'
    BY DEF StreamInv, ReadArmed, Reading, IsConnected
  <2> QED BY <2>1, <2>2
<1>2. ASSUME NEW f \in Ends PROVE Untouched(f)' /\ SendOrder(f)' /\ WriteChain(f)'
  <2>1. SendOrder(f)'
    BY SendOrderFrame DEF StreamInv
  <2> QED BY <2>1 DEF StreamInv, Untouched, WriteChain, IsConnected
<1>3. ASSUME NEW f \in Ends PROVE ReadBuffers(f)' /\ KeepsBody(f)'
  <2>1. CASE f # e
    <3>0. /\ ReadBuffers(f) /\ NotStarted(f)' = NotStarted(f)
          /\ UNCHANGED <<reads[f], temp[f], received[f]>> /\ sent' = sent
      BY <2>1 DEF StreamInv, NotStarted
    <3>1. ReadBuffers(f)'
      BY <3>0 DEF ReadBuffers, BodyIsRead
    <3>2. KeepsBody(f)'
      BY <2>1, BodyFrame DEF StreamInv, BodyIsRead
    <3> QED BY <3>1, <3>2
  <2> QED BY <2>1
<1>4. ASSUME NEW f \in Ends PROVE WireOrder(f)'
  <2>1. CASE f = e
    <3>1. CanWrite(e)' => CanWrite(e) /\ ToWrite(e)' = ToWrite(e)
      BY WriterFrame
    <3>2. CanRead(Peer(e))' => CanRead(Peer(e)) /\ ToRead(Peer(e))' = ToRead(Peer(e))
      BY PeerFacts DEF CanRead, ToRead, NotStarted
    <3>3. WireOrder(e) /\ Consecutive(wire[e], sent'[e])
      BY DEF StreamInv, WireOrder
    <3> QED BY <2>1, <3>1, <3>2, <3>3, WireFrame
  <2>2. CASE f # e
    <3>1. f = Peer(e)
      BY <2>2, EndsAssumption DEF Ends, Peer
    <3> QED BY <3>1
  <2> QED BY <2>1, <2>2
<1> QED BY <1>1, <1>2, <1>3, <1>4 DEF StreamInv

\* An end that has an outstanding read has begun reading.
LEMMA ReadingEnd ==
  ASSUME StreamInv, NEW e \in Ends, reads[e].part # "none"
  PROVE  /\ ~NotStarted(e) /\ reads[e].part \in {"header", "body"}
         /\ Len(received[e]) + 1 \in Nat \ {0}
         /\ Len(sent[Peer(e)]) \in Nat
         /\ sent[Peer(e)] \in Seq(Message) /\ wire[Peer(e)] \in Seq(Chunk)
<1>1. TypeOK /\ ReadBuffers(e)
  BY DEF StreamInv
<1>2. sent[Peer(e)] \in Seq(Message) /\ wire[Peer(e)] \in Seq(Chunk)
  BY <1>1, PeerFacts DEF TypeOK
<1>3. reads[e].part \in {"header", "body"}
  BY <1>1 DEF TypeOK
<1>4. ~NotStarted(e)
  BY <1>1 DEF ReadBuffers, BodyIsRead
<1>5. Len(received[e]) + 1 \in Nat \ {0}
  BY <1>1, ReceivedLength
<1> QED BY <1>2, <1>3, <1>4, <1>5, LenProperties

\* The chunk read is the one the read was issued for.
LEMMA TransferReadKeeps ==
  ASSUME StreamInv, NEW e \in Ends, TransferRead(e)
  PROVE  StreamInv'
<1> DEFINE p == Peer(e)
           w == wire[p]
           c == w[1]
           n == Len(received[e]) + 1
<1>1. /\ reads[e].part # "none" /\ reads[e].status = "issued" /\ w # <<>>
      /\ wire' = [wire EXCEPT ![p] = Tail(w)]
      /\ temp' = [temp EXCEPT ![e] =
                    IF reads[e].part = "header"
                      THEN [header |-> Head(w), body |-> temp[e].body]
                      ELSE [header |-> temp[e].header, body |-> Head(w)]]
      /\ reads' = [reads EXCEPT ![e] = [part |-> reads[e].part, status |-> "done"]]
  BY DEF TransferRead
<1>2. UNCHANGED <<connect, link, context, sock, closing, posted, outcome,
                  writes, sent, received>>
  BY DEF TransferRead
<1>3. /\ TypeOK /\ ReadBuffers(e) /\ WireOrder(p) /\ p \in Ends /\ p # e
  BY PeerFacts DEF StreamInv
<1>4. /\ ~NotStarted(e) /\ reads[e].part \in {"header", "body"}
      /\ n \in Nat \ {0} /\ Len(sent[p]) \in Nat
      /\ sent[p] \in Seq(Message) /\ w \in Seq(Chunk)
  BY <1>1, ReadingEnd
<1>5. /\ c \in Chunk /\ Head(w) = c /\ Tail(w) \in Seq(Chunk)
      /\ c = [part |-> c.part, msg |-> c.msg]
      /\ c.part \in {"header", "body"} /\ c.msg.id \in Nat \ {0}
  <2>1. w \in Seq(Chunk) /\ w # <<>>
    BY <1>1, <1>4
  <2>2. c \in Chunk /\ Head(w) = c /\ Tail(w) \in Seq(Chunk)
    BY <2>1, TailFacts
  <2>3. c \in Chunk => /\ c = [part |-> c.part, msg |-> c.msg]
                       /\ c.part \in {"header", "body"}
                       /\ c.msg \in Message
    BY DEF Chunk
  <2>4. c.msg \in Message => c.msg.id \in Nat \ {0}
    BY DEF Message
  <2> QED BY <2>2, <2>3, <2>4
<1>6. /\ wire'[p] = Tail(w) /\ wire'[e] = wire[e]
      /\ reads'[e].part = reads[e].part /\ reads'[e].status = "done"
      /\ temp'[e] = IF reads[e].part = "header"
                      THEN [header |-> c, body |-> temp[e].body]
                      ELSE [header |-> temp[e].header, body |-> c]
      /\ \A f \in Ends \ {e} : UNCHANGED <<reads[f], temp[f]>>
  BY <1>1, <1>3, <1>5 DEF TypeOK
<1>7. TypeOK'
  <2>1. wire' \in [Ends -> Seq(Chunk)]
    BY <1>1, <1>3, <1>5 DEF TypeOK
  <2>2. temp' \in [Ends -> [header : Chunk \cup {NoChunk}, body : Chunk \cup {NoChunk}]]
    BY <1>1, <1>3, <1>5 DEF TypeOK
  <2>3. reads' \in [Ends -> [part : {"none", "header", "body"}, status : Status]]
    BY <1>1, <1>3, <1>4 DEF TypeOK, Status
  <2> QED BY <1>2, <1>3, <2>1, <2>2, <2>3 DEF TypeOK
\* where the reader stood is where the chunk is
<1>8. /\ CanRead(e) /\ Position(c) = ToRead(e)
      /\ c.msg.id <= Len(sent[p]) /\ c.msg = sent[p][c.msg.id]
      /\ ToRead(e) = 2 * n + (IF reads[e].part = "body" THEN 1 ELSE 0)
  <2>1. CanRead(e) /\ ToRead(e) = 2 * n + (IF reads[e].part = "body" THEN 1 ELSE 0)
    BY <1>1 DEF CanRead, ToRead
  <2>2. Peer(p) = e /\ 1 \in DOMAIN w
    BY <1>1, <1>4, PeerFacts, TailFacts
  <2> QED BY <1>1, <1>3, <2>1, <2>2 DEF WireOrder, Consecutive
<1>9. c.part = reads[e].part /\ c.msg.id = n
  <2>1. Position(c) = 2 * c.msg.id + (IF c.part = "body" THEN 1 ELSE 0)
    BY DEF Position
  <2> HIDE DEF c, n
  <2> QED BY <1>4, <1>5, <1>8, <2>1
<1>10. c = [part |-> reads[e].part, msg |-> sent[p][n]] /\ n <= Len(sent[p])
  BY <1>5, <1>8, <1>9
<1>11. reads[e].part = "body" =>
         temp[e].header = [part |-> "header", msg |-> sent[p][n]] /\ sent[p][n].size # 0
  BY <1>3 DEF ReadBuffers, BodyIsRead
<1>12. /\ temp'[e].header = [part |-> "header", msg |-> sent[p][n]]
       /\ reads[e].part = "body" => temp'[e].body = [part |-> "body", msg |-> sent[p][n]]
  BY <1>4, <1>6, <1>10, <1>11
<1>13. ReadBuffers(e)'
  BY <1>2, <1>4, <1>6, <1>10, <1>11, <1>12 DEF ReadBuffers, BodyIsRead, NotStarted
<1>14. CanRead(e)' /\ ToRead(e)' = PositionAfter(c)
  <2>1. CanRead(e)'
    BY <1>4, <1>6 DEF CanRead
  <2>2. CASE reads[e].part = "header"
    <3>1. /\ temp'[e].header.msg = sent[p][n] /\ c.msg = sent[p][n] /\ c.part = "header"
      BY <1>10, <1>12, <2>2
    <3>2. ToRead(e)' = IF sent[p][n].size # 0 THEN 2 * n + 1 ELSE 2 * n + 2
      BY <1>2, <1>6, <2>2, <3>1 DEF ToRead
    <3>3. PositionAfter(c) = IF sent[p][n].size # 0 THEN 2 * n + 0 + 1 ELSE 2 * n + 2
      BY <1>9, <3>1 DEF PositionAfter, Position
    <3> QED BY <1>4, <2>1, <3>2, <3>3
  <2>3. CASE reads[e].part = "body"
    BY <1>2, <1>6, <1>9, <2>1, <2>3 DEF ToRead, PositionAfter
  <2> QED BY <1>4, <2>2, <2>3
<1>15. WireOrder(p)'
  <2>1. /\ Consecutive(Tail(w), sent[p])
        /\ Tail(w) # <<>> =>
             Position(Tail(w)[1]) = PositionAfter(c) /\ Tail(w)[Len(Tail(w))] = w[Len(w)]
        /\ Tail(w) = <<>> => w[Len(w)] = c
    BY <1>1, <1>3, <1>4, ConsecutiveTail DEF WireOrder
  <2>2. CanWrite(p)' = CanWrite(p) /\ ToWrite(p)' = ToWrite(p)
    BY <1>2, <1>3, WriterFrame
  <2>3. CanWrite(p) => PositionAfter(w[Len(w)]) = ToWrite(p)
    BY <1>1, <1>3 DEF WireOrder
  <2>4. Peer(p) = e
    BY PeerFacts
  <2>5. Consecutive(wire[p], sent[p])'
    BY ZenonT(40), <1>2, <1>6, <2>1 DEF Consecutive, Position, PositionAfter
  <2>6. CASE Tail(w) = <<>>
    <3>1. wire'[p] = <<>> /\ (CanWrite(p)' => ToWrite(p)' = ToRead(e)')
      BY <1>6, <1>14, <2>1, <2>2, <2>3, <2>6
    <3> QED BY <2>4, <2>5, <3>1 DEF WireOrder
  <2>7. CASE Tail(w) # <<>>
    <3>1. /\ wire'[p] # <<>> /\ Position(wire[p][1])' = ToRead(e)'
      BY <1>6, <1>14, <2>1, <2>7 DEF Position
    <3>2. CanWrite(p)' => PositionAfter(wire[p][Len(wire[p])])' = ToWrite(p)'
      BY <1>6, <2>1, <2>2, <2>3, <2>7 DEF Position, PositionAfter
    <3> QED BY <2>4, <2>5, <3>1, <3>2 DEF WireOrder
  <2> QED BY <2>6, <2>7
<1>16. DeliveredInOrder'
  BY <1>2, DeliveredFrame DEF StreamInv
<1>17. KeepsBody(e)'
  <2>1. CASE reads[e].part = "header"
    <3>1. KeepsBody(e) /\ ~BodyIsRead(e) /\ temp'[e].body = temp[e].body
      BY <1>1, <1>6, <2>1 DEF StreamInv, BodyIsRead
    <3> QED BY <1>2, <3>1 DEF KeepsBody
  <2>2. CASE reads[e].part = "body"
    BY <1>6, <2>2 DEF KeepsBody, BodyIsRead
  <2> QED BY <1>4, <2>1, <2>2
<1> QED BY <1>2, <1>4, <1>6, <1>7, <1>13, <1>15, <1>16, <1>17, ReaderStep

\* Pushing temp_message_ delivers the next message, if it was read completely.
LEMMA Delivers ==
  ASSUME StreamInv, NEW e \in Ends, UNCHANGED sent, AddNewMessage(e),
         LET n == Len(received[e]) + 1
             m == sent[Peer(e)][n]
         IN  /\ n <= Len(sent[Peer(e)])
             /\ temp[e].header = [part |-> "header", msg |-> m]
             /\ LastBody(temp[e].body, sent[Peer(e)], n)
  PROVE  /\ DeliveredInOrder'
         /\ received' \in [Ends -> Seq([header : Chunk, body : Chunk \cup {NoChunk}])]
         /\ Len(received'[e]) = Len(received[e]) + 1
         /\ \A f \in Ends \ {e} : received'[f] = received[f]
<1> DEFINE n == Len(received[e]) + 1
           R == [header : Chunk, body : Chunk \cup {NoChunk}]
           t == temp[e]
<1>1. /\ TypeOK /\ DeliveredInOrder /\ received[e] \in Seq(R)
      /\ Len(received[e]) \in Nat /\ DOMAIN received[e] = 1..Len(received[e])
      /\ Peer(e) \in Ends /\ Len(sent[Peer(e)]) \in Nat /\ sent[Peer(e)] \in Seq(Message)
  BY ReceivedLength, PeerFacts, LenProperties DEF StreamInv, TypeOK
<1>2. t \in R
  <2>1. sent[Peer(e)][n] \in Message
    BY <1>1, ElementOfSeq
  <2>2. t.header \in Chunk
    BY <2>1 DEF Chunk
  <2>3. t \in [header : Chunk \cup {NoChunk}, body : Chunk \cup {NoChunk}]
    BY <1>1 DEF TypeOK
  <2> QED BY <2>2, <2>3
<1>3. /\ received' = [received EXCEPT ![e] = Append(received[e], t)]
  BY DEF AddNewMessage
<1> HIDE DEF R
<1>4. /\ Append(received[e], t) \in Seq(R)
      /\ Len(Append(received[e], t)) = n
      /\ DOMAIN Append(received[e], t) = 1..n
      /\ \A i \in 1..Len(received[e]) : Append(received[e], t)[i] = received[e][i]
      /\ Append(received[e], t)[n] = t
  BY <1>1, <1>2, AppendFacts
<1>5. received' \in [Ends -> Seq(R)] /\ received'[e] = Append(received[e], t)
      /\ \A f \in Ends \ {e} : received'[f] = received[f]
  BY <1>1, <1>3, <1>4 DEF TypeOK, R
<1>6. ASSUME NEW f \in Ends, NEW i \in DOMAIN received'[f]
      PROVE  LET m == sent[Peer(f)][i]
             IN  /\ i <= Len(sent[Peer(f)])
                 /\ received'[f][i].header = [part |-> "header", msg |-> m]
                 /\ LastBody(received'[f][i].body, sent[Peer(f)], i)
  <2> DEFINE Right(r, messages) ==
                /\ r.header = [part |-> "header", msg |-> messages[i]]
                /\ LastBody(r.body, messages, i)
  <2>0. ASSUME i \in DOMAIN received[f], received'[f][i] = received[f][i]
        PROVE  i <= Len(sent[Peer(f)]) /\ Right(received'[f][i], sent[Peer(f)])
    <3>1. i <= Len(sent[Peer(f)]) /\ Right(received[f][i], sent[Peer(f)])
      BY <1>1, <2>0 DEF DeliveredInOrder
    <3> QED BY <2>0, <3>1
  <2>1. CASE f # e
    <3>1. i \in DOMAIN received[f] /\ received'[f][i] = received[f][i]
      BY <1>5, <2>1
    <3> QED BY <2>0, <3>1
  <2>2. CASE f = e /\ i \in 1..Len(received[e])
    <3>1. i \in DOMAIN received[f] /\ received'[f][i] = received[f][i]
      BY <1>1, <1>4, <1>5, <2>2
    <3> QED BY <2>0, <3>1
  <2>3. CASE f = e /\ i = n
    BY <1>4, <1>5, <2>3
  <2>4. f = e => i \in 1..n
    BY <1>4, <1>5
  <2> QED BY <1>1, <2>1, <2>2, <2>3, <2>4
<1>7. DeliveredInOrder'
  BY <1>6 DEF DeliveredInOrder
<1> QED BY <1>4, <1>5, <1>7 DEF R

\* A message without a body is delivered with its header; otherwise its body
\* is read next.
LEMMA HeaderReadKeeps ==
  ASSUME StreamInv, NEW e \in Ends, HeaderRead(e)
  PROVE  StreamInv'
<1> DEFINE p == Peer(e)
           n == Len(received[e]) + 1
           m == sent[p][n]
<1>1. /\ reads[e].part = "header" /\ reads[e].status = "done"
      /\ reads' = [reads EXCEPT ![e] = ReadAfterHeader(temp[e].header)]
      /\ IF temp[e].header.msg.size = 0 THEN AddNewMessage(e) ELSE UNCHANGED received
      /\ UNCHANGED <<connect, link, context, sock, closing, posted, outcome,
                     writes, wire, temp, sent>>
  BY DEF HeaderRead
<1>2. /\ TypeOK /\ ReadBuffers(e) /\ WireOrder(p) /\ p \in Ends /\ p # e /\ Peer(p) = e
  BY PeerFacts DEF StreamInv
<1>3. /\ ~NotStarted(e) /\ n \in Nat \ {0} /\ Len(sent[p]) \in Nat
  BY <1>1, ReadingEnd
<1>4. n <= Len(sent[p]) /\ temp[e].header = [part |-> "header", msg |-> m]
      /\ temp[e].header.msg = m
  BY <1>1, <1>2 DEF ReadBuffers, BodyIsRead
<1>5. /\ reads'[e].part = (IF m.size = 0 THEN "header" ELSE "body")
      /\ reads'[e].status = "issued"
      /\ reads' \in [Ends -> [part : {"none", "header", "body"}, status : Status]]
      /\ \A f \in Ends \ {e} : reads'[f] = reads[f]
  BY <1>1, <1>2, <1>4 DEF TypeOK, ReadAfterHeader, Read, Status
<1>11. /\ LastBody(temp[e].body, sent[p], n - 1)
       /\ m.size = 0 => LastBody(temp[e].body, sent[p], n)
  <2> DEFINE k == Len(received[e])
  <2>1. KeepsBody(e) /\ ~BodyIsRead(e) /\ k \in Nat
    BY <1>1, <1>2, ReceivedLength DEF StreamInv, BodyIsRead
  <2>2. LastBody(temp[e].body, sent[p], k)
    BY <2>1 DEF KeepsBody
  <2>3. n - 1 = k /\ n = k + 1
    BY <2>1
  <2> HIDE DEF k
  <2>4. sent[p][k + 1].size = 0 => LastBody(temp[e].body, sent[p], k + 1)
    BY <2>1, <2>2, LastBodyKept
  <2> QED BY <2>2, <2>3, <2>4
<1>6. /\ received' \in [Ends -> Seq([header : Chunk, body : Chunk \cup {NoChunk}])]
      /\ Len(received'[e]) = IF m.size = 0 THEN n ELSE n - 1
      /\ DeliveredInOrder'
      /\ \A f \in Ends \ {e} : received'[f] = received[f]
  <2>1. CASE m.size = 0
    <3>1. AddNewMessage(e)
      BY <1>1, <1>4, <2>1
    <3>2. LastBody(temp[e].body, sent[p], n)
      BY <1>11, <2>1
    <3> QED BY <1>1, <1>4, <2>1, <3>1, <3>2, Delivers
  <2>2. CASE m.size # 0
    <3>1. received' = received
      BY <1>1, <1>4, <2>2
    <3>2. DeliveredInOrder'
      BY <1>1, <3>1, DeliveredFrame DEF StreamInv
    <3>3. received' \in [Ends -> Seq([header : Chunk, body : Chunk \cup {NoChunk}])]
      BY <1>2, <3>1 DEF TypeOK
    <3>4. Len(received'[e]) = n - 1
      <4>1. Len(received[e]) \in Nat
        BY ReceivedLength DEF StreamInv
      <4> QED BY <3>1, <4>1
    <3> QED BY <2>2, <3>1, <3>2, <3>3, <3>4
  <2> QED BY <2>1, <2>2
<1>7. TypeOK'
  BY <1>1, <1>2, <1>5, <1>6 DEF TypeOK
<1>8. ReadBuffers(e)'
  <2>1. CASE m.size = 0
    BY <1>1, <1>3, <1>5, <2>1 DEF ReadBuffers, BodyIsRead, NotStarted
  <2>2. CASE m.size # 0
    <3>1. received' = received
      BY <1>1, <1>4, <2>2
    <3> QED BY <1>1, <1>3, <1>4, <1>5, <2>2, <3>1 DEF ReadBuffers, BodyIsRead, NotStarted
  <2> QED BY <2>1, <2>2
<1>9. CanRead(e) /\ ToRead(e)' = ToRead(e)
  <2>1. CanRead(e) /\ ToRead(e) = IF m.size # 0 THEN 2 * n + 1 ELSE 2 * n + 2
    BY <1>1, <1>4 DEF CanRead, ToRead
  <2>2. CASE m.size = 0
    <3>1. ToRead(e)' = 2 * (n + 1) + 0
      BY <1>5, <1>6, <2>2 DEF ToRead
    <3> QED BY <1>3, <2>1, <2>2, <3>1
  <2>3. CASE m.size # 0
    <3>1. received' = received
      BY <1>1, <1>4, <2>3
    <3>2. ToRead(e)' = 2 * n + 1
      BY <1>5, <2>3, <3>1 DEF ToRead
    <3> QED BY <2>1, <2>3, <3>2
  <2> QED BY <2>2, <2>3
<1>10. WireOrder(p)'
  <2>1. CanWrite(p)' => CanWrite(p) /\ ToWrite(p)' = ToWrite(p)
    BY <1>1, <1>2, WriterFrame
  <2>2. Consecutive(wire[p], sent'[p])
    BY <1>1, <1>2 DEF WireOrder
  <2> QED BY <1>1, <1>2, <1>9, <2>1, <2>2, WireFrame
<1>12. KeepsBody(e)'
  BY <1>1, <1>3, <1>4, <1>6, <1>11 DEF KeepsBody
<1> QED BY <1>1, <1>3, <1>5, <1>6, <1>7, <1>8, <1>10, <1>12, ReaderStep

\* A message is delivered with the body read for it.
LEMMA BodyReadKeeps ==
  ASSUME StreamInv, NEW e \in Ends, BodyRead(e)
  PROVE  StreamInv'
<1> DEFINE p == Peer(e)
           n == Len(received[e]) + 1
           m == sent[p][n]
<1>1. /\ reads[e].part = "body" /\ reads[e].status = "done"
      /\ reads' = [reads EXCEPT ![e] = [part |-> "header", status |-> "issued"]]
      /\ AddNewMessage(e)
      /\ UNCHANGED <<connect, link, context, sock, closing, posted, outcome,
                     writes, wire, temp, sent>>
  BY DEF BodyRead, ReadAfterBody, Read
<1>2. /\ TypeOK /\ ReadBuffers(e) /\ WireOrder(p) /\ p \in Ends /\ p # e /\ Peer(p) = e
  BY PeerFacts DEF StreamInv
<1>3. /\ ~NotStarted(e) /\ n \in Nat \ {0} /\ Len(sent[p]) \in Nat
  BY <1>1, ReadingEnd
<1>4. /\ n <= Len(sent[p]) /\ temp[e].header = [part |-> "header", msg |-> m]
      /\ temp[e].body = [part |-> "body", msg |-> m] /\ m.size # 0
  BY <1>1, <1>2 DEF ReadBuffers, BodyIsRead
<1>11. LastBody(temp[e].body, sent[p], n)
  <2> HIDE DEF n
  <2> QED BY <1>3, <1>4, LastBodyOwn
<1>5. /\ reads'[e].part = "header" /\ reads'[e].status = "issued"
      /\ reads' \in [Ends -> [part : {"none", "header", "body"}, status : Status]]
      /\ \A f \in Ends \ {e} : reads'[f] = reads[f]
  BY <1>1, <1>2 DEF TypeOK, Status
<1>6. /\ received' \in [Ends -> Seq([header : Chunk, body : Chunk \cup {NoChunk}])]
      /\ Len(received'[e]) = n
      /\ DeliveredInOrder'
      /\ \A f \in Ends \ {e} : received'[f] = received[f]
  BY <1>1, <1>4, <1>11, Delivers
<1>7. TypeOK'
  BY <1>1, <1>2, <1>5, <1>6 DEF TypeOK
<1>8. ReadBuffers(e)'
  BY <1>1, <1>3, <1>5 DEF ReadBuffers, BodyIsRead, NotStarted
<1>9. CanRead(e) /\ ToRead(e)' = ToRead(e)
  <2>1. CanRead(e) /\ ToRead(e) = 2 * n + 2
    BY <1>1 DEF CanRead, ToRead
  <2>2. ToRead(e)' = 2 * (n + 1) + 0
    BY <1>5, <1>6 DEF ToRead
  <2> QED BY <1>3, <2>1, <2>2
<1>10. WireOrder(p)'
  <2>1. CanWrite(p)' => CanWrite(p) /\ ToWrite(p)' = ToWrite(p)
    BY <1>1, <1>2, WriterFrame
  <2>2. Consecutive(wire[p], sent'[p])
    BY <1>1, <1>2 DEF WireOrder
  <2> QED BY <1>1, <1>2, <1>9, <2>1, <2>2, WireFrame
<1>12. KeepsBody(e)'
  BY <1>1, <1>4, <1>6, <1>11 DEF KeepsBody
<1> QED BY <1>1, <1>3, <1>5, <1>6, <1>7, <1>8, <1>10, <1>12, ReaderStep

-----------------------------------------------------------------------------
(* The theorems.                                                           *)

\* Before anything happens the invariant holds.
LEMMA InitInv == Init => StreamInv
<1> SUFFICES ASSUME Init PROVE StreamInv
  OBVIOUS
<1>1. TypeOK
  BY DEF Init, TypeOK, Ends, NoRead, Status
<1>2. LinkState /\ ReadArmed /\ DeliveredInOrder
  BY EndsAssumption DEF Init, LinkState, ReadArmed, DeliveredInOrder, IsConnected, Ends
<1>3. ASSUME NEW e \in Ends
      PROVE  /\ Untouched(e) /\ SendOrder(e) /\ WriteChain(e)
             /\ ReadBuffers(e) /\ KeepsBody(e) /\ WireOrder(e)
  <2>1. /\ sent[e] = <<>> /\ posted[e] = <<>> /\ outcome[e] = <<>>
        /\ writes[e] = <<>> /\ wire[e] = <<>> /\ closing[e] = FALSE
        /\ reads[e].part = "none" /\ reads[e].status = "done"
        /\ received[e] = <<>>
    BY <1>3 DEF Init, NoRead
  <2>2. received[Peer(e)] = <<>> /\ reads[Peer(e)].part = "none"
    BY PeerFacts DEF Init, NoRead
  <2>3. Untouched(e) /\ SendOrder(e) /\ WriteChain(e)
    BY <2>1 DEF Untouched, SendOrder, InOrder, WriteChain
  <2>4. ReadBuffers(e)
    BY <2>1 DEF ReadBuffers, BodyIsRead
  <2>5. WireOrder(e)
    <3>1. ToWrite(e) = 2 /\ ToRead(Peer(e)) = 2
      BY <2>1, <2>2 DEF ToWrite, Popped, ToRead
    <3> QED BY <2>1, <3>1 DEF WireOrder, Consecutive
  <2>6. KeepsBody(e)
    <3>1. temp[e].body = NoChunk /\ sent[Peer(e)] = <<>>
      BY <1>3, PeerFacts DEF Init
    <3>2. LastBody(NoChunk, <<>>, 0)
      BY DEF LastBody
    <3> QED BY <2>1, <3>1, <3>2 DEF KeepsBody
  <2> QED BY <2>3, <2>4, <2>5, <2>6
<1> QED BY <1>1, <1>2, <1>3 DEF StreamInv

\* Every step keeps it.
LEMMA NextInv == StreamInv /\ [Next]_vars => StreamInv'
<1> SUFFICES ASSUME StreamInv, [Next]_vars PROVE StreamInv'
  OBVIOUS
<1>1. CASE ConnectToServer BY <1>1, ConnectToServerKeeps
<1>2. CASE Establish BY <1>2, EstablishKeeps
<1>3. CASE Refuse BY <1>3, RefuseKeeps
<1>4. CASE OnConnect BY <1>4, OnConnectKeeps
<1>5. CASE OnAccept BY <1>5, OnAcceptKeeps
<1>6. CASE Reset BY <1>6, ResetKeeps
<1>7. ASSUME NEW e \in Ends, NEW size \in Sizes, SendMessage(e, size) PROVE StreamInv'
  BY <1>7, SendMessageKeeps
<1>8. ASSUME NEW e \in Ends, IoThread(e) PROVE StreamInv'
  BY <1>8, RunSendKeeps, HeaderWrittenKeeps, BodyWrittenKeeps, WriteFailedKeeps,
     HeaderReadKeeps, BodyReadKeeps, ReadFailedKeeps DEF IoThread
<1>9. ASSUME NEW e \in Ends,
             TransferWrite(e) \/ FailWrite(e) \/ TransferRead(e) \/ FailRead(e)
      PROVE  StreamInv'
  BY <1>9, TransferWriteKeeps, FailWriteKeeps, TransferReadKeeps, FailReadKeeps
<1>10. ASSUME NEW e \in Ends, Disconnect(e) \/ StopContext(e) \/ RunClose(e)
       PROVE  StreamInv'
  BY <1>10, DisconnectKeeps, StopContextKeeps, RunCloseKeeps
<1>11. CASE UNCHANGED vars
  <2>1. UNCHANGED <<connect, link, context, sock, closing, posted, outcome, writes,
                    wire, reads, temp, sent, received>>
    BY <1>11 DEF vars
  <2>2. TypeOK' /\ LinkState' /\ ReadArmed'
    BY <2>1 DEF StreamInv, TypeOK, LinkState, ReadArmed, Reading, IsConnected
  <2>3. ASSUME NEW f \in Ends PROVE Untouched(f)' /\ WriteChain(f)' /\ ReadBuffers(f)'
    BY <2>1 DEF StreamInv, Untouched, WriteChain, ReadBuffers, BodyIsRead, NotStarted, IsConnected
  <2>4. ASSUME NEW f \in Ends PROVE CanRead(f)' => CanRead(f) /\ ToRead(f)' = ToRead(f)
    BY <2>1, ReaderFrame DEF NotStarted
  <2>5. ASSUME NEW f \in Ends PROVE BodyIsRead(f) => BodyIsRead(f)'
    BY <2>1 DEF BodyIsRead
  <2> QED BY <2>1, <2>2, <2>3, <2>4, <2>5, ControlFrame
<1> QED
  BY <1>1, <1>2, <1>3, <1>4, <1>5, <1>6, <1>7, <1>8, <1>9, <1>10, <1>11 DEF Next

\* The inductive invariant holds in every reachable state.
THEOREM StreamInvariant == Spec => []StreamInv
BY InitInv, NextInv, PTL DEF Spec

\* Every variable keeps its type; in particular a message is pushed to
\* income_messages_ only with a header read into it.
THEOREM TypeCorrect == Spec => []TypeOK
<1>1. StreamInv => TypeOK
  BY DEF StreamInv
<1> QED BY <1>1, StreamInvariant, PTL

\* A socket never has two async_writes outstanding.
THEOREM OneWriteAtATime == Spec => []OneWritePerSocket
<1>1. StreamInv => OneWritePerSocket
  <2> SUFFICES ASSUME StreamInv, NEW e \in Ends PROVE Len(writes[e]) <= 1
    BY DEF OneWritePerSocket
  <2>1. CASE writes[e] = <<>>
    BY <2>1
  <2>2. CASE writes[e] # <<>>
    <3>1. WriteChain(e)
      BY DEF StreamInv
    <3>2. Len(writes[e]) = 1
      BY <2>2, <3>1 DEF WriteChain
    <3> QED BY <3>2
  <2> QED BY <2>1, <2>2
<1> QED BY <1>1, StreamInvariant, PTL

\* The buffer of an outstanding async_write is the front of outcome_messages_,
\* which is not popped before the handler has run.
THEOREM WriteBufferKept == Spec => []WriteBufferStable
<1>1. StreamInv => WriteBufferStable
  <2> SUFFICES ASSUME StreamInv PROVE WriteBufferStable
    OBVIOUS
  <2>1. ASSUME NEW e \in Ends, NEW i \in DOMAIN writes[e]
        PROVE  outcome[e] # <<>> /\ writes[e][i].msg = Head(outcome[e])
    BY TheWrite
  <2> QED BY <2>1 DEF WriteBufferStable
<1> QED BY <1>1, StreamInvariant, PTL

\* No message is left in outcome_messages_ of an open socket without a write.
THEOREM QueueNeverStuck == Spec => []NoStuckQueue
<1>1. StreamInv => NoStuckQueue
  BY DEF StreamInv, WriteChain, NoStuckQueue
<1> QED BY <1>1, StreamInvariant, PTL

\* An open, established socket always has a read outstanding.
THEOREM ReadsArmed == Spec => []ReadArmed
<1>1. StreamInv => ReadArmed
  BY DEF StreamInv
<1> QED BY <1>1, StreamInvariant, PTL

\* The messages pushed to income_messages_ are, one by one, the first messages
\* handed to SendMessage at the other end: each with its header, and with its body
\* or, if it has none, with the body that temp_message_ had last, that of the last
\* message before it that had one.
THEOREM InOrderDelivery == Spec => []DeliveredInOrder
<1>1. StreamInv => DeliveredInOrder
  BY DEF StreamInv
<1> QED BY <1>1, StreamInvariant, PTL

\* The i-th message delivered is the i-th message sent, header and body
DeliveredWhole ==
  \A e \in Ends : \A i \in DOMAIN received[e] :
    /\ i <= Len(sent[Peer(e)])
    /\ received[e][i] = [header |-> [part |-> "header", msg |-> sent[Peer(e)][i]],
                         body |-> [part |-> "body", msg |-> sent[Peer(e)][i]]]

\* If no message is without a body, as the comments of connection.hpp (lines 61 and
\* 106) guarantee and the messages of the chat are, each arrives as it was sent.
COROLLARY WholeDelivery ==
  ASSUME 0 \notin Sizes
  PROVE  Spec => []DeliveredWhole
<1>1. StreamInv => DeliveredWhole
  <2> SUFFICES ASSUME StreamInv, NEW e \in Ends, NEW i \in DOMAIN received[e]
               PROVE  /\ i <= Len(sent[Peer(e)])
                      /\ received[e][i] =
                           [header |-> [part |-> "header", msg |-> sent[Peer(e)][i]],
                            body |-> [part |-> "body", msg |-> sent[Peer(e)][i]]]
    BY DEF DeliveredWhole
  <2>1. /\ i <= Len(sent[Peer(e)])
        /\ received[e][i].header = [part |-> "header", msg |-> sent[Peer(e)][i]]
        /\ LastBody(received[e][i].body, sent[Peer(e)], i)
    BY DEF StreamInv, DeliveredInOrder
  <2>2. i \in Nat \ {0} /\ received[e][i] \in [header : Chunk, body : Chunk \cup {NoChunk}]
    <3>1. received[e] \in Seq([header : Chunk, body : Chunk \cup {NoChunk}])
      BY DEF StreamInv, TypeOK
    <3> QED BY <3>1, ElementFacts
  <2>3. ASSUME NEW k \in 1..i PROVE sent[Peer(e)][k].size # 0
    <3>1. Peer(e) \in Ends /\ sent[Peer(e)] \in Seq(Message)
      BY PeerFacts DEF StreamInv, TypeOK
    <3>2. Len(sent[Peer(e)]) \in Nat
      BY <3>1, LenProperties
    <3>3. k \in DOMAIN sent[Peer(e)]
      BY <2>1, <2>2, <3>1, <3>2
    <3>4. sent[Peer(e)][k] \in Message
      BY <3>1, <3>3, ElementFacts
    <3> QED BY <3>4 DEF Message
  <2>4. PICK k \in 1..i :
          /\ received[e][i].body = [part |-> "body", msg |-> sent[Peer(e)][k]]
          /\ \A j \in (k + 1)..i : sent[Peer(e)][j].size = 0
    BY <2>1, <2>2, <2>3 DEF LastBody
  <2>5. k = i
    BY <2>2, <2>3, <2>4
  <2> QED BY <2>1, <2>2, <2>4, <2>5
<1> QED BY <1>1, StreamInvariant, PTL

-----------------------------------------------------------------------------
(* The link implements the channel.                                        *)

\* The messages of a queue with one more record are those it had and that one's.
LEMMA ArrivedAppend ==
  ASSUME NEW R, NEW r \in Seq(R), NEW t \in R
  PROVE  [i \in DOMAIN Append(r, t) |-> Append(r, t)[i].header.msg]
           = Append([i \in DOMAIN r |-> r[i].header.msg], t.header.msg)
<1> DEFINE M == {x.header.msg : x \in R}
           a == [i \in DOMAIN r |-> r[i].header.msg]
           b == [i \in DOMAIN Append(r, t) |-> Append(r, t)[i].header.msg]
<1>1. /\ DOMAIN r = 1..Len(r) /\ Len(r) \in Nat
      /\ \A i \in 1..Len(r) : r[i] \in R
  BY LenProperties, ElementOfSeq
<1>2. a \in [1..Len(r) -> M]
  BY <1>1
<1>3. a \in Seq(M) /\ Len(a) = Len(r)
  BY <1>1, <1>2, IsASeq, LenProperties
<1>4. t.header.msg \in M
  OBVIOUS
<1> HIDE DEF M
<1>5. /\ DOMAIN Append(a, t.header.msg) = 1..(Len(r) + 1)
      /\ \A i \in 1..Len(r) : Append(a, t.header.msg)[i] = a[i]
      /\ Append(a, t.header.msg)[Len(r) + 1] = t.header.msg
      /\ Append(a, t.header.msg) \in Seq(M)
  BY <1>3, <1>4, AppendProperties, LenProperties
<1>6. /\ DOMAIN Append(r, t) = 1..(Len(r) + 1)
      /\ \A i \in 1..Len(r) : Append(r, t)[i] = r[i]
      /\ Append(r, t)[Len(r) + 1] = t
  BY AppendProperties, LenProperties
<1> QED BY <1>1, <1>5, <1>6

\* Initially nothing is handed over and nothing has arrived.
LEMMA InitChannel == Init => Channel!Init
BY DEF Init, Channel!Init, Channel!Ends, Ends, Arrived

\* SendMessage hands a message over.
LEMMA SendHands ==
  ASSUME StreamInv, NEW e \in Ends, NEW size \in Sizes, SendMessage(e, size)
  PROVE  Channel!Hand(e)
<1> DEFINE n == Len(sent[e]) + 1
<1>1. sent[e] \in Seq(Message) /\ Len(sent[e]) \in Nat /\ MaxSends[e] \in Nat
  BY BoundsAssumption, LenProperties DEF StreamInv, TypeOK
<1>2. n \in 1..MaxSends[e]
  BY <1>1 DEF SendMessage
<1>3. [id |-> n, size |-> size] \in
        [id : UNION {1..MaxSends[f] : f \in Ends}, size : Sizes]
  BY <1>2
<1>4. /\ sent' = [sent EXCEPT ![e] = Append(@, [id |-> n, size |-> size])]
      /\ received' = received
  BY DEF SendMessage
<1>5. UNCHANGED [f \in Ends |-> Arrived(f)]
  BY <1>4 DEF Arrived
<1> QED BY <1>3, <1>4, <1>5 DEF Channel!Hand

\* AddNewMessage delivers the next message.
LEMMA AddDelivers ==
  ASSUME StreamInv, StreamInv', NEW e \in Ends, UNCHANGED sent, AddNewMessage(e)
  PROVE  Channel!Deliver(e)
<1> DEFINE R == [header : Chunk, body : Chunk \cup {NoChunk}]
           n == Len(received[e]) + 1
           arrived == [f \in Ends |-> Arrived(f)]
<1>1. /\ received[e] \in Seq(R) /\ Len(received[e]) \in Nat
      /\ received'[e] \in Seq(R) /\ received \in [Ends -> Seq(R)]
  BY LenProperties DEF StreamInv, TypeOK
<1>2. received' = [received EXCEPT ![e] = Append(@, temp[e])]
  BY DEF AddNewMessage
<1>3. received'[e] = Append(received[e], temp[e]) /\ temp[e] \in R
  <2>1. received'[e] = Append(received[e], temp[e])
    BY <1>1, <1>2
  <2>2. received'[e][n] = temp[e] /\ n \in DOMAIN received'[e]
    BY <1>1, <2>1
  <2>3. received'[e][n] \in R
    BY <1>1, <2>2, ElementOfSeq, LenProperties
  <2> QED BY <2>1, <2>2, <2>3
<1> HIDE DEF R
<1>4. /\ n \in DOMAIN received'[e] /\ received'[e][n] = temp[e]
      /\ Arrived(e)' = Append(Arrived(e), temp[e].header.msg)
  BY <1>1, <1>3, AppendFacts, ArrivedAppend DEF Arrived
<1>5. n <= Len(sent[Peer(e)]) /\ temp[e].header.msg = sent[Peer(e)][n]
  <2>1. /\ n <= Len(sent'[Peer(e)])
        /\ received'[e][n].header = [part |-> "header", msg |-> sent'[Peer(e)][n]]
    BY <1>4 DEF StreamInv, DeliveredInOrder
  <2> QED BY <1>4, <2>1
<1>6. Len(Arrived(e)) = n - 1
  BY <1>1, LenProperties DEF Arrived
<1>7. arrived' = [arrived EXCEPT ![e] = Append(@, sent[Peer(e)][Len(@) + 1])]
  <2>1. ASSUME NEW f \in Ends \ {e} PROVE Arrived(f)' = Arrived(f)
    BY <1>1, <1>2 DEF Arrived
  <2>2. Len(arrived[e]) + 1 = n
    BY <1>1, <1>6
  <2> QED BY <1>4, <1>5, <2>1, <2>2
<1>8. Channel!Peer(e) = Peer(e)
  BY DEF Channel!Peer, Peer
<1>9. Len(arrived[e]) < Len(sent[Channel!Peer(e)])
  <2>1. Len(sent[Peer(e)]) \in Nat
    BY PeerFacts, LenProperties DEF StreamInv, TypeOK
  <2> QED BY <1>1, <1>5, <1>6, <1>8, <2>1
<1> QED BY <1>7, <1>8, <1>9 DEF Channel!Deliver

\* Every step of the link is one of the channel, or none.
LEMMA StepChannel ==
  StreamInv /\ StreamInv' /\ [Next]_vars => [Channel!Next]_(Channel!vars)
<1> SUFFICES ASSUME StreamInv, StreamInv', [Next]_vars
             PROVE  [Channel!Next]_(Channel!vars)
  OBVIOUS
<1>1. ASSUME NEW e \in Ends, Channel!Hand(e) \/ Channel!Deliver(e) PROVE Channel!Next
  BY <1>1 DEF Channel!Next, Channel!Ends, Ends
<1>2. ASSUME UNCHANGED <<sent, received>> PROVE UNCHANGED Channel!vars
  BY <1>2 DEF Channel!vars, Arrived
<1>3. ASSUME NEW e \in Ends, NEW size \in Sizes, SendMessage(e, size)
      PROVE  [Channel!Next]_(Channel!vars)
  BY <1>1, <1>3, SendHands
<1>4. ASSUME NEW e \in Ends, HeaderRead(e) \/ BodyRead(e)
      PROVE  [Channel!Next]_(Channel!vars)
  <2>1. UNCHANGED sent /\ (AddNewMessage(e) \/ UNCHANGED received)
    BY <1>4 DEF HeaderRead, BodyRead
  <2> QED BY <1>1, <1>2, <2>1, AddDelivers
<1>5. CASE ConnectToServer \/ Establish \/ Refuse \/ OnConnect \/ OnAccept \/ Reset
  <2>1. UNCHANGED <<sent, received>>
    BY <1>5 DEF ConnectToServer, Establish, Refuse, OnConnect, OnAccept, Reset
  <2> QED BY <1>2, <2>1
<1>6. ASSUME NEW e \in Ends,
             RunSend(e) \/ HeaderWritten(e) \/ BodyWritten(e) \/ WriteFailed(e)
      PROVE  [Channel!Next]_(Channel!vars)
  <2>1. UNCHANGED <<sent, received>>
    BY <1>6 DEF RunSend, HeaderWritten, BodyWritten, WriteFailed
  <2> QED BY <1>2, <2>1
<1>7. ASSUME NEW e \in Ends,
             \/ TransferWrite(e) \/ FailWrite(e) \/ TransferRead(e) \/ FailRead(e)
             \/ ReadFailed(e) \/ Disconnect(e) \/ StopContext(e) \/ RunClose(e)
      PROVE  [Channel!Next]_(Channel!vars)
  <2>1. UNCHANGED <<sent, received>>
    BY <1>7 DEF TransferWrite, FailWrite, TransferRead, FailRead, ReadFailed,
                Disconnect, StopContext, RunClose
  <2> QED BY <1>2, <2>1
<1>8. CASE UNCHANGED vars
  BY <1>2, <1>8 DEF vars
<1> QED BY <1>3, <1>4, <1>5, <1>6, <1>7, <1>8 DEF Next, IoThread

\* With its asynchronous operations hidden, the link is a FIFO channel.
THEOREM ChannelImplemented == Spec => ImplementsChannel
BY InitChannel, StepChannel, StreamInvariant, PTL
   DEF Spec, ImplementsChannel, Channel!Spec

-----------------------------------------------------------------------------
(* The queue that Update takes messages out of.                            *)

\* The consumer is a thread, and no pushing thread.
LEMMA ConsumerApart ==
  /\ Consumer \in Threads
  /\ \A p \in Producers : p \in Threads /\ p # Consumer
BY ConsumerAssumption DEF Threads

\* An append leaves the front of a queue as it is.
LEMMA AppendKeepsFront ==
  ASSUME NEW S, NEW queue \in Seq(S), NEW m \in S
  PROVE  /\ Append(queue, m) # <<>>
         /\ queue # <<>> => Head(Append(queue, m)) = Head(queue)
BY AppendProperties

\* The first state satisfies the invariant.
LEMMA QueueInvInit == QueueInit => QueueInv
<1> SUFFICES ASSUME QueueInit PROVE QueueInv
    OBVIOUS
<1>1. QueueTypeOK
      BY DEF QueueInit, QueueTypeOK, Threads
<1>2. LockInv /\ PlaceInv /\ FrontStays
      BY ConsumerApart DEF QueueInit, LockInv, PlaceInv, FrontStays, Threads, Inside
<1> QED
    BY <1>1, <1>2 DEF QueueInv

\* A thread that gets the lock has it alone, and has read the deque as it is.
LEMMA LockStep ==
  ASSUME QueueInv, NEW t \in Threads, NEW from, NEW to \in Inside,
         Lock(t, from, to)
  PROVE  QueueTypeOK' /\ LockInv'
<1>1. QueueTypeOK'
      BY DEF QueueInv, Lock, QueueTypeOK, Inside
<1>2. LockInv'
      BY DEF QueueInv, Lock, CanLock, LockInv, QueueTypeOK
<1> QED
    BY <1>1, <1>2

\* A thread that unlocks leaves nobody under the lock.
LEMMA UnlockStep ==
  ASSUME QueueInv, NEW t \in Threads, NEW from \in Inside,
         NEW to \in {"out", "front", "copy", "handle"}, Unlock(t, from, to)
  PROVE  /\ LockInv'
         /\ lock = {t} /\ seen[t] = deque
         /\ lock' \subseteq Threads /\ pc' = [pc EXCEPT ![t] = to]
<1>1. lock = {t} /\ seen[t] = deque
      BY DEF QueueInv, Unlock, LockInv, QueueTypeOK
<1>2. lock' = {} /\ \A u \in Threads : pc'[u] \notin Inside
      BY <1>1 DEF QueueInv, Unlock, LockInv, QueueTypeOK, Inside
<1>3. LockInv'
      BY <1>2 DEF LockInv
<1> QED
    BY <1>1, <1>2, <1>3 DEF Unlock

\* A step of the consumer outside the lock leaves the lock to whoever has it.
LEMMA GoStep ==
  ASSUME QueueInv, NEW from, NEW to, from \notin Inside, to \notin Inside,
         Go(from, to)
  PROVE  LockInv'
BY ConsumerApart DEF QueueInv, Go, LockInv, QueueTypeOK

\* Pushing threads keep the invariant: they change the deque only while nobody
\* else is under the lock, and what they append leaves the front as it is.
LEMMA ProducerStep ==
  ASSUME QueueInv, NEW p \in Producers, Producer(p)
  PROVE  QueueInv'
<1>1. CASE LockPush(p)
  <2>1. Lock(p, "out", "push")
        BY <1>1 DEF LockPush
  <2>2. QueueTypeOK' /\ LockInv'
        BY <2>1, LockStep, ConsumerApart DEF Inside
  <2>3. PlaceInv' /\ FrontStays'
        BY <2>1, ConsumerApart DEF QueueInv, Lock, PlaceInv, FrontStays, QueueTypeOK
  <2> QED
      BY <2>2, <2>3 DEF QueueInv
<1>2. CASE Push(p)
  <2> DEFINE m == [from |-> p, n |-> said'[p]]
  <2>1. Unlock(p, "push", "out")
        BY <1>2 DEF Push
  <2>2. LockInv' /\ seen[p] = deque /\ lock' \subseteq Threads
        BY <2>1, UnlockStep, ConsumerApart DEF Inside
  <2>3. m \in Pushed /\ said' \in [Producers -> Nat]
        BY <1>2 DEF QueueInv, Push, Pushed, QueueTypeOK
  <2>4. deque' = Append(deque, m)
        BY <1>2, <2>2 DEF Push, Store
  <2>5. QueueTypeOK'
    <3>1. deque' \in Seq(Pushed)
          BY <2>3, <2>4 DEF QueueInv, QueueTypeOK
    <3> QED
        BY <1>2, <2>1, <2>2, <2>3, <3>1 DEF QueueInv, QueueTypeOK, Push, Unlock
  <2>6. deque' # <<>> /\ (deque # <<>> => Head(deque') = Head(deque))
        BY <2>3, <2>4, AppendKeepsFront DEF QueueInv, QueueTypeOK
  <2>7. PlaceInv' /\ FrontStays'
        BY <1>2, <2>1, <2>6, ConsumerApart
        DEF QueueInv, Push, Unlock, PlaceInv, FrontStays, QueueTypeOK
  <2> QED
      BY <2>2, <2>5, <2>7 DEF QueueInv
<1> QED
    BY <1>1, <1>2 DEF Producer

\* The calls of Update keep the invariant: size() establishes that there is a
\* message, only pop() takes one away.
LEMMA UpdateStep ==
  ASSUME QueueInv, Update
  PROVE  QueueInv'
<1> USE ConsumerApart
<1>1. CASE LockSize
  <2>1. QueueTypeOK' /\ LockInv'
        BY <1>1, LockStep DEF LockSize, Inside
  <2>2. PlaceInv' /\ FrontStays'
        BY <1>1 DEF QueueInv, LockSize, Lock, PlaceInv, FrontStays, QueueTypeOK
  <2> QED
      BY <2>1, <2>2 DEF QueueInv
<1>2. CASE Size
  <2> DEFINE to == IF GoesOn(seen[Consumer]) THEN "front" ELSE "out"
  <2>1. Unlock(Consumer, "size", to)
        BY <1>2 DEF Size
  <2>2. LockInv' /\ seen[Consumer] = deque /\ lock' \subseteq Threads
        BY <2>1, UnlockStep DEF Inside
  <2>3. QueueTypeOK'
        BY <1>2, <2>1, <2>2 DEF QueueInv, QueueTypeOK, Size, Unlock
  <2>4. to = "front" => deque # <<>>
        BY <2>2 DEF GoesOn, QueueInv, QueueTypeOK
  <2>5. PlaceInv' /\ FrontStays'
        BY <1>2, <2>1, <2>4
        DEF QueueInv, Size, Unlock, PlaceInv, FrontStays, QueueTypeOK
  <2> QED
      BY <2>2, <2>3, <2>5 DEF QueueInv
<1>3. CASE FrontEmpty
  <2>1. Go("front", "lock_front")
        BY <1>3 DEF FrontEmpty, Go, QueueInv, FrontStays
  <2>2. LockInv'
        BY <2>1, GoStep DEF Inside
  <2>3. QueueTypeOK' /\ PlaceInv' /\ FrontStays'
        BY <1>3, <2>1
        DEF QueueInv, FrontEmpty, Go, QueueTypeOK, PlaceInv, FrontStays
  <2> QED
      BY <2>2, <2>3 DEF QueueInv
<1>4. CASE LockFront
  <2>1. QueueTypeOK' /\ LockInv'
        BY <1>4, LockStep DEF LockFront, Inside
  <2>2. PlaceInv' /\ FrontStays'
        BY <1>4 DEF QueueInv, LockFront, Lock, PlaceInv, FrontStays, QueueTypeOK
  <2> QED
      BY <2>1, <2>2 DEF QueueInv
<1>5. CASE ReadFront
  <2>1. Unlock(Consumer, "in_front", "copy")
        BY <1>5 DEF ReadFront
  <2>2. LockInv' /\ lock' \subseteq Threads
        BY <2>1, UnlockStep DEF Inside
  <2>3. QueueTypeOK' /\ PlaceInv' /\ FrontStays'
        BY <1>5, <2>1, <2>2
        DEF QueueInv, ReadFront, Unlock, QueueTypeOK, PlaceInv, FrontStays
  <2> QED
      BY <2>2, <2>3 DEF QueueInv
<1>6. CASE Copy
  <2>1. LockInv'
        BY <1>6, GoStep DEF Copy, Inside
  <2>2. msg' = Head(deque) /\ msg' \in Pushed
        BY <1>6 DEF Copy, Go, QueueInv, QueueTypeOK, FrontStays
  <2>3. QueueTypeOK' /\ PlaceInv' /\ FrontStays'
        BY <1>6, <2>2 DEF QueueInv, Copy, Go, QueueTypeOK, PlaceInv, FrontStays
  <2> QED
      BY <2>1, <2>3 DEF QueueInv
<1>7. CASE PopEmpty
  <2>1. Go("pop", "lock_pop")
        BY <1>7 DEF PopEmpty, Go, QueueInv, FrontStays
  <2>2. LockInv'
        BY <2>1, GoStep DEF Inside
  <2>3. QueueTypeOK' /\ PlaceInv' /\ FrontStays'
        BY <1>7, <2>1 DEF QueueInv, PopEmpty, Go, QueueTypeOK, PlaceInv, FrontStays
  <2> QED
      BY <2>2, <2>3 DEF QueueInv
<1>8. CASE LockPop
  <2>1. QueueTypeOK' /\ LockInv'
        BY <1>8, LockStep DEF LockPop, Inside
  <2>2. PlaceInv' /\ FrontStays'
        BY <1>8 DEF QueueInv, LockPop, Lock, PlaceInv, FrontStays, QueueTypeOK
  <2> QED
      BY <2>1, <2>2 DEF QueueInv
<1>9. CASE Pop
  <2>1. Unlock(Consumer, "in_pop", "handle")
        BY <1>9 DEF Pop
  <2>2. LockInv' /\ seen[Consumer] = deque /\ lock' \subseteq Threads
        BY <2>1, UnlockStep DEF Inside
  <2>3. deque' \in Seq(Pushed)
        BY <1>9, <2>2 DEF Pop, QueueInv, QueueTypeOK
  <2>4. QueueTypeOK' /\ PlaceInv' /\ FrontStays'
        BY <1>9, <2>1, <2>2, <2>3
        DEF QueueInv, Pop, Unlock, QueueTypeOK, PlaceInv, FrontStays
  <2> QED
      BY <2>2, <2>4 DEF QueueInv
<1>10. CASE Handle
  <2>1. LockInv'
        BY <1>10, GoStep DEF Handle, Inside
  <2>2. handled' \in Seq(Pushed)
        BY <1>10 DEF Handle, Go, QueueInv, QueueTypeOK, PlaceInv
  <2>3. QueueTypeOK' /\ PlaceInv' /\ FrontStays'
        BY <1>10, <2>2 DEF QueueInv, Handle, Go, QueueTypeOK, PlaceInv, FrontStays
  <2> QED
      BY <2>1, <2>3 DEF QueueInv
<1> QED
    BY <1>1, <1>2, <1>3, <1>4, <1>5, <1>6, <1>7, <1>8, <1>9, <1>10 DEF Update

\* Every step keeps the invariant.
LEMMA QueueInvStep == QueueInv /\ [QueueNext]_queueVars => QueueInv'
<1> SUFFICES ASSUME QueueInv, [QueueNext]_queueVars PROVE QueueInv'
    OBVIOUS
<1>1. CASE QueueNext
      BY <1>1, ProducerStep, UpdateStep DEF QueueNext
<1>2. CASE UNCHANGED queueVars
      BY <1>2
      DEF queueVars, QueueInv, QueueTypeOK, LockInv, PlaceInv, FrontStays
<1> QED
    BY <1>1, <1>2

\* The invariant holds in every reachable state.
THEOREM QueueInvariant == QueueSpec => []QueueInv
BY QueueInvInit, QueueInvStep, PTL DEF QueueSpec

\* Every variable of the queue keeps its type.
THEOREM QueueTypeCorrect == QueueSpec => []QueueTypeOK
BY QueueInvariant, PTL DEF QueueInv

\* However pushes fall between its calls, the loop of Update never finds the
\* queue empty after size() was positive, and pops what it copied.
THEOREM FrontIsSafe == QueueSpec => []FrontStays
BY QueueInvariant, PTL DEF QueueInv

-----------------------------------------------------------------------------
(* The queue implements FifoQueue.                                         *)

\* The queue starts as an empty FIFO.
LEMMA FifoInit == QueueInit => Fifo!Init
BY ConsumerApart DEF QueueInit, Fifo!Init, Taken

\* A push is a push of the FIFO at its second step, and nothing before.
LEMMA FifoProducer ==
  ASSUME QueueInv, NEW p \in Producers, Producer(p)
  PROVE  [Fifo!Next]_Fifo!vars
<1> USE ConsumerApart
<1>1. CASE LockPush(p)
      BY <1>1 DEF LockPush, Lock, QueueInv, QueueTypeOK, Fifo!vars, Taken
<1>2. CASE Push(p)
  <2>1. seen[p] = deque
        BY <1>2, UnlockStep DEF Push, Inside
  <2>2. said'[p] = said[p] + 1
        BY <1>2 DEF Push, QueueInv, QueueTypeOK
  <2>3. Taken' = Taken
        BY <1>2 DEF Push, Unlock, QueueInv, QueueTypeOK, Taken
  <2>4. Fifo!Push(p)
        BY <1>2, <2>1, <2>2, <2>3 DEF Push, Store, Fifo!Push
  <2> QED
      BY <2>4 DEF Fifo!Next
<1> QED
    BY <1>1, <1>2 DEF Producer

\* pop() is the FIFO's Take; what Update does before and after is hidden.
LEMMA FifoUpdate ==
  ASSUME QueueInv, Update
  PROVE  [Fifo!Next]_Fifo!vars
<1> USE ConsumerApart
<1>1. CASE LockSize \/ LockFront \/ LockPop
      BY <1>1 DEF LockSize, LockFront, LockPop, Lock, QueueInv, QueueTypeOK,
                  Fifo!vars, Taken
<1>2. CASE Size \/ ReadFront
      BY <1>2 DEF Size, ReadFront, Unlock, QueueInv, QueueTypeOK, Fifo!vars, Taken
<1>3. CASE FrontEmpty \/ Copy
      BY <1>3 DEF FrontEmpty, Copy, Go, QueueInv, QueueTypeOK, Fifo!vars, Taken
<1>4. CASE PopEmpty
      BY <1>4 DEF PopEmpty, Go, QueueInv, QueueTypeOK, FrontStays, Fifo!vars, Taken
<1>5. CASE Pop
  <2>1. seen[Consumer] = deque /\ deque # <<>> /\ msg = Head(deque)
        BY <1>5, UnlockStep DEF Pop, Unlock, Inside, QueueInv, FrontStays
  <2>2. deque' = Tail(deque)
        BY <1>5, <2>1 DEF Pop
  <2>3. Taken' = Append(Taken, msg)
        BY <1>5 DEF Pop, Unlock, QueueInv, QueueTypeOK, Taken
  <2>4. Fifo!Take
        BY <1>5, <2>1, <2>2, <2>3 DEF Pop, Fifo!Take
  <2> QED
      BY <2>4 DEF Fifo!Next
<1>6. CASE Handle
      BY <1>6 DEF Handle, Go, QueueInv, QueueTypeOK, Fifo!vars, Taken
<1> QED
    BY <1>1, <1>2, <1>3, <1>4, <1>5, <1>6 DEF Update

\* With its lock and its half-done calls hidden the queue is a FIFO, for any
\* number of pushing threads.
THEOREM FifoImplemented == QueueSpec => ImplementsFifo
<1>1. QueueInv /\ [QueueNext]_queueVars => [Fifo!Next]_Fifo!vars
  <2> SUFFICES ASSUME QueueInv, [QueueNext]_queueVars PROVE [Fifo!Next]_Fifo!vars
      OBVIOUS
  <2>1. CASE QueueNext
        BY <2>1, FifoProducer, FifoUpdate DEF QueueNext
  <2>2. CASE UNCHANGED queueVars
        BY <2>2 DEF queueVars, Fifo!vars, Taken
  <2> QED
      BY <2>1, <2>2
<1> QED
    BY <1>1, FifoInit, QueueInvariant, PTL DEF QueueSpec, ImplementsFifo, Fifo!Spec

=============================================================================
