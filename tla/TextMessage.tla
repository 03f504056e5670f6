------------------------------ MODULE TextMessage ------------------------------
(***************************************************************************)
(* A chat message of asio_web_service on its way from the client that      *)
(* types it, over the server that adds the sender's name, to a client that *)
(* shows it: the operators << and >> of utils/message.hpp and the three    *)
(* places that use them.  Between the places, module Connection carries    *)
(* the message; what it relies on is that header.size is the number of     *)
(* bytes of the body, because the peer reads that many.                    *)
(*                                                                         *)
(* << appends the bytes of a value to the body and >> takes them from its  *)
(* end, so that the fields come out in the opposite order.                 *)
(***************************************************************************)
EXTENDS Integers, Sequences, SequencesExt

CONSTANTS
  Base,       \* values of a byte (256)
  Width,      \* bytes of a uint32_t (4)
  Char,       \* the bytes texts and names are made of
  MaxText,    \* bound: length of a line
  Names       \* the strings SendToClient makes of the sender's id

ASSUME BytesAssumption ==
  Base \in Nat \ {0, 1} /\ Width \in Nat \ {0} /\ Char \subseteq 0..(Base - 1)
ASSUME NamesAssumption ==
  Names \subseteq Seq(Char) /\ \A name \in Names : Len(name) < Base

\* Power[n] is Base to the n; a uint32_t has Power[Width] values
Power[n \in 0..Width] == IF n = 0 THEN 1 ELSE Base * Power[n - 1]

\* A line leaves room for the other fields of the message in a header.size
ASSUME BoundsAssumption == MaxText \in Nat /\ MaxText + Width + Base < Power[Width]

VARIABLES
  place,      \* where the message is: nowhere, at the server, at a client,
              \* shown, or in a client that has crashed
  text,       \* the text typed
  sender,     \* the name of the client that typed it
  message,    \* the message
  shown       \* what OnTextMessage prints

vars == <<place, text, sender, message, shown>>

Byte == 0..(Base - 1)
EmptyMessage == [size |-> 0, body |-> <<>>]
NothingShown == [name |-> <<>>, text |-> <<>>]

Uint(n) == n % Power[Width]

-----------------------------------------------------------------------------
(* Variants of the operations below with one mistake each.                 *)

\* Every byte holds all that is left of the number
BytesUnreduced(n) == [i \in 1..Width |-> n \div Power[i - 1]]

\* header.size is set to the bytes of the value
PushSetsSize(m, bytes) == [size |-> Len(bytes), body |-> m.body \o bytes]

\* std::reverse is forgotten
TakenAsPopped(m, n) == [i \in 1..n |-> m.body[Len(m.body) - i + 1]]

\* The name goes before the length of the text
NameBeforeSize(m, name) ==
  LET digits == [i \in 1..Width |-> (Len(m.body) \div Power[i - 1]) % Base]
      body == m.body \o name \o digits \o <<Len(name)>>
  IN  [size |-> Len(body), body |-> body]

-----------------------------------------------------------------------------
(* Message's operators << and >>.                                          *)

\* A uint32_t in memory, least significant byte first, and back
BytesOf(n) == [i \in 1..Width |-> (n \div Power[i - 1]) % Base]
ValueOf(bytes) ==
  LET low[i \in 0..Width] == IF i = 0 THEN 0 ELSE low[i - 1] + bytes[i] * Power[i - 1]
  IN  low[Width]

Push(m, bytes) == [size |-> Uint(m.size + Len(bytes)), body |-> m.body \o bytes]

\* The last n bytes, and the message without them
LastBytes(m, n) == SubSeq(m.body, Len(m.body) - n + 1, Len(m.body))
Pop(m, n) ==
  LET left == Len(m.body) - n
  IN  [size |-> Uint(left), body |-> SubSeq(m.body, 1, left)]

\* n characters taken one by one, and std::reverse
Taken(m, n) == Reverse([i \in 1..n |-> m.body[Len(m.body) - i + 1]])

-----------------------------------------------------------------------------
(* The places that use them.                                               *)

\* The writing thread of the client: << every character
Compose(line) == Push(EmptyMessage, line)

\* MyServer::MakeMessageToClient: the body, its size, the sender, its length
MakeMessageToClient(m, name) ==
  LET copied == Push(EmptyMessage, m.body)
      sized == Push(copied, BytesOf(m.size))
  IN  Push(Push(sized, name), <<Len(name) % Base>>)

\* What MyClient::OnTextMessage takes from the end of the message, field by
\* field; a field longer than what is left of the body is not there to take
NameLength(m) == LastBytes(m, 1)[1]
AfterNameLength(m) == Pop(m, 1)
AfterName(m) == Pop(AfterNameLength(m), NameLength(m))
TextLength(m) == ValueOf(LastBytes(AfterName(m), Width))
AfterTextLength(m) == Pop(AfterName(m), Width)

LongEnough(m) ==
  /\ Len(m.body) >= 1
  /\ Len(AfterNameLength(m).body) >= NameLength(m)
  /\ Len(AfterName(m).body) >= Width
  /\ Len(AfterTextLength(m).body) >= TextLength(m)

-----------------------------------------------------------------------------
Init ==
  /\ place = "nowhere"
  /\ text = <<>> /\ sender = <<>>
  /\ message = EmptyMessage
  /\ shown = NothingShown

\* A line is typed; an empty one is not sent
Type(line, name) ==
  /\ place \in {"nowhere", "shown"}
  /\ line # <<>>
  /\ text' = line /\ sender' = name
  /\ message' = Compose(line)
  /\ place' = "server"
  /\ shown' = NothingShown

\* MyServer::SendToClient
SendToClient ==
  /\ place = "server"
  /\ message' = MakeMessageToClient(message, sender)
  /\ place' = "client"
  /\ UNCHANGED <<text, sender, shown>>

\* MyClient::OnTextMessage; >> on too short a body copies what lies before it
\* and resizes it to more than there is memory
OnTextMessage ==
  /\ place = "client"
  /\ IF LongEnough(message)
       THEN /\ shown' = [name |-> Taken(AfterNameLength(message), NameLength(message)),
                         text |-> Taken(AfterTextLength(message), TextLength(message))]
            /\ message' = Pop(AfterTextLength(message), TextLength(message))
            /\ place' = "shown"
       ELSE place' = "crashed" /\ UNCHANGED <<shown, message>>
  /\ UNCHANGED <<text, sender>>

Lines == UNION {[1..n -> Char] : n \in 0..MaxText}

Next ==
  \/ \E line \in Lines, name \in Names : Type(line, name)
  \/ SendToClient \/ OnTextMessage

Spec == Init /\ [][Next]_vars

-----------------------------------------------------------------------------
TypeOK ==
  /\ place \in {"nowhere", "server", "client", "shown", "crashed"}
  /\ text \in Seq(Char) /\ sender \in Seq(Char)
  /\ message \in [size : 0..(Power[Width] - 1), body : Seq(Byte)]
  /\ shown \in [name : Seq(Byte), text : Seq(Byte)]

\* What a client shows is the line typed at the other end, under the name the
\* server gave its sender, and nothing of the message is left over: the fields
\* come out as they went in, over three programs that share no definition of
\* the layout.
ShownAsTyped ==
  place = "shown" =>
    shown = [name |-> sender, text |-> text] /\ message = EmptyMessage

\* Wherever Connection is given the message, header.size is the number of bytes
\* in the body: the reader at the other end takes that many.
SizeIsLength ==
  place \in {"server", "client"} => message.size = Len(message.body)

\* No field is taken from a body too short for it.
NeverTooShort == place # "crashed"

=============================================================================
