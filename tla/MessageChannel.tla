---------------------------- MODULE MessageChannel ----------------------------
(***************************************************************************)
(* What one TCP link of asio_web_service promises to the two programs at   *)
(* its ends, with every asynchronous operation abstracted away: whatever   *)
(* an end hands to SendMessage reaches the income_messages_ queue of the   *)
(* other end once, in the order of the calls, and nothing else does.  Any  *)
(* suffix of the messages may be missing, because the link may be cut at   *)
(* any moment; while it is not cut, the next message does arrive.          *)
(*                                                                         *)
(* Module Connection is shown to implement this specification.             *)
(***************************************************************************)
EXTENDS Naturals, Sequences

CONSTANTS
  Client, Server,   \* the two ends of the link
  Message           \* what SendMessage accepts

VARIABLES
  sent,      \* sent[e]: the messages end e has handed over, oldest first
  arrived    \* arrived[e]: the messages queued for the program at end e

vars == <<sent, arrived>>

Ends == {Client, Server}
Peer(e) == IF e = Client THEN Server ELSE Client

Init ==
  /\ sent = [e \in Ends |-> <<>>]
  /\ arrived = [e \in Ends |-> <<>>]

Hand(e) ==
  /\ \E m \in Message : sent' = [sent EXCEPT ![e] = Append(@, m)]
  /\ UNCHANGED arrived

Deliver(e) ==
  /\ Len(arrived[e]) < Len(sent[Peer(e)])
  /\ arrived' = [arrived EXCEPT ![e] = Append(@, sent[Peer(e)][Len(@) + 1])]
  /\ UNCHANGED sent

Next == \E e \in Ends : Hand(e) \/ Deliver(e)

Spec == Init /\ [][Next]_vars

=============================================================================
