----------------------------- MODULE BroadcastLog -----------------------------
(***************************************************************************)
(* What the chat server promises, without its connections, queues, threads *)
(* and asynchronous operations: there is one log of messages, and a client *)
(* is shown entries of it in the order of the log, each at most once, none *)
(* of its own and none from before it joined.  What is on its way to a     *)
(* client may be lost, never overtaken.                                    *)
(***************************************************************************)
EXTENDS Naturals, Sequences, SequencesExt

CONSTANTS Clients, Message   \* a message is a record with a field `from'

VARIABLES
  log,      \* the messages, in the order they were taken in
  start,    \* start[c]: where the log was when c joined
  onWay,    \* onWay[c]: places in the log, passed on to c and not yet shown
  shown     \* shown[c]: places in the log, shown to c

vars == <<log, start, onWay, shown>>

Init ==
  /\ log = <<>>
  /\ start = [c \in Clients |-> 0]
  /\ onWay = [c \in Clients |-> <<>>]
  /\ shown = [c \in Clients |-> <<>>]

Log ==
  /\ log' # <<>> /\ Last(log') \in Message
  /\ log' = Append(log, Last(log'))
  /\ UNCHANGED <<start, onWay, shown>>

Join(c) ==
  /\ onWay[c] = <<>> /\ shown[c] = <<>>
  /\ start' = [start EXCEPT ![c] = Len(log)]
  /\ UNCHANGED <<log, onWay, shown>>

PassOn(c, i) ==
  /\ i > start[c] /\ log[i].from # c
  /\ \A j \in Range(shown[c] \o onWay[c]) : j < i
  /\ onWay' = [onWay EXCEPT ![c] = Append(@, i)]
  /\ UNCHANGED <<log, start, shown>>

Show(c) ==
  /\ onWay[c] # <<>>
  /\ shown' = [shown EXCEPT ![c] = Append(@, Head(onWay[c]))]
  /\ onWay' = [onWay EXCEPT ![c] = Tail(@)]
  /\ UNCHANGED <<log, start>>

Lose(c, k) ==
  /\ onWay' = [onWay EXCEPT ![c] = RemoveAt(@, k)]
  /\ UNCHANGED <<log, start, shown>>

Next ==
  \/ Log
  \/ \E c \in Clients :
       \/ Join(c) \/ Show(c)
       \/ \E i \in DOMAIN log : PassOn(c, i)
       \/ \E k \in DOMAIN onWay[c] : Lose(c, k)

Spec == Init /\ [][Next]_vars

=============================================================================
