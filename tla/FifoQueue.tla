------------------------------ MODULE FifoQueue ------------------------------
(***************************************************************************)
(* What the message loops of asio_web_service expect of ThreadSafeQueue:   *)
(* any number of threads push, one thread takes, and a message is taken    *)
(* once, in the order of the pushes.  No lock, no reference into the queue *)
(* and no thread that is half way through a call.                          *)
(*                                                                         *)
(* Module ThreadSafeQueue is shown to implement this specification.        *)
(***************************************************************************)
EXTENDS Naturals, Sequences

CONSTANTS
  Producers   \* the threads that push

VARIABLES
  items,      \* the messages in the queue, oldest first
  said,       \* said[p]: how many messages p has pushed
  taken       \* the messages the consumer has taken, in order

vars == <<items, said, taken>>

Init ==
  /\ items = <<>>
  /\ said = [p \in Producers |-> 0]
  /\ taken = <<>>

Push(p) ==
  /\ said' = [said EXCEPT ![p] = @ + 1]
  /\ items' = Append(items, [from |-> p, n |-> said[p] + 1])
  /\ UNCHANGED taken

Take ==
  /\ items # <<>>
  /\ items' = Tail(items)
  /\ taken' = Append(taken, Head(items))
  /\ UNCHANGED said

Next == Take \/ \E p \in Producers : Push(p)

Spec == Init /\ [][Next]_vars

=============================================================================
