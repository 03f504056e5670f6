----------------------------- MODULE MCChatServer -----------------------------
(***************************************************************************)
(* Small instances of ChatServer: who is there and how much each one says. *)
(***************************************************************************)
EXTENDS ChatServer

CONSTANTS Ann, Bob, Cyd

Talk(ann, bob, cyd) ==
  [c \in Clients |-> CASE c = Ann -> ann [] c = Bob -> bob [] OTHER -> cyd]

OneOneNone  == Talk(1, 1, 0)
TwoNoneNone == Talk(2, 0, 0)

\* Bob and Cyd are interchangeable where both are silent
Listeners == Permutations({Bob, Cyd})

=============================================================================
