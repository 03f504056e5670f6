---------------------------- MODULE MCSelectServer ----------------------------
(***************************************************************************)
(* Small instances of SelectServer: who says how much.                     *)
(***************************************************************************)
EXTENDS SelectServer

CONSTANTS Ann, Bob, Cyd

TwoOneNone == [c \in Clients |-> CASE c = Ann -> 2 [] c = Bob -> 1 [] OTHER -> 0]

=============================================================================
