----------------------------- MODULE MCConnection -----------------------------
(***************************************************************************)
(* Small instances of Connection: how often each end calls SendMessage.    *)
(***************************************************************************)
EXTENDS Connection

Sends(client, server) == [e \in Ends |-> IF e = Client THEN client ELSE server]

OneEach     == Sends(1, 1)
ThreeToNone == Sends(3, 0)

=============================================================================
