----------------------------- MODULE MCTextMessage -----------------------------
(***************************************************************************)
(* A small instance of TextMessage: a byte of four values, two of them in  *)
(* use as characters, and names of one and three characters.               *)
(***************************************************************************)
EXTENDS TextMessage

SomeNames == {<<3>>, <<0, 3, 0>>}

=============================================================================
