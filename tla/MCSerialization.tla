---------------------------- MODULE MCSerialization ----------------------------
(***************************************************************************)
(* A small instance of Serialization: an I8 and an I64, values below 0 too *)
(* on a system whose text streams write a carriage return before byte 10.  *)
(***************************************************************************)
EXTENDS Serialization

TwoNames     == {<<97>>, <<98, 99>>}
SmallValues  == (1 :> {-7, 10} @@ 4 :> {-258})
OneString    == {<<104, 105>>}
CarriageLine == <<13, 10>>

Interchangeable == Permutations(Ids)

=============================================================================
