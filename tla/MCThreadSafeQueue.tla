--------------------------- MODULE MCThreadSafeQueue ---------------------------
(***************************************************************************)
(* A small instance of ThreadSafeQueue: how many messages each thread      *)
(* pushes.  The code has one io thread to a queue; a second one costs      *)
(* little and lets two pushes meet.                                        *)
(***************************************************************************)
EXTENDS ThreadSafeQueue

CONSTANTS Io, Other

Pushes == [p \in Producers |-> IF p = Io THEN 3 ELSE 2]

=============================================================================
