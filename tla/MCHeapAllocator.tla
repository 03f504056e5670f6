---------------------------- MODULE MCHeapAllocator ----------------------------
(***************************************************************************)
(* Small heaps: what lies past the end of an array of chunks is zero.      *)
(***************************************************************************)
EXTENDS HeapAllocator

ZeroChunk == NullChunk

=============================================================================
