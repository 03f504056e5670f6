----------------------------- MODULE HeapAllocator -----------------------------
(***************************************************************************)
(* memory_allocator/heap_allocator.cpp: a first-fit allocator over a       *)
(* static heap, with a list of the chunks in use and a list of the free    *)
(* ones, each a counted array.  One action is one call of heap_alloc or    *)
(* heap_free; the program that calls them frees what it was given, or also *)
(* passes pointers heap_free is meant to refuse (memory_allocator/test.cpp *)
(* does both).                                                             *)
(*                                                                         *)
(* A pointer is its address.  A call is one step because the allocator has *)
(* one caller and no locks.  Memory is read outside an array in two places *)
(* (see Slot and NextNeighbouring); the values are those of the layout.    *)
(***************************************************************************)
EXTENDS Integers, FiniteSetsExt

CONSTANTS
  ALLOC_CAP,    \* bytes of the heap (2 MB in the code)
  CHUNKS_CAP,   \* entries of a Chunk_list (1024 in the code)
  heap,         \* the address of the heap, far from NULL
  PastEnd,      \* what is read past the end of an array of chunks
  MaxCalls      \* bound: calls of heap_alloc and heap_free

ASSUME CapAssumption == ALLOC_CAP \in Nat \ {0} /\ CHUNKS_CAP \in Nat \ {0}
ASSUME HeapAssumption == heap \in Nat /\ heap > 4 * ALLOC_CAP
ASSUME MaxCallsAssumption == MaxCalls \in Nat

VARIABLES
  free_heap_size,   \* what the code counts as free
  alloced_chunks,   \* the chunks in use
  freed_chunks,     \* the free chunks
  owned,            \* the chunks the caller was given and has not freed (history)
  misused,          \* heap_free accepted a pointer that was not owned (history)
  calls             \* how many calls there were

lists == <<free_heap_size, alloced_chunks, freed_chunks>>
vars == <<lists, owned, misused, calls>>

NULL == 0
Chunk == [ptr : Nat, size : Nat]
Slots == 0..(CHUNKS_CAP - 1)
NullChunk == [ptr |-> NULL, size |-> 0]

ASSUME PastEndAssumption == PastEnd \in Chunk

\* A chunk's bytes
Bytes(chunk) == chunk.ptr..(chunk.ptr + chunk.size - 1)

\* The entries of a Chunk_list that count, and any of its slots
Entries(list) == {list.chunks[i] : i \in 0..(list.size - 1)}
Slot(list, i) == IF i \in Slots THEN list.chunks[i] ELSE PastEnd

\* The sizes of entries from..to, added up; sum[n] is that of those before n
SumOfSizes(chunks, from, to) ==
  LET sum[n \in 0..CHUNKS_CAP] ==
        IF n <= from THEN 0 ELSE sum[n - 1] + chunks[n - 1].size
  IN  sum[to + 1]

-----------------------------------------------------------------------------
(* Variants of the operations below with one mistake each.                 *)

\* Nothing keeps a list from growing past its array
NeverFull(list) == FALSE

\* The new chunk stays at the end of the list
InsertLast(list, chunk) ==
  [size |-> list.size + 1, chunks |-> [list.chunks EXCEPT ![list.size] = chunk]]

\* The chunk after the one freed is erased
ErasedNext(list, pos) ==
  [size |-> list.size - 1,
   chunks |-> [j \in Slots |-> IF pos < j /\ j < list.size - 1
                                 THEN list.chunks[j + 1] ELSE list.chunks[j]]]

-----------------------------------------------------------------------------
(* Allocating.                                                             *)

Full(list) == list.size = CHUNKS_CAP

\* The free chunks that are large enough
Fits(size) == {i \in 0..(freed_chunks.size - 1) : freed_chunks.chunks[i].size >= size}

\* crop_chunk
Crop(chunk, used) == [ptr |-> chunk.ptr + used, size |-> chunk.size - used]

\* heap_alloc on freed_chunks: crop chunk i; if nothing is left of it, move the
\* entries from i + 2 on down by one and shorten the list
TakeFrom(list, i, size) ==
  LET cropped == [list EXCEPT !.chunks[i] = Crop(@, size)]
  IN  IF cropped.chunks[i].size # 0 THEN cropped
      ELSE [size |-> list.size - 1,
            chunks |-> [j \in Slots |->
                          IF i < j /\ j < list.size THEN Slot(cropped, j + 1)
                                                    ELSE cropped.chunks[j]]]

\* alloc_chunk: append the chunk and move it down past those not below it
Insert(list, chunk) ==
  LET below == {i \in 0..(list.size - 1) : list.chunks[i].ptr < chunk.ptr}
      at == IF below = {} THEN 0 ELSE Max(below) + 1
  IN  [size |-> list.size + 1,
       chunks |-> [j \in Slots |->
                     IF j < at \/ j > list.size THEN list.chunks[j]
                     ELSE IF j = at THEN chunk ELSE list.chunks[j - 1]]]

\* A call that returns a chunk; one that returns nullptr changes nothing
heap_alloc(size) ==
  /\ ~Full(alloced_chunks)
  /\ size # 0 /\ size <= free_heap_size /\ Fits(size) # {}
  /\ LET i == Min(Fits(size))
         chunk == [ptr |-> freed_chunks.chunks[i].ptr, size |-> size]
     IN  /\ freed_chunks' = TakeFrom(freed_chunks, i, size)
         /\ alloced_chunks' = Insert(alloced_chunks, chunk)
         /\ owned' = IF chunk.ptr = NULL THEN owned ELSE owned \cup {chunk}
  /\ free_heap_size' = free_heap_size - size

-----------------------------------------------------------------------------
(* Freeing.                                                                *)

\* lower_bound for {ptr, 0}: the first entry not below it (none has size 0)
LowerBound(ptr) ==
  Min({i \in 0..(alloced_chunks.size - 1) : alloced_chunks.chunks[i].ptr >= ptr}
        \cup {alloced_chunks.size})

\* The test heap_free makes of the chunk found, which compares its position
\* with its size
Accepts(pos, ptr) ==
  LET chunk == Slot(alloced_chunks, pos)
  IN  ptr # NULL /\ pos < chunk.size /\ chunk.ptr = ptr

\* is_next_neighbouring(pos): it adds the size of the chunk before to the
\* pointer of the chunk itself.  The chunk before the first is the list's size.
NextNeighbouring(list, pos) ==
  (IF pos = 0 THEN list.size ELSE Slot(list, pos - 1).size) = 0

\* try_to_merge_freed_chunks
TryToMerge(list, pos) ==
  LET left == IF pos # 0 /\ NextNeighbouring(list, pos - 1) THEN pos - 1 ELSE pos
      \* the sum in entry `left` when the loop has come to i
      sum(i) == SumOfSizes(list.chunks, left, i)
      \* whether the loop goes on at i: entry `left` has been changed by then
      goes(i) == IF i = left + 1 THEN sum(i) = 0 ELSE NextNeighbouring(list, i)
      stops == {i \in left..(list.size - 2) : ~goes(i)}
  IN  IF left + 1 >= list.size THEN [list EXCEPT !.size = left + 1]
      ELSE IF stops = {}
        THEN [size |-> left + 1,
              chunks |-> [list.chunks EXCEPT ![left].size = sum(list.size - 1)]]
      ELSE LET i == Min(stops)
               merged == [list.chunks EXCEPT ![left].size = sum(i)]
           IN  [list EXCEPT !.chunks =
                  [j \in Slots |->
                     IF left < j /\ j < left + list.size - i
                       THEN merged[j + i - left] ELSE merged[j]]]

\* add_chunk_to_freed: append the chunk, then merge at an index taken from
\* alloced_chunks, whose last two entries are in order
AddToFreed(chunk) ==
  LET appended == [size |-> freed_chunks.size + 1,
                   chunks |-> [freed_chunks.chunks EXCEPT ![freed_chunks.size] = chunk]]
  IN  TryToMerge(appended, alloced_chunks.size - 1)

\* erase_chunk_from_alloced
Erased(list, pos) ==
  [size |-> list.size - 1,
   chunks |-> [j \in Slots |-> IF pos <= j /\ j < list.size - 1
                                 THEN list.chunks[j + 1] ELSE list.chunks[j]]]

\* heap_free: without effect if the pointer is refused or freed_chunks is full.
\* A call that accepts a pointer while no chunk is in use (only one after a
\* wrong free can) walks off the array, and is left out.
heap_free(ptr) ==
  LET pos == LowerBound(ptr)
      chunk == Slot(alloced_chunks, pos)
      frees == Accepts(pos, ptr) /\ ~Full(freed_chunks)
  IN  /\ frees => alloced_chunks.size > 0
      /\ IF frees
           THEN /\ free_heap_size' = free_heap_size + chunk.size
                /\ freed_chunks' = AddToFreed(chunk)
                /\ alloced_chunks' = Erased(alloced_chunks, pos)
           ELSE UNCHANGED lists

-----------------------------------------------------------------------------
Init ==
  /\ free_heap_size = ALLOC_CAP
  /\ alloced_chunks = [size |-> 0, chunks |-> [i \in Slots |-> NullChunk]]
  /\ freed_chunks =
       [size |-> 1,
        chunks |-> [i \in Slots |-> IF i = 0 THEN [ptr |-> heap, size |-> ALLOC_CAP]
                                             ELSE NullChunk]]
  /\ owned = {} /\ misused = FALSE /\ calls = 0

\* The caller asks for memory
Allocate == \E size \in 1..ALLOC_CAP : heap_alloc(size) /\ UNCHANGED misused

\* The caller frees what it was given
FreeOwned ==
  \E chunk \in owned :
    /\ heap_free(chunk.ptr)
    /\ owned' = owned \ {chunk}
    /\ UNCHANGED misused

\* The caller passes a pointer into a chunk it owns, as test.cpp does
FreeInside ==
  \E chunk \in owned : \E ptr \in Bytes(chunk) :
    /\ \A c \in owned : c.ptr # ptr
    /\ heap_free(ptr)
    /\ misused' = (misused \/ lists' # lists)
    /\ UNCHANGED owned

Next ==
  /\ calls < MaxCalls /\ calls' = calls + 1
  /\ Allocate \/ FreeOwned \/ FreeInside

Spec == Init /\ [][Next]_vars

-----------------------------------------------------------------------------
TypeOK ==
  /\ free_heap_size \in Nat
  /\ alloced_chunks \in [size : 0..CHUNKS_CAP, chunks : [Slots -> Chunk]]
  /\ freed_chunks \in [size : 0..CHUNKS_CAP, chunks : [Slots -> Chunk]]
  /\ owned \subseteq Chunk
  /\ misused \in BOOLEAN
  /\ calls \in 0..MaxCalls

-----------------------------------------------------------------------------
(* What holds.                                                             *)

\* alloced_chunks stays ordered by pointer, which lower_bound needs, whatever
\* chunks heap_alloc makes of a freed_chunks with lost and repeated entries.
AllocedSorted ==
  \A i, j \in 0..(alloced_chunks.size - 1) :
    i < j => alloced_chunks.chunks[i].ptr <= alloced_chunks.chunks[j].ptr

\* free_heap_size and the chunks in use add up to the heap: what one call adds
\* to free_heap_size is what leaves alloced_chunks in it, and the stale entry
\* after the last is never taken for a chunk in use, as long as the caller
\* frees only what it was given.
Accounted ==
  ~misused =>
    free_heap_size
      + SumOfSizes(alloced_chunks.chunks, 0, alloced_chunks.size - 1) = ALLOC_CAP

\* A pointer the caller was given is that of a chunk in use until it is freed,
\* so that heap_free can find it, even where two chunks overlap.
OwnedInUse ==
  ~misused => \A c \in owned : \E d \in Entries(alloced_chunks) : d.ptr = c.ptr

-----------------------------------------------------------------------------
(* What the comments of the code say.                                      *)

\* heap_allocator.cpp:34: the chunk alloced is "new", no part of one in use.
AllocsNewChunk ==
  ~misused => \A i, j \in 0..(alloced_chunks.size - 1) :
    i # j => Bytes(alloced_chunks.chunks[i])
               \cap Bytes(alloced_chunks.chunks[j]) = {}

\* heap_allocator.cpp:166: heap_free "finds right chunk" "and frees it".
FreesRightChunk ==
  [][owned' \subseteq owned /\ owned' # owned
       => free_heap_size' > free_heap_size]_vars

=============================================================================
