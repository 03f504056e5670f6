-------------------------- MODULE HeapAllocatorProofs --------------------------
(***************************************************************************)
(* Proofs about HeapAllocator for any heap, number of chunks and calls,    *)
(* and whatever is read past an array: alloced_chunks stays ordered, what  *)
(* is in use and what is free add up to the heap, and the caller's chunks  *)
(* can be found, although freed_chunks gets entries lost and repeated.     *)
(***************************************************************************)
EXTENDS HeapAllocator, FilterProofs

-----------------------------------------------------------------------------
(* Lists of chunks.                                                        *)

IsChunk(x) == \E p, z \in Nat : x = [ptr |-> p, size |-> z]

IsArray(f) == f = [i \in Slots |-> f[i]] /\ \A i \in Slots : IsChunk(f[i])

IsList(list) ==
  /\ list = [size |-> list.size, chunks |-> list.chunks]
  /\ list.size \in 0..CHUNKS_CAP
  /\ IsArray(list.chunks)

Sorted(list) ==
  \A i, j \in 0..(list.size - 1) :
    i < j => list.chunks[i].ptr <= list.chunks[j].ptr

SortedInv == IsList(alloced_chunks) /\ IsList(freed_chunks) /\ Sorted(alloced_chunks)

\* The fields of a chunk are numbers, and it may get another size.
LEMMA ChunkFacts ==
  ASSUME NEW x, IsChunk(x)
  PROVE  /\ x.ptr \in Nat /\ x.size \in Nat /\ x \in Chunk
         /\ \A z \in Nat : IsChunk([x EXCEPT !.size = z])
<1>1. PICK p, z \in Nat : x = [ptr |-> p, size |-> z]
      BY DEF IsChunk
<1>2. ASSUME NEW y \in Nat PROVE IsChunk([x EXCEPT !.size = y])
  <2>1. [x EXCEPT !.size = y] = [ptr |-> p, size |-> y]
        BY <1>1
  <2> QED
      BY <2>1 DEF IsChunk
<1> QED
    BY <1>1, <1>2 DEF Chunk

\* The indices of a list are slots of its array.
LEMMA Indices ==
  ASSUME NEW list, IsList(list)
  PROVE  /\ list.size \in Nat /\ list.size <= CHUNKS_CAP
         /\ CHUNKS_CAP \in Nat \ {0}
         /\ \A i \in 0..(list.size - 1) : i \in Slots
         /\ \A i : IsChunk(Slot(list, i))
<1>1. CHUNKS_CAP \in Nat \ {0}
      BY CapAssumption
<1>2. ASSUME NEW i PROVE IsChunk(Slot(list, i))
      BY PastEndAssumption DEF IsList, IsArray, Slot, Chunk, IsChunk
<1> QED
    BY <1>1, <1>2 DEF IsList, Slots

-----------------------------------------------------------------------------
(* Sums of sizes.                                                          *)

\* The sizes of the entries before n, from the given one on
Total(chunks, from, n) == SumOfSizes(chunks, from, n - 1)

\* Each entry adds its size.
LEMMA Totals ==
  ASSUME NEW chunks, IsArray(chunks), NEW from \in Nat
  PROVE  /\ \A n \in 0..CHUNKS_CAP : Total(chunks, from, n) \in Nat
         /\ \A n \in 0..CHUNKS_CAP : n <= from => Total(chunks, from, n) = 0
         /\ \A n \in 1..CHUNKS_CAP :
              n > from => Total(chunks, from, n)
                            = Total(chunks, from, n - 1) + chunks[n - 1].size
<1> DEFINE N == CHUNKS_CAP
           Added(n) == IF n <= from THEN 0 ELSE chunks[n - 1].size
           F == [nx \in (1..N) \X Nat |-> IF nx[1] <= from THEN 0
                                          ELSE nx[2] + chunks[nx[1] - 1].size]
           Solves(g) == g = [n \in 0..N |-> IF n <= from THEN 0
                                            ELSE g[n - 1] + chunks[n - 1].size]
           sum == CHOOSE g : Solves(g)
<1>1. N \in Nat
      BY CapAssumption
<1>2. ASSUME NEW n \in 1..N PROVE chunks[n - 1].size \in Nat
  <2>1. n - 1 \in Slots
        BY <1>1 DEF Slots
  <2> QED
      BY <2>1, ChunkFacts DEF IsArray
<1>3. F \in [(1..N) \X Nat -> Nat]
  <2>1. ASSUME NEW nx \in (1..N) \X Nat
        PROVE  (IF nx[1] <= from THEN 0 ELSE nx[2] + chunks[nx[1] - 1].size) \in Nat
    <3>1. nx[1] \in 1..N /\ nx[2] \in Nat
          OBVIOUS
    <3>2. chunks[nx[1] - 1].size \in Nat
          BY <1>2, <3>1
    <3> QED
        BY <3>1, <3>2
  <2> QED
      BY <2>1
<1>4. PICK g \in [0..N -> Nat] : /\ g[0] = 0
                                 /\ \A n \in 1..N : g[n] = F[<<n, g[n - 1]>>]
  <2> HIDE DEF F, N
  <2>1. \E g \in [0..N -> Nat] : FilledBy(g, F, N, 0)
        BY <1>1, <1>3, TableExists
  <2> QED
      BY <2>1 DEF FilledBy
<1>5. Solves(g)
  <2>1. ASSUME NEW n \in 0..N
        PROVE  g[n] = IF n <= from THEN 0 ELSE g[n - 1] + chunks[n - 1].size
    <3>1. CASE n = 0
          BY <1>4, <3>1
    <3>2. CASE n # 0
      <4>1. n \in 1..N /\ n - 1 \in 0..N
            BY <1>1, <3>2
      <4>2. <<n, g[n - 1]>> \in (1..N) \X Nat
            BY <1>4, <4>1
      <4> QED
          BY <1>4, <4>1, <4>2
    <3> QED
        BY <3>1, <3>2
  <2> QED
      BY <2>1
<1>6. Solves(sum)
  <2> HIDE DEF Solves
  <2> QED
      BY <1>5
<1>7. \A n \in 0..N : sum[n] = IF n <= from THEN 0 ELSE sum[n - 1] + chunks[n - 1].size
  <2> HIDE DEF sum
  <2> QED
      BY <1>6
<1>8. \A k : SumOfSizes(chunks, from, k) = sum[k + 1]
      BY DEF SumOfSizes
<1> HIDE DEF sum
<1>9. \A n \in 0..N : Total(chunks, from, n) = sum[n]
  <2>1. \A n \in 0..N : (n - 1) + 1 = n
        BY <1>1
  <2> QED
      BY <1>8, <2>1 DEF Total
<1>10. \A n \in 0..N : sum[n] \in Nat
  <2> DEFINE Fine == {n \in Nat : n <= N => sum[n] \in Nat}
  <2>1. 0 \in Fine
        BY <1>1, <1>7
  <2>2. ASSUME NEW n \in Nat, n \in Fine PROVE n + 1 \in Fine
    <3>1. SUFFICES ASSUME n + 1 <= N PROVE sum[n + 1] \in Nat
          OBVIOUS
    <3>2. /\ sum[n] \in Nat /\ n + 1 \in 1..N /\ n + 1 \in 0..N
          /\ (n + 1) - 1 = n
          BY <1>1, <2>2, <3>1
    <3>3. chunks[n].size \in Nat
          BY <1>2, <3>2
    <3>4. sum[n + 1] = IF n + 1 <= from THEN 0 ELSE sum[n] + chunks[n].size
          BY <1>7, <3>2
    <3> QED
        BY <3>2, <3>3, <3>4
  <2> HIDE DEF Fine
  <2>3. Nat \subseteq Fine
        BY <2>1, <2>2, AllNumbers
  <2> QED
      BY <1>1, <2>3 DEF Fine
<1>11. \A n \in 1..N : n \in 0..N /\ n - 1 \in 0..N
      BY <1>1
<1> QED
    BY <1>7, <1>9, <1>10, <1>11

\* The same from the first entry on.
LEMMA AllTotals ==
  ASSUME NEW chunks, IsArray(chunks)
  PROVE  /\ Total(chunks, 0, 0) = 0
         /\ \A n \in 0..CHUNKS_CAP : Total(chunks, 0, n) \in Nat
         /\ \A n \in 1..CHUNKS_CAP :
              Total(chunks, 0, n) = Total(chunks, 0, n - 1) + chunks[n - 1].size
<1>1. 0 \in Nat /\ CHUNKS_CAP \in Nat /\ 0 \in 0..CHUNKS_CAP
      /\ \A n \in 1..CHUNKS_CAP : n > 0
      BY CapAssumption
<1>2. /\ \A n \in 0..CHUNKS_CAP : Total(chunks, 0, n) \in Nat
      /\ \A n \in 0..CHUNKS_CAP : n <= 0 => Total(chunks, 0, n) = 0
      /\ \A n \in 1..CHUNKS_CAP :
           n > 0 => Total(chunks, 0, n)
                      = Total(chunks, 0, n - 1) + chunks[n - 1].size
      BY <1>1, Totals
<1> QED
    BY <1>1, <1>2

-----------------------------------------------------------------------------
(* The operations on the lists.                                            *)

\* crop_chunk and the shift after it leave a list of chunks.
LEMMA TakeFromList ==
  ASSUME NEW list, IsList(list), NEW i \in 0..(list.size - 1), NEW size \in Nat,
         size <= list.chunks[i].size
  PROVE  IsList(TakeFrom(list, i, size))
<1> DEFINE cut == [list.chunks EXCEPT ![i] = Crop(@, size)]
           cropped == [list EXCEPT !.chunks[i] = Crop(@, size)]
           moved == [j \in Slots |->
                       IF i < j /\ j < list.size THEN Slot(cropped, j + 1)
                                                 ELSE cropped.chunks[j]]
<1>1. i \in Slots /\ list.size \in 1..CHUNKS_CAP
      BY Indices DEF Slots
<1>2. IsChunk(Crop(list.chunks[i], size))
  <2>1. list.chunks[i].ptr \in Nat /\ list.chunks[i].size \in Nat
        BY <1>1, ChunkFacts DEF IsList, IsArray
  <2>2. list.chunks[i].ptr + size \in Nat /\ list.chunks[i].size - size \in Nat
        BY <2>1
  <2> QED
      BY <2>2 DEF Crop, IsChunk
<1>3. IsArray(cut)
      BY <1>1, <1>2 DEF IsList, IsArray
<1>4. cropped = [size |-> list.size, chunks |-> cut]
      BY DEF IsList
<1> HIDE DEF cut, cropped
<1>5. IsList(cropped)
      BY <1>3, <1>4 DEF IsList
<1>6. IsArray(moved)
      BY <1>5, Indices DEF IsArray, IsList
<1>7. IsList([size |-> list.size - 1, chunks |-> moved])
      BY <1>1, <1>6, Indices DEF IsList
<1> QED
    BY <1>5, <1>7 DEF TakeFrom, cropped

\* f is the array of the list with a chunk put in at an index
PutIn(f, list, chunk, at) ==
  /\ f = [j \in Slots |-> f[j]]
  /\ \A j \in Slots :
       /\ j < at \/ j > list.size => f[j] = list.chunks[j]
       /\ j = at => f[j] = chunk
       /\ at < j /\ j <= list.size => f[j] = list.chunks[j - 1]

\* alloc_chunk puts a chunk where the order wants it.
LEMMA InsertPlace ==
  ASSUME NEW list, IsList(list), Sorted(list), list.size < CHUNKS_CAP,
         NEW chunk, IsChunk(chunk)
  PROVE  \E at \in 0..list.size : \E f :
           /\ Insert(list, chunk) = [size |-> list.size + 1, chunks |-> f]
           /\ PutIn(f, list, chunk, at)
           /\ \A i \in 0..(at - 1) : list.chunks[i].ptr <= chunk.ptr
           /\ \A i \in at..(list.size - 1) : list.chunks[i].ptr >= chunk.ptr
<1> DEFINE below == {i \in 0..(list.size - 1) : list.chunks[i].ptr < chunk.ptr}
           at == IF below = {} THEN 0 ELSE Max(below) + 1
           f == [j \in Slots |->
                   IF j < at \/ j > list.size THEN list.chunks[j]
                   ELSE IF j = at THEN chunk ELSE list.chunks[j - 1]]
<1>1. /\ list.size \in Nat /\ CHUNKS_CAP \in Nat
      /\ \A i \in 0..list.size : i \in Slots
      /\ \A i \in Slots : IsChunk(list.chunks[i]) /\ list.chunks[i].ptr \in Nat
      /\ chunk.ptr \in Nat
      BY Indices, ChunkFacts DEF IsList, IsArray, Slots
<1>2. /\ at \in 0..list.size
      /\ \A i \in 0..(at - 1) : list.chunks[i].ptr <= chunk.ptr
      /\ \A i \in at..(list.size - 1) : list.chunks[i].ptr >= chunk.ptr
  <2>1. CASE below = {}
        BY <1>1, <2>1
  <2>2. CASE below # {}
    <3>1. Max(below) \in below /\ \A i \in below : Max(below) >= i
          BY <1>1, <2>2, GreatestExists
    <3>2. at = Max(below) + 1
          BY <2>2
    <3> HIDE DEF at
    <3>3. at \in 0..list.size
          BY <1>1, <3>1, <3>2
    <3>4. ASSUME NEW i \in 0..(at - 1)
          PROVE  list.chunks[i].ptr <= chunk.ptr
      <4>1. list.chunks[at - 1].ptr < chunk.ptr /\ at - 1 \in 0..(list.size - 1)
        <5>1. at - 1 = Max(below)
              BY <1>1, <3>1, <3>2
        <5> QED
            BY <3>1, <5>1
      <4>2. i \in 0..(list.size - 1) /\ i <= at - 1
            BY <1>1, <3>3
      <4>3. list.chunks[i].ptr <= list.chunks[at - 1].ptr
            BY <1>1, <4>1, <4>2 DEF Sorted
      <4> QED
          BY <1>1, <4>1, <4>2, <4>3
    <3>5. ASSUME NEW i \in at..(list.size - 1)
          PROVE  list.chunks[i].ptr >= chunk.ptr
          BY <1>1, <3>1, <3>2, <3>3
    <3> QED
        BY <3>3, <3>4, <3>5
  <2> QED
      BY <2>1, <2>2
<1> HIDE DEF at
<1>3. Insert(list, chunk) = [size |-> list.size + 1, chunks |-> f]
      BY DEF Insert, at
<1>4. \A j \in Slots :
        /\ j < at \/ j > list.size => f[j] = list.chunks[j]
        /\ j = at => f[j] = chunk
        /\ at < j /\ j <= list.size => f[j] = list.chunks[j - 1]
      BY <1>1, <1>2 DEF Slots
<1>5. f = [j \in Slots |-> f[j]]
      OBVIOUS
<1> HIDE DEF f
<1>6. PutIn(f, list, chunk, at)
      BY <1>4, <1>5 DEF PutIn
<1> QED
    BY <1>2, <1>3, <1>6

\* The list with a chunk inserted is a list, and in order.
LEMMA InsertSorts ==
  ASSUME NEW list, IsList(list), Sorted(list), list.size < CHUNKS_CAP,
         NEW chunk, IsChunk(chunk)
  PROVE  IsList(Insert(list, chunk)) /\ Sorted(Insert(list, chunk))
<1>1. /\ list.size \in Nat /\ CHUNKS_CAP \in Nat
      /\ \A i \in 0..list.size : i \in Slots
      /\ \A i \in Slots : IsChunk(list.chunks[i]) /\ list.chunks[i].ptr \in Nat
      /\ chunk.ptr \in Nat
      BY Indices, ChunkFacts DEF IsList, IsArray, Slots
<1>0. PICK at \in 0..list.size : \E f :
        /\ Insert(list, chunk) = [size |-> list.size + 1, chunks |-> f]
        /\ PutIn(f, list, chunk, at)
        /\ \A i \in 0..(at - 1) : list.chunks[i].ptr <= chunk.ptr
        /\ \A i \in at..(list.size - 1) : list.chunks[i].ptr >= chunk.ptr
      BY InsertPlace
<1>2. PICK f :
        /\ Insert(list, chunk) = [size |-> list.size + 1, chunks |-> f]
        /\ PutIn(f, list, chunk, at)
        /\ \A i \in 0..(at - 1) : list.chunks[i].ptr <= chunk.ptr
        /\ \A i \in at..(list.size - 1) : list.chunks[i].ptr >= chunk.ptr
      BY <1>0
<1>3. Insert(list, chunk) = [size |-> list.size + 1, chunks |-> f]
      BY <1>2
<1>4. \A j \in Slots :
        /\ j < at \/ j > list.size => f[j] = list.chunks[j]
        /\ j = at => f[j] = chunk
        /\ at < j /\ j <= list.size => f[j] = list.chunks[j - 1]
      BY <1>2 DEF PutIn
<1>5. f = [j \in Slots |-> f[j]]
      BY <1>2 DEF PutIn
<1>6. IsArray(f)
  <2> SUFFICES ASSUME NEW j \in Slots PROVE IsChunk(f[j])
      BY <1>5 DEF IsArray
  <2>1. j \in Nat
        BY <1>1 DEF Slots
  <2>2. CASE j < at \/ j > list.size
        BY <1>1, <1>4, <2>2
  <2>3. CASE j = at
        BY <1>4, <2>3
  <2>4. CASE at < j /\ j <= list.size
    <3>1. j - 1 \in Slots
          BY <1>1, <1>2, <2>1, <2>4
    <3> QED
        BY <1>1, <1>4, <2>4, <3>1
  <2> QED
      BY <1>1, <1>2, <2>1, <2>2, <2>3, <2>4
<1>7. ASSUME NEW i \in 0..list.size, NEW j \in 0..list.size, i < j
      PROVE  f[i].ptr <= f[j].ptr
  <2>1. i \in Slots /\ j \in Slots
        BY <1>1
  <2>2. CASE j < at
        BY <1>1, <1>2, <1>4, <1>7, <2>1, <2>2 DEF Sorted
  <2>3. CASE j = at
        BY <1>1, <1>2, <1>4, <1>7, <2>1, <2>3
  <2>4. CASE at < j
    <3>1. f[j] = list.chunks[j - 1] /\ j - 1 \in at..(list.size - 1)
          BY <1>1, <1>2, <1>4, <2>1, <2>4
    <3>2. CASE i < at
          BY <1>1, <1>2, <1>4, <2>1, <3>1, <3>2 DEF Sorted
    <3>3. CASE i = at
          BY <1>1, <1>2, <1>4, <2>1, <3>1, <3>3
    <3>4. CASE at < i
      <4>1. f[i] = list.chunks[i - 1]
            BY <1>1, <1>4, <2>1, <3>4
      <4>2. i - 1 \in 0..(list.size - 1) /\ j - 1 \in 0..(list.size - 1)
            BY <1>1, <1>2, <3>1, <3>4
      <4> QED
          BY <1>1, <1>7, <3>1, <4>1, <4>2 DEF Sorted
    <3> QED
        BY <1>1, <1>2, <3>2, <3>3, <3>4
  <2> QED
      BY <1>1, <1>2, <2>2, <2>3, <2>4
<1> QED
    BY <1>1, <1>3, <1>6, <1>7 DEF IsList, Sorted

\* The chunk's size is added to the total.
LEMMA InsertTotal ==
  ASSUME NEW list, IsList(list), Sorted(list), list.size < CHUNKS_CAP,
         NEW chunk, IsChunk(chunk)
  PROVE  LET new == Insert(list, chunk)
         IN  Total(new.chunks, 0, new.size)
               = Total(list.chunks, 0, list.size) + chunk.size
<1>0. PICK at \in 0..list.size : \E f :
        /\ Insert(list, chunk) = [size |-> list.size + 1, chunks |-> f]
        /\ PutIn(f, list, chunk, at)
      BY InsertPlace
<1>1. PICK f :
        /\ Insert(list, chunk) = [size |-> list.size + 1, chunks |-> f]
        /\ PutIn(f, list, chunk, at)
      BY <1>0
<1>2. /\ list.size \in Nat /\ CHUNKS_CAP \in Nat /\ chunk.size \in Nat
      /\ IsArray(list.chunks) /\ IsArray(f)
  <2>1. IsList(Insert(list, chunk))
        BY InsertSorts
  <2> QED
      BY <1>1, <2>1, Indices, ChunkFacts DEF IsList
<1> DEFINE Old(n) == Total(list.chunks, 0, n)
           New(n) == Total(f, 0, n)
           Same == {n \in Nat : n <= list.size + 1 =>
                      New(n) = IF n <= at THEN Old(n) ELSE Old(n - 1) + chunk.size}
<1>3. /\ Old(0) = 0 /\ New(0) = 0
      /\ \A n \in 0..CHUNKS_CAP : Old(n) \in Nat /\ New(n) \in Nat
      /\ \A n \in 1..CHUNKS_CAP : /\ Old(n) = Old(n - 1) + list.chunks[n - 1].size
                                  /\ New(n) = New(n - 1) + f[n - 1].size
      BY <1>2, AllTotals
<1> HIDE DEF Old, New
<1>4. 0 \in Same
      BY <1>2, <1>3
<1>5. ASSUME NEW n \in Nat, n \in Same PROVE n + 1 \in Same
  <2>1. SUFFICES ASSUME n <= list.size
                 PROVE  New(n + 1) = IF n + 1 <= at THEN Old(n + 1)
                                     ELSE Old(n) + chunk.size
        BY <1>2
  <2>2. /\ n \in Slots /\ n + 1 \in 1..CHUNKS_CAP /\ (n + 1) - 1 = n
        /\ n \in 0..CHUNKS_CAP
        BY <1>2, <2>1 DEF Slots
  <2>3. New(n + 1) = New(n) + f[n].size
        BY <1>3, <2>2
  <2>4. New(n) = IF n <= at THEN Old(n) ELSE Old(n - 1) + chunk.size
        BY <1>2, <1>5, <2>1
  <2>5. Old(n) \in Nat /\ New(n) \in Nat
        BY <1>3, <2>2
  <2>6. CASE n < at
    <3>1. f[n] = list.chunks[n] /\ Old(n + 1) = Old(n) + list.chunks[n].size
          BY <1>1, <1>3, <2>2, <2>6 DEF PutIn
    <3> QED
        BY <2>3, <2>4, <2>6, <3>1
  <2>7. CASE n = at
    <3>1. f[n] = chunk
          BY <1>1, <2>2, <2>7 DEF PutIn
    <3> QED
        BY <2>3, <2>4, <2>7, <3>1
  <2>8. CASE n > at
    <3>1. f[n] = list.chunks[n - 1]
          BY <1>1, <2>1, <2>2, <2>8 DEF PutIn
    <3>2. n \in 1..CHUNKS_CAP /\ n - 1 \in Slots
          BY <1>2, <2>2, <2>8 DEF Slots
    <3>3. Old(n) = Old(n - 1) + list.chunks[n - 1].size
          BY <1>3, <3>2
    <3>4. Old(n - 1) \in Nat
          BY <1>2, <1>3, <3>2 DEF Slots
    <3>5. list.chunks[n - 1].size \in Nat
          BY <1>2, <3>2, ChunkFacts DEF IsArray
    <3> QED
        BY <1>2, <2>3, <2>4, <2>8, <3>1, <3>3, <3>4, <3>5
  <2> QED
      BY <1>2, <2>6, <2>7, <2>8
<1> HIDE DEF Same
<1>6. list.size + 1 \in Same
      BY <1>2, <1>4, <1>5, AllNumbers
<1>7. New(list.size + 1) = Old(list.size) + chunk.size
      BY <1>2, <1>6 DEF Same
<1> QED
    BY <1>1, <1>7 DEF Old, New

\* erase_chunk_from_alloced keeps the order.
LEMMA ErasedSorts ==
  ASSUME NEW list, IsList(list), Sorted(list), list.size > 0,
         NEW pos \in Nat
  PROVE  IsList(Erased(list, pos)) /\ Sorted(Erased(list, pos))
<1> DEFINE f == [j \in Slots |-> IF pos <= j /\ j < list.size - 1
                                   THEN list.chunks[j + 1] ELSE list.chunks[j]]
<1>1. /\ list.size \in 1..CHUNKS_CAP /\ CHUNKS_CAP \in Nat
      /\ \A i \in 0..(list.size - 1) : i \in Slots
      /\ \A i \in Slots : i \in Nat /\ IsChunk(list.chunks[i])
      /\ \A i \in Slots : list.chunks[i].ptr \in Nat
      BY Indices, ChunkFacts DEF IsList, IsArray, Slots
<1>2. Erased(list, pos) = [size |-> list.size - 1, chunks |-> f]
      BY DEF Erased
<1>3. IsArray(f)
      BY <1>1 DEF IsArray
<1>4. ASSUME NEW i \in 0..(list.size - 2), NEW j \in 0..(list.size - 2), i < j
      PROVE  f[i].ptr <= f[j].ptr
  <2>1. /\ i \in 0..(list.size - 1) /\ i + 1 \in 0..(list.size - 1)
        /\ j \in 0..(list.size - 1) /\ j + 1 \in 0..(list.size - 1)
        /\ i \in Slots /\ j \in Slots
        BY <1>1
  <2>2. /\ f[i] = IF pos <= i THEN list.chunks[i + 1] ELSE list.chunks[i]
        /\ f[j] = IF pos <= j THEN list.chunks[j + 1] ELSE list.chunks[j]
        BY <1>1, <2>1
  <2> HIDE DEF f
  <2> QED
      BY <1>1, <1>4, <2>1, <2>2 DEF Sorted
<1> HIDE DEF f
<1>5. IsList([size |-> list.size - 1, chunks |-> f])
      BY <1>1, <1>3 DEF IsList
<1>6. Sorted([size |-> list.size - 1, chunks |-> f])
      BY <1>1, <1>4 DEF Sorted
<1> QED
    BY <1>2, <1>5, <1>6

\* The size of the chunk erased is taken from the total.
LEMMA ErasedTotal ==
  ASSUME NEW list, IsList(list), Sorted(list), NEW pos \in 0..(list.size - 1)
  PROVE  LET less == Erased(list, pos)
         IN  Total(less.chunks, 0, less.size) + list.chunks[pos].size
               = Total(list.chunks, 0, list.size)
<1> DEFINE f == [j \in Slots |-> IF pos <= j /\ j < list.size - 1
                                   THEN list.chunks[j + 1] ELSE list.chunks[j]]
           gone == list.chunks[pos].size
<1>1. /\ list.size \in 1..CHUNKS_CAP /\ CHUNKS_CAP \in Nat
      /\ pos \in Nat /\ pos \in Slots
      BY Indices DEF Slots
<1>2. Erased(list, pos) = [size |-> list.size - 1, chunks |-> f]
      BY DEF Erased
<1>3. IsArray(list.chunks) /\ IsArray(f) /\ gone \in Nat
  <2>1. IsList(Erased(list, pos))
        BY <1>1, ErasedSorts
  <2> QED
      BY <1>1, <1>2, <2>1, ChunkFacts DEF IsList, IsArray
<1>4. \A j \in Slots : f[j] = IF pos <= j /\ j < list.size - 1
                                THEN list.chunks[j + 1] ELSE list.chunks[j]
      OBVIOUS
<1> HIDE DEF f, gone
<1> DEFINE Old(n) == Total(list.chunks, 0, n)
           New(n) == Total(f, 0, n)
           Less == {n \in Nat : n <= list.size - 1 =>
                      /\ n <= pos => New(n) = Old(n)
                      /\ n >= pos => New(n) + gone = Old(n + 1)}
<1>5. /\ Old(0) = 0 /\ New(0) = 0
      /\ \A n \in 0..CHUNKS_CAP : Old(n) \in Nat /\ New(n) \in Nat
      /\ \A n \in 1..CHUNKS_CAP : /\ Old(n) = Old(n - 1) + list.chunks[n - 1].size
                                  /\ New(n) = New(n - 1) + f[n - 1].size
      BY <1>3, AllTotals
<1> HIDE DEF Old, New
<1>6. Old(pos + 1) = Old(pos) + gone
  <2>1. pos + 1 \in 1..CHUNKS_CAP /\ (pos + 1) - 1 = pos
        BY <1>1 DEF Slots
  <2> QED
      BY <1>5, <2>1 DEF gone
<1>7. 0 \in Less
      BY <1>1, <1>3, <1>5, <1>6
<1>8. ASSUME NEW n \in Nat, n \in Less PROVE n + 1 \in Less
  <2>1. SUFFICES ASSUME n + 1 <= list.size - 1
                 PROVE  /\ n + 1 <= pos => New(n + 1) = Old(n + 1)
                        /\ n + 1 >= pos => New(n + 1) + gone = Old(n + 2)
        BY <1>1
  <2>2. /\ n \in Slots /\ n \in 0..CHUNKS_CAP
        /\ n + 1 \in 1..CHUNKS_CAP /\ (n + 1) - 1 = n
        /\ n + 2 \in 1..CHUNKS_CAP /\ (n + 2) - 1 = n + 1
        BY <1>1, <2>1 DEF Slots
  <2>3. /\ New(n + 1) = New(n) + f[n].size
        /\ Old(n + 1) = Old(n) + list.chunks[n].size
        /\ Old(n + 2) = Old(n + 1) + list.chunks[n + 1].size
        BY <1>5, <2>2
  <2>4. /\ n <= pos => New(n) = Old(n)
        /\ n >= pos => New(n) + gone = Old(n + 1)
        BY <1>1, <1>8, <2>1
  <2>5. /\ n < pos => f[n] = list.chunks[n]
        /\ n >= pos => f[n] = list.chunks[n + 1]
        BY <1>1, <1>4, <2>1, <2>2
  <2>6. /\ New(n) \in Nat /\ Old(n + 1) \in Nat
        /\ list.chunks[n + 1].size \in Nat
    <3>1. n + 1 \in Slots /\ n + 1 \in 0..CHUNKS_CAP
          BY <1>1, <2>1 DEF Slots
    <3> QED
        BY <1>3, <1>5, <2>2, <3>1, ChunkFacts DEF IsArray
  <2>7. CASE n < pos
    <3>1. New(n + 1) = Old(n + 1)
          BY <1>1, <2>3, <2>4, <2>5, <2>7
    <3>2. n + 1 >= pos => n + 1 = pos
          BY <1>1, <2>7
    <3>3. n + 1 = pos => New(n + 1) + gone = Old(n + 2)
      <4>1. n + 1 = pos => Old(n + 2) = Old(pos) + gone
            BY <1>6
      <4> QED
          BY <3>1, <4>1
    <3> QED
        BY <3>1, <3>2, <3>3
  <2>8. CASE n >= pos
    <3>1. New(n + 1) + gone = Old(n + 2)
          BY <1>3, <2>3, <2>4, <2>5, <2>6, <2>8
    <3> QED
        BY <1>1, <2>8, <3>1
  <2> QED
      BY <1>1, <2>7, <2>8
<1> HIDE DEF Less
<1>9. list.size - 1 \in Less
      BY <1>1, <1>7, <1>8, AllNumbers
<1>10. New(list.size - 1) + gone = Old(list.size)
  <2>1. list.size - 1 \in Nat /\ list.size - 1 >= pos /\ (list.size - 1) + 1 = list.size
        BY <1>1
  <2> QED
      BY <1>9, <2>1 DEF Less
<1> QED
    BY <1>2, <1>10 DEF Old, New, gone

\* try_to_merge_freed_chunks leaves a list of chunks for any index that is a
\* slot, of whichever list it is.
LEMMA TryToMergeList ==
  ASSUME NEW list, IsList(list), NEW pos \in Slots
  PROVE  IsList(TryToMerge(list, pos))
<1> DEFINE left == IF pos # 0 /\ NextNeighbouring(list, pos - 1) THEN pos - 1 ELSE pos
           sum(i) == SumOfSizes(list.chunks, left, i)
           goes(i) == IF i = left + 1 THEN sum(i) = 0 ELSE NextNeighbouring(list, i)
           stops == {i \in left..(list.size - 2) : ~goes(i)}
           resized(i) == [list.chunks EXCEPT ![left].size = sum(i)]
           moved(i) == [j \in Slots |->
                          IF left < j /\ j < left + list.size - i
                            THEN resized(i)[j + i - left] ELSE resized(i)[j]]
<1>1. /\ list.size \in 0..CHUNKS_CAP /\ CHUNKS_CAP \in Nat \ {0}
      /\ \A i \in Slots : IsChunk(list.chunks[i])
      /\ list = [size |-> list.size, chunks |-> list.chunks]
      BY Indices DEF IsList, IsArray
<1>2. left \in 0..pos
      BY DEF Slots
<1>3. TryToMerge(list, pos) =
        IF left + 1 >= list.size THEN [list EXCEPT !.size = left + 1]
        ELSE IF stops = {}
          THEN [size |-> left + 1, chunks |-> resized(list.size - 1)]
          ELSE [list EXCEPT !.chunks = moved(Min(stops))]
      BY DEF TryToMerge
<1> HIDE DEF left
<1>4. left \in Nat /\ left \in Slots /\ left + 1 \in 0..CHUNKS_CAP
      BY <1>1, <1>2 DEF Slots
<1>5. ASSUME NEW i \in left..(list.size - 1)
      PROVE  IsArray(resized(i))
  <2>a. i + 1 \in 0..CHUNKS_CAP /\ (i + 1) - 1 = i
        BY <1>1, <1>4
  <2>b. sum(i) \in Nat
        BY <1>1, <1>4, <2>a, Totals DEF IsList, Total
  <2>1. IsChunk([list.chunks[left] EXCEPT !.size = sum(i)])
        BY <1>1, <1>4, <2>b, ChunkFacts
  <2> HIDE DEF sum
  <2>2. resized(i) = [list.chunks EXCEPT ![left] = [list.chunks[left] EXCEPT !.size = sum(i)]]
        OBVIOUS
  <2>3. list.chunks = [j \in Slots |-> list.chunks[j]]
        BY DEF IsList, IsArray
  <2> QED
      BY <1>1, <1>4, <2>1, <2>2, <2>3 DEF IsArray
<1> HIDE DEF resized
<1>6. CASE left + 1 >= list.size
  <2>1. [list EXCEPT !.size = left + 1] = [size |-> left + 1, chunks |-> list.chunks]
        BY <1>1
  <2>2. IsList([size |-> left + 1, chunks |-> list.chunks])
        BY <1>4 DEF IsList
  <2> QED
      BY <1>3, <1>6, <2>1, <2>2
<1>7. CASE ~(left + 1 >= list.size) /\ stops = {}
  <2>a. list.size - 1 \in left..(list.size - 1)
        BY <1>1, <1>4, <1>7
  <2>1. IsList([size |-> left + 1, chunks |-> resized(list.size - 1)])
        BY <1>4, <1>5, <2>a DEF IsList
  <2> QED
      BY <1>3, <1>7, <2>1
<1>8. CASE ~(left + 1 >= list.size) /\ stops # {}
  <2> DEFINE i == Min(stops)
  <2>1. stops \subseteq Nat
        BY <1>1, <1>4
  <2>2. i \in left..(list.size - 2)
        BY <1>8, <2>1, LeastExists
  <2> HIDE DEF i
  <2>a. i \in left..(list.size - 1)
        BY <1>1, <1>4, <2>2
  <2>3. IsArray(moved(i))
    <3>1. ASSUME NEW j \in Slots, left < j, j < left + list.size - i
          PROVE  j + i - left \in Slots
          BY <1>1, <1>4, <2>2, <3>1 DEF Slots
    <3>2. \A j \in Slots : IsChunk(moved(i)[j])
          BY <1>5, <2>a, <3>1 DEF IsArray
    <3> QED
        BY <3>2 DEF IsArray
  <2> HIDE DEF moved
  <2>4. [list EXCEPT !.chunks = moved(i)] = [size |-> list.size, chunks |-> moved(i)]
        BY <1>1
  <2>5. IsList([size |-> list.size, chunks |-> moved(i)])
        BY <1>1, <2>3 DEF IsList
  <2> QED
      BY <1>3, <1>8, <2>4, <2>5 DEF i
<1> QED
    BY <1>6, <1>7, <1>8

-----------------------------------------------------------------------------
(* The calls.                                                              *)

\* At first nothing is in use, and one chunk is free.
LEMMA SortedInit == Init => SortedInv
<1> SUFFICES ASSUME Init PROVE SortedInv
    OBVIOUS
<1>1. IsChunk(NullChunk) /\ IsChunk([ptr |-> heap, size |-> ALLOC_CAP])
  <2>1. NULL \in Nat /\ 0 \in Nat /\ heap \in Nat /\ ALLOC_CAP \in Nat
        BY HeapAssumption, CapAssumption DEF NULL
  <2> QED
      BY <2>1 DEF IsChunk, NullChunk
<1>2. CHUNKS_CAP \in Nat \ {0}
      BY CapAssumption
<1>3. IsList(alloced_chunks) /\ alloced_chunks.size = 0
      BY <1>1, <1>2 DEF Init, IsList, IsArray
<1>4. IsList(freed_chunks)
      BY <1>1, <1>2 DEF Init, IsList, IsArray
<1>5. Sorted(alloced_chunks)
      BY <1>3 DEF Sorted
<1> QED
    BY <1>3, <1>4, <1>5 DEF SortedInv

\* heap_alloc keeps the lists, and the order.
LEMMA AllocSorts ==
  ASSUME SortedInv, NEW size \in Nat, heap_alloc(size)
  PROVE  SortedInv'
<1>1. IsList(alloced_chunks) /\ IsList(freed_chunks) /\ Sorted(alloced_chunks)
      BY DEF SortedInv
<1> DEFINE i == Min(Fits(size))
           chunk == [ptr |-> freed_chunks.chunks[i].ptr, size |-> size]
<1>2. /\ ~Full(alloced_chunks) /\ Fits(size) # {}
      /\ freed_chunks' = TakeFrom(freed_chunks, i, size)
      /\ alloced_chunks' = Insert(alloced_chunks, chunk)
      BY DEF heap_alloc
<1>3. i \in 0..(freed_chunks.size - 1) /\ freed_chunks.chunks[i].size >= size
  <2>1. Fits(size) \subseteq 0..(freed_chunks.size - 1)
        BY DEF Fits
  <2>2. Fits(size) \subseteq Nat
        BY <1>1, <2>1, Indices
  <2> QED
      BY <1>2, <2>1, <2>2, LeastExists DEF Fits
<1> HIDE DEF i
<1>4. IsChunk(chunk)
  <2>1. freed_chunks.chunks[i].ptr \in Nat
        BY <1>1, <1>3, Indices, ChunkFacts DEF IsList, IsArray
  <2> QED
      BY <2>1 DEF IsChunk
<1> HIDE DEF chunk
<1>5. alloced_chunks.size < CHUNKS_CAP
      BY <1>1, <1>2, Indices DEF Full
<1>6. IsList(freed_chunks')
  <2>1. freed_chunks.chunks[i].size \in Nat
        BY <1>1, <1>3, Indices, ChunkFacts DEF IsList, IsArray
  <2>2. size <= freed_chunks.chunks[i].size
        BY <1>3, <2>1
  <2> QED
      BY <1>1, <1>2, <1>3, <2>2, TakeFromList
<1>7. IsList(alloced_chunks') /\ Sorted(alloced_chunks')
      BY <1>1, <1>2, <1>4, <1>5, InsertSorts
<1> QED
    BY <1>6, <1>7 DEF SortedInv

\* heap_free keeps the lists, and the order, whatever pointer it is given.
LEMMA FreeSorts ==
  ASSUME SortedInv, NEW ptr, heap_free(ptr)
  PROVE  SortedInv'
<1>1. IsList(alloced_chunks) /\ IsList(freed_chunks) /\ Sorted(alloced_chunks)
      BY DEF SortedInv
<1> DEFINE pos == LowerBound(ptr)
           chunk == Slot(alloced_chunks, pos)
           frees == Accepts(pos, ptr) /\ ~Full(freed_chunks)
<1>2. CASE ~frees
  <2>1. UNCHANGED <<alloced_chunks, freed_chunks>>
        BY <1>2 DEF heap_free, lists
  <2> QED
      BY <1>1, <2>1 DEF SortedInv
<1>3. CASE frees
  <2>1. /\ alloced_chunks.size > 0
        /\ freed_chunks' = AddToFreed(chunk)
        /\ alloced_chunks' = Erased(alloced_chunks, pos)
        BY <1>3 DEF heap_free
  <2>2. pos \in Nat
    <3> DEFINE T == {i \in 0..(alloced_chunks.size - 1) :
                       alloced_chunks.chunks[i].ptr >= ptr} \cup {alloced_chunks.size}
    <3>1. T \subseteq Nat /\ T # {}
          BY <1>1, Indices
    <3>2. Min(T) \in T
          BY <3>1, LeastExists
    <3>3. pos = Min(T)
          BY DEF LowerBound
    <3> QED
        BY <3>1, <3>2, <3>3
  <2>3. IsList(alloced_chunks') /\ Sorted(alloced_chunks')
        BY <1>1, <2>1, <2>2, ErasedSorts
  <2>4. IsChunk(chunk)
        BY <1>1, Indices
  <2> HIDE DEF pos, chunk
  <2>5. freed_chunks.size \in Slots /\ freed_chunks.size + 1 \in 0..CHUNKS_CAP
        BY <1>1, <1>3, Indices DEF Full, Slots
  <2> DEFINE f == [freed_chunks.chunks EXCEPT ![freed_chunks.size] = chunk]
             appended == [size |-> freed_chunks.size + 1, chunks |-> f]
  <2>6. IsArray(f)
        BY <1>1, <2>4, <2>5 DEF IsList, IsArray
  <2>7. IsList(appended)
        BY <2>5, <2>6 DEF IsList
  <2>8. alloced_chunks.size - 1 \in Slots
        BY <1>1, <2>1, Indices
  <2>9. freed_chunks' = TryToMerge(appended, alloced_chunks.size - 1)
        BY <2>1 DEF AddToFreed
  <2> HIDE DEF appended
  <2>10. IsList(freed_chunks')
        BY <2>7, <2>8, <2>9, TryToMergeList
  <2> QED
      BY <2>3, <2>10 DEF SortedInv
<1> QED
    BY <1>2, <1>3

\* Every call keeps the lists, and the order.
LEMMA SortedNext == SortedInv /\ [Next]_vars => SortedInv'
<1> SUFFICES ASSUME SortedInv, [Next]_vars PROVE SortedInv'
    OBVIOUS
<1>1. CASE Allocate
  <2>1. PICK size \in 1..ALLOC_CAP : heap_alloc(size)
        BY <1>1 DEF Allocate
  <2>2. size \in Nat
        BY CapAssumption
  <2> QED
      BY <2>1, <2>2, AllocSorts
<1>2. CASE FreeOwned
      BY <1>2, FreeSorts DEF FreeOwned
<1>3. CASE FreeInside
      BY <1>3, FreeSorts DEF FreeInside
<1>4. CASE UNCHANGED vars
      BY <1>4 DEF vars, lists, SortedInv
<1> QED
    BY <1>1, <1>2, <1>3, <1>4 DEF Next

\* alloced_chunks is ordered by pointer whenever lower_bound searches it, after
\* any number of calls, with any pointers, on a heap of any size.
THEOREM StaysSorted == Spec => []AllocedSorted
<1>1. SortedInv => AllocedSorted
      BY DEF SortedInv, Sorted, AllocedSorted
<1> QED
    BY <1>1, SortedInit, SortedNext, PTL DEF Spec

-----------------------------------------------------------------------------
(* The accounts, and what the caller owns.                                 *)

\* Each of the caller's chunks has an entry of its own with its pointer.  Two of
\* them may overlap and share a pointer, so it is not enough that there is one.
Locates(f, list, chunks) ==
  /\ f \in [chunks -> 0..(list.size - 1)]
  /\ \A c, d \in chunks : f[c] = f[d] => c = d
  /\ \A c \in chunks : list.chunks[f[c]].ptr = c.ptr

Located == ~misused => \E f : Locates(f, alloced_chunks, owned)

Counts ==
  /\ free_heap_size \in Nat
  /\ owned \subseteq Chunk
  /\ misused \in BOOLEAN
  /\ calls \in 0..MaxCalls

HeapInv == SortedInv /\ Counts /\ Accounted /\ Located

\* The total, as Accounted adds it up.
LEMMA AccountedTotal ==
  Accounted <=>
    (~misused => free_heap_size
                   + Total(alloced_chunks.chunks, 0, alloced_chunks.size) = ALLOC_CAP)
BY DEF Accounted, Total

\* At first everything is free.
LEMMA HeapInit == Init => HeapInv
<1> SUFFICES ASSUME Init PROVE HeapInv
    OBVIOUS
<1>1. SortedInv
      BY SortedInit
<1>2. Counts
  <2>1. free_heap_size \in Nat /\ owned \subseteq Chunk
        BY CapAssumption DEF Init
  <2>2. misused \in BOOLEAN
        BY DEF Init
  <2>3. calls \in 0..MaxCalls
        BY MaxCallsAssumption DEF Init
  <2> QED
      BY <2>1, <2>2, <2>3 DEF Counts
<1>3. Accounted
  <2>1. IsArray(alloced_chunks.chunks)
        BY <1>1 DEF SortedInv, IsList
  <2>2. Total(alloced_chunks.chunks, 0, 0) = 0
        BY <2>1, AllTotals
  <2>3. free_heap_size = ALLOC_CAP /\ alloced_chunks.size = 0
        BY DEF Init
  <2> QED
      BY <2>2, <2>3, CapAssumption, AccountedTotal
<1>4. Located
  <2>1. Locates([c \in {} |-> 0], alloced_chunks, owned)
        BY DEF Locates, Init
  <2> QED
      BY <2>1 DEF Located
<1> QED
    BY <1>1, <1>2, <1>3, <1>4 DEF HeapInv

\* Fewer chunks have their entries still.
LEMMA LocatesFewer ==
  ASSUME NEW list, NEW chunks, NEW f, Locates(f, list, chunks),
         NEW fewer, fewer \subseteq chunks
  PROVE  \E g : Locates(g, list, fewer)
<1> DEFINE g == [c \in fewer |-> f[c]]
<1>1. Locates(g, list, fewer)
      BY DEF Locates
<1> QED
    BY <1>1

\* An entry that is put in moves those from its place on.
LEMMA LocatesAfterInsert ==
  ASSUME NEW list, IsList(list), Sorted(list), list.size < CHUNKS_CAP,
         NEW chunk, IsChunk(chunk), NEW chunks, NEW f, Locates(f, list, chunks)
  PROVE  \E g : Locates(g, Insert(list, chunk), chunks \cup {chunk})
<1>0. PICK at \in 0..list.size : \E new :
        /\ Insert(list, chunk) = [size |-> list.size + 1, chunks |-> new]
        /\ PutIn(new, list, chunk, at)
      BY InsertPlace
<1>1. PICK new :
        /\ Insert(list, chunk) = [size |-> list.size + 1, chunks |-> new]
        /\ PutIn(new, list, chunk, at)
      BY <1>0
<1>2. /\ list.size \in Nat /\ CHUNKS_CAP \in Nat
      /\ \A i \in 0..list.size : i \in Slots
      BY Indices DEF Slots
<1> DEFINE up(i) == IF i < at THEN i ELSE i + 1
           g == [c \in chunks \cup {chunk} |-> IF c \in chunks THEN up(f[c]) ELSE at]
<1>3. ASSUME NEW c \in chunks
      PROVE  /\ f[c] \in 0..(list.size - 1)
             /\ up(f[c]) \in 0..list.size /\ up(f[c]) # at
             /\ new[up(f[c])].ptr = c.ptr
  <2>1. f[c] \in 0..(list.size - 1) /\ list.chunks[f[c]].ptr = c.ptr
        BY DEF Locates
  <2>2. up(f[c]) \in 0..list.size /\ up(f[c]) # at
        BY <1>2, <2>1
  <2>3. new[up(f[c])] = list.chunks[f[c]]
    <3>1. CASE f[c] < at
          BY <1>1, <1>2, <2>1, <3>1 DEF PutIn
    <3>2. CASE f[c] >= at
      <4>1. f[c] + 1 \in Slots /\ at < f[c] + 1 /\ f[c] + 1 <= list.size
            BY <1>2, <2>1, <3>2
      <4>2. new[f[c] + 1] = list.chunks[(f[c] + 1) - 1]
            BY <1>1, <4>1 DEF PutIn
      <4> QED
          BY <1>2, <2>1, <3>2, <4>2
    <3> QED
        BY <1>2, <2>1, <3>1, <3>2
  <2> QED
      BY <2>1, <2>2, <2>3
<1>4. new[at] = chunk
      BY <1>1, <1>2 DEF PutIn
<1>5. \A c \in chunks \cup {chunk} :
        /\ c \in chunks => g[c] = up(f[c])
        /\ c \notin chunks => g[c] = at /\ c = chunk
      OBVIOUS
<1>6. ASSUME NEW c \in chunks \cup {chunk}, NEW d \in chunks \cup {chunk}, g[c] = g[d]
      PROVE  c = d
  <2>1. CASE c \in chunks /\ d \in chunks
    <3>1. f[c] = f[d]
          BY <1>2, <1>3, <1>5, <1>6, <2>1
    <3> QED
        BY <2>1, <3>1 DEF Locates
  <2>2. CASE c \notin chunks \/ d \notin chunks
    <3> HIDE DEF g, up
    <3> QED
        BY <1>3, <1>5, <1>6, <2>2
  <2> QED
      BY <2>1, <2>2
<1>7. g \in [chunks \cup {chunk} -> 0..list.size]
      BY <1>2, <1>3
<1>8. \A c \in chunks \cup {chunk} : new[g[c]].ptr = c.ptr
      BY <1>3, <1>4, <1>5
<1> HIDE DEF g, up
<1>9. Locates(g, [size |-> list.size + 1, chunks |-> new], chunks \cup {chunk})
  <2>1. (list.size + 1) - 1 = list.size
        BY <1>2
  <2> QED
      BY <1>6, <1>7, <1>8, <2>1 DEF Locates
<1> QED
    BY <1>1, <1>9

\* An entry with the pointer of a chunk that is freed is erased: if it was the
\* one of another chunk, that one takes over the entry of the chunk freed.
LEMMA LocatesAfterErase ==
  ASSUME NEW list, IsList(list), NEW chunks, NEW f, Locates(f, list, chunks),
         NEW c \in chunks, NEW pos \in 0..(list.size - 1),
         list.chunks[pos].ptr = c.ptr
  PROVE  \E g : Locates(g, Erased(list, pos), chunks \ {c})
<1> DEFINE new == [j \in Slots |-> IF pos <= j /\ j < list.size - 1
                                     THEN list.chunks[j + 1] ELSE list.chunks[j]]
           other(d) == IF f[d] = pos THEN f[c] ELSE f[d]
           down(i) == IF i < pos THEN i ELSE i - 1
           g == [d \in chunks \ {c} |-> down(other(d))]
<1>1. /\ list.size \in Nat /\ CHUNKS_CAP \in Nat /\ list.size <= CHUNKS_CAP
      /\ pos \in Nat /\ pos < list.size
      BY Indices
<1>2. Erased(list, pos) = [size |-> list.size - 1, chunks |-> new]
      BY DEF Erased
<1>3. ASSUME NEW i \in 0..(list.size - 1), i # pos
      PROVE  down(i) \in 0..(list.size - 2) /\ new[down(i)] = list.chunks[i]
  <2>1. down(i) \in 0..(list.size - 2) /\ down(i) \in Slots
        BY <1>1, <1>3 DEF Slots
  <2>2. CASE i < pos
        BY <1>1, <2>1, <2>2
  <2>3. CASE i > pos
    <3>1. down(i) = i - 1 /\ pos <= i - 1 /\ i - 1 < list.size - 1 /\ (i - 1) + 1 = i
          BY <1>1, <2>3
    <3> QED
        BY <2>1, <3>1
  <2> QED
      BY <1>1, <1>3, <2>1, <2>2, <2>3
<1> HIDE DEF new
<1>4. /\ f \in [chunks -> 0..(list.size - 1)]
      /\ \A d, e \in chunks : f[d] = f[e] => d = e
      /\ \A d \in chunks : list.chunks[f[d]].ptr = d.ptr
      BY DEF Locates
<1>5. ASSUME NEW d \in chunks \ {c}
      PROVE  /\ other(d) \in 0..(list.size - 1) /\ other(d) # pos
             /\ list.chunks[other(d)].ptr = d.ptr
      BY <1>4
<1>6. ASSUME NEW d \in chunks \ {c}, NEW e \in chunks \ {c}, other(d) = other(e)
      PROVE  d = e
      BY <1>4, <1>6
<1> HIDE DEF other
<1>7. \A d \in chunks \ {c} : g[d] \in 0..(list.size - 2) /\ new[g[d]].ptr = d.ptr
      BY <1>3, <1>5
<1>8. ASSUME NEW d \in chunks \ {c}, NEW e \in chunks \ {c}, g[d] = g[e]
      PROVE  d = e
  <2>1. down(other(d)) = down(other(e))
        BY <1>8
  <2>2. other(d) = other(e)
        BY <1>1, <1>5, <2>1
  <2> QED
      BY <1>6, <2>2
<1>9. g \in [chunks \ {c} -> 0..(list.size - 2)]
      BY <1>7
<1> HIDE DEF g
<1>10. Locates(g, [size |-> list.size - 1, chunks |-> new], chunks \ {c})
  <2>1. (list.size - 1) - 1 = list.size - 2
        BY <1>1
  <2> QED
      BY <1>7, <1>8, <1>9, <2>1 DEF Locates
<1> QED
    BY <1>2, <1>10

\* The binary search finds a pointer that is there.
LEMMA LowerBoundFinds ==
  ASSUME SortedInv, NEW ptr, NEW k \in 0..(alloced_chunks.size - 1),
         alloced_chunks.chunks[k].ptr = ptr
  PROVE  /\ LowerBound(ptr) \in 0..(alloced_chunks.size - 1)
         /\ alloced_chunks.chunks[LowerBound(ptr)].ptr = ptr
<1> DEFINE size == alloced_chunks.size
           chunks == alloced_chunks.chunks
           T == {i \in 0..(size - 1) : chunks[i].ptr >= ptr} \cup {size}
           pos == Min(T)
<1>1. /\ size \in Nat /\ k \in 0..(size - 1)
      /\ \A i \in 0..(size - 1) : i \in Slots /\ chunks[i].ptr \in Nat
      /\ \A i, j \in 0..(size - 1) : i < j => chunks[i].ptr <= chunks[j].ptr
  <2>1. IsList(alloced_chunks) /\ Sorted(alloced_chunks)
        BY DEF SortedInv
  <2> QED
      BY <2>1, Indices, ChunkFacts DEF IsList, IsArray, Sorted
<1>2. LowerBound(ptr) = pos
      BY DEF LowerBound
<1>3. chunks[k].ptr = ptr /\ ptr \in Nat
      BY <1>1
<1> HIDE DEF size, chunks
<1>4. T \subseteq Nat /\ k \in T
      BY <1>1, <1>3
<1>5. pos \in T /\ pos <= k
      BY <1>4, LeastExists
<1> HIDE DEF pos
<1>6. pos \in 0..(size - 1) /\ chunks[pos].ptr >= ptr
      BY <1>1, <1>5
<1>7. chunks[pos].ptr <= ptr
  <2>1. CASE pos = k
        BY <1>3, <1>1, <2>1
  <2>2. CASE pos < k
        BY <1>1, <1>3, <1>6, <2>2
  <2> QED
      BY <1>1, <1>5, <1>6, <2>1, <2>2
<1>8. chunks[pos].ptr = ptr
      BY <1>1, <1>3, <1>6, <1>7
<1> QED
    BY <1>2, <1>6, <1>8 DEF size, chunks

\* heap_alloc takes from the free heap what it adds to the chunks in use.
LEMMA AllocHeap ==
  ASSUME HeapInv, NEW size \in 1..ALLOC_CAP, heap_alloc(size), UNCHANGED misused
  PROVE  /\ Accounted' /\ Located'
         /\ free_heap_size' \in Nat /\ owned' \subseteq Chunk
<1> DEFINE i == Min(Fits(size))
           chunk == [ptr |-> freed_chunks.chunks[i].ptr, size |-> size]
<1>1. /\ IsList(alloced_chunks) /\ IsList(freed_chunks) /\ Sorted(alloced_chunks)
      /\ free_heap_size \in Nat /\ owned \subseteq Chunk /\ size \in Nat
      BY CapAssumption DEF HeapInv, SortedInv, Counts
<1>2. /\ ~Full(alloced_chunks) /\ Fits(size) # {} /\ size <= free_heap_size
      /\ alloced_chunks' = Insert(alloced_chunks, chunk)
      /\ owned' = IF chunk.ptr = NULL THEN owned ELSE owned \cup {chunk}
      /\ free_heap_size' = free_heap_size - size
      BY DEF heap_alloc
<1>3. i \in 0..(freed_chunks.size - 1)
  <2>1. Fits(size) \subseteq 0..(freed_chunks.size - 1)
        BY DEF Fits
  <2>2. Fits(size) \subseteq Nat
        BY <1>1, <2>1, Indices
  <2> QED
      BY <1>2, <2>1, <2>2, LeastExists
<1>4. IsChunk(chunk) /\ chunk \in Chunk /\ chunk.size = size
  <2>1. freed_chunks.chunks[i].ptr \in Nat
        BY <1>1, <1>3, Indices, ChunkFacts DEF IsList, IsArray
  <2> QED
      BY <1>1, <2>1 DEF IsChunk, Chunk
<1> HIDE DEF chunk, i
<1>5. alloced_chunks.size < CHUNKS_CAP /\ alloced_chunks.size \in 0..CHUNKS_CAP
      BY <1>1, <1>2, Indices DEF Full
<1>6. Accounted'
  <2> DEFINE was == Total(alloced_chunks.chunks, 0, alloced_chunks.size)
  <2>1. was \in Nat
        BY <1>1, <1>5, AllTotals DEF IsList
  <2>2. Total(alloced_chunks'.chunks, 0, alloced_chunks'.size) = was + size
    <3>1. LET new == Insert(alloced_chunks, chunk)
          IN  Total(new.chunks, 0, new.size) = was + chunk.size
          BY <1>1, <1>4, <1>5, InsertTotal
    <3> QED
        BY <1>2, <1>4, <3>1
  <2>3. ~misused => free_heap_size + was = ALLOC_CAP
        BY AccountedTotal DEF HeapInv
  <2> HIDE DEF was
  <2>4. ~misused' => free_heap_size' + (was + size) = ALLOC_CAP
        BY <1>1, <1>2, <2>1, <2>3
  <2>5. (Accounted <=>
           (~misused => free_heap_size
              + Total(alloced_chunks.chunks, 0, alloced_chunks.size) = ALLOC_CAP))'
        BY AccountedTotal, PTL
  <2> QED
      BY <2>2, <2>4, <2>5
<1>7. Located'
  <2>1. SUFFICES ASSUME ~misused' PROVE \E g : Locates(g, alloced_chunks', owned')
        BY DEF Located
  <2>2. PICK f : Locates(f, alloced_chunks, owned)
        BY <2>1 DEF HeapInv, Located
  <2>3. PICK g : Locates(g, Insert(alloced_chunks, chunk), owned \cup {chunk})
        BY <1>1, <1>4, <1>5, <2>2, LocatesAfterInsert
  <2>4. owned' \subseteq owned \cup {chunk}
        BY <1>2
  <2>5. Locates(g, alloced_chunks', owned \cup {chunk})
        BY <1>2, <2>3
  <2> QED
      BY <2>4, <2>5, LocatesFewer
<1>8. free_heap_size' \in Nat /\ owned' \subseteq Chunk
      BY <1>1, <1>2, <1>4
<1> QED
    BY <1>6, <1>7, <1>8

\* Whatever pointer heap_free is given, the count of free bytes is a number.
LEMMA FreeCount ==
  ASSUME HeapInv, NEW ptr, heap_free(ptr)
  PROVE  free_heap_size' \in Nat
<1>1. IsList(alloced_chunks) /\ free_heap_size \in Nat
      BY DEF HeapInv, SortedInv, Counts
<1>2. \A k : Slot(alloced_chunks, k).size \in Nat
      BY <1>1, Indices, ChunkFacts
<1> QED
    BY <1>1, <1>2 DEF heap_free, lists

\* A chunk the caller owns is found, and what is freed is what leaves the list.
LEMMA FreeOwnedHeap ==
  ASSUME HeapInv, NEW c \in owned, heap_free(c.ptr), owned' = owned \ {c},
         UNCHANGED misused
  PROVE  Accounted' /\ Located'
<1> DEFINE pos == LowerBound(c.ptr)
           chunk == Slot(alloced_chunks, pos)
           frees == Accepts(pos, c.ptr) /\ ~Full(freed_chunks)
           was == Total(alloced_chunks.chunks, 0, alloced_chunks.size)
<1>1. /\ IsList(alloced_chunks) /\ Sorted(alloced_chunks)
      /\ free_heap_size \in Nat
      BY DEF HeapInv, SortedInv, Counts
<1>2. CASE misused'
      BY <1>2, Zenon DEF Accounted, Located
<1>3. CASE ~misused'
  <2>1. PICK f : Locates(f, alloced_chunks, owned)
        BY <1>3 DEF HeapInv, Located
  <2>2. /\ pos \in 0..(alloced_chunks.size - 1)
        /\ alloced_chunks.chunks[pos].ptr = c.ptr
    <3>1. f[c] \in 0..(alloced_chunks.size - 1)
          /\ alloced_chunks.chunks[f[c]].ptr = c.ptr
          BY <2>1 DEF Locates
    <3> QED
        BY <3>1, LowerBoundFinds DEF HeapInv
  <2>3. free_heap_size + was = ALLOC_CAP
        BY <1>3, AccountedTotal DEF HeapInv
  <2>4. (Accounted <=>
           (~misused => free_heap_size
              + Total(alloced_chunks.chunks, 0, alloced_chunks.size) = ALLOC_CAP))'
        BY AccountedTotal, PTL
  <2>5. CASE frees
    <3>1. /\ free_heap_size' = free_heap_size + chunk.size
          /\ alloced_chunks' = Erased(alloced_chunks, pos)
          BY <2>5 DEF heap_free
    <3>2. chunk = alloced_chunks.chunks[pos] /\ chunk.size \in Nat
          BY <1>1, <2>2, Indices, ChunkFacts DEF Slot
    <3> HIDE DEF pos, chunk
    <3>3. LET less == Erased(alloced_chunks, pos)
          IN  Total(less.chunks, 0, less.size) + alloced_chunks.chunks[pos].size = was
          BY <1>1, <2>2, ErasedTotal
    <3>4. Total(alloced_chunks'.chunks, 0, alloced_chunks'.size) + chunk.size = was
          BY <3>1, <3>2, <3>3
    <3>5. Total(alloced_chunks'.chunks, 0, alloced_chunks'.size) \in Nat
      <4>1. IsList(Erased(alloced_chunks, pos))
        <5>1. alloced_chunks.size > 0 /\ pos \in Nat
              BY <1>1, <2>2, Indices
        <5> QED
            BY <1>1, <5>1, ErasedSorts
      <4>2. IsArray(alloced_chunks'.chunks) /\ alloced_chunks'.size \in 0..CHUNKS_CAP
            BY <3>1, <4>1 DEF IsList
      <4> QED
          BY <4>2, AllTotals
    <3> HIDE DEF was
    <3>6. free_heap_size' + Total(alloced_chunks'.chunks, 0, alloced_chunks'.size)
            = ALLOC_CAP
          BY <1>1, <2>3, <3>1, <3>2, <3>4, <3>5
    <3>7. Accounted'
          BY <2>4, <3>6
    <3>8. \E g : Locates(g, Erased(alloced_chunks, pos), owned \ {c})
          BY <1>1, <2>1, <2>2, LocatesAfterErase
    <3>9. Located'
          BY <3>1, <3>8 DEF Located
    <3> QED
        BY <3>7, <3>9
  <2>6. CASE ~frees
    <3>1. UNCHANGED <<free_heap_size, alloced_chunks>>
          BY <2>6 DEF heap_free, lists
    <3>2. Accounted'
          BY <2>3, <2>4, <3>1
    <3>3. \E g : Locates(g, alloced_chunks, owned \ {c})
          BY <2>1, LocatesFewer
    <3>4. Located'
          BY <3>1, <3>3 DEF Located
    <3> QED
        BY <3>2, <3>4
  <2> QED
      BY <2>5, <2>6
<1> QED
    BY <1>2, <1>3

\* Every call keeps the invariant.
LEMMA HeapNext == HeapInv /\ [Next]_vars => HeapInv'
<1> SUFFICES ASSUME HeapInv, [Next]_vars PROVE HeapInv'
    OBVIOUS
<1>1. SortedInv'
      BY SortedNext DEF HeapInv
<1>2. ASSUME Next PROVE calls' \in 0..MaxCalls
      BY <1>2, MaxCallsAssumption DEF Next, HeapInv, Counts
<1>3. CASE Next /\ Allocate
  <2>1. PICK size \in 1..ALLOC_CAP : heap_alloc(size) /\ UNCHANGED misused
        BY <1>3 DEF Allocate
  <2>2. Accounted' /\ Located' /\ free_heap_size' \in Nat /\ owned' \subseteq Chunk
        BY <2>1, AllocHeap
  <2>3. Counts'
        BY <1>2, <1>3, <2>1, <2>2 DEF Counts, HeapInv
  <2> QED
      BY <1>1, <2>2, <2>3 DEF HeapInv
<1>4. CASE Next /\ FreeOwned
  <2>1. PICK c \in owned : /\ heap_free(c.ptr) /\ owned' = owned \ {c}
                           /\ UNCHANGED misused
        BY <1>4 DEF FreeOwned
  <2>2. Accounted' /\ Located'
        BY <2>1, FreeOwnedHeap
  <2>3. free_heap_size' \in Nat
        BY <2>1, FreeCount
  <2>4. Counts'
        BY <1>2, <1>4, <2>1, <2>3 DEF Counts, HeapInv
  <2> QED
      BY <1>1, <2>2, <2>4 DEF HeapInv
<1>5. CASE Next /\ FreeInside
  <2>1. PICK ptr : /\ heap_free(ptr)
                   /\ misused' = (misused \/ lists' # lists)
                   /\ UNCHANGED owned
        BY <1>5 DEF FreeInside
  <2>2. free_heap_size' \in Nat
        BY <2>1, FreeCount
  <2>3. Counts'
        BY <1>2, <1>5, <2>1, <2>2 DEF Counts, HeapInv
  <2>4. CASE misused'
    <3>1. Accounted' /\ Located'
          BY <2>4, Zenon DEF Accounted, Located
    <3> QED
        BY <1>1, <2>3, <3>1 DEF HeapInv
  <2>5. CASE ~misused'
    <3>1. ~misused /\ UNCHANGED <<free_heap_size, alloced_chunks, owned>>
          BY <2>1, <2>5 DEF lists
    <3>2. Accounted' /\ Located'
          BY <2>5, <3>1 DEF HeapInv, Accounted, Located
    <3> QED
        BY <1>1, <2>3, <3>2 DEF HeapInv
  <2> QED
      BY <2>4, <2>5
<1>6. CASE UNCHANGED vars
  <2>1. UNCHANGED <<free_heap_size, alloced_chunks, owned, misused, calls>>
        BY <1>6 DEF vars, lists
  <2> QED
      BY <1>1, <2>1 DEF HeapInv, Counts, Accounted, Located
<1> QED
    BY <1>3, <1>4, <1>5, <1>6 DEF Next

\* The inductive invariant holds in every state.
THEOREM HeapInvariant == Spec => []HeapInv
BY HeapInit, HeapNext, PTL DEF Spec

\* Every variable has its type: no list outgrows its array, no size is below zero.
THEOREM HeapTypeCorrect == Spec => []TypeOK
<1>1. HeapInv => TypeOK
  <2> SUFFICES ASSUME HeapInv PROVE TypeOK
      OBVIOUS
  <2>1. ASSUME NEW list, IsList(list)
        PROVE  list \in [size : 0..CHUNKS_CAP, chunks : [Slots -> Chunk]]
    <3>1. list.chunks \in [Slots -> Chunk]
          BY <2>1, ChunkFacts DEF IsList, IsArray
    <3> QED
        BY <2>1, <3>1 DEF IsList
  <2>2. IsList(alloced_chunks) /\ IsList(freed_chunks)
        BY DEF HeapInv, SortedInv
  <2> QED
      BY <2>1, <2>2 DEF HeapInv, Counts, TypeOK
<1> QED
    BY <1>1, HeapInvariant, PTL

\* free_heap_size and the chunks in use add up to the heap for as long as the
\* caller frees only what it was given, although freed_chunks does not add up to
\* free_heap_size, and chunks in use may overlap.
THEOREM HeapIsAccounted == Spec => []Accounted
<1>1. HeapInv => Accounted
      BY DEF HeapInv
<1> QED
    BY <1>1, HeapInvariant, PTL

\* Every pointer the caller was given is that of a chunk in use until it is
\* freed, so that heap_free can find it.
THEOREM OwnedIsInUse == Spec => []OwnedInUse
<1>1. HeapInv => OwnedInUse
  <2> SUFFICES ASSUME HeapInv, ~misused, NEW c \in owned
               PROVE  \E d \in Entries(alloced_chunks) : d.ptr = c.ptr
      BY DEF OwnedInUse
  <2>1. PICK f : Locates(f, alloced_chunks, owned)
        BY DEF HeapInv, Located
  <2>2. /\ f[c] \in 0..(alloced_chunks.size - 1)
        /\ alloced_chunks.chunks[f[c]].ptr = c.ptr
        BY <2>1 DEF Locates
  <2>3. alloced_chunks.chunks[f[c]] \in Entries(alloced_chunks)
        BY <2>2 DEF Entries
  <2> QED
      BY <2>2, <2>3
<1> QED
    BY <1>1, HeapInvariant, PTL

=============================================================================
