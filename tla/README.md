# A TLA+ model of pet_projects

The repository holds six programs. This directory models five of them in TLA+, model-checks the
models with TLC and proves their safety with TLAPS. Every definition is translated from
the source; `PROJECT.json` ("map") names the lines each one stands for.

## Inventory

| Program | State | Operations | Hard behaviours | What makes it correct |
|---|---|---|---|---|
| `asio_web_service`, connections (`connection/include`, `client/include/base_client.hpp`) | socket, `outcome_messages_`, `temp_message_`, outstanding reads and writes, the `io_context` | `ConnectToServer`, `ConnectToClient`, `SendMessage`, `Disconnect`, the handlers of `async_write` and `async_read` | handlers in any order; a link that breaks between any two of them; two ends that fill each other's buffers; a close posted to another thread | one write per socket; buffers that stay put; a read always outstanding; messages arrive in order, once, and whole if they have a body |
| `asio_web_service`, server (`server/`) | `connections_`, `users_count_`, `income_messages_`, the connection objects | accept, `Update`, `SendToAllClients`, `ClearDisconnectedClients` | two threads over containers without a lock; handlers that hold a bare `this`; clients that leave at any point | one order of messages for all clients; none missed; the count right; no handler into a freed object |
| `asio_web_service`, messages and client (`utils/message.hpp`, `client/src`, `server/src`) | the body and `header.size` | `<<`, `>>`, the three places that build or read a chat message | three places agree on an order of fields that is written down nowhere | what is shown is what was typed; `header.size` is the body's length |
| `asio_web_service`, `ThreadSafeQueue` (`utils/thread_safe_queue.hpp`) | a deque and a mutex | `push`, `size`, `front`, `pop` | `front` and `pop` test for emptiness without the lock; a reference used after the lock is released | it is a FIFO; the message popped is the message copied; all are handled |
| `simple_web_server` | `main_` and its copy, one buffer | `init`, `run`, `SendToClient`, `SendToAllClients` | a copy of the set visited while the set changes; blocking sends; a full set; failing calls | the copy names only ready sockets; every client gets every byte of the others |
| `memory_allocator` | two counted arrays of chunks, `free_heap_size` | `heap_alloc`, `heap_free` | long sequences of calls; two lists and an index that is used for the wrong one; full arrays | chunks in use are disjoint, and can be freed |
| `serialization` | objects with the size they serialize to, files | constructors, `AddObject`, `Serialize`, `SerializeNSave`, `Load`, `Deserialize` | a size kept by hand that a buffer is allocated with; text against binary streams | the size is the number of bytes; what is loaded is what was saved |
| `image_processor` | the BMP headers, the image, the pipeline | parse, read, create filters, apply, write | edges of small images; padding; crops to nothing; sums that slide over arrays which change roles; failures at every stage | the file written holds the picture the filters define; a failure costs no file but the output it emptied |
| `blockchain` | peers, transactions, blocks | (most are `TODO`) | - | it cannot be built: not modelled, see below |

How they interact: the chat client and the chat server of `asio_web_service` are two processes, each
with a main thread and an io thread that share `income_messages_`; between them is one `Connection`
object at each end of a TCP link. The other programs stand alone. `PROJECT.json` ("hazards") lists
what is hard to test in this code, at its line, with the properties that watch it.

## Modules

| Module | Models | One action is |
|---|---|---|
| `MessageChannel` | what a link promises: a FIFO in each direction that may stop | a message handed over, or delivered |
| `Connection` | both ends of one link, the `io_context`s, the operating system's part | one completion handler, one call, or one step of the system |
| `FifoQueue` | what the message loops expect of a queue | a push, or a message taken |
| `ThreadSafeQueue` | `ThreadSafeQueue` between the threads that push and the one that calls `Update` | a lock taken, a call's work and its unlock, a check or copy outside the lock |
| `BroadcastLog` | what the server promises: one log, and a place in it for each client | a message taken in, passed on, shown or lost |
| `ChatServer` | the server's two threads over several connections | one handler, or one step of a loop of the main thread |
| `TextMessage` | one chat message, typed, named, shown | what one program does with it |
| `SelectServer` | the `select` loop and its clients | one pass's `select`, one socket served, one `send` |
| `HeapAllocator` | `heap_alloc` and `heap_free` | one call |
| `Serialization` | objects, buffers, files | one operation of a program like `main.cpp` |
| `ImageProcessor` | runs of the program over a set of files | one stage of `main`, one filter |
| `Filters` | a list without some of its elements (`std::remove_if`, the copy of an `fd_set`) | |
| `FilterProofs` | lemmas about lists, tables and numbers that the proofs below share | |
| `NetProofs` | the proofs about `Connection` and `ThreadSafeQueue` | |
| `ChatServerProofs`, `TextMessageProofs`, `SelectServerProofs`, `HeapAllocatorProofs`, `SerializationProofs`, `ImageProcessorProofs` | the proofs about the module they are named after | |

`Connection` implements `MessageChannel` (`ImplementsChannel`, with `arrived` the messages of
`income_messages_`), and `ThreadSafeQueue` implements `FifoQueue` (`ImplementsFifo`, with `items` the
deque). `ChatServer` uses what the two refinements say: it reads and writes whole messages, takes a
call of the queue as one step, and adds what the two have no part of, the lifetime of the objects and
the second thread. It in turn implements `BroadcastLog` (`ImplementsLog`), in which connections,
queues and handlers are gone: entries that are posted or queued are `onWay`, delivered ones `shown`.
`TextMessage` looks into the body that `Connection` carries and shows the condition it relies on
(`SizeIsLength`). Modules called `MC...` hold the values of constants for the runs.

### Connection

`writes[e]` and `reads[e]` are the outstanding asynchronous operations, each `issued`, `done` or in
`error` until its handler runs; `posted[e]` are the handlers `SendMessage` posted; `wire[e]` is what
the socket buffers hold, in chunks of one header or one body, because that is what one `async_write`
or `async_read` moves. Handlers are actions with the code's branches: an empty body (`header.size = 0`)
skips the second operation, an error closes the socket and ends the chain. `Disconnect` is two steps
of the calling thread (close posted, then `stop()`), and the close runs on the system executor
(`RunClose`), in another thread than the handlers. Marked external in the map: what asio and the
operating system do (`Establish`, `Refuse`, `TransferWrite`, `TransferRead`, `FailWrite`, `FailRead`,
`Reset`).

### ThreadSafeQueue

A call is cut where another thread can come between: the `empty()` of `front` and `pop` before the
lock, taking the lock, the work with the unlock, and, in `Update`, the copy through the reference that
`front` returned. Under the lock a call writes back what it read when it took it (`seen`), so that a
missing lock would lose pushes. `front` throws on an empty deque and nothing catches it ("thrown").
No name is one of `Connection`'s (hence `QueueInit`, `QueueSpec`, `QueueTypeOK`), so that `NetProofs` can
extend both modules.

### ChatServer

A message type without a handler (`message_handler_[...]` makes an empty `std::function`, whose call
throws) is `TakeUnhandled`. 
The main thread's loops (`SendToAllClients` over `connections_`; `remove_if` and `erase` in
`ClearDisconnectedClients`) are modelled client by client, because the accept handler pushes to the
same container from the io thread. A race of the two is undefined behaviour: the model chooses
between no harm, the damage the action's comment names (an element missed) and a process that is
down. The history variable `raced` marks runs in which the accept handler came during a loop; some
properties are claimed only without it, and say so. The same holds for a handler that runs with the
`this` of a freed object (`RunOnFreed`, `RunDestroyedClose`): the process may be down afterwards.

### TextMessage

The size of an integer is abstracted to `Width` digits of base `Base`. A message too short for a `>>`
reads in front of the body; that is the place `crashed`, which `NeverTooShort` excludes.

### SelectServer

`main_` keeps the order of `fd_array`, since `FD_CLR` and `FD_SET` work on it and a full set refuses
without a word. `ready` is the copy `select` has cut down, less what was visited. Clients that leave
while they wait to be accepted and a failing `accept`, which puts `INVALID_SOCKET` into `main_`, are
actions. `select` then fails (`SelectFails`), and as its `-1` is compared with a `size_t`, the loop visits
the copy that was not cut down (`uncut`), in order, where `accept` and `recv` wait until there is something
to take; only when it has passed the last entry it runs off the array (`RunsOff`) and the server is `lost`. `init` may fail, which `main` ignores: `run`
then selects on a set nobody has set up (`InitFails`).

### HeapAllocator

Positions count from 0 as in the code; binary searches, `Insert`, `Erased` and the merging of
neighbours, at the index of the wrong list, are as they are in the source, and so is the stale entry
after the last one. Two reads beyond an array give `PastEnd`, a constant. Calls of the model with
small caps were compared with the compiled functions on random sequences; the states agree. A call
that walks off the array without end, possible only after a wrong pointer was taken, is left out.

### Serialization and ImageProcessor

`Serialization` keeps an object's `size` as the constructors and `AddObject` compute it, and the bytes
as `Serialize` writes them; `Save` translates byte 10 as the text stream of the system does
(`Newline`). A negative value is encoded by its two's complement, and a floating-point one is
encoded as the integer with its bits, so the model's integers stand for both. What is in a struct is
neither read nor changed any more before the struct is serialized, so that `AddObject` keeps of a member
the bytes it serializes to (`WithMember`); `Entities` puts them one after the other behind their number,
and a struct in a struct is bytes like any other member. Assumed are types that `Core::Type` has, values
of 32 bits and names and strings of bytes (`ValuesAssumption`, `StringsAssumption`), and that the type
passed to a constructor is that of the template's argument, which every call of `main.cpp` heeds and
the code does not look at. `MaxSize` bounds what
an object serializes to and is below 2^31 (`BoundsAssumption`), so that the `uint32_t` the code keeps and
writes sizes in never wraps. `ImageProcessor` is one action per stage of `main`, with an exit code; files are bytes
behind a header of size and colour depth, so that padding, short files and files the program wrote
itself are read by the same definition. Parameters that `std::stod` reads are counted in hundredths
(`Hundredths`), and all sums the filters make of them are exact: `Slide` keeps the sums of a box blur
and leaves the division by the width of the boxes to the end (`Weight`), a polynomial is counted over
25500. Two parameters stand for rounding: the fractions that floating point lifts to the next whole
number (`RoundedUp`) and those it leaves below the whole number they are (`RoundedDown`); `Truncated`
cuts what is left to a byte. Nothing is assumed about the two, so what the checks and the proofs say does
not hang on how a quotient is rounded. The size fields of the headers are unsigned (`Word`). What is
assumed of the other parameters is that they are of their types: pictures have an `int` for each size
and bytes as data (`PicturesAssumption`), command lines are sequences of arguments
(`CommandLinesAssumption`), and digits alone spell no number below zero (`NumbersAssumption`). A box wider than the image, or a polynomial above 255, is undefined behaviour:
`ApplySpoils` takes the program down or leaves pixels nobody can tell (`spoilt`).

The output is written in two stages, as in `main`: `CreateOutput` is the `std::ofstream` that creates the
file or empties it, without a look at whether it could; `WriteBmp` is the second open, for reading and
writing, which may throw (`Unwritable`, `Unreadable`), and the writing. What a run that fails in between
leaves is a file without headers (`Headless`). Nobody checks that headers were read, so that of such a file
they are any of `Leftovers`, what happens to be in the memory of the `BMPStream` (`Contents`). Nobody
checks that bytes were written either: `WriteBmpCut` leaves a file without its headers or with the first
bytes of its pixels (`CutAt`), and the program returns 0.

## Runs

| Run | Question | Bounds |
|---|---|---|
| `connection` | do all interleavings of the handlers keep the chains of reads and writes, and is the link a FIFO? | client sends three messages, with and without a body, server none; two chunks per direction |
| `link_liveness` | do both ends' messages arrive, does an end notice that its peer is gone? | one message with a body from each end at once; one chunk per direction |
| `chat_server` | is the server one log; completeness, count and lifetimes, with clients leaving at any point | three clients, two messages of one, all may leave |
| `thread_safe_queue` | is the queue a FIFO however the calls interleave, and is all handled? | two threads push three and two messages |
| `broadcast` | one order for messages of different clients; do they all arrive? | three clients, one message each of two, nobody leaves |
| `text_message` | is the text shown the text typed? | texts up to six bytes of two kinds, base 4, width 2 |
| `select_server` | is the copy never stale, does every client get all, do waiting sends end? | three clients, a set of three sockets, the listening one included; three bytes; two leavers |
| `heap_allocator` | do the lists and the count stay right over sequences of calls? | 6 bytes, 4 chunks, 12 calls |
| `heap_overlap`, `heap_free` | the two comments the code does not live up to (below) | the same |
| `serialization` | is the size right, does what is saved load? | three objects of one and eight bytes, values below zero, arrays of two, strings of two; `MaxSize` 1000, which none of them reaches |
| `image_processor` | does the file hold what the filters define, and what may failure cost? | two runs, nine pictures, twenty command lines over all seven filters; four names, of which one is new, one cannot be written and one cannot be read; writes cut in the headers or after five bytes; two contents of memory; `Word` 256 |

Why these are enough. A connection has at most one write and one read outstanding (proved for all
values), so three messages reach every combination of a queue with a front, a second and a posted
entry; one message without a body and one with cover both branches; a wire of one chunk is the case
in which both ends wait. Three clients are a sender, a receiver visited before and one visited after
a change. In `select_server` the third client meets a full set, with the buffer and the room small
enough that a send waits; it also comes after another has left. Four chunks fill both of the
allocator's lists, and 12 calls reach every state in which entries are lost. A queue is read and left by the loop when it holds one message and when it holds more, so three
messages of one thread and two of another let a push fall into each gap of a round, at each length.
A text of six with base
4 is longer than a byte can count, so lengths need both digits. Rows of 0 to 4 pixels have all four
paddings, and a picture of one row or column is at two edges at once; the blurs have a box that is
as wide as the picture, one of a single pixel, and one that is too wide. Sizes count to 256, so that
the subtraction in the headers goes below zero. Two runs let the second read what the first wrote, cut
short or emptied. `CHECK_DEADLOCK FALSE` stands
where the bounds, or a stop of the program, end the behaviours.

### What the properties say

Each has its comment in the module. The ones that took thought:

- `NoStuckQueue`, `WriteBufferStable`: `SendMessage` starts a write only on an empty queue; every path
  that pops has to go on, and nothing may pop what a write still reads.
- `DeliveredInOrder`: headers and bodies never slip against each other. It also says what the body of a
  message without one is: `temp_message_` is pushed as it is and nothing clears it, so such a message
  arrives with the last body before it (`LastBody`). The comments of `connection.hpp:61,106` guarantee
  that there is no such message, while the code at lines 68 and 113 handles it; the chat never sends one.
  `ImplementsChannel` compares headers only (`arrived` is `header.msg`): bodies are this property's.
- `EventuallyDelivered`: the chains of reads and writes of an end do not wait for each other, so two
  full directions do not block.
- `LiveHandlers`: handlers hold a bare `this`; what keeps the object is that messages in queues hold a
  `shared_ptr` to it, by accident rather than by design.
- `FrontStays`, `ImplementsFifo`: the checks without the lock are safe only because one thread pops,
  `std::queue` is over a deque, whose references a push leaves valid, and `size()` came first.
- `EventuallyHandled`: a thread between `size()` and `pop()` is never sent back, and no message is left
  for a round that does not come, though nobody owes the consumer its turn at the mutex.
- `ImplementsLog`: every step of the server is one of a log that clients are given in order: what is
  posted, queued, in writing or delivered keeps the order in which `Update` took the messages, and
  only what a freed or failed connection still held is lost. `CompleteBroadcast`: nothing else is.
- `CopyNotStale`, `StreamComplete`: the loop of `run` over a copy, cut down or, after a failed `select`,
  not, and the stream of each client since it was accepted. That `main_` keeps no closed socket is why
  `select` fails only on the `INVALID_SOCKET` of a failed `accept`.
- `FailureLosesOutputOnly`: a failure is harmless up to the `std::ofstream` and not after it; what makes
  the input safe, when it is the output too, is that it was opened for both when it was read. The comment
  before the `std::ofstream` (`image_processor.cpp:68`) says that the output is created if there is none
  yet; an output that is there is emptied as well, and stays so if it cannot be opened for reading.
- `LoadedAsSaved` speaks of objects whose bytes the text stream leaves alone (`WrittenAsIs`): that name and
  data are found again although their lengths are computed apart. It does not watch the text mode itself.
- `Accounted`, `OwnedInUse`, `AllocedSorted`: hold although the free list is wrong; `Accounted` and
  `OwnedInUse` only as long as no pointer into a chunk was taken for the chunk (`misused`).
- `ReadsBack`: padding, sizes and row order are computed apart for reading and for writing; the two
  size fields keep their distance over a chain of runs.
- `FilteredAsAsked`: the code's loops against definitions on the picture as it is seen; for the blur,
  three sliding sums over rows and columns, arrays that are swapped and handed over crossed, against
  the sums of the squares around each pixel.

### Two disagreements

- `heap_overlap`: `heap_alloc` "alloces new chunk if there is a memory for allocing"
  (`heap_allocator.cpp:34`), but merging uses a position of `alloced_chunks` in `freed_chunks` and
  sums sizes of chunks that are not neighbours, so that a chunk may overlap one in use.
- `heap_free`: "finds right chunk with binary search and frees it" (`heap_allocator.cpp:166`), but the
  position is compared with the chunk's size in bytes, so that a chunk of one byte at position 1 is
  refused.

### Fairness

Only what the run time gives: a running `io_context` runs each ready handler, the system executor
what is posted to it, the operating system completes what it can, the main thread keeps calling
`Update`, the `select` loop keeps running. Weak fairness is enough as nothing of this is disabled by
others for ever. A mutex owes nobody its turn, so that `ThreadSafeQueue` assumes of a thread that
pushes only that it lets go of the lock it holds; of the consumer weak fairness of `Update` as a whole,
which says that it goes on when the lock is free for good. That suffices as the pushes are bounded
(with pushes without end, `EventuallyHandled` would need a fair mutex). Nothing is assumed of the
programs' sending, leaving or stopping. One assumption is about clients: in `SelectServer` a client
that stays reads what it is sent, without which a blocking `send` stops the server. Each liveness
property names what excuses it: a broken link, a client that left, a process that is down.

## Proofs

Each theorem holds for all values of the constants that satisfy the named assumptions of its module.
Of the properties the passing runs check, every invariant and action property, and each of the three
refinements, is a theorem.

| Module | Invariant | Theorems |
|---|---|---|
| `NetProofs`, `Connection` | `StreamInvariant` | `TypeCorrect`, `OneWriteAtATime`, `WriteBufferKept`, `QueueNeverStuck`, `ReadsArmed`, `InOrderDelivery`, `WholeDelivery`, `ChannelImplemented` |
| `NetProofs`, `ThreadSafeQueue` | `QueueInvariant` | `QueueTypeCorrect`, `FrontIsSafe`, `FifoImplemented` |
| `ChatServerProofs` | `ChatInvariant`, `MembersInvariant`, `OrderInvariant` | `ServerTypeCorrect`, `HandlersLive`, `UsersAreCounted`, `ClosedAreDropped`, `BroadcastComplete`, `BroadcastImplemented` |
| `TextMessageProofs` | `MessageInvariant` | `MessageTypeCorrect`, `LinesAreShown`, `SizesAreLengths`, `NoFieldTooShort` |
| `SelectServerProofs` | `StreamInvariant` | `SelectTypeCorrect`, `CopyStaysFresh`, `StreamIsComplete` |
| `HeapAllocatorProofs` | `HeapInvariant` | `HeapTypeCorrect`, `StaysSorted`, `HeapIsAccounted`, `OwnedIsInUse` |
| `SerializationProofs` | `SerializationInvariant` | `SerializationTypeCorrect`, `BufferIsFilled`, `LoadedIsSaved` |
| `ImageProcessorProofs` | `ImageInvariant` | `ImageTypeCorrect`, `WrittenIsRead`, `FiltersDoAsAsked`, `FailureIsSafe` |

### Lemmas on lists and tables

A loop of the code is a recursive function of the model, and what it computes needs induction. The
library's induction theorems take an operator, which no prover here can instantiate, so `FilterProofs`
states induction about a set: a set of numbers that holds 0 and, with every number, the next one holds
all numbers (`AllNumbers`, from the well-foundedness of < on Nat), and a set of lists that holds the
empty one and every list with one element more holds all (`AllLists`). From the first follow that
a function defined by its previous value exists (`TableExists`), that two which go on alike are equal
(`SameTable`), and that a set of positions has a least and a greatest element. The rest of the module
says what `Filter` keeps, in which order, and what it does to appended, concatenated and removed
elements, what `FlattenSeq` makes of a list of lists (`FlattenTable`, `FlattenAppend`; its definition is a
recursive function inside a LET, which `SameTable`'s kind of induction follows), and what `\div` and `%`
leave of a number (`Division`).

### Connection

For any `Sizes`, `MaxSends` and `WireCap` (`EndsAssumption`, `SizesAssumption`, `BoundsAssumption`). None
of the properties is inductive: that a received header is the next one depends on everything
that is still on the wire. `StreamInv` therefore gives each header and body its `Position` in
the stream of one direction and says that the chunks on the wire are consecutive (`Consecutive`),
that the first is the one the reader wants (`ToRead`), and that the last precedes the one the
writer will write (`ToWrite`), as long as either can go on; that the queue and the posted handlers
are the tail of what was sent (`SendOrder`); that the front is being written (`WriteChain`); and what
the buffers of a read hold (`ReadBuffers`), the body that is left from the message before included
(`KeepsBody`). `WholeDelivery` draws from it that without messages that have no body (0 is not in `Sizes`)
every message arrives as it was sent. The proof has one lemma for each action, which shows the
parts the action disturbs and takes the rest from frame lemmas; `InitInv` and `NextInv` put them
together. For the refinement, `SendMessage` is shown to hand over, the two read handlers that call
`AddNewMessage` to deliver what `DeliveredInOrder` says is next, and every other action to leave
both sequences alone (`StepChannel`).

### ThreadSafeQueue

For any number of producers and any `MaxPushes`. `FrontStays` is not inductive: it says nothing of a call
that is under the lock and has read the deque but not yet written it back. `QueueInv` adds that the
holder of the lock is alone and that what it has `seen` is the deque (`LockInv`), and that each thread
is in its own calls (`PlaceInv`). Then a push appends to the deque, which leaves its front alone, and only
the consumer takes anything off it.

### ChatServer

For any set of clients, any `MaxSends` and any other bounds that satisfy the module's assumptions.

- Lifetimes. `LiveHandlers` says nothing of what keeps a connection alive. `ChatInv` adds, for runs that
  have not `raced`, that a socket is open only in a connection that `connections_` keeps (`OpenKept`) and
  that only closed ones are about to be erased (`Removing`). What is left is a read that outlives its
  socket: that takes a write that failed, and the message it was to write stays in `outcome_messages_` for
  good, with the pointer to its connection (`CutOff`).
- Members. `UsersCounted` and `ClearDropsClosed` look at the server between its loops. `MembersInv` says
  what holds within: every connection is listed once, a loop visits listed ones and none again that
  `remove_if` has found (`Listed`), what was closed is found or still to be visited (`Clearing`), and
  `users_count_` counts what is listed and not yet found, modulo the type's size (`Counted`).
- Order. `OrderInv` says that a message is taken in once and that only handled ones are given to clients
  (`Numbered`), and that whom the broadcast has yet to visit has not been given its message
  (`Visiting`). What a client is given is what it was delivered and what is `Pending` for it (posted, queued,
  in writing): the step of `SendToAllClients` that reaches it appends the newest, a failure or a freed object takes one
  out, and every other step keeps the sequence, whichever place its parts move to.
  `BroadcastImplemented` follows action by action: each is a step of `BroadcastLog` or leaves its variables
  alone.
- Completeness. `BroadcastComplete` rests on an invariant (`Complete`) of runs that have not raced: what a
  listed client is given is a prefix of what is due to it, and, while its socket is open, all of
  it but the message whose broadcast has yet to reach it.

### TextMessage

For any `Base` and `Width` such that a line and the other fields are together shorter than a `uint32_t`
counts (`BoundsAssumption`), and names whose length fits one byte. `MessageInv` says for each place of the program which fields the body holds: the text
alone, or the text, its length, the name and its length. `PushSized` and `PopSized` are what `<<` and `>>` do
to a body whose size is right, and `RoundTrip` that the digits of a number, taken off in the opposite
order, spell the number again. Without the bound the length wraps, and `>>` takes too little.

### SelectServer

For any clients, set size, buffer and room. `SelectInv` adds to `CopyNotStale` that neither `main_` (`Once`)
nor the copy a failed `select` leaves (`CopyKept`) has an entry twice, as otherwise `FD_CLR` would leave a
closed socket behind, that the clients of `main_` are open (`MembersOpen`), and that the loop goes through
one of the two copies at a time. `FdSet` and `FdClr` state the two operations on
`fd_array` as operations on sets. `StreamInv` follows a broadcast through its partial sends: shown, on
the way and still to be sent are what is due to a client, where the chunk in the buffer counts only if
the loop has yet to reach it, and no client is reached twice.

### HeapAllocator

For any heap, list capacity and number of calls, with wrong pointers, stale entries and the reads past an
array. `AllocedSorted` needs only pointers and list lengths (`SortedInv`), so that there what
`try_to_merge_freed_chunks` makes of sizes does not matter. For the other properties `HeapInv` adds up
sizes over the chunks in use and keeps `Located`: each chunk the caller owns has a position of its own in
`alloced_chunks`. That its pointer is somewhere in the list is not inductive: chunks may overlap and share
a pointer, and `heap_free` takes out only one of two such entries. The binary search and first fit are least elements of
sets of positions.

### Serialization

For any objects in any number, names, strings, values of 32 bits, and a text stream that writes any bytes
at all for byte 10. Neither property is inductive: `BufferFilled` says nothing of the files that objects
are loaded from, `LoadedAsSaved` nothing of the objects that are saved to them. `SerializationInv` says that what an Id holds is an object
of bytes (`Objects`) that `Fits` (its size is that of what it serializes to, and a primitive has as much
data as its type and nothing the reader does not set), and that a file holds what the object saved to it
last was written as (`FilesInv`).

- Sizes. `SerializedBytes` counts what `Serialize` writes for each wrapper, and `PrimitiveFits`, `ArrayFits`,
  `StringFits` and `StructFits` compare it with the sum of the constructor. `MemberFits` is the step that
  matters: the list a member is appended to grows by the bytes it serializes to (`FlattenAppend`), the other
  three stay, and `AddObject` has added the same to `size_`.
- Numbers. `DecodeEncoded` says that a number of less than 32 bits is what its four bytes spell: `encode`
  shifts, which are divisions by powers of 256, and `decode` multiplies and adds.
- Reading. `ReadBack` finds the parts of a primitive in its bytes, where each place depends on the length of
  the name that was read before (`Middle`, `Found`), so that `Deserialize` gives the primitive again.

### ImageProcessor

For any pictures, command lines, rounding and number of runs. `ImageInv` says that the files that were
written can be read and give the image that was written, that the size fields of every file, and of the
headers of a run that goes on, are as far apart as in a file that was there at first, and that the image
is what the filters already applied promise of the image that was read (`Halfway`).

- The bytes. `Flattened` says where each row is found in the bytes of a file, `ReadWritten` that reading
  finds it there, and `SizesKept` that unsigned subtraction and addition keep the distance of the sizes.
- The filters. `FilterIs` says that a filter gives an image, and shows what `Promised` says on the
  picture as it is seen. Rows are turned over between the two, and the edges of the matrix filters are the
  nearest pixels on both sides (`CrossIs`, `ContrastIs`). For the blur, `SlideIs` shows that the sums that
  slide are those of the windows (`BoxMoves`, with the first and last element going on beyond the ends),
  `HorBlurIs` and `TotalBlurIs` that rows and columns give the sums of rectangles, `GaussianIs` that
  three boxes are composed although the arrays change roles, and `SquaresShown` that these are the squares
  around the pixels that are seen.
- Failures. `FailureIsSafe` rests on `NothingWritten`: until all filters are applied no file has changed,
  then the output is empty if it could be written, and the input, which was opened for reading and
  writing, can be opened so again.

### Only model-checked

- The liveness properties (`EventuallyDelivered`, `DisconnectNoticed`, `EventuallyBroadcast`,
  `EventuallyHandled`, `EventuallyShown`): out of the prover's reach, like `ENABLED`.
- The two disagreements, which are counterexamples.

## Not modelled

- `blockchain`: it cannot be built, so that it has no behaviour to model. There is no `main`; a queue of
  sockets is copied, `get_first` gives a non-const reference out of a const queue, handlers take a non-const
  `error_code&`; the connections' queues are pointers that nobody sets. Its message handlers are `TODO` and
  blocks have no operations.
- `json.hpp` (`blockchain/utils/include`) is vendored third-party code, 24766 of the repository's some 28000
  lines.
- `asio_web_service`: `Stop` and the destructor of the server, which `main` never reaches (a stop is
  modelled for one link), and a `Start` that fails, after which no thread runs.
- `simple_web_server`: `CleanUp`, which is never reached; what the loop makes of the memory behind the
  entries of `fd_array` when it has run past them (`lost`).
- `serialization`: objects of 2^31 bytes and more; `decode<float>` and `decode<double>`, which nothing calls; objects used after they were
  moved from, which no program of the repository does; loads of files that `Save` changed or that are not
  there, as for a program outside a directory `build` (`Save` writes to the directory it runs in, `Load`
  reads from `../build/`): they give other data or read past the end of a buffer.
- `image_processor`: how a quotient is rounded (the results hold for any rounding).

## Plan

1. Larger instances of `chat_server`: two speakers and leavers at once, with a smaller accept race.
2. Objects of `serialization` beyond the size a `uint32_t` counts, where `size_` wraps.
