---------------------------- MODULE ThreadSafeQueue ----------------------------
(***************************************************************************)
(* net::ThreadSafeQueue (utils/thread_safe_queue.hpp) as income_messages_  *)
(* of a server or a client uses it: the io thread pushes, and the thread   *)
(* that calls Update takes messages out with                               *)
(*     while (size() > 0) { msg = front(); pop(); handler(msg); }          *)
(* Each call locks queue_lock_ on its own.  front() and pop() look at      *)
(* empty() before they lock, and front() returns a reference that is       *)
(* copied after the lock is released, so a push may fall anywhere between. *)
(*                                                                         *)
(* Under the lock a call reads the deque, changes what it read and writes  *)
(* it back: two steps, which only the lock keeps together.  An empty()     *)
(* outside the lock sees the deque before or after the change under way.   *)
(*                                                                         *)
(* No name is one of Connection's: NetProofs extends both modules.         *)
(***************************************************************************)
EXTENDS Naturals, Sequences

CONSTANTS
  Producers,   \* the threads that push
  Consumer,    \* the thread that calls Update
  MaxPushes    \* bound: MaxPushes[p] messages come from p

Threads == Producers \cup {Consumer}

ASSUME ConsumerAssumption == Consumer \notin Producers
ASSUME MaxPushesAssumption == MaxPushes \in [Producers -> Nat]

VARIABLES
  lock,      \* the threads that hold queue_lock_
  pc,        \* pc[t]: where thread t is
  deque,     \* tsq_
  seen,      \* seen[t]: tsq_ as t read it when it had locked
  said,      \* said[p]: how many messages p has pushed
  msg,       \* the local msg of Update
  handled    \* every message given to its handler, in order (history)

queueVars == <<lock, pc, deque, seen, said, msg, handled>>

Pushed == [from : Producers, n : Nat \ {0}]
NoMessage == [from |-> Consumer, n |-> 0]

-----------------------------------------------------------------------------
(* Variants of the operations below with one mistake each.                 *)

\* No lock_guard
CanLockAlways == TRUE

\* The message is pushed after having been moved from
StoreMoved(queue, m) == Append(queue, NoMessage)

\* Update does not ask for the size first
GoesOnAlways(queue) == TRUE

\* Update leaves the last message for another time
GoesOnOffByOne(queue) == Len(queue) > 1

-----------------------------------------------------------------------------
(* The calls.                                                              *)

\* The constructor of lock_guard waits for queue_lock_
CanLock == lock = {}

\* push: tsq_.push(value), a copy whichever overload is called
Store(queue, m) == Append(queue, m)

\* The condition of the loop of Update
GoesOn(queue) == Len(queue) > 0

Lock(t, from, to) ==
  /\ pc[t] = from /\ CanLock
  /\ lock' = lock \cup {t}
  /\ seen' = [seen EXCEPT ![t] = deque]
  /\ pc' = [pc EXCEPT ![t] = to]
  /\ UNCHANGED <<deque, said, msg, handled>>

Unlock(t, from, to) ==
  /\ pc[t] = from
  /\ lock' = lock \ {t}
  /\ pc' = [pc EXCEPT ![t] = to]
  /\ UNCHANGED <<seen, handled>>

\* A step of the consumer outside the lock
Go(from, to) ==
  /\ pc[Consumer] = from
  /\ pc' = [pc EXCEPT ![Consumer] = to]
  /\ UNCHANGED <<lock, deque, seen, said>>

QueueInit ==
  /\ lock = {}
  /\ pc = [t \in Threads |-> "out"]
  /\ deque = <<>>
  /\ seen = [t \in Threads |-> <<>>]
  /\ said = [p \in Producers |-> 0]
  /\ msg = NoMessage
  /\ handled = <<>>

-----------------------------------------------------------------------------
(* AddNewMessage in the io thread.                                         *)

LockPush(p) == said[p] < MaxPushes[p] /\ Lock(p, "out", "push")

Push(p) ==
  /\ Unlock(p, "push", "out")
  /\ said' = [said EXCEPT ![p] = @ + 1]
  /\ deque' = Store(seen[p], [from |-> p, n |-> said'[p]])
  /\ UNCHANGED msg

-----------------------------------------------------------------------------
(* One round of the loop of Update.                                        *)

LockSize == Lock(Consumer, "out", "size")

Size ==
  /\ Unlock(Consumer, "size",
            IF GoesOn(seen[Consumer]) THEN "front" ELSE "out")
  /\ UNCHANGED <<deque, said, msg>>

\* front: empty() without the lock, and a throw that nothing catches
FrontEmpty ==
  /\ Go("front", IF deque = <<>> THEN "thrown" ELSE "lock_front")
  /\ UNCHANGED <<msg, handled>>

LockFront == Lock(Consumer, "lock_front", "in_front")

ReadFront ==
  /\ Unlock(Consumer, "in_front", "copy")
  /\ UNCHANGED <<deque, said, msg>>

\* msg is initialised through the reference; a push_back leaves it valid, and
\* nobody but this thread pops
Copy ==
  /\ Go("copy", "pop")
  /\ msg' = Head(deque)
  /\ UNCHANGED handled

\* pop: empty() without the lock, and an early return
PopEmpty ==
  /\ Go("pop", IF deque = <<>> THEN "handle" ELSE "lock_pop")
  /\ UNCHANGED <<msg, handled>>

LockPop == Lock(Consumer, "lock_pop", "in_pop")

\* pop_front of an empty deque is undefined
Pop ==
  /\ Unlock(Consumer, "in_pop", "handle")
  /\ deque' = IF seen[Consumer] = <<>> THEN <<>> ELSE Tail(seen[Consumer])
  /\ UNCHANGED <<said, msg>>

Handle ==
  /\ Go("handle", "out")
  /\ handled' = Append(handled, msg)
  /\ msg' = NoMessage

-----------------------------------------------------------------------------
Producer(p) == LockPush(p) \/ Push(p)

Update ==
  \/ LockSize \/ Size
  \/ FrontEmpty \/ LockFront \/ ReadFront \/ Copy
  \/ PopEmpty \/ LockPop \/ Pop \/ Handle

QueueNext == Update \/ \E p \in Producers : Producer(p)

QueueSpec == QueueInit /\ [][QueueNext]_queueVars

\* main calls Update for ever, and a thread that holds the lock runs on.  A
\* std::mutex owes nobody its turn: none is assumed of the producers' locking.
QueueFairness == WF_queueVars(Update) /\ \A p \in Producers : WF_queueVars(Push(p))

FairQueueSpec == QueueSpec /\ QueueFairness

-----------------------------------------------------------------------------
QueueTypeOK ==
  /\ lock \subseteq Threads
  /\ pc \in [Threads -> {"out", "push", "size", "front", "lock_front",
                         "in_front", "copy", "pop", "lock_pop", "in_pop",
                         "handle", "thrown"}]
  /\ deque \in Seq(Pushed)
  /\ seen \in [Threads -> Seq(Pushed)]
  /\ said \in [Producers -> Nat]
  /\ msg \in Pushed \cup {NoMessage}
  /\ handled \in Seq(Pushed)

\* From the moment size() was positive until pop() has the lock the deque is
\* not empty, and what Update has copied is still its front: front() does not
\* throw, pop() neither returns early nor pops an empty deque, and the message
\* popped is the message handled, although each call locks on its own.
FrontStays ==
  /\ pc[Consumer] # "thrown"
  /\ pc[Consumer] \in {"front", "lock_front", "in_front", "copy", "pop",
                       "lock_pop", "in_pop"} => deque # <<>>
  /\ pc[Consumer] \in {"pop", "lock_pop", "in_pop"} => msg = Head(deque)

\* What has left the queue: the message popped last may wait for its handler
Taken ==
  IF pc[Consumer] = "handle" THEN Append(handled, msg) ELSE handled

\* With the lock and the half-done calls hidden, the queue is a FIFO: every
\* push appends the next message of its thread, every pop hands the oldest to
\* Update, and nothing is lost, repeated or overtaken.
Fifo == INSTANCE FifoQueue WITH items <- deque, taken <- Taken
ImplementsFifo == Fifo!Spec

\* Every message pushed comes to be handled.
EventuallyHandled ==
  \A p \in Producers : \A n \in 1..MaxPushes[p] :
    said[p] >= n ~> \E i \in DOMAIN handled : handled[i] = [from |-> p, n |-> n]

-----------------------------------------------------------------------------
(* The inductive invariant.                                                *)

Inside == {"push", "size", "in_front", "in_pop"}

\* One thread at most is under the lock, and has read the deque as it is
LockInv ==
  /\ \A t \in Threads : t \in lock <=> pc[t] \in Inside
  /\ \A t, u \in lock : t = u
  /\ \A t \in lock : seen[t] = deque

\* Each kind of thread is in its own calls, and msg is set when it is used
PlaceInv ==
  /\ \A p \in Producers : pc[p] \in {"out", "push"}
  /\ pc[Consumer] # "push"
  /\ pc[Consumer] \in {"pop", "lock_pop", "in_pop", "handle"} => msg \in Pushed

QueueInv == QueueTypeOK /\ LockInv /\ PlaceInv /\ FrontStays

=============================================================================
