----------------------------- MODULE Workqueue -----------------------------
(***************************************************************************)
(* The work queue that carries packets between the driver's threads: a     *)
(* ring of packet pointers, guarded by the mutex m and the condition       *)
(* variable hasPackets.                                                    *)
(*                                                                         *)
(* A section of code that holds m is one action.  A call of popSize or     *)
(* popAll is not: it reads `released' before it takes m, it waits for m,   *)
(* and inside hasPackets.wait it gives m up.  Those places are the values  *)
(* of pc[c]:                                                               *)
(*   "idle"      not in a call                                             *)
(*   "locking"   about to take m, at the call's start or after a wake-up   *)
(*   "waiting"   in hasPackets.wait, not notified                          *)
(*   "returned"  the call has returned list[c] and actualSize[c]           *)
(***************************************************************************)
EXTENDS Integers, Sequences, FiniteSets

CONSTANTS
    Packets,        \* the packets that may be pushed
    NULL,           \* the null pointer
    SizeConsumers,  \* threads that call popSize(batch, &n)
    AllConsumers,   \* threads that call popAll(&n)
    capacity,       \* the length of the ring, NS_QUEUE_SIZE in the driver
    batch           \* the argument of popSize, 3 in the driver

ASSUME NullAssumption == NULL \notin Packets

ASSUME ConsumersAssumption ==
    /\ IsFiniteSet(SizeConsumers)
    /\ IsFiniteSet(AllConsumers)
    /\ SizeConsumers \cap AllConsumers = {}

\* The constructor starts with start = 1, an index of the ring.
ASSUME CapacityAssumption == capacity \in Nat /\ capacity >= 2

ASSUME BatchAssumption == batch \in Nat /\ batch >= 1

VARIABLES
    buffer,         \* the ring
    size,           \* the number of packets in it
    start,          \* the index of the oldest packet
    end,            \* the index of the newest packet
    released,       \* releaseAll has been called
    pc,             \* where each consumer's call is
    list,           \* the packets a consumer's call has returned, or NULL
    actualSize      \* the caller's size variable, written through a pointer

queueVars == <<buffer, size, start, end>>
callVars == <<pc, list, actualSize>>
vars == <<buffer, size, start, end, released, pc, list, actualSize>>

Consumers == SizeConsumers \cup AllConsumers

Indices == 0 .. capacity - 1

\* An uninitialised size_t of the caller: cut off at the capacity.
Garbage == 0 .. capacity

waiting == {c \in Consumers : pc[c] = "waiting"}
locking == {c \in Consumers : pc[c] = "locking"}

-----------------------------------------------------------------------------
(* The private helpers of the class.                                       *)

empty == size = 0

ableToInputPacket == ~(size = capacity - 1)

\* A variant that forgets to wrap, and one that wraps a slot too early.
addToEndNoWrap == end + 1
addToEndEarlyWrap == IF end >= capacity - 2 THEN 0 ELSE end + 1

addToEnd == IF end = capacity - 1 THEN 0 ELSE end + 1

addToStart(n) ==
    IF start + n >= capacity THEN start + n - capacity ELSE start + n

needsSplitt(n) == start + n > capacity

\* A variant that copies one packet too few before the wrap.
getSplitSizeShort == capacity - start - 1

getSplitSize == capacity - start

\* The two std::copy calls when the packets wrap around the end of the
\* ring, the single one otherwise.
Copied(n) ==
    [i \in 1 .. n |->
        IF needsSplitt(n) /\ i > getSplitSize
          THEN buffer[i - 1 - getSplitSize]
          ELSE buffer[start + i - 1]]

\* How many packets a call removes: popSize at most batch, popAll all.
Count(c) ==
    IF c \in SizeConsumers THEN (IF size < batch THEN size ELSE batch)
                           ELSE size

-----------------------------------------------------------------------------
Init ==
    /\ buffer = [i \in Indices |-> NULL]
    /\ size = 0
    /\ end = 0
    /\ start = 1
    /\ released = FALSE
    /\ pc = [c \in Consumers |-> "idle"]
    /\ list = [c \in Consumers |-> NULL]
    /\ actualSize = [c \in Consumers |-> 0]

\* A variant of push's notification: only the first packet of an empty queue
\* wakes a thread.
NotifyOneIfEmpty ==
    IF waiting = {} \/ ~empty
      THEN UNCHANGED pc
      ELSE \E c \in waiting : pc' = [pc EXCEPT ![c] = "locking"]

\* notify_one wakes one of the waiting threads, if there is any.
NotifyOne ==
    IF waiting = {}
      THEN UNCHANGED pc
      ELSE \E c \in waiting : pc' = [pc EXCEPT ![c] = "locking"]

\* A variant of releaseAll that only sets the flag.
NotifyNobody == UNCHANGED pc

NotifyAll ==
    pc' = [c \in Consumers |-> IF pc[c] = "waiting" THEN "locking" ELSE pc[c]]

\* push of a full queue: the packet is dropped and deleted.
Drop(w) ==
    /\ ~ableToInputPacket
    /\ UNCHANGED vars

Push(w) ==
    /\ ableToInputPacket
    /\ end' = addToEnd
    /\ size' = size + 1
    /\ buffer' = [buffer EXCEPT ![addToEnd] = w]
    /\ NotifyOne
    /\ UNCHANGED <<start, released, list, actualSize>>

\* The call begins with a read of released that m does not protect.  The
\* early return leaves the caller's size variable unset.
Call(c) ==
    /\ pc[c] = "idle"
    /\ \/ /\ released
          /\ pc' = [pc EXCEPT ![c] = "returned"]
          /\ list' = [list EXCEPT ![c] = NULL]
          /\ \E g \in Garbage : actualSize' = [actualSize EXCEPT ![c] = g]
       \/ /\ ~released
          /\ pc' = [pc EXCEPT ![c] = "locking"]
          /\ UNCHANGED <<list, actualSize>>
    /\ UNCHANGED <<queueVars, released>>

\* With m held the predicate of hasPackets.wait is false: wait.
Wait(c) ==
    /\ pc[c] = "locking"
    /\ empty /\ ~released
    /\ pc' = [pc EXCEPT ![c] = "waiting"]
    /\ UNCHANGED <<queueVars, released, list, actualSize>>

\* A wake-up that no notify caused.
SpuriousWakeup(c) ==
    /\ pc[c] = "waiting"
    /\ pc' = [pc EXCEPT ![c] = "locking"]
    /\ UNCHANGED <<queueVars, released, list, actualSize>>

\* The predicate of the wait is true because of the release.  popSize has
\* already stored the number of packets it would have returned, popAll 0.
ReturnNull(c) ==
    /\ pc[c] = "locking"
    /\ released
    /\ pc' = [pc EXCEPT ![c] = "returned"]
    /\ list' = [list EXCEPT ![c] = NULL]
    /\ actualSize' = [actualSize EXCEPT ![c] =
                         IF c \in SizeConsumers THEN Count(c) ELSE 0]
    /\ UNCHANGED <<queueVars, released>>

ReturnList(c) ==
    /\ pc[c] = "locking"
    /\ ~empty /\ ~released
    /\ pc' = [pc EXCEPT ![c] = "returned"]
    /\ list' = [list EXCEPT ![c] = Copied(Count(c))]
    /\ actualSize' = [actualSize EXCEPT ![c] = Count(c)]
    /\ start' = addToStart(Count(c))
    /\ size' = size - Count(c)
    /\ UNCHANGED <<buffer, end, released>>

\* The caller is done with the list; its variables go out of scope.
Use(c) ==
    /\ pc[c] = "returned"
    /\ pc' = [pc EXCEPT ![c] = "idle"]
    /\ list' = [list EXCEPT ![c] = NULL]
    /\ actualSize' = [actualSize EXCEPT ![c] = 0]
    /\ UNCHANGED <<queueVars, released>>

\* Also what the destructor does.
releaseAll ==
    /\ NotifyAll
    /\ released' = TRUE
    /\ UNCHANGED <<queueVars, list, actualSize>>

PopStep(c) == Wait(c) \/ ReturnNull(c) \/ ReturnList(c)

Next ==
    \/ \E w \in Packets : Push(w) \/ Drop(w)
    \/ \E c \in Consumers : Call(c) \/ PopStep(c) \/ SpuriousWakeup(c) \/ Use(c)
    \/ releaseAll

Spec == Init /\ [][Next]_vars

(***************************************************************************)
(* Fairness: a thread that wants m gets it in the end, a worker that has   *)
(* its packets finishes with them and, in its loop, calls again.  Nothing  *)
(* is assumed of producers, of spurious wake-ups or of the release.        *)
(***************************************************************************)
Fairness ==
    \A c \in Consumers :
        /\ WF_vars(Call(c))
        /\ WF_vars(PopStep(c))
        /\ WF_vars(Use(c))

FairSpec == Spec /\ Fairness

-----------------------------------------------------------------------------
(* Properties.                                                             *)

Lists == {NULL} \cup Seq(Packets)

\* The types of the variables of class Workqueue and of its callers: the
\* indices stay inside the ring, and one slot of it is always left free.
TypeOK ==
    /\ buffer \in [Indices -> Packets \cup {NULL}]
    /\ size \in 0 .. capacity - 1
    /\ start \in Indices
    /\ end \in Indices
    /\ released \in BOOLEAN
    /\ pc \in [Consumers -> {"idle", "locking", "waiting", "returned"}]
    /\ list \in [Consumers -> Lists]
    /\ actualSize \in [Consumers -> Garbage]

\* The i-th oldest packet of the queue is at this index of the ring.
Slot(i) ==
    IF start + i - 1 >= capacity THEN start + i - 1 - capacity
                                 ELSE start + i - 1

\* The index that follows i in the ring.
Successor(i) == IF i + 1 = capacity THEN 0 ELSE i + 1

\* The three counters that push and popSize/popAll update separately agree:
\* the slot after the newest packet is the one after the size packets that
\* begin at start, and the ring holds a real packet, never a null pointer, in every used slot.
RingConsistent ==
    /\ Slot(size + 1) = Successor(end)
    /\ \A i \in 1 .. size : buffer[Slot(i)] \in Packets

\* No packet is left in the queue while all the threads that could take it
\* sleep: push notifies only one waiter and a popSize may leave packets
\* behind, yet every packet has a thread on its way to the mutex.
NoStrandedPackets ==
    waiting # {} => size <= Cardinality(locking)

\* After releaseAll no thread sleeps on the condition variable, although
\* releaseAll notifies before it sets the flag and a call reads the flag
\* before it takes the mutex.
NobodyWaitsAfterRelease == released => waiting = {}

\* The most packets a call of c may return.
MaxTake(c) == IF c \in SizeConsumers THEN batch ELSE capacity

\* The live part of the ring, oldest packet first.
content == [i \in 1 .. size |-> buffer[Slot(i)]]

\* What each caller has got: a call that has not returned gave nothing yet.
results ==
    [c \in Consumers |->
        IF pc[c] # "returned"
          THEN [done |-> FALSE, list |-> <<>>, n |-> 0]
          ELSE [done |-> TRUE, list |-> list[c], n |-> actualSize[c]]]

\* The abstract queue as the ring presents it.
Queue == INSTANCE PacketQueue WITH
    Bound <- capacity - 1, q <- content, out <- results

\* Every behaviour of the ring is one of the bounded FIFO: packets leave in
\* the order of the pushes, each to exactly one consumer, and only a push
\* on a full ring loses one.
ImplementsQueue == Queue!Spec

\* The ring also delivers: packets do not stay for ever while consumers
\* call, and each call returns after the release.
ImplementsFairQueue == Queue!Fairness
=============================================================================
