-------------------------- MODULE WorkqueueProofs --------------------------
(***************************************************************************)
(* Proofs about module Workqueue, for every capacity, batch size, set of   *)
(* packets and finite set of consumers.                                    *)
(***************************************************************************)
EXTENDS Workqueue, TLAPS, FiniteSetTheorems, SequenceTheorems

-----------------------------------------------------------------------------
(* The arithmetic of the ring.                                             *)

\* The copy of popSize and popAll, split at the end of the ring or not,
\* returns the n oldest packets in order.
LEMMA CopiedIsPrefix ==
    ASSUME start \in Indices, NEW n \in 0 .. capacity - 1, NEW i \in 1 .. n
    PROVE  /\ Copied(n)[i] = buffer[Slot(i)]
           /\ Slot(i) \in Indices
  BY CapacityAssumption
     DEF Copied, Slot, needsSplitt, getSplitSize, Indices

\* A call takes at least one packet of a queue that holds some, and never
\* more than there are.
LEMMA CountBounds ==
    ASSUME size \in 0 .. capacity - 1, NEW c
    PROVE  /\ Count(c) \in 0 .. size
           /\ size # 0 => Count(c) # 0
  BY CapacityAssumption, BatchAssumption DEF Count

-----------------------------------------------------------------------------
(* The ring.                                                               *)

RingInv == TypeOK /\ RingConsistent

LEMMA RingInit == Init => RingInv
  <1> USE CapacityAssumption DEF Indices
  <1> SUFFICES ASSUME Init
               PROVE  TypeOK /\ RingConsistent
    BY DEF RingInv
  <1>1. TypeOK
    <2>1. buffer \in [Indices -> Packets \cup {NULL}]
      BY DEF Init
    <2>2. /\ size \in 0 .. capacity - 1
          /\ start \in Indices
          /\ end \in Indices
      BY DEF Init
    <2>3. pc \in [Consumers -> {"idle", "locking", "waiting", "returned"}]
      BY DEF Init
    <2>4. list \in [Consumers -> Lists]
      BY DEF Init, Lists
    <2>5. actualSize \in [Consumers -> Garbage]
      BY DEF Init, Garbage
    <2> QED
      BY <2>1, <2>2, <2>3, <2>4, <2>5 DEF TypeOK, Init
  <1>2. RingConsistent
    BY DEF Init, RingConsistent, Slot, Successor
  <1> QED
    BY <1>1, <1>2

\* push writes the slot after the newest packet, which no packet occupies.
LEMMA RingPush ==
    ASSUME RingInv, NEW w \in Packets, Push(w)
    PROVE  RingInv'
  <1> USE CapacityAssumption DEF Indices
  <1>1. /\ addToEnd = Slot(size + 1)
        /\ addToEnd \in Indices
        /\ size + 1 \in 0 .. capacity - 1
    BY DEF RingInv, TypeOK, RingConsistent, addToEnd, Successor, Push,
           ableToInputPacket
  <1>2. TypeOK'
    <2>1. pc' \in [Consumers -> {"idle", "locking", "waiting", "returned"}]
      BY DEF RingInv, TypeOK, Push, NotifyOne, waiting
    <2>2. buffer' \in [Indices -> Packets \cup {NULL}]
      BY DEF RingInv, TypeOK, Push
    <2> QED
      BY <1>1, <2>1, <2>2 DEF RingInv, TypeOK, Push
  <1>3. Slot(size + 1)' = Successor(end)'
    BY <1>1 DEF RingInv, TypeOK, Push, Slot, Successor
  <1>4. ASSUME NEW i \in 1 .. size'
        PROVE  buffer'[Slot(i)'] \in Packets
    <2>1. start' = start /\ Slot(i)' = Slot(i)
      BY DEF Push, Slot
    <2>2. CASE i = size + 1
      BY <1>1, <2>1, <2>2 DEF RingInv, TypeOK, Push
    <2>3. CASE i # size + 1
      <3>1. i \in 1 .. size
        BY <2>3 DEF RingInv, TypeOK, Push
      <3>2. Slot(i) # addToEnd /\ Slot(i) \in Indices
        BY <1>1, <3>1 DEF RingInv, TypeOK, Slot
      <3>3. buffer[Slot(i)] \in Packets
        BY <3>1 DEF RingInv, RingConsistent
      <3> QED
        BY <2>1, <3>2, <3>3 DEF RingInv, TypeOK, Push
    <2> QED
      BY <2>2, <2>3
  <1> QED
    BY <1>2, <1>3, <1>4 DEF RingInv, RingConsistent

\* popSize and popAll move start past the packets they copied.
LEMMA RingReturnList ==
    ASSUME RingInv, NEW c \in Consumers, ReturnList(c)
    PROVE  RingInv'
  <1> USE CapacityAssumption DEF Indices
  <1> DEFINE n == Count(c)
  <1>1. n \in 0 .. size
    BY CountBounds DEF RingInv, TypeOK
  <1> HIDE DEF n
  <1>2. /\ start' = addToStart(n)
        /\ start' \in Indices
        /\ size' = size - n
        /\ size' \in 0 .. capacity - 1
    BY <1>1 DEF RingInv, TypeOK, ReturnList, addToStart, n
  <1>3. ASSUME NEW i \in 1 .. capacity - n
        PROVE  Slot(i)' = Slot(i + n)
    BY <1>1, <1>2 DEF RingInv, TypeOK, Slot, addToStart
  <1>4. Copied(n) \in Seq(Packets)
    <2>1. \A i \in 1 .. n : Copied(n)[i] \in Packets
      BY <1>1, CopiedIsPrefix DEF RingInv, TypeOK, RingConsistent
    <2>2. Copied(n) \in [1 .. n -> Packets]
      BY <2>1 DEF Copied
    <2>3. n \in Nat
      BY <1>1 DEF RingInv, TypeOK
    <2> QED
      BY <2>2, <2>3, SeqDef
  <1>5. TypeOK'
    <2>1. list' \in [Consumers -> Lists]
      BY <1>4 DEF RingInv, TypeOK, ReturnList, Lists, n
    <2>2. actualSize' \in [Consumers -> Garbage]
      BY <1>1 DEF RingInv, TypeOK, ReturnList, Garbage, n
    <2>3. pc' \in [Consumers -> {"idle", "locking", "waiting", "returned"}]
      BY DEF RingInv, TypeOK, ReturnList
    <2> QED
      BY <1>2, <2>1, <2>2, <2>3 DEF RingInv, TypeOK, ReturnList
  <1>6. Slot(size + 1)' = Successor(end)'
    <2>1. Slot(size + 1)' = Slot(size + 1)
      BY <1>1, <1>2 DEF RingInv, TypeOK, Slot, addToStart
    <2> QED
      BY <2>1 DEF RingInv, RingConsistent, ReturnList, Successor
  <1>7. ASSUME NEW i \in 1 .. size'
        PROVE  buffer'[Slot(i)'] \in Packets
    <2>1. i + n \in 1 .. size /\ i \in 1 .. capacity - n
      BY <1>1, <1>2 DEF RingInv, TypeOK
    <2>2. buffer[Slot(i + n)] \in Packets
      BY <2>1 DEF RingInv, RingConsistent
    <2> QED
      BY <1>3, <2>1, <2>2 DEF ReturnList
  <1> QED
    BY <1>5, <1>6, <1>7 DEF RingInv, RingConsistent

LEMMA RingNext == RingInv /\ [Next]_vars => RingInv'
  <1> SUFFICES ASSUME RingInv, [Next]_vars
               PROVE  RingInv'
    OBVIOUS
  <1> USE DEF queueVars
  <1>1. ASSUME NEW w \in Packets, Push(w)
        PROVE  RingInv'
    BY <1>1, RingPush
  <1>2. ASSUME NEW c \in Consumers, ReturnList(c)
        PROVE  RingInv'
    BY <1>2, RingReturnList
  <1>3. ASSUME UNCHANGED queueVars, TypeOK'
        PROVE  RingInv'
    BY <1>3 DEF RingInv, RingConsistent, Slot, Successor
  <1>4. ASSUME NEW c \in Consumers, Call(c)
        PROVE  RingInv'
    BY <1>3, <1>4 DEF RingInv, TypeOK, Call, Lists
  <1>5. ASSUME NEW c \in Consumers, Wait(c)
        PROVE  RingInv'
    BY <1>3, <1>5 DEF RingInv, TypeOK, Wait
  <1>6. ASSUME NEW c \in Consumers, ReturnNull(c)
        PROVE  RingInv'
    <2>1. Count(c) \in Garbage /\ 0 \in Garbage
      BY CountBounds, CapacityAssumption DEF RingInv, TypeOK, Garbage
    <2> QED
      BY <1>3, <1>6, <2>1 DEF RingInv, TypeOK, ReturnNull, Lists
  <1>7. ASSUME NEW c \in Consumers, SpuriousWakeup(c)
        PROVE  RingInv'
    BY <1>3, <1>7 DEF RingInv, TypeOK, SpuriousWakeup
  <1>8. ASSUME NEW c \in Consumers, Use(c)
        PROVE  RingInv'
    BY <1>3, <1>8, CapacityAssumption
       DEF RingInv, TypeOK, Use, Lists, Garbage
  <1>9. ASSUME releaseAll
        PROVE  RingInv'
    BY <1>3, <1>9 DEF RingInv, TypeOK, releaseAll, NotifyAll
  <1>10. CASE UNCHANGED vars
    BY <1>3, <1>10 DEF RingInv, TypeOK, vars
  <1> QED
    BY <1>1, <1>2, <1>4, <1>5, <1>6, <1>7, <1>8, <1>9, <1>10
       DEF Next, PopStep, Drop

LEMMA RingAlways == Spec => []RingInv
  BY RingInit, RingNext, PTL DEF Spec

\* The variables of class Workqueue keep their types: the indices of push,
\* popSize and popAll stay inside the ring, whatever its capacity.
THEOREM TypeCorrect == Spec => []TypeOK
  <1>1. RingInv => TypeOK
    BY DEF RingInv
  <1> QED
    BY <1>1, RingAlways, PTL

\* start, end and size, which push and the pops update separately, always
\* delimit the same packets, and no popped list holds a null pointer.
THEOREM RingCorrect == Spec => []RingConsistent
  <1>1. RingInv => RingConsistent
    BY DEF RingInv
  <1> QED
    BY <1>1, RingAlways, PTL

-----------------------------------------------------------------------------
(* Wake-ups.                                                               *)

LEMMA LockingFinite ==
    /\ IsFiniteSet(locking)
    /\ Cardinality(locking) \in Nat
  <1>1. IsFiniteSet(Consumers)
    BY ConsumersAssumption, FS_Union DEF Consumers
  <1>2. locking \subseteq Consumers
    BY DEF locking
  <1> QED
    BY <1>1, <1>2, FS_Subset, FS_CardinalityType

\* A thread that joins the threads on their way to the mutex, or leaves them.
LEMMA LockingCount ==
    ASSUME NEW c
    PROVE  /\ (c \notin locking /\ locking' = locking \cup {c})
                 => Cardinality(locking') = Cardinality(locking) + 1
           /\ (c \in locking /\ locking' = locking \ {c})
                 => Cardinality(locking') = Cardinality(locking) - 1
  BY LockingFinite, FS_AddElement, FS_RemoveElement

(***************************************************************************)
(* NoStrandedPackets is inductive because it counts: a packet more comes   *)
(* with a thread more on its way to the mutex as long as somebody sleeps,  *)
(* and such a thread takes at least one packet.  It needs the other half   *)
(* for the threads that leave the mutex empty-handed after the release.    *)
(***************************************************************************)
WakeInv == NoStrandedPackets /\ NobodyWaitsAfterRelease

LEMMA WakePush ==
    ASSUME RingInv, WakeInv, NEW w \in Packets, Push(w)
    PROVE  WakeInv'
  <1>1. CASE waiting = {}
    <2>1. waiting' = {}
      BY <1>1 DEF Push, NotifyOne, waiting
    <2> QED
      BY <2>1 DEF WakeInv, NoStrandedPackets, NobodyWaitsAfterRelease
  <1>2. CASE waiting # {}
    <2>1. PICK c \in waiting : pc' = [pc EXCEPT ![c] = "locking"]
      BY <1>2 DEF Push, NotifyOne
    <2>2. c \notin locking /\ locking' = locking \cup {c}
      BY <2>1 DEF waiting, locking, RingInv, TypeOK
    <2>3. Cardinality(locking') = Cardinality(locking) + 1
      BY <2>2, LockingCount
    <2>4. size' = size + 1 /\ size <= Cardinality(locking)
      BY <1>2 DEF Push, WakeInv, NoStrandedPackets
    <2>5. size' <= Cardinality(locking')
      BY <2>3, <2>4, LockingFinite DEF RingInv, TypeOK
    <2>6. ~released'
      BY <1>2 DEF Push, WakeInv, NobodyWaitsAfterRelease
    <2> QED
      BY <2>5, <2>6 DEF WakeInv, NoStrandedPackets, NobodyWaitsAfterRelease
  <1> QED
    BY <1>1, <1>2

LEMMA WakeReturnList ==
    ASSUME RingInv, WakeInv, NEW c \in Consumers, ReturnList(c)
    PROVE  WakeInv'
  <1>1. c \in locking /\ locking' = locking \ {c} /\ waiting' = waiting
    BY DEF ReturnList, RingInv, TypeOK, locking, waiting
  <1>2. Cardinality(locking') = Cardinality(locking) - 1
    BY <1>1, LockingCount
  <1>3. size' = size - Count(c) /\ Count(c) \in 1 .. size
    BY CountBounds DEF ReturnList, RingInv, TypeOK, empty
  <1>4. NoStrandedPackets'
    BY <1>1, <1>2, <1>3, LockingFinite
       DEF WakeInv, NoStrandedPackets, RingInv, TypeOK
  <1> QED
    BY <1>4 DEF WakeInv, NobodyWaitsAfterRelease, ReturnList

LEMMA WakeNext == RingInv /\ WakeInv /\ [Next]_vars => WakeInv'
  <1> SUFFICES ASSUME RingInv, WakeInv, [Next]_vars
               PROVE  WakeInv'
    OBVIOUS
  <1> USE DEF queueVars
  <1>1. ASSUME NEW w \in Packets, Push(w)
        PROVE  WakeInv'
    BY <1>1, WakePush
  <1>2. ASSUME NEW c \in Consumers, ReturnList(c)
        PROVE  WakeInv'
    BY <1>2, WakeReturnList
  <1>3. ASSUME waiting' = {}
        PROVE  WakeInv'
    BY <1>3 DEF WakeInv, NoStrandedPackets, NobodyWaitsAfterRelease
  <1>4. ASSUME NEW c \in Consumers, size' = size, released' = released,
               pc[c] # "locking", pc'[c] # "waiting",
               pc' = [pc EXCEPT ![c] = pc'[c]]
        PROVE  WakeInv'
    <2>1. waiting' \subseteq waiting
      BY <1>4 DEF waiting, RingInv, TypeOK
    <2>2. locking' = locking \/ (c \notin locking /\ locking' = locking \cup {c})
      BY <1>4 DEF locking, RingInv, TypeOK
    <2>3. Cardinality(locking') >= Cardinality(locking)
      BY <2>2, LockingCount, LockingFinite
    <2>4. Cardinality(locking') \in Nat
      BY <2>2, LockingCount, LockingFinite
    <2> QED
      BY <1>4, <2>1, <2>3, <2>4, LockingFinite
         DEF WakeInv, NoStrandedPackets, NobodyWaitsAfterRelease, RingInv,
             TypeOK
  <1>5. ASSUME NEW c \in Consumers, Call(c)
        PROVE  WakeInv'
    BY <1>4, <1>5 DEF Call, RingInv, TypeOK
  <1>6. ASSUME NEW c \in Consumers, Wait(c)
        PROVE  WakeInv'
    <2>1. locking' \subseteq locking
      BY <1>6 DEF Wait, locking, RingInv, TypeOK
    <2>2. Cardinality(locking') \in Nat
      BY <2>1, LockingFinite, FS_Subset, FS_CardinalityType
    <2> QED
      BY <1>6, <2>2
         DEF WakeInv, NoStrandedPackets, NobodyWaitsAfterRelease, Wait, empty
  <1>7. ASSUME NEW c \in Consumers, ReturnNull(c)
        PROVE  WakeInv'
    <2>1. waiting = {}
      BY <1>7 DEF ReturnNull, WakeInv, NobodyWaitsAfterRelease
    <2>2. waiting' = {}
      BY <1>7, <2>1 DEF ReturnNull, waiting, RingInv, TypeOK
    <2> QED
      BY <1>3, <2>2
  <1>8. ASSUME NEW c \in Consumers, SpuriousWakeup(c)
        PROVE  WakeInv'
    BY <1>4, <1>8 DEF SpuriousWakeup, RingInv, TypeOK
  <1>9. ASSUME NEW c \in Consumers, Use(c)
        PROVE  WakeInv'
    BY <1>4, <1>9 DEF Use, RingInv, TypeOK
  <1>10. ASSUME releaseAll
         PROVE  WakeInv'
    <2>1. waiting' = {}
      BY <1>10 DEF releaseAll, NotifyAll, waiting
    <2> QED
      BY <1>3, <2>1
  <1>11. CASE UNCHANGED vars
    BY <1>11
       DEF vars, WakeInv, NoStrandedPackets, NobodyWaitsAfterRelease, waiting,
           locking
  <1> QED
    BY <1>1, <1>2, <1>5, <1>6, <1>7, <1>8, <1>9, <1>10, <1>11
       DEF Next, PopStep, Drop

LEMMA WakeInit == Init => WakeInv
  <1> SUFFICES ASSUME Init
               PROVE  waiting = {}
    BY DEF WakeInv, NoStrandedPackets, NobodyWaitsAfterRelease
  <1> QED
    BY DEF Init, waiting

\* However many consumers and packets there are, notify_one on each push is
\* enough: no packet stays in the queue with every thread asleep.
THEOREM NothingStranded == Spec => []NoStrandedPackets
  <1>1. WakeInv => NoStrandedPackets
    BY DEF WakeInv
  <1> QED
    BY <1>1, WakeInit, WakeNext, RingAlways, PTL DEF Spec

\* releaseAll leaves no thread asleep, and none goes to sleep after it.
THEOREM ReleaseWakesEveryone == Spec => []NobodyWaitsAfterRelease
  <1>1. WakeInv => NobodyWaitsAfterRelease
    BY DEF WakeInv
  <1> QED
    BY <1>1, WakeInit, WakeNext, RingAlways, PTL DEF Spec
=============================================================================
