------------------------ MODULE WorkqueueRefinement ------------------------
(***************************************************************************)
(* The proof that the ring of module Workqueue implements the bounded FIFO *)
(* of module PacketQueue: initial states map to initial states, and every  *)
(* step maps to a step of the FIFO or leaves it unchanged.                 *)
(***************************************************************************)
EXTENDS WorkqueueProofs

\* The live part of the ring is a sequence of packets.
LEMMA ContentIsSeq ==
    RingInv => /\ content \in Seq(Packets)
               /\ Len(content) = size
               /\ \A i \in 1 .. size : content[i] = buffer[Slot(i)]
  <1> SUFFICES ASSUME RingInv
               PROVE  /\ content \in Seq(Packets)
                      /\ Len(content) = size
                      /\ \A i \in 1 .. size : content[i] = buffer[Slot(i)]
    OBVIOUS
  <1>1. content \in [1 .. size -> Packets] /\ size \in Nat
    BY CapacityAssumption DEF content, RingInv, TypeOK, RingConsistent
  <1>2. content \in Seq(Packets)
    BY <1>1, SeqDef
  <1>3. Len(content) = size
    BY <1>1, <1>2, LenProperties
  <1> QED
    BY <1>2, <1>3 DEF content

\* push appends its packet.
LEMMA PushAppends ==
    ASSUME RingInv, RingInv', NEW w \in Packets, Push(w)
    PROVE  content' = Append(content, w)
  <1> USE CapacityAssumption DEF Indices
  <1>1. /\ addToEnd = Slot(size + 1)
        /\ addToEnd \in Indices
        /\ size' = size + 1
        /\ start' = start
    BY DEF RingInv, TypeOK, RingConsistent, addToEnd, Successor, Push
  <1>2. /\ content \in Seq(Packets)
        /\ Len(content) = size
        /\ \A i \in 1 .. size : content[i] = buffer[Slot(i)]
    BY ContentIsSeq
  <1>3. /\ Append(content, w) \in Seq(Packets)
        /\ Len(Append(content, w)) = size + 1
        /\ \A i \in 1 .. size : Append(content, w)[i] = content[i]
        /\ Append(content, w)[size + 1] = w
    BY <1>2, AppendProperties
  <1>4. content' \in Seq(Packets) /\ Len(content') = size + 1
    <2>1. (content \in Seq(Packets) /\ Len(content) = size)'
      BY ContentIsSeq, PTL
    <2> QED
      BY <1>1, <2>1
  <1>5. ASSUME NEW i \in 1 .. size + 1
        PROVE  content'[i] = Append(content, w)[i]
    <2>1. content'[i] = buffer'[Slot(i)]
      BY <1>1 DEF content, Slot
    <2>2. CASE i = size + 1
      BY <1>1, <1>3, <2>1, <2>2 DEF Push, RingInv, TypeOK
    <2>3. CASE i # size + 1
      <3>1. i \in 1 .. size
        BY <2>3 DEF RingInv, TypeOK
      <3>2. Slot(i) # addToEnd
        BY <1>1, <3>1 DEF RingInv, TypeOK, Slot
      <3>3. buffer'[Slot(i)] = buffer[Slot(i)]
        BY <3>2 DEF Push, RingInv, TypeOK
      <3> QED
        BY <1>2, <1>3, <2>1, <3>1, <3>3
    <2> QED
      BY <2>2, <2>3
  <1> QED
    BY <1>3, <1>4, <1>5, SeqEqual

\* popSize and popAll return a prefix and leave the rest.
LEMMA ReturnListTakes ==
    ASSUME RingInv, RingInv', NEW c \in Consumers, ReturnList(c)
    PROVE  /\ Copied(Count(c)) = SubSeq(content, 1, Count(c))
           /\ content' = SubSeq(content, Count(c) + 1, size)
           /\ Len(Copied(Count(c))) = Count(c)
  <1> USE CapacityAssumption DEF Indices
  <1> DEFINE n == Count(c)
  <1>1. n \in 0 .. size
    BY CountBounds DEF RingInv, TypeOK
  <1>2. /\ start' = addToStart(n)
        /\ size' = size - n
        /\ buffer' = buffer
    BY DEF ReturnList
  <1> HIDE DEF n
  <1>3. /\ content \in Seq(Packets)
        /\ Len(content) = size
        /\ \A i \in 1 .. size : content[i] = buffer[Slot(i)]
        /\ \A i \in 1 .. size : content[i] \in Packets
        /\ size \in Nat
    BY ContentIsSeq, ElementOfSeq DEF RingInv, TypeOK
  <1>4. /\ SubSeq(content, 1, n) \in Seq(Packets)
        /\ Len(SubSeq(content, 1, n)) = n
        /\ \A i \in 1 .. n : SubSeq(content, 1, n)[i] = content[i]
    <2>1. \A i \in 1 .. n : content[i] \in Packets
      BY <1>1, <1>3
    <2> QED
      BY <1>1, <1>3, <2>1, SubSeqProperties
  <1>5. /\ SubSeq(content, n + 1, size) \in Seq(Packets)
        /\ Len(SubSeq(content, n + 1, size)) = size - n
        /\ \A i \in 1 .. size - n :
              SubSeq(content, n + 1, size)[i] = content[n + i]
    <2>1. \A i \in n + 1 .. size : content[i] \in Packets
      BY <1>1, <1>3
    <2> QED
      BY <1>1, <1>3, <2>1, SubSeqProperties
  <1>6. \A i \in 1 .. n : Copied(n)[i] = content[i]
    BY <1>1, <1>3, CopiedIsPrefix DEF RingInv, TypeOK
  <1>7. Copied(n) \in Seq(Packets) /\ Len(Copied(n)) = n
    <2>1. Copied(n) \in [1 .. n -> Packets] /\ n \in Nat
      BY <1>1, <1>3, <1>6 DEF Copied
    <2> QED
      BY <2>1, SeqDef, LenProperties
  <1>8. Copied(n) = SubSeq(content, 1, n)
    BY <1>4, <1>6, <1>7, SeqEqual
  <1>9. content' \in Seq(Packets) /\ Len(content') = size - n
    <2>1. (content \in Seq(Packets) /\ Len(content) = size)'
      BY ContentIsSeq, PTL
    <2> QED
      BY <1>2, <2>1
  <1>10. ASSUME NEW i \in 1 .. size - n
         PROVE  content'[i] = SubSeq(content, n + 1, size)[i]
    <2>1. Slot(i)' = Slot(n + i)
      BY <1>1, <1>2 DEF RingInv, TypeOK, Slot, addToStart
    <2>2. content'[i] = buffer[Slot(n + i)]
      BY <1>2, <2>1 DEF content
    <2>3. n + i \in 1 .. size
      BY <1>1, <1>3
    <2> QED
      BY <1>3, <1>5, <2>2, <2>3
  <1>11. content' = SubSeq(content, n + 1, size)
    BY <1>5, <1>9, <1>10, SeqEqual
  <1> QED
    BY <1>7, <1>8, <1>11 DEF n

LEMMA RefinementInit == Init => Queue!Init
  <1> SUFFICES ASSUME Init
               PROVE  /\ content = <<>>
                      /\ released = FALSE
                      /\ results = [c \in Consumers |-> Queue!NoResult]
    BY DEF Queue!Init
  <1>1. content = <<>>
    BY RingInit, ContentIsSeq, EmptySeq DEF Init
  <1>2. results = [c \in Consumers |-> Queue!NoResult]
    BY DEF Init, results, Queue!NoResult
  <1> QED
    BY <1>1, <1>2 DEF Init

LEMMA RefinementNext ==
    RingInv /\ RingInv' /\ [Next]_vars => [Queue!Next]_(Queue!vars)
  <1> SUFFICES ASSUME RingInv, RingInv', [Next]_vars
               PROVE  Queue!Next \/ UNCHANGED <<content, released, results>>
    BY DEF Queue!vars
  <1> USE DEF queueVars
  <1>1. ASSUME UNCHANGED queueVars
        PROVE  content' = content
    BY <1>1 DEF content, Slot
  <1>2. ASSUME NEW c \in Consumers, pc' = [pc EXCEPT ![c] = pc'[c]],
               pc[c] # "returned", pc'[c] # "returned",
               list' = list, actualSize' = actualSize
        PROVE  results' = results
    BY <1>2 DEF results, RingInv, TypeOK
  <1>3. ASSUME NEW w \in Packets, Push(w)
        PROVE  Queue!Push(w)
    <2>1. content' = Append(content, w)
      BY <1>3, PushAppends
    <2>2. Len(content) < capacity - 1
      BY <1>3, ContentIsSeq, CapacityAssumption
         DEF Push, ableToInputPacket, RingInv, TypeOK
    <2>3. results' = results
      BY <1>3 DEF Push, NotifyOne, results, waiting, RingInv, TypeOK
    <2>4. released' = released
      BY <1>3 DEF Push
    <2> QED
      BY <2>1, <2>2, <2>3, <2>4 DEF Queue!Push
  <1>4. ASSUME NEW c \in Consumers, ReturnList(c)
        PROVE  Queue!Take(c)
    <2>1. /\ Copied(Count(c)) = SubSeq(content, 1, Count(c))
          /\ content' = SubSeq(content, Count(c) + 1, size)
          /\ Len(Copied(Count(c))) = Count(c)
      BY <1>4, ReturnListTakes
    <2>2. Len(content) = size /\ size \in 0 .. capacity - 1 /\ size # 0
      BY <1>4, ContentIsSeq DEF RingInv, TypeOK, ReturnList, empty
    <2>3. Queue!TakeCount(c) = Count(c)
      BY <2>2, CapacityAssumption, BatchAssumption
         DEF Queue!TakeCount, MaxTake, Count
    <2>4. content # <<>>
      BY <2>2
    <2>5. ~released /\ released' = released /\ ~results[c].done
      BY <1>4 DEF ReturnList, results
    <2>6. results' = [results EXCEPT ![c] =
                        [done |-> TRUE, list |-> Copied(Count(c)), n |-> Count(c)]]
      BY <1>4 DEF ReturnList, results, RingInv, TypeOK
    <2>7. results' = [results EXCEPT ![c] =
                        Queue!Taken(SubSeq(content, 1, Queue!TakeCount(c)))]
      BY <2>1, <2>3, <2>6 DEF Queue!Taken
    <2> QED
      BY <2>1, <2>2, <2>3, <2>4, <2>5, <2>7 DEF Queue!Take
  <1>5. ASSUME NEW c \in Consumers, Call(c), released
        PROVE  Queue!Refuse(c)
    <2>1. PICK g \in Garbage : actualSize' = [actualSize EXCEPT ![c] = g]
      BY <1>5 DEF Call
    <2>2. results' = [results EXCEPT ![c] = Queue!Refused(g)]
      BY <1>5, <2>1 DEF Call, results, Queue!Refused, RingInv, TypeOK
    <2>3. released' = released /\ ~results[c].done
      BY <1>5 DEF Call, results
    <2> QED
      BY <1>1, <1>5, <2>2, <2>3 DEF Call, Queue!Refuse
  <1>6. ASSUME NEW c \in Consumers, Call(c), ~released
        PROVE  UNCHANGED <<content, released, results>>
    BY <1>1, <1>2, <1>6 DEF Call, RingInv, TypeOK
  <1>7. ASSUME NEW c \in Consumers, Wait(c)
        PROVE  UNCHANGED <<content, released, results>>
    BY <1>1, <1>2, <1>7 DEF Wait, RingInv, TypeOK
  <1>8. ASSUME NEW c \in Consumers, SpuriousWakeup(c)
        PROVE  UNCHANGED <<content, released, results>>
    BY <1>1, <1>2, <1>8 DEF SpuriousWakeup, RingInv, TypeOK
  <1>9. ASSUME NEW c \in Consumers, ReturnNull(c)
        PROVE  Queue!Refuse(c)
    <2> DEFINE g == IF c \in SizeConsumers THEN Count(c) ELSE 0
    <2>1. g \in Garbage
      BY CountBounds, CapacityAssumption DEF RingInv, TypeOK, Garbage
    <2>2. actualSize' = [actualSize EXCEPT ![c] = g]
      BY <1>9 DEF ReturnNull
    <2> HIDE DEF g
    <2>3. results' = [results EXCEPT ![c] = Queue!Refused(g)]
      BY <1>9, <2>2 DEF ReturnNull, results, Queue!Refused, RingInv, TypeOK
    <2>4. released /\ released' = released /\ ~results[c].done
      BY <1>9 DEF ReturnNull, results
    <2> QED
      BY <1>1, <1>9, <2>1, <2>3, <2>4 DEF ReturnNull, Queue!Refuse
  <1>10. ASSUME NEW c \in Consumers, Use(c)
         PROVE  Queue!Use(c)
    <2>1. results[c].done /\ released' = released
      BY <1>10 DEF Use, results
    <2>2. results' = [results EXCEPT ![c] = Queue!NoResult]
      BY <1>10 DEF Use, results, Queue!NoResult, RingInv, TypeOK
    <2> QED
      BY <1>1, <1>10, <2>1, <2>2 DEF Use, Queue!Use
  <1>11. ASSUME releaseAll
         PROVE  Queue!Release
    <2>1. results' = results
      BY <1>11 DEF releaseAll, NotifyAll, results, RingInv, TypeOK
    <2> QED
      BY <1>1, <1>11, <2>1 DEF releaseAll, Queue!Release
  <1>12. CASE UNCHANGED vars
    BY <1>1, <1>12 DEF vars, results
  <1> QED
    <2>1. CASE \E w \in Packets : Push(w)
      BY <1>3, <2>1 DEF Queue!Next
    <2>2. CASE \E c \in Consumers : Call(c)
      BY <1>5, <1>6, <2>2 DEF Queue!Next
    <2>3. CASE \E c \in Consumers : PopStep(c)
      BY <1>4, <1>7, <1>9, <2>3 DEF Queue!Next, PopStep
    <2>4. CASE \E c \in Consumers : SpuriousWakeup(c) \/ Use(c)
      BY <1>8, <1>10, <2>4 DEF Queue!Next
    <2>5. CASE releaseAll
      BY <1>11, <2>5 DEF Queue!Next
    <2> QED
      BY <1>12, <2>1, <2>2, <2>3, <2>4, <2>5 DEF Next, Drop

\* The ring buffer with its lock and its condition variable implements the
\* bounded FIFO: for every capacity, batch size and number of consumers.
THEOREM Refinement == Spec => ImplementsQueue
  BY RefinementInit, RefinementNext, RingAlways, PTL
     DEF Spec, ImplementsQueue, Queue!Spec
=============================================================================
