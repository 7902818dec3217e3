-------------------------- MODULE DataPlaneProofs --------------------------
(***************************************************************************)
(* Proofs about module DataPlane, for every finite set of adapters, every  *)
(* size of the queues and of a batch and every number of packets.          *)
(***************************************************************************)
EXTENDS DataPlane, TLAPS, SequenceTheorems

-----------------------------------------------------------------------------
(* The inductive invariant.                                                *)

\* What a call of a queue returns, as a caller whose packets are in S sees it.
Results(S) == [done : BOOLEAN, list : Seq(S) \cup {NULL}, n : Nat]

\* The types that TypeOK leaves out: the results of the queues' calls and the
\* indices into them.
ResultTypes ==
    /\ sOut \in [Adapters -> Results(TunPackets)]
    /\ rOut \in [Tx -> Results(NetPackets)]
    /\ sndIndex \in [Adapters -> Nat \ {0}] /\ txIndex \in Nat \ {0}

\* A packet that is read and not yet pushed is a packet.
Pushing ==
    /\ rx = "push" => tunRead # 0
    /\ \A a \in Adapters : rcv[a] = "push" => got[a] \in 1 .. netRead

\* The phases of shutdown(): isRunning is cleared before a queue is released,
\* and nothing is freed before every worker has ended.
Phases ==
    /\ isRunning => ctl \in {"up", "exited"}
    /\ sReleased => ctl \notin {"up", "exited", "stopped", "signalled"}
    /\ rReleased => ctl \notin {"up", "exited", "stopped", "signalled", "sendReleased"}
    /\ \/ open = Resources
          /\ ctl \in {"up", "exited", "stopped", "signalled", "sendReleased", "released"}
       \/ AllDone

\* A worker holds the null pointer only when its queue is released, and never
\* where it looks into the list; a length belongs to its list.
Lists ==
    /\ \A a \in Adapters :
          /\ snd[a] \in {"loop", "pop", "check"} => sndIndex[a] = 1
          /\ snd[a] = "check" => sOut[a].list # NULL \/ sReleased
          /\ snd[a] = "send" => sOut[a].list # NULL
          /\ sOut[a].list # NULL => sOut[a].n = Len(sOut[a].list)
    /\ tx \in {"loop", "pop"} => txIndex = 1
    /\ tx = "item" => rOut["tx"].list # NULL \/ rReleased
    /\ tx = "write" => rOut["tx"].list # NULL /\ txIndex <= rOut["tx"].n
    /\ rOut["tx"].list # NULL => rOut["tx"].n = Len(rOut["tx"].list)

Elements(s) == {s[i] : i \in DOMAIN s}

\* The packets of a list that its consumer has still to handle.
Rest(list, i) == IF list = NULL THEN {} ELSE {list[j] : j \in i .. Len(list)}

Held(a) == IF snd[a] \in {"check", "send"} THEN Rest(sOut[a].list, sndIndex[a]) ELSE {}

\* Every element of the sequence is in relation R to every later one.
Ordered(s, R) == \A i, j \in DOMAIN s : i < j => <<s[i], s[j]>> \in R

\* The packet x of the TUN device was read before y.
Older == {p \in TunPackets \X TunPackets : p[1] < p[2]}

\* The packet was read from the device, and is not the one about to be pushed.
Read(x) == x <= tunRead /\ (rx = "push" => x < tunRead)

\* The packets of the TUN device on their way: what an adapter has sent is
\* older than what it holds, that is older than what is queued, and no two
\* adapters have or had the same packet.
SendOrder ==
    /\ Ordered(sq, Older) /\ \A x \in Elements(sq) : Read(x)
    /\ \A a \in Adapters :
          /\ Ordered(sent[a], Older)
          /\ sOut[a].list # NULL => Ordered(sOut[a].list, Older)
          /\ \A x \in Elements(sent[a]) \cup Held(a) :
                Read(x) /\ \A y \in Elements(sq) : <<x, y>> \in Older
          /\ \A x \in Elements(sent[a]), y \in Held(a) : <<x, y>> \in Older
    /\ \A a, b \in Adapters : a # b =>
          (Elements(sent[a]) \cup Held(a)) \cap (Elements(sent[b]) \cup Held(b)) = {}

\* The packet x did not come after y on the same socket.
Earlier == {p \in NetPackets \X NetPackets : p[1][1] = p[2][1] => p[1][2] < p[2][2]}

HeldByTx == IF tx \in {"item", "write"} THEN Rest(rOut["tx"].list, txIndex) ELSE {}

\* The packet has arrived, and before any that its receiver is about to push.
Arrived(x) ==
    /\ x[2] <= netRead
    /\ rcv[x[1]] = "push" => x[2] < got[x[1]]

\* The packets of the sockets on their way.
ReceiveOrder ==
    /\ Ordered(rq, Earlier) /\ Ordered(delivered, Earlier)
    /\ rOut["tx"].list # NULL => Ordered(rOut["tx"].list, Earlier)
    /\ \A x \in Elements(rq) \cup Elements(delivered) \cup HeldByTx : Arrived(x)
    /\ \A x \in Elements(delivered) \cup HeldByTx, y \in Elements(rq) : <<x, y>> \in Earlier
    /\ \A x \in Elements(delivered), y \in HeldByTx : <<x, y>> \in Earlier

DataPlaneInv ==
    /\ TypeOK /\ ResultTypes /\ Pushing
    /\ Phases /\ Lists
    /\ SendOrder /\ ReceiveOrder

-----------------------------------------------------------------------------
(* What the operations of the queues do.                                   *)

\* A prefix of a sequence and what is left.
LEMMA Split ==
    ASSUME NEW S, NEW q \in Seq(S), NEW k \in 0 .. Len(q)
    PROVE  /\ SubSeq(q, 1, k) \in Seq(S) /\ Len(SubSeq(q, 1, k)) = k
           /\ \A i \in 1 .. k : SubSeq(q, 1, k)[i] = q[i]
           /\ SubSeq(q, k + 1, Len(q)) \in Seq(S)
           /\ Len(SubSeq(q, k + 1, Len(q))) = Len(q) - k
           /\ \A i \in 1 .. Len(q) - k : SubSeq(q, k + 1, Len(q))[i] = q[k + i]
  <1>1. Len(q) \in Nat /\ \A i \in 1 .. Len(q) : q[i] \in S
    BY LenProperties, ElementOfSeq
  <1>2. k \in Int /\ k + 1 \in Int /\ Len(q) \in Int /\ 1 \in Int
    BY <1>1
  <1>3. \A i \in 1 .. k : q[i] \in S
    BY <1>1
  <1>4. \A i \in k + 1 .. Len(q) : q[i] \in S
    BY <1>1
  <1>5. /\ SubSeq(q, 1, k) \in Seq(S)
        /\ Len(SubSeq(q, 1, k)) = IF 1 <= k THEN k - 1 + 1 ELSE 0
        /\ \A i \in 1 .. k - 1 + 1 : SubSeq(q, 1, k)[i] = q[1 + i - 1]
    BY <1>2, <1>3, SubSeqProperties
  <1>6. /\ SubSeq(q, k + 1, Len(q)) \in Seq(S)
        /\ Len(SubSeq(q, k + 1, Len(q))) =
             IF k + 1 <= Len(q) THEN Len(q) - (k + 1) + 1 ELSE 0
        /\ \A i \in 1 .. Len(q) - (k + 1) + 1 :
              SubSeq(q, k + 1, Len(q))[i] = q[(k + 1) + i - 1]
    BY <1>2, <1>4, SubSeqProperties
  <1> QED
    BY <1>1, <1>2, <1>5, <1>6

\* popSize takes a nonempty prefix of sendingPacketQueue.
LEMMA SendTake ==
    ASSUME TypeOK, NEW a \in Adapters, SendQ!Take(a)
    PROVE  \E k \in 1 .. Len(sq) :
              /\ sOut' = [sOut EXCEPT ![a] =
                            [done |-> TRUE, list |-> SubSeq(sq, 1, k), n |-> k]]
              /\ sq' = SubSeq(sq, k + 1, Len(sq))
              /\ ~sReleased /\ sReleased' = sReleased
  <1> DEFINE k == IF Len(sq) < batch THEN Len(sq) ELSE batch
  <1>1. sq \in Seq(TunPackets) /\ Len(sq) \in Nat /\ sq # <<>>
    BY DEF TypeOK, SendQ!Take
  <1>2. k \in 1 .. Len(sq)
    BY <1>1, EmptySeq, DataPlaneAssumption
  <1>3. /\ sOut' = [sOut EXCEPT ![a] =
                      [done |-> TRUE, list |-> SubSeq(sq, 1, k), n |-> Len(SubSeq(sq, 1, k))]]
        /\ sq' = SubSeq(sq, k + 1, Len(sq))
        /\ ~sReleased /\ sReleased' = sReleased
    BY DEF SendQ!Take, SendQ!Taken, SendQ!TakeCount, SendMax
  <1> HIDE DEF k
  <1>4. Len(SubSeq(sq, 1, k)) = k
    BY <1>1, <1>2, Split
  <1> QED
    BY <1>2, <1>3, <1>4

\* popAll takes a nonempty prefix of recievingPacketQueue.
LEMMA RecvTake ==
    ASSUME TypeOK, NEW c \in Tx, RecvQ!Take(c)
    PROVE  \E k \in 1 .. Len(rq) :
              /\ rOut' = [rOut EXCEPT !["tx"] =
                            [done |-> TRUE, list |-> SubSeq(rq, 1, k), n |-> k]]
              /\ rq' = SubSeq(rq, k + 1, Len(rq))
              /\ ~rReleased /\ rReleased' = rReleased
  <1> DEFINE k == IF Len(rq) < QueueBound THEN Len(rq) ELSE QueueBound
  <1>1. rq \in Seq(NetPackets) /\ Len(rq) \in Nat /\ rq # <<>>
    BY DEF TypeOK, RecvQ!Take
  <1>2. k \in 1 .. Len(rq)
    BY <1>1, EmptySeq, DataPlaneAssumption
  <1>3. /\ rOut' = [rOut EXCEPT !["tx"] =
                      [done |-> TRUE, list |-> SubSeq(rq, 1, k), n |-> Len(SubSeq(rq, 1, k))]]
        /\ rq' = SubSeq(rq, k + 1, Len(rq))
        /\ ~rReleased /\ rReleased' = rReleased
    BY DEF RecvQ!Take, RecvQ!Taken, RecvQ!TakeCount, RecvMax, Tx
  <1> HIDE DEF k
  <1>4. Len(SubSeq(rq, 1, k)) = k
    BY <1>1, <1>2, Split
  <1> QED
    BY <1>2, <1>3, <1>4

\* The other results of the queues' calls.
LEMMA OtherResults ==
    /\ \A a \in Adapters : SendQ!Refuse(a) =>
          /\ sReleased /\ UNCHANGED <<sq, sReleased>>
          /\ \E n \in Nat : sOut' = [sOut EXCEPT ![a] = [done |-> TRUE, list |-> NULL, n |-> n]]
    /\ \A a \in Adapters : SendQ!Use(a) =>
          /\ UNCHANGED <<sq, sReleased>>
          /\ sOut' = [sOut EXCEPT ![a] = [done |-> FALSE, list |-> <<>>, n |-> 0]]
    /\ \A c \in Tx : RecvQ!Refuse(c) =>
          /\ rReleased /\ UNCHANGED <<rq, rReleased>>
          /\ \E n \in Nat : rOut' = [rOut EXCEPT !["tx"] = [done |-> TRUE, list |-> NULL, n |-> n]]
    /\ \A c \in Tx : RecvQ!Use(c) =>
          /\ UNCHANGED <<rq, rReleased>>
          /\ rOut' = [rOut EXCEPT !["tx"] = [done |-> FALSE, list |-> <<>>, n |-> 0]]
  BY DEF SendQ!Refuse, SendQ!Refused, SendQ!Use, SendQ!NoResult,
         RecvQ!Refuse, RecvQ!Refused, RecvQ!Use, RecvQ!NoResult, Garbage, Tx

-----------------------------------------------------------------------------
(* Types, phases and lists.                                                *)

SafeInv == TypeOK /\ ResultTypes /\ Pushing /\ Phases /\ Lists

LEMMA SafeInit == Init => SafeInv
  <1> SUFFICES ASSUME Init PROVE SafeInv
    OBVIOUS
  <1> USE DataPlaneAssumption DEF Init, SendQ!Init, SendQ!NoResult, RecvQ!Init, RecvQ!NoResult
  <1>1. TypeOK
    <2>1. <<>> \in Seq(TunPackets) /\ <<>> \in Seq(NetPackets) /\ Len(<<>>) = 0
      BY EmptySeq
    <2>2. /\ sq \in Seq(TunPackets) /\ Len(sq) <= QueueBound
          /\ rq \in Seq(NetPackets) /\ Len(rq) <= QueueBound
          /\ sent \in [Adapters -> Seq(TunPackets)] /\ delivered \in Seq(NetPackets)
      BY <2>1
    <2>3. /\ isRunning \in BOOLEAN /\ quitEvent \in BOOLEAN /\ open \subseteq Resources
          /\ sReleased \in BOOLEAN /\ rReleased \in BOOLEAN
      BY DEF Resources
    <2>4. /\ runFor \in Int /\ runFor <= RunFor
          /\ tunRead \in 0 .. MaxTun /\ netRead \in 0 .. MaxNet
          /\ got \in [Adapters -> 0 .. MaxNet]
      OBVIOUS
    <2> QED
      BY <2>2, <2>3, <2>4 DEF TypeOK
  <1>2. ResultTypes
    BY EmptySeq DEF ResultTypes, Results
  <1>3. Lists
    <2>1. <<>> # NULL /\ Len(<<>>) = 0
      BY NullAssumption, EmptySeq
    <2> QED
      BY <2>1 DEF Lists, Tx
  <1>4. Pushing /\ Phases
    BY DEF Pushing, Phases, Resources
  <1> QED
    BY <1>1, <1>2, <1>3, <1>4 DEF SafeInv

\* ReceivePackets.
LEMMA SafeRx ==
    ASSUME SafeInv, RxStep \/ RxReadEvent
    PROVE  SafeInv'
  <1> USE DataPlaneAssumption
      DEF OnlyRx, ctlVars, sendQueue, recvQueue, txVars, sndVars, rcvVars, SafeInv
  <1>1. CASE RxPush
    <2>1. tunRead \in TunPackets
      BY <1>1 DEF RxPush, Pushing, TypeOK, TunPackets
    <2>2. sq' \in Seq(TunPackets) /\ Len(sq') <= QueueBound
      <3>1. /\ sq' = IF Len(sq) < QueueBound THEN Append(sq, tunRead) ELSE sq
            /\ sq \in Seq(TunPackets) /\ Len(sq) <= QueueBound
        BY <1>1 DEF RxPush, SendQ!Push, TypeOK
      <3>2. Append(sq, tunRead) \in Seq(TunPackets) /\ Len(Append(sq, tunRead)) = Len(sq) + 1
        BY <2>1, <3>1, AppendProperties
      <3>3. Len(sq) \in Nat
        BY <3>1, LenProperties
      <3> QED
        BY <3>1, <3>2, <3>3
    <2>3. UNCHANGED <<sReleased, sOut>>
      BY <1>1 DEF RxPush, SendQ!Push
    <2>4. TypeOK'
      BY <1>1, <2>2, <2>3 DEF RxPush, TypeOK
    <2>5. ResultTypes' /\ Pushing' /\ Phases' /\ Lists'
      BY <1>1, <2>3 DEF RxPush, ResultTypes, Pushing, Phases, AllDone, Lists
    <2> QED
      BY <2>4, <2>5
  <1>2. CASE \/ RxLoop \/ RxPacket \/ RxNoMoreItems \/ RxError \/ RxQuitEvent
             \/ RxReadEvent
    <2>1. TypeOK'
      BY <1>2 DEF RxLoop, RxPacket, RxNoMoreItems, RxError, RxQuitEvent, RxReadEvent, TypeOK
    <2>2. Pushing' /\ ResultTypes'
      <3>1. UNCHANGED <<rcv, got, netRead, sOut, rOut, sndIndex, txIndex>>
        BY <1>2 DEF RxLoop, RxPacket, RxNoMoreItems, RxError, RxQuitEvent, RxReadEvent
      <3>2. rx' = "push" => tunRead' # 0
        BY <1>2 DEF RxLoop, RxPacket, RxNoMoreItems, RxError, RxQuitEvent, RxReadEvent, TypeOK
      <3> QED
        BY <3>1, <3>2 DEF Pushing, ResultTypes
    <2>3. Phases'
      BY <1>2 DEF RxLoop, RxPacket, RxNoMoreItems, RxError, RxQuitEvent, RxReadEvent,
                  Phases, AllDone
    <2>4. Lists'
      BY <1>2 DEF RxLoop, RxPacket, RxNoMoreItems, RxError, RxQuitEvent, RxReadEvent, Lists
    <2> QED
      BY <2>1, <2>2, <2>3, <2>4
  <1> QED
    BY <1>1, <1>2 DEF RxStep

\* SendPackets.
LEMMA SafeTx ==
    ASSUME SafeInv, TxStep
    PROVE  SafeInv'
  <1> USE DEF OnlyTx, ctlVars, sendQueue, recvQueue, rxVars, sndVars, rcvVars, SafeInv
  <1>0. rOut["tx"] \in Results(NetPackets) /\ rOut["tx"].n \in Nat /\ txIndex \in Nat \ {0}
    BY DEF ResultTypes, Results, Tx
  <1>1. CASE TxLoop \/ TxItem
    <2>1. TypeOK' /\ ResultTypes' /\ Pushing'
      BY <1>1 DEF TxLoop, TxItem, TypeOK, ResultTypes, Pushing
    <2>2. Phases'
      BY <1>1 DEF TxLoop, TxItem, Phases, AllDone
    <2>3. Lists'
      BY <1>1 DEF TxLoop, TxItem, Lists, Phases
    <2> QED
      BY <2>1, <2>2, <2>3
  <1>2. CASE TxPop
    <2>1. PICK c \in Tx : RecvQ!Take(c) \/ RecvQ!Refuse(c)
      BY <1>2 DEF TxPop
    <2>2. CASE RecvQ!Take(c)
      <3>1. PICK k \in 1 .. Len(rq) :
               /\ rOut' = [rOut EXCEPT !["tx"] =
                             [done |-> TRUE, list |-> SubSeq(rq, 1, k), n |-> k]]
               /\ rq' = SubSeq(rq, k + 1, Len(rq))
               /\ rReleased' = rReleased
        BY <2>2, RecvTake
      <3>2. rq \in Seq(NetPackets) /\ Len(rq) \in Nat /\ Len(rq) <= QueueBound
        BY LenProperties DEF TypeOK
      <3>3. /\ SubSeq(rq, 1, k) \in Seq(NetPackets) /\ Len(SubSeq(rq, 1, k)) = k
            /\ rq' \in Seq(NetPackets) /\ Len(rq') = Len(rq) - k
        BY <3>1, <3>2, Split
      <3>4. TypeOK'
        <4>1. Len(rq') <= QueueBound
          BY <3>2, <3>3, DataPlaneAssumption
        <4> QED
          BY <1>2, <3>1, <3>3, <4>1 DEF TxPop, TypeOK
      <3>5. rOut' \in [Tx -> Results(NetPackets)]
        <4>1. [done |-> TRUE, list |-> SubSeq(rq, 1, k), n |-> k] \in Results(NetPackets)
          BY <3>2, <3>3 DEF Results
        <4> QED
          BY <3>1, <4>1 DEF ResultTypes
      <3>6. ResultTypes' /\ Pushing' /\ Phases'
        BY <1>2, <3>1, <3>5 DEF TxPop, ResultTypes, Pushing, Phases, AllDone
      <3>7. rOut'["tx"].list # NULL /\ rOut'["tx"].n = Len(rOut'["tx"].list)
        BY <3>1, <3>3, NullAssumption DEF ResultTypes, Tx
      <3>8. Lists'
        BY <1>2, <3>7 DEF TxPop, Lists
      <3> QED
        BY <3>4, <3>6, <3>8
    <2>3. CASE RecvQ!Refuse(c)
      <3>1. PICK n \in Nat :
               rOut' = [rOut EXCEPT !["tx"] = [done |-> TRUE, list |-> NULL, n |-> n]]
        BY <2>3, OtherResults
      <3>2. rReleased /\ UNCHANGED <<rq, rReleased>>
        BY <2>3, OtherResults
      <3>3. rOut' \in [Tx -> Results(NetPackets)] /\ rOut'["tx"].list = NULL
        BY <3>1 DEF ResultTypes, Results, Tx
      <3> QED
        BY <1>2, <3>2, <3>3
           DEF TxPop, TypeOK, ResultTypes, Pushing, Phases, AllDone, Lists
    <2> QED
      BY <2>1, <2>2, <2>3
  <1>3. CASE TxListDone
    <2>1. /\ UNCHANGED <<rq, rReleased>>
          /\ rOut' = [rOut EXCEPT !["tx"] = [done |-> FALSE, list |-> <<>>, n |-> 0]]
      BY <1>3, OtherResults DEF TxListDone
    <2>2. /\ rOut' \in [Tx -> Results(NetPackets)]
          /\ rOut'["tx"].n = 0 /\ rOut'["tx"].list = <<>>
      BY <2>1, EmptySeq DEF ResultTypes, Results, Tx
    <2> QED
      BY <1>3, <2>1, <2>2, EmptySeq
         DEF TxListDone, TypeOK, ResultTypes, Pushing, Phases, AllDone, Lists
  <1>4. CASE TxWrite
    <2>1. /\ rOut["tx"].list \in Seq(NetPackets) /\ txIndex \in 1 .. Len(rOut["tx"].list)
          /\ rOut["tx"].n = Len(rOut["tx"].list)
      BY <1>0, <1>4 DEF TxWrite, Lists, Results
    <2>2. rOut["tx"].list[txIndex] \in NetPackets
      BY <2>1, ElementOfSeq
    <2>3. delivered' \in Seq(NetPackets)
      <3>1. delivered \in Seq(NetPackets)
        BY DEF TypeOK
      <3>2. Append(delivered, rOut["tx"].list[txIndex]) \in Seq(NetPackets)
        BY <2>2, <3>1, AppendProperties
      <3> QED
        BY <1>4, <3>1, <3>2 DEF TxWrite
    <2>4. TypeOK' /\ ResultTypes' /\ Pushing'
      BY <1>0, <1>4, <2>3 DEF TxWrite, TypeOK, ResultTypes, Pushing
    <2> QED
      BY <1>4, <2>4 DEF TxWrite, Phases, AllDone, Lists
  <1> QED
    BY <1>1, <1>2, <1>3, <1>4 DEF TxStep

\* WorkSocket of a sender.
LEMMA SafeSnd ==
    ASSUME SafeInv, NEW a \in Adapters, SndStep(a) \/ SndWouldBlock(a)
    PROVE  SafeInv'
  <1> USE DEF OnlySnd, ctlVars, sendQueue, recvQueue, rxVars, txVars, rcvVars, SafeInv
  <1>0. /\ sOut[a] \in Results(TunPackets) /\ sOut[a].n \in Nat
        /\ sndIndex[a] \in Nat \ {0}
        /\ sndIndex \in [Adapters -> Nat \ {0}]
        /\ snd \in [Adapters -> {"loop", "pop", "check", "send", "done"}]
    BY DEF ResultTypes, Results, TypeOK
  <1>1. CASE SndLoop(a) \/ SndCheck(a) \/ SndError(a) \/ SndWouldBlock(a)
    <2>1. TypeOK'
      <3>1. snd' \in [Adapters -> {"loop", "pop", "check", "send", "done"}]
        BY <1>0, <1>1 DEF SndLoop, SndCheck, SndError, SndWouldBlock
      <3>2. UNCHANGED <<ctlVars, sendQueue, recvQueue, rxVars, txVars, rcvVars, sndIndex, sent>>
        BY <1>1 DEF SndLoop, SndCheck, SndError, SndWouldBlock
      <3> QED
        BY <3>1, <3>2 DEF TypeOK
    <2>2. ResultTypes' /\ Pushing'
      BY <1>1 DEF SndLoop, SndCheck, SndError, SndWouldBlock, ResultTypes, Pushing
    <2>3. Phases'
      BY <1>0, <1>1 DEF SndLoop, SndCheck, SndError, SndWouldBlock, Phases, AllDone
    <2>4. Lists'
      BY <1>0, <1>1 DEF SndLoop, SndCheck, SndError, SndWouldBlock, Lists, Phases
    <2> QED
      BY <2>1, <2>2, <2>3, <2>4
  <1>2. CASE SndPop(a)
    <2>1. CASE SendQ!Take(a)
      <3>1. PICK k \in 1 .. Len(sq) :
               /\ sOut' = [sOut EXCEPT ![a] =
                             [done |-> TRUE, list |-> SubSeq(sq, 1, k), n |-> k]]
               /\ sq' = SubSeq(sq, k + 1, Len(sq))
               /\ sReleased' = sReleased
        BY <2>1, SendTake
      <3>2. sq \in Seq(TunPackets) /\ Len(sq) \in Nat /\ Len(sq) <= QueueBound
        BY LenProperties DEF TypeOK
      <3>3. /\ SubSeq(sq, 1, k) \in Seq(TunPackets) /\ Len(SubSeq(sq, 1, k)) = k
            /\ sq' \in Seq(TunPackets) /\ Len(sq') = Len(sq) - k
        BY <3>1, <3>2, Split
      <3>4. TypeOK'
        <4>1. Len(sq') <= QueueBound
          BY <3>2, <3>3, DataPlaneAssumption
        <4> QED
          BY <1>2, <3>1, <3>3, <4>1 DEF SndPop, TypeOK
      <3>5. sOut' \in [Adapters -> Results(TunPackets)]
        <4>1. [done |-> TRUE, list |-> SubSeq(sq, 1, k), n |-> k] \in Results(TunPackets)
          BY <3>2, <3>3 DEF Results
        <4> QED
          BY <3>1, <4>1 DEF ResultTypes
      <3>6. ResultTypes' /\ Pushing' /\ Phases'
        BY <1>0, <1>2, <3>1, <3>5 DEF SndPop, ResultTypes, Pushing, Phases, AllDone
      <3>7. sOut'[a].list # NULL /\ sOut'[a].n = Len(sOut'[a].list)
        BY <3>1, <3>3, NullAssumption DEF ResultTypes
      <3>8. \A b \in Adapters : b # a => sOut'[b] = sOut[b]
        BY <3>1 DEF ResultTypes
      <3>9. Lists'
        BY <1>0, <1>2, <3>1, <3>7, <3>8 DEF SndPop, Lists
      <3> QED
        BY <3>4, <3>6, <3>9
    <2>2. CASE SendQ!Refuse(a)
      <3>1. PICK n \in Nat :
               sOut' = [sOut EXCEPT ![a] = [done |-> TRUE, list |-> NULL, n |-> n]]
        BY <2>2, OtherResults
      <3>2. sReleased /\ UNCHANGED <<sq, sReleased>>
        BY <2>2, OtherResults
      <3>3. /\ sOut' \in [Adapters -> Results(TunPackets)] /\ sOut'[a].list = NULL
            /\ \A b \in Adapters : b # a => sOut'[b] = sOut[b]
        BY <3>1 DEF ResultTypes, Results
      <3>4. TypeOK'
        BY <1>0, <1>2, <3>2 DEF SndPop, TypeOK
      <3>5. ResultTypes' /\ Pushing'
        BY <1>2, <3>3 DEF SndPop, ResultTypes, Pushing
      <3>6. Phases'
        BY <1>0, <1>2, <3>2 DEF SndPop, Phases, AllDone
      <3>7. Lists'
        BY <1>0, <1>2, <3>2, <3>3 DEF SndPop, Lists
      <3> QED
        BY <3>4, <3>5, <3>6, <3>7
    <2> QED
      BY <1>2, <2>1, <2>2 DEF SndPop
  <1>3. CASE SndListDone(a)
    <2>1. /\ UNCHANGED <<sq, sReleased>>
          /\ sOut' = [sOut EXCEPT ![a] = [done |-> FALSE, list |-> <<>>, n |-> 0]]
      BY <1>3, OtherResults DEF SndListDone
    <2>2. /\ sOut' \in [Adapters -> Results(TunPackets)]
          /\ sOut'[a].n = 0 /\ sOut'[a].list = <<>>
          /\ \A b \in Adapters : b # a => sOut'[b] = sOut[b]
      <3>1. [done |-> FALSE, list |-> <<>>, n |-> 0] \in Results(TunPackets)
        BY EmptySeq DEF Results
      <3> QED
        BY <2>1, <3>1 DEF ResultTypes
    <2>3. TypeOK' /\ ResultTypes' /\ Pushing'
      BY <1>0, <1>3, <2>1, <2>2 DEF SndListDone, TypeOK, ResultTypes, Pushing
    <2>4. Phases'
      BY <1>0, <1>3, <2>1 DEF SndListDone, Phases, AllDone
    <2>5. Lists'
      BY <1>0, <1>3, <2>1, <2>2, EmptySeq DEF SndListDone, Lists
    <2> QED
      BY <2>3, <2>4, <2>5
  <1>4. CASE SndAccepted(a)
    <2>1. sOut[a].list \in Seq(TunPackets) /\ sndIndex[a] \in 1 .. Len(sOut[a].list)
      BY <1>0, <1>4 DEF SndAccepted, Lists, Results
    <2>2. sOut[a].list[sndIndex[a]] \in TunPackets
      BY <2>1, ElementOfSeq
    <2>3. sent' \in [Adapters -> Seq(TunPackets)]
      <3>1. sent \in [Adapters -> Seq(TunPackets)]
        BY DEF TypeOK
      <3>2. Append(sent[a], sOut[a].list[sndIndex[a]]) \in Seq(TunPackets)
        BY <2>2, <3>1, AppendProperties
      <3> QED
        BY <1>4, <3>1, <3>2 DEF SndAccepted
    <2>4. TypeOK' /\ ResultTypes' /\ Pushing'
      BY <1>0, <1>4, <2>3 DEF SndAccepted, TypeOK, ResultTypes, Pushing
    <2>5. Phases'
      BY <1>4 DEF SndAccepted, Phases, AllDone
    <2>6. Lists'
      BY <1>0, <1>4 DEF SndAccepted, Lists
    <2> QED
      BY <2>4, <2>5, <2>6
  <1> QED
    BY <1>1, <1>2, <1>3, <1>4 DEF SndStep

\* WorkSocket of a receiver.
LEMMA SafeRcv ==
    ASSUME SafeInv, NEW a \in Adapters, RcvStep(a)
    PROVE  SafeInv'
  <1> USE DEF OnlyRcv, ctlVars, sendQueue, recvQueue, rxVars, txVars, sndVars, SafeInv
  <1>1. CASE RcvPush(a)
    <2>1. <<a, got[a]>> \in NetPackets
      BY <1>1 DEF RcvPush, Pushing, TypeOK, NetPackets
    <2>2. rq' \in Seq(NetPackets) /\ Len(rq') <= QueueBound
      <3>1. /\ rq' = IF Len(rq) < QueueBound THEN Append(rq, <<a, got[a]>>) ELSE rq
            /\ rq \in Seq(NetPackets) /\ Len(rq) <= QueueBound
        BY <1>1 DEF RcvPush, RecvQ!Push, TypeOK
      <3>2. /\ Append(rq, <<a, got[a]>>) \in Seq(NetPackets)
            /\ Len(Append(rq, <<a, got[a]>>)) = Len(rq) + 1
        BY <2>1, <3>1, AppendProperties
      <3>3. Len(rq) \in Nat
        BY <3>1, LenProperties
      <3> QED
        BY <3>1, <3>2, <3>3, DataPlaneAssumption
    <2>3. UNCHANGED <<rReleased, rOut>>
      BY <1>1 DEF RcvPush, RecvQ!Push
    <2>4. TypeOK'
      BY <1>1, <2>2, <2>3, DataPlaneAssumption DEF RcvPush, TypeOK
    <2>5. ResultTypes' /\ Pushing'
      BY <1>1, <2>3 DEF RcvPush, ResultTypes, Pushing, TypeOK
    <2>6. Phases' /\ Lists'
      BY <1>1, <2>3 DEF RcvPush, Phases, AllDone, Lists, TypeOK
    <2> QED
      BY <2>4, <2>5, <2>6
  <1>2. CASE RcvPacket(a)
    <2>1. netRead + 1 \in 1 .. MaxNet
      BY <1>2, DataPlaneAssumption DEF RcvPacket, TypeOK
    <2>2. TypeOK'
      BY <1>2, <2>1 DEF RcvPacket, TypeOK
    <2>3. ResultTypes' /\ Pushing'
      BY <1>2, <2>1 DEF RcvPacket, ResultTypes, Pushing, TypeOK
    <2>4. Phases' /\ Lists'
      BY <1>2 DEF RcvPacket, Phases, AllDone, Lists, TypeOK
    <2> QED
      BY <2>2, <2>3, <2>4
  <1>3. CASE \/ RcvLoop(a) \/ RcvTimeout(a) \/ RcvReadable(a) \/ RcvNothing(a)
             \/ RcvError(a) \/ RcvCheck(a)
    <2>1. /\ \E l \in {"loop", "select", "recvfrom", "done"} : rcv' = [rcv EXCEPT ![a] = l]
          /\ rcv[a] # "done"
          /\ UNCHANGED <<ctlVars, sendQueue, recvQueue, rxVars, txVars, sndVars, got, netRead>>
      BY <1>3 DEF RcvLoop, RcvTimeout, RcvReadable, RcvNothing, RcvError, RcvCheck
    <2>2. TypeOK'
      BY <2>1 DEF TypeOK
    <2>3. ResultTypes' /\ Pushing'
      BY <2>1 DEF ResultTypes, Pushing, TypeOK
    <2>4. Phases' /\ Lists'
      BY <2>1 DEF Phases, AllDone, Lists, TypeOK
    <2> QED
      BY <2>2, <2>3, <2>4
  <1> QED
    BY <1>1, <1>2, <1>3 DEF RcvStep

\* Application::shutdown.
LEMMA SafeShutdown ==
    ASSUME SafeInv, ShutdownBegin \/ ShutdownStep
    PROVE  SafeInv'
  <1> USE DEF sendQueue, recvQueue, rxVars, txVars, sndVars, rcvVars, workerVars, SafeInv
  <1>1. CASE ShutdownBegin \/ StopRunning \/ SetQuitEvent
    <2>1. TypeOK'
      BY <1>1 DEF ShutdownBegin, StopRunning, SetQuitEvent, TypeOK
    <2>2. ResultTypes' /\ Pushing'
      BY <1>1 DEF ShutdownBegin, StopRunning, SetQuitEvent, ResultTypes, Pushing
    <2>3. Phases'
      BY <1>1 DEF ShutdownBegin, StopRunning, SetQuitEvent, Phases, AllDone
    <2>4. Lists'
      BY <1>1 DEF ShutdownBegin, StopRunning, SetQuitEvent, Lists
    <2> QED
      BY <2>1, <2>2, <2>3, <2>4
  <1>2. CASE ReleaseSending \/ ReleaseRecieving
    <2> USE DEF ReleaseSending, ReleaseRecieving, SendQ!Release, RecvQ!Release
    <2>1. TypeOK'
      BY <1>2 DEF TypeOK
    <2>2. ResultTypes' /\ Pushing'
      BY <1>2 DEF ResultTypes, Pushing
    <2>3. Phases'
      BY <1>2 DEF Phases, AllDone
    <2>4. Lists'
      BY <1>2 DEF Lists
    <2> QED
      BY <2>1, <2>2, <2>3, <2>4
  <1>3. CASE clearWorkers
    BY <1>3 DEF clearWorkers, TypeOK, ResultTypes, Pushing, Phases, AllDone, Lists
  <1>4. CASE \/ closeSockets \/ WintunEndSession \/ WintunFreeAdapter
             \/ CloseQuitEvent \/ ReleaseConf
    BY <1>4 DEF closeSockets, WintunEndSession, WintunFreeAdapter, CloseQuitEvent,
                ReleaseConf, Free, TypeOK, ResultTypes, Pushing, Phases, AllDone, Lists
  <1> QED
    BY <1>1, <1>2, <1>3, <1>4 DEF ShutdownStep

LEMMA SafeStep == SafeInv /\ [Next]_vars => SafeInv'
  <1> SUFFICES ASSUME SafeInv, [Next]_vars PROVE SafeInv'
    OBVIOUS
  <1>1. CASE UNCHANGED vars
    BY <1>1 DEF vars, ctlVars, sendQueue, recvQueue, rxVars, txVars, sndVars, rcvVars,
                SafeInv, TypeOK, ResultTypes, Pushing, Phases, AllDone, Lists
  <1> QED
    BY <1>1, SafeRx, SafeTx, SafeSnd, SafeRcv, SafeShutdown DEF Next, Down

\* The state of a run, the queues and the threads keep their types.
THEOREM DataPlaneTypes == Spec => []TypeOK
  <1>1. SafeInv => TypeOK
    BY DEF SafeInv
  <1> QED
    BY <1>1, SafeInit, SafeStep, PTL DEF Spec

\* No worker looks into the null pointer of a released queue or behind the end
\* of its list.
THEOREM DataPlaneNoNull == Spec => []NoNullList
  <1>1. SafeInv => NoNullList
    <2> SUFFICES ASSUME SafeInv PROVE NoNullList
      OBVIOUS
    <2>1. ASSUME tx = "write"
          PROVE  rOut["tx"].list # NULL /\ txIndex \in DOMAIN rOut["tx"].list
      <3>1. rOut["tx"].list # NULL /\ txIndex <= Len(rOut["tx"].list) /\ txIndex \in Nat \ {0}
        BY <2>1 DEF SafeInv, Lists, ResultTypes
      <3>2. rOut["tx"].list \in Seq(NetPackets)
        BY <3>1 DEF SafeInv, ResultTypes, Results, Tx
      <3> QED
        BY <3>1, <3>2, LenProperties
    <2>2. ASSUME NEW a \in Adapters, snd[a] = "send", sndIndex[a] <= sOut[a].n
          PROVE  sOut[a].list # NULL /\ sndIndex[a] \in DOMAIN sOut[a].list
      <3>1. /\ sOut[a].list # NULL /\ sndIndex[a] <= Len(sOut[a].list)
            /\ sndIndex[a] \in Nat \ {0}
        BY <2>2 DEF SafeInv, Lists, ResultTypes
      <3>2. sOut[a].list \in Seq(TunPackets)
        BY <3>1 DEF SafeInv, ResultTypes, Results
      <3> QED
        BY <3>1, <3>2, LenProperties
    <2> QED
      BY <2>1, <2>2 DEF NoNullList
  <1> QED
    BY <1>1, SafeInit, SafeStep, PTL DEF Spec

\* shutdown() frees nothing that a worker may still use.
THEOREM DataPlaneNoUseAfterFree == Spec => []NoUseAfterFree
  <1>1. SafeInv => NoUseAfterFree
    BY DEF SafeInv, Phases, AllDone, NoUseAfterFree, Resources
  <1> QED
    BY <1>1, SafeInit, SafeStep, PTL DEF Spec

-----------------------------------------------------------------------------
(* Ordered sequences.                                                      *)

\* Appending an element that every other one is in relation to.
LEMMA AppendOrdered ==
    ASSUME NEW S, NEW s \in Seq(S), NEW x \in S, NEW R,
           Ordered(s, R), \A y \in Elements(s) : <<y, x>> \in R
    PROVE  /\ Ordered(Append(s, x), R)
           /\ Elements(Append(s, x)) = Elements(s) \cup {x}
  <1> DEFINE t == Append(s, x)
  <1>1. Len(s) \in Nat /\ DOMAIN s = 1 .. Len(s)
    BY LenProperties
  <1>2. /\ t \in Seq(S) /\ Len(t) = Len(s) + 1
        /\ \A i \in 1 .. Len(s) : t[i] = s[i]
        /\ t[Len(s) + 1] = x
    BY AppendProperties
  <1>3. DOMAIN t = 1 .. Len(s) + 1
    BY <1>2, LenProperties
  <1> HIDE DEF t
  <1>4. Ordered(t, R)
    <2> SUFFICES ASSUME NEW i \in 1 .. Len(s) + 1, NEW j \in 1 .. Len(s) + 1, i < j
                 PROVE  <<t[i], t[j]>> \in R
      BY <1>3 DEF Ordered
    <2>1. i \in 1 .. Len(s) /\ t[i] = s[i]
      BY <1>1, <1>2
    <2>2. CASE j = Len(s) + 1
      BY <1>1, <1>2, <2>1, <2>2 DEF Elements
    <2>3. CASE j # Len(s) + 1
      BY <1>1, <1>2, <2>1, <2>3 DEF Ordered
    <2> QED
      BY <2>2, <2>3
  <1>5. Elements(t) = Elements(s) \cup {x}
    <2>1. Elements(t) \subseteq Elements(s) \cup {x}
      BY <1>1, <1>2, <1>3 DEF Elements
    <2>2. x \in Elements(t)
      BY <1>1, <1>2, <1>3 DEF Elements
    <2>3. Elements(s) \subseteq Elements(t)
      <3> SUFFICES ASSUME NEW i \in 1 .. Len(s) PROVE s[i] \in Elements(t)
        BY <1>1 DEF Elements
      <3>1. i \in DOMAIN t /\ t[i] = s[i]
        BY <1>1, <1>2, <1>3
      <3> QED
        BY <3>1 DEF Elements
    <2> QED
      BY <2>1, <2>2, <2>3
  <1> QED
    BY <1>4, <1>5 DEF t

\* Taking a prefix of a queue.
LEMMA SplitOrdered ==
    ASSUME NEW S, NULL \notin Seq(S), NEW q \in Seq(S), NEW k \in 1 .. Len(q), NEW R,
           Ordered(q, R)
    PROVE  /\ Ordered(SubSeq(q, 1, k), R) /\ Ordered(SubSeq(q, k + 1, Len(q)), R)
           /\ Rest(SubSeq(q, 1, k), 1) \subseteq Elements(q)
           /\ Elements(SubSeq(q, k + 1, Len(q))) \subseteq Elements(q)
           /\ \A x \in Rest(SubSeq(q, 1, k), 1), y \in Elements(SubSeq(q, k + 1, Len(q))) :
                 <<x, y>> \in R
  <1> DEFINE head == SubSeq(q, 1, k)
             tail == SubSeq(q, k + 1, Len(q))
  <1>1. Len(q) \in Nat /\ DOMAIN q = 1 .. Len(q)
    BY LenProperties
  <1>2. /\ head \in Seq(S) /\ Len(head) = k
        /\ \A i \in 1 .. k : head[i] = q[i]
        /\ tail \in Seq(S) /\ Len(tail) = Len(q) - k
        /\ \A i \in 1 .. Len(q) - k : tail[i] = q[k + i]
    <2>1. k \in 0 .. Len(q)
      BY <1>1
    <2> QED
      BY <2>1, Split
  <1> HIDE DEF head, tail
  <1>3. DOMAIN head = 1 .. k /\ DOMAIN tail = 1 .. Len(q) - k
    BY <1>2, LenProperties
  <1>4. Ordered(head, R)
    <2> SUFFICES ASSUME NEW i \in 1 .. k, NEW j \in 1 .. k, i < j
                 PROVE  <<head[i], head[j]>> \in R
      BY <1>3 DEF Ordered
    <2>1. i \in DOMAIN q /\ j \in DOMAIN q
      BY <1>1
    <2> QED
      BY <1>2, <2>1 DEF Ordered
  <1>5. Ordered(tail, R)
    <2> SUFFICES ASSUME NEW i \in 1 .. Len(q) - k, NEW j \in 1 .. Len(q) - k, i < j
                 PROVE  <<tail[i], tail[j]>> \in R
      BY <1>3 DEF Ordered
    <2>1. k + i \in DOMAIN q /\ k + j \in DOMAIN q /\ k + i < k + j
      BY <1>1
    <2> QED
      BY <1>2, <2>1 DEF Ordered
  <1>6. \A x \in Rest(head, 1) : \E i \in 1 .. k : x = q[i]
    BY <1>2 DEF Rest
  <1>7. \A y \in Elements(tail) : \E j \in k + 1 .. Len(q) : y = q[j]
    <2> SUFFICES ASSUME NEW i \in 1 .. Len(q) - k
                 PROVE  \E j \in k + 1 .. Len(q) : tail[i] = q[j]
      BY <1>3 DEF Elements
    <2>1. k + i \in k + 1 .. Len(q)
      BY <1>1
    <2> QED
      BY <1>2, <2>1
  <1>8. ASSUME NEW x \in Rest(head, 1), NEW y \in Elements(tail)
        PROVE  <<x, y>> \in R
    <2>1. PICK i \in 1 .. k : x = q[i]
      BY <1>6
    <2>2. PICK j \in k + 1 .. Len(q) : y = q[j]
      BY <1>7
    <2>3. i \in DOMAIN q /\ j \in DOMAIN q /\ i < j
      BY <1>1
    <2> QED
      BY <2>1, <2>2, <2>3 DEF Ordered
  <1>9. Rest(head, 1) \subseteq Elements(q)
    BY <1>1, <1>6 DEF Elements
  <1>10. Elements(tail) \subseteq Elements(q)
    BY <1>1, <1>7 DEF Elements
  <1> QED
    BY <1>4, <1>5, <1>8, <1>9, <1>10 DEF head, tail

\* Handling the next packet of a list.
LEMMA RestStep ==
    ASSUME NEW S, NULL \notin Seq(S), NEW list \in Seq(S), NEW i \in 1 .. Len(list), NEW R,
           Ordered(list, R)
    PROVE  /\ list[i] \in Rest(list, i)
           /\ Rest(list, i + 1) \subseteq Rest(list, i)
           /\ \A y \in Rest(list, i + 1) : <<list[i], y>> \in R
  <1>1. Len(list) \in Nat /\ DOMAIN list = 1 .. Len(list)
    BY LenProperties
  <1>2. \A j \in Nat : Rest(list, j) = {list[l] : l \in j .. Len(list)}
    BY DEF Rest
  <1>3. ASSUME NEW y \in Rest(list, i + 1)
        PROVE  y \in Rest(list, i) /\ <<list[i], y>> \in R
    <2>1. PICK j \in i + 1 .. Len(list) : y = list[j]
      BY <1>2, <1>3
    <2>2. j \in DOMAIN list /\ i \in DOMAIN list /\ i < j /\ j \in i .. Len(list)
      BY <1>1
    <2> QED
      BY <1>2, <2>1, <2>2 DEF Ordered
  <1> QED
    BY <1>1, <1>2, <1>3

-----------------------------------------------------------------------------
(* From the TUN device to the sockets.                                     *)

LEMMA SendOrderInit == Init => SendOrder
  <1> SUFFICES ASSUME Init PROVE SendOrder
    OBVIOUS
  <1>1. /\ sq = <<>> /\ \A a \in Adapters : sent[a] = <<>> /\ snd[a] = "loop"
        /\ \A a \in Adapters : sOut[a].list = <<>>
    BY DEF Init, SendQ!Init, SendQ!NoResult
  <1>2. Elements(<<>>) = {} /\ Ordered(<<>>, Older)
    BY DEF Elements, Ordered
  <1> QED
    BY <1>1, <1>2 DEF SendOrder, Held

\* The packets on their way are packets of the TUN device.
LEMMA SendElements ==
    ASSUME SafeInv
    PROVE  /\ Elements(sq) \subseteq TunPackets
           /\ \A a \in Adapters : Elements(sent[a]) \subseteq TunPackets
           /\ \A a \in Adapters : Held(a) \subseteq TunPackets
  <1>1. ASSUME NEW s \in Seq(TunPackets)
        PROVE  Elements(s) \subseteq TunPackets
    BY LenProperties, ElementOfSeq DEF Elements
  <1>2. ASSUME NEW a \in Adapters
        PROVE  Held(a) \subseteq TunPackets
    <2> SUFFICES ASSUME sOut[a].list # NULL
                 PROVE  Rest(sOut[a].list, sndIndex[a]) \subseteq TunPackets
      BY DEF Held, Rest
    <2>1. sOut[a].list \in Seq(TunPackets) /\ sndIndex[a] \in Nat \ {0}
      BY DEF SafeInv, ResultTypes, Results
    <2>2. Len(sOut[a].list) \in Nat /\ \A j \in 1 .. Len(sOut[a].list) : sOut[a].list[j] \in TunPackets
      BY <2>1, LenProperties, ElementOfSeq
    <2>3. sndIndex[a] .. Len(sOut[a].list) \subseteq 1 .. Len(sOut[a].list)
      BY <2>1, <2>2
    <2> QED
      BY <2>2, <2>3 DEF Rest
  <1> QED
    BY <1>1, <1>2 DEF SafeInv, TypeOK

\* A step that queues and sends nothing, and after which the adapters hold no
\* more than before, keeps the order.
LEMMA SendShrinks ==
    ASSUME SafeInv, SendOrder, sq' = sq, sent' = sent,
           \A a \in Adapters : /\ Held(a)' \subseteq Held(a)
                               /\ sOut'[a].list # NULL => Ordered(sOut'[a].list, Older),
           \A x \in TunPackets : Read(x) => Read(x)'
    PROVE  SendOrder'
  <1>1. /\ \A x \in Elements(sq) : Read(x)'
        /\ \A a \in Adapters : \A x \in Elements(sent[a]) \cup Held(a) : Read(x)'
    BY SendElements DEF SendOrder
  <1>2. Elements(sq)' = Elements(sq) /\ Ordered(sq, Older)' = Ordered(sq, Older)
    BY DEF Elements, Ordered, Older
  <1>3. \A a \in Adapters : Elements(sent[a])' = Elements(sent[a])
    BY DEF Elements
  <1>4. \A a \in Adapters : Ordered(sent[a], Older)'
    BY DEF SendOrder, Ordered, Older
  <1>5. \A a \in Adapters : sOut'[a].list # NULL => Ordered(sOut[a].list, Older)'
    BY DEF Ordered, Older
  <1>6. \A a \in Adapters : \A x \in Elements(sent[a])' \cup Held(a)' :
           Read(x)' /\ \A y \in Elements(sq)' : <<x, y>> \in Older
    BY <1>1, <1>2, <1>3 DEF SendOrder
  <1>7. \A a \in Adapters : \A x \in Elements(sent[a])', y \in Held(a)' : <<x, y>> \in Older
    BY <1>3 DEF SendOrder
  <1>8. \A a, b \in Adapters : a # b =>
           (Elements(sent[a])' \cup Held(a)') \cap (Elements(sent[b])' \cup Held(b)') = {}
    BY <1>3 DEF SendOrder
  <1> QED
    BY <1>1, <1>2, <1>4, <1>5, <1>6, <1>7, <1>8 DEF SendOrder

\* ReceivePackets pushes a packet that is younger than all others.
LEMMA SendPush ==
    ASSUME SafeInv, SendOrder, RxPush
    PROVE  SendOrder'
  <1>1. /\ rx = "push" /\ rx' = "loop" /\ UNCHANGED <<tunRead, sent, snd, sndIndex, sOut>>
        /\ sq' = IF Len(sq) < QueueBound THEN Append(sq, tunRead) ELSE sq
    BY DEF RxPush, SendQ!Push, OnlyRx, sndVars
  <1>2. tunRead \in TunPackets /\ sq \in Seq(TunPackets)
    BY <1>1 DEF SafeInv, TypeOK, Pushing, TunPackets
  <1>3. \A x \in TunPackets : Read(x) => Read(x)' /\ <<x, tunRead>> \in Older
    BY <1>1, <1>2 DEF Read, Older
  <1>4. \A a \in Adapters : Held(a)' = Held(a) /\ Elements(sent[a])' = Elements(sent[a])
    BY <1>1 DEF Held, Rest, Elements
  <1>5. CASE sq' = sq
    BY <1>1, <1>3, <1>4, <1>5, SendShrinks DEF SendOrder
  <1>6. CASE sq' = Append(sq, tunRead)
    <2>1. \A y \in Elements(sq) : <<y, tunRead>> \in Older
      BY <1>3, SendElements DEF SendOrder
    <2>2. Ordered(sq', Older) /\ Elements(sq') = Elements(sq) \cup {tunRead}
      BY <1>2, <1>6, <2>1, AppendOrdered DEF SendOrder
    <2>3. Read(tunRead)'
      BY <1>1, <1>2 DEF Read, TunPackets
    <2>4. ASSUME NEW x \in Elements(sq') PROVE Read(x)'
      <3>1. CASE x \in Elements(sq)
        <4>1. x \in TunPackets /\ Read(x)
          BY <3>1, SendElements DEF SendOrder
        <4> QED
          BY <1>3, <4>1
      <3>2. CASE x = tunRead
        BY <1>1, <2>3, <3>2 DEF Read
      <3> QED
        BY <2>2, <3>1, <3>2
    <2>5. ASSUME NEW a \in Adapters, NEW x \in Elements(sent[a]) \cup Held(a)
          PROVE  Read(x)' /\ \A y \in Elements(sq') : <<x, y>> \in Older
      <3>1. x \in TunPackets /\ Read(x)
        BY <2>5, SendElements DEF SendOrder
      <3>2. \A y \in Elements(sq) : <<x, y>> \in Older
        BY <2>5 DEF SendOrder
      <3> QED
        BY <1>3, <2>2, <3>1, <3>2
    <2>6. \A a \in Adapters :
             /\ Ordered(sent'[a], Older)
             /\ sOut'[a].list # NULL => Ordered(sOut'[a].list, Older)
             /\ \A x \in Elements(sent[a])', y \in Held(a)' : <<x, y>> \in Older
      BY <1>1, <1>4 DEF SendOrder
    <2>7. \A a, b \in Adapters : a # b =>
             (Elements(sent[a])' \cup Held(a)') \cap (Elements(sent[b])' \cup Held(b)') = {}
      BY <1>4 DEF SendOrder
    <2>8. Elements(sq)' = Elements(sq') /\ Ordered(sq, Older)' = Ordered(sq', Older)
      BY DEF Elements, Ordered, Older
    <2>9. \A a \in Adapters :
             /\ Ordered(sent[a], Older)' = Ordered(sent'[a], Older)
             /\ Ordered(sOut[a].list, Older)' = Ordered(sOut'[a].list, Older)
      BY DEF Ordered, Older
    <2> QED
      BY <1>4, <2>2, <2>4, <2>5, <2>6, <2>7, <2>8, <2>9 DEF SendOrder
  <1> QED
    BY <1>1, <1>5, <1>6

\* A sender takes the oldest packets of the queue.
LEMMA SendTaken ==
    ASSUME SafeInv, SendOrder, NEW a \in Adapters, SndPop(a), SendQ!Take(a)
    PROVE  SendOrder'
  <1>1. PICK k \in 1 .. Len(sq) :
           /\ sOut' = [sOut EXCEPT ![a] =
                         [done |-> TRUE, list |-> SubSeq(sq, 1, k), n |-> k]]
           /\ sq' = SubSeq(sq, k + 1, Len(sq))
    BY SendTake DEF SafeInv
  <1> DEFINE head == SubSeq(sq, 1, k)
  <1>2. /\ snd[a] = "pop" /\ snd' = [snd EXCEPT ![a] = "check"] /\ sndIndex[a] = 1
        /\ UNCHANGED <<sent, sndIndex, rx, tunRead>>
    BY DEF SndPop, OnlySnd, rxVars, SafeInv, Lists
  <1>3. snd \in [Adapters -> {"loop", "pop", "check", "send", "done"}]
    BY DEF SafeInv, TypeOK
  <1>4. /\ Ordered(head, Older) /\ Ordered(sq', Older)
        /\ Rest(head, 1) \subseteq Elements(sq) /\ Elements(sq') \subseteq Elements(sq)
        /\ \A x \in Rest(head, 1), y \in Elements(sq') : <<x, y>> \in Older
    <2>1. sq \in Seq(TunPackets) /\ Ordered(sq, Older) /\ NULL \notin Seq(TunPackets)
      BY NullAssumption DEF SafeInv, TypeOK, SendOrder
    <2>2. /\ Ordered(SubSeq(sq, 1, k), Older) /\ Ordered(SubSeq(sq, k + 1, Len(sq)), Older)
          /\ Rest(SubSeq(sq, 1, k), 1) \subseteq Elements(sq)
          /\ Elements(SubSeq(sq, k + 1, Len(sq))) \subseteq Elements(sq)
          /\ \A x \in Rest(SubSeq(sq, 1, k), 1), y \in Elements(SubSeq(sq, k + 1, Len(sq))) :
                <<x, y>> \in Older
      BY <2>1, SplitOrdered
    <2> QED
      BY <1>1, <2>2
  <1> HIDE DEF head
  <1>5. /\ sOut'[a].list = head /\ Held(a) = {} /\ Held(a)' = Rest(head, 1)
        /\ \A b \in Adapters : b # a => sOut'[b] = sOut[b] /\ Held(b)' = Held(b)
    <2>1. sOut'[a].list = head /\ \A b \in Adapters : b # a => sOut'[b] = sOut[b]
      BY <1>1 DEF head, SafeInv, ResultTypes
    <2> QED
      BY <1>2, <1>3, <2>1 DEF Held, Rest
  <1>6. \A x : Read(x)' = Read(x)
    BY <1>2 DEF Read
  <1>7. /\ Elements(sq)' = Elements(sq') /\ Ordered(sq, Older)' = Ordered(sq', Older)
        /\ \A b \in Adapters :
              /\ Elements(sent[b])' = Elements(sent[b])
              /\ Ordered(sent[b], Older)' = Ordered(sent[b], Older)
              /\ Ordered(sOut[b].list, Older)' = Ordered(sOut'[b].list, Older)
    BY <1>2 DEF Elements, Ordered, Older
  <1>8. Ordered(sq, Older)' /\ \A x \in Elements(sq)' : Read(x)'
    BY <1>4, <1>6, <1>7 DEF SendOrder
  <1>9. ASSUME NEW b \in Adapters
        PROVE  /\ Ordered(sent[b], Older)'
               /\ sOut'[b].list # NULL => Ordered(sOut[b].list, Older)'
               /\ \A x \in Elements(sent[b])' \cup Held(b)' :
                     Read(x)' /\ \A y \in Elements(sq)' : <<x, y>> \in Older
               /\ \A x \in Elements(sent[b])', y \in Held(b)' : <<x, y>> \in Older
    <2>1. CASE b = a
      BY <1>4, <1>5, <1>6, <1>7, <2>1 DEF SendOrder
    <2>2. CASE b # a
      BY <1>4, <1>5, <1>6, <1>7, <2>2 DEF SendOrder
    <2> QED
      BY <2>1, <2>2
  <1>10. \A x \in TunPackets : <<x, x>> \notin Older
    BY DEF Older, TunPackets
  <1>11. ASSUME NEW b \in Adapters, NEW c \in Adapters, b # c
         PROVE  (Elements(sent[b])' \cup Held(b)') \cap (Elements(sent[c])' \cup Held(c)') = {}
    <2>1. \A d \in Adapters : d # a => (Elements(sent[d]) \cup Held(d)) \cap Elements(sq) = {}
      BY <1>10, SendElements DEF SendOrder
    <2>2. \A d \in Adapters : d # a =>
             (Elements(sent[a])' \cup Held(a)') \cap (Elements(sent[d])' \cup Held(d)') = {}
      BY <1>4, <1>5, <1>7, <2>1 DEF SendOrder
    <2>3. CASE b # a /\ c # a
      BY <1>5, <1>7, <1>11, <2>3 DEF SendOrder
    <2> QED
      BY <1>11, <2>2, <2>3
  <1> QED
    BY <1>8, <1>9, <1>11 DEF SendOrder

\* sendto accepts the oldest packet that the sender holds.
LEMMA SendAccepted ==
    ASSUME SafeInv, SendOrder, NEW a \in Adapters, SndAccepted(a)
    PROVE  SendOrder'
  <1> DEFINE list == sOut[a].list
             x0 == list[sndIndex[a]]
  <1>1. /\ snd[a] = "send" /\ sndIndex[a] <= sOut[a].n
        /\ sent' = [sent EXCEPT ![a] = Append(@, x0)]
        /\ sndIndex' = [sndIndex EXCEPT ![a] = @ + 1]
        /\ UNCHANGED <<snd, sq, sOut, rx, tunRead>>
    BY DEF SndAccepted, OnlySnd, rxVars, sendQueue
  <1>2. /\ list \in Seq(TunPackets) /\ list # NULL /\ sndIndex[a] \in 1 .. Len(list)
        /\ sndIndex \in [Adapters -> Nat \ {0}] /\ sent \in [Adapters -> Seq(TunPackets)]
    BY <1>1 DEF SafeInv, TypeOK, ResultTypes, Results, Lists
  <1>3. /\ x0 \in Rest(list, sndIndex[a])
        /\ Rest(list, sndIndex[a] + 1) \subseteq Rest(list, sndIndex[a])
        /\ \A y \in Rest(list, sndIndex[a] + 1) : <<x0, y>> \in Older
    <2>1. Ordered(list, Older) /\ NULL \notin Seq(TunPackets)
      BY <1>2, NullAssumption DEF SendOrder
    <2> QED
      BY <1>2, <2>1, RestStep
  <1>4. /\ Held(a) = Rest(list, sndIndex[a]) /\ Held(a)' = Rest(list, sndIndex[a] + 1)
        /\ \A b \in Adapters : b # a => Held(b)' = Held(b) /\ sent'[b] = sent[b]
    BY <1>1, <1>2 DEF Held, Rest
  <1> HIDE DEF x0, list
  <1>5. x0 \in TunPackets /\ x0 \in Held(a)
    BY <1>3, <1>4, SendElements
  <1>6. Ordered(sent'[a], Older) /\ Elements(sent'[a]) = Elements(sent[a]) \cup {x0}
    <2>1. sent[a] \in Seq(TunPackets) /\ Ordered(sent[a], Older)
      BY <1>2 DEF SendOrder
    <2>2. \A y \in Elements(sent[a]) : <<y, x0>> \in Older
      BY <1>5 DEF SendOrder
    <2>3. sent'[a] = Append(sent[a], x0)
      BY <1>1, <1>2
    <2> QED
      BY <1>5, <2>1, <2>2, <2>3, AppendOrdered
  <1>7. \A x : Read(x)' = Read(x)
    BY <1>1 DEF Read
  <1>8. /\ Elements(sq)' = Elements(sq) /\ Ordered(sq, Older)' = Ordered(sq, Older)
        /\ \A b \in Adapters :
              /\ Elements(sent[b])' = Elements(sent'[b])
              /\ Ordered(sent[b], Older)' = Ordered(sent'[b], Older)
              /\ Ordered(sOut[b].list, Older)' = Ordered(sOut[b].list, Older)
    BY <1>1 DEF Elements, Ordered, Older
  <1>9. ASSUME NEW b \in Adapters
        PROVE  /\ Ordered(sent[b], Older)'
               /\ sOut'[b].list # NULL => Ordered(sOut[b].list, Older)'
               /\ \A x \in Elements(sent[b])' \cup Held(b)' :
                     Read(x)' /\ \A y \in Elements(sq)' : <<x, y>> \in Older
               /\ \A x \in Elements(sent[b])', y \in Held(b)' : <<x, y>> \in Older
    <2>1. CASE b = a
      BY <1>1, <1>3, <1>4, <1>5, <1>6, <1>7, <1>8, <2>1 DEF SendOrder
    <2>2. CASE b # a
      BY <1>1, <1>4, <1>7, <1>8, <2>2 DEF SendOrder
    <2> QED
      BY <2>1, <2>2
  <1>10. \A b \in Adapters :
            Elements(sent[b])' \cup Held(b)' \subseteq Elements(sent[b]) \cup Held(b)
    BY <1>3, <1>4, <1>5, <1>6, <1>8
  <1>11. \A b, c \in Adapters : b # c =>
            (Elements(sent[b])' \cup Held(b)') \cap (Elements(sent[c])' \cup Held(c)') = {}
    BY <1>10 DEF SendOrder
  <1>12. Ordered(sq, Older)' /\ \A x \in Elements(sq)' : Read(x)'
    BY <1>7, <1>8 DEF SendOrder
  <1> QED
    BY <1>9, <1>11, <1>12 DEF SendOrder

\* A step that leaves the senders and their queue alone keeps the order.
LEMMA SendStutters ==
    ASSUME SafeInv, SendOrder, UNCHANGED <<sq, sOut, snd, sndIndex, sent>>,
           \A x \in TunPackets : Read(x) => Read(x)'
    PROVE  SendOrder'
  <1>1. \A a \in Adapters : Held(a)' = Held(a)
    BY DEF Held, Rest
  <1>2. \A a \in Adapters : sOut'[a].list # NULL => Ordered(sOut'[a].list, Older)
    BY DEF SendOrder
  <1> QED
    BY <1>1, <1>2, SendShrinks

\* A step of a sender that takes and sends nothing.
LEMMA SendDrops ==
    ASSUME SafeInv, SendOrder, NEW a \in Adapters,
           \/ SndLoop(a) \/ SndCheck(a) \/ SndListDone(a) \/ SndError(a) \/ SndWouldBlock(a)
           \/ SndPop(a) /\ SendQ!Refuse(a)
    PROVE  SendOrder'
  <1>1. sent' = sent /\ \A x \in TunPackets : Read(x) => Read(x)'
    BY DEF SndLoop, SndCheck, SndListDone, SndError, SndWouldBlock, SndPop, OnlySnd, rxVars, Read
  <1>2. /\ snd \in [Adapters -> {"loop", "pop", "check", "send", "done"}]
        /\ sOut \in [Adapters -> Results(TunPackets)]
        /\ sndIndex \in [Adapters -> Nat \ {0}]
    BY DEF SafeInv, TypeOK, ResultTypes
  <1>3. CASE SndLoop(a) \/ SndCheck(a) \/ SndError(a) \/ SndWouldBlock(a)
    <2>1. UNCHANGED <<sq, sOut, sndIndex>>
      BY <1>3 DEF SndLoop, SndCheck, SndError, SndWouldBlock, sendQueue
    <2>2. \A b \in Adapters :
             snd'[b] = snd[b] \/ snd[b] = "check" \/ snd'[b] \notin {"check", "send"}
      BY <1>2, <1>3 DEF SndLoop, SndCheck, SndError, SndWouldBlock
    <2>3. \A b \in Adapters : Held(b)' \subseteq Held(b)
      BY <2>1, <2>2 DEF Held, Rest
    <2>4. \A b \in Adapters : sOut'[b].list # NULL => Ordered(sOut'[b].list, Older)
      BY <2>1 DEF SendOrder
    <2> QED
      BY <1>1, <2>1, <2>3, <2>4, SendShrinks
  <1>4. CASE SndListDone(a)
    <2>1. /\ sq' = sq /\ snd' = [snd EXCEPT ![a] = "loop"]
          /\ sndIndex' = [sndIndex EXCEPT ![a] = 1]
          /\ sOut' = [sOut EXCEPT ![a] = [done |-> FALSE, list |-> <<>>, n |-> 0]]
      BY <1>4, OtherResults DEF SndListDone
    <2>2. Held(a)' = {} /\ \A b \in Adapters : b # a => Held(b)' = Held(b)
      BY <1>2, <2>1 DEF Held, Rest
    <2>3. Ordered(<<>>, Older)
      BY DEF Ordered
    <2>4. \A b \in Adapters : sOut'[b].list # NULL => Ordered(sOut'[b].list, Older)
      BY <1>2, <2>1, <2>3 DEF SendOrder
    <2> QED
      BY <1>1, <2>1, <2>2, <2>4, SendShrinks
  <1>5. CASE SndPop(a) /\ SendQ!Refuse(a)
    <2>1. PICK n \in Nat : sOut' = [sOut EXCEPT ![a] = [done |-> TRUE, list |-> NULL, n |-> n]]
      BY <1>5, OtherResults
    <2>2. sq' = sq /\ sndIndex' = sndIndex /\ snd' = [snd EXCEPT ![a] = "check"]
      BY <1>5, OtherResults DEF SndPop
    <2>3. Held(a)' = {} /\ \A b \in Adapters : b # a => Held(b)' = Held(b)
      BY <1>2, <2>1, <2>2 DEF Held, Rest
    <2>4. \A b \in Adapters : sOut'[b].list # NULL => Ordered(sOut'[b].list, Older)
      BY <1>2, <2>1 DEF SendOrder
    <2> QED
      BY <1>1, <2>2, <2>3, <2>4, SendShrinks
  <1> QED
    BY <1>3, <1>4, <1>5

LEMMA SendOrderStep == SafeInv /\ SendOrder /\ [Next]_vars => SendOrder'
  <1> SUFFICES ASSUME SafeInv, SendOrder, [Next]_vars PROVE SendOrder'
    OBVIOUS
  <1>1. CASE RxStep \/ RxReadEvent
    <2>1. CASE RxPush
      BY <2>1, SendPush
    <2>2. CASE RxLoop \/ RxPacket \/ RxNoMoreItems \/ RxError \/ RxQuitEvent \/ RxReadEvent
      <3>1. UNCHANGED <<sq, sOut, snd, sndIndex, sent>>
        BY <2>2 DEF RxLoop, RxPacket, RxNoMoreItems, RxError, RxQuitEvent, RxReadEvent,
                    OnlyRx, sndVars, sendQueue
      <3>2. tunRead \in Nat /\ tunRead' \in {tunRead, tunRead + 1}
        BY <2>2 DEF RxLoop, RxPacket, RxNoMoreItems, RxError, RxQuitEvent, RxReadEvent,
                    SafeInv, TypeOK
      <3>3. rx' = "push" => tunRead' = tunRead + 1
        BY <2>2 DEF RxLoop, RxPacket, RxNoMoreItems, RxError, RxQuitEvent, RxReadEvent
      <3>4. \A x \in TunPackets : Read(x) => Read(x)'
        BY <3>2, <3>3 DEF Read, TunPackets
      <3> QED
        BY <3>1, <3>4, SendStutters
    <2> QED
      BY <1>1, <2>1, <2>2 DEF RxStep
  <1>2. CASE \E a \in Adapters : SndStep(a) \/ SndWouldBlock(a)
    <2> PICK a \in Adapters : SndStep(a) \/ SndWouldBlock(a)
      BY <1>2
    <2>1. CASE SndAccepted(a)
      BY <2>1, SendAccepted
    <2>2. CASE SndPop(a) /\ SendQ!Take(a)
      BY <2>2, SendTaken
    <2>3. CASE \/ SndLoop(a) \/ SndCheck(a) \/ SndListDone(a) \/ SndError(a) \/ SndWouldBlock(a)
               \/ SndPop(a) /\ SendQ!Refuse(a)
      BY <2>3, SendDrops
    <2>4. SndPop(a) => SendQ!Take(a) \/ SendQ!Refuse(a)
      BY DEF SndPop
    <2> QED
      BY <2>1, <2>2, <2>3, <2>4 DEF SndStep
  <1>3. CASE TxStep \/ \E a \in Adapters : RcvStep(a)
    <2>1. UNCHANGED <<sq, sOut, snd, sndIndex, sent, rx, tunRead>>
      <3>1. CASE TxStep
        BY <3>1 DEF TxStep, TxLoop, TxPop, TxItem, TxListDone, TxWrite,
                    OnlyTx, rxVars, sndVars, sendQueue
      <3>2. CASE \E a \in Adapters : RcvStep(a)
        BY <3>2 DEF RcvStep, RcvLoop, RcvTimeout, RcvReadable, RcvPacket, RcvNothing,
                    RcvError, RcvPush, RcvCheck, OnlyRcv, rxVars, sndVars, sendQueue
      <3> QED
        BY <1>3, <3>1, <3>2
    <2>2. \A x \in TunPackets : Read(x) => Read(x)'
      BY <2>1 DEF Read
    <2> QED
      BY <2>1, <2>2, SendStutters
  <1>4. CASE ShutdownBegin \/ ShutdownStep \/ Down \/ UNCHANGED vars
    <2>1. UNCHANGED <<sq, sOut, snd, sndIndex, sent, rx, tunRead>>
      <3>1. CASE ShutdownBegin \/ ShutdownStep
        BY <3>1 DEF ShutdownBegin, ShutdownStep, StopRunning, SetQuitEvent, ReleaseSending,
                    ReleaseRecieving, SendQ!Release, clearWorkers, closeSockets,
                    WintunEndSession, WintunFreeAdapter, CloseQuitEvent, ReleaseConf, Free,
                    workerVars, rxVars, sndVars, sendQueue
      <3>2. CASE Down \/ UNCHANGED vars
        BY <3>2 DEF Down, vars, rxVars, sndVars, sendQueue
      <3> QED
        BY <1>4, <3>1, <3>2
    <2>2. \A x \in TunPackets : Read(x) => Read(x)'
      BY <2>1 DEF Read
    <2> QED
      BY <2>1, <2>2, SendStutters
  <1> QED
    BY <1>1, <1>2, <1>3, <1>4 DEF Next

\* A packet of the TUN device is sent by at most one adapter and only once, and
\* each adapter sends its packets in the order in which they were read.
THEOREM DataPlaneSentInOrder == Spec => []SentOnceInOrder
  <1>1. SafeInv /\ SendOrder => SentOnceInOrder
    <2> SUFFICES ASSUME SafeInv, SendOrder, NEW a \in Adapters, NEW b \in Adapters,
                        NEW i \in DOMAIN sent[a], NEW j \in DOMAIN sent[b]
                 PROVE  /\ a # b => sent[a][i] # sent[b][j]
                        /\ a = b /\ i < j => sent[a][i] < sent[b][j]
      BY DEF SentOnceInOrder
    <2>1. sent[a][i] \in Elements(sent[a]) /\ sent[b][j] \in Elements(sent[b])
      BY DEF Elements
    <2>2. a # b => sent[a][i] # sent[b][j]
      BY <2>1 DEF SendOrder
    <2>3. a = b /\ i < j => <<sent[a][i], sent[b][j]>> \in Older
      BY DEF SendOrder, Ordered
    <2> QED
      BY <2>2, <2>3 DEF Older
  <1> QED
    BY <1>1, SafeInit, SafeStep, SendOrderInit, SendOrderStep, PTL DEF Spec

-----------------------------------------------------------------------------
(* From the sockets to the TUN device.                                     *)

LEMMA ReceiveOrderInit == Init => ReceiveOrder
  <1> SUFFICES ASSUME Init PROVE ReceiveOrder
    OBVIOUS
  <1>1. rq = <<>> /\ delivered = <<>> /\ tx = "loop" /\ rOut["tx"].list = <<>>
    BY DEF Init, RecvQ!Init, RecvQ!NoResult, Tx
  <1>2. Elements(<<>>) = {} /\ Ordered(<<>>, Earlier)
    BY DEF Elements, Ordered
  <1>3. Elements(rq) = {} /\ Elements(delivered) = {} /\ HeldByTx = {}
    BY <1>1, <1>2 DEF HeldByTx
  <1> QED
    BY <1>1, <1>2, <1>3 DEF ReceiveOrder

\* The packets on their way are packets of the sockets.
LEMMA ReceiveElements ==
    ASSUME SafeInv
    PROVE  Elements(rq) \cup Elements(delivered) \cup HeldByTx \subseteq NetPackets
  <1>1. ASSUME NEW s \in Seq(NetPackets)
        PROVE  Elements(s) \subseteq NetPackets
    BY LenProperties, ElementOfSeq DEF Elements
  <1>2. HeldByTx \subseteq NetPackets
    <2> SUFFICES ASSUME rOut["tx"].list # NULL
                 PROVE  Rest(rOut["tx"].list, txIndex) \subseteq NetPackets
      BY DEF HeldByTx, Rest
    <2>1. rOut["tx"].list \in Seq(NetPackets) /\ txIndex \in Nat \ {0}
      BY DEF SafeInv, ResultTypes, Results, Tx
    <2>2. /\ Len(rOut["tx"].list) \in Nat
          /\ \A j \in 1 .. Len(rOut["tx"].list) : rOut["tx"].list[j] \in NetPackets
      BY <2>1, LenProperties, ElementOfSeq
    <2>3. txIndex .. Len(rOut["tx"].list) \subseteq 1 .. Len(rOut["tx"].list)
      BY <2>1, <2>2
    <2> QED
      BY <2>2, <2>3 DEF Rest
  <1>3. rq \in Seq(NetPackets) /\ delivered \in Seq(NetPackets)
    BY DEF SafeInv, TypeOK
  <1> QED
    BY <1>1, <1>2, <1>3

\* A step that queues and writes nothing, and after which SendPackets holds no
\* more than before, keeps the order.
LEMMA ReceiveShrinks ==
    ASSUME SafeInv, ReceiveOrder, rq' = rq, delivered' = delivered,
           HeldByTx' \subseteq HeldByTx,
           rOut'["tx"].list # NULL => Ordered(rOut'["tx"].list, Earlier),
           \A x \in NetPackets : Arrived(x) => Arrived(x)'
    PROVE  ReceiveOrder'
  <1>1. \A x \in Elements(rq) \cup Elements(delivered) \cup HeldByTx : Arrived(x)'
    BY ReceiveElements DEF ReceiveOrder
  <1>2. /\ Elements(rq)' = Elements(rq) /\ Elements(delivered)' = Elements(delivered)
        /\ Ordered(rq, Earlier)' = Ordered(rq, Earlier)
        /\ Ordered(delivered, Earlier)' = Ordered(delivered, Earlier)
        /\ Ordered(rOut["tx"].list, Earlier)' = Ordered(rOut'["tx"].list, Earlier)
    BY DEF Elements, Ordered, Earlier
  <1>3. \A x \in Elements(rq)' \cup Elements(delivered)' \cup HeldByTx' : Arrived(x)'
    BY <1>1, <1>2
  <1>4. /\ \A x \in Elements(delivered)' \cup HeldByTx', y \in Elements(rq)' :
              <<x, y>> \in Earlier
        /\ \A x \in Elements(delivered)', y \in HeldByTx' : <<x, y>> \in Earlier
    BY <1>2 DEF ReceiveOrder
  <1>5. Ordered(rq, Earlier) /\ Ordered(delivered, Earlier)
    BY DEF ReceiveOrder
  <1> QED
    BY <1>2, <1>3, <1>4, <1>5 DEF ReceiveOrder

\* A receiver pushes a packet that came in after all others of its socket.
LEMMA ReceivePush ==
    ASSUME SafeInv, ReceiveOrder, NEW a \in Adapters, RcvPush(a)
    PROVE  ReceiveOrder'
  <1> DEFINE x0 == <<a, got[a]>>
  <1>1. /\ rcv[a] = "push" /\ rcv' = [rcv EXCEPT ![a] = "check"]
        /\ got' = [got EXCEPT ![a] = 0]
        /\ UNCHANGED <<netRead, delivered, tx, txIndex, rOut>>
        /\ rq' = IF Len(rq) < QueueBound THEN Append(rq, x0) ELSE rq
    BY DEF RcvPush, RecvQ!Push, OnlyRcv, txVars
  <1>2. /\ got[a] \in 1 .. MaxNet /\ got[a] <= netRead
        /\ rcv \in [Adapters -> {"loop", "select", "recvfrom", "push", "check", "done"}]
        /\ got \in [Adapters -> 0 .. MaxNet] /\ netRead \in 0 .. MaxNet
        /\ rq \in Seq(NetPackets)
    BY <1>1, DataPlaneAssumption DEF SafeInv, TypeOK, Pushing
  <1>3. x0 \in NetPackets
    BY <1>2 DEF NetPackets
  <1>4. ASSUME NEW x \in NetPackets, Arrived(x)
        PROVE  Arrived(x)' /\ <<x, x0>> \in Earlier
    <2>1. x[1] \in Adapters /\ x[2] \in 1 .. MaxNet
      BY DEF NetPackets
    <2>2. Arrived(x)'
      BY <1>1, <1>2, <1>4, <2>1 DEF Arrived
    <2>3. x[1] = a => x[2] < got[a]
      BY <1>1, <1>4 DEF Arrived
    <2> QED
      BY <1>3, <2>2, <2>3 DEF Earlier
  <1>5. \A x : x = x0 => Arrived(x)'
    BY <1>1, <1>2 DEF Arrived
  <1>6. HeldByTx' = HeldByTx /\ Elements(delivered)' = Elements(delivered)
    BY <1>1 DEF HeldByTx, Rest, Elements
  <1>7. CASE rq' = rq
    BY <1>1, <1>4, <1>6, <1>7, ReceiveShrinks DEF ReceiveOrder
  <1> HIDE DEF x0
  <1>8. CASE rq' = Append(rq, x0)
    <2>1. \A x \in Elements(rq) \cup Elements(delivered) \cup HeldByTx :
             Arrived(x)' /\ <<x, x0>> \in Earlier
      BY <1>4, ReceiveElements DEF ReceiveOrder
    <2>2. Ordered(rq', Earlier) /\ Elements(rq') = Elements(rq) \cup {x0}
      BY <1>2, <1>3, <1>8, <2>1, AppendOrdered DEF ReceiveOrder
    <2>3. \A x \in Elements(rq') \cup Elements(delivered) \cup HeldByTx : Arrived(x)'
      BY <1>5, <2>1, <2>2
    <2>4. \A x \in Elements(delivered) \cup HeldByTx, y \in Elements(rq') : <<x, y>> \in Earlier
      BY <2>1, <2>2 DEF ReceiveOrder
    <2>5. /\ Elements(rq)' = Elements(rq') /\ Ordered(rq, Earlier)' = Ordered(rq', Earlier)
          /\ Ordered(delivered, Earlier)' = Ordered(delivered, Earlier)
          /\ Ordered(rOut["tx"].list, Earlier)' = Ordered(rOut["tx"].list, Earlier)
      BY <1>1 DEF Elements, Ordered, Earlier
    <2> QED
      BY <1>1, <1>6, <2>2, <2>3, <2>4, <2>5 DEF ReceiveOrder
  <1> QED
    BY <1>1, <1>7, <1>8 DEF x0

\* SendPackets takes the oldest packets of the queue.
LEMMA ReceiveTaken ==
    ASSUME SafeInv, ReceiveOrder, TxPop, NEW c \in Tx, RecvQ!Take(c)
    PROVE  ReceiveOrder'
  <1>1. PICK k \in 1 .. Len(rq) :
           /\ rOut' = [rOut EXCEPT !["tx"] =
                         [done |-> TRUE, list |-> SubSeq(rq, 1, k), n |-> k]]
           /\ rq' = SubSeq(rq, k + 1, Len(rq))
    BY RecvTake DEF SafeInv
  <1> DEFINE head == SubSeq(rq, 1, k)
  <1>2. /\ tx = "pop" /\ tx' = "item" /\ txIndex = 1
        /\ UNCHANGED <<delivered, txIndex, rcv, got, netRead>>
    BY DEF TxPop, OnlyTx, rcvVars, SafeInv, Lists
  <1>3. /\ Ordered(head, Earlier) /\ Ordered(rq', Earlier)
        /\ Rest(head, 1) \subseteq Elements(rq) /\ Elements(rq') \subseteq Elements(rq)
        /\ \A x \in Rest(head, 1), y \in Elements(rq') : <<x, y>> \in Earlier
    <2>1. rq \in Seq(NetPackets) /\ Ordered(rq, Earlier) /\ NULL \notin Seq(NetPackets)
      BY NullAssumption DEF SafeInv, TypeOK, ReceiveOrder
    <2>2. /\ Ordered(SubSeq(rq, 1, k), Earlier) /\ Ordered(SubSeq(rq, k + 1, Len(rq)), Earlier)
          /\ Rest(SubSeq(rq, 1, k), 1) \subseteq Elements(rq)
          /\ Elements(SubSeq(rq, k + 1, Len(rq))) \subseteq Elements(rq)
          /\ \A x \in Rest(SubSeq(rq, 1, k), 1), y \in Elements(SubSeq(rq, k + 1, Len(rq))) :
                <<x, y>> \in Earlier
      BY <2>1, SplitOrdered
    <2> QED
      BY <1>1, <2>2
  <1> HIDE DEF head
  <1>4. rOut'["tx"].list = head
    BY <1>1 DEF head, SafeInv, ResultTypes, Tx
  <1>5. HeldByTx' = Rest(head, 1)
    BY <1>2, <1>4 DEF HeldByTx, Rest
  <1>6. \A x : Arrived(x)' = Arrived(x)
    BY <1>2 DEF Arrived
  <1>7. /\ Elements(rq)' = Elements(rq') /\ Ordered(rq, Earlier)' = Ordered(rq', Earlier)
        /\ Elements(delivered)' = Elements(delivered)
        /\ Ordered(delivered, Earlier)' = Ordered(delivered, Earlier)
        /\ Ordered(rOut["tx"].list, Earlier)' = Ordered(head, Earlier)
    BY <1>2, <1>4 DEF Elements, Ordered, Earlier
  <1>8. \A x \in Elements(rq)' \cup Elements(delivered)' \cup HeldByTx' : Arrived(x)'
    BY <1>3, <1>5, <1>6, <1>7 DEF ReceiveOrder
  <1>9. /\ \A x \in Elements(delivered)' \cup HeldByTx', y \in Elements(rq)' :
              <<x, y>> \in Earlier
        /\ \A x \in Elements(delivered)', y \in HeldByTx' : <<x, y>> \in Earlier
    BY <1>3, <1>5, <1>7 DEF ReceiveOrder
  <1>10. Ordered(delivered, Earlier)
    BY DEF ReceiveOrder
  <1> QED
    BY <1>3, <1>7, <1>8, <1>9, <1>10 DEF ReceiveOrder

\* SendPackets writes or drops the oldest packet that it holds.
LEMMA ReceiveWritten ==
    ASSUME SafeInv, ReceiveOrder, TxWrite
    PROVE  ReceiveOrder'
  <1> DEFINE list == rOut["tx"].list
             x0 == list[txIndex]
  <1>1. /\ tx = "write" /\ tx' = "item" /\ txIndex' = txIndex + 1
        /\ delivered' = Append(delivered, x0) \/ delivered' = delivered
        /\ UNCHANGED <<rq, rOut, rcv, got, netRead>>
    BY DEF TxWrite, OnlyTx, rcvVars, recvQueue
  <1>2. /\ list \in Seq(NetPackets) /\ list # NULL /\ txIndex \in 1 .. Len(list)
        /\ delivered \in Seq(NetPackets)
    BY <1>1 DEF SafeInv, TypeOK, ResultTypes, Results, Lists, Tx
  <1>3. /\ x0 \in Rest(list, txIndex)
        /\ Rest(list, txIndex + 1) \subseteq Rest(list, txIndex)
        /\ \A y \in Rest(list, txIndex + 1) : <<x0, y>> \in Earlier
    <2>1. Ordered(list, Earlier) /\ NULL \notin Seq(NetPackets)
      BY <1>2, NullAssumption DEF ReceiveOrder
    <2> QED
      BY <1>2, <2>1, RestStep
  <1>4. HeldByTx = Rest(list, txIndex) /\ HeldByTx' = Rest(list, txIndex + 1)
    BY <1>1, <1>2 DEF HeldByTx, Rest
  <1>5. \A x : Arrived(x)' = Arrived(x)
    BY <1>1 DEF Arrived
  <1>6. CASE delivered' = delivered
    BY <1>1, <1>3, <1>4, <1>5, <1>6, ReceiveShrinks DEF ReceiveOrder
  <1> HIDE DEF x0, list
  <1>7. CASE delivered' = Append(delivered, x0)
    <2>1. x0 \in NetPackets /\ x0 \in HeldByTx
      BY <1>3, <1>4, ReceiveElements
    <2>2. \A y \in Elements(delivered) : <<y, x0>> \in Earlier
      BY <2>1 DEF ReceiveOrder
    <2>3. /\ Ordered(delivered', Earlier)
          /\ Elements(delivered') = Elements(delivered) \cup {x0}
      BY <1>2, <1>7, <2>1, <2>2, AppendOrdered DEF ReceiveOrder
    <2>4. /\ Elements(rq)' = Elements(rq) /\ Ordered(rq, Earlier)' = Ordered(rq, Earlier)
          /\ Elements(delivered)' = Elements(delivered')
          /\ Ordered(delivered, Earlier)' = Ordered(delivered', Earlier)
          /\ Ordered(rOut["tx"].list, Earlier)' = Ordered(rOut["tx"].list, Earlier)
      BY <1>1 DEF Elements, Ordered, Earlier
    <2>5. \A x \in Elements(rq)' \cup Elements(delivered)' \cup HeldByTx' : Arrived(x)'
      BY <1>3, <1>4, <1>5, <2>1, <2>3, <2>4 DEF ReceiveOrder
    <2>6. /\ \A x \in Elements(delivered)' \cup HeldByTx', y \in Elements(rq)' :
                <<x, y>> \in Earlier
          /\ \A x \in Elements(delivered)', y \in HeldByTx' : <<x, y>> \in Earlier
      BY <1>3, <1>4, <2>1, <2>3, <2>4 DEF ReceiveOrder
    <2> QED
      BY <1>1, <2>3, <2>4, <2>5, <2>6 DEF ReceiveOrder
  <1> QED
    BY <1>1, <1>6, <1>7 DEF x0, list

\* A step that leaves SendPackets and its queue alone keeps the order.
LEMMA ReceiveStutters ==
    ASSUME SafeInv, ReceiveOrder, UNCHANGED <<rq, rOut, tx, txIndex, delivered>>,
           \A x \in NetPackets : Arrived(x) => Arrived(x)'
    PROVE  ReceiveOrder'
  <1>1. HeldByTx' = HeldByTx
    BY DEF HeldByTx, Rest
  <1> QED
    BY <1>1, ReceiveShrinks DEF ReceiveOrder

\* A step of SendPackets that takes and writes nothing.
LEMMA ReceiveDrops ==
    ASSUME SafeInv, ReceiveOrder, TxLoop \/ TxItem \/ TxListDone
    PROVE  ReceiveOrder'
  <1>1. delivered' = delivered /\ \A x \in NetPackets : Arrived(x) => Arrived(x)'
    BY DEF TxLoop, TxItem, TxListDone, OnlyTx, rcvVars, Arrived
  <1>2. rOut \in [Tx -> Results(NetPackets)] /\ "tx" \in Tx
    BY DEF SafeInv, ResultTypes, Tx
  <1>3. CASE TxLoop \/ TxItem
    <2>1. UNCHANGED <<rq, rOut, txIndex>> /\ (tx' \in {"item", "write"} => tx = "item")
      BY <1>3 DEF TxLoop, TxItem, recvQueue
    <2>2. HeldByTx' \subseteq HeldByTx
      BY <2>1 DEF HeldByTx, Rest
    <2> QED
      BY <1>1, <2>1, <2>2, ReceiveShrinks DEF ReceiveOrder
  <1>4. CASE TxListDone
    <2>1. /\ rq' = rq /\ tx' = "loop"
          /\ rOut' = [rOut EXCEPT !["tx"] = [done |-> FALSE, list |-> <<>>, n |-> 0]]
      BY <1>4, OtherResults DEF TxListDone
    <2>2. HeldByTx' = {} /\ rOut'["tx"].list = <<>>
      BY <1>2, <2>1 DEF HeldByTx
    <2>3. Ordered(<<>>, Earlier)
      BY DEF Ordered
    <2> QED
      BY <1>1, <2>1, <2>2, <2>3, ReceiveShrinks
  <1> QED
    BY <1>3, <1>4

\* SendPackets gets the null pointer of a released queue.
LEMMA ReceiveRefused ==
    ASSUME SafeInv, ReceiveOrder, TxPop, NEW c \in Tx, RecvQ!Refuse(c)
    PROVE  ReceiveOrder'
  <1>1. delivered' = delivered /\ \A x \in NetPackets : Arrived(x) => Arrived(x)'
    BY DEF TxPop, OnlyTx, rcvVars, Arrived
  <1>2. rOut \in [Tx -> Results(NetPackets)] /\ "tx" \in Tx
    BY DEF SafeInv, ResultTypes, Tx
  <1>3. PICK n \in Nat : rOut' = [rOut EXCEPT !["tx"] = [done |-> TRUE, list |-> NULL, n |-> n]]
    BY OtherResults
  <1>4. rq' = rq /\ rOut'["tx"].list = NULL
    BY <1>2, <1>3, OtherResults
  <1>5. HeldByTx' = {}
    BY <1>4 DEF HeldByTx, Rest
  <1> QED
    BY <1>1, <1>4, <1>5, ReceiveShrinks

LEMMA ReceiveOrderStep == SafeInv /\ ReceiveOrder /\ [Next]_vars => ReceiveOrder'
  <1> SUFFICES ASSUME SafeInv, ReceiveOrder, [Next]_vars PROVE ReceiveOrder'
    OBVIOUS
  <1>1. CASE TxStep
    <2>1. CASE TxWrite
      BY <2>1, ReceiveWritten
    <2>2. CASE TxPop /\ \E c \in Tx : RecvQ!Take(c)
      BY <2>2, ReceiveTaken
    <2>3. CASE TxLoop \/ TxItem \/ TxListDone
      BY <2>3, ReceiveDrops
    <2>4. CASE TxPop
      <3>1. PICK c \in Tx : RecvQ!Take(c) \/ RecvQ!Refuse(c)
        BY <2>4 DEF TxPop
      <3>2. CASE RecvQ!Refuse(c)
        BY <2>4, <3>2, ReceiveRefused
      <3> QED
        BY <2>2, <2>4, <3>1, <3>2
    <2> QED
      BY <1>1, <2>1, <2>3, <2>4 DEF TxStep
  <1>2. CASE \E a \in Adapters : RcvStep(a)
    <2> PICK a \in Adapters : RcvStep(a)
      BY <1>2
    <2>1. CASE RcvPush(a)
      BY <2>1, ReceivePush
    <2>2. CASE \/ RcvLoop(a) \/ RcvTimeout(a) \/ RcvReadable(a) \/ RcvPacket(a)
               \/ RcvNothing(a) \/ RcvError(a) \/ RcvCheck(a)
      <3> USE DEF RcvLoop, RcvTimeout, RcvReadable, RcvPacket, RcvNothing, RcvError, RcvCheck
      <3>1. UNCHANGED <<rq, rOut, tx, txIndex, delivered>>
        BY <2>2 DEF OnlyRcv, txVars, recvQueue
      <3>2. /\ rcv \in [Adapters -> {"loop", "select", "recvfrom", "push", "check", "done"}]
            /\ got \in [Adapters -> 0 .. MaxNet] /\ netRead \in Nat
        BY DEF SafeInv, TypeOK
      <3>3. /\ netRead' \in {netRead, netRead + 1}
            /\ \A b \in Adapters : rcv'[b] = "push" =>
                  \/ rcv[b] = "push" /\ got'[b] = got[b]
                  \/ got'[b] = netRead + 1
        <4>1. CASE RcvPacket(a)
          BY <3>2, <4>1
        <4>2. CASE \/ RcvLoop(a) \/ RcvTimeout(a) \/ RcvReadable(a)
                   \/ RcvNothing(a) \/ RcvError(a) \/ RcvCheck(a)
          BY <3>2, <4>2
        <4> QED
          BY <2>2, <4>1, <4>2
      <3>4. ASSUME NEW x \in NetPackets, Arrived(x) PROVE Arrived(x)'
        <4>1. x[1] \in Adapters /\ x[2] \in Nat
          BY DEF NetPackets
        <4> QED
          BY <3>2, <3>3, <3>4, <4>1 DEF Arrived
      <3> QED
        BY <3>1, <3>4, ReceiveStutters
    <2> QED
      BY <2>1, <2>2 DEF RcvStep
  <1>3. CASE RxStep \/ RxReadEvent \/ \E a \in Adapters : SndStep(a) \/ SndWouldBlock(a)
    <2>1. UNCHANGED <<rq, rOut, tx, txIndex, delivered, rcv, got, netRead>>
      <3>1. CASE RxStep \/ RxReadEvent
        BY <3>1 DEF RxStep, RxLoop, RxPacket, RxNoMoreItems, RxError, RxPush, RxQuitEvent,
                    RxReadEvent, OnlyRx, txVars, rcvVars, recvQueue
      <3>2. CASE \E a \in Adapters : SndStep(a) \/ SndWouldBlock(a)
        BY <3>2 DEF SndStep, SndLoop, SndPop, SndCheck, SndListDone, SndAccepted, SndError,
                    SndWouldBlock, OnlySnd, txVars, rcvVars, recvQueue
      <3> QED
        BY <1>3, <3>1, <3>2
    <2>2. \A x \in NetPackets : Arrived(x) => Arrived(x)'
      BY <2>1 DEF Arrived
    <2> QED
      BY <2>1, <2>2, ReceiveStutters
  <1>4. CASE ShutdownBegin \/ ShutdownStep \/ Down \/ UNCHANGED vars
    <2>1. UNCHANGED <<rq, rOut, tx, txIndex, delivered, rcv, got, netRead>>
      <3>1. CASE ShutdownBegin \/ ShutdownStep
        BY <3>1 DEF ShutdownBegin, ShutdownStep, StopRunning, SetQuitEvent, ReleaseSending,
                    ReleaseRecieving, RecvQ!Release, clearWorkers, closeSockets,
                    WintunEndSession, WintunFreeAdapter, CloseQuitEvent, ReleaseConf, Free,
                    workerVars, txVars, rcvVars, recvQueue
      <3>2. CASE Down \/ UNCHANGED vars
        BY <3>2 DEF Down, vars, txVars, rcvVars, recvQueue
      <3> QED
        BY <1>4, <3>1, <3>2
    <2>2. \A x \in NetPackets : Arrived(x) => Arrived(x)'
      BY <2>1 DEF Arrived
    <2> QED
      BY <2>1, <2>2, ReceiveStutters
  <1> QED
    BY <1>1, <1>2, <1>3, <1>4 DEF Next

\* The packets of one socket reach the TUN device once, in the order of arrival,
\* however the receivers of the other sockets interleave with it.
THEOREM DataPlaneDeliveredInOrder == Spec => []DeliveredOnceInOrder
  <1>1. ReceiveOrder => DeliveredOnceInOrder
    <2> SUFFICES ASSUME ReceiveOrder, NEW i \in DOMAIN delivered, NEW j \in DOMAIN delivered,
                        i < j, delivered[i][1] = delivered[j][1]
                 PROVE  delivered[i][2] < delivered[j][2]
      BY DEF DeliveredOnceInOrder
    <2>1. <<delivered[i], delivered[j]>> \in Earlier
      BY DEF ReceiveOrder, Ordered
    <2> QED
      BY <2>1 DEF Earlier
  <1> QED
    BY <1>1, SafeInit, SafeStep, ReceiveOrderInit, ReceiveOrderStep, PTL DEF Spec

\* Everything above holds together: DataPlaneInv is an inductive invariant.
THEOREM DataPlaneInductive == Spec => []DataPlaneInv
  <1>1. DataPlaneInv <=> SafeInv /\ SendOrder /\ ReceiveOrder
    BY DEF DataPlaneInv, SafeInv
  <1> QED
    BY <1>1, SafeInit, SafeStep, SendOrderInit, SendOrderStep,
       ReceiveOrderInit, ReceiveOrderStep, PTL DEF Spec
=============================================================================
