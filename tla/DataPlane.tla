----------------------------- MODULE DataPlane -----------------------------
(***************************************************************************)
(* One run of the VPN: the worker threads, the two packet queues between   *)
(* them, and Application::shutdown, which stops the threads and then frees *)
(* what they used.                                                         *)
(*                                                                         *)
(*   ReceivePackets --> sendingPacketQueue   --> WorkSocket senders        *)
(*   WorkSocket receivers --> recievingPacketQueue --> SendPackets         *)
(*                                                                         *)
(* A behaviour starts when Application::run has created the threads.  The  *)
(* queues are those of module PacketQueue, which the ring buffer of module *)
(* Workqueue implements; a thread inside popSize or popAll is at "pop".    *)
(* Between two reads of shared state a thread is at a pc value of its own: *)
(* isRunning is a plain bool that no lock protects.                        *)
(*                                                                         *)
(* Packets are numbered in the order in which they were read: packet k of  *)
(* the TUN device is k, packet k of the sockets is <<a, k>> if it came in  *)
(* on the socket of adapter a.                                             *)
(* External: Wintun and Winsock, whose calls return any of the results     *)
(* that the code distinguishes.                                            *)
(***************************************************************************)
EXTENDS Integers, Sequences, FiniteSets

CONSTANTS
    Adapters,       \* the activated network adapters
    NULL,           \* the null pointer
    QueueBound,     \* packets a queue holds, NS_QUEUE_SIZE - 1
    batch,          \* the argument of popSize, 3
    RunFor,         \* empty reads before ReceivePackets waits, 11
    MaxTun,         \* bound: packets the TUN device yields
    MaxNet          \* bound: packets the sockets yield

ASSUME DataPlaneAssumption ==
    /\ IsFiniteSet(Adapters) /\ Adapters # {}
    /\ QueueBound \in Nat \ {0} /\ batch \in Nat \ {0} /\ RunFor \in Nat \ {0}
    /\ MaxTun \in Nat /\ MaxNet \in Nat

TunPackets == 1 .. MaxTun
NetPackets == Adapters \X (1 .. MaxNet)

\* The null pointer is no list of packets.
ASSUME NullAssumption == NULL \notin Seq(TunPackets) \cup Seq(NetPackets)

VARIABLES
    isRunning,      \* conf->isRunning
    quitEvent,      \* conf->quitEvent is set (it is never reset)
    ctl,            \* where shutdown() is
    open,           \* what shutdown() has not freed yet
    sq, sReleased, sOut,    \* sendingPacketQueue
    rq, rReleased, rOut,    \* recievingPacketQueue
    rx, runFor,     \* ReceivePackets: pc, and its count of empty reads
    tx, txIndex,    \* SendPackets: pc, index of the packet in its list
    snd, sndIndex,  \* WorkSocket senders: pc, index of the packet in the list
    rcv, got,       \* WorkSocket receivers: pc, packet in the buffer
    tunRead,        \* packets read from the TUN device
    netRead,        \* packets read from the sockets
    sent,           \* packets each adapter's socket has accepted, in order
    delivered       \* packets written to the TUN device, in order

sendQueue == <<sq, sReleased, sOut>>
recvQueue == <<rq, rReleased, rOut>>
rxVars == <<rx, runFor, tunRead>>
txVars == <<tx, txIndex, delivered>>
sndVars == <<snd, sndIndex, sent>>
rcvVars == <<rcv, got, netRead>>
ctlVars == <<isRunning, quitEvent, ctl, open>>
vars == <<ctlVars, sendQueue, recvQueue, rxVars, txVars, sndVars, rcvVars>>

Tx == {"tx"}

\* An unset size is either zero or not; no more of it matters.
Garbage == {0, 1}

\* popSize takes at most batch packets, popAll as many as there are.
SendMax(c) == batch
RecvMax(c) == QueueBound

SendQ == INSTANCE PacketQueue WITH
    Packets <- TunPackets, Consumers <- Adapters, Bound <- QueueBound,
    MaxTake <- SendMax,
    q <- sq, released <- sReleased, out <- sOut

RecvQ == INSTANCE PacketQueue WITH
    Packets <- NetPackets, Consumers <- Tx, Bound <- QueueBound,
    MaxTake <- RecvMax,
    q <- rq, released <- rReleased, out <- rOut

Init ==
    /\ isRunning = TRUE
    /\ quitEvent = FALSE
    /\ ctl = "up"
    /\ open = {"sockets", "session", "adapter", "quitEvent", "conf"}
    /\ SendQ!Init
    /\ RecvQ!Init
    /\ rx = "loop" /\ runFor = RunFor
    /\ tx = "loop" /\ txIndex = 1
    /\ snd = [a \in Adapters |-> "loop"]
    /\ sndIndex = [a \in Adapters |-> 1]
    /\ rcv = [a \in Adapters |-> "loop"]
    /\ tunRead = 0
    /\ got = [a \in Adapters |-> 0]
    /\ netRead = 0
    /\ sent = [a \in Adapters |-> <<>>]
    /\ delivered = <<>>

\* A step of one thread leaves the state of the others alone.
OnlyRx == UNCHANGED <<ctlVars, txVars, sndVars, rcvVars>>
OnlyTx == UNCHANGED <<ctlVars, rxVars, sndVars, rcvVars>>
OnlySnd == UNCHANGED <<ctlVars, rxVars, txVars, rcvVars>>
OnlyRcv == UNCHANGED <<ctlVars, rxVars, txVars, sndVars>>

-----------------------------------------------------------------------------
(* ReceivePackets: from the TUN device to sendingPacketQueue.              *)

RxLoop ==
    /\ rx = "loop"
    /\ rx' = IF isRunning THEN "read" ELSE "done"
    /\ runFor' = IF isRunning THEN runFor - 1 ELSE runFor
    /\ OnlyRx /\ UNCHANGED <<tunRead, sendQueue, recvQueue>>

\* WintunReceivePacket yields a packet, ...
RxPacket ==
    /\ rx = "read"
    /\ tunRead < MaxTun
    /\ tunRead' = tunRead + 1
    /\ rx' = "push"
    /\ OnlyRx /\ UNCHANGED <<runFor, sendQueue, recvQueue>>

\* ... or ERROR_NO_MORE_ITEMS, ...
RxNoMoreItems ==
    /\ rx = "read"
    /\ rx' = IF runFor <= 0 THEN "wait" ELSE "loop"
    /\ runFor' = IF runFor <= 0 THEN RunFor ELSE runFor
    /\ OnlyRx /\ UNCHANGED <<tunRead, sendQueue, recvQueue>>

\* ... or another error, which ends the thread.
RxError ==
    /\ rx = "read"
    /\ rx' = "done"
    /\ OnlyRx /\ UNCHANGED <<runFor, tunRead, sendQueue, recvQueue>>

RxPush ==
    /\ rx = "push"
    /\ SendQ!Push(tunRead)
    /\ rx' = "loop"
    /\ OnlyRx /\ UNCHANGED <<runFor, tunRead, recvQueue>>

\* WaitForMultipleObjects on the quit event and on the device's read event.
RxQuitEvent ==
    /\ rx = "wait"
    /\ quitEvent
    /\ rx' = "loop"
    /\ OnlyRx /\ UNCHANGED <<runFor, tunRead, sendQueue, recvQueue>>

RxReadEvent ==
    /\ rx = "wait"
    /\ tunRead < MaxTun
    /\ rx' = "loop"
    /\ OnlyRx /\ UNCHANGED <<runFor, tunRead, sendQueue, recvQueue>>

-----------------------------------------------------------------------------
(* SendPackets: from recievingPacketQueue to the TUN device.               *)

TxLoop ==
    /\ tx = "loop"
    /\ tx' = IF isRunning THEN "pop" ELSE "done"
    /\ OnlyTx /\ UNCHANGED <<txIndex, delivered, sendQueue, recvQueue>>

TxPop ==
    /\ tx = "pop"
    /\ \E c \in Tx : RecvQ!Take(c) \/ RecvQ!Refuse(c)
    /\ tx' = "item"
    /\ OnlyTx /\ UNCHANGED <<txIndex, delivered, sendQueue>>

\* The head of the for loop, and the test of isRunning in its body.
TxItem ==
    /\ tx = "item"
    /\ txIndex <= rOut["tx"].n
    /\ tx' = IF isRunning THEN "write" ELSE "done"
    /\ OnlyTx /\ UNCHANGED <<txIndex, delivered, sendQueue, recvQueue>>

TxListDone ==
    /\ tx = "item"
    /\ txIndex > rOut["tx"].n
    /\ \E c \in Tx : RecvQ!Use(c)
    /\ tx' = "loop"
    /\ txIndex' = 1
    /\ OnlyTx /\ UNCHANGED <<delivered, sendQueue>>

\* The device takes the packet, or the packet is dropped: its ring is full,
\* or another error is logged.
TxWrite ==
    /\ tx = "write"
    /\ \/ delivered' = Append(delivered, rOut["tx"].list[txIndex])
       \/ UNCHANGED delivered
    /\ txIndex' = txIndex + 1
    /\ tx' = "item"
    /\ OnlyTx /\ UNCHANGED <<sendQueue, recvQueue>>

-----------------------------------------------------------------------------
(* WorkSocket of a sender: from sendingPacketQueue to the adapter's socket. *)

SndLoop(a) ==
    /\ snd[a] = "loop"
    /\ snd' = [snd EXCEPT ![a] = IF isRunning THEN "pop" ELSE "done"]
    /\ OnlySnd /\ UNCHANGED <<sndIndex, sent, sendQueue, recvQueue>>

SndPop(a) ==
    /\ snd[a] = "pop"
    /\ SendQ!Take(a) \/ SendQ!Refuse(a)
    /\ snd' = [snd EXCEPT ![a] = "check"]
    /\ OnlySnd /\ UNCHANGED <<sndIndex, sent, recvQueue>>

\* "if the driver has stopped": what was popped is lost.
SndCheck(a) ==
    /\ snd[a] = "check"
    /\ snd' = [snd EXCEPT ![a] = IF isRunning THEN "send" ELSE "done"]
    /\ OnlySnd /\ UNCHANGED <<sndIndex, sent, sendQueue, recvQueue>>

\* A variant whose loop ends one packet early.
SndListDoneEarly(a) ==
    /\ snd[a] = "send"
    /\ sndIndex[a] >= sOut[a].n
    /\ SendQ!Use(a)
    /\ snd' = [snd EXCEPT ![a] = "loop"]
    /\ sndIndex' = [sndIndex EXCEPT ![a] = 1]
    /\ OnlySnd /\ UNCHANGED <<sent, recvQueue>>

SndListDone(a) ==
    /\ snd[a] = "send"
    /\ sndIndex[a] > sOut[a].n
    /\ SendQ!Use(a)
    /\ snd' = [snd EXCEPT ![a] = "loop"]
    /\ sndIndex' = [sndIndex EXCEPT ![a] = 1]
    /\ OnlySnd /\ UNCHANGED <<sent, recvQueue>>

\* sendto accepts the packet, ...
SndAccepted(a) ==
    /\ snd[a] = "send"
    /\ sndIndex[a] <= sOut[a].n
    /\ sent' = [sent EXCEPT ![a] = Append(@, sOut[a].list[sndIndex[a]])]
    /\ sndIndex' = [sndIndex EXCEPT ![a] = @ + 1]
    /\ OnlySnd /\ UNCHANGED <<snd, sendQueue, recvQueue>>

\* A variant that steps back over a packet that was sent.
SndWouldBlockStepsBack(a) ==
    /\ snd[a] = "send"
    /\ sndIndex[a] <= sOut[a].n
    /\ sndIndex' = [sndIndex EXCEPT ![a] = IF @ > 1 THEN @ - 1 ELSE @]
    /\ OnlySnd /\ UNCHANGED <<snd, sent, sendQueue, recvQueue>>

\* ... or would block: the loop decrements i and increments it again, ...
SndWouldBlock(a) ==
    /\ snd[a] = "send"
    /\ sndIndex[a] <= sOut[a].n
    /\ OnlySnd /\ UNCHANGED <<snd, sndIndex, sent, sendQueue, recvQueue>>

\* ... or fails, which ends the thread.
SndError(a) ==
    /\ snd[a] = "send"
    /\ sndIndex[a] <= sOut[a].n
    /\ snd' = [snd EXCEPT ![a] = "done"]
    /\ OnlySnd /\ UNCHANGED <<sndIndex, sent, sendQueue, recvQueue>>

-----------------------------------------------------------------------------
(* WorkSocket of a receiver: from the adapter's socket to                  *)
(* recievingPacketQueue.                                                   *)

RcvLoop(a) ==
    /\ rcv[a] = "loop"
    /\ rcv' = [rcv EXCEPT ![a] = IF isRunning THEN "select" ELSE "done"]
    /\ OnlyRcv /\ UNCHANGED <<got, netRead, sendQueue, recvQueue>>

\* select: the one-second timeout, with its own test of isRunning, ...
RcvTimeout(a) ==
    /\ rcv[a] = "select"
    /\ rcv' = [rcv EXCEPT ![a] = IF isRunning THEN "loop" ELSE "done"]
    /\ OnlyRcv /\ UNCHANGED <<got, netRead, sendQueue, recvQueue>>

\* ... or a datagram, ...
RcvReadable(a) ==
    /\ rcv[a] = "select"
    /\ netRead < MaxNet
    /\ rcv' = [rcv EXCEPT ![a] = "recvfrom"]
    /\ OnlyRcv /\ UNCHANGED <<got, netRead, sendQueue, recvQueue>>

RcvPacket(a) ==
    /\ rcv[a] = "recvfrom"
    /\ netRead < MaxNet
    /\ netRead' = netRead + 1
    /\ got' = [got EXCEPT ![a] = netRead + 1]
    /\ rcv' = [rcv EXCEPT ![a] = "push"]
    /\ OnlyRcv /\ UNCHANGED <<sendQueue, recvQueue>>

\* ... or select or recvfrom would block, or the datagram is empty, ...
RcvNothing(a) ==
    /\ rcv[a] \in {"select", "recvfrom"}
    /\ rcv' = [rcv EXCEPT ![a] = "loop"]
    /\ OnlyRcv /\ UNCHANGED <<got, netRead, sendQueue, recvQueue>>

\* ... or one of them fails, which ends the thread.
RcvError(a) ==
    /\ rcv[a] \in {"select", "recvfrom"}
    /\ rcv' = [rcv EXCEPT ![a] = "done"]
    /\ OnlyRcv /\ UNCHANGED <<got, netRead, sendQueue, recvQueue>>

RcvPush(a) ==
    /\ rcv[a] = "push"
    /\ RecvQ!Push(<<a, got[a]>>)
    /\ got' = [got EXCEPT ![a] = 0]
    /\ rcv' = [rcv EXCEPT ![a] = "check"]
    /\ OnlyRcv /\ UNCHANGED <<netRead, sendQueue>>

RcvCheck(a) ==
    /\ rcv[a] = "check"
    /\ rcv' = [rcv EXCEPT ![a] = IF isRunning THEN "loop" ELSE "done"]
    /\ OnlyRcv /\ UNCHANGED <<got, netRead, sendQueue, recvQueue>>

-----------------------------------------------------------------------------
(* Application::shutdown, step by step, in the order of the code.          *)

workerVars == <<rxVars, txVars, sndVars, rcvVars>>

\* A variant that forgets the socket workers.
TunDone == rx = "done" /\ tx = "done"

AllDone ==
    /\ rx = "done" /\ tx = "done"
    /\ \A a \in Adapters : snd[a] = "done" /\ rcv[a] = "done"

ShutdownBegin ==
    /\ ctl = "up"
    /\ ctl' = "exited"
    /\ UNCHANGED <<isRunning, quitEvent, open, sendQueue, recvQueue, workerVars>>

\* A variant that does not clear the flag.
StopRunningForgotten ==
    /\ ctl = "exited"
    /\ ctl' = "stopped"
    /\ UNCHANGED <<isRunning, quitEvent, open, sendQueue, recvQueue, workerVars>>

StopRunning ==
    /\ ctl = "exited"
    /\ isRunning' = FALSE
    /\ ctl' = "stopped"
    /\ UNCHANGED <<quitEvent, open, sendQueue, recvQueue, workerVars>>

\* A variant that does not set the event.
SetQuitEventForgotten ==
    /\ ctl = "stopped"
    /\ ctl' = "signalled"
    /\ UNCHANGED <<isRunning, quitEvent, open, sendQueue, recvQueue, workerVars>>

SetQuitEvent ==
    /\ ctl = "stopped"
    /\ quitEvent' = TRUE
    /\ ctl' = "signalled"
    /\ UNCHANGED <<isRunning, open, sendQueue, recvQueue, workerVars>>

ReleaseSending ==
    /\ ctl = "signalled"
    /\ SendQ!Release
    /\ ctl' = "sendReleased"
    /\ UNCHANGED <<isRunning, quitEvent, open, recvQueue, workerVars>>

ReleaseRecieving ==
    /\ ctl = "sendReleased"
    /\ RecvQ!Release
    /\ ctl' = "released"
    /\ UNCHANGED <<isRunning, quitEvent, open, sendQueue, workerVars>>

\* clearWorkers waits for one worker after the other: in the end, for all.
clearWorkers ==
    /\ ctl = "released"
    /\ AllDone
    /\ ctl' = "joined"
    /\ UNCHANGED <<isRunning, quitEvent, open, sendQueue, recvQueue, workerVars>>

\* One of the frees that follow.
Free(from, resource, to) ==
    /\ ctl = from
    /\ open' = open \ {resource}
    /\ ctl' = to
    /\ UNCHANGED <<isRunning, quitEvent, sendQueue, recvQueue, workerVars>>

closeSockets == Free("joined", "sockets", "socketsClosed")
WintunEndSession == Free("socketsClosed", "session", "sessionEnded")
WintunFreeAdapter == Free("sessionEnded", "adapter", "adapterFreed")
CloseQuitEvent == Free("adapterFreed", "quitEvent", "eventClosed")
ReleaseConf == Free("eventClosed", "conf", "down")

\* Everything has stopped.
Down ==
    /\ ctl = "down"
    /\ UNCHANGED vars

-----------------------------------------------------------------------------
RxStep == RxLoop \/ RxPacket \/ RxNoMoreItems \/ RxError \/ RxPush \/ RxQuitEvent

TxStep == TxLoop \/ TxPop \/ TxItem \/ TxListDone \/ TxWrite

SndStep(a) ==
    \/ SndLoop(a) \/ SndPop(a) \/ SndCheck(a) \/ SndListDone(a)
    \/ SndAccepted(a) \/ SndError(a)

RcvStep(a) ==
    \/ RcvLoop(a) \/ RcvTimeout(a) \/ RcvReadable(a) \/ RcvPacket(a)
    \/ RcvNothing(a) \/ RcvError(a) \/ RcvPush(a) \/ RcvCheck(a)

ShutdownStep ==
    \/ StopRunning \/ SetQuitEvent \/ ReleaseSending \/ ReleaseRecieving
    \/ clearWorkers \/ closeSockets \/ WintunEndSession \/ WintunFreeAdapter
    \/ CloseQuitEvent \/ ReleaseConf

Next ==
    \/ RxStep \/ RxReadEvent
    \/ TxStep
    \/ \E a \in Adapters : SndStep(a) \/ SndWouldBlock(a) \/ RcvStep(a)
    \/ ShutdownBegin \/ ShutdownStep
    \/ Down

Spec == Init /\ [][Next]_vars

(***************************************************************************)
(* Fairness: every thread is scheduled, select returns after its timeout,  *)
(* and a socket does not answer WSAEWOULDBLOCK to the same packet for      *)
(* ever.  The device need not yield packets, nobody need call shutdown.    *)
(***************************************************************************)
Fairness ==
    /\ WF_vars(RxStep) /\ WF_vars(TxStep) /\ WF_vars(ShutdownStep)
    /\ \A a \in Adapters : WF_vars(SndStep(a)) /\ WF_vars(RcvStep(a))

FairSpec == Spec /\ Fairness

-----------------------------------------------------------------------------
(* Properties.                                                             *)

Resources == {"sockets", "session", "adapter", "quitEvent", "conf"}

\* The types of the state of a run: Config, the queues, the threads.
TypeOK ==
    /\ isRunning \in BOOLEAN /\ quitEvent \in BOOLEAN
    /\ ctl \in {"up", "exited", "stopped", "signalled", "sendReleased",
               "released", "joined", "socketsClosed", "sessionEnded",
               "adapterFreed", "eventClosed", "down"}
    /\ open \subseteq Resources
    /\ sq \in Seq(TunPackets) /\ Len(sq) <= QueueBound
    /\ rq \in Seq(NetPackets) /\ Len(rq) <= QueueBound
    /\ sReleased \in BOOLEAN /\ rReleased \in BOOLEAN
    /\ rx \in {"loop", "read", "push", "wait", "done"}
    /\ runFor \in Int /\ runFor <= RunFor
    /\ tx \in {"loop", "pop", "item", "write", "done"}
    /\ snd \in [Adapters -> {"loop", "pop", "check", "send", "done"}]
    /\ rcv \in [Adapters -> {"loop", "select", "recvfrom", "push", "check", "done"}]
    /\ tunRead \in 0 .. MaxTun
    /\ got \in [Adapters -> 0 .. MaxNet]
    /\ netRead \in 0 .. MaxNet
    /\ sent \in [Adapters -> Seq(TunPackets)]
    /\ delivered \in Seq(NetPackets)

\* No worker looks into the null pointer that a released queue returns, or
\* behind the end of its list, although the size that comes with the null
\* pointer may be anything: the workers are protected by testing isRunning,
\* which shutdown() clears before it releases the queues.
NoNullList ==
    /\ tx = "write" =>
         rOut["tx"].list # NULL /\ txIndex \in DOMAIN rOut["tx"].list
    /\ \A a \in Adapters :
         snd[a] = "send" /\ sndIndex[a] <= sOut[a].n =>
            sOut[a].list # NULL /\ sndIndex[a] \in DOMAIN sOut[a].list

\* shutdown() frees nothing that a worker may still use.
NoUseAfterFree ==
    /\ rx # "done" => {"session", "quitEvent", "conf"} \subseteq open
    /\ tx # "done" => {"session", "conf"} \subseteq open
    /\ \A a \in Adapters :
         snd[a] # "done" \/ rcv[a] # "done" => {"sockets", "conf"} \subseteq open

\* A packet of the TUN device is sent by at most one adapter and only once,
\* whatever sendto answers, and each adapter keeps the packets in order.
SentOnceInOrder ==
    \A a, b \in Adapters :
       \A i \in DOMAIN sent[a], j \in DOMAIN sent[b] :
          /\ a # b => sent[a][i] # sent[b][j]
          /\ a = b /\ i < j => sent[a][i] < sent[b][j]

\* The packets of one socket reach the TUN device once, in the order of
\* arrival, whatever the other sockets receive.
DeliveredOnceInOrder ==
    \A i, j \in DOMAIN delivered :
       i < j /\ delivered[i][1] = delivered[j][1]
          => delivered[i][2] < delivered[j][2]

\* Once begun, shutdown() ends: no worker stays in a queue, in select or in
\* the wait for the device, and clearWorkers joins them all.
ShutdownCompletes == ctl # "up" ~> ctl = "down"

InSequence(k, s) == \E i \in DOMAIN s : s[i] = k

\* A packet that ReceivePackets has queued is sent, unless the driver stops
\* or a sender dies of an error.
QueuedPacketsAreSent ==
    \A k \in TunPackets :
       InSequence(k, sq) ~> \/ \E a \in Adapters : InSequence(k, sent[a])
                           \/ ctl # "up"
                           \/ \E a \in Adapters : snd[a] = "done"
=============================================================================
