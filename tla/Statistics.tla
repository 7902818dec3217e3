----------------------------- MODULE Statistics -----------------------------
(***************************************************************************)
(* Class Statistics: the counters that the workers of a run share, and the *)
(* calculator thread that turns them into rates once a second.             *)
(*                                                                         *)
(* The workers and the callers of shutdown() hold the mutex m.  The        *)
(* calculator does not: it copies the byte counts of the current second    *)
(* and then clears them, while `count += n' of a worker is a load and a    *)
(* store.  shutdown() joins the calculator while it holds m.               *)
(*                                                                         *)
(* The class calls bytes bits.  operatingSeconds, which nobody reads, the  *)
(* getters and the lines of the log are left out.                          *)
(***************************************************************************)
EXTENDS Integers, FiniteSets

CONSTANTS
    Senders, Receivers,     \* WorkSocket threads: udpPacketSent, udpPacketRecieved
    TunReaders, TunWriters, \* ReceivePackets, SendPackets: the tun counters
    Stoppers,               \* the threads that call Application::shutdown
    NoOwner,                \* nobody holds the mutex
    Sizes,                  \* the sizes of the packets
    MaxCalls,               \* bound: packets that are counted
    MaxStops                \* bound: calls of shutdown() by each thread

Workers == Senders \cup Receivers \cup TunReaders \cup TunWriters

ASSUME StatisticsAssumption ==
    /\ IsFiniteSet(Workers) /\ IsFiniteSet(Stoppers)
    /\ NoOwner \notin Workers \cup Stoppers
    /\ Workers \cap Stoppers = {}
    /\ Senders \cap Receivers = {}
    /\ (Senders \cup Receivers) \cap (TunReaders \cup TunWriters) = {}
    /\ TunReaders \cap TunWriters = {}
    /\ Sizes \subseteq Nat
    /\ MaxCalls \in Nat /\ MaxStops \in Nat

Directions == {"recv", "sent"}
Kinds == {"udpRecieved", "udpSent", "tunRecieved", "tunSent"}

VARIABLES
    m,              \* who holds the mutex
    packets,        \* the four packet counters
    current,        \* bits...CurrentSecond
    last,           \* bits...LastSecond
    overall,        \* bits...Overall
    maximum,        \* max...Throughput
    isRunning,      \* the calculator has not been joined
    signals,        \* how often exitSignal.set_value() was called
    thread,         \* the object statsCalcuatorThread: "running" or "deleted"
    calc,           \* where the calculator is
    pc,             \* where each worker and each caller of shutdown() is
    reg,            \* what a worker has loaded, and its packet's size
    stops,          \* the calls of shutdown() that each thread has made
    calls,          \* history: the calls of each kind that have counted
    counted,        \* history: the bytes of those calls
    accepted,       \* history: the datagrams that sendto accepted
    refused,        \* history: the calls of sendto that failed
    raced           \* history: the directions in which an update was disturbed

counters == <<packets, current, calls, counted, raced>>
rates == <<last, overall, maximum>>
ending == <<isRunning, signals, thread, stops>>
sendto == <<accepted, refused>>
vars == <<m, counters, rates, ending, calc, pc, reg, sendto>>

Kind(t) == CASE t \in Senders    -> "udpSent"
             [] t \in Receivers  -> "udpRecieved"
             [] t \in TunReaders -> "tunRecieved"
             [] t \in TunWriters -> "tunSent"

\* Only the calls about UDP packets count bytes.
Counts(t, d) == t \in (IF d = "sent" THEN Senders ELSE Receivers)

\* A packet more is within the bound: those counted and those in hand.
CallsLeft ==
    calls["udpRecieved"] + calls["udpSent"] + calls["tunRecieved"] + calls["tunSent"]
      + Cardinality({t \in Workers : pc[t] # "idle"}) < MaxCalls

Goto(t, l) == pc' = [pc EXCEPT ![t] = l]

Zero == [d \in Directions |-> 0]
Empty == [packets |-> 0, bits |-> Zero, size |-> 0]

Init ==
    /\ m = NoOwner
    /\ packets = [k \in Kinds |-> 0] /\ calls = [k \in Kinds |-> 0]
    /\ current = Zero /\ last = Zero /\ overall = Zero /\ maximum = Zero
    /\ counted = Zero /\ raced = {}
    /\ accepted = 0 /\ refused = 0
    /\ isRunning = TRUE /\ signals = 0 /\ thread = "running"
    /\ calc = "wait"
    /\ pc = [t \in Workers \cup Stoppers |-> "idle"]
    /\ reg = [t \in Workers |-> Empty]
    /\ stops = [t \in Stoppers |-> 0]

-----------------------------------------------------------------------------
(* A worker counts a packet.                                               *)

\* External: sendto accepts the datagram, or fails.  WorkSocket looks at the
\* result only after it has counted the packet: it comes back with the same
\* packet when sendto would block, and ends (calls no more) on other errors.
SendTo(t) ==
    /\ t \in Senders /\ pc[t] = "idle" /\ CallsLeft
    /\ \/ accepted' = accepted + 1 /\ refused' = refused
       \/ accepted' = accepted /\ refused' = refused + 1
    /\ Goto(t, "sent")
    /\ UNCHANGED <<m, counters, rates, ending, calc, reg>>

\* The mutex can be taken.  A variant that takes it from its owner.
FreeAnyway == TRUE

Free == m = NoOwner

\* A sender counts the packet it has passed to sendto, every other worker the
\* one it has received or written.
Lock(t) ==
    /\ \/ t \in Senders /\ pc[t] = "sent"
       \/ t \notin Senders /\ pc[t] = "idle" /\ CallsLeft
    /\ Free
    /\ m' = t
    /\ Goto(t, "load")
    /\ UNCHANGED <<counters, rates, ending, calc, reg, sendto>>

Load(t) ==
    /\ pc[t] = "load"
    /\ \E n \in Sizes :
          reg' = [reg EXCEPT ![t] = [packets |-> packets[Kind(t)], bits |-> current, size |-> n]]
    /\ Goto(t, "store")
    /\ UNCHANGED <<m, counters, rates, ending, calc, sendto>>

\* The calculator has copied the count of this second and not yet cleared it.
Copied(d) ==
    calc \in (IF d = "recv" THEN {"copySent", "clearRecv"} ELSE {"clearRecv", "clearSent"})

Store(t) ==
    /\ pc[t] = "store"
    /\ packets' = [packets EXCEPT ![Kind(t)] = reg[t].packets + 1]
    /\ calls' = [calls EXCEPT ![Kind(t)] = @ + 1]
    /\ current' = [d \in Directions |->
                     IF Counts(t, d) THEN reg[t].bits[d] + reg[t].size ELSE current[d]]
    /\ counted' = [d \in Directions |->
                     IF Counts(t, d) THEN counted[d] + reg[t].size ELSE counted[d]]
    /\ raced' = raced \cup {d \in Directions : Counts(t, d) /\ Copied(d)}
    /\ m' = NoOwner
    /\ reg' = [reg EXCEPT ![t] = Empty]
    /\ Goto(t, "idle")
    /\ UNCHANGED <<rates, ending, calc, sendto>>

Work(t) == Load(t) \/ Store(t)

-----------------------------------------------------------------------------
(* calculateStats, without the mutex.                                      *)

\* futureObj is ready.  A variant that never sees it.
ReadyNever == FALSE

Ready == signals > 0

\* wait_for: a second has passed, or exitSignal is set.
Timeout ==
    /\ calc = "wait"
    /\ calc' = IF Ready THEN "ended" ELSE "copyRecv"
    /\ UNCHANGED <<m, counters, rates, ending, pc, reg, sendto>>

\* What is copied.  A variant takes the difference to the second before.
LastSecondDifference(d) == current[d] - last[d]

LastSecond(d) == current[d]

Copy(d) ==
    /\ calc = (IF d = "recv" THEN "copyRecv" ELSE "copySent")
    /\ last' = [last EXCEPT ![d] = LastSecond(d)]
    /\ calc' = IF d = "recv" THEN "copySent" ELSE "clearRecv"
    /\ UNCHANGED <<m, counters, overall, maximum, ending, pc, reg, sendto>>

Clears(d) == calc = IF d = "recv" THEN "clearRecv" ELSE "clearSent"

\* A worker that loads before and stores after the clearing undoes it.
Disturbed(d) == \E t \in Workers : Counts(t, d) /\ pc[t] = "store"

\* What is left in the count.  A variant forgets to clear it.
ClearedNot(d) == current[d]

Cleared(d) == 0

Clear(d) ==
    /\ Clears(d)
    /\ current' = [current EXCEPT ![d] = Cleared(d)]
    /\ raced' = IF Disturbed(d) THEN raced \cup {d} ELSE raced
    /\ calc' = IF d = "recv" THEN "clearSent" ELSE "total"
    /\ UNCHANGED <<m, packets, calls, counted, rates, ending, pc, reg, sendto>>

Total ==
    /\ calc = "total"
    /\ overall' = [d \in Directions |-> overall[d] + last[d]]
    /\ maximum' = [d \in Directions |-> IF last[d] > maximum[d] THEN last[d] ELSE maximum[d]]
    /\ calc' = "wait"
    /\ UNCHANGED <<m, counters, last, ending, pc, reg, sendto>>

Calculate == Timeout \/ (\E d \in Directions : Copy(d) \/ Clear(d)) \/ Total

-----------------------------------------------------------------------------
(* shutdown(), called by Application::shutdown and by the destructor.      *)

StopCall(t) ==
    /\ pc[t] = "idle" /\ stops[t] < MaxStops
    /\ stops' = [stops EXCEPT ![t] = @ + 1]
    /\ Goto(t, "want")
    /\ UNCHANGED <<m, counters, rates, isRunning, signals, thread, calc, reg, sendto>>

\* A second call finds isRunning false and returns.
StopLock(t) ==
    /\ pc[t] = "want" /\ Free
    /\ IF isRunning THEN m' = t /\ Goto(t, "signal")
                    ELSE m' = m /\ Goto(t, "idle")
    /\ UNCHANGED <<counters, rates, ending, calc, reg, sendto>>

StopSignal(t) ==
    /\ pc[t] = "signal"
    /\ signals' = signals + 1
    /\ Goto(t, "join")
    /\ UNCHANGED <<m, counters, rates, isRunning, thread, stops, calc, reg, sendto>>

\* isRunning after the join.  A variant forgets to set it.
RunsOnAsBefore == isRunning

RunsOn == FALSE

StopJoin(t) ==
    /\ pc[t] = "join" /\ calc = "ended"
    /\ thread' = "deleted"
    /\ isRunning' = RunsOn
    /\ m' = NoOwner
    /\ Goto(t, "idle")
    /\ UNCHANGED <<counters, rates, signals, stops, calc, reg, sendto>>

Stop(t) == StopLock(t) \/ StopSignal(t) \/ StopJoin(t)

\* The calculator has ended and nobody calls any more.
Ended ==
    /\ calc = "ended"
    /\ \A t \in Workers \cup Stoppers : pc[t] = "idle"
    /\ UNCHANGED vars

Next ==
    \/ \E t \in Workers : SendTo(t) \/ Lock(t) \/ Work(t)
    \/ \E t \in Stoppers : StopCall(t) \/ Stop(t)
    \/ Calculate
    \/ Ended

Spec == Init /\ [][Next]_vars

(***************************************************************************)
(* Fairness: every thread is scheduled, the calculator's wait ends after a *)
(* second, and the mutex is not given to others for ever.  Nobody need     *)
(* count a packet or call shutdown().                                      *)
(***************************************************************************)
Fairness ==
    /\ WF_vars(Calculate)
    /\ \A t \in Workers : WF_vars(Work(t))
    /\ \A t \in Stoppers : WF_vars(Stop(t))

FairSpec == Spec /\ Fairness

-----------------------------------------------------------------------------
(* Properties.                                                             *)

\* The types of the members of Statistics: no counter is ever negative.
TypeOK ==
    /\ m \in Workers \cup Stoppers \cup {NoOwner}
    /\ packets \in [Kinds -> Nat] /\ calls \in [Kinds -> Nat]
    /\ {current, last, overall, maximum, counted} \subseteq [Directions -> Nat]
    /\ accepted \in Nat /\ refused \in Nat /\ raced \subseteq Directions
    /\ isRunning \in BOOLEAN /\ signals \in Nat /\ thread \in {"running", "deleted"}
    /\ calc \in {"wait", "copyRecv", "copySent", "clearRecv", "clearSent", "total", "ended"}
    /\ pc \in [Workers \cup Stoppers ->
                 {"idle", "sent", "load", "store", "want", "signal", "join"}]
    /\ reg \in [Workers -> [packets : Nat, bits : [Directions -> Nat], size : Sizes \cup {0}]]
    /\ stops \in [Stoppers -> Nat]

\* The senders between sendto and the end of udpPacketSent.
InFlight == {t \in Senders : pc[t] # "idle"}

\* No count of a packet is lost between the threads.  "Messages Sent on udp
\* sockets", which shutdown() logs, lags behind sendto by one packet of each
\* sender that has not counted yet, and else is the number of the calls of
\* sendto: it exceeds the datagrams sent by exactly the calls that failed,
\* since WorkSocket counts before it looks at the result.
PacketsExact ==
    /\ packets = calls
    /\ packets["udpSent"] + Cardinality(InFlight) = accepted + refused

\* The bytes of a direction that the calculator has moved or not yet moved.
Accounted(d) ==
    overall[d] + current[d]
      + (IF calc = "total" \/ (d = "recv" /\ calc = "clearSent") THEN last[d] ELSE 0)

\* The race between a worker's += and the calculator's copy and clear is the
\* only thing that loses bytes or counts them twice: without it every byte is in
\* bits...Overall or waits in bits...CurrentSecond, whatever the order of the
\* steps (what waits there at the end of the run is never added).
ExactButForRaces ==
    \A d \in Directions \ raced : Accounted(d) = counted[d]

\* However many threads shut down, and the destructor after them, the promise
\* is set once (a second set_value throws), and the thread object is deleted
\* only after its thread has ended and is not joined again.
EndsOnce ==
    /\ signals <= 1
    /\ thread = "deleted" => calc = "ended" /\ \A t \in Stoppers : pc[t] # "join"

\* Every call of shutdown() returns, although it waits for the calculator
\* with the mutex in its hand.
StopReturns ==
    \A t \in Stoppers : pc[t] = "want" ~> pc[t] = "idle"
=============================================================================
