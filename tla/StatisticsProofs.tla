-------------------------- MODULE StatisticsProofs --------------------------
(***************************************************************************)
(* Proofs about module Statistics, for every finite set of workers and of  *)
(* callers of shutdown(), every packet size and every number of calls.     *)
(***************************************************************************)
EXTENDS Statistics, TLAPS, FiniteSetTheorems

Threads == Workers \cup Stoppers

\* The steps of the functions of Statistics that hold the mutex m.
Critical == {"load", "store", "signal", "join"}

\* A thread between lock and unlock is the owner of m; a worker is never in
\* shutdown(), a stopper never in a counting function.
Exclusion ==
    /\ \A t \in Threads : pc[t] \in Critical => m = t
    /\ \A t \in Workers : pc[t] \in {"idle", "sent", "load", "store"}
    /\ \A t \in Stoppers : pc[t] \in {"idle", "want", "signal", "join"}

\* What a worker has loaded for a packet counter is what it will overwrite,
\* and for a byte count too, unless the calculator has cleared it in between.
Loaded ==
    \A t \in Workers : pc[t] = "store" =>
       /\ reg[t].packets = packets[Kind(t)]
       /\ \A d \in Directions \ raced : Counts(t, d) => reg[t].bits[d] = current[d]

\* Every call of sendto is counted, or its sender is about to count it.
SentCounted == packets["udpSent"] + Cardinality(InFlight) = accepted + refused

\* What the calculator has copied and not yet cleared is still there.
CopyCurrent ==
    \A d \in Directions \ raced : Copied(d) => last[d] = current[d]

\* Who has set exitSignal, and what has ended.
Ending ==
    /\ signals \in {0, 1}
    /\ \A t \in Stoppers :
          /\ pc[t] = "signal" => isRunning /\ signals = 0
          /\ pc[t] = "join" => isRunning /\ signals = 1
    /\ signals = 1 => ~isRunning \/ \E t \in Stoppers : pc[t] = "join"
    /\ ~isRunning => signals = 1 /\ calc = "ended"
    /\ thread = "deleted" => ~isRunning

\* The inductive invariant.
StatisticsInv ==
    /\ TypeOK /\ Exclusion
    /\ Loaded /\ packets = calls /\ SentCounted
    /\ CopyCurrent /\ ExactButForRaces
    /\ Ending

-----------------------------------------------------------------------------
(* Facts about the operators of the model.                                 *)

\* Each worker counts in one of the four counters, and the senders are the
\* workers that count in udpSent.
LEMMA KindType ==
    ASSUME NEW t \in Workers
    PROVE  /\ Kind(t) \in Kinds
           /\ t \in Senders <=> Kind(t) = "udpSent"
  BY StatisticsAssumption DEF Kind, Kinds, Workers

-----------------------------------------------------------------------------
(* Types.                                                                  *)

LEMMA TypeInit == Init => TypeOK
  <1> SUFFICES ASSUME Init PROVE TypeOK
    OBVIOUS
  <1>1. Zero \in [Directions -> Nat]
    BY DEF Zero
  <1>2. Empty \in [packets : Nat, bits : [Directions -> Nat], size : Sizes \cup {0}]
    BY <1>1 DEF Empty
  <1> HIDE DEF Zero, Empty
  <1>3. pc \in [Threads ->
                  {"idle", "sent", "load", "store", "want", "signal", "join"}]
    BY DEF Init, Threads
  <1> QED
    BY <1>1, <1>2, <1>3 DEF TypeOK, Init

\* The steps of a worker.
LEMMA TypeWorker ==
    ASSUME TypeOK, NEW t \in Workers, SendTo(t) \/ Lock(t) \/ Work(t)
    PROVE  TypeOK'
  <1> USE DEF counters, rates, ending, sendto, Goto
  <1>1. t \in Threads /\ Kind(t) \in Kinds
    BY KindType DEF Threads
  <1>2. CASE Lock(t)
    BY <1>1, <1>2 DEF TypeOK, Threads, Lock
  <1>3. CASE Load(t)
    <2>1. reg' \in [Workers -> [packets : Nat, bits : [Directions -> Nat],
                                size : Sizes \cup {0}]]
      <3>1. PICK n \in Sizes : reg' = [reg EXCEPT ![t] =
                [packets |-> packets[Kind(t)], bits |-> current, size |-> n]]
        BY <1>3 DEF Load
      <3>2. packets[Kind(t)] \in Nat /\ current \in [Directions -> Nat]
        BY <1>1 DEF TypeOK
      <3> QED
        BY <3>1, <3>2 DEF TypeOK
    <2> QED
      BY <1>1, <1>3, <2>1 DEF TypeOK, Threads, Load
  <1>4. CASE Store(t)
    <2>1. /\ reg[t].packets \in Nat /\ reg[t].size \in Nat
          /\ reg[t].bits \in [Directions -> Nat]
      <3>1. reg[t] \in [packets : Nat, bits : [Directions -> Nat], size : Sizes \cup {0}]
        BY DEF TypeOK
      <3>2. Sizes \cup {0} \subseteq Nat
        BY StatisticsAssumption
      <3> QED
        BY <3>1, <3>2
    <2>2. packets' \in [Kinds -> Nat] /\ calls' \in [Kinds -> Nat]
      BY <1>1, <1>4, <2>1 DEF TypeOK, Store
    <2>3. current' \in [Directions -> Nat]
      BY <1>4, <2>1 DEF TypeOK, Store
    <2>4. counted' \in [Directions -> Nat]
      BY <1>4, <2>1 DEF TypeOK, Store
    <2>5. Empty \in [packets : Nat, bits : [Directions -> Nat], size : Sizes \cup {0}]
      BY DEF Empty, Zero
    <2>6. reg' \in [Workers -> [packets : Nat, bits : [Directions -> Nat],
                                size : Sizes \cup {0}]]
      BY <1>4, <2>5 DEF TypeOK, Store
    <2>7. raced' \subseteq Directions
      BY <1>4 DEF TypeOK, Store
    <2> QED
      BY <1>1, <1>4, <2>2, <2>3, <2>4, <2>6, <2>7 DEF TypeOK, Threads, Store
  <1>5. CASE SendTo(t)
    BY <1>1, <1>5 DEF TypeOK, Threads, SendTo
  <1> QED
    BY <1>2, <1>3, <1>4, <1>5 DEF Work

\* The steps of a caller of shutdown().
LEMMA TypeStopper ==
    ASSUME TypeOK, NEW t \in Stoppers, StopCall(t) \/ Stop(t)
    PROVE  TypeOK'
  <1> USE DEF counters, rates, ending, sendto, Goto
  <1>1. t \in Threads
    BY DEF Threads
  <1>2. CASE StopCall(t)
    BY <1>1, <1>2 DEF TypeOK, Threads, StopCall
  <1>3. CASE StopLock(t)
    BY <1>1, <1>3 DEF TypeOK, Threads, StopLock
  <1>4. CASE StopSignal(t)
    BY <1>1, <1>4 DEF TypeOK, Threads, StopSignal
  <1>5. CASE StopJoin(t)
    BY <1>1, <1>5 DEF TypeOK, Threads, StopJoin, RunsOn
  <1> QED
    BY <1>2, <1>3, <1>4, <1>5 DEF Stop

\* The steps of the calculator.
LEMMA TypeCalculator ==
    ASSUME TypeOK, Calculate
    PROVE  TypeOK'
  <1> USE DEF counters, rates, ending, sendto
  <1>1. CASE Timeout
    BY <1>1 DEF TypeOK, Threads, Timeout
  <1>2. ASSUME NEW d \in Directions, Copy(d)
        PROVE  TypeOK'
    BY <1>2 DEF TypeOK, Threads, Copy, LastSecond
  <1>3. ASSUME NEW d \in Directions, Clear(d)
        PROVE  TypeOK'
    BY <1>3 DEF TypeOK, Threads, Clear, Cleared
  <1>4. CASE Total
    <2>1. overall' \in [Directions -> Nat] /\ maximum' \in [Directions -> Nat]
      BY <1>4 DEF TypeOK, Total
    <2> QED
      BY <1>4, <2>1 DEF TypeOK, Threads, Total
  <1> QED
    BY <1>1, <1>2, <1>3, <1>4 DEF Calculate

LEMMA TypeStep == TypeOK /\ [Next]_vars => TypeOK'
  <1> SUFFICES ASSUME TypeOK, [Next]_vars PROVE TypeOK'
    OBVIOUS
  <1>1. CASE UNCHANGED vars
    BY <1>1 DEF TypeOK, vars, counters, rates, ending, sendto
  <1>2. CASE Next
    BY <1>1, <1>2, TypeWorker, TypeStopper, TypeCalculator DEF Next, Ended
  <1> QED
    BY <1>1, <1>2

\* The members of Statistics keep their types, and no counter becomes negative.
THEOREM StatisticsTypes == Spec => []TypeOK
  BY TypeInit, TypeStep, PTL DEF Spec

-----------------------------------------------------------------------------
(* The mutex.                                                              *)

LEMMA ExclusionInit == Init => Exclusion
  BY DEF Init, Exclusion, Threads, Critical

\* Two threads never are between lock and unlock at the same time.
LEMMA Alone ==
    ASSUME Exclusion, NEW t \in Threads, pc[t] \in Critical,
           NEW u \in Threads, pc[u] \in Critical
    PROVE  u = t
  BY DEF Exclusion

\* A thread that finds the mutex free finds nobody between lock and unlock.
LEMMA FreeMeansNobody ==
    ASSUME Exclusion, Free, NEW u \in Threads
    PROVE  pc[u] \notin Critical
  BY StatisticsAssumption DEF Exclusion, Free, Threads

LEMMA ExclusionStep == TypeOK /\ Exclusion /\ [Next]_vars => Exclusion'
  <1> SUFFICES ASSUME TypeOK, Exclusion, [Next]_vars PROVE Exclusion'
    OBVIOUS
  <1> USE StatisticsAssumption DEF Threads, Critical, Goto
  <1>1. ASSUME NEW t \in Workers, Lock(t)
        PROVE  Exclusion'
    BY <1>1, FreeMeansNobody DEF Lock, TypeOK, Exclusion
  <1>2. ASSUME NEW t \in Workers, SendTo(t) \/ Work(t)
        PROVE  Exclusion'
    BY <1>2 DEF Work, Load, Store, SendTo, TypeOK, Exclusion
  <1>3. ASSUME NEW t \in Stoppers, StopCall(t)
        PROVE  Exclusion'
    BY <1>3 DEF StopCall, TypeOK, Exclusion
  <1>4. ASSUME NEW t \in Stoppers, StopLock(t)
        PROVE  Exclusion'
    BY <1>4, FreeMeansNobody DEF StopLock, TypeOK, Exclusion
  <1>5. ASSUME NEW t \in Stoppers, StopSignal(t) \/ StopJoin(t)
        PROVE  Exclusion'
    BY <1>5 DEF StopSignal, StopJoin, TypeOK, Exclusion
  <1>6. CASE Calculate
    BY <1>6 DEF Calculate, Timeout, Copy, Clear, Total, Exclusion
  <1>7. CASE UNCHANGED vars
    BY <1>7 DEF vars, Exclusion
  <1> QED
    BY <1>1, <1>2, <1>3, <1>4, <1>5, <1>6, <1>7 DEF Next, Stop, Ended

-----------------------------------------------------------------------------
(* The counters.                                                           *)

\* A worker's store is a store of what it loaded, increased.
LEMMA StoreAdds ==
    ASSUME TypeOK, Loaded, NEW t \in Workers, Store(t)
    PROVE  /\ packets' = [packets EXCEPT ![Kind(t)] = @ + 1]
           /\ \A d \in Directions \ raced :
                 current'[d] = IF Counts(t, d) THEN current[d] + reg[t].size ELSE current[d]
  BY KindType DEF TypeOK, Loaded, Store

LEMMA LoadedStep ==
    TypeOK /\ Exclusion /\ Loaded /\ [Next]_vars => Loaded'
  <1> SUFFICES ASSUME TypeOK, Exclusion, Loaded, [Next]_vars,
                      NEW u \in Workers, pc'[u] = "store"
               PROVE  /\ reg'[u].packets = packets'[Kind(u)]
                      /\ \A d \in Directions \ raced' :
                            Counts(u, d) => reg'[u].bits[d] = current'[d]
    BY DEF Loaded, Kind, Counts
  <1> USE DEF Goto, counters, rates, ending
  <1>1. ASSUME NEW t \in Workers, Load(t)
        PROVE  /\ reg'[u].packets = packets'[Kind(u)]
               /\ \A d \in Directions \ raced' :
                     Counts(u, d) => reg'[u].bits[d] = current'[d]
    <2>1. CASE u = t
      BY <1>1, <2>1 DEF Load, TypeOK
    <2>2. CASE u # t
      BY <1>1, <2>2 DEF Load, TypeOK, Loaded
    <2> QED
      BY <2>1, <2>2
  <1>2. ASSUME NEW t \in Workers, Store(t)
        PROVE  FALSE
    <2>1. u # t /\ pc[u] = "store" /\ pc[t] = "store"
      BY <1>2 DEF Store, TypeOK
    <2> QED
      BY <2>1, Alone DEF Threads, Critical
  <1>3. ASSUME NEW t \in Workers, Lock(t) \/ SendTo(t)
        PROVE  pc[u] = "store" /\ UNCHANGED <<reg, counters>>
    BY <1>3 DEF Lock, SendTo, TypeOK
  <1>4. ASSUME NEW t \in Stoppers, StopCall(t) \/ Stop(t)
        PROVE  pc[u] = "store" /\ UNCHANGED <<reg, counters>>
    BY <1>4 DEF StopCall, Stop, StopLock, StopSignal, StopJoin, TypeOK
  <1>5. ASSUME NEW e \in Directions, Clear(e)
        PROVE  /\ reg'[u].packets = packets'[Kind(u)]
               /\ \A d \in Directions \ raced' :
                     Counts(u, d) => reg'[u].bits[d] = current'[d]
    <2>1. pc[u] = "store" /\ Counts(u, e) => e \in raced'
      BY <1>5 DEF Clear, Disturbed
    <2> QED
      BY <1>5, <2>1 DEF Clear, TypeOK, Loaded
  <1>6. ASSUME NEW e \in Directions, Copy(e)
        PROVE  pc[u] = "store" /\ UNCHANGED <<reg, counters>>
    BY <1>6 DEF Copy
  <1>7. CASE Timeout \/ Total \/ UNCHANGED vars
    BY <1>7 DEF Timeout, Total, vars, Loaded
  <1>8. CASE pc[u] = "store" /\ UNCHANGED <<reg, counters>>
    BY <1>8 DEF Loaded
  <1> QED
    BY <1>1, <1>2, <1>3, <1>4, <1>5, <1>6, <1>7, <1>8
       DEF Next, Work, Calculate, Ended

\* No count of a packet is lost: the counters are the numbers of the calls.
LEMMA CallsStep ==
    TypeOK /\ Loaded /\ packets = calls /\ [Next]_vars => (packets = calls)'
  <1> SUFFICES ASSUME TypeOK, Loaded, packets = calls, [Next]_vars
               PROVE  packets' = calls'
    OBVIOUS
  <1> USE DEF counters, rates, ending, sendto
  <1>1. ASSUME NEW t \in Workers, Store(t)
        PROVE  packets' = calls'
    BY <1>1, StoreAdds DEF Store
  <1>2. CASE \A t \in Workers : ~Store(t)
    BY <1>2 DEF Next, Lock, Work, Load, SendTo, StopCall, Stop, StopLock, StopSignal,
                StopJoin, Calculate, Timeout, Copy, Clear, Total, Ended, vars
  <1> QED
    BY <1>1, <1>2

LEMMA InFlightFinite == IsFiniteSet(InFlight) /\ Cardinality(InFlight) \in Nat
  BY StatisticsAssumption, FS_Subset, FS_CardinalityType DEF InFlight, Workers

LEMMA SentCountedStep ==
    TypeOK /\ Exclusion /\ Loaded /\ SentCounted /\ [Next]_vars => SentCounted'
  <1> SUFFICES ASSUME TypeOK, Exclusion, Loaded, SentCounted, [Next]_vars
               PROVE  SentCounted'
    OBVIOUS
  <1> USE DEF counters, rates, ending, sendto, Goto
  <1>1. /\ IsFiniteSet(InFlight) /\ Cardinality(InFlight) \in Nat
        /\ accepted \in Nat /\ refused \in Nat /\ packets["udpSent"] \in Nat
    BY InFlightFinite DEF TypeOK, Kinds
  <1>2. ASSUME NEW t \in Workers, Store(t)
        PROVE  SentCounted'
    <2>1. /\ packets' = [packets EXCEPT ![Kind(t)] = @ + 1]
          /\ accepted' = accepted /\ refused' = refused
      BY <1>2, StoreAdds DEF Store
    <2>2. CASE t \in Senders
      <3>1. InFlight' = InFlight \ {t} /\ t \in InFlight
        BY <1>2, <2>2 DEF InFlight, Store, TypeOK
      <3>2. Cardinality(InFlight') = Cardinality(InFlight) - 1
        BY <1>1, <3>1, FS_RemoveElement
      <3>3. packets'["udpSent"] = packets["udpSent"] + 1
        BY <2>1, <2>2, KindType DEF TypeOK
      <3> QED
        BY <1>1, <2>1, <3>2, <3>3 DEF SentCounted
    <2>3. CASE t \notin Senders
      <3>1. InFlight' = InFlight
        BY <1>2, <2>3 DEF InFlight, Store, TypeOK
      <3>2. packets'["udpSent"] = packets["udpSent"]
        BY <2>1, <2>3, KindType DEF TypeOK, Kinds
      <3> QED
        BY <2>1, <3>1, <3>2 DEF SentCounted
    <2> QED
      BY <2>2, <2>3
  <1>3. ASSUME NEW t \in Workers, SendTo(t)
        PROVE  SentCounted'
    <2>1. InFlight' = InFlight \cup {t} /\ t \notin InFlight
      BY <1>3 DEF InFlight, SendTo, TypeOK, Workers
    <2>2. Cardinality(InFlight') = Cardinality(InFlight) + 1
      BY <1>1, <2>1, FS_AddElement
    <2>3. accepted' + refused' = accepted + refused + 1 /\ packets' = packets
      BY <1>1, <1>3 DEF SendTo
    <2> QED
      BY <1>1, <2>2, <2>3 DEF SentCounted
  <1>4. CASE InFlight' = InFlight /\ UNCHANGED <<sendto, packets>>
    BY <1>4 DEF SentCounted
  <1>5. ASSUME NEW t \in Workers, Lock(t) \/ Load(t)
        PROVE  InFlight' = InFlight /\ UNCHANGED <<sendto, packets>>
    BY <1>5 DEF Lock, Load, TypeOK, InFlight, Workers
  <1>6. ASSUME NEW t \in Stoppers, StopCall(t) \/ Stop(t)
        PROVE  InFlight' = InFlight /\ UNCHANGED <<sendto, packets>>
    <2>1. t \notin Senders
      BY StatisticsAssumption DEF Workers
    <2> QED
      BY <1>6, <2>1 DEF StopCall, Stop, StopLock, StopSignal, StopJoin, TypeOK, InFlight,
                        Workers
  <1>7. CASE Calculate \/ UNCHANGED vars
    BY <1>4, <1>7 DEF Calculate, Timeout, Copy, Clear, Total, vars, InFlight
  <1> QED
    BY <1>2, <1>3, <1>4, <1>5, <1>6, <1>7 DEF Next, Work, Ended

-----------------------------------------------------------------------------
(* The bytes.                                                              *)

\* The count of this second, where no race disturbed it.
LEMMA BytesStep ==
    /\ TypeOK /\ Loaded /\ CopyCurrent /\ ExactButForRaces
    /\ [Next]_vars
    => CopyCurrent' /\ ExactButForRaces'
  <1> SUFFICES ASSUME TypeOK, Loaded, CopyCurrent, ExactButForRaces, [Next]_vars,
                      NEW d \in Directions, d \notin raced'
               PROVE  /\ Copied(d)' => last'[d] = current'[d]
                      /\ Accounted(d)' = counted'[d]
    BY DEF CopyCurrent, ExactButForRaces
  <1> DEFINE Goal == /\ Copied(d)' => last'[d] = current'[d]
                     /\ Accounted(d)' = counted'[d]
  <1> USE DEF counters, rates, ending, sendto
  <1>1. d \notin raced
    BY DEF Next, Lock, Work, Load, Store, SendTo, StopCall, Stop, StopLock, StopSignal,
           StopJoin, Calculate, Timeout, Copy, Clear, Total, Ended, vars
  <1>2. /\ Copied(d) => last[d] = current[d]
        /\ Accounted(d) = counted[d]
        /\ current[d] \in Nat /\ last[d] \in Nat /\ overall[d] \in Nat /\ counted[d] \in Nat
    BY <1>1 DEF CopyCurrent, ExactButForRaces, TypeOK
  <1>3. ASSUME NEW t \in Workers, Store(t)
        PROVE  Goal
    <2>1. reg[t].size \in Nat
      <3>1. reg[t] \in [packets : Nat, bits : [Directions -> Nat], size : Sizes \cup {0}]
        BY DEF TypeOK
      <3>2. Sizes \cup {0} \subseteq Nat
        BY StatisticsAssumption
      <3> QED
        BY <3>1, <3>2
    <2>2. current'[d] = IF Counts(t, d) THEN current[d] + reg[t].size ELSE current[d]
      BY <1>1, <1>3, StoreAdds
    <2>3. counted'[d] = IF Counts(t, d) THEN counted[d] + reg[t].size ELSE counted[d]
      BY <1>3 DEF Store
    <2>4. Counts(t, d) => ~Copied(d)
      BY <1>3 DEF Store
    <2>5. UNCHANGED <<last, overall, calc>>
      BY <1>3 DEF Store
    <2> QED
      BY <1>2, <2>1, <2>2, <2>3, <2>4, <2>5 DEF Copied, Accounted
  <1>4. ASSUME NEW e \in Directions, Copy(e)
        PROVE  Goal
    BY <1>2, <1>4 DEF Copy, LastSecond, Copied, Accounted, Directions, TypeOK
  <1>5. ASSUME NEW e \in Directions, Clear(e)
        PROVE  Goal
    BY <1>2, <1>5 DEF Clear, Clears, Cleared, Copied, Accounted, Directions, TypeOK
  <1>6. CASE Total
    BY <1>2, <1>6 DEF Total, Copied, Accounted, Directions, TypeOK
  <1>7. CASE Timeout
    BY <1>2, <1>7 DEF Timeout, Copied, Accounted
  <1>8. CASE UNCHANGED <<current, last, overall, counted, calc>>
    BY <1>2, <1>8 DEF Copied, Accounted
  <1>9. ASSUME NEW t \in Workers, Lock(t) \/ Load(t) \/ SendTo(t)
        PROVE  UNCHANGED <<current, last, overall, counted, calc>>
    BY <1>9 DEF Lock, Load, SendTo
  <1>10. ASSUME NEW t \in Stoppers, StopCall(t) \/ Stop(t)
         PROVE  UNCHANGED <<current, last, overall, counted, calc>>
    BY <1>10 DEF StopCall, Stop, StopLock, StopSignal, StopJoin
  <1>11. CASE UNCHANGED vars
    BY <1>8, <1>11 DEF vars
  <1>12. CASE \E t \in Workers : SendTo(t) \/ Lock(t) \/ Work(t)
    BY <1>3, <1>8, <1>9, <1>12 DEF Work
  <1>13. CASE \E t \in Stoppers : StopCall(t) \/ Stop(t)
    BY <1>8, <1>10, <1>13
  <1>14. CASE Calculate
    BY <1>4, <1>5, <1>6, <1>7, <1>14 DEF Calculate
  <1> QED
    BY <1>11, <1>12, <1>13, <1>14 DEF Next, Ended

-----------------------------------------------------------------------------
(* The end of the calculator.                                              *)

LEMMA EndingStep ==
    TypeOK /\ Exclusion /\ Ending /\ [Next]_vars => Ending'
  <1> SUFFICES ASSUME TypeOK, Exclusion, Ending, [Next]_vars PROVE Ending'
    OBVIOUS
  <1> USE DEF counters, rates, ending, sendto, Goto
  <1>1. ASSUME NEW t \in Workers, SendTo(t) \/ Lock(t) \/ Work(t)
        PROVE  Ending'
    <2>1. UNCHANGED <<ending, calc>>
      BY <1>1 DEF Lock, Work, Load, Store, SendTo
    <2>2. \A u \in Stoppers : pc'[u] = pc[u]
      BY <1>1, StatisticsAssumption DEF Lock, Work, Load, Store, SendTo, TypeOK
    <2> QED
      BY <2>1, <2>2 DEF Ending
  <1>2. ASSUME NEW t \in Stoppers, StopCall(t)
        PROVE  Ending'
    BY <1>2 DEF StopCall, TypeOK, Ending
  <1>3. ASSUME NEW t \in Stoppers, StopLock(t)
        PROVE  Ending'
    <2>1. \A u \in Stoppers : pc[u] # "join" /\ pc[u] # "signal"
      BY <1>3, FreeMeansNobody DEF StopLock, Threads, Critical
    <2>2. isRunning => signals = 0
      BY <2>1 DEF Ending
    <2> QED
      BY <1>3, <2>1, <2>2 DEF StopLock, TypeOK, Ending
  <1>4. ASSUME NEW t \in Stoppers, StopSignal(t)
        PROVE  Ending'
    <2>1. \A u \in Stoppers : u # t => pc[u] # "join" /\ pc[u] # "signal"
      BY <1>4, Alone DEF StopSignal, Threads, Critical
    <2> QED
      BY <1>4, <2>1 DEF StopSignal, TypeOK, Ending
  <1>5. ASSUME NEW t \in Stoppers, StopJoin(t)
        PROVE  Ending'
    <2>1. \A u \in Stoppers : u # t => pc[u] # "join" /\ pc[u] # "signal"
      BY <1>5, Alone DEF StopJoin, Threads, Critical
    <2> QED
      BY <1>5, <2>1 DEF StopJoin, RunsOn, TypeOK, Ending
  <1>6. CASE Calculate
    BY <1>6 DEF Calculate, Timeout, Ready, Copy, Clear, Clears, Total, Ending
  <1>7. CASE UNCHANGED vars
    BY <1>7 DEF vars, Ending
  <1> QED
    BY <1>1, <1>2, <1>3, <1>4, <1>5, <1>6, <1>7 DEF Next, Stop, Ended

-----------------------------------------------------------------------------
(* The theorems.                                                           *)

LEMMA StatisticsInvInit == Init => StatisticsInv
  <1> SUFFICES ASSUME Init PROVE StatisticsInv
    OBVIOUS
  <1>1. SentCounted
    <2>1. InFlight = {}
      BY DEF Init, InFlight, Workers
    <2> QED
      BY <2>1, FS_EmptySet DEF Init, SentCounted, Kinds
  <1>2. Loaded /\ CopyCurrent /\ Ending
    BY DEF Init, Loaded, CopyCurrent, Copied, Ending
  <1>3. ExactButForRaces
    BY DEF Init, ExactButForRaces, Accounted, Zero
  <1> QED
    BY <1>1, <1>2, <1>3, TypeInit, ExclusionInit DEF Init, StatisticsInv

\* The conjunction of what the mutex, the counters, the bytes and the end of
\* the calculator need of each other holds of every state.
THEOREM StatisticsInductive == Spec => []StatisticsInv
  <1>1. StatisticsInv /\ [Next]_vars => StatisticsInv'
    BY TypeStep, ExclusionStep, LoadedStep, CallsStep, SentCountedStep, BytesStep,
       EndingStep
       DEF StatisticsInv
  <1> QED
    BY <1>1, StatisticsInvInit, PTL DEF Spec

\* No count of a packet is lost between the threads, and what is logged as
\* sent are the calls of sendto, refused ones included, but for those that a
\* sender is about to count.
THEOREM StatisticsPackets == Spec => []PacketsExact
  <1>1. StatisticsInv => PacketsExact
    BY DEF StatisticsInv, SentCounted, PacketsExact
  <1> QED
    BY <1>1, StatisticsInductive, PTL

\* Only the race of the calculator with a worker loses bytes or counts them
\* twice.
THEOREM StatisticsBytes == Spec => []ExactButForRaces
  <1>1. StatisticsInv => ExactButForRaces
    BY DEF StatisticsInv
  <1> QED
    BY <1>1, StatisticsInductive, PTL

\* However many threads call shutdown(), the promise is set once and the
\* thread object is deleted once, after its thread has ended.
THEOREM StatisticsEnd == Spec => []EndsOnce
  <1>1. StatisticsInv => EndsOnce
    BY DEF StatisticsInv, Ending, EndsOnce
  <1> QED
    BY <1>1, StatisticsInductive, PTL
=============================================================================
