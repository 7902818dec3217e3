--------------------------- MODULE WinsockProofs ---------------------------
(***************************************************************************)
(* Proofs about module Winsock, for every finite set of connections, of    *)
(* handles and of lists, and every number of adapters.                     *)
(***************************************************************************)
EXTENDS Winsock, TLAPS, FiniteSetTheorems, SequenceTheorems

-----------------------------------------------------------------------------
(* The inductive invariant.                                                *)

\* The connection that the accepting thread counts has no thread yet, and a
\* thread that fills or closes a list has one.
Threads ==
    /\ lpc \in {"load", "store"} => lconn \in Conns /\ cpc[lconn] = "none"
    /\ \A c \in Conns :
          /\ hpc[c] \in {"sockets", "inited", "closing"} => list[c] \in Lists
          /\ hpc[c] = "closing" => at[c] >= 1

\* The connections that nofSockets_ includes.
Counted == {c \in Conns : cpc[c] \in {"serving", "load", "store"}}

\* As long as no update is lost, nofSockets_ counts the listening socket and
\* the connections: it does not reach zero.
Counting == ~raced => nofSockets_ = 1 + Cardinality(Counted)

\* The calls of WSAStartup that initSocket has made for lists which no shutdown
\* has gone through.
Pending == {p \in Lists \X (1 .. Adapters) : p[1] \notin ended /\ p[2] \in opened[p[1]]}

\* What keeps the listening socket open: Winsock's count includes the one of
\* class Socket and the pending ones, and no other object holds the handle.
ListenerKept ==
    ~raced /\ ~blind /\ ~again =>
       /\ owner[Listener] = "listener"
       /\ wsa >= 1 + Cardinality(Pending)
       /\ \A c \in Conns : sock[c] # Listener
       /\ \A l \in Lists : \A i \in DOMAIN udp[l] : udp[l][i] # Listener

\* Without an overlap one thread at a time starts or stops the VPN, exited is
\* as initRun has set it, and udpconfigs is the list that initRun has made.
Alone ==
    ~overlapped =>
       /\ \A c, d \in Conns : Active(c) /\ Active(d) => c = d
       /\ \A c \in Conns :
             /\ hpc[c] \in {"initExited", "starting", "sockets", "inited"} => ~exited
             /\ hpc[c] = "inited" => udpconfigs = list[c]

\* The socket of an adapter in a list of configurations.
InList(l, h) ==
    /\ l \in Lists /\ port[h] \in DOMAIN udp[l]
    /\ udp[l][port[h]] = h /\ port[h] \in opened[l]

\* The thread fills the list with the socket, or closeSockets has still to
\* reach it.
Holder(c, h) ==
    \/ hpc[c] = "sockets" /\ InList(list[c], h)
    \/ /\ InList(udpconfigs, h)
       /\ \/ hpc[c] \in {"inited", "started", "shutdown"} /\ ~exited
          \/ hpc[c] \in {"exiting", "clearing"}
          \/ hpc[c] = "closing" /\ list[c] = udpconfigs /\ at[c] <= 2 * port[h] - 1

Quiet == \A c \in Conns : ~Active(c)

\* A socket whose port is bound was left by a failed start, belongs to the run
\* that is up, or to the thread that starts or stops one.
Known(h) ==
    \/ port[h] = 0 \/ port[h] \in leaked
    \/ InList(udpconfigs, h) /\ ~exited /\ Quiet
    \/ \E c \in Conns : Holder(c, h)

PortsKnown == ~overlapped => \A h \in Handles : Known(h)

WinsockInv == TypeOK /\ Threads /\ Counting /\ ListenerKept /\ Alone /\ PortsKnown

-----------------------------------------------------------------------------
\* The parts of TypeOK: Winsock, the server, the lists, the handlers, the flags.
HandleTypes ==
    /\ wsa \in Nat
    /\ owner \in [Handles -> Conns \cup {"free", "udp", "listener"}]
    /\ port \in [Handles -> 0 .. Adapters]

ServerTypes ==
    /\ nofSockets_ \in Int
    /\ lpc \in {"accept", "load", "store", "terminated"} /\ lconn \in Conns \cup {None}
    /\ cpc \in [Conns -> {"none", "serving", "load", "store", "test"}]
    /\ sock \in [Conns -> Handles \cup {INVALID_SOCKET}]
    /\ reg \in [Conns \cup {"listener"} -> Int]
    /\ raced \in BOOLEAN

ListTypes ==
    /\ udpconfigs \in Lists \cup {NULL} /\ heap \in [Lists -> {"unmade", "live", "deleted"}]
    /\ udp \in [Lists -> Seq(Handles \cup {INVALID_SOCKET})]
    /\ \A l \in Lists : Len(udp[l]) <= Adapters
    /\ opened \in [Lists -> SUBSET (1 .. Adapters)]
    /\ ended \subseteq Lists /\ leaked \subseteq 1 .. Adapters

ThreadTypes ==
    /\ hpc \in [Conns -> HandlerSteps] /\ back \in [Conns -> {"idle", "started", "kill"}]
    /\ list \in [Conns -> Lists \cup {NULL}] /\ at \in [Conns -> 0 .. 2 * Adapters + 1]

FlagTypes ==
    /\ exited \in BOOLEAN /\ startingUp \in BOOLEAN
    /\ blind \in BOOLEAN /\ again \in BOOLEAN /\ overlapped \in BOOLEAN

LEMMA TypeParts ==
    TypeOK <=> HandleTypes /\ ServerTypes /\ ListTypes /\ ThreadTypes /\ FlagTypes
  BY DEF TypeOK, HandleTypes, ServerTypes, ListTypes, ThreadTypes, FlagTypes

LEMMA InitInv == Init => WinsockInv
  <1> SUFFICES ASSUME Init PROVE WinsockInv
    OBVIOUS
  <1> USE WinsockAssumption DEF Init
  <1>1. <<>> \in Seq(Handles \cup {INVALID_SOCKET}) /\ Len(<<>>) = 0 /\ DOMAIN <<>> = {}
    BY EmptySeq
  <1>2. TypeOK
    <2>1. HandleTypes
      BY DEF HandleTypes
    <2>2. ServerTypes
      <3>1. raced \in BOOLEAN
        OBVIOUS
      <3>2. lpc \in {"accept", "load", "store", "terminated"} /\ lconn \in Conns \cup {None}
        OBVIOUS
      <3>3. reg \in [Conns \cup {"listener"} -> Int]
        OBVIOUS
      <3>4. cpc \in [Conns -> {"none", "serving", "load", "store", "test"}]
        OBVIOUS
      <3> QED
        BY <3>1, <3>2, <3>3, <3>4 DEF ServerTypes
    <2>3. ListTypes
      <3>1. udp \in [Lists -> Seq(Handles \cup {INVALID_SOCKET})]
        BY <1>1
      <3>2. \A l \in Lists : Len(udp[l]) <= Adapters
        BY <1>1
      <3>3. opened \in [Lists -> SUBSET (1 .. Adapters)]
        OBVIOUS
      <3>4. heap \in [Lists -> {"unmade", "live", "deleted"}]
        OBVIOUS
      <3> QED
        BY <3>1, <3>2, <3>3, <3>4 DEF ListTypes
    <2>4. ThreadTypes
      <3>1. hpc \in [Conns -> HandlerSteps] /\ back \in [Conns -> {"idle", "started", "kill"}]
        BY DEF HandlerSteps
      <3>2. list \in [Conns -> Lists \cup {NULL}] /\ at \in [Conns -> 0 .. 2 * Adapters + 1]
        OBVIOUS
      <3> QED
        BY <3>1, <3>2 DEF ThreadTypes
    <2>5. FlagTypes
      BY DEF FlagTypes
    <2> QED
      BY <2>1, <2>2, <2>3, <2>4, <2>5, TypeParts
  <1>3. Threads
    BY DEF Threads
  <1>4. Counting
    <2>1. Counted = {}
      BY DEF Counted
    <2> QED
      BY <2>1, FS_EmptySet DEF Counting
  <1>5. ListenerKept
    <2>1. Pending = {}
      BY DEF Pending
    <2>2. \A l \in Lists : DOMAIN udp[l] = {}
      BY <1>1
    <2> QED
      BY <2>1, <2>2, FS_EmptySet DEF ListenerKept
  <1>6. Alone /\ PortsKnown
    BY DEF Alone, Active, PortsKnown, Known
  <1> QED
    BY <1>2, <1>3, <1>4, <1>5, <1>6 DEF WinsockInv

\* A list of configurations grows at its end.
LEMMA ListGrows ==
    ASSUME TypeOK, NEW c \in Conns, list[c] \in Lists,
           NEW h \in Handles \cup {INVALID_SOCKET}, PushConfig(c, h)
    PROVE  /\ udp' \in [Lists -> Seq(Handles \cup {INVALID_SOCKET})]
           /\ \A l \in Lists \ {list[c]} : udp'[l] = udp[l]
           /\ Len(udp[list[c]]) \in Nat /\ Len(udp'[list[c]]) = Len(udp[list[c]]) + 1
           /\ DOMAIN udp[list[c]] = 1 .. Len(udp[list[c]])
           /\ DOMAIN udp'[list[c]] = 1 .. Len(udp[list[c]]) + 1
           /\ \A i \in DOMAIN udp[list[c]] : udp'[list[c]][i] = udp[list[c]][i]
           /\ udp'[list[c]][Len(udp[list[c]]) + 1] = h
  <1> DEFINE S == Seq(Handles \cup {INVALID_SOCKET})
             s == udp[list[c]]
  <1>1. udp \in [Lists -> S] /\ s \in S
    BY DEF TypeOK
  <1>2. udp' = [udp EXCEPT ![list[c]] = Append(s, h)]
    BY DEF PushConfig
  <1>3. Len(s) \in Nat /\ DOMAIN s = 1 .. Len(s)
    BY <1>1, LenProperties
  <1>4. /\ Append(s, h) \in S /\ Len(Append(s, h)) = Len(s) + 1
        /\ \A i \in 1 .. Len(s) : Append(s, h)[i] = s[i]
        /\ Append(s, h)[Len(s) + 1] = h
    BY <1>1, AppendProperties
  <1>5. DOMAIN Append(s, h) = 1 .. Len(s) + 1
    BY <1>4, LenProperties
  <1>6. /\ udp' \in [Lists -> S] /\ udp'[list[c]] = Append(s, h)
        /\ \A l \in Lists \ {list[c]} : udp'[l] = udp[l]
    <2> HIDE DEF S
    <2> QED
      BY <1>1, <1>2, <1>4
  <1> QED
    BY <1>3, <1>4, <1>5, <1>6

ListenerStep == AcceptThrows \/ StartLoad \/ StartStore

LEMMA NextCases ==
    ASSUME [Next]_vars
    PROVE  \/ \E c \in Conns : ConnectionStep(c) \/ StartStep(c) \/ StopStep(c)
           \/ ListenerStep \/ UNCHANGED vars
  BY DEF Next, Idle, Terminated, ListenerStep

\* What a handler leaves alone.
LEMMA HandlerFrame ==
    ASSUME NEW c \in Conns, StartStep(c) \/ StopStep(c)
    PROVE  /\ UNCHANGED <<nofSockets_, lconn, cpc, sock, reg, raced>>
           /\ lpc' \in {lpc, "terminated"}
  <1> USE DEF server
  <1>1. CASE StartStep(c)
    BY <1>1 DEF StartStep, StartTest, StartGoesOn, InitExited, InitStartingUp, InitReturns,
                WintunFails, NewConfigs, InitSocket, InitNoSocket, InitSocketFails, InitDone,
                StartFails, FailedExited, NoResult, Run, StartEnds
  <1>2. CASE StopStep(c)
    BY <1>2 DEF StopStep, StopTest, StopGoesOn, Kill, KillRound, ShutdownTest,
                ShutdownExited, CloseFirst, CloseNext, CleanUp, DeleteConfigs, Fault
  <1> QED
    BY <1>1, <1>2

LEMMA ServerFrame ==
    ASSUME NEW c \in Conns, ConnectionStep(c) \/ ListenerStep
    PROVE  UNCHANGED vpn
  BY DEF ConnectionStep, Accept, Finish, EndLoad, EndStore, EndTest,
         ListenerStep, AcceptThrows, StartLoad, StartStore

-----------------------------------------------------------------------------
(* Types, threads and counters.                                            *)

VpnTypes == ListTypes /\ ThreadTypes /\ FlagTypes

LEMMA VpnStays ==
    ASSUME VpnTypes, UNCHANGED vpn
    PROVE  VpnTypes'
  <1>1. ListTypes'
    BY DEF VpnTypes, ListTypes, vpn, lists, history
  <1>2. ThreadTypes'
    BY DEF VpnTypes, ThreadTypes, vpn, thread
  <1>3. FlagTypes'
    BY DEF VpnTypes, FlagTypes, vpn, flags, history
  <1> QED
    BY <1>1, <1>2, <1>3 DEF VpnTypes

LEMMA TypePartsNext ==
    HandleTypes' /\ ServerTypes' /\ ListTypes' /\ ThreadTypes' /\ FlagTypes' => TypeOK'
  BY DEF TypeOK, HandleTypes, ServerTypes, ListTypes, ThreadTypes, FlagTypes

LEMMA TypeConnection ==
    ASSUME WinsockInv, NEW c \in Conns, ConnectionStep(c)
    PROVE  TypeOK' /\ Threads'
  <1> USE WinsockAssumption
  <1>1. HandleTypes /\ ServerTypes /\ VpnTypes /\ Threads
    BY TypeParts DEF WinsockInv, VpnTypes
  <1>2. HandleTypes'
    <2>1. CASE Accept(c)
      <3>1. PICK h \in FreeHandles : Own(h, c, 0)
        BY <2>1 DEF Accept
      <3>2. owner' = [owner EXCEPT ![h] = c] /\ port' = [port EXCEPT ![h] = 0] /\ wsa' = wsa
        BY <2>1, <3>1 DEF Accept, Own
      <3>3. h \in Handles
        BY DEF FreeHandles
      <3>4. owner' \in [Handles -> Conns \cup {"free", "udp", "listener"}]
        BY <1>1, <3>2, <3>3 DEF HandleTypes
      <3>5. port' \in [Handles -> 0 .. Adapters]
        BY <1>1, <3>2, <3>3 DEF HandleTypes
      <3> QED
        BY <1>1, <3>2, <3>4, <3>5 DEF HandleTypes
    <2>2. CASE Finish(c)
      BY <1>1, <2>2 DEF Finish, closesocket, Own, handles, HandleTypes
    <2>3. CASE EndLoad(c) \/ EndStore(c)
      BY <1>1, <2>3 DEF EndLoad, EndStore, handles, HandleTypes
    <2>4. CASE EndTest(c)
      BY <1>1, <2>4 DEF EndTest, WSACleanup, handles, HandleTypes
    <2> QED
      BY <2>1, <2>2, <2>3, <2>4 DEF ConnectionStep
  <1>3. ServerTypes'
    <2>1. CASE Accept(c)
      <3>1. PICK h \in FreeHandles : sock' = [sock EXCEPT ![c] = h]
        BY <2>1 DEF Accept
      <3>2. h \in Handles
        BY DEF FreeHandles
      <3> QED
        BY <1>1, <2>1, <3>1, <3>2 DEF Accept, ServerTypes
    <2>2. CASE Finish(c) \/ EndLoad(c) \/ EndTest(c)
      BY <1>1, <2>2 DEF Finish, EndLoad, EndTest, ServerTypes
    <2>3. CASE EndStore(c)
      BY <1>1, <2>3 DEF EndStore, ServerTypes
    <2> QED
      BY <2>1, <2>2, <2>3 DEF ConnectionStep
  <1>4. UNCHANGED vpn
    BY ServerFrame
  <1>5. VpnTypes'
    BY <1>1, <1>4, VpnStays
  <1>6. Threads'
    <2>1. UNCHANGED <<hpc, list, at>>
      BY <1>4 DEF vpn, thread
    <2>2. lpc' \in {"load", "store"} => lconn' \in Conns /\ cpc'[lconn'] = "none"
      BY <1>1 DEF ConnectionStep, Accept, Finish, EndLoad, EndStore, EndTest,
                  Threads, ServerTypes
    <2> QED
      BY <1>1, <2>1, <2>2 DEF Threads
  <1>7. TypeOK'
    BY <1>2, <1>3, <1>5, TypePartsNext DEF VpnTypes
  <1> QED
    BY <1>6, <1>7

LEMMA TypeListener ==
    ASSUME WinsockInv, ListenerStep
    PROVE  TypeOK' /\ Threads'
  <1> USE WinsockAssumption DEF ListenerStep, AcceptThrows, StartLoad, StartStore
  <1>1. HandleTypes /\ ServerTypes /\ VpnTypes /\ Threads
    BY TypeParts DEF WinsockInv, VpnTypes
  <1>2. HandleTypes' /\ VpnTypes'
    <2>1. UNCHANGED handles /\ UNCHANGED vpn /\ wsa' \in {wsa, wsa + 1}
      OBVIOUS
    <2>2. HandleTypes'
      BY <1>1, <2>1 DEF handles, HandleTypes
    <2>3. VpnTypes'
      BY <1>1, <2>1, VpnStays
    <2> QED
      BY <2>2, <2>3
  <1>3. ServerTypes'
    <2>1. CASE AcceptThrows \/ StartLoad
      BY <1>1, <2>1 DEF ServerTypes
    <2>2. CASE StartStore
      <3>1. raced' \in BOOLEAN
        BY <2>2
      <3>2. nofSockets_' \in Int
        BY <1>1, <2>2 DEF ServerTypes
      <3>3. reg' \in [Conns \cup {"listener"} -> Int]
        BY <1>1, <2>2 DEF ServerTypes
      <3>4. cpc' \in [Conns -> {"none", "serving", "load", "store", "test"}]
        BY <1>1, <2>2 DEF ServerTypes
      <3> QED
        BY <1>1, <2>2, <3>1, <3>2, <3>3, <3>4 DEF ServerTypes
    <2> QED
      BY <2>1, <2>2
  <1>4. Threads'
    BY <1>1 DEF Threads, vpn, thread
  <1>5. TypeOK'
    BY <1>2, <1>3, TypePartsNext DEF VpnTypes
  <1> QED
    BY <1>4, <1>5

\* The thread of a handler moves, and no other does.
OwnMove(c) ==
    /\ \/ hpc' = hpc \/ \E s \in HandlerSteps : hpc' = [hpc EXCEPT ![c] = s]
    /\ \/ back' = back \/ \E s \in {"idle", "started", "kill"} : back' = [back EXCEPT ![c] = s]
    /\ \/ list' = list \/ \E l \in Lists \cup {NULL} : list' = [list EXCEPT ![c] = l]
    /\ \/ at' = at \/ \E n \in 0 .. 2 * Adapters + 1 : at' = [at EXCEPT ![c] = n]

\* What Threads says of it.
OwnThread(c) ==
    /\ hpc[c] \in {"sockets", "inited", "closing"} => list[c] \in Lists
    /\ hpc[c] = "closing" => at[c] >= 1

LEMMA MovesStart ==
    ASSUME WinsockInv, NEW c \in Conns, StartStep(c)
    PROVE  OwnMove(c) /\ OwnThread(c)'
  <1> USE DEF thread, Goto, Forget
  <1>1. ThreadTypes /\ OwnThread(c)
    BY TypeParts DEF WinsockInv, Threads, OwnThread
  <1>2. CASE StartTest(c) \/ StartGoesOn(c) \/ InitExited(c) \/ InitStartingUp(c)
    <2>1. OwnMove(c)
      BY <1>1, <1>2 DEF StartTest, StartGoesOn, InitExited, InitStartingUp, OwnMove, ThreadTypes, HandlerSteps
    <2>2. OwnThread(c)'
      BY <1>1, <1>2 DEF StartTest, StartGoesOn, InitExited, InitStartingUp, OwnThread, ThreadTypes
    <2> QED
      BY <2>1, <2>2
  <1>3. CASE InitReturns(c) \/ WintunFails(c) \/ FailedExited(c) \/ StartEnds(c)
    <2>1. OwnMove(c)
      BY <1>1, <1>3 DEF InitReturns, WintunFails, FailedExited, StartEnds, OwnMove, ThreadTypes, HandlerSteps
    <2>2. OwnThread(c)'
      BY <1>1, <1>3 DEF InitReturns, WintunFails, FailedExited, StartEnds, OwnThread, ThreadTypes
    <2> QED
      BY <2>1, <2>2
  <1>4. CASE NewConfigs(c)
    <2>1. OwnMove(c)
      BY <1>1, <1>4 DEF NewConfigs, OwnMove, ThreadTypes, HandlerSteps
    <2>2. OwnThread(c)'
      BY <1>1, <1>4 DEF NewConfigs, OwnThread, ThreadTypes
    <2> QED
      BY <2>1, <2>2
  <1>5. CASE InitSocket(c) \/ InitNoSocket(c) \/ InitSocketFails(c)
    <2>1. OwnMove(c)
      BY <1>1, <1>5 DEF InitSocket, InitNoSocket, InitSocketFails, OwnMove, ThreadTypes, HandlerSteps
    <2>2. OwnThread(c)'
      BY <1>1, <1>5 DEF InitSocket, InitNoSocket, InitSocketFails, OwnThread, ThreadTypes
    <2> QED
      BY <2>1, <2>2
  <1>6. CASE InitDone(c)
    <2>1. OwnMove(c)
      BY <1>1, <1>6 DEF InitDone, OwnMove, ThreadTypes, HandlerSteps
    <2>2. OwnThread(c)'
      BY <1>1, <1>6 DEF InitDone, OwnThread, ThreadTypes
    <2> QED
      BY <2>1, <2>2
  <1>7. CASE StartFails(c) \/ NoResult(c)
    <2>1. OwnMove(c)
      BY <1>1, <1>7 DEF StartFails, NoResult, OwnMove, ThreadTypes, HandlerSteps
    <2>2. OwnThread(c)'
      BY <1>1, <1>7 DEF StartFails, NoResult, OwnThread, ThreadTypes
    <2> QED
      BY <2>1, <2>2
  <1>8. CASE Run(c)
    <2>1. OwnMove(c)
      BY <1>1, <1>8 DEF Run, OwnMove, ThreadTypes, HandlerSteps
    <2>2. OwnThread(c)'
      BY <1>1, <1>8 DEF Run, OwnThread, ThreadTypes
    <2> QED
      BY <2>1, <2>2
  <1> QED
    BY <1>2, <1>3, <1>4, <1>5, <1>6, <1>7, <1>8 DEF StartStep

LEMMA MovesStop ==
    ASSUME WinsockInv, NEW c \in Conns, StopStep(c)
    PROVE  OwnMove(c) /\ OwnThread(c)'
  <1> USE DEF thread, Goto, Forget, Return
  <1>1. ThreadTypes /\ OwnThread(c) /\ ListTypes
    BY TypeParts DEF WinsockInv, Threads, OwnThread
  <1>2. CASE StopTest(c) \/ StopGoesOn(c) \/ Kill(c) \/ KillRound(c)
    <2>1. OwnMove(c)
      BY <1>1, <1>2 DEF StopTest, StopGoesOn, Kill, KillRound, OwnMove, ThreadTypes, HandlerSteps
    <2>2. OwnThread(c)'
      BY <1>1, <1>2 DEF StopTest, StopGoesOn, Kill, KillRound, OwnThread, ThreadTypes
    <2> QED
      BY <2>1, <2>2
  <1>3. CASE ShutdownTest(c)
    <2>1. OwnMove(c)
      BY <1>1, <1>3 DEF ShutdownTest, OwnMove, ThreadTypes, HandlerSteps
    <2>2. OwnThread(c)'
      BY <1>1, <1>3 DEF ShutdownTest, OwnThread, ThreadTypes
    <2> QED
      BY <2>1, <2>2
  <1>4. CASE ShutdownExited(c)
    <2>1. OwnMove(c)
      BY <1>1, <1>4 DEF ShutdownExited, OwnMove, ThreadTypes, HandlerSteps
    <2>2. OwnThread(c)'
      BY <1>1, <1>4 DEF ShutdownExited, OwnThread, ThreadTypes
    <2> QED
      BY <2>1, <2>2
  <1>5. CASE CloseFirst(c)
    <2>0. udpconfigs \in Lists /\ 1 \in 0 .. 2 * Adapters + 1
      BY <1>1, <1>5, WinsockAssumption DEF CloseFirst, ListTypes
    <2>1. OwnMove(c)
      BY <1>5, <2>0 DEF CloseFirst, OwnMove, HandlerSteps
    <2>2. OwnThread(c)'
      BY <1>1, <1>5, <2>0 DEF CloseFirst, OwnThread, ThreadTypes
    <2> QED
      BY <2>1, <2>2
  <1>6. CASE CloseNext(c)
    <2>0. at[c] + 1 \in 0 .. 2 * Adapters + 1
      <3>1. list[c] \in Lists /\ at[c] \in Nat
        BY <1>1, <1>6 DEF CloseNext, OwnThread, ThreadTypes
      <3>2. Len(udp[list[c]]) <= Adapters /\ udp[list[c]] \in Seq(Handles \cup {INVALID_SOCKET})
        BY <1>1, <3>1 DEF ListTypes
      <3>3. Len(udp[list[c]]) \in Nat
        BY <3>2, LenProperties
      <3> QED
        BY <1>6, <3>1, <3>2, <3>3, WinsockAssumption DEF CloseNext, LastConfig
    <2>1. OwnMove(c)
      BY <1>6, <2>0 DEF CloseNext, OwnMove
    <2>2. OwnThread(c)'
      BY <1>1, <1>6 DEF CloseNext, OwnThread, ThreadTypes
    <2> QED
      BY <2>1, <2>2
  <1>7. CASE CleanUp(c)
    <2>0. 0 \in 0 .. 2 * Adapters + 1
      BY WinsockAssumption
    <2>1. OwnMove(c)
      BY <1>7, <2>0 DEF CleanUp, OwnMove, HandlerSteps
    <2>2. OwnThread(c)'
      BY <1>1, <1>7 DEF CleanUp, OwnThread, ThreadTypes
    <2> QED
      BY <2>1, <2>2
  <1>8. CASE DeleteConfigs(c)
    <2>1. OwnMove(c)
      BY <1>1, <1>8 DEF DeleteConfigs, OwnMove, ThreadTypes, HandlerSteps
    <2>2. OwnThread(c)'
      BY <1>1, <1>8 DEF DeleteConfigs, OwnThread, ThreadTypes
    <2> QED
      BY <2>1, <2>2
  <1>9. CASE Fault(c)
    <2>1. OwnMove(c)
      BY <1>1, <1>9 DEF Fault, vpn, OwnMove, ThreadTypes, HandlerSteps
    <2>2. OwnThread(c)'
      BY <1>1, <1>9 DEF Fault, vpn, OwnThread, ThreadTypes
    <2> QED
      BY <2>1, <2>2
  <1> QED
    BY <1>2, <1>3, <1>4, <1>5, <1>6, <1>7, <1>8, <1>9 DEF StopStep

\* The other threads' steps, lists and positions stay.
LEMMA OthersStay ==
    ASSUME WinsockInv, NEW c \in Conns, StartStep(c) \/ StopStep(c)
    PROVE  /\ ThreadTypes'
           /\ OwnThread(c)'
           /\ \A d \in Conns \ {c} : hpc'[d] = hpc[d] /\ list'[d] = list[d] /\ at'[d] = at[d]
  <1>1. OwnMove(c) /\ OwnThread(c)'
    BY MovesStart, MovesStop
  <1>2. ThreadTypes
    BY TypeParts DEF WinsockInv
  <1> QED
    BY <1>1, <1>2 DEF OwnMove, ThreadTypes

\* The steps that change flags and threads only.
PlainStep(c) ==
    \/ StartTest(c) \/ StartGoesOn(c) \/ InitExited(c) \/ InitStartingUp(c)
    \/ InitReturns(c) \/ WintunFails(c) \/ FailedExited(c) \/ NoResult(c) \/ Run(c)
    \/ StartEnds(c) \/ StopTest(c) \/ StopGoesOn(c) \/ Kill(c) \/ KillRound(c)
    \/ ShutdownTest(c) \/ ShutdownExited(c) \/ CloseFirst(c) \/ Fault(c)

InitStep(c) == InitSocket(c) \/ InitNoSocket(c) \/ InitSocketFails(c)

LEMMA HandlerCases ==
    ASSUME NEW c \in Conns, StartStep(c) \/ StopStep(c)
    PROVE  \/ PlainStep(c) \/ NewConfigs(c) \/ InitStep(c) \/ InitDone(c)
           \/ StartFails(c) \/ CloseNext(c) \/ CleanUp(c) \/ DeleteConfigs(c)
  BY DEF StartStep, StopStep, PlainStep, InitStep

LEMMA PlainFrame ==
    ASSUME NEW c \in Conns, PlainStep(c)
    PROVE  /\ UNCHANGED <<wsa, owner, port, udpconfigs, udp, heap, opened>>
           /\ UNCHANGED <<ended, blind, again, leaked>>
  <1> USE DEF handles, lists, history, vpn
  <1>1. CASE \/ StartTest(c) \/ StartGoesOn(c) \/ InitExited(c) \/ InitStartingUp(c)
             \/ InitReturns(c) \/ WintunFails(c) \/ FailedExited(c) \/ NoResult(c) \/ Run(c)
    BY <1>1 DEF StartTest, StartGoesOn, InitExited, InitStartingUp, InitReturns, WintunFails,
                FailedExited, NoResult, Run
  <1>2. CASE \/ StartEnds(c) \/ StopTest(c) \/ StopGoesOn(c) \/ Kill(c) \/ KillRound(c)
             \/ ShutdownTest(c) \/ ShutdownExited(c) \/ CloseFirst(c) \/ Fault(c)
    BY <1>2 DEF StartEnds, StopTest, StopGoesOn, Kill, KillRound, ShutdownTest,
                ShutdownExited, CloseFirst, Fault
  <1> QED
    BY <1>1, <1>2 DEF PlainStep

\* What a thread that fills a list puts into it.
LEMMA InitPushes ==
    ASSUME WinsockInv, NEW c \in Conns, InitStep(c)
    PROVE  /\ hpc[c] = "sockets" /\ list[c] \in Lists
           /\ Len(udp[list[c]]) \in Nat /\ NextAdapter(c) \in 1 .. Adapters
           /\ UNCHANGED <<exited, udpconfigs, heap, thread, history>>
           /\ \E h \in Handles \cup {INVALID_SOCKET} :
                 /\ PushConfig(c, h) /\ (h \in FreeHandles \/ h = INVALID_SOCKET)
                 /\ \/ UNCHANGED <<wsa, owner, port, opened>>
                    \/ /\ wsa' = wsa + 1 /\ h \in FreeHandles
                       /\ owner' = [owner EXCEPT ![h] = "udp"]
                       /\ port' = [port EXCEPT ![h] = NextAdapter(c)]
                       /\ opened' = [opened EXCEPT ![list[c]] = @ \cup {NextAdapter(c)}]
  <1> USE DEF InitStep, InitSocket, InitNoSocket, InitSocketFails
  <1>1. hpc[c] = "sockets" /\ NextAdapter(c) <= Adapters
    BY DEF Initialising
  <1>2. list[c] \in Lists
    BY <1>1 DEF WinsockInv, Threads
  <1>3. Len(udp[list[c]]) \in Nat
    <2>1. udp[list[c]] \in Seq(Handles \cup {INVALID_SOCKET})
      BY <1>2 DEF WinsockInv, TypeOK
    <2> QED
      BY <2>1, LenProperties
  <1>4. NextAdapter(c) \in 1 .. Adapters
    BY <1>1, <1>3, WinsockAssumption DEF NextAdapter
  <1>5. UNCHANGED <<exited, udpconfigs, heap, thread, history>>
    BY DEF flags
  <1> DEFINE Pushed ==
               \E h \in Handles \cup {INVALID_SOCKET} :
                 /\ PushConfig(c, h) /\ (h \in FreeHandles \/ h = INVALID_SOCKET)
                 /\ \/ UNCHANGED <<wsa, owner, port, opened>>
                    \/ /\ wsa' = wsa + 1 /\ h \in FreeHandles
                       /\ owner' = [owner EXCEPT ![h] = "udp"]
                       /\ port' = [port EXCEPT ![h] = NextAdapter(c)]
                       /\ opened' = [opened EXCEPT ![list[c]] = @ \cup {NextAdapter(c)}]
  <1>6. ASSUME InitSocket(c) PROVE Pushed
    <2>1. PICK h \in FreeHandles : Own(h, "udp", NextAdapter(c)) /\ PushConfig(c, h)
      BY <1>6
    <2>2. h \in Handles
      BY DEF FreeHandles
    <2> QED
      BY <1>6, <2>1, <2>2 DEF Own
  <1>7. ASSUME InitNoSocket(c) PROVE Pushed
    BY <1>7 DEF handles
  <1>8. ASSUME InitSocketFails(c) PROVE Pushed
    <2>1. PICK h \in FreeHandles : PushConfig(c, h)
      BY <1>8
    <2>2. h \in Handles
      BY DEF FreeHandles
    <2> QED
      BY <1>8, <2>1, <2>2 DEF handles
  <1> QED
    BY <1>1, <1>2, <1>3, <1>4, <1>5, <1>6, <1>7, <1>8

LEMMA TypeHandles ==
    ASSUME WinsockInv, NEW c \in Conns, StartStep(c) \/ StopStep(c)
    PROVE  HandleTypes'
  <1>1. HandleTypes
    BY TypeParts DEF WinsockInv
  <1>2. CASE UNCHANGED <<wsa, owner, port>>
    BY <1>1, <1>2 DEF HandleTypes
  <1>3. CASE InitStep(c)
    <2>1. PICK h \in Handles \cup {INVALID_SOCKET} :
             \/ UNCHANGED <<wsa, owner, port>>
             \/ /\ wsa' = wsa + 1 /\ h \in FreeHandles
                /\ owner' = [owner EXCEPT ![h] = "udp"]
                /\ port' = [port EXCEPT ![h] = NextAdapter(c)]
      BY <1>3, InitPushes
    <2> DEFINE n == NextAdapter(c)
    <2>2. n \in 0 .. Adapters
      BY <1>3, InitPushes, WinsockAssumption
    <2>3. CASE /\ wsa' = wsa + 1 /\ h \in FreeHandles
               /\ owner' = [owner EXCEPT ![h] = "udp"]
               /\ port' = [port EXCEPT ![h] = n]
      <3> HIDE DEF n
      <3>1. owner' \in [Handles -> Conns \cup {"free", "udp", "listener"}]
        BY <1>1, <2>3 DEF HandleTypes
      <3>2. port' \in [Handles -> 0 .. Adapters]
        BY <1>1, <2>2, <2>3 DEF HandleTypes
      <3> QED
        BY <1>1, <2>3, <3>1, <3>2 DEF HandleTypes
    <2> QED
      BY <1>2, <2>1, <2>3
  <1>4. CASE CloseNext(c)
    <2>1. owner' \in [Handles -> Conns \cup {"free", "udp", "listener"}]
      <3>1. owner' = owner \/ \E h : owner' = [owner EXCEPT ![h] = "free"]
        BY <1>4 DEF CloseNext, closesocket, Own, handles
      <3> QED
        BY <1>1, <3>1 DEF HandleTypes
    <2>2. port' \in [Handles -> 0 .. Adapters]
      <3>1. port' = port \/ \E h : port' = [port EXCEPT ![h] = 0]
        BY <1>4 DEF CloseNext, closesocket, Own, handles
      <3> QED
        BY <1>1, <3>1, WinsockAssumption DEF HandleTypes
    <2> QED
      BY <1>1, <1>4, <2>1, <2>2 DEF CloseNext, HandleTypes
  <1>5. CASE CleanUp(c)
    BY <1>1, <1>5, WinsockAssumption DEF CleanUp, shutdownWSA, WSACleanup, handles, HandleTypes
  <1>6. CASE NewConfigs(c) \/ InitDone(c) \/ StartFails(c) \/ DeleteConfigs(c)
    <2>1. UNCHANGED <<wsa, owner, port>>
      BY <1>6 DEF NewConfigs, InitDone, StartFails, DeleteConfigs, handles
    <2> QED
      BY <1>2, <2>1
  <1> QED
    BY <1>2, <1>3, <1>4, <1>5, <1>6, HandlerCases, PlainFrame

LEMMA TypeLists ==
    ASSUME WinsockInv, NEW c \in Conns, StartStep(c) \/ StopStep(c)
    PROVE  ListTypes'
  <1>1. ListTypes /\ ThreadTypes
    BY TypeParts DEF WinsockInv
  <1> DEFINE S == Seq(Handles \cup {INVALID_SOCKET})
  <1>2. <<>> \in S /\ Len(<<>>) <= Adapters
    BY EmptySeq, WinsockAssumption
  <1>3. CASE PlainStep(c)
    BY <1>1, <1>3, PlainFrame DEF ListTypes
  <1>4. CASE NewConfigs(c)
    BY <1>1, <1>4 DEF NewConfigs, history, ListTypes
  <1>5. CASE InitStep(c)
    <2>1. PICK h \in Handles \cup {INVALID_SOCKET} :
             /\ PushConfig(c, h)
             /\ \/ opened' = opened
                \/ opened' = [opened EXCEPT ![list[c]] = @ \cup {NextAdapter(c)}]
      BY <1>5, InitPushes
    <2>2. list[c] \in Lists /\ NextAdapter(c) \in 1 .. Adapters
      BY <1>5, InitPushes
    <2>3. /\ udp' \in [Lists -> S] /\ Len(udp[list[c]]) \in Nat
          /\ \A l \in Lists \ {list[c]} : udp'[l] = udp[l]
          /\ Len(udp'[list[c]]) = Len(udp[list[c]]) + 1
      BY <2>1, <2>2, ListGrows DEF WinsockInv
    <2>4. \A l \in Lists : Len(udp'[l]) <= Adapters
      <3>1. Len(udp'[list[c]]) <= Adapters
        BY <2>2, <2>3 DEF NextAdapter
      <3> QED
        BY <1>1, <2>3, <3>1 DEF ListTypes
    <2>5. opened' \in [Lists -> SUBSET (1 .. Adapters)]
      <3> DEFINE n == NextAdapter(c)
      <3>1. n \in 1 .. Adapters
        BY <2>2
      <3>2. opened' = opened \/ opened' = [opened EXCEPT ![list[c]] = @ \cup {n}]
        BY <2>1
      <3> HIDE DEF n
      <3>3. opened[list[c]] \cup {n} \in SUBSET (1 .. Adapters)
        BY <1>1, <2>2, <3>1 DEF ListTypes
      <3>4. \/ opened' = opened
            \/ opened' = [opened EXCEPT ![list[c]] = opened[list[c]] \cup {n}]
        BY <3>2
      <3> QED
        BY <1>1, <2>2, <3>3, <3>4 DEF ListTypes
    <2>6. UNCHANGED <<udpconfigs, heap, ended, leaked>>
      BY <1>5, InitPushes DEF history
    <2> QED
      BY <1>1, <2>3, <2>4, <2>5, <2>6 DEF ListTypes
  <1>6. CASE InitDone(c)
    <2>1. list[c] \in Lists
      BY <1>6 DEF InitDone, WinsockInv, Threads
    <2> QED
      BY <1>1, <1>6, <2>1 DEF InitDone, history, ListTypes
  <1>7. CASE StartFails(c)
    <2>1. list[c] \in Lists
      BY <1>7 DEF StartFails, WinsockInv, Threads
    <2> QED
      BY <1>1, <1>7, <2>1 DEF StartFails, lists, ListTypes
  <1>8. CASE CloseNext(c)
    BY <1>1, <1>8 DEF CloseNext, lists, history, ListTypes
  <1>9. CASE CleanUp(c)
    <2>1. list[c] \in Lists
      BY <1>9 DEF CleanUp, WinsockInv, Threads
    <2> QED
      BY <1>1, <1>9, <2>1 DEF CleanUp, lists, ListTypes
  <1>10. CASE DeleteConfigs(c)
    <2>1. udpconfigs \in Lists
      BY <1>1, <1>10 DEF DeleteConfigs, ListTypes
    <2>2. udp' = [udp EXCEPT ![udpconfigs] = <<>>]
      BY <1>10 DEF DeleteConfigs
    <2>3. udp' \in [Lists -> S]
      <3> HIDE DEF S
      <3> QED
        BY <1>1, <1>2, <2>1, <2>2 DEF ListTypes, S
    <2>4. \A l \in Lists : Len(udp'[l]) <= Adapters
      BY <1>1, <1>2, <2>1, <2>2 DEF ListTypes
    <2> QED
      BY <1>1, <1>10, <2>1, <2>3, <2>4 DEF DeleteConfigs, history, ListTypes
  <1> QED
    BY <1>3, <1>4, <1>5, <1>6, <1>7, <1>8, <1>9, <1>10, HandlerCases

LEMMA TypeFlags ==
    ASSUME WinsockInv, NEW c \in Conns, StartStep(c) \/ StopStep(c)
    PROVE  FlagTypes'
  <1>1. FlagTypes
    BY TypeParts DEF WinsockInv
  <1> USE DEF flags, history, vpn, Overlaps
  <1>2. CASE StartStep(c)
    <2>1. exited' \in BOOLEAN /\ startingUp' \in BOOLEAN
      BY <1>1, <1>2 DEF FlagTypes, StartStep, StartTest, StartGoesOn, InitExited,
         InitStartingUp, InitReturns, WintunFails, NewConfigs, InitSocket, InitNoSocket,
         InitSocketFails, InitDone, StartFails, FailedExited, NoResult, Run, StartEnds
    <2>2. blind' \in BOOLEAN /\ again' \in BOOLEAN /\ overlapped' \in BOOLEAN
      BY <1>1, <1>2 DEF FlagTypes, StartStep, StartTest, StartGoesOn, InitExited,
         InitStartingUp, InitReturns, WintunFails, NewConfigs, InitSocket, InitNoSocket,
         InitSocketFails, InitDone, StartFails, FailedExited, NoResult, Run, StartEnds
    <2> QED
      BY <2>1, <2>2 DEF FlagTypes
  <1>3. CASE StopStep(c)
    <2>1. exited' \in BOOLEAN /\ startingUp' \in BOOLEAN
      BY <1>1, <1>3 DEF FlagTypes, StopStep, StopTest, StopGoesOn, Kill, KillRound,
         ShutdownTest, ShutdownExited, CloseFirst, CloseNext, CleanUp, DeleteConfigs, Fault
    <2>2. blind' \in BOOLEAN /\ again' \in BOOLEAN /\ overlapped' \in BOOLEAN
      BY <1>1, <1>3 DEF FlagTypes, StopStep, StopTest, StopGoesOn, Kill, KillRound,
         ShutdownTest, ShutdownExited, CloseFirst, CloseNext, CleanUp, DeleteConfigs, Fault
    <2> QED
      BY <2>1, <2>2 DEF FlagTypes
  <1> QED
    BY <1>2, <1>3

LEMMA TypeHandler ==
    ASSUME WinsockInv, NEW c \in Conns, StartStep(c) \/ StopStep(c)
    PROVE  TypeOK' /\ Threads'
  <1>1. ServerTypes'
    <2>1. ServerTypes
      BY TypeParts DEF WinsockInv
    <2> QED
      BY <2>1, HandlerFrame DEF ServerTypes
  <1>2. TypeOK'
    BY <1>1, TypeHandles, TypeLists, TypeFlags, OthersStay, TypePartsNext
  <1>3. lpc' \in {"load", "store"} => lconn' \in Conns /\ cpc'[lconn'] = "none"
    BY HandlerFrame DEF WinsockInv, Threads
  <1>4. \A d \in Conns : OwnThread(d)'
    BY OthersStay DEF WinsockInv, Threads, OwnThread
  <1> QED
    BY <1>2, <1>3, <1>4 DEF Threads, OwnThread
-----------------------------------------------------------------------------
(* The count of class Socket.                                              *)

LEMMA CountedFinite ==
    /\ IsFiniteSet(Counted) /\ Cardinality(Counted) \in Nat
  <1>1. Counted \subseteq Conns /\ IsFiniteSet(Conns)
    BY WinsockAssumption DEF Counted
  <1> QED
    BY <1>1, FS_Subset, FS_CardinalityType

\* A thread that adds or takes away a connection without losing an update keeps
\* the count.
LEMMA CountingStep ==
    ASSUME WinsockInv, [Next]_vars
    PROVE  Counting'
  <1> USE WinsockAssumption
  <1>1. /\ cpc \in [Conns -> {"none", "serving", "load", "store", "test"}]
        /\ nofSockets_ \in Int /\ raced \in BOOLEAN
    BY DEF WinsockInv, TypeOK
  <1>2. CASE UNCHANGED <<nofSockets_, raced>> /\ Counted' = Counted
    BY <1>2 DEF WinsockInv, Counting
  <1>3. ASSUME NEW c \in Conns, Accept(c) \/ Finish(c) \/ EndLoad(c) \/ EndTest(c)
        PROVE  Counting'
    <2>1. UNCHANGED <<nofSockets_, raced>>
      BY <1>3 DEF Accept, Finish, EndLoad, EndTest
    <2>2. Counted' = Counted
      BY <1>1, <1>3 DEF Accept, Finish, EndLoad, EndTest, Counted
    <2> QED
      BY <1>2, <2>1, <2>2
  <1>4. ASSUME NEW c \in Conns, EndStore(c)
        PROVE  Counting'
    <2>1. /\ nofSockets_' = reg[c] - 1 /\ raced' = (raced \/ reg[c] # nofSockets_)
          /\ cpc[c] = "store" /\ cpc' = [cpc EXCEPT ![c] = "test"]
      BY <1>4 DEF EndStore
    <2>2. c \in Counted /\ Counted' = Counted \ {c}
      BY <1>1, <2>1 DEF Counted
    <2>3. Cardinality(Counted') = Cardinality(Counted) - 1
      BY <2>2, CountedFinite, FS_RemoveElement
    <2>4. ~raced' => ~raced /\ reg[c] = nofSockets_
      BY <2>1
    <2> QED
      BY <1>1, <2>1, <2>3, <2>4, CountedFinite DEF WinsockInv, Counting
  <1>5. CASE StartStore
    <2>1. /\ nofSockets_' = reg["listener"] + 1
          /\ raced' = (raced \/ reg["listener"] # nofSockets_)
          /\ cpc[lconn] = "none" /\ lconn \in Conns /\ cpc' = [cpc EXCEPT ![lconn] = "serving"]
      BY <1>5 DEF StartStore, WinsockInv, Threads
    <2>2. lconn \notin Counted /\ Counted' = Counted \cup {lconn}
      BY <1>1, <2>1 DEF Counted
    <2>3. Cardinality(Counted') = Cardinality(Counted) + 1
      BY <2>2, CountedFinite, FS_AddElement
    <2>4. ~raced' => ~raced /\ reg["listener"] = nofSockets_
      BY <2>1
    <2> QED
      BY <1>1, <2>1, <2>3, <2>4, CountedFinite DEF WinsockInv, Counting
  <1>6. CASE \/ AcceptThrows \/ StartLoad \/ UNCHANGED vars
             \/ \E c \in Conns : StartStep(c) \/ StopStep(c)
    <2>1. UNCHANGED <<nofSockets_, raced, cpc>>
      BY <1>6, HandlerFrame DEF AcceptThrows, StartLoad, server, vars
    <2>2. Counted' = Counted
      BY <2>1 DEF Counted
    <2> QED
      BY <1>2, <2>1, <2>2
  <1>7. CASE \E c \in Conns : ConnectionStep(c)
    BY <1>3, <1>4, <1>7 DEF ConnectionStep
  <1>8. CASE ListenerStep
    BY <1>5, <1>6, <1>8 DEF ListenerStep
  <1> QED
    BY <1>6, <1>7, <1>8, NextCases

-----------------------------------------------------------------------------
(* The listening socket.                                                   *)

LEMMA PendingFinite ==
    IsFiniteSet(Pending) /\ Cardinality(Pending) \in Nat
  <1>1. IsFiniteSet(1 .. Adapters)
    BY WinsockAssumption, FS_Interval
  <1>2. IsFiniteSet(Lists \X (1 .. Adapters))
    BY <1>1, WinsockAssumption, FS_Product
  <1>3. Pending \subseteq Lists \X (1 .. Adapters)
    BY DEF Pending
  <1> QED
    BY <1>2, <1>3, FS_Subset, FS_CardinalityType

\* Once a cause of the loss is there, it stays.
LEMMA LossStays ==
    ASSUME WinsockInv, [Next]_vars
    PROVE  ~raced' /\ ~blind' /\ ~again' => ~raced /\ ~blind /\ ~again
  <1>1. CASE UNCHANGED vars
    BY <1>1 DEF vars, server, vpn, history
  <1>2. ASSUME NEW c \in Conns, ConnectionStep(c) \/ ListenerStep
        PROVE  ~raced' /\ ~blind' /\ ~again' => ~raced /\ ~blind /\ ~again
    <2>1. ~raced' => ~raced
      BY <1>2 DEF ConnectionStep, Accept, Finish, EndLoad, EndStore, EndTest,
                  ListenerStep, AcceptThrows, StartLoad, StartStore
    <2> QED
      BY <1>2, <2>1, ServerFrame DEF vpn, history
  <1>3. ASSUME NEW c \in Conns, StartStep(c) \/ StopStep(c)
        PROVE  ~raced' /\ ~blind' /\ ~again' => ~raced /\ ~blind /\ ~again
    <2>1. raced' = raced
      BY <1>3, HandlerFrame
    <2>2. ~blind' /\ ~again' => ~blind /\ ~again
      <3>1. CASE PlainStep(c)
        BY <3>1, PlainFrame
      <3>2. CASE InitStep(c)
        BY <3>2, InitPushes DEF history
      <3>3. CASE \/ NewConfigs(c) \/ InitDone(c) \/ StartFails(c) \/ CloseNext(c)
                 \/ CleanUp(c) \/ DeleteConfigs(c)
        BY <3>3 DEF NewConfigs, InitDone, StartFails, CloseNext, CleanUp, DeleteConfigs, history
      <3> QED
        BY <1>3, <3>1, <3>2, <3>3, HandlerCases
    <2> QED
      BY <2>1, <2>2
  <1>4. ASSUME ListenerStep
        PROVE  ~raced' /\ ~blind' /\ ~again' => ~raced /\ ~blind /\ ~again
    <2>1. ~raced' => ~raced
      BY <1>4 DEF ListenerStep, AcceptThrows, StartLoad, StartStore
    <2>2. UNCHANGED vpn
      BY <1>4 DEF ListenerStep, AcceptThrows, StartLoad, StartStore
    <2> QED
      BY <2>1, <2>2 DEF vpn, history
  <1> QED
    BY <1>1, <1>2, <1>3, <1>4, NextCases

\* The steps of the server keep what ListenerKept says.
LEMMA ListenerServer ==
    ASSUME WinsockInv, ~raced, ~blind, ~again, ListenerStep \/ \E c \in Conns : ConnectionStep(c)
    PROVE  /\ owner'[Listener] = "listener" /\ wsa' >= wsa
           /\ \A c \in Conns : sock'[c] # Listener
  <1>1. /\ owner[Listener] = "listener" /\ \A c \in Conns : sock[c] # Listener
        /\ owner \in [Handles -> Conns \cup {"free", "udp", "listener"}]
        /\ wsa \in Nat /\ sock \in [Conns -> Handles \cup {INVALID_SOCKET}]
        /\ Listener \in Handles /\ INVALID_SOCKET # Listener
    BY WinsockAssumption DEF WinsockInv, ListenerKept, TypeOK
  <1>2. nofSockets_ # 0
    BY CountedFinite DEF WinsockInv, Counting
  <1>3. ASSUME NEW c \in Conns, ConnectionStep(c)
        PROVE  /\ owner'[Listener] = "listener" /\ wsa' >= wsa
               /\ \A d \in Conns : sock'[d] # Listener
    <2>1. CASE Accept(c)
      <3>1. PICK h \in FreeHandles : owner' = [owner EXCEPT ![h] = c] /\ sock' = [sock EXCEPT ![c] = h]
        BY <2>1 DEF Accept, Own
      <3>2. wsa' = wsa /\ h \in Handles /\ h # Listener
        BY <1>1, <2>1 DEF Accept, FreeHandles
      <3> QED
        BY <1>1, <3>1, <3>2
    <2>2. CASE Finish(c)
      BY <1>1, <2>2 DEF Finish, closesocket, Own, handles
    <2>3. CASE EndLoad(c) \/ EndStore(c) \/ EndTest(c)
      BY <1>1, <1>2, <2>3 DEF EndLoad, EndStore, EndTest, handles
    <2> QED
      BY <1>3, <2>1, <2>2, <2>3 DEF ConnectionStep
  <1>4. CASE ListenerStep
    BY <1>1, <1>2, <1>4 DEF ListenerStep, AcceptThrows, StartLoad, StartStore, handles
  <1> QED
    BY <1>3, <1>4

\* Winsock's count covers what is pending after the step, too, and the lists do
\* not hold the listening socket.
LEMMA ListenerHandler ==
    ASSUME WinsockInv, NEW c \in Conns, StartStep(c) \/ StopStep(c),
           ~raced, ~blind, ~again, ~blind', ~again'
    PROVE  /\ owner'[Listener] = "listener"
           /\ wsa' >= 1 + Cardinality(Pending')
           /\ \A l \in Lists : \A i \in DOMAIN udp'[l] : udp'[l][i] # Listener
  <1> DEFINE Goal == /\ owner'[Listener] = "listener"
                     /\ wsa' >= 1 + Cardinality(Pending')
                     /\ \A l \in Lists : \A i \in DOMAIN udp'[l] : udp'[l][i] # Listener
  <1>1. /\ owner[Listener] = "listener" /\ wsa >= 1 + Cardinality(Pending)
        /\ \A l \in Lists : \A i \in DOMAIN udp[l] : udp[l][i] # Listener
    BY DEF WinsockInv, ListenerKept
  <1>2. /\ owner \in [Handles -> Conns \cup {"free", "udp", "listener"}]
        /\ wsa \in Nat /\ Listener \in Handles /\ INVALID_SOCKET # Listener
        /\ udp \in [Lists -> Seq(Handles \cup {INVALID_SOCKET})]
        /\ opened \in [Lists -> SUBSET (1 .. Adapters)]
    BY WinsockAssumption DEF WinsockInv, TypeOK
  <1>3. ASSUME Pending' \subseteq Pending
        PROVE  Cardinality(Pending') \in Nat /\ Cardinality(Pending') <= Cardinality(Pending)
    BY <1>3, PendingFinite, FS_Subset, FS_CardinalityType
  <1>4. CASE PlainStep(c) \/ NewConfigs(c) \/ InitDone(c) \/ StartFails(c)
    <2>1. UNCHANGED <<wsa, owner, udp, opened, ended>>
      BY <1>4, PlainFrame DEF NewConfigs, InitDone, StartFails, handles, lists, history
    <2>2. Pending' = Pending
      BY <2>1 DEF Pending
    <2> QED
      BY <1>1, <2>1, <2>2
  <1>5. CASE InitStep(c)
    <2>1. PICK h \in Handles \cup {INVALID_SOCKET} :
             /\ PushConfig(c, h) /\ (h \in FreeHandles \/ h = INVALID_SOCKET)
             /\ \/ UNCHANGED <<wsa, owner, port, opened>>
                \/ /\ wsa' = wsa + 1 /\ h \in FreeHandles
                   /\ owner' = [owner EXCEPT ![h] = "udp"]
                   /\ port' = [port EXCEPT ![h] = NextAdapter(c)]
                   /\ opened' = [opened EXCEPT ![list[c]] = @ \cup {NextAdapter(c)}]
      BY <1>5, InitPushes
    <2>2. list[c] \in Lists /\ ended' = ended
      BY <1>5, InitPushes DEF history
    <2>3. h # Listener /\ owner'[Listener] = "listener"
      BY <1>1, <1>2, <2>1 DEF FreeHandles
    <2>4. \A l \in Lists : \A i \in DOMAIN udp'[l] : udp'[l][i] # Listener
      <3>1. /\ \A l \in Lists \ {list[c]} : udp'[l] = udp[l]
            /\ Len(udp[list[c]]) \in Nat
            /\ DOMAIN udp[list[c]] = 1 .. Len(udp[list[c]])
            /\ DOMAIN udp'[list[c]] = 1 .. Len(udp[list[c]]) + 1
            /\ \A i \in DOMAIN udp[list[c]] : udp'[list[c]][i] = udp[list[c]][i]
            /\ udp'[list[c]][Len(udp[list[c]]) + 1] = h
        BY <2>1, <2>2, ListGrows DEF WinsockInv
      <3>2. \A i \in DOMAIN udp'[list[c]] : udp'[list[c]][i] # Listener
        BY <1>1, <2>2, <2>3, <3>1
      <3> QED
        BY <1>1, <3>1, <3>2
    <2>5. wsa' >= 1 + Cardinality(Pending')
      <3>1. CASE UNCHANGED <<wsa, opened>>
        <4>1. Pending' = Pending
          BY <2>2, <3>1 DEF Pending
        <4> QED
          BY <1>1, <3>1, <4>1
      <3>2. CASE /\ wsa' = wsa + 1
                 /\ opened' = [opened EXCEPT ![list[c]] = @ \cup {NextAdapter(c)}]
        <4> DEFINE p == <<list[c], NextAdapter(c)>>
        <4>1. Pending' \subseteq Pending \cup {p}
          BY <1>2, <2>2, <3>2 DEF Pending
        <4>2. /\ IsFiniteSet(Pending \cup {p})
              /\ Cardinality(Pending \cup {p}) <= Cardinality(Pending) + 1
          <5> HIDE DEF p
          <5>1. IsFiniteSet(Pending) /\ Cardinality(Pending) \in Nat
            BY PendingFinite
          <5>2. /\ IsFiniteSet(Pending \cup {p})
                /\ \/ Cardinality(Pending \cup {p}) = Cardinality(Pending)
                   \/ Cardinality(Pending \cup {p}) = Cardinality(Pending) + 1
            BY <5>1, FS_AddElement
          <5> QED
            BY <5>1, <5>2
        <4>3. Cardinality(Pending') <= Cardinality(Pending \cup {p}) /\ Cardinality(Pending') \in Nat
          BY <4>1, <4>2, FS_Subset, FS_CardinalityType
        <4>4. Cardinality(Pending \cup {p}) \in Nat
          BY <4>2, FS_CardinalityType
        <4> QED
          BY <1>1, <1>2, <3>2, <4>2, <4>3, <4>4, PendingFinite
      <3> QED
        BY <2>1, <3>1, <3>2
    <2> QED
      BY <2>3, <2>4, <2>5
  <1>6. CASE CloseNext(c)
    <2>1. UNCHANGED <<wsa, udp, opened, ended>>
      BY <1>6 DEF CloseNext, lists, history
    <2>2. Pending' = Pending
      BY <2>1 DEF Pending
    <2>3. list[c] \in Lists /\ (at[c] + 1) \div 2 \in DOMAIN udp[list[c]]
      <3>1. list[c] \in Lists /\ at[c] \in Nat /\ at[c] >= 1
        BY <1>6 DEF CloseNext, WinsockInv, Threads, TypeOK
      <3>2. Len(udp[list[c]]) \in Nat /\ DOMAIN udp[list[c]] = 1 .. Len(udp[list[c]])
        BY <1>2, <3>1, LenProperties
      <3>3. at[c] <= 2 * Len(udp[list[c]])
        BY <1>6 DEF CloseNext, LastConfig
      <3> QED
        BY <3>1, <3>2, <3>3
    <2>4. owner'[Listener] = "listener"
      BY <1>1, <1>2, <1>6, <2>3 DEF CloseNext, closesocket, Own, handles
    <2> QED
      BY <1>1, <2>1, <2>2, <2>4
  <1>7. CASE CleanUp(c)
    <2>1. list[c] \in Lists /\ list[c] \notin ended /\ opened[list[c]] # {}
      BY <1>7 DEF CleanUp, WinsockInv, Threads
    <2>2. PICK i \in 1 .. Adapters : i \in opened[list[c]]
      BY <1>2, <2>1
    <2> DEFINE p == <<list[c], i>>
    <2>3. p \in Pending
      BY <2>1, <2>2 DEF Pending
    <2>4. Pending' \subseteq Pending \ {p}
      <3>1. UNCHANGED <<opened, udp>> /\ ended' = ended \cup {list[c]}
        BY <1>7 DEF CleanUp, lists
      <3> QED
        BY <3>1 DEF Pending
    <2>5. /\ IsFiniteSet(Pending \ {p})
          /\ Cardinality(Pending \ {p}) = Cardinality(Pending) - 1
      BY <2>3, PendingFinite, FS_RemoveElement
    <2>6. Cardinality(Pending') <= Cardinality(Pending) - 1 /\ Cardinality(Pending') \in Nat
      BY <2>4, <2>5, FS_Subset, FS_CardinalityType
    <2>7. wsa >= 2
      BY <1>1, <1>2, <2>6, PendingFinite
    <2>8. owner' = owner /\ wsa' = wsa - 1 /\ udp' = udp
      BY <1>2, <1>7, <2>7 DEF CleanUp, shutdownWSA, WSACleanup, handles, lists
    <2> QED
      BY <1>1, <1>2, <2>6, <2>8, PendingFinite
  <1>8. CASE DeleteConfigs(c)
    <2>1. /\ UNCHANGED <<wsa, owner, ended>> /\ udp' = [udp EXCEPT ![udpconfigs] = <<>>]
          /\ opened' = [opened EXCEPT ![udpconfigs] = {}]
      BY <1>8 DEF DeleteConfigs, handles, history
    <2>2. Pending' \subseteq Pending
      BY <1>2, <2>1 DEF Pending
    <2>3. \A l \in Lists : udp'[l] = udp[l] \/ udp'[l] = <<>>
      BY <1>2, <2>1
    <2> QED
      BY <1>1, <1>2, <1>3, <2>1, <2>2, <2>3, PendingFinite
  <1> QED
    BY <1>4, <1>5, <1>6, <1>7, <1>8, HandlerCases

LEMMA ListenerKeptStep ==
    ASSUME WinsockInv, [Next]_vars
    PROVE  ListenerKept'
  <1> SUFFICES ASSUME ~raced', ~blind', ~again'
               PROVE  /\ owner'[Listener] = "listener"
                      /\ wsa' >= 1 + Cardinality(Pending')
                      /\ \A c \in Conns : sock'[c] # Listener
                      /\ \A l \in Lists : \A i \in DOMAIN udp'[l] : udp'[l][i] # Listener
    BY DEF ListenerKept
  <1>1. /\ ~raced /\ ~blind /\ ~again
        /\ owner[Listener] = "listener" /\ wsa >= 1 + Cardinality(Pending)
        /\ \A c \in Conns : sock[c] # Listener
        /\ \A l \in Lists : \A i \in DOMAIN udp[l] : udp[l][i] # Listener
    BY LossStays DEF WinsockInv, ListenerKept
  <1>2. CASE ListenerStep \/ \E c \in Conns : ConnectionStep(c)
    <2>1. UNCHANGED <<udp, opened, ended>>
      BY <1>2, ServerFrame DEF vpn, lists, history, ListenerStep, AcceptThrows, StartLoad, StartStore
    <2>2. Pending' = Pending
      BY <2>1 DEF Pending
    <2>3. /\ owner'[Listener] = "listener" /\ wsa' >= wsa
          /\ \A c \in Conns : sock'[c] # Listener
      BY <1>1, <1>2, ListenerServer
    <2>4. wsa \in Nat /\ wsa' \in Nat
      BY <1>2, TypeConnection, TypeListener DEF WinsockInv, TypeOK
    <2> QED
      BY <1>1, <2>1, <2>2, <2>3, <2>4, PendingFinite
  <1>3. CASE \E c \in Conns : StartStep(c) \/ StopStep(c)
    BY <1>1, <1>3, ListenerHandler, HandlerFrame
  <1>4. CASE UNCHANGED vars
    <2>1. Pending' = Pending
      BY <1>4 DEF vars, vpn, lists, history, Pending
    <2> QED
      BY <1>1, <1>4, <2>1 DEF vars, handles, server, vpn, lists
  <1> QED
    BY <1>2, <1>3, <1>4, NextCases

-----------------------------------------------------------------------------
(* One thread at a time, as long as requests do not overlap.               *)

\* What Alone says of one thread.
OwnFlags(c) ==
    /\ hpc[c] \in {"initExited", "starting", "sockets", "inited"} => ~exited
    /\ hpc[c] = "inited" => udpconfigs = list[c]

\* A thread that begins to start or stop the VPN does so alone, and only a
\* thread that does so changes exited and udpconfigs.
LEMMA EntersAlone ==
    ASSUME WinsockInv, NEW c \in Conns, StartStep(c) \/ StopStep(c), ~overlapped'
    PROVE  /\ ~overlapped
           /\ Active(c)' /\ ~Active(c) => \A d \in Conns \ {c} : ~Active(d)
           /\ ~Active(c) => UNCHANGED <<exited, udpconfigs>>
           /\ OwnFlags(c) => OwnFlags(c)'
  <1> USE DEF Active, Goto, OwnFlags, Overlaps, Forget, Return, flags, lists, history, thread, vpn
  <1>1. hpc \in [Conns -> HandlerSteps] /\ list \in [Conns -> Lists \cup {NULL}]
    BY DEF WinsockInv, TypeOK
  <1> DEFINE Goal == /\ ~overlapped
                     /\ Active(c)' /\ ~Active(c) => \A d \in Conns \ {c} : ~Active(d)
                     /\ ~Active(c) => UNCHANGED <<exited, udpconfigs>>
                     /\ OwnFlags(c) => OwnFlags(c)'
  <1>2. CASE StartTest(c) \/ StartGoesOn(c)
    BY <1>1, <1>2 DEF StartTest, StartGoesOn
  <1>3. CASE InitExited(c) \/ InitStartingUp(c)
    BY <1>1, <1>3 DEF InitExited, InitStartingUp
  <1>4. CASE InitReturns(c) \/ WintunFails(c) \/ NewConfigs(c)
    BY <1>1, <1>4 DEF InitReturns, WintunFails, NewConfigs
  <1>5. CASE InitSocket(c) \/ InitNoSocket(c) \/ InitSocketFails(c)
    BY <1>1, <1>5 DEF InitSocket, InitNoSocket, InitSocketFails, Initialising
  <1>6. CASE InitDone(c)
    BY <1>1, <1>6 DEF InitDone
  <1>7. CASE StartFails(c) \/ FailedExited(c) \/ NoResult(c)
    BY <1>1, <1>7 DEF StartFails, FailedExited, NoResult
  <1>8. CASE Run(c)
    <2>0. ~overlapped
      <3>1. overlapped' = overlapped \/ Overlaps(c)
        BY <1>8 DEF Run
      <3> QED
        BY <3>1
    <2>1. hpc[c] = "inited" /\ UNCHANGED <<exited, udpconfigs>>
      BY <1>8 DEF Run
    <2>2. hpc'[c] \in {"started", "shutdown"}
      BY <1>1, <1>8 DEF Run
    <2> QED
      BY <2>0, <2>1, <2>2
  <1>9. CASE StartEnds(c)
    BY <1>1, <1>9 DEF StartEnds
  <1>10. CASE StopTest(c) \/ Kill(c)
    BY <1>1, <1>10 DEF StopTest, Kill
  <1>11. CASE StopGoesOn(c)
    <2>1. CASE exited
      BY <1>1, <1>11, <2>1 DEF StopGoesOn
    <2>2. CASE ~exited
      BY <1>1, <1>11, <2>2 DEF StopGoesOn
    <2> QED
      BY <2>1, <2>2
  <1>12. CASE KillRound(c)
    BY <1>1, <1>12 DEF KillRound
  <1>13. CASE ShutdownTest(c)
    <2>1. back[c] \in {"idle", "started", "kill"}
      BY DEF WinsockInv, TypeOK
    <2> QED
      BY <1>1, <1>13, <2>1 DEF ShutdownTest
  <1>14. CASE ShutdownExited(c) \/ CloseFirst(c)
    BY <1>1, <1>14 DEF ShutdownExited, CloseFirst
  <1>15. CASE CloseNext(c) \/ CleanUp(c)
    BY <1>1, <1>15 DEF CloseNext, CleanUp
  <1>16. CASE DeleteConfigs(c)
    <2>1. back[c] \in {"idle", "started", "kill"}
      BY DEF WinsockInv, TypeOK
    <2> QED
      BY <1>1, <1>16, <2>1 DEF DeleteConfigs
  <1>17. CASE Fault(c)
    BY <1>1, <1>17 DEF Fault
  <1> QED
    BY <1>2, <1>3, <1>4, <1>5, <1>6, <1>7, <1>8, <1>9, <1>10, <1>11, <1>12, <1>13, <1>14,
       <1>15, <1>16, <1>17 DEF StartStep, StopStep

LEMMA AloneStep ==
    ASSUME WinsockInv, [Next]_vars
    PROVE  Alone'
  <1> SUFFICES ASSUME ~overlapped'
               PROVE  /\ \A c, d \in Conns : Active(c)' /\ Active(d)' => c = d
                      /\ \A c \in Conns : OwnFlags(c)'
    BY DEF Alone, OwnFlags
  <1>1. CASE UNCHANGED vpn
    BY <1>1 DEF vpn, thread, flags, lists, history, WinsockInv, Alone, Active, OwnFlags
  <1>2. ASSUME NEW c \in Conns, StartStep(c) \/ StopStep(c)
        PROVE  /\ \A d, e \in Conns : Active(d)' /\ Active(e)' => d = e
               /\ \A d \in Conns : OwnFlags(d)'
    <2>1. /\ ~overlapped
          /\ Active(c)' /\ ~Active(c) => \A d \in Conns \ {c} : ~Active(d)
          /\ ~Active(c) => UNCHANGED <<exited, udpconfigs>>
          /\ OwnFlags(c) => OwnFlags(c)'
      BY <1>2, EntersAlone
    <2>2. /\ \A d, e \in Conns : Active(d) /\ Active(e) => d = e
          /\ \A d \in Conns : OwnFlags(d)
      BY <2>1 DEF WinsockInv, Alone, OwnFlags
    <2>3. \A d \in Conns \ {c} : hpc'[d] = hpc[d] /\ list'[d] = list[d]
      BY <1>2, OthersStay
    <2>4. \A d \in Conns \ {c} : Active(d)' <=> Active(d)
      BY <2>3 DEF Active
    <2>5. \A d, e \in Conns : Active(d)' /\ Active(e)' => d = e
      BY <2>1, <2>2, <2>4
    <2>6. ASSUME NEW d \in Conns \ {c}
          PROVE  OwnFlags(d)'
      <3>1. CASE Active(d)
        <4>1. ~Active(c)
          BY <2>2, <3>1
        <4> QED
          BY <2>1, <2>2, <2>3, <4>1 DEF OwnFlags
      <3>2. CASE ~Active(d)
        BY <2>3, <3>2 DEF Active, OwnFlags
      <3> QED
        BY <3>1, <3>2
    <2> QED
      BY <2>1, <2>2, <2>5, <2>6
  <1>3. CASE ListenerStep \/ UNCHANGED vars
    <2>1. UNCHANGED vpn
      BY <1>3 DEF ListenerStep, AcceptThrows, StartLoad, StartStore, vars
    <2> QED
      BY <1>1, <2>1
  <1>4. CASE \E c \in Conns : ConnectionStep(c)
    BY <1>1, <1>4, ServerFrame
  <1> QED
    BY <1>2, <1>3, <1>4, NextCases

-----------------------------------------------------------------------------
(* The ports.                                                              *)

\* The socket is closed or left behind, or the thread that starts or stops the
\* VPN holds it.
Held(c, h) == port[h] = 0 \/ port[h] \in leaked \/ Holder(c, h)

\* A step of that thread, when it is the only one: the socket stays held, or
\* the thread is done and the run is up.
LEMMA PortsHeld ==
    ASSUME WinsockInv, NEW c \in Conns, StartStep(c) \/ StopStep(c), Active(c),
           OwnFlags(c), NEW h \in Handles, Held(c, h)
    PROVE  Held(c, h)' \/ (InList(udpconfigs, h)' /\ ~exited' /\ ~Active(c)')
  <1> DEFINE Goal == Held(c, h)' \/ (InList(udpconfigs, h)' /\ ~exited' /\ ~Active(c)')
  <1>1. /\ port \in [Handles -> 0 .. Adapters] /\ port[h] \in Nat
        /\ hpc \in [Conns -> HandlerSteps] /\ list \in [Conns -> Lists \cup {NULL}]
        /\ at \in [Conns -> 0 .. 2 * Adapters + 1] /\ at[c] \in Nat
        /\ udp \in [Lists -> Seq(Handles \cup {INVALID_SOCKET})]
        /\ opened \in [Lists -> SUBSET (1 .. Adapters)]
    BY WinsockAssumption DEF WinsockInv, TypeOK
  <1>2. CASE port'[h] = 0
    BY <1>2 DEF Held
  <1>3. \A l \in Lists : Len(udp[l]) \in Nat /\ DOMAIN udp[l] = 1 .. Len(udp[l])
    BY <1>1, LenProperties
  <1>4. CASE \/ InitExited(c) \/ InitStartingUp(c) \/ InitReturns(c) \/ WintunFails(c)
             \/ NewConfigs(c) \/ FailedExited(c) \/ DeleteConfigs(c)
    <2>1. /\ hpc[c] \in {"init", "initExited", "starting", "failed", "deleting"}
          /\ UNCHANGED <<port, leaked>>
      BY <1>4 DEF InitExited, InitStartingUp, InitReturns, WintunFails, NewConfigs,
                  FailedExited, DeleteConfigs, handles, history
    <2>2. ~Holder(c, h)
      BY <2>1 DEF Holder
    <2> QED
      BY <2>1, <2>2 DEF Held
  <1>5. CASE InitStep(c)
    <2>1. PICK g \in Handles \cup {INVALID_SOCKET} :
             /\ PushConfig(c, g)
             /\ \/ UNCHANGED <<port, opened>>
                \/ /\ g \in FreeHandles
                   /\ port' = [port EXCEPT ![g] = NextAdapter(c)]
                   /\ opened' = [opened EXCEPT ![list[c]] = @ \cup {NextAdapter(c)}]
      BY <1>5, InitPushes
    <2>2. /\ hpc[c] = "sockets" /\ list[c] \in Lists
          /\ hpc' = hpc /\ list' = list /\ leaked' = leaked
      BY <1>5, InitPushes DEF thread, history
    <2> DEFINE k == list[c]
    <2>3. /\ DOMAIN udp[k] = 1 .. Len(udp[k]) /\ DOMAIN udp'[k] = 1 .. Len(udp[k]) + 1
          /\ \A i \in DOMAIN udp[k] : udp'[k][i] = udp[k][i]
          /\ udp'[k][Len(udp[k]) + 1] = g /\ Len(udp[k]) \in Nat
      BY <2>1, <2>2, ListGrows DEF WinsockInv
    <2>4. opened[k] \subseteq opened'[k]
      BY <1>1, <2>1, <2>2
    <2>5. CASE port'[h] = port[h]
      <3>1. InList(k, h) => InList(k, h)'
        <4>1. list'[c] = list[c]
          BY <2>2
        <4> QED
          BY <2>3, <2>4, <2>5, <4>1 DEF InList
      <3> QED
        BY <2>2, <2>5, <3>1 DEF Held, Holder
    <2>6. CASE port'[h] # port[h]
      <3>1. /\ h = g /\ port'[h] = Len(udp[k]) + 1
            /\ opened' = [opened EXCEPT ![k] = @ \cup {Len(udp[k]) + 1}]
        BY <1>1, <2>1, <2>6 DEF NextAdapter
      <3>2. Len(udp[k]) + 1 \in opened'[k]
        BY <1>1, <2>2, <3>1
      <3>3. InList(k, h)'
        <4>1. list'[c] = list[c] /\ Len(udp[k]) + 1 \in DOMAIN udp'[k]
          BY <2>2, <2>3
        <4> QED
          BY <2>2, <2>3, <3>1, <3>2, <4>1 DEF InList
      <3> QED
        BY <2>2, <3>3 DEF Held, Holder
    <2> QED
      BY <2>5, <2>6
  <1>6. CASE InitDone(c)
    <2>1. /\ hpc[c] = "sockets" /\ udpconfigs' = list[c] /\ hpc' = [hpc EXCEPT ![c] = "inited"]
          /\ UNCHANGED <<exited, port, leaked, udp, opened>>
      BY <1>6 DEF InitDone, Goto, flags, handles, history
    <2>2. InList(list[c], h) => InList(udpconfigs, h)'
      BY <2>1 DEF InList
    <2>3. ~exited' /\ hpc'[c] = "inited"
      BY <1>1, <2>1 DEF OwnFlags
    <2> QED
      BY <2>1, <2>2, <2>3 DEF Held, Holder
  <1>7. CASE StartFails(c)
    <2>1. /\ hpc[c] = "inited" /\ port' = port /\ leaked' = leaked \cup opened[list[c]]
      BY <1>7 DEF StartFails, handles
    <2>2. udpconfigs = list[c]
      BY <2>1 DEF OwnFlags
    <2>3. Holder(c, h) => port[h] \in opened[list[c]]
      BY <2>1, <2>2 DEF Holder, InList
    <2> QED
      BY <2>1, <2>3 DEF Held
  <1>8. CASE NoResult(c) \/ Run(c) \/ StartEnds(c)
    <2>1. /\ hpc[c] \in {"inited", "started"}
          /\ hpc'[c] \in {"idle", "started", "shutdown"}
          /\ UNCHANGED <<exited, port, leaked, udpconfigs, udp, opened>>
      BY <1>1, <1>8 DEF NoResult, Run, StartEnds, Goto, flags, handles, lists, history
    <2>2. Holder(c, h) => InList(udpconfigs, h) /\ ~exited
      BY <2>1 DEF Holder
    <2>3. InList(udpconfigs, h)' <=> InList(udpconfigs, h)
      BY <2>1 DEF InList
    <2> QED
      BY <2>1, <2>2, <2>3 DEF Held, Holder, Active
  <1>9. CASE ShutdownTest(c) \/ ShutdownExited(c)
    <2>1. UNCHANGED <<port, leaked, udpconfigs, udp, opened>>
      BY <1>9 DEF ShutdownTest, ShutdownExited, handles, lists, history
    <2>2. InList(udpconfigs, h)' <=> InList(udpconfigs, h)
      BY <2>1 DEF InList
    <2>3. hpc[c] \in {"shutdown", "exiting"} /\ (hpc[c] = "shutdown" => ShutdownTest(c))
      BY <1>9 DEF ShutdownTest, ShutdownExited
    <2>4. Holder(c, h) => InList(udpconfigs, h) /\ (hpc[c] = "shutdown" => ~exited)
      BY <2>3 DEF Holder
    <2>5. Holder(c, h) => hpc'[c] \in {"exiting", "clearing"}
      BY <1>1, <1>9, <2>4 DEF ShutdownTest, ShutdownExited, Goto
    <2> QED
      BY <2>1, <2>2, <2>4, <2>5 DEF Held, Holder
  <1>10. CASE CloseFirst(c)
    <2>1. /\ hpc[c] = "clearing" /\ hpc'[c] = "closing"
          /\ list'[c] = udpconfigs /\ at'[c] = 1
          /\ UNCHANGED <<port, leaked, udpconfigs, udp, opened>>
      BY <1>1, <1>10 DEF CloseFirst, Goto, handles, lists, history
    <2>2. InList(udpconfigs, h)' <=> InList(udpconfigs, h)
      BY <2>1 DEF InList
    <2>3. Holder(c, h) => InList(udpconfigs, h)
      BY <2>1 DEF Holder
    <2>4. port[h] # 0 => 1 <= 2 * port[h] - 1
      BY <1>1
    <2> QED
      BY <2>1, <2>2, <2>3, <2>4 DEF Held, Holder
  <1>11. CASE CloseNext(c)
    <2>1. /\ hpc[c] = "closing" /\ at' = [at EXCEPT ![c] = at[c] + 1]
          /\ UNCHANGED <<hpc, list, leaked, udpconfigs, udp, opened>>
      BY <1>11 DEF CloseNext, lists, history
    <2>2. port'[h] = port[h] \/ port'[h] = 0
      BY <1>1, <1>11 DEF CloseNext, closesocket, Own, handles
    <2>3. CASE port'[h] = port[h] /\ Holder(c, h) /\ port[h] # 0
      <3>1. InList(list[c], h) /\ list[c] = udpconfigs /\ at[c] <= 2 * port[h] - 1
        BY <2>1, <2>3 DEF Holder
      <3>2. at[c] # 2 * port[h] - 1
        <4> SUFFICES ASSUME at[c] = 2 * port[h] - 1 PROVE FALSE
          OBVIOUS
        <4>1. (at[c] + 1) \div 2 = port[h] /\ h # INVALID_SOCKET
          BY <1>1, WinsockAssumption
        <4>2. port' = [port EXCEPT ![h] = 0]
          BY <1>11, <3>1, <4>1 DEF CloseNext, closesocket, Own, InList
        <4> QED
          BY <1>1, <2>3, <4>2
      <3>3. at'[c] = at[c] + 1
        BY <1>1, <2>1
      <3>4. at'[c] <= 2 * port'[h] - 1
        <4>1. at[c] <= 2 * port[h] - 1 /\ at[c] # 2 * port[h] - 1
          BY <3>1, <3>2
        <4>2. at[c] + 1 <= 2 * port[h] - 1
          BY <1>1, <4>1
        <4> QED
          BY <2>3, <3>3, <4>2
      <3>5. InList(udpconfigs, h)'
        BY <2>1, <2>3, <3>1 DEF InList
      <3> QED
        BY <2>1, <3>1, <3>4, <3>5 DEF Held, Holder
    <2> QED
      BY <1>2, <2>1, <2>2, <2>3 DEF Held
  <1>12. CASE CleanUp(c)
    <2>1. /\ hpc[c] = "closing" /\ at[c] > 2 * Len(udp[list[c]]) /\ leaked' = leaked
      BY <1>12 DEF CleanUp, LastConfig
    <2>2. port'[h] = port[h] \/ port'[h] = 0
      BY <1>1, <1>12 DEF CleanUp, shutdownWSA, WSACleanup, handles
    <2>3. ~Holder(c, h)
      BY <1>1, <1>3, <2>1 DEF Holder, InList
    <2> QED
      BY <1>2, <2>1, <2>2, <2>3 DEF Held
  <1>13. CASE Fault(c)
    BY <1>13 DEF Fault, handles, vpn, flags, lists, thread, history, Held, Holder, InList
  <1>14. CASE \/ StartTest(c) \/ StartGoesOn(c) \/ StopTest(c) \/ StopGoesOn(c)
              \/ Kill(c) \/ KillRound(c)
    BY <1>14 DEF StartTest, StartGoesOn, StopTest, StopGoesOn, Kill, KillRound, Active
  <1> QED
    BY <1>4, <1>5, <1>6, <1>7, <1>8, <1>9, <1>10, <1>11, <1>12, <1>13, <1>14
       DEF StartStep, StopStep, InitStep

LEMMA HolderActive ==
    ASSUME NEW c \in Conns, NEW h \in Handles, Holder(c, h)
    PROVE  Active(c)
  BY DEF Holder, Active

\* A step of a thread that is not starting or stopping the VPN yet.
LEMMA PortsEnter ==
    ASSUME WinsockInv, NEW c \in Conns, StartStep(c) \/ StopStep(c), ~Active(c), ~overlapped',
           NEW h \in Handles, Known(h)
    PROVE  Known(h)'
  <1>1. /\ UNCHANGED <<exited, port, leaked, udpconfigs, udp, opened>>
        /\ Active(c)' => (hpc'[c] = "init" /\ exited) \/ (hpc'[c] = "shutdown" /\ ~exited)
    <2>1. hpc \in [Conns -> HandlerSteps]
      BY DEF WinsockInv, TypeOK
    <2>2. CASE \/ StartTest(c) \/ StartGoesOn(c) \/ StopTest(c) \/ StopGoesOn(c)
               \/ Kill(c) \/ KillRound(c)
      BY <2>1, <2>2 DEF StartTest, StartGoesOn, StopTest, StopGoesOn, Kill, KillRound,
                        Active, Goto, flags, handles, lists, history
    <2>3. CASE ~(\/ StartTest(c) \/ StartGoesOn(c) \/ StopTest(c) \/ StopGoesOn(c)
                 \/ Kill(c) \/ KillRound(c))
      <3>1. CASE StartStep(c)
        BY <2>3, <3>1 DEF StartStep, InitExited, InitStartingUp, InitReturns,
           WintunFails, NewConfigs, InitSocket, InitNoSocket, InitSocketFails, Initialising,
           InitDone, StartFails, FailedExited, NoResult, Run, StartEnds, Active
      <3>2. CASE StopStep(c)
        BY <2>3, <3>2 DEF StopStep, ShutdownTest, ShutdownExited, CloseFirst, CloseNext,
           CleanUp, DeleteConfigs, Fault, Active
      <3> QED
        BY <3>1, <3>2
    <2> QED
      BY <2>2, <2>3
  <1>2. \A d \in Conns \ {c} : hpc'[d] = hpc[d] /\ list'[d] = list[d] /\ at'[d] = at[d]
    BY OthersStay
  <1>3. \A l : InList(l, h)' <=> InList(l, h)
    BY <1>1 DEF InList
  <1>4. InList(udpconfigs, h)' <=> InList(udpconfigs, h)
    BY <1>1 DEF InList
  <1>5. \A d \in Conns \ {c} : Active(d)' <=> Active(d)
    BY <1>2 DEF Active
  <1>6. ASSUME NEW d \in Conns, Holder(d, h)
        PROVE  Holder(d, h)'
    <2>1. d \in Conns \ {c}
      BY <1>6, HolderActive
    <2>2. InList(list[d], h) => InList(list[d], h)'
      BY <1>1, <1>2, <2>1 DEF InList
    <2> QED
      BY <1>1, <1>2, <1>4, <1>6, <2>1, <2>2 DEF Holder
  <1>7. CASE ~Active(c)'
    <2>1. Quiet => Quiet'
      BY <1>5, <1>7 DEF Quiet
    <2> QED
      BY <1>1, <1>4, <1>6, <2>1 DEF Known
  <1>8. CASE Active(c)'
    <2>1. InList(udpconfigs, h) /\ ~exited => Holder(c, h)'
      BY <1>1, <1>4, <1>8 DEF Holder
    <2> QED
      BY <1>1, <1>6, <2>1 DEF Known
  <1> QED
    BY <1>7, <1>8

LEMMA PortsKnownStep ==
    ASSUME WinsockInv, [Next]_vars
    PROVE  PortsKnown'
  <1> SUFFICES ASSUME ~overlapped', NEW h \in Handles PROVE Known(h)'
    BY DEF PortsKnown
  <1>1. port \in [Handles -> 0 .. Adapters]
    BY DEF WinsockInv, TypeOK
  <1>2. CASE port'[h] = 0
    BY <1>2 DEF Known
  <1>3. ASSUME UNCHANGED vpn, port'[h] = port[h] PROVE Known(h)'
    <2>1. Known(h) /\ UNCHANGED <<exited, leaked, udpconfigs, udp, opened, hpc, list, at>>
      BY <1>3 DEF vpn, flags, lists, thread, history, WinsockInv, PortsKnown
    <2> QED
      BY <1>3, <2>1 DEF Known, Holder, InList, Quiet, Active
  <1>4. ASSUME NEW c \in Conns, ConnectionStep(c)
        PROVE  Known(h)'
    <2>1. UNCHANGED vpn
      BY <1>4, ServerFrame
    <2>2. port'[h] = port[h] \/ port'[h] = 0
      <3>1. CASE Accept(c)
        BY <1>1, <3>1 DEF Accept, Own
      <3>2. CASE Finish(c)
        BY <1>1, <3>2 DEF Finish, closesocket, Own, handles
      <3>3. CASE EndLoad(c) \/ EndStore(c) \/ EndTest(c)
        BY <1>1, <3>3 DEF EndLoad, EndStore, EndTest, WSACleanup, handles
      <3> QED
        BY <1>4, <3>1, <3>2, <3>3 DEF ConnectionStep
    <2> QED
      BY <1>2, <1>3, <2>1, <2>2
  <1>5. CASE ListenerStep \/ UNCHANGED vars
    <2>1. UNCHANGED vpn /\ port'[h] = port[h]
      BY <1>5 DEF ListenerStep, AcceptThrows, StartLoad, StartStore, handles, vars
    <2> QED
      BY <1>3, <2>1
  <1>6. ASSUME NEW c \in Conns, StartStep(c) \/ StopStep(c)
        PROVE  Known(h)'
    <2>1. ~overlapped
      BY <1>6, EntersAlone
    <2>2. /\ Known(h) /\ OwnFlags(c)
          /\ \A d, e \in Conns : Active(d) /\ Active(e) => d = e
      BY <2>1 DEF WinsockInv, Alone, PortsKnown, OwnFlags
    <2>3. CASE ~Active(c)
      BY <1>6, <2>2, <2>3, PortsEnter
    <2>4. CASE Active(c)
      <3>1. Held(c, h)
        BY <2>2, <2>4, HolderActive DEF Known, Held, Quiet
      <3>2. Held(c, h)' \/ (InList(udpconfigs, h)' /\ ~exited' /\ ~Active(c)')
        BY <1>6, <2>2, <2>4, <3>1, PortsHeld
      <3>3. \A d \in Conns \ {c} : ~Active(d)'
        <4>1. \A d \in Conns \ {c} : hpc'[d] = hpc[d] /\ ~Active(d)
          BY <1>6, <2>2, <2>4, OthersStay
        <4> QED
          BY <4>1 DEF Active
      <3>4. ~Active(c)' => Quiet'
        BY <3>3 DEF Quiet
      <3> QED
        BY <3>2, <3>4 DEF Held, Known
    <2> QED
      BY <2>3, <2>4
  <1> QED
    BY <1>4, <1>5, <1>6, NextCases

-----------------------------------------------------------------------------
LEMMA InvStep == WinsockInv /\ [Next]_vars => WinsockInv'
  <1> SUFFICES ASSUME WinsockInv, [Next]_vars PROVE WinsockInv'
    OBVIOUS
  <1>1. TypeOK' /\ Threads'
    <2>1. CASE UNCHANGED vars
      <3>1. UNCHANGED <<handles, server, vpn, wsa>>
        BY <2>1 DEF vars
      <3>2. HandleTypes' /\ ServerTypes' /\ VpnTypes'
        <4>1. HandleTypes /\ ServerTypes /\ VpnTypes
          BY TypeParts DEF WinsockInv, VpnTypes
        <4>2. VpnTypes'
          BY <3>1, <4>1, VpnStays
        <4>3. HandleTypes' /\ ServerTypes'
          BY <3>1, <4>1 DEF handles, server, HandleTypes, ServerTypes
        <4> QED
          BY <4>2, <4>3
      <3>3. Threads'
        BY <3>1 DEF WinsockInv, Threads, server, vpn, thread
      <3> QED
        BY <3>2, <3>3, TypePartsNext DEF VpnTypes
    <2> QED
      BY <2>1, NextCases, TypeConnection, TypeListener, TypeHandler
  <1> QED
    BY <1>1, CountingStep, ListenerKeptStep, AloneStep, PortsKnownStep DEF WinsockInv

\* WinsockInv is an inductive invariant of the daemon's sockets.
THEOREM WinsockInductive == Spec => []WinsockInv
  BY InitInv, InvStep, PTL DEF Spec

\* The counts, the handles, the lists and the steps of the threads keep their
\* types.
THEOREM WinsockTypes == Spec => []TypeOK
  <1>1. WinsockInv => TypeOK
    BY DEF WinsockInv
  <1> QED
    BY <1>1, WinsockInductive, PTL

\* However starts, stops and kills overlap, the listening socket of the
\* configuration server is lost only after an update of nofSockets_ was lost
\* between threads, after a list was shut down of whose sockets not one could
\* be opened, or after the same list was shut down twice.
THEOREM WinsockListener == Spec => []ListenerLostOnly
  <1>1. WinsockInv => ListenerLostOnly
    BY DEF WinsockInv, ListenerKept, ListenerLostOnly, ListenerStays
  <1> QED
    BY <1>1, WinsockInductive, PTL

\* As long as no two requests were starting or stopping the VPN at once,
\* shutdown() closes the socket of every adapter: between two runs no port is
\* bound but those that a start left which failed after generateUDPConfigs.
THEOREM WinsockPorts == Spec => []StopClosesSockets
  <1>1. WinsockInv => StopClosesSockets
    <2> SUFFICES ASSUME WinsockInv, exited, Quiet, ~overlapped
                 PROVE  BoundPorts \subseteq leaked
      BY DEF StopClosesSockets, Quiet
    <2>1. \A h \in Handles : Known(h)
      BY DEF WinsockInv, PortsKnown
    <2>2. \A h \in Handles : port[h] = 0 \/ port[h] \in leaked
      BY <2>1, HolderActive DEF Known, Quiet
    <2> QED
      BY <2>2 DEF BoundPorts
  <1> QED
    BY <1>1, WinsockInductive, PTL
=============================================================================
