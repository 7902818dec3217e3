------------------------------ MODULE Winsock ------------------------------
(***************************************************************************)
(* The sockets of the daemon: the listening socket of the configuration    *)
(* server, one per connection, and one per activated adapter of a run.     *)
(*                                                                         *)
(* Winsock counts the calls of WSAStartup and WSACleanup (wsa), and at     *)
(* zero closes every socket of the process.  Class Socket pays into that   *)
(* count once, for as long as its own count nofSockets_ is not zero; it is *)
(* changed without a lock by the thread that accepts and by every thread   *)
(* that ends a connection.  initSocket pays once per adapter, shutdownWSA  *)
(* takes back once per shutdown.                                           *)
(*                                                                         *)
(* Every connection has its thread, and no lock keeps the requests of two  *)
(* connections apart: the handlers test exited and startingUp, and act on  *)
(* them later, so starts and stops overlap.  Each start makes a list of    *)
(* configurations and puts it into udpconfigs; each shutdown closes and    *)
(* deletes the list it finds there.                                        *)
(*                                                                         *)
(* A handle that is closed may be handed out again at once.  The two       *)
(* UDPWorkerConfigs of an adapter share a handle, and closeSockets closes  *)
(* it for each of them.                                                    *)
(*                                                                         *)
(* External: Winsock's count, handles and bound ports, and its failures.   *)
(***************************************************************************)
EXTENDS Integers, Sequences, FiniteSets

CONSTANTS
    Conns,          \* the connections; bound: how many there are at once
    Adapters,       \* the number of activated adapters
    Handles,        \* bound: the socket handles
    Lists,          \* bound: the lists of configurations that are ever made
    Listener,       \* the handle of the listening socket
    INVALID_SOCKET, \* what socket() gives when it fails
    None,           \* no connection
    NULL,           \* no list
    MaxWsa,         \* bound: Winsock's count, above which nothing is started
    MaxSockets      \* bound: class Socket's count, outside of which nobody connects

ASSUME WinsockAssumption ==
    /\ Adapters \in Nat /\ MaxWsa \in Nat /\ MaxSockets \in Nat
    /\ IsFiniteSet(Conns) /\ IsFiniteSet(Handles) /\ IsFiniteSet(Lists)
    /\ Listener \in Handles /\ INVALID_SOCKET \notin Handles
    /\ None \notin Conns /\ NULL \notin Lists
    /\ Conns \cap {"free", "udp", "listener"} = {}

VARIABLES
    wsa,            \* Winsock's count
    nofSockets_,    \* class Socket's count
    owner,          \* whose socket a handle is, or "free"
    port,           \* the adapter whose port a socket is bound to, or 0
    lpc, lconn,     \* the accepting thread: its step, and the new connection
    cpc,            \* the step of each connection's thread
    sock,           \* the handle in each connection's Socket object
    reg,            \* what a ++ or -- of nofSockets_ has loaded, by thread
    exited, startingUp, udpconfigs, \* members of class Application
    udp,            \* the handles in each list of configurations
    heap,           \* whether each list is "unmade", "live" or "deleted"
    hpc, back,      \* each thread's step in a request's handler; where shutdown returns
    list, at,       \* the list that it fills or closes, and closeSockets' position
    opened,         \* history: the adapters of each list with a socket
    ended,          \* history: the lists that a shutdown has gone through
    raced,          \* history: an update of nofSockets_ was lost
    blind,          \* history: a list without a socket was shut down
    again,          \* history: a list was shut down twice
    overlapped,     \* history: two requests were starting or stopping at once
    leaked          \* history: the ports that failed starts left bound

handles == <<owner, port>>
server == <<nofSockets_, lpc, lconn, cpc, sock, reg, raced>>
flags == <<exited, startingUp>>
lists == <<udpconfigs, udp, heap, opened>>
thread == <<hpc, back, list, at>>
history == <<ended, blind, again, overlapped, leaked>>
vpn == <<flags, lists, thread, history>>
vars == <<wsa, handles, server, vpn>>

BoundPorts == {port[h] : h \in Handles} \ {0}
FreeHandles == {h \in Handles : owner[h] = "free"}

Init ==
    /\ wsa = 1 /\ nofSockets_ = 1
    /\ owner = [h \in Handles |-> IF h = Listener THEN "listener" ELSE "free"]
    /\ port = [h \in Handles |-> 0]
    /\ lpc = "accept" /\ lconn = None
    /\ cpc = [c \in Conns |-> "none"]
    /\ sock = [c \in Conns |-> INVALID_SOCKET]
    /\ reg = [t \in Conns \cup {"listener"} |-> 0]
    /\ exited = TRUE /\ startingUp = FALSE
    /\ udpconfigs = NULL /\ heap = [l \in Lists |-> "unmade"]
    /\ udp = [l \in Lists |-> <<>>]
    /\ hpc = [c \in Conns |-> "idle"] /\ back = [c \in Conns |-> "idle"]
    /\ list = [c \in Conns |-> NULL] /\ at = [c \in Conns |-> 0]
    /\ opened = [l \in Lists |-> {}] /\ ended = {} /\ leaked = {}
    /\ raced = FALSE /\ blind = FALSE /\ again = FALSE /\ overlapped = FALSE

-----------------------------------------------------------------------------
(* Winsock.                                                                *)

Own(h, who, adapter) ==
    /\ owner' = [owner EXCEPT ![h] = who]
    /\ port' = [port EXCEPT ![h] = adapter]

\* closesocket of a handle that is not open fails, and nobody looks.
closesocket(h) == IF h = INVALID_SOCKET THEN UNCHANGED handles ELSE Own(h, "free", 0)

\* The last WSACleanup closes every socket.
WSACleanup ==
    /\ wsa' = IF wsa = 0 THEN 0 ELSE wsa - 1
    /\ IF wsa <= 1
         THEN /\ owner' = [h \in Handles |-> "free"]
              /\ port' = [h \in Handles |-> 0]
         ELSE UNCHANGED handles

-----------------------------------------------------------------------------
(* The configuration server: runConfigurationWorker, Answer, class Socket. *)

Accept(c) ==
    /\ lpc = "accept" /\ owner[Listener] = "listener"
    /\ cpc[c] = "none" /\ nofSockets_ \in 0 .. MaxSockets
    /\ wsa <= MaxWsa + Adapters
    /\ \E h \in FreeHandles :
          /\ Own(h, c, 0)
          /\ sock' = [sock EXCEPT ![c] = h]
    /\ lpc' = "load" /\ lconn' = c
    /\ UNCHANGED <<wsa, nofSockets_, cpc, reg, raced, vpn>>

\* accept fails: the exception is caught nowhere and ends the process.
AcceptThrows ==
    /\ lpc = "accept" /\ owner[Listener] # "listener"
    /\ lpc' = "terminated"
    /\ UNCHANGED <<wsa, handles, nofSockets_, lconn, cpc, sock, reg, raced, vpn>>

\* Socket::Start, with ++nofSockets_ as a load and a store.
StartLoad ==
    /\ lpc = "load"
    /\ wsa' = IF nofSockets_ = 0 THEN wsa + 1 ELSE wsa
    /\ reg' = [reg EXCEPT !["listener"] = nofSockets_]
    /\ lpc' = "store"
    /\ UNCHANGED <<handles, nofSockets_, lconn, cpc, sock, raced, vpn>>

StartStore ==
    /\ lpc = "store"
    /\ nofSockets_' = reg["listener"] + 1
    /\ raced' = (raced \/ reg["listener"] # nofSockets_)
    /\ reg' = [reg EXCEPT !["listener"] = 0]
    /\ cpc' = [cpc EXCEPT ![lconn] = "serving"]
    /\ lpc' = "accept" /\ lconn' = None
    /\ UNCHANGED <<wsa, handles, sock, vpn>>

\* The thread is in the handler of a request.
Busy(c) == hpc[c] # "idle"

\* The thread of a connection ends: ~Socket closes the handle, ...
Finish(c) ==
    /\ cpc[c] = "serving" /\ ~Busy(c)
    /\ closesocket(sock[c])
    /\ sock' = [sock EXCEPT ![c] = INVALID_SOCKET]
    /\ cpc' = [cpc EXCEPT ![c] = "load"]
    /\ UNCHANGED <<wsa, nofSockets_, lpc, lconn, reg, raced, vpn>>

\* ... counts down, ...
EndLoad(c) ==
    /\ cpc[c] = "load"
    /\ reg' = [reg EXCEPT ![c] = nofSockets_]
    /\ cpc' = [cpc EXCEPT ![c] = "store"]
    /\ UNCHANGED <<wsa, handles, nofSockets_, lpc, lconn, sock, raced, vpn>>

EndStore(c) ==
    /\ cpc[c] = "store"
    /\ nofSockets_' = reg[c] - 1
    /\ raced' = (raced \/ reg[c] # nofSockets_)
    /\ reg' = [reg EXCEPT ![c] = 0]
    /\ cpc' = [cpc EXCEPT ![c] = "test"]
    /\ UNCHANGED <<wsa, handles, lpc, lconn, sock, vpn>>

\* ... and reads the count again: at zero, Socket::End.
EndTest(c) ==
    /\ cpc[c] = "test"
    /\ IF nofSockets_ = 0 THEN WSACleanup ELSE UNCHANGED <<wsa, handles>>
    /\ cpc' = [cpc EXCEPT ![c] = "none"]
    /\ UNCHANGED <<nofSockets_, lpc, lconn, sock, reg, raced, vpn>>

-----------------------------------------------------------------------------
(* A request to start the VPN: parseDriverStatePutMessage, initRun, run.   *)

\* The thread takes part in starting or stopping the VPN.
Active(c) == hpc[c] \notin {"idle", "startTested", "stopTested", "kill"}

\* It goes on after its last test of the flags.
Overlaps(c) == overlapped' = (overlapped \/ \E d \in Conns \ {c} : Active(d))

Goto(c, step) == hpc' = [hpc EXCEPT ![c] = step]

\* The thread has no more use for its list.
Forget(c) == list' = [list EXCEPT ![c] = NULL]

\* isStartingUp, and then isRunning, at which the answer is "running".
StartTest(c) ==
    /\ hpc[c] = "idle" /\ cpc[c] = "serving" /\ ~startingUp
    /\ Goto(c, "startTested")
    /\ UNCHANGED <<wsa, handles, server, flags, lists, back, list, at, history>>

StartGoesOn(c) ==
    /\ hpc[c] = "startTested"
    /\ IF exited THEN Goto(c, "init") /\ Overlaps(c)
                 ELSE Goto(c, "idle") /\ UNCHANGED overlapped
    /\ UNCHANGED <<wsa, handles, server, flags, lists, back, list, at,
                   ended, blind, again, leaked>>

\* initRun sets one flag and then the other.
InitExited(c) ==
    /\ hpc[c] = "init"
    /\ exited' = FALSE
    /\ Goto(c, "initExited")
    /\ UNCHANGED <<wsa, handles, server, startingUp, lists, back, list, at, history>>

InitStartingUp(c) ==
    /\ hpc[c] = "initExited"
    /\ startingUp' = TRUE
    /\ Goto(c, "starting")
    /\ UNCHANGED <<wsa, handles, server, exited, lists, back, list, at, history>>

\* The configuration cannot be read or no adapter is activated: the flags stay
\* as they are.
InitReturns(c) ==
    /\ hpc[c] = "starting"
    /\ Goto(c, "idle")
    /\ UNCHANGED <<wsa, handles, server, flags, lists, back, list, at, history>>

\* Wintun cannot be loaded.
WintunFails(c) ==
    /\ hpc[c] = "starting"
    /\ Goto(c, "failed")
    /\ UNCHANGED <<wsa, handles, server, flags, lists, back, list, at, history>>

\* generateUDPConfigs makes a list.
NewConfigs(c) ==
    /\ hpc[c] = "starting"
    /\ Adapters > 0 /\ wsa <= MaxWsa
    /\ \E l \in Lists :
          /\ heap[l] = "unmade"
          /\ list' = [list EXCEPT ![c] = l] /\ heap' = [heap EXCEPT ![l] = "live"]
    /\ Goto(c, "sockets")
    /\ UNCHANGED <<wsa, handles, server, flags, udpconfigs, udp, opened, back, at, history>>

\* initSocket of the next adapter.  Its result is ignored.
NextAdapter(c) == Len(udp[list[c]]) + 1

\* A variant whose loop runs once too often.
InitialisingTooLong(c) == hpc[c] = "sockets" /\ NextAdapter(c) <= Adapters + 1

Initialising(c) == hpc[c] = "sockets" /\ NextAdapter(c) <= Adapters

PushConfig(c, h) == udp' = [udp EXCEPT ![list[c]] = Append(@, h)]

InitSocket(c) ==
    /\ Initialising(c)
    /\ NextAdapter(c) \notin BoundPorts
    /\ \E h \in FreeHandles : Own(h, "udp", NextAdapter(c)) /\ PushConfig(c, h)
    /\ wsa' = wsa + 1
    /\ opened' = [opened EXCEPT ![list[c]] = @ \cup {NextAdapter(c)}]
    /\ UNCHANGED <<server, flags, udpconfigs, heap, thread, history>>

\* WSAStartup or socket() fails.
InitNoSocket(c) ==
    /\ Initialising(c)
    /\ PushConfig(c, INVALID_SOCKET)
    /\ UNCHANGED <<wsa, handles, server, flags, udpconfigs, heap, opened, thread, history>>

\* bind fails, because the port is in use or for another reason, or
\* ioctlsocket does: the socket is closed, its handle stays in the
\* configuration.
InitSocketFails(c) ==
    /\ Initialising(c)
    /\ \E h \in FreeHandles : PushConfig(c, h)
    /\ UNCHANGED <<wsa, handles, server, flags, udpconfigs, heap, opened, thread, history>>

\* The assignment to udpconfigs drops the list that was there.
InitDone(c) ==
    /\ hpc[c] = "sockets" /\ NextAdapter(c) > Adapters
    /\ udpconfigs' = list[c]
    /\ Goto(c, "inited")
    /\ UNCHANGED <<wsa, handles, server, flags, udp, heap, opened, back, list, at, history>>

\* The TUN adapter or its session cannot be opened: nobody closes the sockets.
StartFails(c) ==
    /\ hpc[c] = "inited"
    /\ Goto(c, "failed") /\ Forget(c)
    /\ leaked' = leaked \cup opened[list[c]]
    /\ UNCHANGED <<wsa, handles, server, flags, lists, back, at,
                   ended, blind, again, overlapped>>

FailedExited(c) ==
    /\ hpc[c] = "failed"
    /\ exited' = TRUE
    /\ Goto(c, "started")
    /\ UNCHANGED <<wsa, handles, server, startingUp, lists, back, list, at, history>>

\* The end of initRun has no return statement: the handler may take what it
\* finds for a failure, and does not call run().
NoResult(c) ==
    /\ hpc[c] = "inited"
    /\ Goto(c, "idle") /\ Forget(c)
    /\ UNCHANGED <<wsa, handles, server, flags, lists, back, at, history>>

\* run() starts the workers; without a console handler it shuts them down again.
Run(c) ==
    /\ hpc[c] = "inited" /\ Forget(c)
    /\ \/ Goto(c, "started") /\ UNCHANGED <<back, overlapped>>
       \/ Goto(c, "shutdown") /\ back' = [back EXCEPT ![c] = "started"] /\ Overlaps(c)
    /\ UNCHANGED <<wsa, handles, server, flags, lists, at, ended, blind, again, leaked>>

\* The start is over, and so is a failed one.
StartEnds(c) ==
    /\ hpc[c] = "started"
    /\ startingUp' = FALSE
    /\ Goto(c, "idle")
    /\ UNCHANGED <<wsa, handles, server, exited, lists, back, list, at, history>>

-----------------------------------------------------------------------------
(* Requests to stop the VPN and the daemon: parseDriverStatePutMessage,    *)
(* parseDeamonStatePutMessage, Application::shutdown.                      *)

StopTest(c) ==
    /\ hpc[c] = "idle" /\ cpc[c] = "serving" /\ ~startingUp
    /\ Goto(c, "stopTested")
    /\ UNCHANGED <<wsa, handles, server, flags, lists, back, list, at, history>>

StopGoesOn(c) ==
    /\ hpc[c] = "stopTested"
    /\ IF exited THEN Goto(c, "idle") /\ UNCHANGED <<back, overlapped>>
                 ELSE /\ Goto(c, "shutdown") /\ back' = [back EXCEPT ![c] = "idle"]
                      /\ Overlaps(c)
    /\ UNCHANGED <<wsa, handles, server, flags, lists, list, at, ended, blind, again, leaked>>

\* The daemon is to end: startingUp keeps nobody from shutdown().
Kill(c) ==
    /\ hpc[c] = "idle" /\ cpc[c] = "serving"
    /\ Goto(c, "kill")
    /\ UNCHANGED <<wsa, handles, server, flags, lists, back, list, at, history>>

\* A round of the loop; after the last one exit() ends the process.  The
\* shutdown that exit() itself calls is one round more.
KillRound(c) ==
    /\ hpc[c] = "kill"
    /\ IF exited THEN lpc' = "terminated" /\ UNCHANGED <<hpc, back, overlapped>>
                 ELSE /\ Goto(c, "shutdown") /\ back' = [back EXCEPT ![c] = "kill"]
                      /\ Overlaps(c) /\ UNCHANGED lpc
    /\ UNCHANGED <<wsa, handles, nofSockets_, lconn, cpc, sock, reg, raced, flags, lists,
                   list, at, ended, blind, again, leaked>>

Return(c) ==
    /\ Goto(c, back[c]) /\ Forget(c)
    /\ back' = [back EXCEPT ![c] = "idle"]

\* shutdown() tests exited and sets it later.
ShutdownTest(c) ==
    /\ hpc[c] = "shutdown"
    /\ IF exited THEN Return(c)
                 ELSE Goto(c, "exiting") /\ UNCHANGED <<back, list>>
    /\ UNCHANGED <<wsa, handles, server, flags, lists, at, history>>

ShutdownExited(c) ==
    /\ hpc[c] = "exiting"
    /\ exited' = TRUE
    /\ Goto(c, "clearing")
    /\ UNCHANGED <<wsa, handles, server, startingUp, lists, back, list, at, history>>

\* The workers are gone: closeSockets is called with the list in udpconfigs.
CloseFirst(c) ==
    /\ hpc[c] = "clearing" /\ udpconfigs # NULL
    /\ list' = [list EXCEPT ![c] = udpconfigs] /\ at' = [at EXCEPT ![c] = 1]
    /\ Goto(c, "closing")
    /\ UNCHANGED <<wsa, handles, server, flags, lists, back, history>>

\* A variant that leaves out the last adapter.
LastConfigShort(c) == 2 * Len(udp[list[c]]) - 2

LastConfig(c) == 2 * Len(udp[list[c]])

\* closeSockets: the sender's and the receiver's configuration in turn.
CloseNext(c) ==
    /\ hpc[c] = "closing" /\ at[c] <= LastConfig(c)
    /\ closesocket(udp[list[c]][(at[c] + 1) \div 2])
    /\ at' = [at EXCEPT ![c] = @ + 1]
    /\ UNCHANGED <<wsa, server, flags, lists, hpc, back, list, history>>

\* A variant that cleans up for each socket's two configurations.
shutdownWSATwice ==
    /\ wsa' = IF wsa <= 2 THEN 0 ELSE wsa - 2
    /\ IF wsa <= 2
         THEN /\ owner' = [h \in Handles |-> "free"]
              /\ port' = [h \in Handles |-> 0]
         ELSE UNCHANGED handles

shutdownWSA == WSACleanup

CleanUp(c) ==
    /\ hpc[c] = "closing" /\ at[c] > LastConfig(c)
    /\ shutdownWSA
    /\ ended' = ended \cup {list[c]} /\ at' = [at EXCEPT ![c] = 0]
    /\ again' = (again \/ list[c] \in ended)
    /\ blind' = (blind \/ opened[list[c]] = {})
    /\ Goto(c, "deleting")
    /\ UNCHANGED <<server, flags, lists, back, list, overlapped, leaked>>

\* The list that is deleted is the one in udpconfigs by now; a vector's
\* destructor leaves it empty.
DeleteConfigs(c) ==
    /\ hpc[c] = "deleting" /\ udpconfigs # NULL
    /\ heap' = [heap EXCEPT ![udpconfigs] = "deleted"]
    /\ udp' = [udp EXCEPT ![udpconfigs] = <<>>]
    /\ opened' = [opened EXCEPT ![udpconfigs] = {}]
    /\ Return(c)
    /\ UNCHANGED <<wsa, handles, server, flags, udpconfigs, at, history>>

Live(l) == l # NULL /\ heap[l] = "live"

\* No list, or a deleted one, is looked into: this ends the process, or else
\* the deleted list is used as it was left, empty.
Fault(c) ==
    /\ \/ hpc[c] \in {"clearing", "deleting"} /\ ~Live(udpconfigs)
       \/ hpc[c] = "closing" /\ ~Live(list[c])
    /\ lpc' = "terminated"
    /\ UNCHANGED <<wsa, handles, nofSockets_, lconn, cpc, sock, reg, raced, vpn>>

-----------------------------------------------------------------------------
Terminated == lpc = "terminated" /\ UNCHANGED vars

Up == lpc # "terminated"

\* The daemon waits for a connection.
Idle == lpc = "accept" /\ (\A c \in Conns : cpc[c] = "none") /\ UNCHANGED vars

ConnectionStep(c) ==
    Accept(c) \/ Finish(c) \/ EndLoad(c) \/ EndStore(c) \/ EndTest(c)

StartStep(c) ==
    \/ StartTest(c) \/ StartGoesOn(c) \/ InitExited(c) \/ InitStartingUp(c)
    \/ InitReturns(c) \/ WintunFails(c) \/ NewConfigs(c)
    \/ InitSocket(c) \/ InitNoSocket(c) \/ InitSocketFails(c) \/ InitDone(c)
    \/ StartFails(c) \/ FailedExited(c) \/ NoResult(c) \/ Run(c) \/ StartEnds(c)

StopStep(c) ==
    \/ StopTest(c) \/ StopGoesOn(c) \/ Kill(c) \/ KillRound(c)
    \/ ShutdownTest(c) \/ ShutdownExited(c) \/ CloseFirst(c) \/ CloseNext(c)
    \/ CleanUp(c) \/ DeleteConfigs(c) \/ Fault(c)

Next ==
    \/ /\ Up
       /\ \/ \E c \in Conns : ConnectionStep(c) \/ StartStep(c) \/ StopStep(c)
          \/ AcceptThrows \/ StartLoad \/ StartStore
    \/ Idle \/ Terminated

Spec == Init /\ [][Next]_vars

-----------------------------------------------------------------------------
(* Properties.                                                             *)

HandlerSteps ==
    {"idle", "startTested", "init", "initExited", "starting", "sockets", "inited", "failed",
     "started", "stopTested", "kill", "shutdown", "exiting", "clearing", "closing", "deleting"}

\* The types of the counts, of the handles and of the threads' steps.
TypeOK ==
    /\ wsa \in Nat /\ nofSockets_ \in Int
    /\ owner \in [Handles -> Conns \cup {"free", "udp", "listener"}]
    /\ port \in [Handles -> 0 .. Adapters]
    /\ lpc \in {"accept", "load", "store", "terminated"} /\ lconn \in Conns \cup {None}
    /\ cpc \in [Conns -> {"none", "serving", "load", "store", "test"}]
    /\ sock \in [Conns -> Handles \cup {INVALID_SOCKET}]
    /\ reg \in [Conns \cup {"listener"} -> Int]
    /\ exited \in BOOLEAN /\ startingUp \in BOOLEAN
    /\ udpconfigs \in Lists \cup {NULL} /\ heap \in [Lists -> {"unmade", "live", "deleted"}]
    /\ udp \in [Lists -> Seq(Handles \cup {INVALID_SOCKET})]
    /\ \A l \in Lists : Len(udp[l]) <= Adapters
    /\ hpc \in [Conns -> HandlerSteps] /\ back \in [Conns -> {"idle", "started", "kill"}]
    /\ list \in [Conns -> Lists \cup {NULL}] /\ at \in [Conns -> 0 .. 2 * Adapters + 1]
    /\ opened \in [Lists -> SUBSET (1 .. Adapters)]
    /\ ended \subseteq Lists /\ leaked \subseteq 1 .. Adapters
    /\ raced \in BOOLEAN /\ blind \in BOOLEAN /\ again \in BOOLEAN /\ overlapped \in BOOLEAN

\* "The driver itself does nothing but open a port and waiting for commands":
\* the listening socket stays open.
ListenerStays == owner[Listener] = "listener"

\* WSAStartup and WSACleanup are called in unequal numbers, closeSockets closes
\* handles that may be somebody else's by then, and requests overlap in every
\* way, yet the listening socket is lost in three ways only: an update of
\* nofSockets_ is lost between threads, a list of configurations is shut down of
\* whose sockets not one could be opened, or overlapping requests shut down the
\* same list twice.
ListenerLostOnly == ListenerStays \/ raced \/ blind \/ again

\* While nobody starts or stops the VPN and it is not running, no port is bound
\* that the next run needs, but those of starts that failed after
\* generateUDPConfigs; unless two requests once were starting or stopping it at
\* the same time, for which neither flag is a lock.
StopClosesSockets ==
    exited /\ (\A c \in Conns : ~Active(c)) /\ ~overlapped => BoundPorts \subseteq leaked
=============================================================================
