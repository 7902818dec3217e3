------------------------- MODULE NetShareCLIProofs -------------------------
(***************************************************************************)
(* Proofs about the control plane.  The types hold for any number of       *)
(* threads of the daemon; all the rest holds as long as there is one at a  *)
(* time, a connection or the console handler: with two it is false, as     *)
(* nothing in class Application is locked.  The requests, the failures on  *)
(* the way up, the size of the connection and the moment at which a client *)
(* is ended are arbitrary.                                                 *)
(***************************************************************************)
EXTENDS NetShareCLI, TLAPS, SequenceTheorems

\* One thread at a time calls into class Application.
OneThread == Threads # {} /\ \A s, t \in Threads : s = t

-----------------------------------------------------------------------------
(* The inductive invariant: class Application.                             *)

Ending == {"kill", "ctrlC", "ctrlShutdown"}

\* The workers run, and all that they use is there.
Started ==
    /\ conf \in Configs /\ conf \in running
    /\ Workers = conf /\ alive = {conf}
    /\ udpconfigs = "live" /\ open = Resources

\* The workers have been told to end.
Halted ==
    /\ conf \in Configs /\ conf \notin running
    /\ Workers = conf /\ alive \subseteq {conf}
    /\ udpconfigs = "live" /\ open = Resources

Quiet == alive = {} /\ "session" \notin open

\* All is shut down.
AllDown == exited /\ alive = {} /\ open = {}

\* Between two requests: stopped, running, or halfway up after a start that
\* failed, or whose result was undefined, and left startingUp set.
Resting ==
    \/ exited /\ Quiet
    \/ ~exited /\ ~startingUp /\ Started
    \/ ~exited /\ startingUp /\ alive = {}

\* initRun is on its way.
Starting == ~exited /\ startingUp /\ Quiet

\* initRun has succeeded.
Ready ==
    /\ ~exited /\ startingUp /\ alive = {}
    /\ conf \in Configs /\ udpconfigs = "live" /\ open = Resources

\* What holds where a thread handles a request.
AtHandler(t) ==
    /\ pc[t] \in {"idle", "startRequest", "stopRequest", "killRequest", "killIfRunning",
                  "closeRequest", "badRequest"} => Resting
    /\ pc[t] \in {"startIfExited", "stopIfRunning"} => Resting /\ ~startingUp
    /\ pc[t] \in {"stopped", "killEnd", "killAnswer", "exitEnd"} => exited /\ Quiet
    /\ pc[t] = "exit" => Resting /\ (exited \/ "atexit" \in hooked)

\* What holds on the way up.
AtStart(t) ==
    /\ pc[t] = "init" => exited /\ Quiet
    /\ pc[t] = "initStarting" => ~exited /\ Quiet
    /\ pc[t] = "initConfig" => Starting
    /\ pc[t] \in {"initAdapters", "initWintun"} => Starting /\ conf \in Configs
    /\ pc[t] = "initAdapter" =>
          Starting /\ conf \in Configs /\ udpconfigs = "live" /\ {"quitEvent", "sockets"} \subseteq open
    /\ pc[t] = "initSession" =>
          Starting /\ conf \in Configs /\ udpconfigs = "live"
          /\ {"quitEvent", "sockets", "adapter"} \subseteq open
    /\ pc[t] = "inited" => IF ret[t] THEN Ready ELSE Resting
    /\ pc[t] = "run" => Ready
    /\ pc[t] = "runWorkers" => Ready /\ conf \in running
    /\ pc[t] = "runHandler" => ~exited /\ startingUp /\ Started
    /\ pc[t] = "runEnd" => (~exited /\ startingUp /\ Started) \/ AllDown
    /\ pc[t] = "ran" => ~startingUp /\ ((~exited /\ Started) \/ AllDown)

\* What holds on the way down.  Only the requests that end the daemon shut
\* down what never came up.
AtShutdown(t) ==
    /\ pc[t] = "shutdown" =>
          \/ ~exited /\ Started
          \/ Resting /\ req[t] \in Ending /\ back[t] # "runEnd"
    /\ pc[t] \in {"stats", "exited"} =>
          ~exited /\ (Started \/ (alive = {} /\ req[t] \in Ending))
    /\ pc[t] = "halt" => exited /\ (Started \/ (alive = {} /\ req[t] \in Ending))
    /\ pc[t] = "join" => exited /\ (Halted \/ (alive = {} /\ req[t] \in Ending))
    /\ pc[t] = "close" =>
          exited /\ alive = {} /\ ((conf \in Configs /\ udpconfigs = "live") \/ req[t] \in Ending)
    /\ pc[t] = "clear" => AllDown

ShutdownLabels == {"shutdown", "stats", "exited", "halt", "join", "close", "clear"}

StartLabels ==
    {"startRequest", "startIfExited", "init", "initStarting", "initConfig", "initAdapters",
     "initWintun", "initAdapter", "initSession", "inited", "run", "runWorkers",
     "runHandler", "runEnd", "ran"}

StopLabels == {"stopRequest", "stopIfRunning", "stopped"}

KillLabels == {"killRequest", "killIfRunning", "killEnd", "killAnswer"}

\* Where a thread is, it came by the request that it handles.
Labels(t) ==
    /\ pc[t] \in StartLabels => req[t] = "start"
    /\ pc[t] \in StopLabels => req[t] = "stop"
    /\ pc[t] \in KillLabels => req[t] = "kill"
    /\ pc[t] = "exit" => req[t] \in {"kill", "ctrlC"}
    /\ pc[t] = "exitEnd" => req[t] \in Ending
    /\ pc[t] = "closeRequest" => req[t] = "close"
    /\ pc[t] = "badRequest" => req[t] = "bad"
    /\ pc[t] \in ShutdownLabels =>
          \/ back[t] = "runEnd" /\ req[t] = "start"
          \/ back[t] = "stopped" /\ req[t] = "stop"
          \/ back[t] = "killEnd" /\ req[t] = "kill"
          \/ back[t] = "exitEnd" /\ req[t] \in Ending
    /\ pc[t] # "runEnd" => ("ctrl" \in hooked => "atexit" \in hooked)

AllLabels ==
    ShutdownLabels \cup StartLabels \cup StopLabels \cup KillLabels
    \cup {"idle", "closeRequest", "badRequest", "exit", "exitEnd"}

\* The types that TypeOK leaves out.
Tables ==
    /\ pc \in [Threads -> AllLabels] /\ back \in [Threads -> AllLabels]
    /\ req \in [Threads -> DOMAIN Handler \cup {"none", "ctrlC", "ctrlShutdown"}]

\* A process that has ended did so at the end of exit.
Ended == proc = "exited" => \E t \in Threads : pc[t] = "exitEnd"

ThreadInv(t) == AtHandler(t) /\ AtStart(t) /\ AtShutdown(t) /\ Labels(t)

AppInv ==
    /\ \A t \in Threads : ThreadInv(t)
    /\ Ended

-----------------------------------------------------------------------------
(* Types.                                                                  *)

Lines == [type : {"Update", "Response"}, state : States]

\* The parts of TypeOK: class Application, the connections, the clients.
AppTypes ==
    /\ exited \in BOOLEAN /\ startingUp \in BOOLEAN /\ crashed \in BOOLEAN
    /\ conf \in Configs \cup {NULL}
    /\ running \subseteq Configs /\ alive \subseteq Configs
    /\ udpconfigs \in {NULL, FREED, "live"}
    /\ Workers \in Configs \cup {NULL, FREED}
    /\ open \subseteq Resources
    /\ hooked \subseteq {"ctrl", "atexit"}
    /\ proc \in {"up", "crashed", "exited", "ended"}
    /\ ret \in [Threads -> BOOLEAN]

ConnTypes ==
    /\ link \in [Threads -> SUBSET {"client", "daemon"}]
    /\ asks \in [Threads -> Seq(DOMAIN Handler)]
    /\ lines \in [Threads -> Seq(Lines)]
    /\ \A t \in Threads : Len(lines[t]) <= Window

ClientTypes ==
    /\ cmd \in [Threads -> Commands \cup {"none"}]
    /\ answers \in [Threads -> SUBSET States]

LEMMA TypeParts == TypeOK <=> AppTypes /\ ConnTypes /\ ClientTypes
  BY DEF TypeOK, AppTypes, ConnTypes, ClientTypes, Lines

Types == AppTypes /\ ConnTypes /\ ClientTypes /\ Tables

LEMMA HandlerDomain == DOMAIN Handler = {"start", "stop", "kill", "close", "bad", "names"}
  BY DEF Handler

LEMMA TypesInit == Init => Types
  <1> SUFFICES ASSUME Init PROVE Types
    OBVIOUS
  <1> USE DEF Init, ServerInit, AppInit
  <1>1. AppTypes
    BY DEF AppTypes
  <1>2. ConnTypes
    <2>1. <<>> \in Seq(DOMAIN Handler) /\ <<>> \in Seq(Lines) /\ Len(<<>>) = 0
      BY EmptySeq
    <2> QED
      BY <2>1, WindowAssumption DEF ConnTypes
  <1>3. ClientTypes
    BY DEF ClientTypes
  <1>4. Tables
    BY DEF Tables, AllLabels
  <1> QED
    BY <1>1, <1>2, <1>3, <1>4 DEF Types

\* Appending a line to a connection that has room for it.
LEMMA SendTypes ==
    ASSUME ConnTypes, NEW t \in Threads, NEW line \in Lines, SendLine(t, line)
    PROVE  /\ lines' \in [Threads -> Seq(Lines)]
           /\ \A s \in Threads : Len(lines'[s]) <= Window
  <1>1. CASE lines' = lines
    BY <1>1 DEF ConnTypes
  <1>2. CASE lines' = [lines EXCEPT ![t] = Append(@, line)] /\ Len(lines[t]) < Window
    <2>1. lines[t] \in Seq(Lines) /\ Len(lines[t]) \in Nat
      BY LenProperties DEF ConnTypes
    <2>2. Append(lines[t], line) \in Seq(Lines) /\ Len(Append(lines[t], line)) = Len(lines[t]) + 1
      BY <2>1, AppendProperties
    <2>3. lines' = [lines EXCEPT ![t] = Append(lines[t], line)]
      BY <1>2
    <2>4. lines' \in [Threads -> Seq(Lines)]
      BY <2>2, <2>3 DEF ConnTypes
    <2>5. ASSUME NEW s \in Threads PROVE Len(lines'[s]) <= Window
      <3>1. CASE s = t
        BY <1>2, <2>1, <2>2, <2>3, <3>1, WindowAssumption DEF ConnTypes
      <3>2. CASE s # t
        BY <2>3, <3>2 DEF ConnTypes
      <3> QED
        BY <3>1, <3>2
    <2> QED
      BY <2>4, <2>5
  <1> QED
    BY <1>1, <1>2 DEF SendLine

\* A handler sends at most one line.
LEMMA HandlerLines ==
    ASSUME NEW t \in Threads, HandlerStep(t)
    PROVE  lines' = lines \/ \E line \in Lines : SendLine(t, line)
  <1> USE DEF Answer, Proceed, CallShutdown, serverVars, connVars, Response, Update,
              errorResponse, Lines, States
  <1>1. CASE \/ ReceiveLine(t) \/ Disconnected(t) \/ CloseConnection(t) \/ RejectRequest(t)
             \/ Exit(t) \/ ExitEnd(t)
    BY <1>1 DEF ReceiveLine, Disconnected, CloseConnection, RejectRequest, Exit, ExitEnd
  <1>2. CASE StartIfNotStarting(t) \/ StartIfExited(t) \/ StartInited(t) \/ StartRan(t)
    BY <1>2 DEF StartIfNotStarting, StartIfExited, StartInited, StartRan
  <1>3. CASE StopIfNotStarting(t) \/ StopIfRunning(t) \/ StopEnd(t)
    BY <1>3 DEF StopIfNotStarting, StopIfRunning, StopEnd
  <1>4. CASE KillStarting(t) \/ KillIfRunning(t) \/ KillEnd(t) \/ KillAnswer(t)
    BY <1>4 DEF KillStarting, KillIfRunning, KillEnd, KillAnswer
  <1> QED
    BY <1>1, <1>2, <1>3, <1>4 DEF HandlerStep

\* What a handler leaves alone.
LEMMA HandlerFrame ==
    ASSUME NEW t \in Threads, HandlerStep(t)
    PROVE  /\ UNCHANGED <<flags, memory, open, hooked, ret>>
           /\ proc' = proc \/ (ExitEnd(t) /\ proc' = "exited")
  <1> USE DEF Answer, Proceed, CallShutdown, appState, appVars, flags, memory
  <1>1. CASE \/ ReceiveLine(t) \/ Disconnected(t) \/ CloseConnection(t) \/ RejectRequest(t)
             \/ Exit(t) \/ ExitEnd(t)
    BY <1>1 DEF ReceiveLine, Disconnected, CloseConnection, RejectRequest, Exit, ExitEnd
  <1>2. CASE StartIfNotStarting(t) \/ StartIfExited(t) \/ StartInited(t) \/ StartRan(t)
    BY <1>2 DEF StartIfNotStarting, StartIfExited, StartInited, StartRan
  <1>3. CASE StopIfNotStarting(t) \/ StopIfRunning(t) \/ StopEnd(t)
    BY <1>3 DEF StopIfNotStarting, StopIfRunning, StopEnd
  <1>4. CASE KillStarting(t) \/ KillIfRunning(t) \/ KillEnd(t) \/ KillAnswer(t)
    BY <1>4 DEF KillStarting, KillIfRunning, KillEnd, KillAnswer
  <1> QED
    BY <1>1, <1>2, <1>3, <1>4 DEF HandlerStep

LEMMA TypesHandler ==
    ASSUME Types, NEW t \in Threads, HandlerStep(t), UNCHANGED <<cmd, answers>>
    PROVE  Types'
  <1>1. AppTypes'
    BY HandlerFrame DEF flags, memory, Types, AppTypes
  <1>2. ClientTypes'
    BY DEF Types, ClientTypes
  <1>3. lines' \in [Threads -> Seq(Lines)] /\ \A s \in Threads : Len(lines'[s]) <= Window
    <2>1. CASE lines' = lines
      BY <2>1 DEF Types, ConnTypes
    <2>2. CASE \E line \in Lines : SendLine(t, line)
      BY <2>2, SendTypes DEF Types
    <2> QED
      BY <2>1, <2>2, HandlerLines
  <1> USE DEF Answer, Proceed, CallShutdown, Goto, serverVars, connVars, appVars
  <1>4. asks' \in [Threads -> Seq(DOMAIN Handler)] /\ Tables'
    <2>1. CASE ReceiveLine(t)
      <3>1. asks[t] \in Seq(DOMAIN Handler) /\ asks[t] # <<>>
        BY <2>1 DEF ReceiveLine, Types, ConnTypes
      <3>2. Head(asks[t]) \in DOMAIN Handler /\ Tail(asks[t]) \in Seq(DOMAIN Handler)
        BY <3>1, HeadTailProperties
      <3>3. Handler[Head(asks[t])] \in AllLabels
        BY <3>2, HandlerDomain DEF Handler, AllLabels, StartLabels, StopLabels, KillLabels
      <3>4. /\ asks' = [asks EXCEPT ![t] = Tail(asks[t])]
            /\ req' = [req EXCEPT ![t] = Head(asks[t])]
            /\ pc' = [pc EXCEPT ![t] = Handler[Head(asks[t])]]
            /\ back' = back
        BY <2>1 DEF ReceiveLine
      <3> HIDE DEF Goto
      <3>5. asks' \in [Threads -> Seq(DOMAIN Handler)]
        BY <3>2, <3>4 DEF Types, ConnTypes
      <3>6. Tables'
        BY <3>2, <3>3, <3>4 DEF Types, Tables
      <3> QED
        BY <3>5, <3>6
    <2>2. CASE ~ReceiveLine(t)
      <3>1. asks' = asks /\ req' = req
        BY <2>2 DEF HandlerStep, Disconnected, CloseConnection, RejectRequest,
           StartIfNotStarting, StartIfExited, StartInited, StartRan,
           StopIfNotStarting, StopIfRunning, StopEnd,
           KillStarting, KillIfRunning, KillEnd, KillAnswer, Exit, ExitEnd
      <3>2. back' = back \/ \E l \in {"stopped", "killEnd", "exitEnd"} : back' = [back EXCEPT ![t] = l]
        BY <2>2 DEF HandlerStep, Disconnected, CloseConnection, RejectRequest,
           StartIfNotStarting, StartIfExited, StartInited, StartRan,
           StopIfNotStarting, StopIfRunning, StopEnd,
           KillStarting, KillIfRunning, KillEnd, KillAnswer, Exit, ExitEnd
      <3>3. pc' = pc \/ \E l \in {"idle", "startIfExited", "init", "run", "stopIfRunning",
                                  "shutdown", "killIfRunning", "killEnd", "killAnswer",
                                  "killRequest", "exit", "exitEnd"} : pc' = [pc EXCEPT ![t] = l]
        <4>1. CASE \/ Disconnected(t) \/ CloseConnection(t) \/ RejectRequest(t)
                   \/ Exit(t) \/ ExitEnd(t)
          BY <4>1 DEF Disconnected, CloseConnection, RejectRequest, Exit, ExitEnd
        <4>2. CASE StartIfNotStarting(t) \/ StartIfExited(t) \/ StartInited(t) \/ StartRan(t)
          BY <4>2 DEF StartIfNotStarting, StartIfExited, StartInited, StartRan
        <4>3. CASE StopIfNotStarting(t) \/ StopIfRunning(t) \/ StopEnd(t)
          BY <4>3 DEF StopIfNotStarting, StopIfRunning, StopEnd
        <4>4. CASE KillStarting(t) \/ KillIfRunning(t) \/ KillEnd(t) \/ KillAnswer(t)
          BY <4>4 DEF KillStarting, KillIfRunning, KillEnd, KillAnswer
        <4> QED
          BY <2>2, <4>1, <4>2, <4>3, <4>4 DEF HandlerStep
      <3>4. back' \in [Threads -> AllLabels]
        BY <3>2 DEF Types, Tables, AllLabels, StopLabels, KillLabels
      <3>5. pc' \in [Threads -> AllLabels]
        BY <3>3 DEF Types, Tables, AllLabels, StartLabels, StopLabels, KillLabels, ShutdownLabels
      <3> QED
        BY <3>1, <3>4, <3>5 DEF Types, ConnTypes, Tables
    <2> QED
      BY <2>1, <2>2
  <1>5. link' \in [Threads -> SUBSET {"client", "daemon"}]
    <2>1. CASE Disconnected(t) \/ CloseConnection(t)
      <3>1. \/ link' = [link EXCEPT ![t] = {}]
            \/ link' = [link EXCEPT ![t] = link[t] \ {"daemon"}]
        BY <2>1 DEF Disconnected, CloseConnection
      <3>2. link[t] \ {"daemon"} \in SUBSET {"client", "daemon"}
        BY DEF Types, ConnTypes
      <3> QED
        BY <3>1, <3>2 DEF Types, ConnTypes
    <2>2. CASE ~Disconnected(t) /\ ~CloseConnection(t)
      <3>1. link' = link
        BY <2>2 DEF HandlerStep, ReceiveLine, RejectRequest,
           StartIfNotStarting, StartIfExited, StartInited, StartRan,
           StopIfNotStarting, StopIfRunning, StopEnd,
           KillStarting, KillIfRunning, KillEnd, KillAnswer, Exit, ExitEnd
      <3> QED
        BY <3>1 DEF Types, ConnTypes
    <2> QED
      BY <2>1, <2>2
  <1>6. ConnTypes'
    BY <1>3, <1>4, <1>5 DEF ConnTypes
  <1> QED
    BY <1>1, <1>2, <1>4, <1>6 DEF Types

\* The steps of initRun, run and shutdown keep the types of the members.
LEMMA TypesApp ==
    ASSUME Types, NEW t \in Threads, AppStep(t), UNCHANGED serverVars, UNCHANGED <<cmd, answers>>
    PROVE  Types'
  <1> USE DEF Goto, initReturn, flags, memory, environment, appState
  <1>1. ConnTypes' /\ ClientTypes'
    BY DEF Types, ConnTypes, ClientTypes, serverVars, connVars
  <1>2. req' = req
    BY DEF serverVars
  <1>3. CASE \/ InitFlags(t) \/ InitStarting(t) \/ InitConfigFails(t) \/ InitConfig(t)
             \/ InitNoAdapters(t) \/ InitAdapters(t)
    <2> USE DEF InitFlags, InitStarting, InitConfigFails, InitConfig, InitNoAdapters, InitAdapters
    <2>1. AppTypes'
      BY <1>3 DEF Types, AppTypes
    <2>2. Tables'
      BY <1>2, <1>3 DEF Types, Tables, AllLabels, StartLabels
    <2> QED
      BY <1>1, <2>1, <2>2 DEF Types
  <1>4. CASE InitFails(t) \/ InitSockets(t) \/ InitAdapter(t) \/ InitSession(t)
    <2> USE DEF InitFails, InitSockets, InitAdapter, InitSession
    <2>1. AppTypes'
      BY <1>4 DEF Types, AppTypes, Resources
    <2>2. Tables'
      BY <1>2, <1>4 DEF Types, Tables, AllLabels, StartLabels
    <2> QED
      BY <1>1, <2>1, <2>2 DEF Types
  <1>5. CASE RunFlag(t) \/ RunWorkers(t) \/ RunHandler(t) \/ RunHandlerFails(t) \/ RunEnd(t)
    <2> USE DEF RunFlag, RunWorkers, RunHandler, RunHandlerFails, RunEnd
    <2>1. AppTypes'
      BY <1>5 DEF Types, AppTypes
    <2>2. Tables'
      BY <1>2, <1>5 DEF Types, Tables, AllLabels, StartLabels, ShutdownLabels
    <2> QED
      BY <1>1, <2>1, <2>2 DEF Types
  <1>6. CASE \/ ShutdownCheck(t) \/ ShutdownStats(t) \/ ShutdownExited(t) \/ ShutdownStop(t)
             \/ ShutdownJoin(t) \/ ShutdownClose(t) \/ ShutdownClear(t) \/ Fault(t)
    <2> USE DEF ShutdownCheck, ShutdownStats, ShutdownExited, ShutdownStop,
                ShutdownJoin, ShutdownClose, ShutdownClear, Fault
    <2>1. AppTypes'
      BY <1>6 DEF Types, AppTypes
    <2>2. back' = back /\ \E l \in AllLabels : pc' = pc \/ pc' = [pc EXCEPT ![t] = l]
      BY <1>6 DEF Types, Tables, AllLabels, ShutdownLabels
    <2>3. Tables'
      BY <1>2, <2>2 DEF Types, Tables
    <2> QED
      BY <1>1, <2>1, <2>3 DEF Types
  <1> QED
    BY <1>3, <1>4, <1>5, <1>6 DEF AppStep

LEMMA TypesSignal ==
    ASSUME Types, WorkersStep \/ ConsoleEnds \/ \E t \in Threads : Signal(t),
           UNCHANGED <<cmd, answers>>
    PROVE  Types'
  <1>1. ConnTypes' /\ ClientTypes'
    BY DEF Signal, handleCtrlSignal, WorkersStep, ConsoleEnds, serverVars, connVars,
           Types, ConnTypes, ClientTypes
  <1>2. AppTypes'
    BY DEF Signal, handleCtrlSignal, WorkersStep, WorkersEnd, ConsoleEnds, appState, flags,
           memory, environment, Types, AppTypes
  <1>3. Tables'
    BY DEF Signal, handleCtrlSignal, HandledSignals, WorkersStep, WorkersEnd, ConsoleEnds, Goto,
       serverVars, Types, Tables, AllLabels, ShutdownLabels
  <1> QED
    BY <1>1, <1>2, <1>3 DEF Types

\* The steps of the clients.
LEMMA TypesClient ==
    ASSUME Types, NEW t \in Threads,
           ClientStep(t) \/ Interrupt(t) \/ \E c \in Commands : Connect(t, c)
    PROVE  Types'
  <1>1. AppTypes' /\ Tables'
    <2>1. UNCHANGED appVars /\ UNCHANGED req
      BY DEF ClientStep, ReadLine, ReadLast, ReadNothing, Interrupt, Connect
    <2> QED
      BY <2>1 DEF appVars, appState, Types, AppTypes, Tables
  <1>2. /\ lines[t] \in Seq(Lines) /\ Len(lines[t]) \in Nat /\ Len(lines[t]) <= Window
        /\ asks[t] \in Seq(DOMAIN Handler) /\ link[t] \in SUBSET {"client", "daemon"}
    BY LenProperties DEF Types, ConnTypes
  <1>3. CASE ReadLine(t)
    <2>1. lines[t] # <<>>
      BY <1>3 DEF ReadLine
    <2>2. /\ Tail(lines[t]) \in Seq(Lines) /\ Len(Tail(lines[t])) <= Window
          /\ Head(lines[t]) \in Lines
      BY <1>2, <2>1, HeadTailProperties, WindowAssumption
    <2>3. Append(asks[t], stopConnectionRequest) \in Seq(DOMAIN Handler)
      <3>1. stopConnectionRequest \in DOMAIN Handler
        BY HandlerDomain DEF stopConnectionRequest
      <3> QED
        BY <1>2, <3>1, AppendProperties
    <2>4. lines' = [lines EXCEPT ![t] = Tail(lines[t])] /\ link' = link /\ cmd' = cmd
      BY <1>3 DEF ReadLine
    <2>5. /\ asks' = asks \/ asks' = [asks EXCEPT ![t] = Append(asks[t], stopConnectionRequest)]
          /\ answers' = answers \/ answers' = [answers EXCEPT ![t] = answers[t] \cup {Head(lines[t]).state}]
      BY <1>3 DEF ReadLine
    <2>6. asks' \in [Threads -> Seq(DOMAIN Handler)]
      BY <2>3, <2>5 DEF Types, ConnTypes
    <2>7. lines' \in [Threads -> Seq(Lines)] /\ \A s \in Threads : Len(lines'[s]) <= Window
      BY <2>2, <2>4 DEF Types, ConnTypes
    <2>8. ClientTypes'
      <3>1. Head(lines[t]).state \in States
        BY <2>2 DEF Lines
      <3> QED
        BY <2>4, <2>5, <3>1 DEF Types, ClientTypes
    <2> QED
      BY <1>1, <2>4, <2>6, <2>7, <2>8 DEF Types, ConnTypes
  <1>4. CASE ReadLast(t)
    <2>1. lines[t] # <<>>
      BY <1>4 DEF ReadLast
    <2>2. Tail(lines[t]) \in Seq(Lines) /\ Len(Tail(lines[t])) <= Window
      BY <1>2, <2>1, HeadTailProperties, WindowAssumption
    <2>3. /\ lines' = [lines EXCEPT ![t] = Tail(lines[t])]
          /\ link' = [link EXCEPT ![t] = link[t] \ {"client"}] /\ UNCHANGED <<asks, cmd, answers>>
      BY <1>4 DEF ReadLast
    <2>4. lines' \in [Threads -> Seq(Lines)] /\ \A s \in Threads : Len(lines'[s]) <= Window
      BY <2>2, <2>3 DEF Types, ConnTypes
    <2>5. link' \in [Threads -> SUBSET {"client", "daemon"}]
      BY <1>2, <2>3 DEF Types, ConnTypes
    <2> QED
      BY <1>1, <2>3, <2>4, <2>5 DEF Types, ConnTypes, ClientTypes
  <1>5. CASE ReadNothing(t) \/ Interrupt(t)
    <2>1. <<>> \in Seq(Lines) /\ Len(<<>>) = 0
      BY EmptySeq
    <2>2. /\ lines' = lines \/ lines' = [lines EXCEPT ![t] = <<>>]
          /\ link' = [link EXCEPT ![t] = link[t] \ {"client"}] /\ UNCHANGED <<asks, answers>>
          /\ cmd' = cmd \/ cmd' = [cmd EXCEPT ![t] = "none"]
      BY <1>5 DEF ReadNothing, Interrupt
    <2>3. lines' \in [Threads -> Seq(Lines)] /\ \A s \in Threads : Len(lines'[s]) <= Window
      <3>1. CASE lines' = lines
        BY <3>1 DEF Types, ConnTypes
      <3>2. CASE lines' = [lines EXCEPT ![t] = <<>>]
        BY <2>1, <3>2, WindowAssumption DEF Types, ConnTypes
      <3> QED
        BY <2>2, <3>1, <3>2
    <2>4. link' \in [Threads -> SUBSET {"client", "daemon"}]
      BY <1>2, <2>2 DEF Types, ConnTypes
    <2> QED
      BY <1>1, <2>2, <2>3, <2>4 DEF Types, ConnTypes, ClientTypes
  <1>6. ASSUME NEW c \in Commands, Connect(t, c) PROVE Types'
    <2>1. <<>> \in Seq(Lines) /\ Len(<<>>) = 0
      BY EmptySeq
    <2>2. Request(c) \in DOMAIN Handler
      BY CommandsAssumption, HandlerDomain DEF Request
    <2>3. <<Request(c)>> \in Seq(DOMAIN Handler)
      BY <2>2
    <2>4. /\ link' = [link EXCEPT ![t] = {"client", "daemon"}]
          /\ asks' = [asks EXCEPT ![t] = <<Request(c)>>]
          /\ lines' = [lines EXCEPT ![t] = <<>>]
          /\ cmd' = [cmd EXCEPT ![t] = c]
          /\ answers' = [answers EXCEPT ![t] = {}]
      BY <1>6 DEF Connect
    <2>5. lines' \in [Threads -> Seq(Lines)] /\ \A s \in Threads : Len(lines'[s]) <= Window
      BY <2>1, <2>4, WindowAssumption DEF Types, ConnTypes
    <2>6. asks' \in [Threads -> Seq(DOMAIN Handler)]
      BY <2>3, <2>4 DEF Types, ConnTypes
    <2>7. link' \in [Threads -> SUBSET {"client", "daemon"}]
      BY <2>4 DEF Types, ConnTypes
    <2>8. ClientTypes'
      BY <2>4 DEF Types, ClientTypes
    <2> QED
      BY <1>1, <2>5, <2>6, <2>7, <2>8 DEF Types, ConnTypes
  <1> QED
    BY <1>3, <1>4, <1>5, <1>6 DEF ClientStep

LEMMA TypesStep == Types /\ [Next]_vars => Types'
  <1> SUFFICES ASSUME Types, [Next]_vars PROVE Types'
    OBVIOUS
  <1>1. CASE UNCHANGED vars
    BY <1>1 DEF vars, appVars, appState, serverVars, connVars,
                Types, AppTypes, ConnTypes, ClientTypes, Tables
  <1>2. CASE DaemonStep
    <2>1. CASE WorkersStep \/ ConsoleEnds
      BY <1>2, <2>1, TypesSignal DEF DaemonStep
    <2>2. ASSUME NEW t \in Threads, Step(t) PROVE Types'
      BY <1>2, <2>2, TypesHandler, TypesApp DEF DaemonStep, Step
    <2>3. ASSUME NEW t \in Threads, Signal(t) PROVE Types'
      BY <1>2, <2>3, TypesSignal DEF DaemonStep
    <2> QED
      BY <1>2, <2>1, <2>2, <2>3 DEF DaemonStep
  <1>3. CASE \E t \in Threads :
                ClientStep(t) \/ Interrupt(t) \/ \E c \in Commands : Connect(t, c)
    BY <1>3, TypesClient
  <1> QED
    BY <1>1, <1>2, <1>3 DEF Next, Gone

\* The members of Application, the connections and what the clients keep have
\* their types, and a connection never holds more than its window, however many
\* threads the daemon has.
THEOREM NetShareCLITypes == Spec => []TypeOK
  <1>1. Types => TypeOK
    BY TypeParts DEF Types
  <1> QED
    BY <1>1, TypesInit, TypesStep, PTL DEF Spec

-----------------------------------------------------------------------------
(* One thread and class Application.                                       *)

LEMMA AppInvInit == Init => AppInv
  <1> SUFFICES ASSUME Init PROVE AppInv
    OBVIOUS
  <1> USE DEF Init, ServerInit, AppInit
  <1>1. Resting /\ \A t \in Threads : pc[t] = "idle"
    BY DEF Resting, Quiet
  <1>2. \A t \in Threads : AtHandler(t) /\ AtStart(t) /\ AtShutdown(t)
    BY <1>1 DEF AtHandler, AtStart, AtShutdown
  <1>3. \A t \in Threads : Labels(t)
    BY <1>1 DEF Labels, StartLabels, StopLabels, KillLabels, ShutdownLabels
  <1> QED
    BY <1>2, <1>3 DEF AppInv, ThreadInv, Ended

\* A step that leaves the members of the class alone keeps what is said of them.
LEMMA SameMembers ==
    ASSUME UNCHANGED <<flags, memory, open, hooked, ret>>
    PROVE  /\ Started' = Started /\ Halted' = Halted /\ Quiet' = Quiet /\ AllDown' = AllDown
           /\ Resting' = Resting /\ Starting' = Starting /\ Ready' = Ready
  BY DEF flags, memory, Started, Halted, Quiet, AllDown, Resting, Starting, Ready

\* The only thread is the one that steps.
LEMMA OnlyOne ==
    ASSUME OneThread, NEW t \in Threads, ThreadInv(t)', Ended'
    PROVE  AppInv'
  <1>1. ASSUME NEW s \in Threads PROVE ThreadInv(s)'
    <2>1. s = t
      BY DEF OneThread
    <2> QED
      BY <2>1
  <1> QED
    BY <1>1 DEF AppInv

LEMMA AppInvHandler ==
    ASSUME OneThread, Types, AppInv, proc = "up", NEW t \in Threads, HandlerStep(t)
    PROVE  AppInv'
  <1>1. ThreadInv(t) /\ pc \in [Threads -> AllLabels] /\ back \in [Threads -> AllLabels]
        /\ req \in [Threads -> DOMAIN Handler \cup {"none", "ctrlC", "ctrlShutdown"}]
    BY DEF AppInv, Types, Tables
  <1>2. /\ UNCHANGED <<exited, startingUp, open, hooked, ret>>
        /\ Started' = Started /\ Quiet' = Quiet
        /\ Resting' = Resting /\ Ready' = Ready
    BY HandlerFrame, SameMembers DEF flags
  <1>3. Ended'
    BY HandlerFrame DEF Ended, ExitEnd
  <1>4. AtStart(t)' /\ AtHandler(t)' /\ AtShutdown(t)' /\ Labels(t)'
    <2> USE DEF Answer, Proceed, CallShutdown, Goto, serverVars, connVars, appVars
    <2>1. CASE ReceiveLine(t)
      <3>1. Head(asks[t]) \in DOMAIN Handler
        <4>1. asks[t] \in Seq(DOMAIN Handler) /\ asks[t] # <<>>
          BY <2>1 DEF ReceiveLine, Types, ConnTypes
        <4> QED
          BY <4>1, HeadTailProperties
      <3>2. /\ pc[t] = "idle" /\ req'[t] = Head(asks[t]) /\ pc'[t] = Handler[Head(asks[t])]
        BY <1>1, <2>1 DEF ReceiveLine
      <3>3. \/ pc'[t] = "startRequest" /\ req'[t] = "start"
            \/ pc'[t] = "stopRequest" /\ req'[t] = "stop"
            \/ pc'[t] = "killRequest" /\ req'[t] = "kill"
            \/ pc'[t] = "closeRequest" /\ req'[t] = "close"
            \/ pc'[t] = "badRequest" /\ req'[t] = "bad"
            \/ pc'[t] = "idle"
        BY <3>1, <3>2, HandlerDomain DEF Handler
      <3>4. Resting
        BY <1>1, <3>2 DEF ThreadInv, AtHandler
      <3>5. AtStart(t)' /\ AtHandler(t)' /\ AtShutdown(t)'
        BY <1>2, <3>3, <3>4 DEF AtStart, AtHandler, AtShutdown
      <3>6. Labels(t)'
        BY <1>1, <1>2, <3>2, <3>3
           DEF ThreadInv, Labels, StartLabels, StopLabels, KillLabels, ShutdownLabels
      <3> QED
        BY <3>5, <3>6
    <2>2. CASE Disconnected(t) \/ CloseConnection(t) \/ RejectRequest(t)
      <3>1. pc[t] \in {"idle", "closeRequest", "badRequest"} /\ pc'[t] = "idle"
        BY <1>1, <2>2 DEF Disconnected, CloseConnection, RejectRequest
      <3>2. Resting
        BY <1>1, <3>1 DEF ThreadInv, AtHandler
      <3>3. AtStart(t)' /\ AtHandler(t)' /\ AtShutdown(t)'
        BY <1>2, <3>1, <3>2 DEF AtStart, AtHandler, AtShutdown
      <3>4. Labels(t)'
        BY <1>1, <1>2, <3>1
           DEF ThreadInv, Labels, StartLabels, StopLabels, KillLabels, ShutdownLabels
      <3> QED
        BY <3>3, <3>4
    <2>3. CASE StartIfNotStarting(t) \/ StartIfExited(t) \/ StartInited(t) \/ StartRan(t)
      <3> USE DEF StartIfNotStarting, StartIfExited, StartInited, StartRan
      <3>1. req'[t] = req[t] /\ pc[t] \in StartLabels
        BY <2>3 DEF StartLabels
      <3>2. pc'[t] \in StartLabels \cup {"idle"}
        BY <1>1, <2>3 DEF StartLabels
      <3>3. pc'[t] \notin {"runEnd", "startRequest"} /\ pc[t] # "runEnd"
        BY <1>1, <2>3
      <3>4. pc'[t] = "idle" => Resting
        BY <1>1, <2>3 DEF ThreadInv, AtHandler, AtStart, Resting, AllDown, Quiet
      <3>5. pc'[t] = "startIfExited" => Resting /\ ~startingUp
        BY <1>1, <2>3 DEF ThreadInv, AtHandler
      <3>6. AtStart(t)'
        BY <1>1, <1>2, <2>3 DEF ThreadInv, AtStart, AtHandler, Resting
      <3>7. AtHandler(t)' /\ AtShutdown(t)'
        BY <1>2, <3>2, <3>3, <3>4, <3>5 DEF AtHandler, AtShutdown, StartLabels
      <3>8. Labels(t)'
        BY <1>1, <1>2, <3>1, <3>2, <3>3
           DEF ThreadInv, Labels, StartLabels, StopLabels, KillLabels, ShutdownLabels
      <3> QED
        BY <3>6, <3>7, <3>8
    <2>4. CASE StopIfNotStarting(t) \/ StopIfRunning(t) \/ StopEnd(t)
      <3> USE DEF StopIfNotStarting, StopIfRunning, StopEnd
      <3>1. req'[t] = req[t] /\ pc[t] \in StopLabels
        BY <2>4 DEF StopLabels
      <3>2. pc'[t] \in {"idle", "stopIfRunning", "shutdown"}
        BY <1>1, <2>4
      <3>3. pc'[t] = "idle" => Resting
        BY <1>1, <2>4 DEF ThreadInv, AtHandler, Resting
      <3>4. pc'[t] = "stopIfRunning" => Resting /\ ~startingUp
        BY <1>1, <2>4 DEF ThreadInv, AtHandler
      <3>5. pc'[t] = "shutdown" => ~exited /\ Started /\ back'[t] = "stopped"
        BY <1>1, <2>4 DEF ThreadInv, AtHandler, Resting
      <3>6. AtStart(t)' /\ AtHandler(t)' /\ AtShutdown(t)'
        BY <1>2, <3>2, <3>3, <3>4, <3>5 DEF AtStart, AtHandler, AtShutdown
      <3>7. Labels(t)'
        BY <1>1, <1>2, <3>1, <3>2, <3>5
           DEF ThreadInv, Labels, StartLabels, StopLabels, KillLabels, ShutdownLabels
      <3> QED
        BY <3>6, <3>7
    <2>5. CASE KillStarting(t) \/ KillIfRunning(t) \/ KillEnd(t) \/ KillAnswer(t)
      <3> USE DEF KillStarting, KillIfRunning, KillEnd, KillAnswer
      <3>1. req'[t] = req[t] /\ pc[t] \in KillLabels
        BY <2>5 DEF KillLabels
      <3>2. req[t] = "kill"
        BY <1>1, <3>1 DEF ThreadInv, Labels
      <3>3. pc'[t] \in {"killIfRunning", "killEnd", "killAnswer", "killRequest", "exit", "shutdown"}
        BY <1>1, <2>5
      <3>4. Resting
        BY <1>1, <2>5 DEF ThreadInv, AtHandler, Resting
      <3>5. pc'[t] \in {"killEnd", "killAnswer", "exit"} => exited /\ Quiet
        BY <1>1, <2>5 DEF ThreadInv, AtHandler, Resting
      <3>6. pc'[t] = "shutdown" => ~exited /\ back'[t] = "killEnd"
        BY <1>1, <2>5
      <3>7. AtStart(t)' /\ AtHandler(t)' /\ AtShutdown(t)'
        BY <1>2, <3>1, <3>2, <3>3, <3>4, <3>5, <3>6 DEF AtStart, AtHandler, AtShutdown, Ending
      <3>8. Labels(t)'
        BY <1>1, <1>2, <3>1, <3>2, <3>3, <3>6
           DEF ThreadInv, Labels, StartLabels, StopLabels, KillLabels, ShutdownLabels
      <3> QED
        BY <3>7, <3>8
    <2>6. CASE Exit(t) \/ ExitEnd(t)
      <3> USE DEF Exit, ExitEnd
      <3>1. req'[t] = req[t] /\ pc[t] \in {"exit", "exitEnd"} /\ req[t] \in Ending
        BY <1>1, <2>6 DEF ThreadInv, Labels, Ending
      <3>2. pc'[t] \in {"exitEnd", "shutdown"} /\ (pc'[t] = "shutdown" => back'[t] = "exitEnd")
        BY <1>1, <2>6
      <3>3. pc'[t] = "exitEnd" => exited /\ Quiet
        BY <1>1, <2>6 DEF ThreadInv, AtHandler, Resting
      <3>4. pc'[t] = "shutdown" => Resting
        BY <1>1, <2>6 DEF ThreadInv, AtHandler
      <3>5. AtStart(t)' /\ AtHandler(t)' /\ AtShutdown(t)'
        BY <1>2, <3>1, <3>2, <3>3, <3>4 DEF AtStart, AtHandler, AtShutdown, Ending
      <3>6. Labels(t)'
        BY <1>1, <1>2, <3>1, <3>2
           DEF ThreadInv, Labels, StartLabels, StopLabels, KillLabels, ShutdownLabels
      <3> QED
        BY <3>5, <3>6
    <2> QED
      BY <2>1, <2>2, <2>3, <2>4, <2>5, <2>6 DEF HandlerStep
  <1> QED
    BY <1>3, <1>4, OnlyOne DEF ThreadInv

\* The steps of initRun and run.
LEMMA AppInvStart ==
    ASSUME Types, AppInv, NEW t \in Threads, UNCHANGED req,
           \/ InitFlags(t) \/ InitStarting(t) \/ InitConfigFails(t) \/ InitConfig(t)
           \/ InitNoAdapters(t) \/ InitAdapters(t) \/ InitFails(t) \/ InitSockets(t)
           \/ InitAdapter(t) \/ InitSession(t)
           \/ RunFlag(t) \/ RunWorkers(t) \/ RunHandler(t) \/ RunHandlerFails(t) \/ RunEnd(t)
    PROVE  ThreadInv(t)'
  <1>1. ThreadInv(t) /\ pc \in [Threads -> AllLabels] /\ back \in [Threads -> AllLabels]
        /\ ret \in [Threads -> BOOLEAN] /\ AppTypes
    BY DEF AppInv, Types, Tables, AppTypes
  <1> USE DEF Goto, initReturn, flags, memory, environment, appState
  <1>2. CASE InitFlags(t) \/ InitStarting(t) \/ InitConfigFails(t) \/ InitConfig(t)
    <2> USE DEF InitFlags, InitStarting, InitConfigFails, InitConfig
    <2>1. /\ pc[t] \in {"init", "initStarting", "initConfig"}
          /\ pc'[t] \in {"initStarting", "initConfig", "inited", "initAdapters"}
          /\ UNCHANGED <<hooked, back>>
      BY <1>1, <1>2
    <2>2. AtStart(t)'
      BY <1>1, <1>2 DEF ThreadInv, AtStart, Starting, Quiet, Resting, Started
    <2>3. AtHandler(t)' /\ AtShutdown(t)'
      BY <2>1 DEF AtHandler, AtShutdown
    <2>4. Labels(t)'
      BY <1>1, <2>1 DEF ThreadInv, Labels, StartLabels, StopLabels, KillLabels, ShutdownLabels
    <2> QED
      BY <2>2, <2>3, <2>4 DEF ThreadInv
  <1>3. CASE InitNoAdapters(t) \/ InitAdapters(t) \/ InitFails(t)
    <2> USE DEF InitNoAdapters, InitAdapters, InitFails
    <2>1. /\ pc[t] \in {"initAdapters", "initWintun", "initAdapter", "initSession"}
          /\ pc'[t] \in {"inited", "initWintun"} /\ UNCHANGED <<hooked, back>>
      BY <1>1, <1>3
    <2>2. AtStart(t)'
      BY <1>1, <1>3 DEF ThreadInv, AtStart, Starting, Quiet, Resting, Started
    <2>3. AtHandler(t)' /\ AtShutdown(t)'
      BY <2>1 DEF AtHandler, AtShutdown
    <2>4. Labels(t)'
      BY <1>1, <2>1 DEF ThreadInv, Labels, StartLabels, StopLabels, KillLabels, ShutdownLabels
    <2> QED
      BY <2>2, <2>3, <2>4 DEF ThreadInv
  <1>4. CASE InitSockets(t) \/ InitAdapter(t) \/ InitSession(t)
    <2> USE DEF InitSockets, InitAdapter, InitSession
    <2>1. /\ pc[t] \in {"initWintun", "initAdapter", "initSession"}
          /\ pc'[t] \in {"inited", "initAdapter", "initSession"} /\ UNCHANGED <<hooked, back>>
      BY <1>1, <1>4
    <2>2. AtStart(t)'
      <3>1. CASE InitSockets(t)
        BY <1>1, <3>1 DEF ThreadInv, AtStart, Starting, Quiet
      <3>2. CASE InitAdapter(t)
        BY <1>1, <3>2 DEF ThreadInv, AtStart, Starting, Quiet
      <3>3. CASE InitSession(t)
        <4>1. Starting /\ conf \in Configs /\ udpconfigs = "live"
              /\ {"quitEvent", "sockets", "adapter"} \subseteq open
          BY <1>1, <3>3 DEF ThreadInv, AtStart
        <4>2. open' = Resources
          BY <1>1, <3>3, <4>1 DEF AppTypes, Resources
        <4>3. Ready' /\ Resting'
          BY <3>3, <4>1, <4>2 DEF Starting, Quiet, Ready, Resting
        <4> QED
          BY <1>1, <3>3, <4>3 DEF AtStart
      <3> QED
        BY <1>4, <3>1, <3>2, <3>3
    <2>3. AtHandler(t)' /\ AtShutdown(t)'
      BY <2>1 DEF AtHandler, AtShutdown
    <2>4. Labels(t)'
      BY <1>1, <2>1 DEF ThreadInv, Labels, StartLabels, StopLabels, KillLabels, ShutdownLabels
    <2> QED
      BY <2>2, <2>3, <2>4 DEF ThreadInv
  <1>5. CASE RunFlag(t) \/ RunWorkers(t)
    <2> USE DEF RunFlag, RunWorkers
    <2>1. /\ pc[t] \in {"run", "runWorkers"} /\ pc'[t] \in {"runWorkers", "runHandler"}
          /\ UNCHANGED <<hooked, back>>
      BY <1>1, <1>5
    <2>2. AtStart(t)'
      BY <1>1, <1>5 DEF ThreadInv, AtStart, Ready, Started
    <2>3. AtHandler(t)' /\ AtShutdown(t)'
      BY <2>1 DEF AtHandler, AtShutdown
    <2>4. Labels(t)'
      BY <1>1, <2>1 DEF ThreadInv, Labels, StartLabels, StopLabels, KillLabels, ShutdownLabels
    <2> QED
      BY <2>2, <2>3, <2>4 DEF ThreadInv
  <1>6. CASE RunHandler(t) \/ RunHandlerFails(t) \/ RunEnd(t)
    <2> USE DEF RunHandler, RunHandlerFails, RunEnd
    <2>1. /\ pc[t] \in {"runHandler", "runEnd"} /\ pc'[t] \in {"runEnd", "shutdown", "ran"}
          /\ UNCHANGED <<exited, open, memory>>
      BY <1>1, <1>6
    <2>2. Started' = Started /\ AllDown' = AllDown
      BY <2>1 DEF Started, AllDown
    <2>3. AtStart(t)'
      BY <1>1, <1>6, <2>2 DEF ThreadInv, AtStart
    <2>4. AtHandler(t)' /\ AtShutdown(t)'
      BY <1>1, <1>6, <2>1, <2>2 DEF ThreadInv, AtStart, AtHandler, AtShutdown
    <2>5. Labels(t)'
      BY <1>1, <1>6, <2>1
         DEF ThreadInv, Labels, StartLabels, StopLabels, KillLabels, ShutdownLabels
    <2> QED
      BY <2>3, <2>4, <2>5 DEF ThreadInv
  <1> QED
    BY <1>2, <1>3, <1>4, <1>5, <1>6

\* The steps of shutdown.
LEMMA AppInvShutdown ==
    ASSUME Types, AppInv, NEW t \in Threads, UNCHANGED req,
           \/ ShutdownCheck(t) \/ ShutdownStats(t) \/ ShutdownExited(t) \/ ShutdownStop(t)
           \/ ShutdownJoin(t) \/ ShutdownClose(t) \/ ShutdownClear(t) \/ Fault(t)
    PROVE  ThreadInv(t)'
  <1>1. ThreadInv(t) /\ pc \in [Threads -> AllLabels] /\ AppTypes
    BY DEF AppInv, Types, Tables
  <1> USE DEF Goto, flags, memory, environment, appState
  <1>2. CASE Fault(t)
    <2>1. UNCHANGED <<exited, startingUp, memory, open, hooked, pc, ret, back>>
      BY <1>2 DEF Fault
    <2>2. /\ Started' = Started /\ Halted' = Halted /\ Quiet' = Quiet /\ AllDown' = AllDown
          /\ Resting' = Resting /\ Starting' = Starting /\ Ready' = Ready
      BY <2>1 DEF Started, Halted, Quiet, AllDown, Resting, Starting, Ready
    <2>3. AtHandler(t)' /\ AtStart(t)' /\ AtShutdown(t)'
      BY <1>1, <2>1, <2>2 DEF ThreadInv, AtHandler, AtStart, AtShutdown
    <2>4. Labels(t)'
      BY <1>1, <2>1 DEF ThreadInv, Labels
    <2> QED
      BY <2>3, <2>4 DEF ThreadInv
  <1>3. CASE ShutdownCheck(t)
    <2>1. /\ pc[t] = "shutdown" /\ UNCHANGED <<exited, startingUp, memory, open, hooked, ret, back>>
          /\ pc'[t] = IF exited THEN back[t] ELSE "stats"
      BY <1>1, <1>3 DEF ShutdownCheck
    <2>2. Started' = Started /\ Quiet' = Quiet /\ Resting' = Resting
      BY <2>1 DEF Started, Quiet, Resting
    <2>3. CASE exited
      <3>1. /\ Resting /\ exited /\ Quiet /\ pc'[t] \in {"stopped", "killEnd", "exitEnd", "idle"}
            /\ req[t] \in Ending
        BY <1>1, <2>1, <2>3 DEF ThreadInv, AtShutdown, Labels, ShutdownLabels, Resting
      <3>2. AtHandler(t)' /\ AtStart(t)' /\ AtShutdown(t)'
        BY <2>1, <2>2, <3>1 DEF AtHandler, AtStart, AtShutdown
      <3>3. Labels(t)'
        BY <1>1, <2>1, <2>3, <3>1
           DEF ThreadInv, Labels, StartLabels, StopLabels, KillLabels, ShutdownLabels
      <3> QED
        BY <3>2, <3>3 DEF ThreadInv
    <2>4. CASE ~exited
      <3>1. Started \/ (alive = {} /\ req[t] \in Ending)
        BY <1>1, <2>1, <2>4 DEF ThreadInv, AtShutdown, Resting
      <3>2. AtHandler(t)' /\ AtStart(t)' /\ AtShutdown(t)'
        BY <2>1, <2>2, <2>4, <3>1 DEF AtHandler, AtStart, AtShutdown
      <3>3. Labels(t)'
        BY <1>1, <2>1, <2>4
           DEF ThreadInv, Labels, StartLabels, StopLabels, KillLabels, ShutdownLabels
      <3> QED
        BY <3>2, <3>3 DEF ThreadInv
    <2> QED
      BY <2>3, <2>4
  <1>4. CASE \/ ShutdownStats(t) \/ ShutdownExited(t) \/ ShutdownStop(t)
             \/ ShutdownJoin(t) \/ ShutdownClose(t)
    <2>1. /\ pc[t] \in {"stats", "exited", "halt", "join", "close"} /\ UNCHANGED <<hooked, back>>
          /\ pc'[t] \in {"exited", "halt", "join", "close", "clear"}
      BY <1>1, <1>4 DEF ShutdownStats, ShutdownExited, ShutdownStop, ShutdownJoin, ShutdownClose
    <2>2. AtShutdown(t)'
      <3>1. CASE ShutdownStats(t) \/ ShutdownExited(t)
        BY <1>1, <3>1 DEF ShutdownStats, ShutdownExited, ThreadInv, AtShutdown, Started
      <3>2. CASE ShutdownStop(t)
        BY <1>1, <3>2 DEF ShutdownStop, ThreadInv, AtShutdown, Started, Halted
      <3>3. CASE ShutdownJoin(t)
        BY <1>1, <3>3 DEF ShutdownJoin, ThreadInv, AtShutdown, Halted
      <3>4. CASE ShutdownClose(t)
        BY <1>1, <3>4 DEF ShutdownClose, ThreadInv, AtShutdown, AllDown
      <3> QED
        BY <1>4, <3>1, <3>2, <3>3, <3>4
    <2>3. AtHandler(t)' /\ AtStart(t)'
      BY <2>1 DEF AtHandler, AtStart
    <2>4. Labels(t)'
      BY <1>1, <2>1 DEF ThreadInv, Labels, StartLabels, StopLabels, KillLabels, ShutdownLabels
    <2> QED
      BY <2>2, <2>3, <2>4 DEF ThreadInv
  <1>5. CASE ShutdownClear(t)
    <2>1. /\ pc[t] = "clear" /\ pc'[t] = back[t]
          /\ UNCHANGED <<exited, startingUp, alive, open, hooked, back>>
      BY <1>1, <1>5 DEF ShutdownClear
    <2>2. back[t] \in {"runEnd", "stopped", "killEnd", "exitEnd", "idle"}
      BY <1>1, <2>1 DEF ThreadInv, Labels, ShutdownLabels
    <2>3. AllDown' /\ exited' /\ Quiet' /\ Resting'
      BY <1>1, <2>1 DEF ThreadInv, AtShutdown, AllDown, Quiet, Resting
    <2>4. AtHandler(t)' /\ AtStart(t)' /\ AtShutdown(t)'
      BY <2>1, <2>2, <2>3 DEF AtHandler, AtStart, AtShutdown
    <2>5. Labels(t)'
      BY <1>1, <2>1, <2>2
         DEF ThreadInv, Labels, StartLabels, StopLabels, KillLabels, ShutdownLabels
    <2> QED
      BY <2>4, <2>5 DEF ThreadInv
  <1> QED
    BY <1>2, <1>3, <1>4, <1>5

\* Workers live only where everything is up, or where shutdown waits for them.
LEMMA WhereAlive ==
    ASSUME Types, AppInv, NEW t \in Threads
    PROVE  alive = {} \/ Started \/ (pc[t] = "join" /\ exited /\ Halted)
  <1>1. ThreadInv(t) /\ pc[t] \in AllLabels
    BY DEF AppInv, Types, Tables
  <1> USE <1>1 DEF ThreadInv, Quiet, AllDown
  <1>2. CASE pc[t] \in StopLabels \cup KillLabels
                       \cup {"idle", "closeRequest", "badRequest", "exit", "exitEnd"}
    BY <1>2 DEF AtHandler, Resting, StopLabels, KillLabels
  <1>3. CASE pc[t] \in StartLabels
    BY <1>3 DEF AtHandler, AtStart, Resting, Ready, Starting, StartLabels
  <1>4. CASE pc[t] \in ShutdownLabels
    BY <1>4 DEF AtShutdown, Resting, ShutdownLabels
  <1> QED
    BY <1>2, <1>3, <1>4 DEF AllLabels

LEMMA AppInvWorkers ==
    ASSUME Types, AppInv, WorkersStep
    PROVE  AppInv'
  <1>1. PICK g \in Configs : WorkersEnd(g)
    BY DEF WorkersStep
  <1>2. /\ g \in alive /\ g \notin running /\ alive' = alive \ {g}
        /\ UNCHANGED <<exited, startingUp, conf, running, udpconfigs, Workers, open, hooked,
                       proc, pc, ret, back, req>>
    BY <1>1 DEF WorkersEnd, WorkersStep, flags, environment, serverVars
  <1>3. ASSUME NEW t \in Threads PROVE ThreadInv(t)'
    <2>1. pc[t] = "join" /\ exited /\ Halted
      BY <1>2, WhereAlive DEF Started
    <2>2. Halted'
      BY <1>2, <2>1 DEF Halted
    <2>3. AtHandler(t)' /\ AtStart(t)' /\ AtShutdown(t)'
      BY <1>2, <2>1, <2>2 DEF AtHandler, AtStart, AtShutdown
    <2>4. Labels(t)'
      BY <1>2 DEF AppInv, ThreadInv, Labels
    <2> QED
      BY <2>3, <2>4 DEF ThreadInv
  <1> QED
    BY <1>2, <1>3 DEF AppInv, Ended

\* The console handler starts a thread like a request does.
LEMMA AppInvSignal ==
    ASSUME OneThread, Types, AppInv, NEW t \in Threads, Signal(t)
    PROVE  AppInv'
  <1>1. PICK r \in HandledSignals : handleCtrlSignal(t, r)
    BY DEF Signal
  <1>2. /\ pc[t] = "idle" /\ "ctrl" \in hooked
        /\ req'[t] = r /\ back'[t] = "exitEnd"
        /\ pc'[t] = IF r = "ctrlC" THEN "exit" ELSE "shutdown"
        /\ UNCHANGED <<flags, memory, open, hooked, proc, ret>> /\ proc = "up"
    BY <1>1 DEF handleCtrlSignal, Goto, Signal, appState, flags, memory, Types, Tables
  <1>3. r \in {"ctrlC", "ctrlShutdown"}
    BY DEF HandledSignals
  <1>4. ThreadInv(t)
    BY DEF AppInv
  <1>5. Resting /\ "atexit" \in hooked
    BY <1>2, <1>4 DEF ThreadInv, AtHandler, Labels
  <1>6. Resting' = Resting /\ exited' = exited /\ hooked' = hooked
    BY <1>2, SameMembers DEF flags
  <1>7. AtHandler(t)' /\ AtStart(t)' /\ AtShutdown(t)'
    BY <1>2, <1>3, <1>5, <1>6 DEF AtHandler, AtStart, AtShutdown, Ending
  <1>8. Labels(t)'
    BY <1>2, <1>3, <1>5, <1>6
       DEF Labels, Ending, StartLabels, StopLabels, KillLabels, ShutdownLabels
  <1>9. Ended'
    BY <1>2 DEF Ended
  <1> QED
    BY <1>7, <1>8, <1>9, OnlyOne DEF ThreadInv

\* The clients do not touch the class, and Windows only ends the process.
LEMMA AppInvUnchanged ==
    ASSUME AppInv, UNCHANGED <<flags, memory, open, hooked, pc, ret, back, req>>,
           proc' = proc \/ proc' = "ended"
    PROVE  AppInv'
  <1>1. UNCHANGED <<flags, memory, open, hooked, pc, ret, back, req>>
    OBVIOUS
  <1>2. /\ Started' = Started /\ Halted' = Halted /\ Quiet' = Quiet /\ AllDown' = AllDown
        /\ Resting' = Resting /\ Starting' = Starting /\ Ready' = Ready
        /\ exited' = exited /\ startingUp' = startingUp
        /\ UNCHANGED <<conf, running, alive, udpconfigs, open, hooked>>
    BY <1>1, SameMembers DEF flags, memory
  <1>3. ASSUME NEW t \in Threads PROVE ThreadInv(t)'
    <2>1. ThreadInv(t)
      BY DEF AppInv
    <2>2. AtHandler(t)'
      BY <1>1, <1>2, <2>1 DEF ThreadInv, AtHandler
    <2>3. AtStart(t)'
      BY <1>1, <1>2, <2>1 DEF ThreadInv, AtStart
    <2>4. AtShutdown(t)'
      BY <1>1, <1>2, <2>1 DEF ThreadInv, AtShutdown
    <2>5. Labels(t)'
      BY <1>1, <2>1 DEF ThreadInv, Labels
    <2> QED
      BY <2>2, <2>3, <2>4, <2>5 DEF ThreadInv
  <1> QED
    BY <1>1, <1>3 DEF AppInv, Ended

LEMMA AppInvStep ==
    ASSUME OneThread
    PROVE  Types /\ AppInv /\ [Next]_vars => AppInv'
  <1> SUFFICES ASSUME Types, AppInv, [Next]_vars PROVE AppInv'
    OBVIOUS
  <1>1. CASE UNCHANGED vars
    BY <1>1, AppInvUnchanged DEF vars, serverVars, appVars, appState, flags, memory
  <1>2. CASE \E t \in Threads :
                ClientStep(t) \/ Interrupt(t) \/ \E c \in Commands : Connect(t, c)
    <2>1. UNCHANGED appVars /\ UNCHANGED req
      BY <1>2 DEF ClientStep, ReadLine, ReadLast, ReadNothing, Interrupt, Connect
    <2> QED
      BY <2>1, AppInvUnchanged DEF appVars, appState, flags, memory
  <1>3. ASSUME NEW t \in Threads, Step(t) PROVE AppInv'
    <2>1. CASE HandlerStep(t)
      BY <1>3, <2>1, AppInvHandler DEF Step
    <2>2. CASE AppStep(t) /\ UNCHANGED serverVars
      <3>1. UNCHANGED req
        BY <2>2 DEF serverVars
      <3>2. ThreadInv(t)'
        BY <2>2, <3>1, AppInvStart, AppInvShutdown DEF AppStep
      <3>3. proc = "up" /\ proc' # "exited"
        BY <1>3, <2>2 DEF Step, AppStep, InitFlags, InitStarting, InitConfigFails, InitConfig,
           InitNoAdapters, InitAdapters, InitFails, InitSockets, InitAdapter, InitSession,
           RunFlag, RunWorkers, RunHandler, RunHandlerFails, RunEnd,
           ShutdownCheck, ShutdownStats, ShutdownExited, ShutdownStop, ShutdownJoin,
           ShutdownClose, ShutdownClear, Fault, environment, appState
      <3> QED
        BY <3>2, <3>3, OnlyOne DEF Ended
    <2> QED
      BY <1>3, <2>1, <2>2 DEF Step
  <1>4. CASE ConsoleEnds
    BY <1>4, AppInvUnchanged DEF ConsoleEnds, serverVars
  <1>5. CASE DaemonStep
    BY <1>3, <1>4, <1>5, AppInvWorkers, AppInvSignal DEF DaemonStep
  <1> QED
    BY <1>1, <1>2, <1>5 DEF Next, Gone

-----------------------------------------------------------------------------
(* What follows for a single thread.                                       *)

\* While one thread at a time calls into class Application, initRun and run
\* never start a second set of workers beside a living one.
THEOREM NetShareCLIOneSet ==
    ASSUME OneThread
    PROVE  Spec => []OneSetOfWorkers
  <1>1. Types /\ AppInv => OneSetOfWorkers
    BY DEF AppInv, ThreadInv, AtStart, Ready, Quiet, OneSetOfWorkers
  <1> QED
    BY <1>1, TypesInit, TypesStep, AppInvInit, AppInvStep, PTL DEF Spec

\* While one thread at a time calls into class Application, workers live only
\* with their Config, their sockets, the session and the quit event.
THEOREM NetShareCLIWorkers ==
    ASSUME OneThread
    PROVE  Spec => []WorkersHaveEverything
  <1>1. Types /\ AppInv => WorkersHaveEverything
    <2> SUFFICES ASSUME Types, AppInv, NEW t \in Threads, alive # {}
                 PROVE  alive = {conf} /\ udpconfigs = "live" /\ open = Resources
      BY DEF WorkersHaveEverything, OneThread
    <2> QED
      BY WhereAlive DEF Started, Halted
  <1> QED
    BY <1>1, TypesInit, TypesStep, AppInvInit, AppInvStep, PTL DEF Spec

\* While one thread at a time calls into class Application, the daemon that ends
\* by what it does itself (a kill, Ctrl-C, its handler of a system shutdown)
\* does so after the workers and with the session closed.  Nothing is said of
\* the process that Windows ends.
THEOREM NetShareCLIExit ==
    ASSUME OneThread
    PROVE  Spec => []ExitAfterWorkers
  <1>1. AppInv => ExitAfterWorkers
    BY DEF AppInv, ThreadInv, AtHandler, Quiet, Ended, ExitAfterWorkers
  <1> QED
    BY <1>1, TypesInit, TypesStep, AppInvInit, AppInvStep, PTL DEF Spec

\* While one thread at a time calls into class Application, no start and no stop
\* looks into a null pointer or into freed memory, whatever has failed before.
THEOREM NetShareCLIFaults ==
    ASSUME OneThread
    PROVE  Spec => []OnlyEndingFaults
  <1>1. AppInv => OnlyEndingFaults
    <2> SUFFICES ASSUME AppInv, NEW t \in Threads, Dangling(t)
                 PROVE  req[t] \in {"kill", "ctrlC", "ctrlShutdown"}
      BY DEF OnlyEndingFaults
    <2>1. AtStart(t) /\ AtShutdown(t)
      BY DEF AppInv, ThreadInv
    <2>2. NULL \notin Configs /\ FREED \notin Configs
      BY ApplicationAssumption
    <2>3. CASE pc[t] \in {"initAdapters", "initWintun", "initAdapter", "initSession",
                          "run", "runWorkers"}
      BY <2>1, <2>2, <2>3 DEF Dangling, AtStart, Ready
    <2>4. CASE pc[t] \in {"stats", "halt", "join", "close"}
      BY <2>1, <2>2, <2>4 DEF Dangling, AtShutdown, Started, Halted, Ending
    <2> QED
      BY <2>3, <2>4 DEF Dangling
  <1> QED
    BY <1>1, TypesInit, TypesStep, AppInvInit, AppInvStep, PTL DEF Spec

-----------------------------------------------------------------------------
(* What the clients are told.                                              *)

\* A connection grows by a line only where its thread sends one.
LEMMA OnlyHandlersSend ==
    ASSUME Types, [Next]_vars, NEW t \in Threads, NEW line \in Lines,
           lines'[t] = Append(lines[t], line)
    PROVE  HandlerStep(t)
  <1>1. lines[t] \in Seq(Lines) /\ Len(lines[t]) \in Nat
    BY LenProperties DEF Types, ConnTypes
  <1>2. Len(lines'[t]) = Len(lines[t]) + 1 /\ lines'[t] # <<>> /\ lines'[t] # lines[t]
    BY <1>1, AppendProperties
  <1>3. ASSUME NEW s \in Threads,
               ClientStep(s) \/ Interrupt(s) \/ \E c \in Commands : Connect(s, c)
        PROVE  FALSE
    <2>1. \/ lines' = lines
          \/ lines' = [lines EXCEPT ![s] = <<>>]
          \/ lines[s] # <<>> /\ lines' = [lines EXCEPT ![s] = Tail(lines[s])]
      BY <1>3 DEF ClientStep, ReadLine, ReadLast, ReadNothing, Interrupt, Connect
    <2>2. lines[t] # <<>> => Len(Tail(lines[t])) = Len(lines[t]) - 1
      BY <1>1, HeadTailProperties
    <2>3. lines'[t] = lines[t] \/ lines'[t] = <<>> \/ (lines[t] # <<>> /\ lines'[t] = Tail(lines[t]))
      BY <2>1 DEF Types, ConnTypes
    <2> QED
      BY <1>1, <1>2, <2>2, <2>3
  <1>4. UNCHANGED lines => FALSE
    BY <1>2
  <1>5. PICK s \in Threads : HandlerStep(s)
    BY <1>3, <1>4 DEF Next, vars, serverVars, connVars, DaemonStep, Step, Signal,
       handleCtrlSignal, ConsoleEnds, WorkersStep, Gone
  <1>6. s = t
    <2>1. lines' = lines \/ \E l \in Lines : SendLine(s, l)
      BY <1>5, HandlerLines
    <2>2. PICK l : lines' = [lines EXCEPT ![s] = l]
      BY <1>4, <2>1 DEF SendLine
    <2> QED
      BY <1>2, <2>2 DEF Types, ConnTypes
  <1> QED
    BY <1>5, <1>6

\* Where it does, the line is the one that is sent.
LEMMA SameLine ==
    ASSUME Types, NEW t \in Threads, NEW line \in Lines, NEW other \in Lines,
           SendLine(t, other), lines'[t] = Append(lines[t], line)
    PROVE  line = other
  <1>1. lines[t] \in Seq(Lines)
    BY DEF Types, ConnTypes
  <1>2. lines'[t] # lines[t]
    <2>1. Len(lines'[t]) = Len(lines[t]) + 1 /\ Len(lines[t]) \in Nat
      BY <1>1, AppendProperties, LenProperties
    <2> QED
      BY <2>1
  <1>3. lines'[t] = Append(lines[t], other)
    BY <1>2 DEF SendLine, Types, ConnTypes
  <1>4. Append(lines[t], line) = Append(lines[t], other)
    BY <1>3
  <1>5. /\ Append(lines[t], line)[Len(lines[t]) + 1] = line
        /\ Append(lines[t], other)[Len(lines[t]) + 1] = other
    BY <1>1, AppendProperties
  <1> QED
    BY <1>4, <1>5

\* The handlers that answer "stopped", and those that answer "running".
LEMMA WhoAnswers ==
    ASSUME Types, NEW t \in Threads, HandlerStep(t)
    PROVE  /\ Answers(t, "stopped") =>
                 \/ pc[t] = "stopIfRunning" /\ exited
                 \/ pc[t] \in {"stopped", "killAnswer"}
           /\ Answers(t, "running") =>
                 \/ pc[t] = "startIfExited" /\ ~exited
                 \/ pc[t] \in {"ran", "stopIfRunning", "stopped"}
  <1> DEFINE Known == {"stopped", "running"}
  <1> SUFFICES ASSUME NEW state \in Known, Answers(t, state)
               PROVE  \/ state = "stopped" /\ pc[t] = "stopIfRunning" /\ exited
                      \/ state = "stopped" /\ pc[t] \in {"stopped", "killAnswer"}
                      \/ state = "running" /\ pc[t] = "startIfExited" /\ ~exited
                      \/ state = "running" /\ pc[t] \in {"ran", "stopIfRunning", "stopped"}
    <2>1. "stopped" \in Known /\ "running" \in Known /\ "stopped" # "running"
      OBVIOUS
    <2> QED
      BY <2>1
  <1>1. Response(state) \in Lines
    BY DEF Response, Lines, States
  <1>2. ASSUME NEW line \in Lines, SendLine(t, line)
        PROVE  line = Response(state)
    BY <1>1, <1>2, SameLine DEF Answers
  <1>3. lines' # lines
    <2>1. lines[t] \in Seq(Lines)
      BY DEF Types, ConnTypes
    <2>2. Len(Append(lines[t], Response(state))) = Len(lines[t]) + 1 /\ Len(lines[t]) \in Nat
      BY <1>1, <2>1, AppendProperties, LenProperties
    <2> QED
      BY <2>2 DEF Answers
  <1>4. \A s \in States : Response(s) \in Lines /\ Update(s) \in Lines
    BY DEF Response, Update, Lines
  <1>5. \A s : Response(s) = Response(state) => s = state
    BY DEF Response
  <1>6. \A s : Update(s) # Response(state)
    BY DEF Response, Update
  <1>7. /\ {"none", "closed", "startup", "running", "stopped", "crashed", "worker.startup",
            "worker.running", "worker.stopped"} \subseteq States
        /\ state \in {"stopped", "running"}
    BY DEF States
  <1>8. CASE \/ ReceiveLine(t) \/ Disconnected(t) \/ CloseConnection(t) \/ RejectRequest(t)
             \/ Exit(t) \/ ExitEnd(t)
    BY <1>2, <1>3, <1>4, <1>5, <1>7, <1>8 DEF ReceiveLine, Disconnected, CloseConnection,
       RejectRequest, Exit, ExitEnd, Answer, Proceed, serverVars, connVars, errorResponse
  <1>9. CASE StartIfNotStarting(t) \/ StartIfExited(t) \/ StartInited(t) \/ StartRan(t)
    BY <1>2, <1>3, <1>4, <1>5, <1>6, <1>7, <1>9 DEF StartIfNotStarting, StartIfExited,
       StartInited, StartRan, Answer, Proceed, serverVars, connVars
  <1>10. CASE StopIfNotStarting(t) \/ StopIfRunning(t) \/ StopEnd(t)
    BY <1>2, <1>3, <1>4, <1>5, <1>7, <1>10 DEF StopIfNotStarting, StopIfRunning, StopEnd,
       Answer, Proceed, serverVars, connVars
  <1>11. CASE KillStarting(t) \/ KillIfRunning(t) \/ KillEnd(t) \/ KillAnswer(t)
    BY <1>2, <1>3, <1>4, <1>5, <1>6, <1>7, <1>11 DEF KillStarting, KillIfRunning, KillEnd,
       KillAnswer, Answer, Proceed, serverVars, connVars
  <1> QED
    BY <1>8, <1>9, <1>10, <1>11 DEF HandlerStep

\* While one thread at a time calls into class Application, a client is told
\* "stopped" only when no worker lives and the session is over.
THEOREM NetShareCLIStopped ==
    ASSUME OneThread
    PROVE  Spec => StoppedMeansStopped
  <1>1. ASSUME Types, AppInv, [Next]_vars, NEW t \in Threads, Answers(t, "stopped")
        PROVE  alive' = {} /\ "session" \notin open'
    <2>1. Response("stopped") \in Lines
      BY DEF Response, Lines, States
    <2>2. HandlerStep(t)
      BY <1>1, <2>1, OnlyHandlersSend DEF Answers
    <2>3. exited /\ Quiet
      BY <1>1, <2>2, WhoAnswers DEF AppInv, ThreadInv, AtHandler, Resting
    <2> QED
      BY <2>2, <2>3, HandlerFrame DEF Quiet, memory
  <1>2. Types /\ AppInv /\ [Next]_vars =>
           [\A t \in Threads : Answers(t, "stopped") => alive' = {} /\ "session" \notin open']_vars
    BY <1>1
  <1> QED
    BY <1>2, TypesInit, TypesStep, AppInvInit, AppInvStep, PTL DEF Spec, StoppedMeansStopped

\* While one thread at a time calls into class Application, a start is answered
\* "running" only with workers running or with everything shut down.
THEOREM NetShareCLIRunning ==
    ASSUME OneThread
    PROVE  Spec => RunningOrAllDown
  <1>1. ASSUME Types, AppInv, [Next]_vars, NEW t \in Threads,
               Answers(t, "running"), req[t] = "start"
        PROVE  \/ alive' \cap running' # {}
               \/ exited' /\ ~startingUp' /\ alive' = {} /\ open' = {}
    <2>1. Response("running") \in Lines
      BY DEF Response, Lines, States
    <2>2. HandlerStep(t)
      BY <1>1, <2>1, OnlyHandlersSend DEF Answers
    <2>3. (pc[t] = "startIfExited" /\ ~exited) \/ pc[t] = "ran"
      BY <1>1, <2>2, WhoAnswers DEF AppInv, ThreadInv, Labels, StopLabels
    <2>4. ~startingUp /\ (Started \/ AllDown)
      BY <1>1, <2>3 DEF AppInv, ThreadInv, AtHandler, AtStart, Resting
    <2>5. UNCHANGED <<exited, startingUp, alive, running, open>>
      BY <2>2, HandlerFrame DEF flags, memory
    <2> QED
      BY <2>4, <2>5 DEF Started, AllDown
  <1>2. Types /\ AppInv /\ [Next]_vars =>
           [\A t \in Threads :
              Answers(t, "running") /\ req[t] = "start"
                 => \/ alive' \cap running' # {}
                    \/ exited' /\ ~startingUp' /\ alive' = {} /\ open' = {}]_vars
    BY <1>1
  <1> QED
    BY <1>2, TypesInit, TypesStep, AppInvInit, AppInvStep, PTL DEF Spec, RunningOrAllDown

-----------------------------------------------------------------------------
(* What the clients print: the course of a connection up to the result.    *)

\* The client has printed the result of its request.
Told(t) == answers[t] \cap Outcomes[cmd[t]] # {}

\* A line that tells of progress: the client prints it and goes on.
IsProgress(line) == line.type = "Update" /\ line.state \notin {"closed", "none"}

IsResult(line, states) == line.type = "Response" /\ line.state \in states

Progress(q) == \A i \in 1..Len(q) : IsProgress(q[i])

ProgressThenResult(q, states) ==
    /\ q # <<>>
    /\ \A i \in 1..(Len(q) - 1) : IsProgress(q[i])
    /\ IsResult(q[Len(q)], states)

\* The request is on its way.
Asked(t) ==
    /\ "daemon" \in link[t] /\ pc[t] = "idle"
    /\ asks[t] = <<cmd[t]>> /\ lines[t] = <<>>

\* A start reports progress and then its result.
StartCourse(t) ==
    /\ cmd[t] = "start" /\ "daemon" \in link[t] /\ asks[t] = <<>>
    /\ \/ pc[t] \in StartLabels \cup ShutdownLabels /\ req[t] = "start" /\ Progress(lines[t])
       \/ pc[t] = "idle" /\ ProgressThenResult(lines[t], Outcomes.start)

\* So does kill, whose thread then ends the process.
KillCourse(t) ==
    /\ cmd[t] = "kill" /\ "daemon" \in link[t] /\ asks[t] = <<>> /\ req[t] = "kill"
    /\ \/ /\ pc[t] \in KillLabels \/ (pc[t] \in ShutdownLabels /\ back[t] = "killEnd")
          /\ Progress(lines[t])
       \/ /\ pc[t] \in {"exit", "exitEnd"} \/ (pc[t] \in ShutdownLabels /\ back[t] = "exitEnd")
          /\ ProgressThenResult(lines[t], Outcomes.kill)

\* A stop of a running driver responds twice.  The client asks for the end of
\* the connection after the first response, and the daemon sees that after the
\* second one.
StopCourse(t) ==
    /\ cmd[t] = "stop"
    /\ \/ /\ "daemon" \in link[t] /\ req[t] = "stop"
          /\ pc[t] \in {"stopRequest", "stopIfRunning"}
          /\ asks[t] = <<>> /\ lines[t] = <<>>
       \/ /\ "daemon" \in link[t] /\ req[t] = "stop"
          /\ pc[t] \in ShutdownLabels \cup {"stopped"}
          /\ \/ asks[t] = <<>> /\ lines[t] = <<Response("running")>>
             \/ asks[t] = <<"close">> /\ lines[t] = <<>>
       \/ /\ "daemon" \in link[t] /\ pc[t] = "idle"
          /\ \/ asks[t] = <<>> /\ lines[t] = <<Response("running"), Response("stopped")>>
             \/ asks[t] = <<>> /\ lines[t] = <<Response("startup")>>
             \/ asks[t] \in {<<>>, <<"close">>} /\ lines[t] = <<Response("stopped")>>
       \/ /\ "daemon" \in link[t] /\ pc[t] = "closeRequest"
          /\ asks[t] = <<>> /\ lines[t] = <<Response("stopped")>>
       \/ /\ "daemon" \notin link[t] /\ pc[t] = "idle"
          /\ asks[t] = <<>> /\ lines[t] = <<Response("stopped"), Response("closed")>>

\* The client of t waits, and what it waits for is on its way.
Course(t) ==
    "client" \in link[t] /\ (Asked(t) \/ StartCourse(t) \/ KillCourse(t) \/ StopCourse(t))

ClientInv ==
    \A t \in Threads :
        cmd[t] \in DOMAIN Outcomes /\ proc \notin {"crashed", "ended"} => Told(t) \/ Course(t)

\* What is known of short sequences and of progress at their ends.
LEMMA ShortSequences ==
    ASSUME NEW a, NEW b
    PROVE  /\ Append(<<>>, a) = <<a>> /\ Append(<<a>>, b) = <<a, b>>
           /\ Head(<<a>>) = a /\ Tail(<<a>>) = <<>> /\ <<a>> # <<>>
           /\ Head(<<a, b>>) = a /\ Tail(<<a, b>>) = <<b>> /\ <<a, b>> # <<>>
  <1> DEFINE S == {a, b}
  <1>1. <<>> \in Seq(S) /\ <<a>> \in Seq(S) /\ <<b>> \in Seq(S) /\ <<a, b>> \in Seq(S)
    OBVIOUS
  <1>2. Append(<<>>, a) = <<a>>
    OBVIOUS
  <1>3. Append(<<a>>, b) = <<a, b>>
    <2> DEFINE q == <<a, b>>
               r == Append(<<a>>, b)
    <2>1. r \in Seq(S) /\ Len(r) = 2 /\ r[1] = a /\ r[2] = b
      BY <1>1, AppendProperties
    <2>2. q \in Seq(S) /\ Len(q) = 2 /\ q[1] = a /\ q[2] = b
      BY <1>1
    <2> HIDE DEF q, r
    <2>3. \A i \in 1..Len(r) : r[i] = q[i]
      BY <2>1, <2>2
    <2>4. r = q
      BY <2>1, <2>2, <2>3, SeqEqual
    <2> QED
      BY <2>4 DEF q, r
  <1>4. Head(<<a>>) = a /\ <<a>> # <<>> /\ Head(<<a, b>>) = a /\ <<a, b>> # <<>>
    OBVIOUS
  <1>5. Tail(<<a>>) = <<>>
    <2>1. Tail(<<a>>) \in Seq(S) /\ Len(Tail(<<a>>)) = 0
      BY <1>1, HeadTailProperties
    <2> QED
      BY <2>1, EmptySeq
  <1>6. Tail(<<a, b>>) = <<b>>
    <2>1. Tail(<<a, b>>) \in Seq(S) /\ Len(Tail(<<a, b>>)) = 1 /\ Tail(<<a, b>>)[1] = b
      BY <1>1, HeadTailProperties
    <2> QED
      BY <1>1, <2>1, SeqEqual
  <1> QED
    BY <1>2, <1>3, <1>4, <1>5, <1>6

LEMMA ProgressGrows ==
    ASSUME NEW q \in Seq(Lines), NEW line \in Lines, NEW states, Progress(q)
    PROVE  /\ IsProgress(line) => Progress(Append(q, line))
           /\ IsResult(line, states) => ProgressThenResult(Append(q, line), states)
  <1> DEFINE r == Append(q, line)
  <1>1. /\ r \in Seq(Lines) /\ r # <<>> /\ Len(r) = Len(q) + 1 /\ Len(q) \in Nat
        /\ \A i \in 1..Len(q) : r[i] = q[i]
        /\ r[Len(q) + 1] = line
    BY AppendProperties, LenProperties
  <1>2. ASSUME IsProgress(line), NEW i \in 1..Len(r) PROVE IsProgress(r[i])
    <2>1. CASE i \in 1..Len(q)
      BY <1>1, <2>1 DEF Progress
    <2>2. CASE i = Len(q) + 1
      BY <1>1, <1>2, <2>2
    <2> QED
      BY <1>1, <2>1, <2>2
  <1>3. ASSUME IsResult(line, states) PROVE ProgressThenResult(r, states)
    <2>1. Len(r) - 1 = Len(q) /\ r[Len(r)] = line
      BY <1>1
    <2>2. ASSUME NEW i \in 1..(Len(r) - 1) PROVE IsProgress(r[i])
      BY <1>1, <2>1, <2>2 DEF Progress
    <2> QED
      BY <1>1, <1>3, <2>1, <2>2 DEF ProgressThenResult
  <1> QED
    BY <1>2, <1>3 DEF Progress

LEMMA ProgressShrinks ==
    ASSUME NEW q \in Seq(Lines), q # <<>>, NEW states
    PROVE  /\ Progress(q) => IsProgress(Head(q)) /\ Progress(Tail(q))
           /\ ProgressThenResult(q, states) =>
                 \/ IsResult(Head(q), states)
                 \/ IsProgress(Head(q)) /\ ProgressThenResult(Tail(q), states)
  <1> DEFINE r == Tail(q)
  <1>1. /\ Len(q) \in Nat \ {0} /\ Head(q) = q[1]
        /\ r \in Seq(Lines) /\ Len(r) = Len(q) - 1
        /\ \A i \in 1..Len(r) : r[i] = q[i + 1]
    BY HeadTailProperties, LenProperties, EmptySeq
  <1>2. ASSUME Progress(q) PROVE IsProgress(Head(q)) /\ Progress(r)
    BY <1>1, <1>2 DEF Progress
  <1>3. ASSUME ProgressThenResult(q, states), ~IsResult(Head(q), states)
        PROVE  IsProgress(Head(q)) /\ ProgressThenResult(r, states)
    <2>1. Len(q) > 1
      BY <1>1, <1>3 DEF ProgressThenResult
    <2>2. Len(r) \in Nat \ {0} /\ r # <<>>
      <3>1. Len(r) \in Nat \ {0}
        BY <1>1, <2>1
      <3>2. Len(<<>>) = 0
        OBVIOUS
      <3> HIDE DEF r
      <3> QED
        BY <3>1, <3>2
    <2>3. IsProgress(Head(q))
      BY <1>1, <1>3, <2>1 DEF ProgressThenResult
    <2>4. r[Len(r)] = q[Len(q)]
      BY <1>1, <2>2
    <2>5. ASSUME NEW i \in 1..(Len(r) - 1) PROVE IsProgress(r[i])
      <3>1. r[i] = q[i + 1] /\ i + 1 \in 1..(Len(q) - 1)
        BY <1>1, <2>2
      <3> QED
        BY <1>3, <3>1 DEF ProgressThenResult
    <2> QED
      BY <1>3, <2>2, <2>3, <2>4, <2>5 DEF ProgressThenResult
  <1> QED
    BY <1>2, <1>3

\* Which handler runs is a matter of where the thread is.
LEMMA WhichHandler ==
    ASSUME NEW t \in Threads, HandlerStep(t)
    PROVE  /\ pc[t] = "idle" => ReceiveLine(t) \/ Disconnected(t)
           /\ pc[t] = "closeRequest" => CloseConnection(t)
           /\ pc[t] = "startRequest" => StartIfNotStarting(t)
           /\ pc[t] = "startIfExited" => StartIfExited(t)
           /\ pc[t] = "inited" => StartInited(t)
           /\ pc[t] = "ran" => StartRan(t)
           /\ pc[t] = "stopRequest" => StopIfNotStarting(t)
           /\ pc[t] = "stopIfRunning" => StopIfRunning(t)
           /\ pc[t] = "stopped" => StopEnd(t)
           /\ pc[t] = "killRequest" => KillStarting(t)
           /\ pc[t] = "killIfRunning" => KillIfRunning(t)
           /\ pc[t] = "killEnd" => KillEnd(t)
           /\ pc[t] = "killAnswer" => KillAnswer(t)
           /\ pc[t] = "exit" => Exit(t)
           /\ pc[t] = "exitEnd" => ExitEnd(t)
           /\ pc[t] \in {"idle", "closeRequest", "badRequest", "startRequest", "startIfExited",
                         "inited", "ran", "stopRequest", "stopIfRunning", "stopped",
                         "killRequest", "killIfRunning", "killEnd", "killAnswer",
                         "exit", "exitEnd"}
  BY DEF HandlerStep, ReceiveLine, Disconnected, CloseConnection, RejectRequest,
     StartIfNotStarting, StartIfExited, StartInited, StartRan,
     StopIfNotStarting, StopIfRunning, StopEnd,
     KillStarting, KillIfRunning, KillEnd, KillAnswer, Exit, ExitEnd

\* What the three ways to go on do to the connection of a waiting client.
LEMMA HandlerMoves ==
    ASSUME Types, NEW t \in Threads, "client" \in link[t], NEW line, NEW l
    PROVE  /\ SendLine(t, line) => lines'[t] = Append(lines[t], line)
           /\ Answer(t, line, l) =>
                 /\ lines'[t] = Append(lines[t], line) /\ pc'[t] = l
                 /\ UNCHANGED <<req, link, asks, back>>
           /\ Proceed(t, l) => pc'[t] = l /\ UNCHANGED <<req, link, asks, lines, back>>
           /\ CallShutdown(t, l) =>
                 pc'[t] = "shutdown" /\ back'[t] = l /\ UNCHANGED <<req, link, asks>>
  BY DEF Types, ConnTypes, Tables, SendLine, Answer, Proceed, CallShutdown, Goto,
     serverVars, connVars

\* The request is taken up.
LEMMA CourseReceived ==
    ASSUME Types, NEW t \in Threads, cmd[t] \in DOMAIN Outcomes, "client" \in link[t],
           Asked(t), HandlerStep(t), UNCHANGED cmd
    PROVE  Course(t)'
  <1>1. ReceiveLine(t)
    BY WhichHandler DEF Asked, Disconnected
  <1>2. cmd[t] \in {"start", "stop", "kill"}
    BY DEF Outcomes
  <1>3. Head(asks[t]) = cmd[t] /\ Tail(asks[t]) = <<>>
    BY ShortSequences DEF Asked
  <1>4. /\ asks'[t] = <<>> /\ req'[t] = cmd[t] /\ pc'[t] = Handler[cmd[t]]
        /\ lines' = lines /\ link' = link
    BY <1>1, <1>3 DEF ReceiveLine, Goto, Types, ConnTypes, Tables
  <1>5. Progress(lines[t])
    BY EmptySeq DEF Progress, Asked
  <1>6. CASE cmd[t] = "start"
    BY <1>4, <1>5, <1>6 DEF Course, Asked, StartCourse, StartLabels, Handler
  <1>7. CASE cmd[t] = "stop"
    BY <1>4, <1>7 DEF Course, Asked, StopCourse, Handler
  <1>8. CASE cmd[t] = "kill"
    BY <1>4, <1>5, <1>8 DEF Course, Asked, KillCourse, KillLabels, Handler
  <1> QED
    BY <1>2, <1>6, <1>7, <1>8

LEMMA CourseStart ==
    ASSUME Types, NEW t \in Threads, "client" \in link[t], StartCourse(t),
           HandlerStep(t), UNCHANGED cmd
    PROVE  StartCourse(t)' /\ link' = link
  <1>1. pc[t] # "idle"
    BY WhichHandler DEF StartCourse, ReceiveLine, Disconnected
  <1>2. pc[t] \in {"startRequest", "startIfExited", "inited", "ran"} /\ Progress(lines[t])
    BY <1>1, WhichHandler DEF StartCourse, StartLabels, ShutdownLabels
  <1>3. lines[t] \in Seq(Lines)
    BY DEF Types, ConnTypes
  <1>4. \A line \in Lines : IsProgress(line) => Progress(Append(lines[t], line))
    BY <1>2, <1>3, ProgressGrows
  <1>5. \A line \in Lines : IsResult(line, Outcomes.start) =>
                               ProgressThenResult(Append(lines[t], line), Outcomes.start)
    BY <1>2, <1>3, ProgressGrows
  <1>6. Update("startup") \in Lines /\ IsProgress(Update("startup"))
    BY DEF Update, Lines, States, IsProgress
  <1>7. ASSUME NEW state \in {"running", "crashed", "startup"}
        PROVE  Response(state) \in Lines /\ IsResult(Response(state), Outcomes.start)
    BY DEF Response, Lines, States, IsResult, Outcomes
  <1>8. ASSUME NEW l \in StartLabels, Proceed(t, l) PROVE StartCourse(t)' /\ link' = link
    <2>1. pc'[t] = l /\ UNCHANGED <<req, link, asks, lines, back>>
      BY <1>8, HandlerMoves
    <2> QED
      BY <1>1, <1>2, <1>8, <2>1 DEF StartCourse
  <1>9. ASSUME Answer(t, Update("startup"), "init") PROVE StartCourse(t)' /\ link' = link
    <2>1. /\ lines'[t] = Append(lines[t], Update("startup")) /\ pc'[t] = "init"
          /\ UNCHANGED <<req, link, asks, back>>
      BY <1>9, HandlerMoves
    <2>2. Progress(lines'[t])
      BY <1>4, <1>6, <2>1
    <2> QED
      BY <1>1, <2>1, <2>2 DEF StartCourse, StartLabels
  <1>10. ASSUME NEW state \in {"running", "crashed", "startup"},
                Answer(t, Response(state), "idle")
         PROVE  StartCourse(t)' /\ link' = link
    <2>1. /\ lines'[t] = Append(lines[t], Response(state)) /\ pc'[t] = "idle"
          /\ UNCHANGED <<req, link, asks, back>>
      BY <1>10, HandlerMoves
    <2>2. ProgressThenResult(lines'[t], Outcomes.start)
      BY <1>5, <1>7, <2>1
    <2> QED
      BY <2>1, <2>2 DEF StartCourse
  <1>11. /\ "startIfExited" \in StartLabels /\ "run" \in StartLabels
         /\ "running" \in {"running", "crashed", "startup"}
         /\ "crashed" \in {"running", "crashed", "startup"}
         /\ "startup" \in {"running", "crashed", "startup"}
    BY DEF StartLabels
  <1>12. CASE pc[t] = "startRequest"
    BY <1>8, <1>10, <1>11, <1>12, WhichHandler DEF StartIfNotStarting
  <1>13. CASE pc[t] = "startIfExited"
    BY <1>9, <1>10, <1>11, <1>13, WhichHandler DEF StartIfExited
  <1>14. CASE pc[t] = "inited"
    BY <1>8, <1>10, <1>11, <1>14, WhichHandler DEF StartInited
  <1>15. CASE pc[t] = "ran"
    BY <1>10, <1>11, <1>15, WhichHandler DEF StartRan
  <1> QED
    BY <1>2, <1>12, <1>13, <1>14, <1>15

LEMMA CourseKill ==
    ASSUME Types, NEW t \in Threads, "client" \in link[t], KillCourse(t),
           HandlerStep(t), UNCHANGED cmd
    PROVE  KillCourse(t)' /\ link' = link
  <1>1. CASE pc[t] \in KillLabels
    <2>1. Progress(lines[t]) /\ lines[t] \in Seq(Lines)
      BY <1>1 DEF KillCourse, KillLabels, ShutdownLabels, Types, ConnTypes
    <2>2. \A line \in Lines : IsProgress(line) => Progress(Append(lines[t], line))
      BY <2>1, ProgressGrows
    <2>3. \A line \in Lines : IsResult(line, Outcomes.kill) =>
                                 ProgressThenResult(Append(lines[t], line), Outcomes.kill)
      BY <2>1, ProgressGrows
    <2>4. ASSUME NEW state \in {"worker.startup", "worker.running", "worker.stopped"}
          PROVE  Update(state) \in Lines /\ IsProgress(Update(state))
      BY DEF Update, Lines, States, IsProgress
    <2>5. Response("stopped") \in Lines /\ IsResult(Response("stopped"), Outcomes.kill)
      BY DEF Response, Lines, States, IsResult, Outcomes
    <2>6. ASSUME NEW l \in KillLabels, Proceed(t, l) PROVE KillCourse(t)' /\ link' = link
      <3>1. pc'[t] = l /\ UNCHANGED <<req, link, asks, lines, back>>
        BY <2>6, HandlerMoves
      <3> QED
        BY <2>1, <2>6, <3>1 DEF KillCourse
    <2>7. ASSUME NEW l \in KillLabels,
                 NEW state \in {"worker.startup", "worker.running", "worker.stopped"},
                 Answer(t, Update(state), l)
          PROVE  KillCourse(t)' /\ link' = link
      <3>1. /\ lines'[t] = Append(lines[t], Update(state)) /\ pc'[t] = l
            /\ UNCHANGED <<req, link, asks, back>>
        BY <2>7, HandlerMoves
      <3>2. Progress(lines'[t])
        BY <2>2, <2>4, <3>1
      <3> QED
        BY <2>7, <3>1, <3>2 DEF KillCourse
    <2>8. CASE pc[t] = "killRequest"
      BY <2>6, <2>7, <2>8, WhichHandler DEF KillStarting, KillLabels
    <2>9. CASE pc[t] = "killIfRunning"
      <3>1. CASE exited
        BY <2>6, <2>9, <3>1, WhichHandler DEF KillIfRunning, KillLabels
      <3>2. CASE ~exited
        <4>1. /\ lines'[t] = Append(lines[t], Update("worker.running"))
              /\ pc'[t] = "shutdown" /\ back'[t] = "killEnd" /\ UNCHANGED <<req, link, asks>>
          BY <2>9, <3>2, WhichHandler, HandlerMoves DEF KillIfRunning
        <4>2. Progress(lines'[t])
          BY <2>2, <2>4, <4>1
        <4> QED
          BY <4>1, <4>2 DEF KillCourse, ShutdownLabels
      <3> QED
        BY <3>1, <3>2
    <2>10. CASE pc[t] = "killEnd"
      BY <2>6, <2>7, <2>10, WhichHandler DEF KillEnd, KillLabels
    <2>11. CASE pc[t] = "killAnswer"
      <3>1. /\ lines'[t] = Append(lines[t], Response("stopped")) /\ pc'[t] = "exit"
            /\ UNCHANGED <<req, link, asks, back>>
        BY <2>11, WhichHandler, HandlerMoves DEF KillAnswer
      <3>2. ProgressThenResult(lines'[t], Outcomes.kill)
        BY <2>3, <2>5, <3>1
      <3> QED
        BY <3>1, <3>2 DEF KillCourse
    <2> QED
      BY <1>1, <2>8, <2>9, <2>10, <2>11 DEF KillLabels
  <1>2. CASE pc[t] = "exit"
    <2>1. ProgressThenResult(lines[t], Outcomes.kill)
      BY <1>2 DEF KillCourse, KillLabels, ShutdownLabels
    <2>2. /\ pc'[t] = "exitEnd" \/ (pc'[t] = "shutdown" /\ back'[t] = "exitEnd")
          /\ UNCHANGED <<req, link, asks, lines>>
      BY <1>2, WhichHandler, HandlerMoves DEF Exit
    <2> QED
      BY <2>1, <2>2 DEF KillCourse, ShutdownLabels
  <1>3. CASE pc[t] = "exitEnd"
    <2>1. UNCHANGED <<pc, back, req, link, asks, lines>>
      BY <1>3, WhichHandler DEF ExitEnd, serverVars, connVars
    <2> QED
      BY <2>1 DEF KillCourse, ProgressThenResult, Progress
  <1> QED
    BY <1>1, <1>2, <1>3, WhichHandler DEF KillCourse, ShutdownLabels

LEMMA CourseStop ==
    ASSUME Types, AppInv, NEW t \in Threads, "client" \in link[t], StopCourse(t),
           HandlerStep(t), UNCHANGED cmd
    PROVE  Course(t)'
  <1> USE DEF StopCourse
  <1>1. CASE pc[t] = "stopRequest"
    <2>1. asks[t] = <<>> /\ lines[t] = <<>> /\ "daemon" \in link[t] /\ req[t] = "stop"
      BY <1>1 DEF ShutdownLabels
    <2>2. CASE startingUp
      <3>1. /\ lines'[t] = Append(lines[t], Response("startup")) /\ pc'[t] = "idle"
            /\ UNCHANGED <<req, link, asks, back>>
        BY <1>1, <2>2, WhichHandler, HandlerMoves DEF StopIfNotStarting
      <3>2. lines'[t] = <<Response("startup")>>
        BY <2>1, <3>1, ShortSequences
      <3> QED
        BY <2>1, <3>1, <3>2 DEF Course
    <2>3. CASE ~startingUp
      <3>1. pc'[t] = "stopIfRunning" /\ UNCHANGED <<req, link, asks, lines, back>>
        BY <1>1, <2>3, WhichHandler, HandlerMoves DEF StopIfNotStarting
      <3> QED
        BY <2>1, <3>1 DEF Course
    <2> QED
      BY <2>2, <2>3
  <1>2. CASE pc[t] = "stopIfRunning"
    <2>1. asks[t] = <<>> /\ lines[t] = <<>> /\ "daemon" \in link[t] /\ req[t] = "stop"
      BY <1>2 DEF ShutdownLabels
    <2>2. CASE exited
      <3>1. /\ lines'[t] = Append(lines[t], Response("stopped")) /\ pc'[t] = "idle"
            /\ UNCHANGED <<req, link, asks, back>>
        BY <1>2, <2>2, WhichHandler, HandlerMoves DEF StopIfRunning
      <3>2. lines'[t] = <<Response("stopped")>>
        BY <2>1, <3>1, ShortSequences
      <3> QED
        BY <2>1, <3>1, <3>2 DEF Course
    <2>3. CASE ~exited
      <3>1. /\ lines'[t] = Append(lines[t], Response("running")) /\ pc'[t] = "shutdown"
            /\ UNCHANGED <<req, link, asks>>
        BY <1>2, <2>3, WhichHandler, HandlerMoves DEF StopIfRunning
      <3>2. lines'[t] = <<Response("running")>>
        BY <2>1, <3>1, ShortSequences
      <3> QED
        BY <2>1, <3>1, <3>2 DEF Course, ShutdownLabels
    <2> QED
      BY <2>2, <2>3
  <1>3. CASE pc[t] = "stopped"
    <2>1. /\ "daemon" \in link[t]
          /\ \/ asks[t] = <<>> /\ lines[t] = <<Response("running")>>
             \/ asks[t] = <<"close">> /\ lines[t] = <<>>
      BY <1>3 DEF ShutdownLabels
    <2>2. exited
      BY <1>3 DEF AppInv, ThreadInv, AtHandler
    <2>3. /\ lines'[t] = Append(lines[t], Response("stopped")) /\ pc'[t] = "idle"
          /\ UNCHANGED <<req, link, asks, back>>
      BY <1>3, <2>2, WhichHandler, HandlerMoves DEF StopEnd
    <2>4. \/ asks[t] = <<>> /\ lines'[t] = <<Response("running"), Response("stopped")>>
          \/ asks[t] = <<"close">> /\ lines'[t] = <<Response("stopped")>>
      <3>1. CASE asks[t] = <<>> /\ lines[t] = <<Response("running")>>
        <4>1. Append(<<Response("running")>>, Response("stopped"))
                 = <<Response("running"), Response("stopped")>>
          BY ShortSequences
        <4> QED
          BY <2>3, <3>1, <4>1
      <3>2. CASE asks[t] = <<"close">> /\ lines[t] = <<>>
        BY <2>3, <3>2, ShortSequences
      <3> QED
        BY <2>1, <3>1, <3>2
    <2> QED
      BY <2>1, <2>3, <2>4 DEF Course
  <1>4. CASE pc[t] = "idle"
    <2>1. ReceiveLine(t)
      BY <1>4, WhichHandler DEF Disconnected
    <2>2. asks[t] = <<"close">> /\ lines[t] = <<Response("stopped")>> /\ "daemon" \in link[t]
      BY <1>4, <2>1 DEF ReceiveLine, ShutdownLabels
    <2>3. Head(asks[t]) = "close" /\ Tail(asks[t]) = <<>>
      BY <2>2, ShortSequences
    <2>4. asks'[t] = <<>> /\ pc'[t] = "closeRequest" /\ UNCHANGED <<link, lines>>
      BY <2>1, <2>3 DEF ReceiveLine, Goto, Handler, Types, ConnTypes, Tables
    <2> QED
      BY <2>2, <2>4 DEF Course
  <1>5. CASE pc[t] = "closeRequest"
    <2>1. asks[t] = <<>> /\ lines[t] = <<Response("stopped")>> /\ "daemon" \in link[t]
      BY <1>5 DEF ShutdownLabels
    <2>2. CloseConnection(t)
      BY <1>5, WhichHandler
    <2>3. lines'[t] = Append(lines[t], Response("closed"))
      BY <2>2, HandlerMoves DEF CloseConnection
    <2>4. lines'[t] = <<Response("stopped"), Response("closed")>>
      BY <2>1, <2>3, ShortSequences
    <2>5. pc'[t] = "idle" /\ link'[t] = link[t] \ {"daemon"} /\ asks' = asks
      BY <2>2 DEF CloseConnection, Goto, Types, ConnTypes, Tables
    <2> QED
      BY <2>1, <2>4, <2>5 DEF Course
  <1> QED
    BY <1>1, <1>2, <1>3, <1>4, <1>5, WhichHandler DEF ShutdownLabels

\* The steps of class Application do not touch the connection, and lead from
\* shutdown() only to where it was called.
LEMMA WhereApp ==
    ASSUME Types, NEW t \in Threads, AppStep(t), proc' # "crashed"
    PROVE  \/ /\ pc[t] \in StartLabels
              /\ pc'[t] \in StartLabels \cup {"shutdown"}
           \/ /\ pc[t] \in ShutdownLabels /\ back' = back
              /\ pc'[t] \in ShutdownLabels \cup {back[t]}
  <1> USE DEF Goto, initReturn, Types, Tables, StartLabels, ShutdownLabels
  <1>1. CASE \/ InitFlags(t) \/ InitStarting(t) \/ InitConfigFails(t) \/ InitConfig(t)
             \/ InitNoAdapters(t) \/ InitAdapters(t)
    BY <1>1 DEF InitFlags, InitStarting, InitConfigFails, InitConfig, InitNoAdapters,
       InitAdapters
  <1>2. CASE \/ InitFails(t) \/ InitSockets(t) \/ InitAdapter(t) \/ InitSession(t)
    BY <1>2 DEF InitFails, InitSockets, InitAdapter, InitSession
  <1>3. CASE \/ RunFlag(t) \/ RunWorkers(t) \/ RunHandler(t) \/ RunHandlerFails(t) \/ RunEnd(t)
    BY <1>3 DEF RunFlag, RunWorkers, RunHandler, RunHandlerFails, RunEnd
  <1>4. CASE \/ ShutdownCheck(t) \/ ShutdownStats(t) \/ ShutdownExited(t) \/ ShutdownStop(t)
             \/ ShutdownJoin(t) \/ ShutdownClose(t) \/ ShutdownClear(t)
    BY <1>4 DEF ShutdownCheck, ShutdownStats, ShutdownExited, ShutdownStop, ShutdownJoin,
       ShutdownClose, ShutdownClear
  <1> QED
    BY <1>1, <1>2, <1>3, <1>4 DEF AppStep, Fault

LEMMA CourseApp ==
    ASSUME Types, AppInv, NEW t \in Threads, Course(t),
           AppStep(t), proc' # "crashed", UNCHANGED <<serverVars, cmd>>
    PROVE  Course(t)'
  <1>1. UNCHANGED <<req, link, asks, lines, cmd>>
    BY DEF serverVars, connVars
  <1>2. Labels(t)
    BY DEF AppInv, ThreadInv
  <1>3. ~Asked(t)
    BY WhereApp DEF Asked, StartLabels, ShutdownLabels
  <1>4. CASE StartCourse(t)
    <2>1. Progress(lines[t]) /\ req[t] = "start"
      BY <1>4, WhereApp DEF StartCourse, StartLabels, ShutdownLabels
    <2>2. pc[t] \in ShutdownLabels => back[t] = "runEnd"
      BY <1>2, <2>1 DEF Labels, Ending
    <2>3. pc'[t] \in StartLabels \cup ShutdownLabels
      BY <2>2, WhereApp DEF StartLabels, ShutdownLabels
    <2> QED
      BY <1>1, <1>4, <2>1, <2>3 DEF StartCourse, Course
  <1>5. CASE KillCourse(t)
    <2>1. pc[t] \in ShutdownLabels /\ back' = back /\ pc'[t] \in ShutdownLabels \cup {back[t]}
      BY <1>5, WhereApp DEF KillCourse, KillLabels, StartLabels, ShutdownLabels
    <2>2. \/ back[t] = "killEnd" /\ Progress(lines[t])
          \/ back[t] = "exitEnd" /\ ProgressThenResult(lines[t], Outcomes.kill)
      BY <1>5, <2>1 DEF KillCourse, KillLabels, ShutdownLabels
    <2> QED
      BY <1>1, <1>5, <2>1, <2>2 DEF KillCourse, KillLabels, Course
  <1>6. CASE StopCourse(t)
    <2>1. pc[t] \in ShutdownLabels /\ req[t] = "stop"
      BY <1>6, WhereApp DEF StopCourse, StartLabels, ShutdownLabels
    <2>2. back[t] = "stopped"
      BY <1>2, <2>1 DEF Labels, Ending
    <2>3. pc'[t] \in ShutdownLabels \cup {"stopped"}
      BY <2>1, <2>2, WhereApp DEF StartLabels, ShutdownLabels
    <2>4. /\ "daemon" \in link[t]
          /\ \/ asks[t] = <<>> /\ lines[t] = <<Response("running")>>
             \/ asks[t] = <<"close">> /\ lines[t] = <<>>
      BY <1>6, <2>1 DEF StopCourse, ShutdownLabels
    <2> QED
      BY <1>1, <1>6, <2>1, <2>3, <2>4 DEF StopCourse, Course
  <1> QED
    BY <1>3, <1>4, <1>5, <1>6 DEF Course

\* The daemon is gone only at the end of exit, or after it has closed its end.
LEMMA WhenGone ==
    ASSUME OneThread, Types, AppInv, proc \notin {"crashed", "ended"}, NEW t \in Threads,
           DaemonGone(t), "daemon" \in link[t]
    PROVE  pc[t] = "exitEnd"
  <1>1. proc = "exited"
    BY DEF DaemonGone, Types, AppTypes
  <1> QED
    BY <1>1 DEF AppInv, Ended, OneThread

\* What reading does to the client.
LEMMA ClientMoves ==
    ASSUME Types, NEW t \in Threads
    PROVE  /\ ReadLine(t) =>
                 /\ lines[t] # <<>> /\ lines'[t] = Tail(lines[t]) /\ ~IsLast(t, Head(lines[t]))
                 /\ UNCHANGED <<pc, back, req, link, cmd>>
                 /\ IF Head(lines[t]).type = "Response"
                      THEN /\ Head(lines[t]).state \in answers'[t]
                           /\ asks'[t] = Append(asks[t], "close")
                      ELSE UNCHANGED <<answers, asks>>
           /\ ReadLast(t) => lines[t] # <<>> /\ IsLast(t, Head(lines[t]))
           /\ ReadNothing(t) => DaemonGone(t) /\ (lines[t] = <<>> \/ asks[t] # <<>>)
  <1>1. ASSUME ReadLine(t)
        PROVE  /\ lines[t] # <<>> /\ lines'[t] = Tail(lines[t]) /\ ~IsLast(t, Head(lines[t]))
               /\ UNCHANGED <<pc, back, req, link, cmd>>
               /\ IF Head(lines[t]).type = "Response"
                    THEN /\ Head(lines[t]).state \in answers'[t]
                         /\ asks'[t] = Append(asks[t], "close")
                    ELSE UNCHANGED <<answers, asks>>
    <2> DEFINE line == Head(lines[t])
    <2> HIDE DEF line
    <2>1. /\ lines[t] # <<>> /\ lines'[t] = Tail(lines[t]) /\ ~IsLast(t, line)
          /\ UNCHANGED <<pc, back, req, link, cmd>>
      BY <1>1 DEF line, ReadLine, appVars, Types, ConnTypes
    <2>2. IF line.type = "Response"
            THEN line.state \in answers'[t] /\ asks'[t] = Append(asks[t], "close")
            ELSE UNCHANGED <<answers, asks>>
      BY <1>1 DEF line, ReadLine, stopConnectionRequest, Types, ConnTypes, ClientTypes
    <2> QED
      BY <2>1, <2>2 DEF line
  <1>2. ReadLast(t) => lines[t] # <<>> /\ IsLast(t, Head(lines[t]))
    BY DEF ReadLast
  <1>3. ReadNothing(t) => DaemonGone(t) /\ (lines[t] = <<>> \/ asks[t] # <<>>)
    BY DEF ReadNothing
  <1> QED
    BY <1>1, <1>2, <1>3

\* Progress and results are read on, and a result that is read is printed.
LEMMA ReadProgress ==
    ASSUME Types, NEW t \in Threads, cmd[t] \in {"start", "kill"},
           ReadLine(t) \/ ReadLast(t)
    PROVE  /\ Progress(lines[t]) =>
                 UNCHANGED <<pc, back, req, link, cmd, asks>> /\ Progress(lines'[t])
           /\ ProgressThenResult(lines[t], Outcomes[cmd[t]]) =>
                 \/ Told(t)'
                 \/ /\ UNCHANGED <<pc, back, req, link, cmd, asks>>
                    /\ ProgressThenResult(lines'[t], Outcomes[cmd[t]])
  <1> DEFINE line == Head(lines[t])
             states == Outcomes[cmd[t]]
  <1>1. lines[t] # <<>> /\ lines[t] \in Seq(Lines)
    BY ClientMoves DEF Types, ConnTypes
  <1>2. /\ Progress(lines[t]) => IsProgress(line) /\ Progress(Tail(lines[t]))
        /\ ProgressThenResult(lines[t], states) =>
              \/ IsResult(line, states)
              \/ IsProgress(line) /\ ProgressThenResult(Tail(lines[t]), states)
    BY <1>1, ProgressShrinks
  <1>3. states \cap {"closed", "none"} = {}
    BY DEF Outcomes
  <1> HIDE DEF line, states
  <1>4. CASE IsProgress(line)
    <2>1. ReadLine(t)
      BY <1>4, ClientMoves DEF line, IsLast, IsProgress
    <2>2. lines'[t] = Tail(lines[t]) /\ UNCHANGED <<pc, back, req, link, cmd, asks>>
      BY <1>4, <2>1, ClientMoves DEF line, IsProgress
    <2>3. ~IsResult(line, states)
      BY <1>4 DEF IsResult, IsProgress
    <2> QED
      BY <1>2, <2>2, <2>3 DEF states
  <1>5. CASE IsResult(line, states)
    <2>1. ReadLine(t)
      BY <1>3, <1>5, ClientMoves DEF line, IsLast, IsResult
    <2>2. line.state \in answers'[t] /\ cmd' = cmd
      BY <1>5, <2>1, ClientMoves DEF line, IsResult
    <2>3. Told(t)'
      BY <1>5, <2>2 DEF Told, IsResult, states
    <2>4. ~IsProgress(line)
      BY <1>5 DEF IsResult, IsProgress
    <2> QED
      BY <1>2, <2>3, <2>4
  <1> QED
    BY <1>2, <1>4, <1>5 DEF states

\* The first response of a stop may be read at any time; no reset loses the
\* second one, as the daemon closes its end only after it has read everything.
LEMMA ReadStop ==
    ASSUME OneThread, Types, AppInv, proc \notin {"crashed", "ended"}, NEW t \in Threads,
           "client" \in link[t], StopCourse(t), ClientStep(t)
    PROVE  Told(t)' \/ Course(t)'
  <1> DEFINE first == Head(lines[t])
  <1>1. ~ReadNothing(t)
    <2>1. ASSUME ReadNothing(t), "daemon" \in link[t] PROVE FALSE
      <3>1. pc[t] = "exitEnd"
        BY <2>1, ClientMoves, WhenGone
      <3> QED
        BY <3>1 DEF StopCourse, ShutdownLabels
    <2>2. ASSUME ReadNothing(t), "daemon" \notin link[t] PROVE FALSE
      <3>1. asks[t] = <<>> /\ lines[t] = <<Response("stopped"), Response("closed")>>
        BY <2>2 DEF StopCourse
      <3>2. lines[t] # <<>>
        BY <3>1
      <3> QED
        BY <2>2, <3>1, <3>2, ClientMoves
    <2> QED
      BY <2>1, <2>2
  <1>2. ASSUME NEW state \in States \ {"closed", "none"}, first = Response(state)
        PROVE  /\ lines'[t] = Tail(lines[t]) /\ asks'[t] = Append(asks[t], "close")
               /\ state \in answers'[t] /\ UNCHANGED <<pc, back, req, link, cmd>>
    <2>1. first.type = "Response" /\ first.state = state
      BY <1>2 DEF Response
    <2> HIDE DEF first
    <2>2. cmd[t] = "stop"
      BY DEF StopCourse
    <2>3. ReadLine(t)
      BY <1>1, <2>1, <2>2, ClientMoves DEF first, ClientStep, IsLast
    <2> QED
      BY <2>1, <2>3, ClientMoves DEF first
  <1>3. {"running", "stopped", "startup"} \subseteq States \ {"closed", "none"}
    BY DEF States
  <1>4. CASE first = Response("stopped") \/ first = Response("startup")
    BY <1>2, <1>3, <1>4 DEF Told, Outcomes, StopCourse
  <1>5. CASE lines[t] = <<Response("running")>>
    <2>1. first = Response("running") /\ Tail(lines[t]) = <<>>
      BY <1>5, ShortSequences
    <2>2. /\ asks[t] = <<>> /\ "daemon" \in link[t] /\ req[t] = "stop"
          /\ pc[t] \in ShutdownLabels \cup {"stopped"}
      <3>1. /\ <<Response("running")>> # <<>>
            /\ <<Response("running")>> # <<Response("startup")>>
            /\ <<Response("running")>> # <<Response("stopped")>>
            /\ <<Response("running")>> # <<Response("running"), Response("stopped")>>
            /\ <<Response("running")>> # <<Response("stopped"), Response("closed")>>
        BY DEF Response
      <3> QED
        BY <1>5, <3>1 DEF StopCourse
    <2>3. /\ lines'[t] = <<>> /\ asks'[t] = Append(asks[t], "close")
          /\ UNCHANGED <<pc, back, req, link, cmd>>
      BY <1>2, <1>3, <2>1
    <2>4. asks'[t] = <<"close">>
      BY <2>2, <2>3, ShortSequences
    <2> QED
      BY <2>2, <2>3, <2>4 DEF Course, StopCourse
  <1>6. CASE lines[t] = <<Response("running"), Response("stopped")>>
    <2>1. first = Response("running") /\ Tail(lines[t]) = <<Response("stopped")>>
      BY <1>6, ShortSequences
    <2>2. asks[t] = <<>> /\ "daemon" \in link[t] /\ pc[t] = "idle"
      <3> DEFINE two == <<Response("running"), Response("stopped")>>
      <3>1. /\ two # <<>> /\ two # <<Response("running")>>
            /\ two # <<Response("startup")>> /\ two # <<Response("stopped")>>
            /\ two # <<Response("stopped"), Response("closed")>>
        BY DEF Response
      <3> QED
        BY <1>6, <3>1 DEF StopCourse
    <2>3. /\ lines'[t] = <<Response("stopped")>> /\ asks'[t] = Append(asks[t], "close")
          /\ UNCHANGED <<pc, back, req, link, cmd>>
      BY <1>2, <1>3, <2>1
    <2>4. asks'[t] = <<"close">>
      BY <2>2, <2>3, ShortSequences
    <2> QED
      BY <2>2, <2>3, <2>4 DEF Course, StopCourse
  <1>7. lines[t] # <<>>
    BY <1>1, ClientMoves DEF ClientStep
  <1>8. \/ lines[t] \in {<<Response("running")>>, <<Response("running"), Response("stopped")>>}
        \/ lines[t] \in {<<Response("startup")>>, <<Response("stopped")>>,
                         <<Response("stopped"), Response("closed")>>}
    BY <1>7 DEF StopCourse
  <1>9. CASE lines[t] \in {<<Response("startup")>>, <<Response("stopped")>>,
                           <<Response("stopped"), Response("closed")>>}
    <2>1. first = Response("stopped") \/ first = Response("startup")
      BY <1>9, ShortSequences
    <2> QED
      BY <1>4, <2>1
  <1> QED
    BY <1>5, <1>6, <1>8, <1>9

LEMMA CourseClient ==
    ASSUME OneThread, Types, AppInv, proc \notin {"crashed", "ended"}, NEW t \in Threads,
           cmd[t] \in DOMAIN Outcomes, Course(t), ClientStep(t)
    PROVE  Told(t)' \/ Course(t)'
  <1> USE DEF Course
  <1>1. CASE Asked(t)
    BY <1>1, ClientMoves, WhenGone DEF Asked, ClientStep
  <1>2. CASE StartCourse(t)
    <2>1. ~ReadNothing(t)
      BY <1>2, ClientMoves, WhenGone DEF StartCourse, StartLabels, ShutdownLabels
    <2>2. Outcomes[cmd[t]] = Outcomes.start /\ cmd[t] \in {"start", "kill"}
      BY <1>2 DEF StartCourse
    <2>3. CASE Progress(lines[t]) /\ pc[t] # "idle"
      <3>1. UNCHANGED <<pc, back, req, link, cmd, asks>> /\ Progress(lines'[t])
        BY <2>1, <2>2, <2>3, ReadProgress DEF ClientStep
      <3> QED
        BY <1>2, <2>3, <3>1 DEF StartCourse
    <2>4. CASE ProgressThenResult(lines[t], Outcomes.start) /\ pc[t] = "idle"
      <3>1. \/ Told(t)'
            \/ /\ UNCHANGED <<pc, back, req, link, cmd, asks>>
               /\ ProgressThenResult(lines'[t], Outcomes.start)
        BY <2>1, <2>2, <2>4, ReadProgress DEF ClientStep
      <3> QED
        BY <1>2, <2>4, <3>1 DEF StartCourse
    <2> QED
      BY <1>2, <2>3, <2>4 DEF StartCourse, StartLabels, ShutdownLabels
  <1>3. CASE KillCourse(t)
    <2>1. Outcomes[cmd[t]] = Outcomes.kill /\ cmd[t] \in {"start", "kill"}
      BY <1>3 DEF KillCourse
    <2> DEFINE Early == pc[t] \in KillLabels \/ (pc[t] \in ShutdownLabels /\ back[t] = "killEnd")
               Late == \/ pc[t] \in {"exit", "exitEnd"}
                       \/ pc[t] \in ShutdownLabels /\ back[t] = "exitEnd"
    <2>2. CASE Progress(lines[t]) /\ Early
      <3>1. ~ReadNothing(t)
        BY <1>3, <2>2, ClientMoves, WhenGone DEF KillCourse, KillLabels, ShutdownLabels
      <3>2. UNCHANGED <<pc, back, req, link, cmd, asks>> /\ Progress(lines'[t])
        BY <2>1, <2>2, <3>1, ReadProgress DEF ClientStep
      <3> QED
        BY <1>3, <2>2, <3>2 DEF KillCourse
    <2>3. CASE ProgressThenResult(lines[t], Outcomes.kill) /\ Late
      <3>1. ~ReadNothing(t)
        BY <1>3, <2>3, ClientMoves DEF KillCourse, ProgressThenResult
      <3>2. \/ Told(t)'
            \/ /\ UNCHANGED <<pc, back, req, link, cmd, asks>>
               /\ ProgressThenResult(lines'[t], Outcomes.kill)
        BY <2>1, <2>3, <3>1, ReadProgress DEF ClientStep
      <3> QED
        BY <1>3, <2>3, <3>2 DEF KillCourse
    <2> QED
      BY <1>3, <2>2, <2>3 DEF KillCourse
  <1>4. CASE StopCourse(t)
    BY <1>4, ReadStop
  <1> QED
    BY <1>1, <1>2, <1>3, <1>4

LEMMA ClientInvInit == Init => ClientInv
  BY DEF Init, ClientInv, Outcomes

LEMMA ClientInvStep ==
    ASSUME OneThread
    PROVE  Types /\ AppInv /\ ClientInv /\ [Next]_vars => ClientInv'
  <1> SUFFICES ASSUME Types, AppInv, ClientInv, [Next]_vars, NEW t \in Threads,
                      cmd'[t] \in DOMAIN Outcomes, proc' \notin {"crashed", "ended"}
               PROVE  Told(t)' \/ Course(t)'
    BY DEF ClientInv
  <1>1. CASE UNCHANGED vars
    <2>1. UNCHANGED <<pc, back, proc, req, link, asks, lines, cmd, answers>>
      BY <1>1 DEF vars, appVars, appState, serverVars, connVars
    <2>2. Told(t) \/ Course(t)
      BY <2>1 DEF ClientInv
    <2> QED
      BY <2>1, <2>2 DEF Told, Course, Asked, StartCourse, KillCourse, StopCourse
  <1>2. ASSUME ClientStep(t) PROVE Told(t)' \/ Course(t)'
    <2>1. cmd' = cmd /\ proc' = proc /\ answers[t] \subseteq answers'[t]
      BY <1>2 DEF ClientStep, ReadLine, ReadLast, ReadNothing, appVars, appState, Types,
         ClientTypes
    <2>2. CASE Told(t)
      BY <2>1, <2>2 DEF Told
    <2>3. CASE Course(t)
      BY <1>2, <2>1, <2>3, CourseClient
    <2> QED
      BY <2>1, <2>2, <2>3 DEF ClientInv
  <1>3. ~Interrupt(t)
    BY DEF Interrupt, Outcomes, Types, ClientTypes
  <1>4. ASSUME NEW c \in Commands, Connect(t, c) PROVE Course(t)'
    <2>1. /\ link'[t] = {"client", "daemon"} /\ asks'[t] = <<Request(c)>> /\ lines'[t] = <<>>
          /\ cmd'[t] = c /\ pc'[t] = "idle"
      BY <1>4 DEF Connect, appVars, Types, ConnTypes, ClientTypes
    <2>2. Request(c) = c
      BY <2>1 DEF Request, Outcomes
    <2> QED
      BY <2>1, <2>2 DEF Course, Asked
  <1>5. CASE DaemonStep
    <2>1. cmd' = cmd /\ answers' = answers /\ proc = "up"
      BY <1>5 DEF DaemonStep, WorkersStep, ConsoleEnds, Step, Signal
    <2>2. CASE Told(t)
      BY <2>1, <2>2 DEF Told
    <2>3. CASE Course(t)
      <3>1. ASSUME WorkersStep PROVE Course(t)'
        <4>1. UNCHANGED <<pc, back, req, link, asks, lines>>
          BY <3>1 DEF WorkersStep, WorkersEnd, serverVars, connVars
        <4> QED
          BY <2>1, <2>3, <4>1 DEF Course, Asked, StartCourse, KillCourse, StopCourse
      <3>2. ASSUME HandlerStep(t) PROVE Course(t)'
        BY <2>1, <2>3, <3>2, CourseReceived, CourseStart, CourseKill, CourseStop DEF Course
      <3>3. ASSUME AppStep(t), UNCHANGED serverVars PROVE Course(t)'
        BY <2>1, <2>3, <3>3, CourseApp
      <3>4. ~Signal(t)
        BY <2>3 DEF Course, Signal, handleCtrlSignal
      <3> QED
        BY <1>5, <3>1, <3>2, <3>3, <3>4 DEF DaemonStep, ConsoleEnds, Step, OneThread
    <2> QED
      BY <2>1, <2>2, <2>3 DEF ClientInv
  <1> QED
    BY <1>1, <1>2, <1>3, <1>4, <1>5 DEF Next, Gone, OneThread

\* While one thread at a time calls into class Application, a client that has
\* ended has printed the result of its start, stop or kill, unless the daemon
\* died or was ended by Windows, or the user ended the client: the early request for the end of the
\* connection and a reset of it lose nothing that matters.
THEOREM NetShareCLIPrinted ==
    ASSUME OneThread
    PROVE  Spec => []ResultIsPrinted
  <1>1. ClientInv => ResultIsPrinted
    BY DEF ClientInv, Told, Course, ResultIsPrinted
  <1> QED
    BY <1>1, TypesInit, TypesStep, AppInvInit, AppInvStep, ClientInvInit, ClientInvStep,
       PTL DEF Spec
=============================================================================
