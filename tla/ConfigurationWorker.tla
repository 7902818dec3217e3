------------------------ MODULE ConfigurationWorker ------------------------
(***************************************************************************)
(* The server on the configuration port, composed with class Application.  *)
(* Each connection has a thread of its own, which reads a line, handles it *)
(* and reads the next; the system runs the console handler in yet another  *)
(* thread.  The requests on the state of the driver and of the daemon read *)
(* the flags of Application first and then act on what they read.          *)
(*                                                                         *)
(* A request line is named for what it asks:                               *)
(*   "start", "stop"   Put driver.state "running", "stopped"               *)
(*   "kill"            Put deamon.state "stopped"                          *)
(*   "close"           Put connection.state "closed"                       *)
(*   "names"           Get adapter.names                                   *)
(*   "bad"             a line that is answered with an error               *)
(***************************************************************************)
EXTENDS Application, Sequences

CONSTANTS
    Signals,        \* the console signals that arrive
    Window          \* bound: the lines that fit into a connection

\* The signals on which the handler acts, and those it only reports.
HandledSignals == {"ctrlC", "ctrlShutdown"}
ReportedSignals == {"ctrlClose", "ctrlBreak", "ctrlLogoff"}

ASSUME SignalsAssumption == Signals \subseteq HandledSignals \cup ReportedSignals

ASSUME WindowAssumption == Window \in Nat \ {0}

VARIABLES
    req,            \* the last request or signal each thread has handled
    link,           \* the ends of each connection that are open
    asks,           \* lines on the way to the daemon
    lines           \* lines on the way to the client

connVars == <<link, asks, lines>>
serverVars == <<req, connVars>>

ServerInit ==
    /\ AppInit
    /\ req = [t \in Threads |-> "none"]
    /\ link = [t \in Threads |-> {}]
    /\ asks = [t \in Threads |-> <<>>]
    /\ lines = [t \in Threads |-> <<>>]

Update(state) == [type |-> "Update", state |-> state]
Response(state) == [type |-> "Response", state |-> state]

\* An error has a text in the place of the state.
errorResponse == Response("none")

\* send() blocks while the connection is full.  Its result is ignored: when
\* the client has closed its end, the line is lost.
SendLine(t, line) ==
    IF "client" \in link[t]
      THEN /\ Len(lines[t]) < Window
           /\ lines' = [lines EXCEPT ![t] = Append(@, line)]
      ELSE UNCHANGED lines

\* What a request handler does with a line: answer it or not, and go on.
Answer(t, line, l) ==
    /\ SendLine(t, line) /\ Goto(t, l)
    /\ UNCHANGED <<appState, ret, back, req, link, asks>>

Proceed(t, l) ==
    /\ Goto(t, l)
    /\ UNCHANGED <<appState, ret, back, serverVars>>

\* shutdown() is called and returns to l.
CallShutdown(t, l) ==
    /\ Goto(t, "shutdown")
    /\ back' = [back EXCEPT ![t] = l]
    /\ UNCHANGED <<appState, ret, req, link, asks>>

-----------------------------------------------------------------------------
(* The thread of a connection, and the console handler.                    *)

\* parseAdapterGetMessage writes its answer and never sends it; a request of
\* type "Delete" and an unknown connection.state have no answer either.
Handler ==
    [start |-> "startRequest", stop |-> "stopRequest", kill |-> "killRequest",
     close |-> "closeRequest", bad |-> "badRequest", names |-> "idle"]

ReceiveLine(t) ==
    /\ pc[t] = "idle"
    /\ "daemon" \in link[t]
    /\ asks[t] # <<>>
    /\ req' = [req EXCEPT ![t] = Head(asks[t])]
    /\ asks' = [asks EXCEPT ![t] = Tail(@)]
    /\ Goto(t, Handler[Head(asks[t])])
    /\ UNCHANGED <<appState, ret, back, link, lines>>

\* ReceiveLine returns the empty line, which ends the thread: all has been
\* read, or lines that the client did not read have reset the connection.
Disconnected(t) ==
    /\ pc[t] = "idle"
    /\ link[t] = {"daemon"}
    /\ asks[t] = <<>> \/ lines[t] # <<>>
    /\ link' = [link EXCEPT ![t] = {}]
    /\ UNCHANGED <<appVars, req, asks, lines>>

\* running = false ends the loop of the thread, which closes its end.
CloseConnection(t) ==
    /\ pc[t] = "closeRequest"
    /\ SendLine(t, Response("closed"))
    /\ link' = [link EXCEPT ![t] = @ \ {"daemon"}]
    /\ Goto(t, "idle")
    /\ UNCHANGED <<appState, ret, back, req, asks>>

RejectRequest(t) ==
    /\ pc[t] = "badRequest"
    /\ Answer(t, errorResponse, "idle")

\* The system calls the console handler once it is set.  Ctrl-C calls exit; a
\* shutdown of the system calls shutdown() and returns FALSE, upon which
\* Windows ends the process.
handleCtrlSignal(t, r) ==
    /\ pc[t] = "idle" /\ link[t] = {}
    /\ "ctrl" \in hooked
    /\ req' = [req EXCEPT ![t] = r]
    /\ Goto(t, IF r = "ctrlC" THEN "exit" ELSE "shutdown")
    /\ back' = [back EXCEPT ![t] = "exitEnd"]
    /\ UNCHANGED <<appState, ret, connVars>>

\* Windows ends the process of itself: on a signal that the handler only
\* reports (whatever it returns), on any signal while no handler is set, and
\* when the handler takes too long over a shutdown of the system.
ConsoleMayEnd ==
    \/ Signals \cap ReportedSignals # {}
    \/ Signals # {} /\ "ctrl" \notin hooked
    \/ \E t \in Threads : req[t] = "ctrlShutdown"

\* Neither shutdown() nor what atexit has registered is called.
ConsoleEnds ==
    /\ proc = "up" /\ ConsoleMayEnd
    /\ proc' = "ended"
    /\ UNCHANGED <<flags, memory, open, hooked, pc, ret, back, serverVars>>

-----------------------------------------------------------------------------
(* Put driver.state "running".                                             *)

StartIfNotStarting(t) ==
    /\ pc[t] = "startRequest"
    /\ IF startingUp THEN Answer(t, Response("startup"), "idle")
                     ELSE Proceed(t, "startIfExited")

\* A variant that starts whatever is running.
StartUnchecked(t) ==
    /\ pc[t] = "startIfExited"
    /\ Answer(t, Update("startup"), "init")

StartIfExited(t) ==
    /\ pc[t] = "startIfExited"
    /\ IF exited THEN Answer(t, Update("startup"), "init")
                 ELSE Answer(t, Response("running"), "idle")

StartInited(t) ==
    /\ pc[t] = "inited"
    /\ IF ret[t] THEN Proceed(t, "run")
                 ELSE Answer(t, Response("crashed"), "idle")

StartRan(t) ==
    /\ pc[t] = "ran"
    /\ Answer(t, Response("running"), "idle")

-----------------------------------------------------------------------------
(* Put driver.state "stopped".                                             *)

StopIfNotStarting(t) ==
    /\ pc[t] = "stopRequest"
    /\ IF startingUp THEN Answer(t, Response("startup"), "idle")
                     ELSE Proceed(t, "stopIfRunning")

\* A variant that answers before it shuts down.
StopAnswersFirst(t) ==
    /\ pc[t] = "stopIfRunning"
    /\ IF exited THEN Answer(t, Response("stopped"), "idle")
                 ELSE SendLine(t, Response("stopped")) /\ CallShutdown(t, "idle")

StopIfRunning(t) ==
    /\ pc[t] = "stopIfRunning"
    /\ IF exited THEN Answer(t, Response("stopped"), "idle")
                 ELSE SendLine(t, Response("running")) /\ CallShutdown(t, "stopped")

StopEnd(t) ==
    /\ pc[t] = "stopped"
    /\ Answer(t, Response(IF exited THEN "stopped" ELSE "running"), "idle")

-----------------------------------------------------------------------------
(* Put deamon.state "stopped", and exit.                                   *)

\* The client is told of a start in progress, but nothing waits for it.
KillStarting(t) ==
    /\ pc[t] = "killRequest"
    /\ IF startingUp THEN Answer(t, Update("worker.startup"), "killIfRunning")
                     ELSE Proceed(t, "killIfRunning")

\* A variant that leaves the shutdown to exit.
KillWithoutShutdown(t) ==
    /\ pc[t] = "killIfRunning"
    /\ Proceed(t, "killEnd")

KillIfRunning(t) ==
    /\ pc[t] = "killIfRunning"
    /\ IF exited THEN Proceed(t, "killEnd")
                 ELSE SendLine(t, Update("worker.running")) /\ CallShutdown(t, "killEnd")

\* The loop ends when the driver is not running, else it goes round again.
KillEnd(t) ==
    /\ pc[t] = "killEnd"
    /\ IF exited THEN Answer(t, Update("worker.stopped"), "killAnswer")
                 ELSE Proceed(t, "killRequest")

KillAnswer(t) ==
    /\ pc[t] = "killAnswer"
    /\ Answer(t, Response("stopped"), "exit")

\* A variant without the functions that atexit has registered.
ExitAtOnce(t) ==
    /\ pc[t] = "exit"
    /\ Proceed(t, "exitEnd")

\* exit(0) calls the functions that run() has registered with atexit.
Exit(t) ==
    /\ pc[t] = "exit"
    /\ IF "atexit" \in hooked THEN CallShutdown(t, "exitEnd") /\ UNCHANGED lines
                              ELSE Proceed(t, "exitEnd")

ExitEnd(t) ==
    /\ pc[t] = "exitEnd"
    /\ proc' = "exited"
    /\ UNCHANGED <<flags, memory, open, hooked, pc, ret, back, serverVars>>

HandlerStep(t) ==
    \/ ReceiveLine(t) \/ Disconnected(t) \/ CloseConnection(t) \/ RejectRequest(t)
    \/ StartIfNotStarting(t) \/ StartIfExited(t) \/ StartInited(t) \/ StartRan(t)
    \/ StopIfNotStarting(t) \/ StopIfRunning(t) \/ StopEnd(t)
    \/ KillStarting(t) \/ KillIfRunning(t) \/ KillEnd(t) \/ KillAnswer(t)
    \/ Exit(t) \/ ExitEnd(t)

-----------------------------------------------------------------------------
\* A step of a thread of the daemon.
Step(t) ==
    /\ proc = "up"
    /\ HandlerStep(t) \/ (AppStep(t) /\ UNCHANGED serverVars)

Signal(t) ==
    /\ proc = "up"
    /\ \E r \in Signals \cap HandledSignals : handleCtrlSignal(t, r)

WorkersStep ==
    /\ proc = "up"
    /\ \E g \in Configs : WorkersEnd(g)
    /\ UNCHANGED serverVars
=============================================================================
