---------------------------- MODULE NetShareCLI ----------------------------
(***************************************************************************)
(* The command line client, and the whole control plane: clients, the      *)
(* connections, the configuration server and class Application.            *)
(*                                                                         *)
(* An invocation of the client opens a connection, sends one request,      *)
(* prints what it is told and asks for the end of the connection after     *)
(* every "Response".  A stop of a running driver has two of them, so the   *)
(* client has asked for the end while the daemon is still shutting down.   *)
(* A connection whose closed end has not read all that was sent may be     *)
(* reset, which loses what the other end has not read yet.                 *)
(***************************************************************************)
EXTENDS ConfigurationWorker

CONSTANT Commands   \* the subcommands that are invoked

ASSUME CommandsAssumption ==
    Commands \subseteq {"start", "stop", "kill", "configure", "bad"}

VARIABLES
    cmd,            \* the subcommand of each connection's client
    answers         \* the states of the responses that it has read

vars == <<appVars, serverVars, cmd, answers>>

Init ==
    /\ ServerInit
    /\ cmd = [t \in Threads |-> "none"]
    /\ answers = [t \in Threads |-> {}]

\* configure asks for the names of the adapters.  "bad" is a client whose
\* request the daemon does not understand.
Request(c) == IF c = "configure" THEN "names" ELSE c

Connect(t, c) ==
    /\ proc = "up"
    /\ pc[t] = "idle" /\ link[t] = {}
    /\ link' = [link EXCEPT ![t] = {"client", "daemon"}]
    /\ asks' = [asks EXCEPT ![t] = <<Request(c)>>]
    /\ lines' = [lines EXCEPT ![t] = <<>>]
    /\ cmd' = [cmd EXCEPT ![t] = c]
    /\ answers' = [answers EXCEPT ![t] = {}]
    /\ UNCHANGED <<appVars, req>>

stopConnectionRequest == "close"

\* A variant that ends with any response.
IsLastResponse(t, line) == cmd[t] = "configure" \/ line.type = "Response"

\* A line after which the client ends: configure reads only one.
IsLast(t, line) == cmd[t] = "configure" \/ line.state \in {"closed", "none"}

ReadLine(t) ==
    /\ "client" \in link[t]
    /\ lines[t] # <<>> /\ ~IsLast(t, Head(lines[t]))
    /\ lines' = [lines EXCEPT ![t] = Tail(@)]
    /\ IF Head(lines[t]).type = "Response"
         THEN /\ answers' = [answers EXCEPT ![t] = @ \cup {Head(lines[t]).state}]
              /\ asks' = [asks EXCEPT ![t] = Append(@, stopConnectionRequest)]
         ELSE UNCHANGED <<answers, asks>>
    /\ UNCHANGED <<appVars, req, link, cmd>>

ReadLast(t) ==
    /\ "client" \in link[t]
    /\ lines[t] # <<>> /\ IsLast(t, Head(lines[t]))
    /\ lines' = [lines EXCEPT ![t] = Tail(@)]
    /\ link' = [link EXCEPT ![t] = @ \ {"client"}]
    /\ UNCHANGED <<appVars, req, asks, cmd, answers>>

\* The daemon has closed its end, or has died.
DaemonGone(t) == "daemon" \notin link[t] \/ proc # "up"

\* ReceiveLine returns the empty line: all lines have been read, or the
\* connection is reset.
ReadNothing(t) ==
    /\ "client" \in link[t]
    /\ DaemonGone(t)
    /\ lines[t] = <<>> \/ asks[t] # <<>>
    /\ link' = [link EXCEPT ![t] = @ \ {"client"}]
    /\ lines' = [lines EXCEPT ![t] = <<>>]
    /\ UNCHANGED <<appVars, req, asks, cmd, answers>>

\* External: the user ends the client, whose connection is then closed.
Interrupt(t) ==
    /\ "client" \in link[t]
    /\ link' = [link EXCEPT ![t] = @ \ {"client"}]
    /\ cmd' = [cmd EXCEPT ![t] = "none"]
    /\ UNCHANGED <<appVars, req, asks, lines, answers>>

ClientStep(t) == ReadLine(t) \/ ReadLast(t) \/ ReadNothing(t)

\* The process is gone, and all clients know.
Gone ==
    /\ proc # "up"
    /\ \A t \in Threads : "client" \notin link[t]
    /\ UNCHANGED vars

DaemonStep ==
    /\ WorkersStep \/ ConsoleEnds \/ \E t \in Threads : Step(t) \/ Signal(t)
    /\ UNCHANGED <<cmd, answers>>

Next ==
    \/ \E t \in Threads :
          ClientStep(t) \/ Interrupt(t) \/ \E c \in Commands : Connect(t, c)
    \/ DaemonStep
    \/ Gone

Spec == Init /\ [][Next]_vars

(***************************************************************************)
(* Fairness: every thread of the daemon and every client is scheduled, and *)
(* workers that have been told to stop end (ShutdownCompletes in module    *)
(* DataPlane).  Nobody need invoke a client or end one.                    *)
(***************************************************************************)
Fairness ==
    /\ \A t \in Threads : WF_vars(ClientStep(t)) /\ WF_vars(Step(t) /\ UNCHANGED <<cmd, answers>>)
    /\ WF_vars(WorkersStep /\ UNCHANGED <<cmd, answers>>)

FairSpec == Spec /\ Fairness

-----------------------------------------------------------------------------
(* Properties.                                                             *)

Resources == {"sockets", "adapter", "session", "quitEvent"}

States == {"none", "closed", "startup", "running", "stopped", "crashed",
           "worker.startup", "worker.running", "worker.stopped"}

\* The types of the members of Application, of the connections and of what
\* the clients keep; a connection never holds more than its window.
TypeOK ==
    /\ exited \in BOOLEAN /\ startingUp \in BOOLEAN /\ crashed \in BOOLEAN
    /\ conf \in Configs \cup {NULL}
    /\ running \subseteq Configs /\ alive \subseteq Configs
    /\ udpconfigs \in {NULL, FREED, "live"}
    /\ Workers \in Configs \cup {NULL, FREED}
    /\ open \subseteq Resources
    /\ hooked \subseteq {"ctrl", "atexit"}
    /\ proc \in {"up", "crashed", "exited", "ended"}
    /\ ret \in [Threads -> BOOLEAN]
    /\ link \in [Threads -> SUBSET {"client", "daemon"}]
    /\ asks \in [Threads -> Seq(DOMAIN Handler)]
    /\ lines \in [Threads -> Seq([type : {"Update", "Response"}, state : States])]
    /\ \A t \in Threads : Len(lines[t]) <= Window
    /\ cmd \in [Threads -> Commands \cup {"none"}]
    /\ answers \in [Threads -> SUBSET States]

\* The step sends a response.
Answers(t, state) == lines'[t] = Append(lines[t], Response(state))

\* "VPN Worker is stopped": when a client is told so, no worker lives and
\* the session with the TUN device is over.
StoppedMeansStopped ==
    [][\A t \in Threads :
         Answers(t, "stopped") => alive' = {} /\ "session" \notin open']_vars

\* "VPN Worker successfully started": a start is answered so when workers run,
\* its own or those of an earlier start, and after a failure of the console
\* handler, when all is shut down again and the next start can work; never with
\* something half started or half stopped.
RunningOrAllDown ==
    [][\A t \in Threads :
         Answers(t, "running") /\ req[t] = "start"
            => \/ alive' \cap running' # {}
               \/ exited' /\ ~startingUp' /\ alive' = {} /\ open' = {}]_vars

\* A second set of workers is never started beside the first, although
\* initRun itself does not look at what is running.
OneSetOfWorkers ==
    \A t \in Threads : pc[t] \in {"init", "run", "runWorkers"} => alive = {}

\* Whatever fails on the way up, workers only live while everything that
\* they use is there: their Config, sockets, session and quit event.
WorkersHaveEverything ==
    alive # {} => /\ alive = {conf}
                  /\ udpconfigs = "live"
                  /\ open = Resources

\* Whatever fails on the way up, no start and no stop makes the process look
\* into a null pointer or into freed memory; only the requests that end the
\* daemon, which shut down whatever is there, can.
OnlyEndingFaults ==
    \A t \in Threads :
        Dangling(t) => req[t] \in {"kill", "ctrlC", "ctrlShutdown"}

\* Where the daemon ends by what it does itself, after a kill, on Ctrl-C or at
\* the end of its handler of a system shutdown, the workers and the session are
\* gone.  It says nothing of the process that Windows ends (ConsoleEnds), which
\* takes living workers with it.
ExitAfterWorkers == proc = "exited" => alive = {} /\ "session" \notin open

\* What start, stop and kill print as their result.
Outcomes ==
    [start |-> {"running", "crashed", "startup"},
     stop |-> {"stopped", "startup"},
     kill |-> {"stopped"}]

\* A client that has ended has printed the result of its request, unless the
\* daemon died or was ended by Windows, or the user ended the client: asking for the end of the
\* connection too early, as a stop does, does not cut off the answer, and a
\* reset loses only what does not matter any more.
ResultIsPrinted ==
    \A t \in Threads :
        cmd[t] \in DOMAIN Outcomes /\ "client" \notin link[t]
            => answers[t] \cap Outcomes[cmd[t]] # {} \/ proc \in {"crashed", "ended"}

\* Every client that starts, stops or ends the driver, or is not understood,
\* ends: all that it waits for is answered, or the connection is closed.  Not
\* so configure: its request has no answer, and both ends wait for the other.
EveryClientEnds ==
    \A t \in Threads :
        "client" \in link[t] /\ cmd[t] # "configure" ~> "client" \notin link[t]

\* "Please try again after the Worker has fully started": a start comes to
\* an end, and then the driver can be stopped.
StartupEnds == startingUp ~> (~startingUp \/ proc # "up")
=============================================================================
