---------------------------- MODULE Application ----------------------------
(***************************************************************************)
(* Class Application, the singleton that starts and stops the VPN: its     *)
(* methods initRun, run and shutdown as sequences of steps of the thread   *)
(* that calls them.  Nothing in the class is locked, so the steps of two   *)
(* threads may interleave; a step is a stretch of code between two reads   *)
(* or writes of members that another thread uses.                          *)
(*                                                                         *)
(* The worker threads of a run, whose work and whose end are the subject   *)
(* of module DataPlane, appear here only as alive or not.  A Config object *)
(* is identified, because initRun replaces the object in the member conf   *)
(* while older workers keep using theirs.  The process dies when a thread  *)
(* looks into a null pointer or into freed memory.                         *)
(*                                                                         *)
(* External: Wintun, Winsock and the file system, whose calls fail or not. *)
(***************************************************************************)
EXTENDS Integers, FiniteSets

CONSTANTS
    Threads,        \* the threads that call into the class
    Configs,        \* the Config objects; bound: how many are in use at once
    NULL, FREED     \* a null pointer, a pointer to freed memory

ASSUME ApplicationAssumption ==
    /\ NULL \notin Configs /\ FREED \notin Configs /\ NULL # FREED
    /\ IsFiniteSet(Configs)

VARIABLES
    exited, startingUp, crashed,    \* members of the class
    conf,           \* the current Config object
    running,        \* the Config objects whose isRunning is true
    udpconfigs,     \* the list of socket configurations
    Workers,        \* the handles of the workers: of which Config
    alive,          \* the Config objects whose workers have not ended
    open,           \* the system resources that are open
    hooked,         \* "ctrl": the console handler is set; "atexit": nsShutdown
    proc,           \* the process: "up", "crashed", "exited", or "ended" by Windows
    pc,             \* where each thread is
    ret,            \* what initRun returned to each thread
    back            \* where each thread goes after shutdown()

appState == <<exited, startingUp, crashed, conf, running, udpconfigs, Workers,
              alive, open, hooked, proc>>
appVars == <<appState, pc, ret, back>>

flags == <<exited, startingUp, crashed>>
memory == <<conf, running, udpconfigs, Workers, alive>>
environment == <<open, hooked, proc>>

Goto(t, l) == pc' = [pc EXCEPT ![t] = l]

AppInit ==
    /\ exited = TRUE /\ startingUp = FALSE /\ crashed = FALSE
    /\ conf = NULL /\ running = {}
    /\ udpconfigs = NULL
    /\ Workers = NULL /\ alive = {}
    /\ open = {} /\ hooked = {}
    /\ proc = "up"
    /\ pc = [t \in Threads |-> "idle"]
    /\ ret = [t \in Threads |-> FALSE]
    /\ back = [t \in Threads |-> "idle"]

-----------------------------------------------------------------------------
(* initRun.  It starts at "init" and ends at "inited" with ret[t].         *)

initReturn(t, value) ==
    /\ Goto(t, "inited")
    /\ ret' = [ret EXCEPT ![t] = value]

InitFlags(t) ==
    /\ pc[t] = "init"
    /\ crashed' = FALSE
    /\ exited' = FALSE
    /\ Goto(t, "initStarting")
    /\ UNCHANGED <<startingUp, memory, environment, ret, back>>

InitStarting(t) ==
    /\ pc[t] = "initStarting"
    /\ startingUp' = TRUE
    /\ Goto(t, "initConfig")
    /\ UNCHANGED <<exited, crashed, memory, environment, ret, back>>

\* The configuration file is read, or a default one is written.  When the
\* read throws, initRun returns with exited and startingUp as they are.
InitConfigFails(t) ==
    /\ pc[t] = "initConfig"
    /\ initReturn(t, FALSE)
    /\ UNCHANGED <<appState, back>>

\* conf.reset(new Config()): workers that still run keep the old object.
InitConfig(t) ==
    /\ pc[t] = "initConfig"
    /\ \E g \in Configs \ (alive \cup {conf, Workers}) : conf' = g
    /\ running' = running \cap alive
    /\ Goto(t, "initAdapters")
    /\ UNCHANGED <<flags, udpconfigs, Workers, alive, environment, ret, back>>

\* No activated adapter: again exited and startingUp stay as they are.
InitNoAdapters(t) ==
    /\ pc[t] = "initAdapters" /\ conf # NULL
    /\ running' = running \ {conf}
    /\ crashed' = TRUE
    /\ initReturn(t, FALSE)
    /\ UNCHANGED <<exited, startingUp, conf, udpconfigs, Workers, alive,
                   environment, back>>

InitAdapters(t) ==
    /\ pc[t] = "initAdapters"
    /\ Goto(t, "initWintun")
    /\ UNCHANGED <<appState, ret, back>>

\* A variant that forgets to set exited.
InitFailsNotExited(t) ==
    /\ pc[t] \in {"initWintun", "initAdapter", "initSession"}
    /\ startingUp' = FALSE
    /\ open' = IF pc[t] = "initSession" THEN open \ {"adapter"} ELSE open
    /\ initReturn(t, FALSE)
    /\ UNCHANGED <<exited, crashed, memory, hooked, proc, back>>

\* The failures that clean up: the Wintun library cannot be loaded, or its
\* adapter or its session cannot be opened (which frees the adapter).
InitFails(t) ==
    /\ pc[t] \in {"initWintun", "initAdapter", "initSession"}
    /\ exited' = TRUE
    /\ startingUp' = FALSE
    /\ open' = IF pc[t] = "initSession" THEN open \ {"adapter"} ELSE open
    /\ initReturn(t, FALSE)
    /\ UNCHANGED <<crashed, memory, hooked, proc, back>>

\* The library, the quit event and the sockets of the activated adapters.
InitSockets(t) ==
    /\ pc[t] = "initWintun" /\ conf # NULL
    /\ open' = open \cup {"quitEvent", "sockets"}
    /\ udpconfigs' = "live"
    /\ Goto(t, "initAdapter")
    /\ UNCHANGED <<flags, conf, running, Workers, alive, hooked, proc, ret, back>>

InitAdapter(t) ==
    /\ pc[t] = "initAdapter" /\ conf # NULL
    /\ open' = open \cup {"adapter"}
    /\ Goto(t, "initSession")
    /\ UNCHANGED <<flags, memory, hooked, proc, ret, back>>

\* The successful path runs off the end of a function that must return a
\* bool: the caller sees any value.
InitSession(t) ==
    /\ pc[t] = "initSession" /\ conf # NULL
    /\ open' = open \cup {"session"}
    /\ \E value \in BOOLEAN : initReturn(t, value)
    /\ UNCHANGED <<flags, memory, hooked, proc, back>>

-----------------------------------------------------------------------------
(* run.  It starts at "run" and ends at "ran".                             *)

RunFlag(t) ==
    /\ pc[t] = "run" /\ conf # NULL
    /\ running' = running \cup {conf}
    /\ Goto(t, "runWorkers")
    /\ UNCHANGED <<flags, conf, udpconfigs, Workers, alive, environment, ret, back>>

RunWorkers(t) ==
    /\ pc[t] = "runWorkers" /\ conf # NULL /\ udpconfigs = "live"
    /\ Workers' = conf
    /\ alive' = alive \cup {conf}
    /\ Goto(t, "runHandler")
    /\ UNCHANGED <<flags, conf, running, udpconfigs, environment, ret, back>>

RunHandler(t) ==
    /\ pc[t] = "runHandler"
    /\ hooked' = hooked \cup {"ctrl"}
    /\ Goto(t, "runEnd")
    /\ UNCHANGED <<flags, memory, open, proc, ret, back>>

\* SetConsoleCtrlHandler fails: shutdown() is called, and run goes on.
RunHandlerFails(t) ==
    /\ pc[t] = "runHandler"
    /\ Goto(t, "shutdown")
    /\ back' = [back EXCEPT ![t] = "runEnd"]
    /\ UNCHANGED <<appState, ret>>

RunEnd(t) ==
    /\ pc[t] = "runEnd"
    /\ hooked' = hooked \cup {"atexit"}
    /\ startingUp' = FALSE
    /\ Goto(t, "ran")
    /\ UNCHANGED <<exited, crashed, memory, open, proc, ret, back>>

-----------------------------------------------------------------------------
(* shutdown.  It starts at "shutdown" and ends at back[t].                 *)

ShutdownCheck(t) ==
    /\ pc[t] = "shutdown"
    /\ Goto(t, IF exited THEN back[t] ELSE "stats")
    /\ UNCHANGED <<appState, ret, back>>

\* The statistics are logged and their thread is joined.
ShutdownStats(t) ==
    /\ pc[t] = "stats" /\ conf # NULL
    /\ Goto(t, "exited")
    /\ UNCHANGED <<appState, ret, back>>

ShutdownExited(t) ==
    /\ pc[t] = "exited"
    /\ exited' = TRUE
    /\ Goto(t, "halt")
    /\ UNCHANGED <<startingUp, crashed, memory, environment, ret, back>>

\* isRunning, the quit event and the two queues: see module DataPlane.
ShutdownStop(t) ==
    /\ pc[t] = "halt" /\ conf # NULL
    /\ running' = running \ {conf}
    /\ Goto(t, "join")
    /\ UNCHANGED <<flags, conf, udpconfigs, Workers, alive, environment, ret, back>>

\* A variant that does not wait.
ShutdownJoinNoWait(t) ==
    /\ pc[t] = "join"
    /\ Workers # FREED
    /\ Workers' = FREED
    /\ Goto(t, "close")
    /\ UNCHANGED <<flags, conf, running, udpconfigs, alive, environment, ret, back>>

\* Before the first run there are no handles to wait for.
ShutdownJoin(t) ==
    /\ pc[t] = "join"
    /\ Workers # FREED /\ Workers \notin alive
    /\ Workers' = FREED
    /\ Goto(t, "close")
    /\ UNCHANGED <<flags, conf, running, udpconfigs, alive, environment, ret, back>>

\* closeSockets, the session, the adapter and the quit event.
ShutdownClose(t) ==
    /\ pc[t] = "close" /\ udpconfigs = "live" /\ conf # NULL
    /\ open' = {}
    /\ Goto(t, "clear")
    /\ UNCHANGED <<flags, memory, hooked, proc, ret, back>>

\* A variant that leaves conf dangling.
ShutdownClearDangling(t) ==
    /\ pc[t] = "clear"
    /\ conf' = FREED
    /\ udpconfigs' = FREED
    /\ Goto(t, back[t])
    /\ UNCHANGED <<flags, running, Workers, alive, environment, ret, back>>

ShutdownClear(t) ==
    /\ pc[t] = "clear"
    /\ conf' = NULL
    /\ udpconfigs' = FREED
    /\ Goto(t, back[t])
    /\ UNCHANGED <<flags, running, Workers, alive, environment, ret, back>>

\* The workers of a Config end once its isRunning is false.
WorkersEnd(g) ==
    /\ g \in alive \ running
    /\ alive' = alive \ {g}
    /\ UNCHANGED <<flags, conf, running, udpconfigs, Workers, environment, pc, ret, back>>

-----------------------------------------------------------------------------
\* The next step of t looks into a null pointer or into freed memory.
Dangling(t) ==
    \/ pc[t] \in {"initAdapters", "initWintun", "initAdapter", "initSession",
                  "run", "runWorkers", "stats", "halt", "close"} /\ conf = NULL
    \/ pc[t] \in {"runWorkers", "close"} /\ udpconfigs # "live"
    \/ pc[t] = "join" /\ Workers = FREED

Fault(t) ==
    /\ Dangling(t)
    /\ proc' = "crashed"
    /\ UNCHANGED <<flags, memory, open, hooked, pc, ret, back>>

AppStep(t) ==
    \/ InitFlags(t) \/ InitStarting(t) \/ InitConfigFails(t) \/ InitConfig(t)
    \/ InitNoAdapters(t) \/ InitAdapters(t) \/ InitFails(t) \/ InitSockets(t)
    \/ InitAdapter(t) \/ InitSession(t)
    \/ RunFlag(t) \/ RunWorkers(t) \/ RunHandler(t) \/ RunHandlerFails(t) \/ RunEnd(t)
    \/ ShutdownCheck(t) \/ ShutdownStats(t) \/ ShutdownExited(t) \/ ShutdownStop(t)
    \/ ShutdownJoin(t) \/ ShutdownClose(t) \/ ShutdownClear(t)
    \/ Fault(t)
=============================================================================
