--------------------------- MODULE Configuration ---------------------------
(***************************************************************************)
(* The persistent configuration: class AppConfig, the file it is kept in,  *)
(* the requests that change it, initRun which reads it, and the adapters   *)
(* and socket configurations that initRun derives from it.                 *)
(*                                                                         *)
(* Opening a file for output truncates it, and what is written reaches it  *)
(* when it is closed, so a reader or a crash in between finds nothing.     *)
(* The reads do not look at the state of the stream: from nothing they     *)
(* leave their variables as they were, some of them never set.             *)
(*                                                                         *)
(* A content is its settings (addresses, ports, log level) and the set of  *)
(* its adapter names.  External: the file system, the adapters of the      *)
(* machine, rapidjson.                                                     *)
(***************************************************************************)
EXTENDS Integers, Sequences, FiniteSets

CONSTANTS
    Clients,        \* the connections whose requests are handled
    Settings,       \* the settings that clients ask for
    Default,        \* the settings of the default configuration
    Garbage,        \* settings that were never set
    NoFile, Empty,  \* a file that does not exist, and one without content
    NAdapters,      \* the machine's adapters are 1 .. NAdapters
    DefaultName,    \* the name in the default configuration
    MaxNames,       \* bound: the names in a request
    FirstPort,      \* 65530 in the driver
    Ports, Uids     \* the values of a port (uint16_t) and of a uid (uint8_t)

\* What an unset string holds: the name of no adapter.
Junk == NAdapters + 1
Names == 0 .. Junk
Content == [settings : Settings \cup {Default, Garbage}, names : SUBSET Names]

ASSUME ConfigurationAssumption ==
    /\ NAdapters \in Nat /\ DefaultName \in 0 .. NAdapters /\ MaxNames \in Nat
    /\ Ports \in Nat \ {0} /\ Uids \in Nat \ {0} /\ FirstPort \in Nat
    /\ Default # Garbage /\ Garbage \notin Settings
    /\ NoFile # Empty /\ NoFile \notin Content /\ Empty \notin Content

VARIABLES
    file,           \* NoFile, Empty or a content
    internalConfig, \* the copy in memory
    owned,          \* adapterNames owns the vector internalConfig->names
    dangling,       \* adapterNames points to a vector that is freed
    startingUp, up, \* the driver is starting up, is running
    configs,        \* the socket configurations of the run
    pc,             \* where each request is
    draft,          \* the content that a request will write
    stale,          \* history: the file has content that this request did not read
    owed,           \* history: the names that the file must have
    blindRead,      \* history: a read found no content
    damaged,        \* history: a write was broken off
    handed,         \* history: a start of this process has given its names away
    spoilt          \* history: after that a start could not open the file, or two
                    \* starts of this process were under way at once

memory == <<internalConfig, owned, dangling, startingUp, up, configs>>
history == <<stale, owed, blindRead, damaged, handed, spoilt>>
vars == <<file, memory, pc, draft, history>>

Nothing == [settings |-> Garbage, names |-> {}]
Readable == file \notin {NoFile, Empty}

Goto(t, l) == pc' = [pc EXCEPT ![t] = l]

\* The members of a process that has just been started.
Fresh ==
    /\ internalConfig' = Nothing
    /\ owned' = FALSE /\ dangling' = FALSE
    /\ startingUp' = FALSE /\ up' = FALSE /\ configs' = {}
    /\ pc' = [t \in Clients |-> "idle"]
    /\ draft' = [t \in Clients |-> Nothing]

Init ==
    /\ file = NoFile
    /\ internalConfig = Nothing
    /\ owned = FALSE /\ dangling = FALSE
    /\ startingUp = FALSE /\ up = FALSE /\ configs = {}
    /\ pc = [t \in Clients |-> "idle"]
    /\ draft = [t \in Clients |-> Nothing]
    /\ stale = [t \in Clients |-> FALSE] /\ owed = {}
    /\ blindRead = FALSE /\ damaged = FALSE
    /\ handed = FALSE /\ spoilt = FALSE

\* The names that AppConfig::read makes of nothing: their number is never set.
UnsetNames == {{}, {Junk}}

Writing(t) == pc[t] \in {"close", "default"}

\* External: the process is killed, or dies of an exception, and is started
\* again.  A file that is being written stays empty.
Restart ==
    /\ Fresh
    /\ stale' = [t \in Clients |-> FALSE]
    /\ damaged' = (damaged \/ \E t \in Clients : Writing(t))
    /\ handed' = FALSE /\ spoilt' = FALSE
    /\ UNCHANGED <<file, owed, blindRead>>

\* External: somebody removes the file, which nobody has open, and its names
\* with it.
RemoveFile ==
    /\ file # NoFile /\ \A t \in Clients : ~Writing(t)
    /\ file' = NoFile
    /\ owed' = {}
    /\ UNCHANGED <<memory, pc, draft, stale, blindRead, damaged, handed, spoilt>>

-----------------------------------------------------------------------------
(* The Put request on config: parseConfigPutMessage.                       *)

\* The loop over the names of a request counts up while PopBack shortens the
\* array: it ends halfway.
TakenFrom(names) ==
    LET n == Len(names)
    IN  {names[n - i] : i \in {j \in 0 .. n : j < n - j}}

\* External: PopBack of a GenericArray may also yield the shortened array,
\* which is no string: then no name is taken.
Added(names) == {TakenFrom(names), {}}

Requests == UNION {[1 .. n -> 1 .. NAdapters] : n \in 0 .. MaxNames}

\* A variant that replaces the names of the file.
MergedReplaces(old, names) == names

Merged(old, names) == old \cup names

\* Every member of the request is optional.
PutMakes(t, c) ==
    \E names \in UNION {Added(request) : request \in Requests}, s \in Settings \cup {c.settings} :
        draft' = [draft EXCEPT ![t] = [settings |-> s, names |-> Merged(c.names, names)]]

\* The file is read, or unset members when it has no content or could not be
\* opened: nobody looks at the state of the stream.
PutRead(t) ==
    /\ pc[t] = "idle"
    /\ \/ /\ Readable /\ PutMakes(t, file)
          /\ stale' = [stale EXCEPT ![t] = FALSE] /\ blindRead' = blindRead
       \/ /\ \E n \in UnsetNames : PutMakes(t, [settings |-> Garbage, names |-> n])
          /\ stale' = [stale EXCEPT ![t] = TRUE] /\ blindRead' = TRUE
    /\ Goto(t, "open")
    /\ UNCHANGED <<file, memory, owed, damaged, handed, spoilt>>

Truncated == Empty

PutEnds(t) == Goto(t, "idle") /\ draft' = [draft EXCEPT ![t] = Nothing]

PutOpen(t) ==
    /\ pc[t] = "open"
    /\ file' = Truncated
    /\ Goto(t, "close")
    /\ UNCHANGED <<memory, draft, history>>

\* The ofstream cannot be opened: what is written to it is lost.
PutOpenFails(t) ==
    /\ pc[t] = "open"
    /\ PutEnds(t)
    /\ stale' = [stale EXCEPT ![t] = FALSE]
    /\ UNCHANGED <<file, memory, owed, blindRead, damaged, handed, spoilt>>

\* The file keeps the names it had, unless its writer did not read them.
Overwrites(t, content) ==
    /\ owed' = IF stale[t] THEN content.names ELSE owed \cup content.names
    /\ stale' = [u \in Clients |-> u # t /\ pc[u] \in {"open", "close", "create", "default"}]

\* A variant whose stream is not closed in the end: nothing is flushed.
WrittenNever(t) == file

Written(t) == draft[t]

\* The destructor of the stream closes it.
PutClose(t) ==
    /\ pc[t] = "close"
    /\ file' = Written(t)
    /\ Overwrites(t, draft[t])
    /\ PutEnds(t)
    /\ UNCHANGED <<memory, blindRead, damaged, handed, spoilt>>

\* External: the disk is full.  Nobody looks at the state of the stream.
PutCloseFails(t) ==
    /\ pc[t] = "close"
    /\ damaged' = TRUE
    /\ PutEnds(t)
    /\ stale' = [stale EXCEPT ![t] = FALSE]
    /\ UNCHANGED <<file, memory, owed, blindRead, handed, spoilt>>

-----------------------------------------------------------------------------
(* initRun, as far as the configuration goes.                              *)

\* The flags are read before initRun sets one: another start may come between.
StartRequest(t) ==
    /\ pc[t] = "idle" /\ ~startingUp /\ ~up
    /\ Goto(t, "start")
    /\ UNCHANGED <<file, memory, draft, history>>

Starting(t) == pc[t] \in {"read", "create", "default", "reset", "select"}

StartInit(t) ==
    /\ pc[t] = "start"
    /\ startingUp' = TRUE
    /\ spoilt' = (spoilt \/ \E u \in Clients : Starting(u))
    /\ Goto(t, "read")
    /\ UNCHANGED <<file, internalConfig, owned, dangling, up, configs, draft,
                   stale, owed, blindRead, damaged, handed>>

\* A variant in which AppConfig::read fills the vector that it has.
OwnedBefore == owned

\* AppConfig::read makes a new vector of names.
OwnedAfterRead == FALSE

StartRead(t) ==
    /\ pc[t] = "read" /\ Readable
    /\ internalConfig' = file
    /\ owned' = OwnedAfterRead
    /\ Goto(t, "reset")
    /\ UNCHANGED <<file, dangling, startingUp, up, configs, draft, history>>

StartReadEmpty(t) ==
    /\ pc[t] = "read" /\ file = Empty
    /\ \E n \in UnsetNames : internalConfig' = [internalConfig EXCEPT !.names = n]
    /\ owned' = OwnedAfterRead
    /\ blindRead' = TRUE
    /\ Goto(t, "reset")
    /\ UNCHANGED <<file, dangling, startingUp, up, configs, draft,
                   stale, owed, damaged, handed, spoilt>>

\* The exception is caught, and startingUp stays as it is.
StartReadThrows(t) ==
    /\ pc[t] = "read" /\ file = Empty
    /\ \E n \in UnsetNames : internalConfig' = [internalConfig EXCEPT !.names = n]
    /\ owned' = OwnedAfterRead
    /\ blindRead' = TRUE
    /\ Goto(t, "idle")
    /\ UNCHANGED <<file, dangling, startingUp, up, configs, draft,
                   stale, owed, damaged, handed, spoilt>>

\* A variant that leaves the settings unset.
DefaultSettingsUnset == internalConfig.settings

DefaultSettings == Default

\* The default name is added to the names in memory.
DefaultConfig ==
    [settings |-> DefaultSettings, names |-> internalConfig.names \cup {DefaultName}]

\* The file cannot be opened, be it that it does not exist: the default one is
\* to take its place.  Before it is opened for output somebody else may write.
StartMissing(t) ==
    /\ pc[t] = "read"
    /\ stale' = [stale EXCEPT ![t] = file # NoFile]
    /\ spoilt' = (spoilt \/ handed)
    /\ Goto(t, "create")
    /\ UNCHANGED <<file, memory, draft, owed, blindRead, damaged, handed>>

StartDefault(t) ==
    /\ pc[t] = "create"
    /\ internalConfig' = DefaultConfig
    /\ file' = Empty
    /\ Goto(t, "default")
    /\ UNCHANGED <<owned, dangling, startingUp, up, configs, draft, history>>

StartDefaultClose(t) ==
    /\ pc[t] = "default"
    /\ file' = internalConfig
    /\ Overwrites(t, internalConfig)
    /\ Goto(t, "reset")
    /\ UNCHANGED <<memory, draft, blindRead, damaged, handed, spoilt>>

StartDefaultCloseFails(t) ==
    /\ pc[t] = "default"
    /\ damaged' = TRUE
    /\ stale' = [stale EXCEPT ![t] = FALSE]
    /\ Goto(t, "reset")
    /\ UNCHANGED <<file, memory, draft, owed, blindRead, handed, spoilt>>

\* The file cannot be opened for output either.
StartDefaultRefused(t) ==
    /\ pc[t] = "create"
    /\ internalConfig' = DefaultConfig
    /\ stale' = [stale EXCEPT ![t] = FALSE]
    /\ Goto(t, "reset")
    /\ UNCHANGED <<file, owned, dangling, startingUp, up, configs, draft,
                   owed, blindRead, damaged, handed, spoilt>>

\* adapterNames.reset(internalConfig->names) deletes what adapterNames owns,
\* which is the vector itself when this start has not read a new one.
StartReset(t) ==
    /\ pc[t] = "reset"
    /\ dangling' = owned
    /\ owned' = TRUE
    /\ handed' = TRUE
    /\ Goto(t, "select")
    /\ UNCHANGED <<file, internalConfig, startingUp, up, configs, draft,
                   stale, owed, blindRead, damaged, spoilt>>

\* The activation that init() found is replaced: only the name counts.
deactiveEverythingBut(names) == {a \in 1 .. NAdapters : a \in names}

Activated == deactiveEverythingBut(internalConfig.names)

\* A variant that keeps the port in an int.
PortOfInt(i) == FirstPort + i \div 2

\* A variant that gives both configurations of an adapter a port of their own.
PortOfConfig(i) == (FirstPort + i) % Ports

PortOf(i) == (FirstPort + i \div 2) % Ports

\* The configurations are numbered in the order of the adapters.
Number(active, a, r) == 2 * Cardinality({b \in active : b < a}) + (IF r THEN 1 ELSE 0)

\* A sender and a receiver for each activated adapter.  Nobody looks at the
\* order in which the vector holds them.
generateUDPConfigs(active) ==
    {[adapter |-> a, reciever |-> r,
      port |-> PortOf(Number(active, a, r)), uid |-> Number(active, a, r) % Uids] :
        a \in active, r \in BOOLEAN}

\* No activated adapter: startingUp stays as it is.
StartNoAdapters(t) ==
    /\ pc[t] = "select" /\ ~dangling /\ Activated = {}
    /\ Goto(t, "idle")
    /\ UNCHANGED <<file, memory, draft, history>>

\* The rest of initRun and run succeed, or fail.
StartEnds(t) ==
    /\ pc[t] = "select" /\ ~dangling /\ Activated # {}
    /\ startingUp' = FALSE
    /\ \/ up' = TRUE /\ configs' = generateUDPConfigs(Activated)
       \/ UNCHANGED <<up, configs>>
    /\ Goto(t, "idle")
    /\ UNCHANGED <<file, internalConfig, owned, dangling, draft, history>>

StopRequest(t) ==
    /\ pc[t] = "idle" /\ ~startingUp /\ up
    /\ up' = FALSE /\ configs' = {}
    /\ UNCHANGED <<file, internalConfig, owned, dangling, startingUp, pc, draft, history>>

Put(t) ==
    \/ PutRead(t) \/ PutOpen(t) \/ PutOpenFails(t)
    \/ PutClose(t) \/ PutCloseFails(t)

Start(t) ==
    \/ StartRequest(t) \/ StartInit(t)
    \/ StartRead(t) \/ StartReadEmpty(t) \/ StartReadThrows(t)
    \/ StartMissing(t) \/ StartDefault(t) \/ StartDefaultRefused(t)
    \/ StartDefaultClose(t) \/ StartDefaultCloseFails(t)
    \/ StartReset(t) \/ StartNoAdapters(t) \/ StartEnds(t)

Next ==
    \/ \E t \in Clients : Put(t) \/ Start(t) \/ StopRequest(t)
    \/ Restart \/ RemoveFile

Spec == Init /\ [][Next]_vars

-----------------------------------------------------------------------------
(* Properties.                                                             *)

\* The types of the file, of the members and of the requests in progress.
TypeOK ==
    /\ file \in Content \cup {NoFile, Empty}
    /\ internalConfig \in Content
    /\ {owned, dangling, startingUp, up} \subseteq BOOLEAN
    /\ {blindRead, damaged, handed, spoilt} \subseteq BOOLEAN
    /\ configs \subseteq [adapter : 1 .. NAdapters, reciever : BOOLEAN,
                          port : 0 .. Ports - 1, uid : 0 .. Uids - 1]
    /\ pc \in [Clients -> {"idle", "open", "close", "start", "read", "create",
                           "default", "reset", "select"}]
    /\ draft \in [Clients -> Content] /\ stale \in [Clients -> BOOLEAN]
    /\ owed \subseteq Names

Unset(c) == c.settings = Garbage \/ Junk \in c.names

\* Neither the file nor a run has a setting or a name that nobody asked for,
\* unless some read found nothing in the file: that read, by a request before
\* the first start, beside a write or of a file that it could not open, is the
\* only source of unset values, whatever is killed and restarted.
OnlyAskedFor ==
    blindRead \/ (/\ Readable => ~Unset(file)
                  /\ up => ~Unset(internalConfig))

\* The file is empty only while somebody writes it or after a crash in the
\* middle of that, however many requests write it at once.
EmptyOnlyMidWrite ==
    file = Empty => damaged \/ \E t \in Clients : Writing(t)

\* A name that a completed request has added stays in the file, over later
\* requests, starts and restarts, until somebody removes the file, or somebody
\* writes it who has read it before another one wrote, or could not open it or
\* found nothing in it.
CompletedPutsSurvive == Readable => owed \subseteq file.names

\* deactiveEverythingBut reads the names of a live vector, although
\* adapterNames and internalConfig share it.  A start frees the vector that it
\* is about to read only in a process in which a start could not open the file
\* (removed, locked, never created) after an earlier one had handed its names to
\* adapterNames, or in which two starts were under way at once.  Empty files,
\* reads that throw and writes that fail never lead there.
NamesAlive == dangling => spoilt

\* The sockets of a run do not collide where their numbers wrap: two
\* configurations share a port just when they are an adapter's sender and
\* receiver, and no two share a uid.
ConfigsDistinct ==
    \A c, d \in configs :
        /\ c.port = d.port <=> c.adapter = d.adapter
        /\ c # d => c.uid # d.uid
=============================================================================
