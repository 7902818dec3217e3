# Verification of the NetShare driver

TLA+ models of the NetShare VPN driver (`src/Treiber Winttun`) and of the command
line client that controls it (`src/NetShareCLI`), checked with TLC, and theorems about them proved with TLAPS.

## The system

The driver is a Windows daemon.  It listens on a TCP port for JSON requests, one
per line, and starts or stops a VPN on request.  While the VPN runs, packets
that applications send to the Wintun device are spread over UDP sockets, one
pair of threads per activated network adapter, and datagrams that arrive on the
sockets are handed to the device.

| component | state | operations | who calls it |
|---|---|---|---|
| Work queue (`Workqueue.cpp/.h`) | ring of packet pointers, `size`, `start`, `end`, `released`, a mutex, a condition variable | `push`, `popSize`, `popAll`, `releaseAll` | worker threads, `shutdown` |
| Tunnel workers (`WinTunLogic.h`, `UPDSocketWorker.cpp`) | the loop and the packet list of each thread; `conf->isRunning`, `conf->quitEvent` | `ReceivePackets`, `SendPackets`, `WorkSocket` as sender and as receiver | created by `run` |
| Application (`Application.cpp/.h`) | `exited`, `startingUp`, `crashed`, `conf`, `udpconfigs`, `Workers`, the open handles | `initRun`, `run`, `shutdown`, the console handler, the `atexit` hook | configuration server, Windows |
| Configuration server (`ConfigurationWorker.cpp`) | one thread per connection | requests on `driver.state`, `deamon.state`, `config`, `adapter.names`, `connection.state` | CLI, over TCP |
| Statistics (`diagnostics.h`) | packet and byte counters, a calculator thread | count, compute rates, log | worker threads |
| Adapter list (`NetworkAdapterList.h`) | the adapters with their activation, port and uid | enumerate, activate, generate socket configurations | `initRun`, `config` requests |
| Persistent configuration (`AppConfig.h`) | a file, and its copy in memory | read, write, default | `initRun`, `config` requests |
| TCP line sockets (`Socket.cpp`) | the socket, `nofSockets_`, Winsock's own count | `ReceiveLine`, `SendLine`, start-up, clean-up | configuration server, CLI |
| CLI (`src/NetShareCLI`) | none | `start`, `stop`, `kill`, `configure` | the user |

What is hard here:

* Threads.  Only the queue and the statistics have a mutex.  `isRunning`,
  `released` (on the entry of a pop), `exited` and `startingUp` are plain bools
  that several threads read and write.
* Shutdown.  `shutdown()` must reach threads that sleep in three different
  places (the condition variable, `select`, `WaitForMultipleObjects`), must not
  hang, and then frees what they used.
* Partial failure.  `initRun` can fail in five places, and each leaves
  different flags and handles behind for the next request.
* Check then act.  Every request reads flags, then acts on what it read, while
  another connection may do the same.  A request that changes the configuration
  reads the file, changes its copy and writes the file again.
* Counts.  Winsock counts its users, class `Socket` counts its own, and three
  places of the driver pay into one and take from the other in unequal numbers.
* Crashes.  The configuration file is truncated and rewritten in place, and it
  is read without a look at the result.

The hazards are listed with their lines in `PROJECT.json`; every property below
is aimed at some of them.

## Modules

    PacketQueue          what a queue promises: a bounded FIFO
      ^ implemented by
    Workqueue            the ring, the mutex, the condition variable
      WorkqueueProofs        its invariants, proved
      WorkqueueRefinement    that it implements PacketQueue, proved
    DataPlane            the worker threads, two PacketQueues, shutdown()
      MCDataPlane            symmetry of the adapters
      DataPlaneProofs        its safety, proved
    Application          initRun, run, shutdown() as steps of any thread
      ^ extended by
    ConfigurationWorker  the server: connections, lines, request handlers
      ^ extended by
    NetShareCLI          the client; the whole control plane
      NetShareCLIProofs      its safety for one thread at a time, proved
    Statistics           the counters and their calculator thread
      StatisticsProofs       its safety, proved
    Winsock              the daemon's sockets, handles, ports and counts
      MCWinsock              symmetry of connections, lists and handles
      WinsockProofs          its safety, proved
    Configuration        the file, the request that changes it, initRun's use of it
      MCConfiguration        symmetry of the connections
      ConfigurationProofs    its safety, proved

`DataPlane` does not repeat the ring: it instantiates `PacketQueue` twice
(`SendQ`, `RecvQ`), and `Workqueue` is shown to implement that module.
`Application` does not repeat the worker loops: it knows workers as alive or
not, and assumes that told-to-stop workers end, which is `ShutdownCompletes`
of `DataPlane`.  `Statistics`, `Winsock` and `Configuration` each take one
resource that threads share, with all the code that touches it; what the rest of
the driver does is in them a choice between success and failure.

### Workqueue

A section of code under the mutex is one action.  A call of `popSize` or `popAll`
is several: it reads `released` without the mutex (`Call`), wants the mutex
(`pc = "locking"`), and either sleeps (`Wait`), returns packets (`ReturnList`) or
returns the null pointer (`ReturnNull`).  `SpuriousWakeup` may happen at any
time.  The caller's size variable is part of the state, because the early return
on `released` leaves it unset: then it is any value.  `Copied` is the pair of
`std::copy` calls.  `push` is `Push` or, on a full ring, `Drop`.

### DataPlane

A behaviour begins when `run` has created the threads.  Each thread has its own
`pc`, with a value for every place between two reads of shared state.  Results
of Wintun and Winsock calls are chosen from those that the code tells apart:
a packet, nothing, an error for the device; accepted, would block, an error for
`sendto`; a timeout, a datagram, nothing, an error for `select` and `recvfrom`.
`shutdown()` is twelve steps in the order of the code, so that every worker step
can fall between any two.  Packets are numbers in the order of reading.

### Application, ConfigurationWorker and NetShareCLI

`initRun`, `run` and `shutdown()` are sequences of steps of the thread that
calls them; nothing is locked, so the steps of two threads interleave.
`Fault` ends the process when the next step would look into a null pointer or
into freed memory.  The successful path of `initRun` has no `return`
(`Application.cpp:189`), so the caller sees any value.

A request handler is likewise a sequence of steps: a test of `isStartingUp`, a
test of `isRunning`, the call, the answer.  Every line it sends is a record
with its type ("Update" or "Response") and its state.  A connection is two
sequences of lines (`asks`, `lines`) and the set of its open ends (`link`);
`Window` bounds the lines in it, and a sender waits while it is full.  An end that
closes with lines unread may reset the connection, which loses what the other
end has not read (`ReadNothing`, `Disconnected`).

The client, which the user may end at any moment (`Interrupt`), sends one
request, reads lines until the connection ends, prints each state and asks for
the end of the connection after every response.

The console handler runs in a thread of its own (`handleCtrlSignal`).  It acts on
two signals: Ctrl-C calls `exit`, a shutdown of the system calls `shutdown()`.
Ctrl-Close, Ctrl-Break and logoff it only reports, and then Windows ends the
process, as it does on any signal while no handler is set and when the handler
takes too long over a system shutdown (`ConsoleEnds`).  Neither `shutdown()` nor
the `atexit` hook runs then: the process ends under living workers, at any step
of any thread, and `proc` is "ended" and not "exited".

### Statistics

A worker takes the mutex (`Lock`), loads a counter and stores the sum (`Load`,
`Store`).  A sender has called `sendto` before that (`SendTo`), which accepts the
datagram or refuses it, and looks at the result only afterwards: so a refused
datagram is counted, again at each retry.  The calculator's loop is `Timeout`, two copies, two clearings and `Total`, none of
them under the mutex.  `shutdown()` takes the mutex, sets the promise, joins the
calculator and deletes the thread object, all with the mutex in its hand.
History variables say what was really counted (`calls`, `counted`), what was
passed to `sendto` (`accepted`, `refused`) and which direction a race has touched (`raced`).

### Winsock

`wsa` is Winsock's count, `nofSockets_` the one of class `Socket`, whose `++` and
`--` are a load and a store each.  A handle has an owner and a bound port; a
closed handle may be handed out again at once, which matters because
`closeSockets` closes each handle twice.

Each connection's thread handles a request in steps of its own (`hpc`), and no
step keeps another thread away: the handler tests `startingUp` (`StartTest`,
`StopTest`) and `exited` (`StartGoesOn`, `StopGoesOn`), `initRun` sets one flag and
then the other, `shutdown()` tests `exited` (`ShutdownTest`) and sets it later
(`ShutdownExited`).  So two starts, a start and a stop, or two shutdowns overlap
in every order.  A start makes a list of configurations (`NewConfigs`), opens a
socket per adapter (`InitSocket` or one of its failures) and only then puts the
list into `udpconfigs`, over whatever is there (`InitDone`); it may fail after that
and forget its open sockets (`StartFails`).  `shutdown()` reads `udpconfigs` when it
closes the sockets, and again when it deletes the list.  A thread that meets no
list or a deleted one may end the process (`Fault`), or goes on with a list that is
empty, as a vector's destructor leaves it.

History variables remember the lost update (`raced`), the shutdown of a list
without a socket (`blind`), of one list twice (`again`), that two requests were at
work at once (`overlapped`), and the ports of failed starts (`leaked`).

The module leaves out what overlapping requests do to `conf`, to `Workers` and to
the second list of references, all of which could only end the process earlier or
keep a thread waiting: its behaviours include the code's.  A deleted list's memory
is not handed out again.  The console signals bring no new step: Ctrl-C and a
system shutdown call `shutdown()` as a kill does, the others end the process.

### Configuration

A request on `config` reads (`PutRead`), truncates (`PutOpen`) and writes
(`PutClose`); `initRun` opens the file, reads it, or, when it cannot be opened for
whatever reason (`StartMissing`: never created, removed, locked), writes the default
over it, hands the vector of names over to `adapterNames` (`StartReset`) and
derives the socket configurations (`deactiveEverythingBut`,
`generateUDPConfigs`).  The process may die and be started again at every step
(`Restart`), the file may be removed (`RemoveFile`), it may not open for reading or
for writing whether it exists or not, and a write may fail on closing.  What a read
leaves in its variables when there is nothing to read is a value that was never
set (`Garbage`, `Junk`).  The settings of a content are one value, its names a set.
The socket configurations are a set, too: the order of the list matters only for
the numbers that its members get, and `Number` says which configuration comes
where.

`TakenFrom` is the loop over the names of a request, which ends halfway because
it compares its index with the size that `PopBack` shrinks.  Whether rapidjson's
`PopBack` on a `GenericArray` yields the name at all depends on its version,
which is not in the repository, so `Added` allows none, too.

## Runs

| run | shows |
|---|---|
| `sending_queue` | Ring of four slots, two `popSize` threads, two packets in any number of pushes.  The counters agree (`RingConsistent`); no packet stays while everybody sleeps (`NoStrandedPackets`); nobody sleeps after the release (`NobodyWaitsAfterRelease`); the ring implements the FIFO, with its fairness. |
| `receiving_queue` | The same refinement for one `popAll` thread. |
| `outbound` | Device to sockets with two adapters: every packet is sent at most once, in order per adapter, also when `sendto` would block (`SentOnceInOrder`). |
| `inbound` | Sockets to device: the packets of a socket arrive once and in order (`DeliveredOnceInOrder`). |
| `shutdown` | No worker reads the null list that a released queue returns (`NoNullList`); nothing is freed under a worker (`NoUseAfterFree`); shutdown ends (`ShutdownCompletes`); queued packets are sent (`QueuedPacketsAreSent`). |
| `one_client` | The whole control plane, one client after the other, with every failure: "stopped" is only told when it is so (`StoppedMeansStopped`); "running" is told when workers run or when all is shut down again (`RunningOrAllDown`); there is one set of workers and it has all it needs; starts and stops never fault (`OnlyEndingFaults`); the daemon does not exit under its workers, unless Windows ends it (`ExitAfterWorkers`); a client prints the result of its request although it asks for the end of the connection too early (`ResultIsPrinted`), and ends (`EveryClientEnds`). |
| `statistics` | Two senders, a receiver, a writer to the device, the calculator and two threads that shut down.  No count of a packet is lost, and the count of UDP packets is that of the calls of `sendto`, refused ones included, less one for each sender that has not counted yet (`PacketsExact`); bytes are lost or counted twice only by the race of a worker's `+=` with the copy and the clearing (`ExactButForRaces`); the promise is set once and the thread is joined once (`EndsOnce`); `shutdown()` returns although it joins with the mutex held (`StopReturns`). |
| `winsock` | Two connections whose starts, stops and kills overlap, with every failure.  The listening socket is lost in three ways only: a lost update of `nofSockets_`, the shutdown of a list without a socket, a list that two shutdowns go through (`ListenerLostOnly`).  While nothing runs and nobody starts or stops, only failed starts have left ports bound, unless two requests once overlapped (`StopClosesSockets`). |
| `configuration` | Two connections that change the file and start the driver, with crashes, failing writes and a file that may be gone or locked.  Values that nobody asked for come only from a read that found nothing (`OnlyAskedFor`); the file is empty only during a write or after a broken one (`EmptyOnlyMidWrite`); what a completed request has added stays unless a request did not read it (`CompletedPutsSurvive`); a start reads names of a live vector, except in a process where a start could not open the file after an earlier one had handed its names over, or where two starts overlapped (`NamesAlive`); ports and uids do not collide where they wrap (`ConfigsDistinct`). |
| `two_clients` | Violation: with two connections "stopped" is told while workers run. |
| `startup_ends` | Violation: after a start without an activated adapter the driver is starting up for ever. |
| `listener_lost` | Violation: the stop of a run whose only socket could not be opened closes the listening socket of the daemon, and the next `accept` throws. |

### Other divergences met on the way

They are part of the models, and excluded from the properties where they bite:

* When the console handler cannot be set, `run()` shuts down, goes on, and the
  client is told "running" (`Application.cpp:37`; `RunHandlerFails`).
  `RunningOrAllDown` says what holds then.
* Ctrl-Close, Ctrl-Break and logoff end the process without `shutdown()`
  (`Application.cpp:391`; `ConsoleEnds`): `ExitAfterWorkers` is about the ends that
  the daemon brings about itself.
* Of two starts that overlap, the later one replaces `udpconfigs`, and the first
  one's sockets are never closed (`Application.cpp:142`); two shutdowns that overlap
  take back more from Winsock's count than the run paid in
  (`Application.cpp:216`).  `StopClosesSockets` excuses the first by `overlapped`,
  `ListenerLostOnly` the second by `again`; TLC finds a counterexample when either is
  left out.
* A start, a stop, and a start that cannot open the file: `adapterNames.reset` gets
  the pointer that it owns already, and frees the names (`Application.cpp:99`;
  `NamesAlive` excuses it by `spoilt`).
* After a failed start that leaves `exited` false, the request that ends the
  daemon calls `shutdown()` on members that were never set, and the process dies
  before it answers (`Fault`; `OnlyEndingFaults` says that only such requests do
  that).
* The same request does not wait for a start that is under way, although the
  CLI says so (`KillDeamon.cpp:70`): `isRunning()` is true as soon as `initRun` has
  begun.
* The request for the adapters' names is never answered
  (`ConfigurationWorker.cpp:167`): the client of `configure` and the daemon wait for
  each other until the user ends the client.  `EveryClientEnds` is about the
  others.
* The request on `config` looks for its members in the document and not in its
  `data`, answers nothing, and takes at most half of the names.

### Bounds

* Ring: capacity 4 leaves three usable slots, so a batch of two can be smaller
  than, equal to and larger than what is queued, and lists wrap around the end at
  each position.  The queue's state is finite without a bound on the number of
  pushes, so runs of any length are covered.  The theorems remove the bound.
* `DataPlane`: `MaxTun` and `MaxNet` cap the packets of a behaviour.  Three
  outbound packets against a queue of two and batches of two give full queues,
  drops, partial batches and two senders with packets in hand at once; two
  inbound packets are enough to overtake one another.  `RunFor` (11 in the code)
  is 1 or 2, which reaches the wait for the device on both sides of the count.
  Each direction has its own safety run, because the directions share only the
  control state; `shutdown` runs both together with one adapter.
* `NetShareCLI`: two `Config` objects, since a new one is made while at
  most one old one has live workers; one thread for the sequential runs, two for
  the concurrent ones.  The number of requests is not bounded.  `Window` is 3,
  one less than the longest answer (`kill` of a starting driver), so that a
  sender does wait for a slow client.

* `Statistics`: three packets of size one are enough for a load before and a
  store after each step of the calculator, and for two loads of one counter; a
  second call of `shutdown()` comes from the other thread.
* `Winsock`: two connections, so that one ends while the next is accepted, and
  two requests overlap; one adapter; two lists, so that a start comes after or
  beside another; four handles, so that a closed one is used again.  `MaxWsa` and
  `MaxSockets` stop the counts, which leaked sockets and lost updates would drive
  up for ever, above two.  The constraint `Undecided` cuts off a behaviour once its
  history excuses it from both safety properties: the excuses are never
  taken back, so no later state could violate one.  (It cuts the states in which
  `TypeOK` is checked, too; the theorem covers those.)  The same run without the
  constraint (13.0 million states), with two adapters (21.0 million) and with three
  lists (7.7 million) passes as well; it takes longer than a routine check
  should.
* `Configuration`: two connections, two adapters and a name that is none;
  requests of up to two names, where the loop takes one.  Ports are 0 to 3 and
  begin at 3, uids 0 to 3: the second adapter's port wraps and the uids are used
  up, as with the seventh adapter and the 128th of the driver (65530 in 16 bits, 8 bits).
  The number of requests, starts and restarts is not bounded.

Symmetry is used only in safety runs, for adapters, connections, lists and handles.  Deadlock is checked in
every run; the end of a run of the driver is an explicit stuttering action
(`Down`, `Gone`, `Ended`, `Idle`, `Terminated`).

### Fairness

* `Workqueue`: a thread that wants the mutex gets it; a worker that has packets
  finishes and calls again, as its loop does.  Producers, spurious wake-ups and
  the release are not fair.
* `DataPlane`: each thread is scheduled; `select` has a timeout of a second, so
  it returns; a socket does not answer "would block" to the same datagram for
  ever (`SndWouldBlock` is outside the fair step).  That last one is an
  assumption on the network: the retry loop does not look at `isRunning`, so
  `shutdown()` would wait for a socket that never unblocks.  Nobody need call
  `shutdown()`, and the device need not yield anything.
* `NetShareCLI`: a daemon thread with something to do is scheduled, a client
  reads what has arrived, and workers that were told to stop end.  Nobody need
  invoke a client, and console signals need not come.

* `Statistics`: the threads are scheduled, the calculator's wait ends after a
  second, and the mutex is not given to others for ever.  Nobody need count a
  packet or call `shutdown()`.

## Proofs

Checked by `tlapm`: 31 results, one for every safety property that a run checks,
each for every value of the constants that the modules' `ASSUME`s allow.  In
every proof module the inductive invariant is a conjunction of named parts, each
with a lemma per group of actions, and the theorems at its end are what follows.
TLC has checked each of these invariants on the instances of the runs.

### Workqueue

For every capacity of at least two, every batch size of at least one, every
finite set of consumers and every set of packets.

* `TypeCorrect`, `RingCorrect`.  The inductive invariant is the conjunction
  `TypeOK /\ RingConsistent`: neither part is inductive alone.  That a push
  stays inside the ring needs only the types, but that a pop returns packets,
  which `TypeOK` says of `list`, needs `RingConsistent`; and that in turn needs
  the bounds on the indices for its modular arithmetic.  The lemmas about
  `Slot` and `Copied` carry the arithmetic, case by case on the wrap.
* `NothingStranded`, `ReleaseWakesEveryone`.  The invariant is the conjunction
  of both properties on top of the first one.  The point of the argument: a
  waiter exists only while `size` is at most the number of threads on the way to
  the mutex, so a push that adds one packet and moves one waiter keeps it, a pop
  removes one thread and at least one packet, and a thread that goes to sleep
  does so on an empty queue.
* `Refinement`: `Spec => ImplementsQueue`.  The mapping reads the live part of
  the ring as the queue (`content`) and the returned calls as results
  (`results`).  `Push`, `ReturnList`, `ReturnNull` and `Call` on a released queue,
  `Use` and `releaseAll` are the abstract steps; `Drop`, `Wait`,
  `SpuriousWakeup` and the other half of `Call` stutter.

### DataPlane

For any set of adapters, any number of packets, any bound of the queues and any
batch size; the only assumption beyond the ranges of the numbers is that the
null pointer is no list of packets (`NullAssumption`).

* `DataPlaneNoNull`, `DataPlaneNoUseAfterFree`, `DataPlaneTypes`.  `Phases` says
  what has happened at each step of `shutdown()`: a queue is released only after
  `isRunning` is false, and past `clearWorkers` all workers are done, so that
  what is freed is nobody's.  `Lists` says that a worker holds the null pointer
  only when its queue is released, so that its test of `isRunning` fails before
  it looks into the list.  `ResultTypes` is what `TypeOK` leaves open about the
  results of a pop, `Pushing` that a worker on its way to push holds a packet.
* `DataPlaneSentInOrder`.  `SendOrder` puts the packets in a line: what an
  adapter has sent is older than what it holds, that is older than what is
  queued, that is older than the one being pushed; and no packet is in two
  places.  A queue hands out its oldest packets, so a batch is newer than
  everything sent before by the same sender, although senders overtake each
  other.  The case that needs care is a datagram that `sendto` refuses: the
  index does not move, so the packet stays the oldest one in hand.
* `DataPlaneDeliveredInOrder`.  `ReceiveOrder` says the same of each socket
  separately, since the receivers share a queue but not an order.

### NetShareCLI

`NetShareCLITypes` holds for any set of threads.  All else has the hypothesis
`OneThread`, that one thread at a time calls into class `Application`, a
connection or the console handler: run `two_clients` shows that it fails with
two, as nothing there is locked.  Requests, all five console signals, failures on the way
up, the value that `initRun` forgets to return, the size of the connection's
window, the moment at which a client is ended and the number of `Config` objects
are arbitrary.

* `AppInv` says what holds of the members at each place where the thread can be
  (`AtHandler`, `AtStart`, `AtShutdown`), and that it came there by the request
  which it handles (`Labels`).  Between two requests (`Resting`) the driver is
  stopped, or running with everything in place, or halfway up with `startingUp`
  set; the third is why a later start or stop does not touch what a failed start
  has left, and why a request that ends the daemon does.  From it follow
  `NetShareCLIOneSet`, `NetShareCLIWorkers`, `NetShareCLIExit` and
  `NetShareCLIFaults`.  The end that Windows brings about (`ConsoleEnds`) changes
  nothing but `proc`, from any of these places; `NetShareCLIExit` does not speak of
  it, and `NetShareCLIPrinted` excepts it, since the client's connection ends with it.
* `NetShareCLIStopped` and `NetShareCLIRunning` are action properties.
  `OnlyHandlersSend` and `WhoAnswers` find the handlers that can have sent the
  answer, and `AppInv` says what holds there.
* `NetShareCLIPrinted`.  `ClientInv` says for a client that has not printed its
  result how far its connection has come: the request is on its way, or progress
  has been reported, or the result is among the lines, with only progress before
  it.  For a stop `StopCourse` lists the combinations.  The two
  facts that the code relies on without saying so: the daemon reads the early
  request for the end of the connection only after the second response, as it
  reads no line while it handles one; and it closes its end only with
  nothing left to read, so that no reset loses that response.

### Statistics

For any finite sets of workers and of threads that shut down.
`Exclusion` is the mutex: at most one thread is between taking and giving it
back.  `Loaded` says that a loaded value is still that of the counter, for bytes
unless the direction is `raced`; `SentCounted` relates each sender's place to what it
has passed to `sendto` and counted; `CopyCurrent` says that the calculator's copies are what it is about to
add and clear; `Ending` counts the callers past the promise.  From these:
`StatisticsPackets`, `StatisticsBytes`, `StatisticsEnd`, `StatisticsTypes`.

### Configuration

For any sets of connections and settings, any number of adapters and names per
request, and any widths.

* `ConfigurationEmpty`, `ConfigurationSurvives`.  `Drafts` says that a draft which
  is not stale contains what the file owes, and that a start which found no file
  and is not stale overwrites nothing that is owed.
* `ConfigurationAsked`.  `Asked` extends the property to the drafts and the
  starts in progress.
* `ConfigurationNames`.  `Ownership` says that, unless a start was `spoilt`, at most one
  start is under way, and `adapterNames` does not own the vector of names while a
  start is on its way to hand it over: a start that has read the file has made a
  new one, and one that could not open it is the first to hand names over.
* `ConfigurationDistinct` has the hypothesis that there are no more adapters than
  ports and no more than half as many as uids (2^16 and 2^8 in the driver: 128
  adapters).  `Number` is injective on the active adapters, as the active
  ones below an adapter are fewer than those below a later one, and remainders
  of numbers less than a modulus apart differ.

### Winsock

For any finite sets of connections, handles and lists, any number of adapters and
any bounds of the counts; starts, stops and kills of all connections interleave
step by step.

* `WinsockListener`.  `Counting` says that without a lost update `nofSockets_` is one
  more than the connections counted in, so that a connection that ends never takes
  it to zero.  `Pending` is the set of sockets that `initSocket` has paid for in lists
  that no shutdown has gone through; `ListenerKept` says that, short of the three
  excuses, `wsa` is at least one more than there are of these, and that neither a
  connection nor a list of any thread holds the listening socket's handle.  A
  shutdown takes one from `wsa`, and its list, with at least one socket and not
  shut down before, drops out of `Pending`: so the count stays above zero, whoever
  else is starting or stopping.  That several threads fill, replace and close lists at
  once matters to no part of this argument, which is why the overlap as such is
  no excuse in the theorem.
* `WinsockPorts`.  `Alone` says that, without an overlap, one thread at a time starts
  or stops, and `exited` and `udpconfigs` are as that thread's `initRun` has set
  them.  `PortsKnown` then says of every bound port whose it is: one that a failed
  start has left, one of the run that is up, or one that the active thread holds,
  in the list that it fills or in the part of the list that `closeSockets` has
  yet to reach (`Holder`).
* `Threads` says that a thread at work on a list has one.

### Only model-checked

Everything about liveness and fairness is out of the prover's reach:
`ImplementsFairQueue`, `ShutdownCompletes`, `QueuedPacketsAreSent`,
`EveryClientEnds`, `StopReturns`.  So are the three violations, which are
counterexamples.

## Not modelled

* `Workqueue::pop()`: no caller, and its own comment says not to use it.
* Memory: who deletes a packet, and exceptions of `new`.
* Enumerating the adapters: a system call.  An adapter that is named and not
  up is activated all the same, because `deactiveEverythingBut` overwrites what
  `isViable` found; the models know only the name.
* The double release of shared pointers that were copied into the threads with
  `memcpy` (`Application.h:97`), and the double deletion of the names at the end
  of the process.
* The getters of the statistics, which narrow to `int`, and the log.
* The JSON of the protocol: a line is what it asks or tells.
* Wintun binding, logging and profiling: calls into the operating system and
  pure output.
* The other projects of the repository: experiments with the OpenVPN TAP driver
  around a vendored copy of OpenVPN (`src/Treiber/lib`), which the repository's
  `README.md` no longer describes.
* Third-party code that makes up most of the repository's lines: CLI11 (twice),
  the OpenVPN copy, minitrace.  Of about 4,500 lines of the driver and the
  client themselves, what is left out is the list above, `log.cpp`, the Wintun
  binding and `minitrace.h`.

A crash of the process loses everything but the configuration file:
`Configuration` restarts on what the crash has left, the other models end with
the process.

## Plan

All safety properties of the runs are proved.  What is worth adding:

1. That `NetShareCLI` implements, for one thread at a time, an abstract life
   cycle of the driver (stopped, starting, running, stopping, halfway up), with
   `AppInv` as the invariant of the refinement.
2. What holds of class `Application` with any number of threads, beyond the
   types.
