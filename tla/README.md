# The watchdog, specified

ProcessManagerWatchdog is a TCP server. Programs of two kinds, *modules* (port
1234) and *services* (port 1235), connect to it, say who they are, and ping;
the watchdog keeps in MongoDB, for every program that is registered, whether it
is connected. This directory holds TLA+ modules of that server, TLC
configurations that check them, and TLAPS proofs. All paths below are relative
to `src/Source`.

To check: `tlc -config <run>.cfg <Module>.tla` for a run of the table below,
`tlapm <Module>Proofs.tla` for the proofs.

## 1. The system

| Component | State it keeps | Operations | Modelled in |
|---|---|---|---|
| Module connections (`src/WatchdogConnection.cpp`, `src/WatchdogModuleRequestsHandlers.cpp`) | identifier and sequence code, socket, timer | Connect, Ping, Reconnect, Shutdown, `disconnect()`, `onTimerExpiration()` | `ProgramConnection`, `ModuleConnection` |
| Service connections (same file, `src/WatchdogServiceRequestsHandlers.cpp`) | the same, not initialised | the same | `ProgramConnection`, `ServiceConnection` |
| Records (`src/Mongo*Collection.cpp`) | one document per program: identifier, address, state | find, insert, delete, replace one, mark all | `ProgramRecords`, `ProgramCollection` |
| Reading (`include/Connection.hpp`) | one buffer, one outstanding read | header, body, handler, next header | `TcpConnection`; as one variable in `ProgramConnection` |
| Sending (`include/Connection.hpp`, `include/MessageQueue.hpp`) | queue of messages, flag `sendingInProgress` | `sendMessage()`, handlers of the writes | `MessageSending`, `TcpConnection` |
| Ping timer and clock (`include/Connection.hpp`, `src/WatchdogConnection.cpp`) | the wait, `last_ping` | arm, expire, cancel, compare | `PingTimer`; its interleaving in `ProgramConnection` |
| Acceptors (`src/WatchdogAcceptor.cpp`) | the acceptor, the next connection object | bind, accept, accept again | `WatchdogServer`; `Accept` of the connection modules |
| Server and start-up (`src/WatchdogServer.cpp`, `src/WatchdogMain.cpp`, `src/Watchdog.service`) | three threads, two maps of database clients | mark records, accept, start threads, fill maps, join | `WatchdogServer` |
| Identifiers (`src/Types.cpp`) | none | predicates and conversions on 4 bytes | `ProgramIdentifiers` |
| Database environment (`src/MongoDbEnvironment.cpp`) | the configuration, the pool of clients | read, ping the database, hand out clients | its outcomes, in `WatchdogServer` |
| Logging, message layouts, protocol buffers | | output, generated code | not modelled |

How they interact. `main()` reads the configuration, asks the database for a
sign of life, marks all Connected records Disconnected, makes the acceptors
accept, starts three threads and then gives each its database clients. An
acceptor makes a connection object and starts its first read (for a module also
a three second wait). Everything after that is a completion handler of
boost::asio: three threads run one `io_context`, there is no strand, so the
handlers of a read, of a write and of a timer of *one* connection may run at the
same time. The handler of a message reads and writes the record of a program
with two database commands, queues a reply, arms the timer and starts the next
read. `disconnect()` may be called by any of the three kinds of handlers,
several times. A connection object lives as long as some outstanding operation
holds a pointer to it, and a thread as long as there is a connection or a
pending accept.

What is hard in it, and the property each difficulty asks for (every hazard,
with its line, is in `PROJECT.json`):

* *No lock around `authenticationData`.* What keeps two message handlers of a
  connection apart is only that the next read starts when a handler is done:
  `HandlerOwnsConnection`, and in detail `OneReader`.
* *Check, then write, in two commands.* Two Connects, a Connect and a
  `disconnect()`, a Shutdown and a `disconnect()` cross each other. The record
  must not stay Connected when the program is gone: `ConnectedIsGuarded`,
  `ClosedIsRecorded`; and a write may overwrite what it never saw, but only if its
  own look allowed it: `ImplementsSessions`. The second command writes the address back, too:
  `AddressIsWhole`, `PortIsNewest`.
* *Crashes* between any two steps, of handlers and of the start, repaired only
  at the next start: `ConnectedIsGuarded`, `ConnectedIsWatched`,
  `FailureIsRepaired`.
* *A start in the wrong order*: accepting before there are threads, threads
  before there are database clients: `BlindWhileStarting`.
* *Accepts that fail*, and end accepting for good: `OpenIsServed`.
* *Release of connection objects* with three kinds of handlers outstanding, and
  a module's `disconnect()` that cancels the wrong timer: `ClosedIsReleased`, and
  step by step `ClosedWindsDown`.
* *The chain of reads and the send path*, which run on the same threads: a
  buffer that is moved away in time, a queue and a flag that are each safe and
  together are not: `RequestsInOrder`, `AnswersInOrder`, `KeepsOneSender`,
  `OneWriter`, `SendsInOrder`, `StartedIsDelivered`, `RequestsAreHandled`.
* *The meaning of a timer handler*, which must tell a ping from silence by a
  local time stamp that only timer handlers set, in a comparison of a signed
  difference with an unsigned interval: `PromptIsKept`, `SilenceIsNoticed`.
* *Numbers that are too large* for an identifier, and an `insertOne` that stores
  whatever it is given: `RecordIsOfOneProgram`.

## 2. The modules

```
ProgramIdentifiers          conversions on four bytes
  ProgramCollection         the documents          --refines-->  ProgramRecords

ProgramRecords              the database, as connections see it
  ProgramConnection         connections, threads, handlers; properties
                                                 --refines-->  ProgramSession
    ModuleConnection          MCModuleConnection, MCModuleHistory
    ServiceConnection         MCServiceHistory

MessageSending              the send path          --refines-->  OrderedChannel
  TcpConnection             reads, handlers, sends --refines-->  MessageSending
                                                   --refines-->  OrderedChannel
PingTimer                   the clock of one connection
WatchdogServer              the process, its threads, its restarts
```
The theorems are in `ProgramConnectionProofs`, `ModuleConnectionProofs`,
`ServiceConnectionProofs`, `MessageSendingProofs`, `TcpConnectionProofs`,
`PingTimerProofs`, `WatchdogServerProofs` and `ProgramCollectionProofs`.

### ProgramRecords

`records[id]` is the state of the document of program `id`, or `"Missing"`.
Each operator is one command, hence atomic. `updateProgram` on a document that
has been deleted since it was read changes nothing and reports success, as an
acknowledged `update_one()` does. `NoIdentifier` stands for 0 and -1, the
identifiers of a connection that is not authenticated: no document has them,
and `disconnect()` does the same with both.

### ProgramIdentifiers, ProgramCollection

An identifier is a 32-bit integer whose top byte is the kind of the program.
`ProgramIdentifiers` has every function of `src/Types.cpp` on integers; the
assignment in `canBeModuleIdentifier` where a comparison was meant makes it
constantly true, but nothing calls it: a number that does not fit becomes -1.

`ProgramCollection` is one collection with all fields of its documents and every
command that changes one. A handler's `getProgram` and `updateModule` or
`updateService` are two steps with a copy in between; the copy of a module has
IP and port, that of a service has no port, because `viewToServiceRecord` does
not read it and `updateService` does not write it. `insertOne` asks nothing: not
whether the document is there, and not what the identifier is, so that the
record of -1 may come to be. The registrar, which is not part of the watchdog
(`Registers`), numbers programs as it likes, inserts no identifier that is
there, deletes and registers anew. `ImplementsRecords` says that, of the states
alone, each command is a command of `ProgramRecords`: the connections may be
modelled without the other fields, and, as no handler distinguishes -1 from 0,
without the record of -1. `setAllAsRegistered` and `drop`, which the
watchdog never calls, are the two steps `ProgramRecords` does not have.

### ProgramConnection, ModuleConnection, ServiceConnection

| Variable | In the code |
|---|---|
| `running` | the process exists |
| `socket[c]` | `socket->is_open()` |
| `reader[c]` | the chain of reads: `reading` (a read is outstanding), `failing` (a read started on a closed socket), `handling` (a message handler runs), `idle` |
| `identifier[c]` | `authenticationData.identifier` |
| `waiting[c]`, `due[c]` | an `async_wait` is outstanding; handlers of ended waits that have not run |
| `writing[c]` | a write is outstanding |
| `task[t]` | the handler a thread of the pool is in the middle of, cut at the database commands and between the look at the socket and the write of a reply |
| `abandoned` | history: records that, by what the code does, no connection answers for any more |

An action is a handler, or the part of one between two database commands: the
look at the record (`ConnectAccepted`), the write (`ConnectWrites`), the rest
(`SessionGranted`: timer, reply). A reply that is not left in the queue is one
more step: `sendMessage` has seen the socket open and nobody writing, and
`StartsWriting` begins the write, without a second look, and the next read; a
`disconnect()` of another thread may come in between, so that a write begins on
a closed socket. Otherwise a handler without a command, such as a ping, is one
action; what they touch is touched by no other handler at the
same time (this is `HandlerOwnsConnection`), or is one call on the timer or the
queue. `disconnect()` has three steps: the look (`ReadFails`, `WriteFails`,
`PingIsMissing`), the write (`DisconnectWrites`), the close (`Close`).

The two classes share the code line by line, and the TLA+ that is shared is
`ProgramConnection`. What differs: `Accept` (a module starts without an
identifier and with a wait, a service with *any* identifier, because
`serviceAuthenticationData` is uninitialised, and without a wait); `Close` (a
service cancels the wait, a module cancels another timer); exceptions of the
database (caught by `catch (...)` for a service: `WriteThrows`, `GrantThrows`;
uncaught for a module, where they end the process: `Crash`).

Left to choice: a ping is answered or dropped (sequence codes; the code 0 of a
new connection can be pinged with, so both are possible from the start), a
timer handler finds the ping recent or missing (time is in `PingTimer`), a reply
is about to start a write or only queues (the queue and the flag are in
`MessageSending`; the model has no flag, and takes nobody writing for a clear
one).

### ProgramSession

What the handlers of all connections together promise about the record of *one*
program. A writer (a thread) looks at the record and gets an intent the record
allows: Connected for an unconnected program, Disconnected for a connected one,
Registered for any; some time later it writes, or gives up. Other writers may do
the same in between, so the Disconnected of a `disconnect()` may overwrite the
Registered of a Shutdown: no text says which should win. What is promised is
that nobody writes without having looked, that no intent outlives the process,
that no write restores a record that was deleted, and that nobody writes another
record than the one it looked at. The refinement mapping (`Session(id)`) takes
`records[id]` for the record and, for the intent of a thread, the state which the
step of its task is about to write, if the task is about `id` (`IntentTo`).

### MessageSending, TcpConnection, OrderedChannel

`MessageSending` is one connection's queue, flag and writes. Every look at the
queue, at the flag and at the socket is a step, because the queue has its own
lock and the flag is atomic and nothing makes two looks one. Its one rule is
that `sendMessage()` has one caller at a time (the guard of `Push`). One order of
steps calls `front()` of an empty queue: the message has been sent by another
thread since it was pushed, and the flag cleared. That is undefined, and the
behaviour ends there in the step `undefined`.

`TcpConnection` composes it with the other half of the class: the reads of
header and body (`reads`, `incoming`), the message handlers (`stage`, `message`)
and the next read, on the same threads and socket. It calls `Pushes`, without
the rule, and shows that the chain of reads establishes the rule
(`KeepsOneSender`: every behaviour is one of `SendingSpec`). `IsDeaf` is the one
way to end the chain without `disconnect()`: a header that announces an empty
body. `OneReader` has two halves: there is never more than one read or handler
(`AtMostOneReader`), and, on an open connection that was not sent such a header,
there always is one (`AtLeastOneReader`): no reply, exception or write error
makes the connection stop reading. A read that fails has two steps, because
`disconnect()` goes to the database before it closes the socket: after
`ReadFails` nobody reads from a socket that is still open, and the thread in
that `disconnect()` is the one who ends this (`Closes`).

`OrderedChannel` says what either end may expect: messages arrive in the order
they were handed over, each at most once. It is implemented twice, by the
replies (`SendsInOrder`) and by the requests (`RequestsInOrder`). `AnswersInOrder`
ties the two together.

### PingTimer

One connection and its clock. A ping does not touch `last_ping`: it re-arms the
timer, the wait that was outstanding ends with an error nobody looks at, and its
handler, up to `MaxLatency` later, compares `last_ping` with now and then sets
it. `age` is now - `last_ping`, `silence` is now - the last accepted request,
`due[l]` counts the handlers queued `l` units ago. `kind` chooses a module or a
service. `Tick` lets a unit of time pass unless a handler is already
`MaxLatency` late, a wait is over, or a living program's request is due. The
timer keeps steady time, `last_ping` is a local time: `ClockIsSet` moves `age`
alone, to any value, below 0 too.

`total_milliseconds()` is signed and `PingTimerExpirationIntervalInMilliseconds`
a `size_t`, so the comparison is unsigned: a negative difference is a huge
number, and the program is disconnected as if it had been silent for ages.
`IsRecent` says so: a difference is recent in `0..ExpirationInterval - 1` only.
Differences are negative when the clock is set back, and also with a steady clock
when two handlers of one connection cross: one reads now, another sets
`last_ping`, the first subtracts. So a handler that was queued `l` ago may have
read now at any time since, and `Differences(l)` has what it may compare.

Two history variables serve the properties. `prompt`: the first request came in
good time, no request came while a handler was still to run, and the clock has
not been set; or the first handler after such an event has kept the program and
left no other handler behind. `slow`: since the last request, a handler set
`last_ping` later than the wait it belongs to had ended, or the clock was set, or
`last_ping` lay ahead.

### WatchdogServer

| Variable | In the code |
|---|---|
| `configured` | there is a configuration file that can be read |
| `phase` | the statement `main()` is at; `returned` 0, or `failed` |
| `acceptor[k]` | not made (port taken), `bound`, `accepting`, or `deaf` after an accept that failed |
| `worker[t]`, `client[k]` | a thread of the pool; the threads with an entry in a map of clients |
| `session[p]`, `record[p]` | the connection of a program, in short: accepted, granted, or `shutDown` (a Shutdown came in, the connection stays open and keeps the identifier); its record |
| `held` | programs whose identifier some other connection object holds: a closed one with a timer handler to come, or a service's that was made in used memory |
| `orphan[p]` | history: how its last connection left the record Connected |

`Misses` is a handler that finds no client: there is none, or main is inserting
into the map at this moment. Such a handler skips the record
(`DisconnectsBlind`). `DisconnectsLate` is the `disconnect()` of a `held`
identifier: it marks the record of a program that may have connected anew since.
A Shutdown may come in on any connection of the kind. `Abandons` is the summary
of what `ProgramConnection` has in detail. `Crash` is any end of the process
that is not a return: a signal (the handler exits with its number), an exception
out of a thread, an instance that is null, a vector of running threads
destroyed. `Restart` is systemd (`Restart=on-failure`).

## 3. What is checked

| Run | Verdict | Question and what it shows |
|---|---|---|
| `module_safety` | holds | Types; `HandlerOwnsConnection`; `ConnectedIsGuarded`: every record that says Connected has a connection that took its identifier and still reads, or a thread about to write Disconnected, except abandoned records; `OnlyConnectedDemote`: a connection that never connected changes no record. 3.05 million states |
| `module_liveness` | holds | `ClosedIsRecorded`: after the socket is closed the record stops saying Connected; `ClosedIsReleased`: the object is destroyed; `ClosedWindsDown`: on the way its chain of reads makes steps towards the end only, its timer handlers do not grow in number between two such steps, a write begins only with one of those steps, and every handler that starts has used up a timer handler or the outstanding write |
| `service_connection` | holds | The same questions for services, with arbitrary memory and exceptions; `ImplementsSessions`: every step of the process is a step of `ProgramSession` for every record, or leaves it alone |
| `service_history` | violated | `OnlyConnectedDemote` for services: a connection that never connected may mark another service's record Disconnected |
| `module_double_connect` | violated | Two threads grant the same module |
| `module_reconnect_orphan` | violated | After a Reconnect on a new connection, the end of the connection leaves the record Connected |
| `tcp_connection` | holds | One read or handler at a time, and one until the reads end (`OneReader`), one write, of the front of the queue (`OneWriter`); requests and replies in order; the send path's rule is kept; a started message is finished and a request handled, or the socket is closed |
| `sending_lost_wakeup` | violated | `QueueDrains`: a message stays in the queue of an open connection |
| `ping_timer` | holds | `PromptIsKept`: a prompt, pinging program is not disconnected; a clock that is set, or a request that comes before the last handler has run, disturbs this no longer than until the first handler that keeps the program; `SilenceIsNoticed`: silence is noticed, unless since the last request a handler was late or the clock was set |
| `ping_eager` | violated | Even with a steady clock: a program that connects a while after its accept is disconnected by its first ping |
| `watchdog_server` | holds | `ConnectedIsWatched`: once the records are marked, Connected means watched, or left behind in a known way, and never both; `BlindWhileStarting`: for want of a client only during the start; `OpenIsServed`: every connection has a thread, and no process returns 0 with one; `FailureIsRepaired`: a failed process starts again until it is up or gives up in good order |
| `program_collection` | holds | `RecordIsOfOneProgram`: whatever the numbers, no two programs share a record that a handler can find; those that do not fit meet in the record of -1, which no handler takes for one of its kind; `AddressIsWhole`: IP and port of a module are of one registration; `PortIsNewest`: a service's port is the last registered; `ImplementsRecords` |

The violated ones are disagreements of the code with its own log lines,
comments and tests, quoted under `findings` in `PROJECT.json`. The runs of
`MCModuleConnection` allow only orderly programs (no empty header, nobody is
registered or unregistered meanwhile), so that nothing else is to blame.

What a property leaves open is as telling. `ConnectedIsWatched` has the orphans:
a program whose connection ended on a thread without a client stays Connected,
and every Connect of it is refused, until the next start, a Shutdown, or the late
`disconnect()` of another connection that holds its identifier. And it does not
say that a watched program is Connected: such a late `disconnect()`, or a
Shutdown, may have changed the record under it. `FailureIsRepaired`
counts `returned` as repaired: a start that finds the database or a port
unavailable returns 0, and systemd leaves it at that; and it asks for
`configured`, because without a configuration the process fails, starts and
fails. `AddressIsWhole` does not say that the address is the newest: a handler
that read the record before a new registration puts the old one back.
`RecordIsOfOneProgram` does not say that only fitting numbers are stored: nothing
refuses the record of -1. `SilenceIsNoticed` has `slow`: a handler that set
`last_ping` late makes the next one find it not quite old enough, and then
nothing arms the timer again; so does a clock that was set back by less than the
age of `last_ping`. `PromptIsKept` asks for `prompt`: while the clock is set, or
two handlers cross, a pinging program may be disconnected.
`ClosedWindsDown` lets a write begin on a closed socket, if the handler had
looked before: it pays with a step of the chain of reads, and the write fails.

Bounds. Two identifiers, two connections and two threads are enough for each
pair of actors that can disturb each other: two connections of one program, one
connection and two programs, three kinds of handlers of which two at a time. The
service and liveness runs have one connection, two identifiers and two threads:
what they ask is about one connection against its own handlers and the
environment. `MaxTimerHandlers` is 1 in the module safety run and 2 in the
others; a request that would exceed it is not offered, and the theorems hold
for every bound. `tcp_connection` has three threads, the number in the code (one
in a message handler, one in the handler of a write, one to spare), and four
requests, one of whose replies has no body: one being read, one being handled,
one being written and one behind it in the queue. `PingTimer` uses the intervals
of the code in half seconds: expiration 8 s, first wait 3 s, gap 7 s, latency
half a second (0 in `ping_eager`); a longer `age` or `silence` is not told apart
from the shortest one beyond which nothing changes, and `MaxShift` (2 s) bounds
how far `last_ping` may lie ahead. Its `MaxHandlers` (2) bounds waits that end at
the same moment. `watchdog_server` has one program of each kind, three threads
and `MaxFailures` = 2: one failure to strike a server that runs and one to strike
its restart. `program_collection` has the numbers 0 (the minimal identifier), 1
and 2^24 (the first that does not fit), two addresses, so that a program can be
registered anew, and two threads with a copy each.

Fairness. A handler that runs goes on, timers expire, systemd restarts the
process: weak fairness. `io_context` queues handlers first in, first out, so a
handler that is ready time and again is run: strong fairness, per connection and
kind of handler. In the connection modules a read or a write of an open socket
need not end, because the peer decides; only those of a closed socket do. In
`TcpConnection` they do end when there is something to read: that assumes a peer
that reads what it is sent and sends the rest of a request it has begun; for
another peer nothing is claimed. In `WatchdogServer` `main()` goes on and systemd
starts a failed process; it gives up after five starts in ten seconds, more than
`MaxFailures` allows. `PingTimer` has only safety properties: "in time" is
measured by `silence`.

## 4. What is proved

For every value of the constants, under their named assumptions:

| Theorem | Property |
|---|---|
| `ModuleTypeCorrect`, `ServiceTypeCorrect` | `TypeOK` |
| `ModuleHandlerOwnsConnection`, `ServiceHandlerOwnsConnection` | `HandlerOwnsConnection` |
| `ModuleConnectedIsGuarded`, `ServiceConnectedIsGuarded` | `ConnectedIsGuarded` |
| `ModuleOnlyConnectedDemote` | `OnlyConnectedDemote` |
| `ModuleImplementsSessions`, `ServiceImplementsSessions` | `ImplementsSessions`: both kinds of connections refine `ProgramSession` |
| `ModuleClosedWindsDown`, `ServiceClosedWindsDown` | `ClosedWindsDown` |
| `ModuleNobodyLeft`, `ServiceNobodyLeft` | with no connection left, only abandoned records say Connected |
| `SendingRefinesChannel` | the send path implements `OrderedChannel`, for any client with one caller |
| `TcpTypeCorrect`, `OneReaderAtATime`, `TcpOneWriter`, `TcpAnswersInOrder` | `TcpTypeOK`, `OneReader`, `OneWriter`, `AnswersInOrder` |
| `TcpKeepsOneSender`, `TcpSendsInOrder`, `TcpRequestsInOrder` | the three refinements of `TcpConnection` |
| `TimerTypeCorrect`, `PromptProgramIsKept`, `SilentProgramIsNoticed` | `TimerTypeOK`, `PromptIsKept`, `SilenceIsNoticed` |
| `ServerTypeCorrect`, `ServerConnectedIsWatched`, `ServerOpenIsServed`, `ServerBlindWhileStarting` | the safety properties of `WatchdogServer` |
| `CollectionTypeCorrect`, `CollectionRecordIsOfOneProgram`, `CollectionAddressIsWhole`, `CollectionPortIsNewest`, `CollectionImplementsRecords` | the properties of `ProgramCollection` |
| `KindsAreDisjoint`, `IdentifiersAreDistinct`, `CanBeModuleIsNoCheck`, `ResetMissesNumberZero` | the operators of `ProgramIdentifiers`, for all integers |

*Connections.* Assumptions: `NoIdentifier` is not an identifier, `NoTask` is not
a task, `MaxTimerHandlers` is positive. The inductive invariant `IInv` is
`TypeOK /\ HandlerOwnsConnection /\ ConnectedIsGuarded`. `ConnectedIsGuarded` is
not inductive alone: when Connect writes the record, somebody must answer for it
from then on, and that is the connection only if it still holds the identifier
Connect stored and its reader is not idle, which is `HandlerOwnsConnection`.
`ProgramConnectionProofs` proves, conjunct by conjunct and action by action,
that the shared steps keep `IInv`; the two other modules add the steps that are
their own. `OnlyConnectedDemote` needs `IdentifiedHaveConnected`: a connection
that has an identifier has connected since it was opened. Three lemmas say which
actions open a connection, give it an identifier, and begin to mark a record.

`ImplementsSessions` is proved step by step: each handler that begins is a
`Looks` (`BeginLives`), each database write a `Writes` (`WriteLives`), each end
without a write a `GivesUp` (`EndLives`), and what happens to the record of
another program is a stutter (`SessionRests`). Besides `IInv` it needs
`BusyIsRunning`, handlers run in a live process only; `HandlerOwnsConnection` is
not needed for it, because a task carries the identifier it looked at.

`ClosedWindsDown` is the variant behind the liveness property
`ClosedIsReleased`. `ReaderRank` counts the steps the chain of reads has left,
`TimerWork` the timer handlers to come, an unfinished wait counting twice (it
becomes one more handler when it is cancelled). On a closed socket a read can
only fail, so the handler of a message puts the chain into `failing`
(`ReadsLess`); only a message handler arms the timer or begins a write,
and it pays with a step of the chain, the write with that of
`StartsWriting`; a `disconnect()` of a service turns the wait into a handler and so
lowers `TimerWork`. That the variant does fall is fairness, and TLC's.

`NobodyLeft` is what is left of `NobodyLeftNobodyConnected`, which
`module_reconnect_orphan` refutes: whoever answers for a record holds a pointer
to a connection that is not released.

*Sending and reading.* Assumptions: the bodyless messages are messages, and the
messages are the numbers of the requests. `SendingInv` adds `OneSender` to
`OneWriter`: at most one thread is between the push and the write. Without it a
second sender could start a write after the first one had seen the flag clear,
and `OneWriter` would not be inductive. `TcpKeepsOneSender` proves that every
step of a connection is a step of the send path, because `OneReader` gives
`Push` its guard; all theorems of the send path then hold of the connection.
`TcpInv` adds `HandledSoFar`: the requests handled are 1, 2, 3 and so on, and
the header that was taken is that of the next; and `AnsweredSoFar`: what is
queued or delivered answers a request that was handled, and not the one whose
handler has yet to reply. `AnswersInOrder` and the refinement of the channel by
the chain of reads rest on these. `AtLeastOneReader` needs
`HandledSoFar` in one step: the empty header that ends the chain is taken when
all requests before it have been handled, which is what `IsDeaf` says.

*Timer.* Assumption (`TimerAssumption`): a first wait and a latency, and a gap
and a latency, are less than the expiration interval. `TimerInv` adds what
connects the clocks. `WaitFollowsRequest`: a wait's remaining time and the
silence add up to the interval. `NobodyIsPrompt`: before its first request no
program is prompt. `HandlerHasReason`: a queued handler was caused by a recent
request or by a wait that is over. `PingIsRecent`: `last_ping` is recent enough
to last until the next request, or a queued handler will set it in time; this is
the heart of `PromptIsKept`. `HandlerIsAlone`: of a prompt program one handler at
most is queued, and it was queued no earlier than `last_ping`; so what it
compares is not negative, whenever it has read now. `PingIsNoLater`: if no
handler was late, `last_ping` is no later than the last request; so the handler
of a wait that expires finds it old enough. `SilenceIsPending`: silence has been
overlooked, or a wait or handler is about to find it.

*Server.* Assumptions: no program is both a module and a service, and there are
finitely many threads. `ServerInv` adds to the checked invariants: before main
creates threads there are none, and no sessions and nothing held (`IdleAtStart`);
after the loop every thread has both clients (`MapsAreFull`), which gives
`BlindWhileStarting`. `ConnectedIsWatched` is inductive with these: an orphan is
never granted, because its record says Connected and Connect refuses it; and
every step that changes the record of an orphan (Shutdown, a late
`disconnect()`, the marking) ends that state.

*Collections.* Assumptions: numbers are integers, `NoAddress` is no address.
`CollectionInv` adds that the copy of a thread is of one registration, if it is
a module's, and that the programs of a record are those whose number makes its
identifier. `RecordIsOfOneProgram` follows from that and `IdentifiersAreDistinct`,
not from a check in `insertOne`, which has none. The lemmas on identifiers reduce
to division with remainder. The refinement is proved command by command.

Only model-checked: `ClosedIsRecorded`, `ClosedIsReleased`,
`StartedIsDelivered`, `RequestsAreHandled` and `FailureIsRepaired`, which are
liveness under fairness and outside the prover's reach. What of them is safety is
proved: `ConnectedIsGuarded` says that somebody will change the record,
`ClosedWindsDown` that a closed connection cannot go on for ever,
`AtLeastOneReader` that the next read is there. Every safety property that holds
is proved. `ClosedWindsDown` and `ImplementsSessions` are checked in one run each
and proved for both kinds of connections.

## 5. What is not modelled

* The values of sequence codes. The codes of two sessions of one connection may
  be equal by chance; whatever code a connection holds, a ping may carry it or
  not, which is all the ping handler looks at.
* What the client of mongocxx does when two threads share it. The pool entries
  go out of scope in `createWorkingThreads()`, so they may; that this may end
  the process is in `Crash`, wrong answers are not.
* Several documents for one identifier, which the database does not forbid: one
  registrar, which inserts no identifier that is there, is assumed.
* The composition of all handlers with start-up in one state space:
  `WatchdogServer` summarises a connection in four states, of which
  `ConnectedIsGuarded` and `abandoned` are the detail.
* Operations that nothing in the watchdog calls and that change no record:
  `getAllModules`, `blockingWriteMessageHeader`, `connect`, `makeNewSocket`.
* A header or body that is written in part without an error: `async_write` does
  not end so.
* Races on single variables (`identifier`, `last_ping`) are taken as atomic reads
  and writes of a word, which is what the build produces for them. For an
  insertion into a map that another thread reads, the reader finds its entry or
  misses it, or the process ends.
* The text of the configuration, logging, and the generated protocol classes,
  whose definitions are not in the repository.

## 6. The plan

Done: records, connections with crash and restart and their refinement of
`ProgramSession`, sending and reading composed, the timer with its clock, the
server with its start-up and restarts, the collections with their fields,
identifiers, and proofs of all their safety properties. What could still be
added:

1. The refinement of `reader` and `writing` of `ProgramConnection` by
   `TcpConnection`, which today share their names and their source lines only.
2. A theorem that what is delivered, still queued or dropped with the connection
   makes up all that was sent: the safety half of `StartedIsDelivered`.
3. A refinement of `WatchdogServer` by the connections, record by record, so that
   `Abandons` and `held` are derived rather than stated.
