------------------------- MODULE ProgramConnection -------------------------
(***************************************************************************)
(* What ModuleConnection and ServiceConnection have in common: the TCP     *)
(* connections of the watched programs, the worker threads that run the    *)
(* handlers of io_context, and the records those handlers read and write.  *)
(* The two classes repeat this code line by line; ModuleConnection.tla and *)
(* ServiceConnection.tla add what each does differently, and the           *)
(* next-state relation.                                                    *)
(*                                                                         *)
(* There is no strand: the handlers of one connection (end of a read, end  *)
(* of a write, timer) run on any thread, at the same time.  A handler is   *)
(* cut into steps at its database commands, and between the look at the    *)
(* socket and the write of a reply, where the other threads get their      *)
(* chance; the rest of its work touches what only it touches.              *)
(*                                                                         *)
(* A sequence code is compared only by the ping handler.  Whatever code a  *)
(* connection holds, a ping may carry that code or another one, so codes   *)
(* are left to PingAnswered and RequestDropped, both always possible.  In  *)
(* the same way the time since the last ping is left to PingWasSeen and    *)
(* PingIsMissing.                                                          *)
(***************************************************************************)
EXTENDS ProgramRecords, Naturals

CONSTANTS Connections,       \* connection objects alive at the same time
          Threads,           \* the threads inside io_context.run()
          NoTask,            \* a thread that runs no handler
          MaxTimerHandlers   \* bound: timer handlers of one connection

\* A request step is a message handler at work, which starts the next read
\* when it is done; a disconnect step is a call of disconnect() at work.
RecordSteps == {"connecting", "reconnecting", "granted", "shuttingDown"}

RequestSteps == RecordSteps \cup {"replying"}

DisconnectSteps == {"disconnecting", "closing"}

Task == [step : RecordSteps, conn : Connections, id : Identifiers]
          \cup [step : {"replying"}, conn : Connections, id : {NoIdentifier}]
          \cup [step : DisconnectSteps, conn : Connections,
                id   : Identifiers \cup {NoIdentifier}]

ASSUME ConnectionAssumption == /\ NoTask \notin Task
                               /\ MaxTimerHandlers \in Nat \ {0}

VARIABLES running,      \* is there a watchdog process?
          socket,       \* socket->is_open()
          reader,       \* the chain of reads, see TypeOK
          identifier,   \* authenticationData.identifier
          waiting,      \* an async_wait on the timer is outstanding
          due,          \* handlers of finished async_waits not yet run
          writing,      \* a write is outstanding
          task,         \* what each thread is doing
          abandoned     \* history: records no connection answers for

connectionVars == <<socket, reader, identifier, waiting, due, writing>>

vars == <<records, running, connectionVars, task, abandoned>>

TypeOK ==
  /\ RecordsTypeOK
  /\ running \in BOOLEAN
  /\ socket \in [Connections -> {"open", "closed"}]
     \* idle: nobody reads.  reading: an async_read is outstanding.
     \* failing: an async_read was started on a closed socket.
     \* handling: a message handler runs, and will read again.
  /\ reader \in [Connections -> {"idle", "reading", "failing", "handling"}]
  /\ identifier \in [Connections -> Identifiers \cup {NoIdentifier}]
  /\ waiting \in [Connections -> BOOLEAN]
  /\ due \in [Connections -> Nat]
  /\ writing \in [Connections -> BOOLEAN]
  /\ task \in [Threads -> Task \cup {NoTask}]
  /\ abandoned \in SUBSET Identifiers
-----------------------------------------------------------------------------
(* Parts of handlers.                                                      *)

Busy(t) == task[t] # NoTask

\* A thread that waits in io_context.run() takes up the next handler.
Free(t) == running /\ ~Busy(t)

\* Shared pointers to a connection are held by its pending handlers only.
\* When the last one is gone the object is destroyed.
Released(c) == /\ reader[c] = "idle"
               /\ ~waiting[c] /\ due[c] = 0
               /\ ~writing[c]
               /\ \A t \in Threads : Busy(t) => task[t].conn # c

Begin(t, step, c, id) ==
  task' = [task EXCEPT ![t] = [step |-> step, conn |-> c, id |-> id]]

Advance(t, step) == Begin(t, step, task[t].conn, task[t].id)

End(t) == task' = [task EXCEPT ![t] = NoTask]

\* Mutant: no read is started on a closed socket.
ReadsOnlyOpen(c) ==
  reader' = [reader EXCEPT ![c] = IF socket[c] = "open" THEN "reading"
                                                        ELSE "idle"]

startReadingSequence(c) ==
  reader' = [reader EXCEPT ![c] = IF socket[c] = "open" THEN "reading"
                                                        ELSE "failing"]

\* A reply is queued, at the end of a handler.  It may stay in the queue: the
\* socket is closed, or sendingInProgress is set.  (The queue itself is not
\* followed here.)  Or the thread has seen the socket open and nobody writing,
\* and is about to write.
sendMessage(t, c) ==
  \/ startReadingSequence(c) /\ End(t)
  \/ /\ socket[c] = "open" /\ ~writing[c]
     /\ reader' = [reader EXCEPT ![c] = "handling"]
     /\ Begin(t, "replying", c, NoIdentifier)

\* The rest of sendMessage, and the next read.  The socket is not looked at
\* again: another thread may have closed it, and then the write fails.
StartsWriting(t) ==
  /\ Busy(t) /\ task[t].step = "replying"
  /\ writing' = [writing EXCEPT ![task[t].conn] = TRUE]
  /\ startReadingSequence(task[t].conn)
  /\ End(t)
  /\ UNCHANGED <<records, running, socket, identifier, waiting, due, abandoned>>

\* expires_from_now() cancels the wait that is outstanding, whose handler
\* becomes due with an error code nobody looks at; then a new wait begins.
setTimerExpiration(c) ==
  /\ due' = [due EXCEPT ![c] = IF waiting[c] THEN @ + 1 ELSE @]
  /\ waiting' = [waiting EXCEPT ![c] = TRUE]

MayArmTimer(c) == due[c] + (IF waiting[c] THEN 1 ELSE 0) < MaxTimerHandlers

\* A complete message has arrived.  The read may have ended before another
\* thread closed the socket, so the socket is not looked at.
MessageArrives(t, c) == Free(t) /\ reader[c] = "reading"

ConnectedIdentifiers == {id \in Identifiers : records[id] = "Connected"}

\* Mutant: any record that is there will do.
BeginDisconnectUnseen(t, c) ==
  Begin(t, IF getProgram(identifier[c]) = "Missing" THEN "closing"
                                                    ELSE "disconnecting",
        c, identifier[c])

\* disconnect(), up to and including the look at the record.
BeginDisconnect(t, c) ==
  Begin(t, IF getProgram(identifier[c]) = "Connected" THEN "disconnecting"
                                                      ELSE "closing",
        c, identifier[c])
-----------------------------------------------------------------------------
(* Message handlers.                                                       *)

\* processConnectRequest: no such program, or the record says Connected.
ConnectRefused(t, c, id) ==
  /\ MessageArrives(t, c)
  /\ getProgram(id) \in {"Missing", "Connected"}
  /\ sendMessage(t, c)
  /\ UNCHANGED <<records, running, socket, identifier, waiting, due, writing,
                 abandoned>>

\* processConnectRequest, from getModule() up to updateModule().  The
\* connection takes the identifier before the record is written.
ConnectAccepted(t, c, id) ==
  /\ MessageArrives(t, c)
  /\ MayArmTimer(c)
  /\ getProgram(id) \in {"Registered", "Disconnected"}
  /\ Begin(t, "connecting", c, id)
  /\ reader' = [reader EXCEPT ![c] = "handling"]
  /\ identifier' = [identifier EXCEPT ![c] = id]
  /\ abandoned' = abandoned \cup ({identifier[c]} \cap ConnectedIdentifiers)
  /\ UNCHANGED <<records, running, socket, waiting, due, writing>>

\* updateModule() of processConnectRequest.
ConnectWrites(t) ==
  /\ Busy(t) /\ task[t].step = "connecting"
  /\ updateProgram(task[t].id, "Connected")
  /\ Advance(t, "granted")
  /\ abandoned' = abandoned \ {task[t].id}
  /\ UNCHANGED <<running, connectionVars>>

\* processReconnectRequest: no such program, or its record does not say
\* Disconnected.
ReconnectRefused(t, c, id) ==
  /\ MessageArrives(t, c)
  /\ getProgram(id) # "Disconnected"
  /\ sendMessage(t, c)
  /\ UNCHANGED <<records, running, socket, identifier, waiting, due, writing,
                 abandoned>>

\* processReconnectRequest, up to updateModule().  Unlike Connect it leaves
\* authenticationData.identifier as it was.
ReconnectAccepted(t, c, id) ==
  /\ MessageArrives(t, c)
  /\ MayArmTimer(c)
  /\ getProgram(id) = "Disconnected"
  /\ Begin(t, "reconnecting", c, id)
  /\ reader' = [reader EXCEPT ![c] = "handling"]
  /\ UNCHANGED <<records, running, socket, identifier, waiting, due, writing,
                 abandoned>>

\* updateModule() of processReconnectRequest.
ReconnectWrites(t) ==
  /\ Busy(t) /\ task[t].step = "reconnecting"
  /\ updateProgram(task[t].id, "Connected")
  /\ Advance(t, "granted")
  /\ abandoned' = IF identifier[task[t].conn] = task[t].id
                  THEN abandoned \ {task[t].id}
                  ELSE abandoned \cup {task[t].id}
  /\ UNCHANGED <<running, connectionVars>>

\* The rest of a successful Connect or Reconnect: a new sequence code, the
\* timer, the reply, the next read.
SessionGranted(t) ==
  /\ Busy(t) /\ task[t].step = "granted"
  /\ LET c == task[t].conn IN
       setTimerExpiration(c) /\ sendMessage(t, c)
  /\ UNCHANGED <<records, running, socket, identifier, writing, abandoned>>

\* ModulePingRequestHandler: the code is that of the connection.
PingAnswered(t, c) ==
  /\ MessageArrives(t, c)
  /\ MayArmTimer(c)
  /\ setTimerExpiration(c)
  /\ sendMessage(t, c)
  /\ UNCHANGED <<records, running, socket, identifier, writing, abandoned>>

\* Mutant: the next read begins before the handler is done.
ShutdownReadsAhead(t, c, id) ==
  /\ MessageArrives(t, c)
  /\ getProgram(id) # "Missing"
  /\ Begin(t, "shuttingDown", c, id)
  /\ UNCHANGED <<records, running, connectionVars, abandoned>>

\* processShutdownRequest, up to updateModule().
ShutdownAccepted(t, c, id) ==
  /\ MessageArrives(t, c)
  /\ getProgram(id) # "Missing"
  /\ Begin(t, "shuttingDown", c, id)
  /\ reader' = [reader EXCEPT ![c] = "handling"]
  /\ UNCHANGED <<records, running, socket, identifier, waiting, due, writing,
                 abandoned>>

\* updateModule() of processShutdownRequest; there is no reply.
ShutdownWrites(t) ==
  /\ Busy(t) /\ task[t].step = "shuttingDown"
  /\ updateProgram(task[t].id, "Registered")
  /\ abandoned' = abandoned \ {task[t].id}
  /\ startReadingSequence(task[t].conn)
  /\ End(t)
  /\ UNCHANGED <<running, socket, identifier, waiting, due, writing>>

\* A message that ends in an exception, or in no handler at all: it cannot
\* be parsed, the operation code is unknown, the ping carries another code,
\* the program to shut down does not exist.  The next read begins.
RequestDropped(t, c) ==
  /\ MessageArrives(t, c)
  /\ startReadingSequence(c)
  /\ UNCHANGED <<records, running, socket, identifier, waiting, due, writing,
                 task, abandoned>>
-----------------------------------------------------------------------------
(* The other ends of a read, ends of a write, and the timer.               *)

\* A header announces an empty body.  Nothing is read any more, and
\* disconnect() is not called.
ReadStops(t, c) ==
  /\ MessageArrives(t, c)
  /\ reader' = [reader EXCEPT ![c] = "idle"]
  /\ abandoned' = abandoned \cup ({identifier[c]} \cap ConnectedIdentifiers)
  /\ UNCHANGED <<records, running, socket, identifier, waiting, due, writing,
                 task>>

\* Mutant: an error ends the reading, and disconnect() is not called.
ReadFailsSilently(t, c) ==
  /\ Free(t)
  /\ reader[c] \in {"reading", "failing"}
  /\ reader' = [reader EXCEPT ![c] = "idle"]
  /\ UNCHANGED <<records, running, socket, identifier, waiting, due, writing,
                 task, abandoned>>

\* The read ends with an error: the peer is gone, or the socket was closed.
ReadFails(t, c) ==
  /\ Free(t)
  /\ reader[c] \in {"reading", "failing"}
  /\ reader' = [reader EXCEPT ![c] = "idle"]
  /\ BeginDisconnect(t, c)
  /\ UNCHANGED <<records, running, socket, identifier, waiting, due, writing,
                 abandoned>>

\* The last queued message has been written.
WriteEnds(t, c) ==
  /\ Free(t) /\ writing[c]
  /\ writing' = [writing EXCEPT ![c] = FALSE]
  /\ UNCHANGED <<records, running, socket, reader, identifier, waiting, due,
                 task, abandoned>>

WriteFails(t, c) ==
  /\ Free(t) /\ writing[c]
  /\ writing' = [writing EXCEPT ![c] = FALSE]
  /\ BeginDisconnect(t, c)
  /\ UNCHANGED <<records, running, socket, reader, identifier, waiting, due,
                 abandoned>>

\* The time of the outstanding wait has come; its handler is queued.
TimerExpires(c) ==
  /\ running /\ waiting[c]
  /\ waiting' = [waiting EXCEPT ![c] = FALSE]
  /\ due' = [due EXCEPT ![c] = @ + 1]
  /\ UNCHANGED <<records, running, socket, reader, identifier, writing, task,
                 abandoned>>

\* Mutant: the timer handler starts the next wait itself.
PingWasSeenRearms(t, c) ==
  /\ Free(t) /\ due[c] > 0
  /\ due' = [due EXCEPT ![c] = @ - 1]
  /\ waiting' = [waiting EXCEPT ![c] = TRUE]
  /\ UNCHANGED <<records, running, socket, reader, identifier, writing, task,
                 abandoned>>

\* Mutant: a timer handler runs that no finished wait has queued.
PingWasSeenUnasked(t, c) ==
  /\ Free(t)
  /\ due' = [due EXCEPT ![c] = @ - 1]
  /\ UNCHANGED <<records, running, socket, reader, identifier, waiting,
                 writing, task, abandoned>>

\* onTimerExpiration, less than 8 seconds after last_ping.
PingWasSeen(t, c) ==
  /\ Free(t) /\ due[c] > 0
  /\ due' = [due EXCEPT ![c] = @ - 1]
  /\ UNCHANGED <<records, running, socket, reader, identifier, waiting,
                 writing, task, abandoned>>

\* onTimerExpiration, 8 seconds or more after last_ping.
PingIsMissing(t, c) ==
  /\ Free(t) /\ due[c] > 0
  /\ due' = [due EXCEPT ![c] = @ - 1]
  /\ BeginDisconnect(t, c)
  /\ UNCHANGED <<records, running, socket, reader, identifier, waiting,
                 writing, abandoned>>

\* updateModule() of disconnect().
DisconnectWrites(t) ==
  /\ Busy(t) /\ task[t].step = "disconnecting"
  /\ updateProgram(task[t].id, "Disconnected")
  /\ Advance(t, "closing")
  /\ abandoned' = abandoned \ {task[t].id}
  /\ UNCHANGED <<running, connectionVars>>

\* The end of disconnect(), but for the timer.
closeSocket(t) ==
  /\ Busy(t) /\ task[t].step = "closing"
  /\ socket' = [socket EXCEPT ![task[t].conn] = "closed"]
  /\ End(t)
-----------------------------------------------------------------------------
(* The process and its environment.                                        *)

Init ==
  /\ records \in [Identifiers -> RecordState \ {"Connected"}]
  /\ running = TRUE
  /\ socket = [c \in Connections |-> "closed"]
  /\ reader = [c \in Connections |-> "idle"]
  /\ identifier = [c \in Connections |-> NoIdentifier]
  /\ waiting = [c \in Connections |-> FALSE]
  /\ due = [c \in Connections |-> 0]
  /\ writing = [c \in Connections |-> FALSE]
  /\ task = [t \in Threads |-> NoTask]
  /\ abandoned = {}

\* The process dies, at any point of any handler; the records survive.
Crash ==
  /\ running
  /\ running' = FALSE
  /\ socket' = [c \in Connections |-> "closed"]
  /\ reader' = [c \in Connections |-> "idle"]
  /\ identifier' = [c \in Connections |-> NoIdentifier]
  /\ waiting' = [c \in Connections |-> FALSE]
  /\ due' = [c \in Connections |-> 0]
  /\ writing' = [c \in Connections |-> FALSE]
  /\ task' = [t \in Threads |-> NoTask]
  /\ abandoned' = {}
  /\ UNCHANGED records

\* main(): the records are set right before connections are accepted.
Restart ==
  /\ ~running
  /\ running' = TRUE
  /\ markAllConnectedAsDisconnected
  /\ UNCHANGED <<connectionVars, task, abandoned>>

\* One registrar, which knows what it has registered.
Register(id) ==
  /\ records[id] = "Missing"
  /\ insertOne(id)
  /\ UNCHANGED <<running, connectionVars, task, abandoned>>

Unregister(id) ==
  /\ deleteOne(id)
  /\ abandoned' = abandoned \ {id}
  /\ UNCHANGED <<running, connectionVars, task>>
-----------------------------------------------------------------------------
(* What the two next-state relations and fairness conditions share.        *)

MessageHandler(t, c) ==
  \/ \E id \in Identifiers :
       \/ ConnectRefused(t, c, id) \/ ConnectAccepted(t, c, id)
       \/ ReconnectRefused(t, c, id) \/ ReconnectAccepted(t, c, id)
       \/ ShutdownAccepted(t, c, id)
  \/ PingAnswered(t, c) \/ RequestDropped(t, c)

ReadHandler(t, c) == MessageHandler(t, c) \/ ReadStops(t, c) \/ ReadFails(t, c)

WriteHandler(t, c) == WriteEnds(t, c) \/ WriteFails(t, c)

TimerHandler(t, c) == PingWasSeen(t, c) \/ PingIsMissing(t, c)

HandlerStep(t) ==
  \/ ConnectWrites(t) \/ ReconnectWrites(t) \/ SessionGranted(t)
  \/ ShutdownWrites(t) \/ DisconnectWrites(t) \/ StartsWriting(t)

ProcessStep ==
  \/ \E t \in Threads :
       \/ HandlerStep(t)
       \/ \E c \in Connections :
            ReadHandler(t, c) \/ WriteHandler(t, c) \/ TimerHandler(t, c)
  \/ \E c \in Connections : TimerExpires(c)

EnvironmentStep ==
  \/ Crash \/ Restart
  \/ \E id \in Identifiers : Register(id) \/ Unregister(id)

\* io_context queues the handlers of what has ended, first in, first out:
\* a handler that is time and again ready to run is run.  A read, or a
\* write, of an open socket may never end; on a closed socket it does.
\* Timers expire, a handler goes on, and systemd restarts the service.
CommonFairness ==
  /\ WF_vars(Restart)
  /\ \A t \in Threads : WF_vars(HandlerStep(t))
  /\ \A c \in Connections :
       /\ WF_vars(TimerExpires(c))
       /\ SF_vars(\E t \in Threads : TimerHandler(t, c))
       /\ SF_vars(socket[c] = "closed" /\ \E t \in Threads : ReadHandler(t, c))
       /\ SF_vars(socket[c] = "closed" /\ \E t \in Threads : WriteHandler(t, c))
-----------------------------------------------------------------------------
(* Properties.                                                             *)

Handles(t, c) ==
  Busy(t) /\ task[t].step \in RequestSteps /\ task[t].conn = c

\* There is no strand, and authenticationData has no lock.  What stands in
\* for them is that the next read begins after the handler of a message
\* (postReadMessageBody): while a thread is in such a handler nothing else
\* is read from the connection, no other thread handles its messages, and
\* the identifier Connect has stored stays what it is until Connect has
\* written the record.
HandlerOwnsConnection ==
  \A t \in Threads, c \in Connections :
    Handles(t, c) =>
      /\ reader[c] = "handling"
      /\ task[t].step = "connecting" => identifier[c] = task[t].id
      /\ \A u \in Threads : Handles(u, c) => u = t

\* A connection that will find out when the peer of program id is lost.
Guards(c, id) == identifier[c] = id /\ reader[c] # "idle"

Demotes(t, id) ==
  Busy(t) /\ task[t].step = "disconnecting" /\ task[t].id = id

Guarded(id) == \/ \E c \in Connections : Guards(c, id)
               \/ \E t \in Threads : Demotes(t, id)

\* No record says Connected for ever after its program has gone: there is
\* either a connection that took the identifier in Connect and still reads,
\* so that disconnect() will be called with that identifier, or a thread
\* that is about to write Disconnected.  The exceptions are abandoned: a
\* Reconnect on a connection that holds another identifier, a second Connect
\* for another program on the same connection, an empty header.
ConnectedIsGuarded ==
  running => \A id \in ConnectedIdentifiers \ abandoned : Guarded(id)

\* The inductive invariant of the proofs: TypeOK says what a task looks like,
\* HandlerOwnsConnection that ConnectWrites meets the identifier ConnectAccepted
\* stored, which is what ConnectedIsGuarded needs in that step.
IInv == TypeOK /\ HandlerOwnsConnection /\ ConnectedIsGuarded

\* The state a handler is about to write.
Intent == [connecting    |-> "Connected",
           reconnecting  |-> "Connected",
           shuttingDown  |-> "Registered",
           disconnecting |-> "Disconnected"]

\* The handlers between their look at the record of program id and its update.
IntentTo(id) ==
  [t \in Threads |-> IF /\ Busy(t) /\ task[t].id = id
                        /\ task[t].step \in DOMAIN Intent
                     THEN Intent[task[t].step] ELSE "none"]

Session(id) == INSTANCE ProgramSession WITH
                 Writers <- Threads, up <- running,
                 record <- records[id], intent <- IntentTo(id)

\* Every record lives the life of ProgramSession, whatever the handlers of all
\* connections, crashes and whoever registers programs do to it at the same
\* time: each write follows a look by the same handler that allowed it (so it
\* takes a disconnect() that saw the record Connected to overwrite what a
\* Shutdown wrote), none is carried over a crash, none puts a record back that
\* was deleted, and no handler writes the record of another program than the
\* one it looked at.
ImplementsSessions ==
  /\ \A id \in Identifiers : Session(id)!SessionInit
  /\ [][\A id \in Identifiers :
           [Session(id)!SessionNext]_(Session(id)!sessionVars)]_vars

\* How far a connection is from reading no more.
ReaderRank(c) == CASE reader[c] = "reading"  -> 3
                   [] reader[c] = "handling" -> 2
                   [] reader[c] = "failing"  -> 1
                   [] reader[c] = "idle"     -> 0

\* The timer handlers to come, a wait that is not over counting twice.
TimerWork(c) == due[c] + (IF waiting[c] THEN 2 ELSE 0)

WorksFor(t, c) == Busy(t) /\ task[t].conn = c

\* What every step leaves of a closed connection.
WindsDown(c) ==
  /\ socket'[c] = "closed"
  /\ ReaderRank(c)' <= ReaderRank(c)
  /\ ReaderRank(c)' = ReaderRank(c) =>
       /\ writing'[c] => writing[c]
       /\ TimerWork(c)' <= TimerWork(c)
       /\ \A t \in Threads :
            WorksFor(t, c)' /\ ~WorksFor(t, c) =>
              TimerWork(c)' < TimerWork(c) \/ (writing[c] /\ ~writing'[c])

\* A closed connection winds down.  Its chain of reads goes towards the end
\* only.  A handler that saw the socket open may yet begin a write on it, closed
\* as it is, but only as that chain makes a step; until it has made one, no
\* write begins, no handler, be it of a timer or the end of a disconnect(),
\* adds to the timer handlers to come, and a thread takes up work for the
\* connection only in exchange for a timer handler or the outstanding write.
\* So no handler keeps another alive for ever, and the object accepts again
\* only when all is over.
ClosedWindsDown ==
  [][\A c \in Connections :
       socket[c] = "closed" /\ ~Released(c) => WindsDown(c)]_vars

\* When the socket of a connection is closed that still reads for a program,
\* whoever closed it, the record of that program stops saying Connected, be
\* it for a moment only, or is abandoned: an empty header was read just
\* before.  A crash in between makes no difference.
ClosedIsRecorded ==
  \A c \in Connections, id \in Identifiers :
    (Guards(c, id) /\ socket[c] = "closed")
      ~> id \notin ConnectedIdentifiers \ abandoned

\* A closed connection is given up by its reads, writes and timers, one by
\* one, and its object is destroyed: no handler re-arms another for ever.
ClosedIsReleased ==
  \A c \in Connections : socket[c] = "closed" ~> Released(c)

\* What the code and the tests say and threads disprove.

\* InvalidConnectionState (the Connect handler tests): Connect succeeds only
\* for a record that does not say Connected.
ConnectIsExclusive ==
  [][\A t \in Threads :
       ConnectWrites(t) => records[task[t].id] # "Connected"]_vars

\* "Not received ping - disconnecting", "Set disconnected state in database"
\* (WatchdogConnection.cpp:76, 60): with no connection left, no record of a
\* running watchdog says Connected.
NobodyLeftNobodyConnected ==
  running /\ (\A c \in Connections : Released(c))
    => ConnectedIdentifiers = {}
=============================================================================
