----------------------- MODULE ModuleConnectionProofs -----------------------
(***************************************************************************)
(* The invariants of ModuleConnection, for any number of connections,      *)
(* threads, programs and pending timer handlers; and that only connections *)
(* that connected change a record when they end (MCModuleHistory).         *)
(***************************************************************************)
EXTENDS MCModuleHistory, ProgramConnectionProofs

\* An object that accepts a connection had no reader and no handler.
LEMMA AcceptIInv ==
  ASSUME IInv, NEW t \in Threads, NEW c \in Connections, Accept(t, c)
  PROVE  IInv'
<1> USE DEF IInv
<1>1. TypeOK'
  BY DEF Accept, TypeOK, RecordsTypeOK
<1>2. /\ reader[c] = "idle" /\ ~Busy(t)
      /\ \A d \in Connections \ {c} :
           reader'[d] = reader[d] /\ identifier'[d] = identifier[d]
  BY DEF Accept, Released, Free, TypeOK
<1>3. HandlerOwnsConnection'
  <2>1. \A u \in Threads \ {t} : task'[u] = task[u] /\ ~Handles(u, c)
    BY <1>2, ReadingIsFree DEF Accept
  <2>2. \A d \in Connections : ~Handles(t, d)'
    BY <1>2 DEF Accept, Handles, Busy
  <2> QED BY <1>2, <2>1, <2>2, OwnStep
<1>4. ConnectedIsGuarded'
  <2>1. \A id : Guarded(id) => Guarded(id)'
    BY <1>2 DEF Accept, Guarded, Guards, Demotes, Busy
  <2> QED BY <2>1, GuardStep DEF Accept, ConnectedIdentifiers
<1> QED BY <1>1, <1>3, <1>4

\* The end of disconnect() touches neither the reader nor the records.
LEMMA CloseIInv ==
  ASSUME IInv, NEW t \in Threads, Close(t)
  PROVE  IInv'
<1> USE DEF IInv
<1>1. /\ task' \in [Threads -> Task \cup {NoTask}] /\ ~Busy(t)'
      /\ \A u \in Threads \ {t} : task'[u] = task[u]
  BY EndTask DEF Close, closeSocket
<1>2. TypeOK'
  BY <1>1, TaskType DEF Close, closeSocket, TypeOK, RecordsTypeOK
<1>3. HandlerOwnsConnection'
  BY <1>1, OtherStep DEF Close, Handles, Busy
<1>4. ConnectedIsGuarded'
  BY <1>1, QuietStep DEF Close, closeSocket
<1> QED BY <1>2, <1>3, <1>4

\* Every behaviour of the modules' side keeps the inductive invariant.
THEOREM ModuleInvariance == Spec => []IInv
<1>1. Init => IInv
  BY InitIInv
<1>2. IInv /\ [Next]_vars => IInv'
  <2> SUFFICES ASSUME IInv, [Next]_vars PROVE IInv'
    OBVIOUS
  <2>1. CASE ProcessStep \/ EnvironmentStep
    BY <2>1, SharedStepIInv
  <2>2. ASSUME NEW t \in Threads, NEW c \in Connections, Accept(t, c) PROVE IInv'
    BY <2>2, AcceptIInv
  <2>3. ASSUME NEW t \in Threads, Close(t) PROVE IInv'
    BY <2>3, CloseIInv
  <2>4. CASE UNCHANGED vars
    BY <2>4, StutterIInv
  <2> QED BY <2>1, <2>2, <2>3, <2>4 DEF Next
<1> QED BY <1>1, <1>2, PTL DEF Spec

\* The types of the modules' side.
THEOREM ModuleTypeCorrect == Spec => []TypeOK
<1>1. IInv => TypeOK
  BY DEF IInv
<1> QED BY <1>1, ModuleInvariance, PTL

\* While a thread handles a message of a module, no other thread handles one
\* of the same connection and nothing else is read from it.
THEOREM ModuleHandlerOwnsConnection == Spec => []HandlerOwnsConnection
<1>1. IInv => HandlerOwnsConnection
  BY DEF IInv
<1> QED BY <1>1, ModuleInvariance, PTL

\* A module whose record says Connected has a connection that will notice
\* its loss, or is being written off, or is abandoned.
THEOREM ModuleConnectedIsGuarded == Spec => []ConnectedIsGuarded
<1>1. IInv => ConnectedIsGuarded
  BY DEF IInv
<1> QED BY <1>1, ModuleInvariance, PTL

\* When the last module connection has been destroyed, the records that still
\* say Connected are abandoned ones: "Set disconnected state in database" is
\* true of every other.
THEOREM ModuleNobodyLeft == Spec => []NobodyLeftOnlyAbandoned
BY ModuleInvariance, IInvLeavesAbandoned, PTL

\* Until its object is free again, a closed module connection only winds down:
\* the chain of reads goes on towards its end, and until it has made a step no
\* write begins, the timer handlers to come do not grow in number, and a new
\* handler has always cost one of these.
THEOREM ModuleClosedWindsDown == Spec => ClosedWindsDown
<1>1. IInv /\ [Next]_vars
        => [\A c \in Connections :
              socket[c] = "closed" /\ ~Released(c) => WindsDown(c)]_vars
  <2> SUFFICES ASSUME IInv, [Next]_vars, NEW c \in Connections,
                      socket[c] = "closed", ~Released(c)
               PROVE  WindsDown(c)
    OBVIOUS
  <2>1. CASE ProcessStep
    BY <2>1, ProcessStepWindsDown
  <2>2. CASE EnvironmentStep
    BY <2>2, EnvironmentStepWindsDown DEF IInv
  <2>3. ASSUME NEW t \in Threads, NEW d \in Connections, Accept(t, d)
        PROVE  WindsDown(c)
    <3>1. d # c
      BY <2>3 DEF Accept
    <3>2. \A u \in Threads : WorksFor(u, c)' => WorksFor(u, c)
      BY <2>3 DEF Accept, WorksFor, Busy
    <3>3. /\ socket'[c] = "closed" /\ reader'[c] = reader[c]
          /\ waiting'[c] = waiting[c] /\ due' = due /\ writing' = writing
      BY <2>3, <3>1 DEF Accept, IInv, TypeOK
    <3> QED BY <3>2, <3>3, LeftAlone DEF IInv
  <2>4. ASSUME NEW t \in Threads, Close(t) PROVE WindsDown(c)
    <3>1. \A u \in Threads : WorksFor(u, c)' => WorksFor(u, c)
      BY <2>4, EndTask DEF Close, closeSocket, IInv, WorksFor, Busy
    <3>2. socket'[c] = "closed"
      BY <2>4 DEF Close, closeSocket, IInv, TypeOK
    <3> QED BY <2>4, <3>1, <3>2, LeftAlone DEF Close, IInv
  <2>5. CASE UNCHANGED vars
    BY <2>5, LeftAlone DEF IInv, vars, connectionVars, WorksFor, Busy
  <2> QED BY <2>1, <2>2, <2>3, <2>4, <2>5 DEF Next
<1> QED BY <1>1, ModuleInvariance, PTL DEF Spec, ClosedWindsDown

\* A handler of a module connection runs in a live process only.
THEOREM ModuleSessionInvariance == Spec => []SessionInv
<1>1. Init => BusyIsRunning
  BY SessionsStart
<1>2. IInv /\ BusyIsRunning /\ [Next]_vars => BusyIsRunning'
  <2> SUFFICES ASSUME IInv, BusyIsRunning, [Next]_vars PROVE BusyIsRunning'
    OBVIOUS
  <2>1. CASE ProcessStep \/ EnvironmentStep
    BY <2>1, SharedStepRunning DEF IInv
  <2>2. ASSUME NEW t \in Threads, End(t), running' = running
        PROVE  BusyIsRunning'
    <3>1. \A u \in Threads : Busy(u)' => Busy(u)
      BY <2>2, EndTask DEF IInv, Busy
    <3> QED BY <2>2, <3>1 DEF BusyIsRunning
  <2>3. CASE \E t \in Threads : Close(t)
    BY <2>2, <2>3 DEF Close, closeSocket
  <2>4. CASE \E t \in Threads, c \in Connections : Accept(t, c)
    BY <2>4 DEF Accept, BusyIsRunning, Busy
  <2>5. CASE UNCHANGED vars
    BY <2>5 DEF vars, BusyIsRunning, Busy
  <2> QED BY <2>1, <2>3, <2>4, <2>5 DEF Next
<1> QED BY <1>1, <1>2, ModuleInvariance, PTL DEF Spec, SessionInv

\* Whatever the connections do to the record of a module, together they write it
\* as ProgramSession allows: every write follows a look at the record by the
\* same handler, which allowed it, in the same process.
THEOREM ModuleImplementsSessions == Spec => ImplementsSessions
<1>1. Init => \A id \in Identifiers : Session(id)!SessionInit
  BY SessionsStart
<1>2. SessionInv /\ [Next]_vars
        => [\A id \in Identifiers :
              [Session(id)!SessionNext]_(Session(id)!sessionVars)]_vars
  <2> SUFFICES ASSUME SessionInv, [Next]_vars, NEW id \in Identifiers
               PROVE  Lives(id)
    BY DEF Lives
  <2>1. CASE ProcessStep
    BY <2>1, ProcessStepLives
  <2>2. CASE EnvironmentStep
    BY <2>2, EnvironmentStepLives
  <2>3. CASE \E t \in Threads, c \in Connections : Accept(t, c)
    BY <2>3, NothingLives DEF Accept
  <2>4. CASE \E t \in Threads : Close(t)
    BY <2>4, EndLives DEF Close, closeSocket
  <2>5. CASE UNCHANGED vars
    BY <2>5, NothingLives DEF vars
  <2> QED BY <2>1, <2>2, <2>3, <2>4, <2>5 DEF Next
<1> QED BY <1>1, <1>2, ModuleSessionInvariance, PTL DEF Spec, ImplementsSessions

\* The reader of a connection that is idle starts only when it is accepted.
LEMMA OnlyAcceptOpens ==
  ASSUME IInv, [Next]_vars, NEW c \in Connections, Opens(c)
  PROVE  \E t \in Threads : Accept(t, c)
<1> USE DEF IInv, TypeOK, Opens
<1>1. reader[c] = "idle" /\ reader'[c] = "reading"
  OBVIOUS
<1>2. ASSUME NEW t \in Threads, NEW d \in Connections, Accept(t, d)
      PROVE  Accept(t, c)
  BY <1>1, <1>2 DEF Accept
<1>3. ASSUME NEW t \in Threads, HandlerStep(t) PROVE FALSE
  <2>1. ASSUME Handles(t, task[t].conn), Busy(t),
               \A d \in Connections \ {task[t].conn} : reader'[d] = reader[d]
        PROVE  FALSE
    BY <1>1, <2>1, TaskType DEF HandlerOwnsConnection
  <2>2. Busy(t)
    BY <1>3 DEF HandlerStep, ConnectWrites, ReconnectWrites, SessionGranted,
                ShutdownWrites, DisconnectWrites, StartsWriting
  <2>3. CASE SessionGranted(t)
    <3>1. task[t].conn \in Connections /\ sendMessage(t, task[t].conn)
      BY <2>2, <2>3, TaskType DEF SessionGranted
    <3> QED BY <2>1, <2>2, <2>3, <3>1, SendTask
            DEF SessionGranted, Handles, RequestSteps, RecordSteps
  <2>4. CASE ShutdownWrites(t) \/ StartsWriting(t)
    BY <2>1, <2>2, <2>4
       DEF ShutdownWrites, StartsWriting, Handles, RequestSteps, RecordSteps,
           startReadingSequence
  <2>5. CASE UNCHANGED connectionVars
    BY <1>1, <2>5 DEF connectionVars
  <2> QED BY <1>3, <2>3, <2>4, <2>5
        DEF HandlerStep, ConnectWrites, ReconnectWrites, DisconnectWrites
<1>4. ASSUME NEW t \in Threads, NEW d \in Connections,
             ReadHandler(t, d) \/ WriteHandler(t, d) \/ TimerHandler(t, d)
      PROVE  FALSE
  <2>1. CASE MessageHandler(t, d)
    BY <1>1, <2>1 DEF MessageHandler, ConnectRefused, ConnectAccepted,
         ReconnectRefused, ReconnectAccepted, ShutdownAccepted, PingAnswered,
         RequestDropped, MessageArrives, startReadingSequence, sendMessage
  <2>2. CASE ReadStops(t, d) \/ ReadFails(t, d)
    BY <1>1, <2>2 DEF ReadStops, ReadFails
  <2>3. CASE WriteHandler(t, d) \/ TimerHandler(t, d)
    BY <1>1, <2>3 DEF WriteHandler, WriteEnds, WriteFails, TimerHandler,
                      PingWasSeen, PingIsMissing
  <2> QED BY <1>4, <2>1, <2>2, <2>3 DEF ReadHandler
<1>5. ASSUME NEW t \in Threads, Close(t) PROVE FALSE
  BY <1>1, <1>5 DEF Close
<1>6. ASSUME NEW d \in Connections, TimerExpires(d) PROVE FALSE
  BY <1>1, <1>6 DEF TimerExpires
<1>7. ASSUME EnvironmentStep PROVE FALSE
  BY <1>1, <1>7 DEF EnvironmentStep, Crash, Restart, Register, Unregister,
                    connectionVars
<1>8. ~UNCHANGED vars
  BY <1>1 DEF vars, connectionVars
<1> QED BY <1>2, <1>3, <1>4, <1>5, <1>6, <1>7, <1>8 DEF Next, ProcessStep

\* A connection gets an identifier from a Connect that is accepted only.
LEMMA OnlyConnectIdentifies ==
  ASSUME IInv, [Next]_vars, NEW c \in Connections
  PROVE  \/ identifier'[c] \in {identifier[c], NoIdentifier}
         \/ \E t \in Threads, id \in Identifiers : ConnectAccepted(t, c, id)
<1> USE DEF IInv, TypeOK
<1>1. ASSUME NEW t \in Threads, NEW d \in Connections, Accept(t, d)
      PROVE  identifier'[c] \in {identifier[c], NoIdentifier}
  BY <1>1 DEF Accept
<1>2. ASSUME NEW t \in Threads, NEW d \in Connections, NEW id \in Identifiers,
             ConnectAccepted(t, d, id)
      PROVE  identifier'[c] = identifier[c] \/ ConnectAccepted(t, c, id)
  BY <1>2 DEF ConnectAccepted
<1>3. ASSUME NEW t \in Threads, NEW d \in Connections,
             ReadHandler(t, d) \/ WriteHandler(t, d) \/ TimerHandler(t, d),
             ~ \E id \in Identifiers : ConnectAccepted(t, d, id)
      PROVE  identifier' = identifier
  BY <1>3 DEF ReadHandler, MessageHandler, ConnectRefused, ReconnectRefused,
       ReconnectAccepted, ShutdownAccepted, PingAnswered, RequestDropped,
       ReadStops, ReadFails, WriteHandler, WriteEnds, WriteFails, TimerHandler,
       PingWasSeen, PingIsMissing
<1>4. ASSUME NEW t \in Threads, HandlerStep(t) \/ Close(t)
      PROVE  identifier' = identifier
  BY <1>4 DEF HandlerStep, ConnectWrites, ReconnectWrites, SessionGranted,
       ShutdownWrites, DisconnectWrites, StartsWriting, Close, connectionVars
<1>5. ASSUME NEW d \in Connections, TimerExpires(d) PROVE identifier' = identifier
  BY <1>5 DEF TimerExpires
<1>6. ASSUME EnvironmentStep
      PROVE  identifier'[c] \in {identifier[c], NoIdentifier}
  BY <1>6 DEF EnvironmentStep, Crash, Restart, Register, Unregister,
              connectionVars
<1>7. CASE UNCHANGED vars
  BY <1>7 DEF vars, connectionVars
<1> QED BY <1>1, <1>2, <1>3, <1>4, <1>5, <1>6, <1>7 DEF Next, ProcessStep

\* disconnect() marks a record only if its connection has an identifier.
LEMMA DemotesIdentified ==
  ASSUME IInv, [Next]_vars, NEW t \in Threads, NEW id \in Identifiers,
         Demotes(t, id)'
  PROVE  \/ (Demotes(t, id) /\ task'[t] = task[t])
         \/ /\ task'[t].conn \in Connections
            /\ identifier[task'[t].conn] # NoIdentifier
            /\ Busy(t)' /\ ~Busy(t)
<1> USE DEF IInv
<1>1. task'[t] # NoTask /\ task'[t].step = "disconnecting"
  BY DEF Demotes, Busy
<1>2. ASSUME task'[t] = task[t] PROVE Demotes(t, id) /\ task'[t] = task[t]
  BY <1>2 DEF Demotes, Busy
<1>3. ASSUME NEW u \in Threads, NEW c \in Connections, BeginDisconnect(u, c),
             Free(u), task'[t] # task[t]
      PROVE  /\ task'[t].conn \in Connections
             /\ identifier[task'[t].conn] # NoIdentifier
             /\ Busy(t)' /\ ~Busy(t)
  <2>1. u = t
    BY <1>3, BeginDisconnectTask
  <2>2. task'[t] = [step |-> IF getProgram(identifier[c]) = "Connected"
                             THEN "disconnecting" ELSE "closing",
                    conn |-> c, id |-> identifier[c]]
    BY <1>3, <2>1 DEF BeginDisconnect, Begin, TypeOK
  <2>3. getProgram(identifier[c]) = "Connected" /\ task'[t].conn = c
    BY <1>1, <2>2
  <2>4. identifier[c] # NoIdentifier
    BY <2>3, NoIdentifierAssumption DEF getProgram
  <2> QED BY <1>1, <1>3, <2>1, <2>3, <2>4 DEF Busy, Free
<1>4. ASSUME NEW u \in Threads, NEW c \in Connections,
             ReadHandler(u, c) \/ WriteHandler(u, c) \/ TimerHandler(u, c)
      PROVE  task'[t] = task[t] \/ (BeginDisconnect(u, c) /\ Free(u))
  <2>1. CASE MessageHandler(u, c)
    BY <1>1, <2>1 DEF MessageHandler, ConnectRefused, ConnectAccepted,
         ReconnectRefused, ReconnectAccepted, ShutdownAccepted, PingAnswered,
         RequestDropped, sendMessage, Begin, End, TypeOK
  <2>2. CASE ~MessageHandler(u, c)
    BY <1>4, <2>2 DEF ReadHandler, ReadStops, ReadFails, WriteHandler,
         WriteEnds, WriteFails, TimerHandler, PingWasSeen, PingIsMissing
  <2> QED BY <2>1, <2>2
<1>5. ASSUME NEW u \in Threads, HandlerStep(u) \/ Close(u) PROVE task'[t] = task[t]
  BY <1>1, <1>5 DEF HandlerStep, ConnectWrites, ReconnectWrites, SessionGranted,
       ShutdownWrites, DisconnectWrites, StartsWriting, Close, closeSocket,
       sendMessage, Advance, Begin, End, TypeOK
<1>6. ASSUME NEW c \in Connections,
             TimerExpires(c) \/ \E u \in Threads : Accept(u, c)
      PROVE  task' = task
  BY <1>6 DEF TimerExpires, Accept
<1>7. ASSUME EnvironmentStep PROVE task'[t] = task[t]
  BY <1>1, <1>7 DEF EnvironmentStep, Crash, Restart, Register, Unregister
<1>8. ASSUME UNCHANGED vars PROVE task' = task
  BY <1>8 DEF vars
<1> QED BY <1>2, <1>3, <1>4, <1>5, <1>6, <1>7, <1>8 DEF Next, ProcessStep

\* Whoever has an identifier, or is about to mark a record, has connected.
IdentifiedHaveConnected ==
  /\ \A c \in Connections : identifier[c] # NoIdentifier => c \in connected
  /\ OnlyConnectedDemote

\* A connection forgets that it connected only when its object is made anew.
LEMMA HistoryStep ==
  ASSUME IInv, IdentifiedHaveConnected, [HistoryNext]_<<vars, connected>>
  PROVE  IdentifiedHaveConnected'
<1> USE DEF IInv, IdentifiedHaveConnected, OnlyConnectedDemote
<1>1. CASE UNCHANGED <<vars, connected>>
  BY <1>1 DEF vars, connectionVars, Demotes, Busy
<1>2. CASE HistoryNext
  <2>1. [Next]_vars
    BY <1>2 DEF HistoryNext
  <2>2. ASSUME NEW c \in Connections, ~Opens(c), c \in connected
        PROVE  c \in connected'
    BY <1>2, <2>2 DEF HistoryNext
  <2>3. ASSUME NEW c \in Connections, identifier'[c] # NoIdentifier
        PROVE  c \in connected'
    <3>1. ~Opens(c)
      BY <2>1, <2>3, OnlyAcceptOpens DEF Accept, TypeOK
    <3>2. CASE identifier'[c] = identifier[c]
      BY <2>2, <2>3, <3>1, <3>2
    <3>3. CASE \E t \in Threads, id \in Identifiers : ConnectAccepted(t, c, id)
      BY <1>2, <3>1, <3>3 DEF HistoryNext
    <3> QED BY <2>1, <2>3, <3>2, <3>3, OnlyConnectIdentifies
  <2>4. ASSUME NEW t \in Threads, NEW id \in Identifiers, Demotes(t, id)'
        PROVE  task'[t].conn \in connected'
    <3>1. task'[t].conn \in Connections
      BY <2>1, <2>4, DemotesIdentified, TaskType DEF Demotes
    <3>2. ASSUME Opens(task'[t].conn) PROVE FALSE
      <4>1. PICK u \in Threads : Accept(u, task'[t].conn)
        BY <2>1, <3>1, <3>2, OnlyAcceptOpens
      <4>2. task' = task /\ Released(task'[t].conn)
        BY <4>1 DEF Accept
      <4> QED BY <2>4, <4>2 DEF Released, Demotes, Busy
    <3>3. task'[t].conn \in connected
      BY <2>1, <2>4, <3>1, DemotesIdentified
    <3> QED BY <2>2, <3>1, <3>2, <3>3
  <2> QED BY <2>3, <2>4
<1> QED BY <1>1, <1>2

\* A module connection on which no Connect was accepted marks no record when
\* it ends (disconnect), for ModuleConnection initialises what it holds.
THEOREM ModuleOnlyConnectedDemote == HistorySpec => []OnlyConnectedDemote
<1>1. HistorySpec => Spec
  <2>1. HistoryInit => Init
    BY DEF HistoryInit
  <2>2. [HistoryNext]_<<vars, connected>> => [Next]_vars
    BY DEF HistoryNext
  <2> QED BY <2>1, <2>2, PTL DEF HistorySpec, Spec
<1>2. HistoryInit => IdentifiedHaveConnected
  BY DEF HistoryInit, Init, IdentifiedHaveConnected, OnlyConnectedDemote,
         Demotes, Busy
<1>3. IInv /\ IdentifiedHaveConnected /\ [HistoryNext]_<<vars, connected>>
        => IdentifiedHaveConnected'
  BY HistoryStep
<1>4. IdentifiedHaveConnected => OnlyConnectedDemote
  BY DEF IdentifiedHaveConnected
<1> QED BY <1>1, <1>2, <1>3, <1>4, ModuleInvariance, PTL DEF HistorySpec
=============================================================================
