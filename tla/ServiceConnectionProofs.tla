---------------------- MODULE ServiceConnectionProofs ----------------------
(***************************************************************************)
(* The invariants of ServiceConnection, for any number of connections,      *)
(* threads, programs and pending timer handlers.                           *)
(***************************************************************************)
EXTENDS ServiceConnection, ProgramConnectionProofs

\* An object that accepts a connection had no reader and no handler.
LEMMA AcceptIInv ==
  ASSUME IInv, NEW t \in Threads, NEW c \in Connections, Accept(t, c)
  PROVE  IInv'
<1> USE DEF IInv
<1>1. TypeOK'
  BY DEF Accept, TypeOK, RecordsTypeOK
<1>2. /\ reader[c] = "idle" /\ ~Busy(t)
      /\ \A d \in Connections \ {c} :
           reader'[d] = reader[d] /\ identifier'[d] = identifier[d]
  BY DEF Accept, Released, Free, TypeOK
<1>3. HandlerOwnsConnection'
  <2>1. \A u \in Threads \ {t} : task'[u] = task[u] /\ ~Handles(u, c)
    BY <1>2, ReadingIsFree DEF Accept
  <2>2. \A d \in Connections : ~Handles(t, d)'
    BY <1>2 DEF Accept, Handles, Busy
  <2> QED BY <1>2, <2>1, <2>2, OwnStep
<1>4. ConnectedIsGuarded'
  <2>1. \A id : Guarded(id) => Guarded(id)'
    BY <1>2 DEF Accept, Guarded, Guards, Demotes, Busy
  <2> QED BY <2>1, GuardStep DEF Accept, ConnectedIdentifiers
<1> QED BY <1>1, <1>3, <1>4

\* The end of disconnect() touches neither the reader nor the records.
LEMMA CloseIInv ==
  ASSUME IInv, NEW t \in Threads, Close(t)
  PROVE  IInv'
<1> USE DEF IInv
<1>1. /\ task' \in [Threads -> Task \cup {NoTask}] /\ ~Busy(t)'
      /\ \A u \in Threads \ {t} : task'[u] = task[u]
  BY EndTask DEF Close, closeSocket
<1>2. TypeOK'
  BY <1>1, TaskType DEF Close, closeSocket, TypeOK, RecordsTypeOK
<1>3. HandlerOwnsConnection'
  BY <1>1, OtherStep DEF Close, Handles, Busy
<1>4. ConnectedIsGuarded'
  BY <1>1, QuietStep DEF Close, closeSocket
<1> QED BY <1>2, <1>3, <1>4

\* An exception in a message handler ends it and begins the next read.
LEMMA ThrowsIInv ==
  ASSUME IInv, NEW t \in Threads, WriteThrows(t) \/ GrantThrows(t)
  PROVE  IInv'
<1> DEFINE c == task[t].conn
<1> USE DEF IInv
<1>1. /\ Busy(t) /\ task[t].step \in RequestSteps
      /\ End(t) /\ startReadingSequence(c)
      /\ UNCHANGED <<records, running, socket, identifier, waiting, due, writing,
                     abandoned>>
  BY DEF WriteThrows, GrantThrows, RequestSteps, RecordSteps
<1>2. c \in Connections /\ Handles(t, c)
  BY <1>1, TaskType DEF Handles
<1>3. /\ task' \in [Threads -> Task \cup {NoTask}] /\ ~Busy(t)'
      /\ \A u \in Threads \ {t} : task'[u] = task[u]
  BY <1>1, EndTask
<1>4. \A d \in Connections \ {c} : reader'[d] = reader[d]
  BY <1>1 DEF startReadingSequence, TypeOK
<1>5. task[t].step # "disconnecting"
  BY <1>1 DEF RequestSteps, RecordSteps
<1> HIDE DEF c
<1>6. TypeOK'
  BY <1>1, <1>2, <1>3, PartsType DEF TypeOK, RecordsTypeOK
<1>7. HandlerOwnsConnection'
  <2>1. \A u \in Threads \ {t} : ~Handles(u, c)
    BY <1>2 DEF HandlerOwnsConnection
  <2>2. \A d \in Connections : ~Handles(t, d)'
    BY <1>3 DEF Handles
  <2> QED BY <1>1, <1>2, <1>3, <1>4, <2>1, <2>2, OwnStep
<1>8. ConnectedIsGuarded'
  BY <1>1, <1>2, <1>3, <1>5, ReaderKept, QuietStep
<1> QED BY <1>6, <1>7, <1>8

\* Every behaviour of the services' side keeps the inductive invariant.
THEOREM ServiceInvariance == Spec => []IInv
<1>1. Init => IInv
  BY InitIInv
<1>2. IInv /\ [Next]_vars => IInv'
  <2> SUFFICES ASSUME IInv, [Next]_vars PROVE IInv'
    OBVIOUS
  <2>1. CASE ProcessStep \/ EnvironmentStep
    BY <2>1, SharedStepIInv
  <2>2. ASSUME NEW t \in Threads, NEW c \in Connections, Accept(t, c) PROVE IInv'
    BY <2>2, AcceptIInv
  <2>3. ASSUME NEW t \in Threads, Close(t) PROVE IInv'
    BY <2>3, CloseIInv
  <2>4. ASSUME NEW t \in Threads, WriteThrows(t) \/ GrantThrows(t) PROVE IInv'
    BY <2>4, ThrowsIInv
  <2>5. CASE UNCHANGED vars
    BY <2>5, StutterIInv
  <2> QED BY <2>1, <2>2, <2>3, <2>4, <2>5 DEF Next
<1> QED BY <1>1, <1>2, PTL DEF Spec

\* The types of the services' side.
THEOREM ServiceTypeCorrect == Spec => []TypeOK
<1>1. IInv => TypeOK
  BY DEF IInv
<1> QED BY <1>1, ServiceInvariance, PTL

\* While a thread handles a message of a service, no other thread handles one
\* of the same connection and nothing else is read from it.
THEOREM ServiceHandlerOwnsConnection == Spec => []HandlerOwnsConnection
<1>1. IInv => HandlerOwnsConnection
  BY DEF IInv
<1> QED BY <1>1, ServiceInvariance, PTL

\* A service whose record says Connected has a connection that will notice
\* its loss, or is being written off, or is abandoned.
THEOREM ServiceConnectedIsGuarded == Spec => []ConnectedIsGuarded
<1>1. IInv => ConnectedIsGuarded
  BY DEF IInv
<1> QED BY <1>1, ServiceInvariance, PTL

\* When the last service connection has been destroyed, the records that still
\* say Connected are abandoned ones: "Set disconnected state in database" is
\* true of every other.
THEOREM ServiceNobodyLeft == Spec => []NobodyLeftOnlyAbandoned
BY ServiceInvariance, IInvLeavesAbandoned, PTL

\* Until its object is free again, a closed service connection only winds down:
\* the chain of reads goes on towards its end, and until it has made a step no
\* write begins, the timer handlers to come do not grow in number, and a new
\* handler has always cost one of these.
THEOREM ServiceClosedWindsDown == Spec => ClosedWindsDown
<1>1. IInv /\ [Next]_vars
        => [\A c \in Connections :
              socket[c] = "closed" /\ ~Released(c) => WindsDown(c)]_vars
  <2> SUFFICES ASSUME IInv, [Next]_vars, NEW c \in Connections,
                      socket[c] = "closed", ~Released(c)
               PROVE  WindsDown(c)
    OBVIOUS
  <2>1. CASE ProcessStep
    BY <2>1, ProcessStepWindsDown
  <2>2. CASE EnvironmentStep
    BY <2>2, EnvironmentStepWindsDown DEF IInv
  <2>3. ASSUME NEW t \in Threads, NEW d \in Connections, Accept(t, d)
        PROVE  WindsDown(c)
    <3>1. d # c
      BY <2>3 DEF Accept
    <3>2. \A u \in Threads : WorksFor(u, c)' => WorksFor(u, c)
      BY <2>3 DEF Accept, WorksFor, Busy
    <3>3. /\ socket'[c] = "closed" /\ reader'[c] = reader[c]
          /\ waiting'[c] = waiting[c] /\ due' = due /\ writing' = writing
      BY <2>3, <3>1 DEF Accept, IInv, TypeOK
    <3> QED BY <3>2, <3>3, LeftAlone DEF IInv
  <2>4. ASSUME NEW t \in Threads, WriteThrows(t) \/ GrantThrows(t)
        PROVE  WindsDown(c)
    BY <2>4, RequestEndWindsDown
       DEF WriteThrows, GrantThrows, RequestSteps, RecordSteps
  <2>5. ASSUME NEW t \in Threads, Close(t) PROVE WindsDown(c)
    <3>1. \A u \in Threads : WorksFor(u, c)' => WorksFor(u, c)
      BY <2>5, EndTask DEF Close, closeSocket, IInv, WorksFor, Busy
    <3>2. socket'[c] = "closed" /\ reader' = reader /\ writing' = writing
      BY <2>5 DEF Close, closeSocket, IInv, TypeOK
    <3>3. ReaderRank(c)' = ReaderRank(c)
      BY <3>2 DEF ReaderRank
    <3>4. TimerWork(c)' <= TimerWork(c)
      BY <2>5 DEF Close, IInv, TypeOK, TimerWork
    <3> QED BY <3>1, <3>2, <3>3, <3>4, RankType DEF IInv, WindsDown
  <2>6. CASE UNCHANGED vars
    BY <2>6, LeftAlone DEF IInv, vars, connectionVars, WorksFor, Busy
  <2> QED BY <2>1, <2>2, <2>3, <2>4, <2>5, <2>6 DEF Next
<1> QED BY <1>1, ServiceInvariance, PTL DEF Spec, ClosedWindsDown

\* A handler of a service connection runs in a live process only.
THEOREM ServiceSessionInvariance == Spec => []SessionInv
<1>1. Init => BusyIsRunning
  BY SessionsStart
<1>2. IInv /\ BusyIsRunning /\ [Next]_vars => BusyIsRunning'
  <2> SUFFICES ASSUME IInv, BusyIsRunning, [Next]_vars PROVE BusyIsRunning'
    OBVIOUS
  <2>1. CASE ProcessStep \/ EnvironmentStep
    BY <2>1, SharedStepRunning DEF IInv
  <2>2. ASSUME NEW t \in Threads, End(t), running' = running
        PROVE  BusyIsRunning'
    <3>1. \A u \in Threads : Busy(u)' => Busy(u)
      BY <2>2, EndTask DEF IInv, Busy
    <3> QED BY <2>2, <3>1 DEF BusyIsRunning
  <2>3. CASE \E t \in Threads : WriteThrows(t) \/ GrantThrows(t) \/ Close(t)
    BY <2>2, <2>3 DEF WriteThrows, GrantThrows,
                       Close, closeSocket
  <2>4. CASE \E t \in Threads, c \in Connections : Accept(t, c)
    BY <2>4 DEF Accept, BusyIsRunning, Busy
  <2>5. CASE UNCHANGED vars
    BY <2>5 DEF vars, BusyIsRunning, Busy
  <2> QED BY <2>1, <2>3, <2>4, <2>5 DEF Next
<1> QED BY <1>1, <1>2, ServiceInvariance, PTL DEF Spec, SessionInv

\* Whatever the connections do to the record of a service, together they write it
\* as ProgramSession allows: every write follows a look at the record by the
\* same handler, which allowed it, in the same process.
THEOREM ServiceImplementsSessions == Spec => ImplementsSessions
<1>1. Init => \A id \in Identifiers : Session(id)!SessionInit
  BY SessionsStart
<1>2. SessionInv /\ [Next]_vars
        => [\A id \in Identifiers :
              [Session(id)!SessionNext]_(Session(id)!sessionVars)]_vars
  <2> SUFFICES ASSUME SessionInv, [Next]_vars, NEW id \in Identifiers
               PROVE  Lives(id)
    BY DEF Lives
  <2>1. CASE ProcessStep
    BY <2>1, ProcessStepLives
  <2>2. CASE EnvironmentStep
    BY <2>2, EnvironmentStepLives
  <2>3. CASE \E t \in Threads, c \in Connections : Accept(t, c)
    BY <2>3, NothingLives DEF Accept
  <2>4. CASE \E t \in Threads : WriteThrows(t) \/ GrantThrows(t) \/ Close(t)
    BY <2>4, EndLives DEF WriteThrows, GrantThrows,
                       Close, closeSocket
  <2>5. CASE UNCHANGED vars
    BY <2>5, NothingLives DEF vars
  <2> QED BY <2>1, <2>2, <2>3, <2>4, <2>5 DEF Next
<1> QED BY <1>1, <1>2, ServiceSessionInvariance, PTL DEF Spec, ImplementsSessions
=============================================================================
