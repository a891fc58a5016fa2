----------------------- MODULE ProgramConnectionProofs -----------------------
(***************************************************************************)
(* IInv is preserved by every step modules and services share.  There is   *)
(* one lemma per conjunct of IInv, and in it one step per action.          *)
(***************************************************************************)
EXTENDS ProgramConnection, TLAPS

\* A task that begins is a task: whatever the step, the task of every other
\* thread stays as it was.
LEMMA BeginTask ==
  ASSUME TypeOK, NEW t \in Threads, NEW step, NEW c, NEW id,
         [step |-> step, conn |-> c, id |-> id] \in Task,
         Begin(t, step, c, id)
  PROVE  /\ task' \in [Threads -> Task \cup {NoTask}]
         /\ task'[t] = [step |-> step, conn |-> c, id |-> id]
         /\ Busy(t)'
         /\ \A u \in Threads \ {t} : task'[u] = task[u]
BY ConnectionAssumption DEF TypeOK, Begin, Busy

\* The connection and the identifier of a task, to be used as such.
LEMMA TaskType ==
  ASSUME TypeOK, NEW t \in Threads, Busy(t)
  PROVE  /\ task[t].conn \in Connections
         /\ task[t].id \in Identifiers \cup {NoIdentifier}
         /\ task[t].step \in RecordSteps => task[t].id \in Identifiers
         /\ task[t].step \in RequestSteps \cup DisconnectSteps
BY DEF TypeOK, Task, Busy, RequestSteps, RecordSteps, DisconnectSteps

\* The same of a handler that goes on to its next step.
LEMMA AdvanceTask ==
  ASSUME TypeOK, NEW t \in Threads, Busy(t),
         NEW step \in RecordSteps \cup DisconnectSteps,
         step \in RecordSteps => task[t].step \in RecordSteps,
         Advance(t, step)
  PROVE  /\ task' \in [Threads -> Task \cup {NoTask}]
         /\ task'[t] = [step |-> step, conn |-> task[t].conn, id |-> task[t].id]
         /\ Busy(t)'
         /\ \A u \in Threads \ {t} : task'[u] = task[u]
<1>1. [step |-> step, conn |-> task[t].conn, id |-> task[t].id] \in Task
  BY TaskType DEF Task
<1> QED BY <1>1, BeginTask DEF Advance

\* The same of a handler that ends.
LEMMA EndTask ==
  ASSUME TypeOK, NEW t \in Threads, End(t)
  PROVE  /\ task' \in [Threads -> Task \cup {NoTask}]
         /\ ~Busy(t)'
         /\ \A u \in Threads \ {t} : task'[u] = task[u]
BY DEF TypeOK, End, Busy

\* A handler at its reply: it has begun the next read and is done, or it is
\* about to write.  Either way the chain of reads goes on.
LEMMA SendTask ==
  ASSUME TypeOK, NEW t \in Threads, NEW c \in Connections, sendMessage(t, c)
  PROVE  /\ reader' \in [Connections -> {"idle", "reading", "failing", "handling"}]
         /\ task' \in [Threads -> Task \cup {NoTask}]
         /\ \A u \in Threads \ {t} : task'[u] = task[u]
         /\ \A d \in Connections \ {c} : reader'[d] = reader[d]
         /\ \A d \in Connections : reader[d] # "idle" => reader'[d] # "idle"
         /\ \/ ~Busy(t)' /\ startReadingSequence(c)
            \/ /\ task'[t].step = "replying" /\ task'[t].conn = c
               /\ Busy(t)' /\ reader'[c] = "handling" /\ socket[c] = "open"
<1>1. CASE startReadingSequence(c) /\ End(t)
  BY <1>1, EndTask DEF startReadingSequence, TypeOK
<1>2. CASE /\ socket[c] = "open"
           /\ reader' = [reader EXCEPT ![c] = "handling"]
           /\ Begin(t, "replying", c, NoIdentifier)
  <2>1. [step |-> "replying", conn |-> c, id |-> NoIdentifier] \in Task
    BY DEF Task
  <2>2. /\ task' \in [Threads -> Task \cup {NoTask}]
        /\ task'[t] = [step |-> "replying", conn |-> c, id |-> NoIdentifier]
        /\ Busy(t)' /\ \A u \in Threads \ {t} : task'[u] = task[u]
    BY <1>2, <2>1, BeginTask
  <2> QED BY <1>2, <2>2 DEF TypeOK
<1> QED BY <1>1, <1>2 DEF sendMessage

\* disconnect() keeps the identifier of the connection, and intends to write
\* the record exactly if the record says Connected.
LEMMA BeginDisconnectTask ==
  ASSUME TypeOK, NEW t \in Threads, NEW c \in Connections, BeginDisconnect(t, c)
  PROVE  /\ task' \in [Threads -> Task \cup {NoTask}]
         /\ Busy(t)' /\ task'[t].step \in DisconnectSteps
         /\ task'[t].id = identifier[c]
         /\ \A id \in ConnectedIdentifiers : identifier[c] = id => Demotes(t, id)'
         /\ \A u \in Threads \ {t} : task'[u] = task[u]
<1> DEFINE step == IF getProgram(identifier[c]) = "Connected" THEN "disconnecting"
                                                              ELSE "closing"
<1>1. step \in DisconnectSteps
  BY DEF DisconnectSteps
<1>2. identifier[c] \in Identifiers \cup {NoIdentifier}
  BY DEF TypeOK
<1>3. Begin(t, step, c, identifier[c])
  BY DEF BeginDisconnect
<1>4. identifier[c] \in ConnectedIdentifiers => step = "disconnecting"
  BY DEF ConnectedIdentifiers, getProgram
<1> HIDE DEF step
<1>5. [step |-> step, conn |-> c, id |-> identifier[c]] \in Task
  BY <1>1, <1>2 DEF Task
<1>6. /\ task' \in [Threads -> Task \cup {NoTask}]
      /\ task'[t] = [step |-> step, conn |-> c, id |-> identifier[c]]
      /\ Busy(t)'
      /\ \A u \in Threads \ {t} : task'[u] = task[u]
  BY <1>3, <1>5, BeginTask
<1>7. task'[t].step = step /\ task'[t].id = identifier[c]
  BY <1>6
<1>8. \A id \in ConnectedIdentifiers : identifier[c] = id => Demotes(t, id)'
  BY <1>4, <1>6, <1>7 DEF Demotes
<1> QED BY <1>1, <1>6, <1>7, <1>8
-----------------------------------------------------------------------------
(* TypeOK.                                                                 *)

\* No operation on a record gives it a state that does not exist.
LEMMA UpdateType ==
  ASSUME TypeOK, NEW id, NEW state \in ConnectionState, updateProgram(id, state)
  PROVE  RecordsTypeOK'
BY DEF TypeOK, RecordsTypeOK, RecordState, updateProgram

\* Whatever they are called with, the parts of handlers keep the types.
LEMMA PartsType ==
  ASSUME TypeOK, NEW c \in Connections
  PROVE  /\ startReadingSequence(c) =>
              reader' \in [Connections -> {"idle", "reading", "failing", "handling"}]
         /\ setTimerExpiration(c) => /\ waiting' \in [Connections -> BOOLEAN]
                                     /\ due' \in [Connections -> Nat]
<1>1. startReadingSequence(c) =>
        reader' \in [Connections -> {"idle", "reading", "failing", "handling"}]
  BY DEF TypeOK, startReadingSequence
<1>2. setTimerExpiration(c) => /\ waiting' \in [Connections -> BOOLEAN]
                               /\ due' \in [Connections -> Nat]
  BY DEF TypeOK, setTimerExpiration
<1> QED BY <1>1, <1>2

\* Every message handler keeps TypeOK.
LEMMA MessageHandlerType ==
  ASSUME TypeOK, NEW t \in Threads, NEW c \in Connections, MessageHandler(t, c)
  PROVE  TypeOK'
<1> USE DEF RecordSteps
<1>1. ASSUME NEW id \in Identifiers, ConnectRefused(t, c, id) PROVE TypeOK'
  BY <1>1, SendTask DEF ConnectRefused, TypeOK, RecordsTypeOK
<1>2. ASSUME NEW id \in Identifiers, ConnectAccepted(t, c, id) PROVE TypeOK'
  <2>1. task' \in [Threads -> Task \cup {NoTask}]
    BY <1>2, BeginTask DEF ConnectAccepted, Task
  <2>2. abandoned' \in SUBSET Identifiers
    BY <1>2 DEF ConnectAccepted, TypeOK, ConnectedIdentifiers
  <2> QED BY <1>2, <2>1, <2>2 DEF ConnectAccepted, TypeOK, RecordsTypeOK
<1>3. ASSUME NEW id \in Identifiers, ReconnectRefused(t, c, id) PROVE TypeOK'
  BY <1>3, SendTask DEF ReconnectRefused, TypeOK, RecordsTypeOK
<1>4. ASSUME NEW id \in Identifiers, ReconnectAccepted(t, c, id) PROVE TypeOK'
  <2>1. task' \in [Threads -> Task \cup {NoTask}]
    BY <1>4, BeginTask DEF ReconnectAccepted, Task
  <2> QED BY <1>4, <2>1 DEF ReconnectAccepted, TypeOK, RecordsTypeOK
<1>5. ASSUME NEW id \in Identifiers, ShutdownAccepted(t, c, id) PROVE TypeOK'
  <2>1. task' \in [Threads -> Task \cup {NoTask}]
    BY <1>5, BeginTask DEF ShutdownAccepted, Task
  <2> QED BY <1>5, <2>1 DEF ShutdownAccepted, TypeOK, RecordsTypeOK
<1>6. CASE PingAnswered(t, c)
  BY <1>6, PartsType, SendTask DEF PingAnswered, TypeOK, RecordsTypeOK
<1>7. CASE RequestDropped(t, c)
  BY <1>7, PartsType DEF RequestDropped, TypeOK, RecordsTypeOK
<1> QED BY <1>1, <1>2, <1>3, <1>4, <1>5, <1>6, <1>7 DEF MessageHandler

\* Every later step of a handler keeps TypeOK.
LEMMA HandlerStepType ==
  ASSUME TypeOK, NEW t \in Threads, HandlerStep(t)
  PROVE  TypeOK'
<1> DEFINE c == task[t].conn
<1> USE DEF RecordSteps, DisconnectSteps, ConnectionState
<1>1. CASE ConnectWrites(t)
  <2>1. RecordsTypeOK' /\ task' \in [Threads -> Task \cup {NoTask}]
    BY <1>1, UpdateType, AdvanceTask DEF ConnectWrites
  <2> QED BY <1>1, <2>1 DEF ConnectWrites, TypeOK, connectionVars
<1>2. CASE ReconnectWrites(t)
  <2>1. RecordsTypeOK' /\ task' \in [Threads -> Task \cup {NoTask}]
    BY <1>2, UpdateType, AdvanceTask DEF ReconnectWrites
  <2>2. task[t].id \in Identifiers
    BY <1>2, TaskType DEF ReconnectWrites
  <2>3. abandoned' \in SUBSET Identifiers
    BY <1>2, <2>2 DEF ReconnectWrites, TypeOK
  <2> QED BY <1>2, <2>1, <2>3 DEF ReconnectWrites, TypeOK, connectionVars
<1>3. CASE SessionGranted(t)
  <2>1. c \in Connections
    BY <1>3, TaskType DEF SessionGranted
  <2> QED BY <1>3, <2>1, PartsType, SendTask DEF SessionGranted, TypeOK, RecordsTypeOK
<1>4. CASE ShutdownWrites(t)
  <2>1. c \in Connections
    BY <1>4, TaskType DEF ShutdownWrites
  <2>2. RecordsTypeOK' /\ task' \in [Threads -> Task \cup {NoTask}]
    BY <1>4, UpdateType, EndTask DEF ShutdownWrites
  <2> QED BY <1>4, <2>1, <2>2, PartsType DEF ShutdownWrites, TypeOK
<1>5. CASE DisconnectWrites(t)
  <2>1. RecordsTypeOK' /\ task' \in [Threads -> Task \cup {NoTask}]
    BY <1>5, UpdateType, AdvanceTask DEF DisconnectWrites
  <2> QED BY <1>5, <2>1 DEF DisconnectWrites, TypeOK, connectionVars
<1>6. CASE StartsWriting(t)
  <2>1. c \in Connections
    BY <1>6, TaskType DEF StartsWriting
  <2>2. task' \in [Threads -> Task \cup {NoTask}]
    BY <1>6, EndTask DEF StartsWriting
  <2> QED BY <1>6, <2>1, <2>2, PartsType DEF StartsWriting, TypeOK, RecordsTypeOK
<1> QED BY <1>1, <1>2, <1>3, <1>4, <1>5, <1>6 DEF HandlerStep

\* Every step modules and services share keeps TypeOK.
LEMMA ProcessStepType ==
  ASSUME TypeOK, ProcessStep
  PROVE  TypeOK'
<1>1. ASSUME NEW t \in Threads, HandlerStep(t) PROVE TypeOK'
  BY <1>1, HandlerStepType
<1>2. ASSUME NEW t \in Threads, NEW c \in Connections, ReadHandler(t, c)
      PROVE  TypeOK'
  <2>1. CASE MessageHandler(t, c)
    BY <2>1, MessageHandlerType
  <2>2. CASE ReadStops(t, c)
    BY <2>2 DEF ReadStops, TypeOK, RecordsTypeOK, ConnectedIdentifiers
  <2>3. CASE ReadFails(t, c)
    BY <2>3, BeginDisconnectTask DEF ReadFails, TypeOK, RecordsTypeOK
  <2> QED BY <1>2, <2>1, <2>2, <2>3 DEF ReadHandler
<1>3. ASSUME NEW t \in Threads, NEW c \in Connections, WriteHandler(t, c)
      PROVE  TypeOK'
  <2>1. CASE WriteEnds(t, c)
    BY <2>1 DEF WriteEnds, TypeOK, RecordsTypeOK
  <2>2. CASE WriteFails(t, c)
    BY <2>2, BeginDisconnectTask DEF WriteFails, TypeOK, RecordsTypeOK
  <2> QED BY <1>3, <2>1, <2>2 DEF WriteHandler
<1>4. ASSUME NEW t \in Threads, NEW c \in Connections, TimerHandler(t, c)
      PROVE  TypeOK'
  <2>1. CASE PingWasSeen(t, c)
    BY <2>1 DEF PingWasSeen, TypeOK, RecordsTypeOK
  <2>2. CASE PingIsMissing(t, c)
    <3>1. due' \in [Connections -> Nat]
      BY <2>2 DEF PingIsMissing, TypeOK
    <3>2. task' \in [Threads -> Task \cup {NoTask}]
      BY <2>2, BeginDisconnectTask DEF PingIsMissing
    <3> QED BY <2>2, <3>1, <3>2 DEF PingIsMissing, TypeOK, RecordsTypeOK
  <2> QED BY <1>4, <2>1, <2>2 DEF TimerHandler
<1>5. ASSUME NEW c \in Connections, TimerExpires(c) PROVE TypeOK'
  BY <1>5 DEF TimerExpires, TypeOK, RecordsTypeOK
<1> QED BY <1>1, <1>2, <1>3, <1>4, <1>5 DEF ProcessStep

\* A crash, a restart and whoever registers programs keep TypeOK.
LEMMA EnvironmentStepType ==
  ASSUME TypeOK, EnvironmentStep
  PROVE  TypeOK'
<1> USE DEF TypeOK, RecordsTypeOK, RecordState, ConnectionState
<1>1. CASE Crash
  BY <1>1 DEF Crash
<1>2. CASE Restart
  BY <1>2 DEF Restart, markAllConnectedAsDisconnected, connectionVars
<1>3. ASSUME NEW id \in Identifiers, Register(id) PROVE TypeOK'
  BY <1>3 DEF Register, insertOne, connectionVars
<1>4. ASSUME NEW id \in Identifiers, Unregister(id) PROVE TypeOK'
  BY <1>4 DEF Unregister, deleteOne, connectionVars
<1> QED BY <1>1, <1>2, <1>3, <1>4 DEF EnvironmentStep
-----------------------------------------------------------------------------
(* HandlerOwnsConnection.                                                  *)

\* A step of thread t for connection c, whose messages no other thread
\* handles: all is well if it is for t, should t handle them afterwards.
LEMMA OwnStep ==
  ASSUME HandlerOwnsConnection,
         NEW t \in Threads, NEW c \in Connections,
         \A u \in Threads \ {t} : task'[u] = task[u] /\ ~Handles(u, c),
         \A d \in Connections \ {c} :
           reader'[d] = reader[d] /\ identifier'[d] = identifier[d],
         \A d \in Connections :
           Handles(t, d)' => /\ d = c
                             /\ reader'[c] = "handling"
                             /\ task'[t].step = "connecting"
                                  => identifier'[c] = task'[t].id
  PROVE  HandlerOwnsConnection'
<1> SUFFICES ASSUME NEW u \in Threads, NEW d \in Connections, Handles(u, d)'
             PROVE  /\ reader'[d] = "handling"
                    /\ task'[u].step = "connecting" => identifier'[d] = task'[u].id
                    /\ \A v \in Threads : Handles(v, d)' => v = u
  BY DEF HandlerOwnsConnection
<1>1. ASSUME NEW v \in Threads \ {t} PROVE Handles(v, d)' <=> Handles(v, d)
  BY DEF Handles, Busy
<1>2. CASE u = t
  <2>1. d = c
    BY <1>2
  <2> QED BY <1>1, <1>2, <2>1
<1>3. CASE u # t
  <2>1. Handles(u, d) /\ d # c
    BY <1>1, <1>3
  <2>2. task'[u] = task[u] /\ reader'[d] = reader[d] /\ identifier'[d] = identifier[d]
    BY <1>3, <2>1
  <2>3. ~Handles(t, d)'
    BY <2>1
  <2> QED BY <1>1, <1>3, <2>1, <2>2, <2>3 DEF HandlerOwnsConnection
<1> QED BY <1>2, <1>3

\* A step that takes no connection up and leaves the readers and the
\* identifiers alone.
LEMMA OtherStep ==
  ASSUME HandlerOwnsConnection,
         UNCHANGED <<reader, identifier>>,
         \A u \in Threads, c \in Connections :
           Handles(u, c)' => /\ Handles(u, c)
                             /\ task'[u].step = "connecting" => task'[u] = task[u]
  PROVE  HandlerOwnsConnection'
BY DEF HandlerOwnsConnection, Handles

\* While a read is outstanding nobody handles messages.
LEMMA ReadingIsFree ==
  ASSUME HandlerOwnsConnection, NEW c \in Connections, reader[c] # "handling"
  PROVE  \A u \in Threads : ~Handles(u, c)
BY DEF HandlerOwnsConnection

\* A reply is the affair of the thread that handles the connection.
LEMMA SendOwns ==
  ASSUME TypeOK, HandlerOwnsConnection,
         NEW t \in Threads, NEW c \in Connections, sendMessage(t, c),
         \A u \in Threads \ {t} : ~Handles(u, c),
         UNCHANGED identifier
  PROVE  HandlerOwnsConnection'
<1>1. \A u \in Threads \ {t} : task'[u] = task[u] /\ ~Handles(u, c)
  BY SendTask
<1>2. \A d \in Connections \ {c} :
        reader'[d] = reader[d] /\ identifier'[d] = identifier[d]
  BY SendTask
<1>3. ASSUME NEW d \in Connections, Handles(t, d)'
      PROVE  d = c /\ reader'[c] = "handling" /\ task'[t].step # "connecting"
  BY <1>3, SendTask DEF Handles
<1> QED BY <1>1, <1>2, <1>3, OwnStep

\* Every message handler keeps HandlerOwnsConnection.
LEMMA MessageHandlerOwns ==
  ASSUME TypeOK, HandlerOwnsConnection,
         NEW t \in Threads, NEW c \in Connections, MessageHandler(t, c)
  PROVE  HandlerOwnsConnection'
<1>1. reader[c] = "reading" /\ ~Busy(t)
  BY DEF MessageHandler, ConnectRefused, ConnectAccepted, ReconnectRefused,
         ReconnectAccepted, ShutdownAccepted, PingAnswered, RequestDropped,
         MessageArrives, Free
<1>2. \A u \in Threads : ~Handles(u, c)
  BY <1>1, ReadingIsFree
<1>3. \A d \in Connections : ~Handles(t, d)
  BY <1>1 DEF Handles
<1>4. ASSUME startReadingSequence(c), UNCHANGED <<identifier, task>>
      PROVE  HandlerOwnsConnection'
  <2>1. \A d \in Connections \ {c} :
          reader'[d] = reader[d] /\ identifier'[d] = identifier[d]
    BY <1>4 DEF startReadingSequence, TypeOK
  <2>2. \A d \in Connections : ~Handles(t, d)'
    BY <1>3, <1>4 DEF Handles, Busy
  <2> QED BY <1>2, <1>4, <2>1, <2>2, OwnStep
<1>5. ASSUME NEW id \in Identifiers, NEW step \in RecordSteps,
             Begin(t, step, c, id),
             reader' = [reader EXCEPT ![c] = "handling"],
             \/ identifier' = [identifier EXCEPT ![c] = id]
             \/ identifier' = identifier /\ step # "connecting"
      PROVE  HandlerOwnsConnection'
  <2>1. /\ task'[t] = [step |-> step, conn |-> c, id |-> id]
        /\ \A u \in Threads \ {t} : task'[u] = task[u]
    BY <1>5, BeginTask DEF Task
  <2>2. \A d \in Connections \ {c} :
          reader'[d] = reader[d] /\ identifier'[d] = identifier[d]
    BY <1>5 DEF TypeOK
  <2>3. reader'[c] = "handling" /\ (step = "connecting" => identifier'[c] = id)
    BY <1>5 DEF TypeOK
  <2>4. \A d \in Connections : Handles(t, d)' => d = c
    BY <2>1 DEF Handles
  <2> QED BY <1>2, <2>1, <2>2, <2>3, <2>4, OwnStep
<1>6. ASSUME NEW id \in Identifiers, ConnectAccepted(t, c, id)
      PROVE  HandlerOwnsConnection'
  BY <1>5, <1>6 DEF ConnectAccepted, RecordSteps
<1>7. ASSUME NEW id \in Identifiers, ReconnectAccepted(t, c, id)
      PROVE  HandlerOwnsConnection'
  BY <1>5, <1>7 DEF ReconnectAccepted, RecordSteps
<1>8. ASSUME NEW id \in Identifiers, ShutdownAccepted(t, c, id)
      PROVE  HandlerOwnsConnection'
  BY <1>5, <1>8 DEF ShutdownAccepted, RecordSteps
<1>9. CASE \/ \E id \in Identifiers : ConnectRefused(t, c, id)
                                      \/ ReconnectRefused(t, c, id)
           \/ PingAnswered(t, c)
  BY <1>2, <1>9, SendOwns DEF ConnectRefused, ReconnectRefused, PingAnswered
<1>10. CASE RequestDropped(t, c)
  BY <1>4, <1>10 DEF RequestDropped
<1> QED BY <1>6, <1>7, <1>8, <1>9, <1>10 DEF MessageHandler

\* Every later step of a handler keeps HandlerOwnsConnection.
LEMMA HandlerStepOwns ==
  ASSUME TypeOK, HandlerOwnsConnection, NEW t \in Threads, HandlerStep(t)
  PROVE  HandlerOwnsConnection'
<1> DEFINE c == task[t].conn
<1>1. ASSUME Busy(t), task[t].step \in {"connecting", "reconnecting"},
             Advance(t, "granted"), UNCHANGED <<reader, identifier>>
      PROVE  HandlerOwnsConnection'
  <2>1. /\ task'[t] = [step |-> "granted", conn |-> c, id |-> task[t].id]
        /\ \A u \in Threads \ {t} : task'[u] = task[u]
    BY <1>1, AdvanceTask DEF RecordSteps
  <2> QED BY <1>1, <2>1, OtherStep DEF Handles, Busy, RequestSteps, RecordSteps
<1>2. ASSUME Busy(t), task[t].step \in RequestSteps, End(t),
             startReadingSequence(c), UNCHANGED identifier
      PROVE  HandlerOwnsConnection'
  <2>1. c \in Connections /\ Handles(t, c)
    BY <1>2, TaskType DEF Handles
  <2>2. \A u \in Threads \ {t} : task'[u] = task[u] /\ ~Handles(u, c)
    BY <1>2, <2>1, EndTask DEF HandlerOwnsConnection
  <2>3. \A d \in Connections \ {c} :
          reader'[d] = reader[d] /\ identifier'[d] = identifier[d]
    BY <1>2 DEF startReadingSequence, TypeOK
  <2>4. \A d \in Connections : ~Handles(t, d)'
    BY <1>2, EndTask DEF Handles
  <2> HIDE DEF c
  <2> QED BY <2>1, <2>2, <2>3, <2>4, OwnStep
<1>3. CASE DisconnectWrites(t)
  <2>1. /\ task'[t] = [step |-> "closing", conn |-> c, id |-> task[t].id]
        /\ \A u \in Threads \ {t} : task'[u] = task[u]
    BY <1>3, AdvanceTask DEF DisconnectWrites, DisconnectSteps, RecordSteps
  <2> QED BY <1>3, <2>1, OtherStep
          DEF DisconnectWrites, connectionVars, Handles, Busy, RequestSteps,
              RecordSteps
<1>4. CASE ConnectWrites(t) \/ ReconnectWrites(t)
  BY <1>1, <1>4 DEF ConnectWrites, ReconnectWrites, connectionVars
<1>5. CASE SessionGranted(t)
  <2>1. c \in Connections /\ Handles(t, c)
    BY <1>5, TaskType DEF SessionGranted, Handles, RequestSteps, RecordSteps
  <2>2. \A u \in Threads \ {t} : ~Handles(u, c)
    BY <2>1 DEF HandlerOwnsConnection
  <2> QED BY <1>5, <2>1, <2>2, SendOwns DEF SessionGranted
<1>6. CASE ShutdownWrites(t) \/ StartsWriting(t)
  BY <1>2, <1>6 DEF ShutdownWrites, StartsWriting, RequestSteps, RecordSteps
<1> QED BY <1>3, <1>4, <1>5, <1>6 DEF HandlerStep

\* disconnect() begins on a free thread and handles no message.
LEMMA BeginDisconnectOwns ==
  ASSUME TypeOK, HandlerOwnsConnection,
         NEW t \in Threads, NEW c \in Connections, BeginDisconnect(t, c),
         reader[c] # "handling" \/ reader' = reader,
         \A d \in Connections \ {c} : reader'[d] = reader[d],
         UNCHANGED identifier
  PROVE  HandlerOwnsConnection'
<1>1. \A d \in Connections : ~Handles(t, d)'
  BY BeginDisconnectTask DEF Handles, RequestSteps, RecordSteps, DisconnectSteps
<1>2. \A u \in Threads \ {t} : task'[u] = task[u]
  BY BeginDisconnectTask
<1>3. CASE reader[c] # "handling"
  <2>1. \A u \in Threads \ {t} : ~Handles(u, c)
    BY <1>3, ReadingIsFree
  <2> QED BY <1>1, <1>2, <2>1, OwnStep
<1>4. CASE reader' = reader
  BY <1>1, <1>2, <1>4, OtherStep DEF Handles, Busy
<1> QED BY <1>3, <1>4

\* Every step modules and services share keeps HandlerOwnsConnection.
LEMMA ProcessStepOwns ==
  ASSUME TypeOK, HandlerOwnsConnection, ProcessStep
  PROVE  HandlerOwnsConnection'
<1>1. ASSUME UNCHANGED <<reader, identifier, task>> PROVE HandlerOwnsConnection'
  BY <1>1, OtherStep DEF Handles, Busy
<1>2. ASSUME NEW t \in Threads, HandlerStep(t) PROVE HandlerOwnsConnection'
  BY <1>2, HandlerStepOwns
<1>3. ASSUME NEW t \in Threads, NEW c \in Connections, ReadHandler(t, c)
      PROVE  HandlerOwnsConnection'
  <2>1. CASE MessageHandler(t, c)
    BY <2>1, MessageHandlerOwns
  <2>2. CASE ReadStops(t, c)
    <3>1. /\ \A u \in Threads : ~Handles(u, c)
          /\ \A d \in Connections : ~Handles(t, d)
      BY <2>2, ReadingIsFree DEF ReadStops, MessageArrives, Free, Handles
    <3>2. \A d \in Connections \ {c} : reader'[d] = reader[d]
      BY <2>2 DEF ReadStops, TypeOK
    <3>3. \A d \in Connections : ~Handles(t, d)'
      BY <2>2, <3>1 DEF ReadStops, Handles, Busy
    <3> QED BY <2>2, <3>1, <3>2, <3>3, OwnStep DEF ReadStops
  <2>3. CASE ReadFails(t, c)
    <3>1. \A d \in Connections \ {c} : reader'[d] = reader[d]
      BY <2>3 DEF ReadFails, TypeOK
    <3> QED BY <2>3, <3>1, BeginDisconnectOwns DEF ReadFails
  <2> QED BY <1>3, <2>1, <2>2, <2>3 DEF ReadHandler
<1>4. ASSUME NEW t \in Threads, NEW c \in Connections, WriteHandler(t, c)
      PROVE  HandlerOwnsConnection'
  BY <1>1, <1>4, BeginDisconnectOwns DEF WriteHandler, WriteEnds, WriteFails
<1>5. ASSUME NEW t \in Threads, NEW c \in Connections, TimerHandler(t, c)
      PROVE  HandlerOwnsConnection'
  BY <1>1, <1>5, BeginDisconnectOwns DEF TimerHandler, PingWasSeen, PingIsMissing
<1>6. ASSUME NEW c \in Connections, TimerExpires(c) PROVE HandlerOwnsConnection'
  BY <1>1, <1>6 DEF TimerExpires
<1> QED BY <1>2, <1>3, <1>4, <1>5, <1>6 DEF ProcessStep

\* So do a crash, after which no thread does anything, and the others.
LEMMA EnvironmentStepOwns ==
  ASSUME HandlerOwnsConnection, EnvironmentStep
  PROVE  HandlerOwnsConnection'
<1>1. CASE Crash
  BY <1>1 DEF Crash, HandlerOwnsConnection, Handles, Busy
<1>2. CASE UNCHANGED connectionVars /\ UNCHANGED task
  BY <1>2, OtherStep DEF connectionVars, Handles, Busy
<1> QED BY <1>1, <1>2 DEF EnvironmentStep, Restart, Register, Unregister
-----------------------------------------------------------------------------
(* ConnectedIsGuarded.                                                     *)

\* A record that comes to say Connected must be guarded or abandoned; one
\* that goes on saying so must be guarded still.
LEMMA GuardStep ==
  ASSUME ConnectedIsGuarded, UNCHANGED running,
         \A id \in (ConnectedIdentifiers \ abandoned)' :
           \/ Guarded(id)'
           \/ id \in ConnectedIdentifiers \ abandoned /\ (Guarded(id) => Guarded(id)')
  PROVE  ConnectedIsGuarded'
BY DEF ConnectedIsGuarded

\* Nothing is lost by a step of a thread that is not about to write
\* Disconnected, if no reader stops and no connection changes its identifier.
LEMMA GuardsKept ==
  ASSUME NEW t \in Threads,
         ~Busy(t) \/ task[t].step # "disconnecting",
         \A u \in Threads \ {t} : task'[u] = task[u],
         \A c \in Connections : reader[c] # "idle" => reader'[c] # "idle",
         UNCHANGED identifier
  PROVE  \A id : Guarded(id) => Guarded(id)'
<1> SUFFICES ASSUME NEW id, Guarded(id) PROVE Guarded(id)'
  OBVIOUS
<1>1. CASE \E c \in Connections : Guards(c, id)
  BY <1>1 DEF Guarded, Guards
<1>2. CASE \E u \in Threads : Demotes(u, id)
  <2>1. PICK u \in Threads : Demotes(u, id)
    BY <1>2
  <2>2. u # t
    BY <2>1 DEF Demotes
  <2>3. Demotes(u, id)'
    BY <2>1, <2>2 DEF Demotes, Busy
  <2> QED BY <2>3 DEF Guarded
<1> QED BY <1>1, <1>2 DEF Guarded

\* The next read begins whether or not the socket is open.
LEMMA ReaderKept ==
  ASSUME TypeOK, NEW c \in Connections, startReadingSequence(c)
  PROVE  \A d \in Connections : reader[d] # "idle" => reader'[d] # "idle"
BY DEF TypeOK, startReadingSequence

\* A step that changes no record, no task, no reader to idle and no
\* identifier.
LEMMA QuietStep ==
  ASSUME ConnectedIsGuarded, NEW t \in Threads,
         ~Busy(t) \/ task[t].step # "disconnecting",
         \A u \in Threads \ {t} : task'[u] = task[u],
         \A c \in Connections : reader[c] # "idle" => reader'[c] # "idle",
         UNCHANGED <<records, running, identifier, abandoned>>
  PROVE  ConnectedIsGuarded'
<1>1. \A id : Guarded(id) => Guarded(id)'
  BY GuardsKept
<1> QED BY <1>1, GuardStep DEF ConnectedIdentifiers

\* Every message handler keeps ConnectedIsGuarded.
LEMMA MessageHandlerGuarded ==
  ASSUME TypeOK, ConnectedIsGuarded,
         NEW t \in Threads, NEW c \in Connections, MessageHandler(t, c)
  PROVE  ConnectedIsGuarded'
<1>1. ASSUME NEW id \in Identifiers, ConnectAccepted(t, c, id)
      PROVE  ConnectedIsGuarded'
  <2>1. ~Busy(t) /\ \A u \in Threads \ {t} : task'[u] = task[u]
    BY <1>1, BeginTask DEF ConnectAccepted, MessageArrives, Free, Task, RecordSteps
  <2>2. \A d \in Connections \ {c} :
          reader'[d] = reader[d] /\ identifier'[d] = identifier[d]
    BY <1>1 DEF ConnectAccepted, TypeOK
  <2>3. ASSUME NEW x \in (ConnectedIdentifiers \ abandoned)'
        PROVE  /\ x \in ConnectedIdentifiers \ abandoned
               /\ Guarded(x) => Guarded(x)'
    <3>1. x \in ConnectedIdentifiers \ abandoned /\ x # identifier[c]
      BY <1>1, <2>3 DEF ConnectAccepted, ConnectedIdentifiers
    <3>2. ASSUME NEW d \in Connections, Guards(d, x) PROVE Guards(d, x)'
      BY <2>2, <3>1, <3>2 DEF Guards
    <3>3. ASSUME NEW u \in Threads, Demotes(u, x) PROVE Demotes(u, x)'
      BY <2>1, <3>3 DEF Demotes, Busy
    <3> QED BY <3>1, <3>2, <3>3 DEF Guarded
  <2> QED BY <1>1, <2>3, GuardStep DEF ConnectAccepted
<1>2. ASSUME NEW id \in Identifiers,
             ReconnectAccepted(t, c, id) \/ ShutdownAccepted(t, c, id)
      PROVE  ConnectedIsGuarded'
  <2>1. ~Busy(t) /\ \A u \in Threads \ {t} : task'[u] = task[u]
    BY <1>2, BeginTask DEF ReconnectAccepted, ShutdownAccepted, MessageArrives,
                           Free, Task, RecordSteps
  <2>2. \A d \in Connections : reader[d] # "idle" => reader'[d] # "idle"
    BY <1>2 DEF ReconnectAccepted, ShutdownAccepted, TypeOK
  <2> QED BY <1>2, <2>1, <2>2, QuietStep DEF ReconnectAccepted, ShutdownAccepted
<1>3. CASE \/ \E id \in Identifiers : ConnectRefused(t, c, id)
                                      \/ ReconnectRefused(t, c, id)
           \/ PingAnswered(t, c)
  <2>1. ~Busy(t) /\ sendMessage(t, c)
        /\ UNCHANGED <<records, running, identifier, abandoned>>
    BY <1>3 DEF ConnectRefused, ReconnectRefused, PingAnswered, MessageArrives, Free
  <2> QED BY <2>1, SendTask, QuietStep
<1>4. CASE RequestDropped(t, c)
  BY <1>4, ReaderKept, QuietStep DEF RequestDropped, MessageArrives, Free
<1> QED BY <1>1, <1>2, <1>3, <1>4 DEF MessageHandler

\* What an update makes of the set of the records that say Connected.
LEMMA UpdateConnected ==
  ASSUME TypeOK, NEW id, NEW state, updateProgram(id, state)
  PROVE  /\ ConnectedIdentifiers' \subseteq ConnectedIdentifiers \cup {id}
         /\ state # "Connected" =>
              ConnectedIdentifiers' \subseteq ConnectedIdentifiers \ {id}
BY DEF TypeOK, RecordsTypeOK, RecordState, ConnectionState, updateProgram,
       ConnectedIdentifiers

\* Every later step of a handler keeps ConnectedIsGuarded.
LEMMA HandlerStepGuarded ==
  ASSUME TypeOK, HandlerOwnsConnection, ConnectedIsGuarded,
         NEW t \in Threads, HandlerStep(t)
  PROVE  ConnectedIsGuarded'
<1> DEFINE c == task[t].conn
           id == task[t].id
<1>1. CASE ConnectWrites(t)
  <2>1. c \in Connections /\ identifier[c] = id /\ reader[c] = "handling"
    BY <1>1, TaskType DEF ConnectWrites, HandlerOwnsConnection, Handles, RequestSteps,
                            RecordSteps
  <2>2. UNCHANGED <<running, reader, identifier>>
    BY <1>1 DEF ConnectWrites, connectionVars
  <2>3. \A x : x = id => Guarded(x)'
    BY <2>1, <2>2 DEF Guarded, Guards
  <2>4. \A x : Guarded(x) => Guarded(x)'
    <3>1. \A u \in Threads \ {t} : task'[u] = task[u]
      BY <1>1, AdvanceTask DEF ConnectWrites, RecordSteps
    <3> QED BY <1>1, <2>2, <3>1, GuardsKept DEF ConnectWrites
  <2>5. (ConnectedIdentifiers \ abandoned)'
          \subseteq (ConnectedIdentifiers \ abandoned) \cup {id}
    BY <1>1, UpdateConnected DEF ConnectWrites
  <2> HIDE DEF id, c
  <2> QED BY <2>2, <2>3, <2>4, <2>5, GuardStep
<1>2. CASE ReconnectWrites(t)
  <2>1. c \in Connections /\ reader[c] = "handling"
    BY <1>2, TaskType DEF ReconnectWrites, HandlerOwnsConnection, Handles, RequestSteps,
                            RecordSteps
  <2>2. UNCHANGED <<running, reader, identifier>>
    BY <1>2 DEF ReconnectWrites, connectionVars
  <2>3. identifier[c] = id => \A x : x = id => Guarded(x)'
    BY <2>1, <2>2 DEF Guarded, Guards
  <2>4. \A x : Guarded(x) => Guarded(x)'
    <3>1. \A u \in Threads \ {t} : task'[u] = task[u]
      BY <1>2, AdvanceTask DEF ReconnectWrites, RecordSteps
    <3> QED BY <1>2, <2>2, <3>1, GuardsKept DEF ReconnectWrites
  <2>5. (ConnectedIdentifiers \ abandoned)'
          \subseteq (ConnectedIdentifiers \ abandoned)
                      \cup (IF identifier[c] = id THEN {id} ELSE {})
    BY <1>2, UpdateConnected DEF ReconnectWrites
  <2> HIDE DEF id, c
  <2> QED BY <2>2, <2>3, <2>4, <2>5, GuardStep
<1>3. CASE SessionGranted(t)
  <2>1. c \in Connections /\ sendMessage(t, c)
    BY <1>3, TaskType DEF SessionGranted
  <2> HIDE DEF c
  <2> QED BY <1>3, <2>1, SendTask, QuietStep DEF SessionGranted
<1>4. CASE ShutdownWrites(t)
  <2>1. c \in Connections /\ \A u \in Threads \ {t} : task'[u] = task[u]
    BY <1>4, TaskType, EndTask DEF ShutdownWrites
  <2>2. \A d \in Connections : reader[d] # "idle" => reader'[d] # "idle"
    BY <1>4, <2>1, ReaderKept DEF ShutdownWrites
  <2>3. \A x : Guarded(x) => Guarded(x)'
    BY <1>4, <2>1, <2>2, GuardsKept DEF ShutdownWrites
  <2>4. (ConnectedIdentifiers \ abandoned)' \subseteq ConnectedIdentifiers \ abandoned
    BY <1>4, UpdateConnected DEF ShutdownWrites
  <2> QED BY <1>4, <2>3, <2>4, GuardStep DEF ShutdownWrites
<1>5. CASE DisconnectWrites(t)
  <2>1. UNCHANGED <<running, reader, identifier>>
    BY <1>5 DEF DisconnectWrites, connectionVars
  <2>2. (ConnectedIdentifiers \ abandoned)'
          \subseteq (ConnectedIdentifiers \ abandoned) \ {id}
    BY <1>5, UpdateConnected DEF DisconnectWrites
  <2>3. \A u \in Threads \ {t} : task'[u] = task[u]
    BY <1>5, AdvanceTask DEF DisconnectWrites, DisconnectSteps, RecordSteps
  <2>4. ASSUME NEW x, x # id, Guarded(x) PROVE Guarded(x)'
    <3>1. ASSUME NEW d \in Connections, Guards(d, x) PROVE Guards(d, x)'
      BY <2>1, <3>1 DEF Guards
    <3>2. ASSUME NEW u \in Threads, Demotes(u, x) PROVE Demotes(u, x)'
      BY <2>3, <2>4, <3>2 DEF Demotes, Busy
    <3> QED BY <2>4, <3>1, <3>2 DEF Guarded
  <2> HIDE DEF id
  <2> QED BY <2>1, <2>2, <2>4, GuardStep
<1>6. CASE StartsWriting(t)
  <2>1. c \in Connections /\ \A u \in Threads \ {t} : task'[u] = task[u]
    BY <1>6, TaskType, EndTask DEF StartsWriting
  <2>2. \A d \in Connections : reader[d] # "idle" => reader'[d] # "idle"
    BY <1>6, <2>1, ReaderKept DEF StartsWriting
  <2> QED BY <1>6, <2>1, <2>2, QuietStep DEF StartsWriting
<1> QED BY <1>1, <1>2, <1>3, <1>4, <1>5, <1>6 DEF HandlerStep

\* disconnect() begins on a free thread, and takes over the record from the
\* reader that stops.
LEMMA BeginDisconnectGuarded ==
  ASSUME TypeOK, ConnectedIsGuarded,
         NEW t \in Threads, NEW c \in Connections,
         ~Busy(t), BeginDisconnect(t, c),
         \A d \in Connections \ {c} : reader'[d] = reader[d],
         UNCHANGED <<records, running, identifier, abandoned>>
  PROVE  ConnectedIsGuarded'
<1>1. ASSUME NEW x \in (ConnectedIdentifiers \ abandoned)'
      PROVE  /\ x \in ConnectedIdentifiers \ abandoned
             /\ Guarded(x) => Guarded(x)'
  <2>1. x \in ConnectedIdentifiers \ abandoned
    BY <1>1 DEF ConnectedIdentifiers
  <2>2. ASSUME NEW d \in Connections, Guards(d, x) PROVE Guarded(x)'
    <3>1. CASE d = c
      BY <2>1, <2>2, <3>1, BeginDisconnectTask DEF Guards, Guarded
    <3>2. CASE d # c
      BY <2>2, <3>2 DEF Guards, Guarded
    <3> QED BY <3>1, <3>2
  <2>3. ASSUME NEW u \in Threads, Demotes(u, x) PROVE Guarded(x)'
    <3>1. u # t /\ task'[u] = task[u]
      BY <2>3, BeginDisconnectTask DEF Demotes
    <3> QED BY <2>3, <3>1 DEF Demotes, Guarded, Busy
  <2> QED BY <2>1, <2>2, <2>3 DEF Guarded
<1> QED BY <1>1, GuardStep

\* Every step modules and services share keeps ConnectedIsGuarded.
LEMMA ProcessStepGuarded ==
  ASSUME TypeOK, HandlerOwnsConnection, ConnectedIsGuarded, ProcessStep
  PROVE  ConnectedIsGuarded'
<1>1. ASSUME NEW t \in Threads, ~Busy(t),
             UNCHANGED <<records, running, reader, identifier, task, abandoned>>
      PROVE  ConnectedIsGuarded'
  BY <1>1, QuietStep
<1>2. ASSUME NEW t \in Threads, HandlerStep(t) PROVE ConnectedIsGuarded'
  BY <1>2, HandlerStepGuarded
<1>3. ASSUME NEW t \in Threads, NEW c \in Connections, ReadHandler(t, c)
      PROVE  ConnectedIsGuarded'
  <2>1. CASE MessageHandler(t, c)
    BY <2>1, MessageHandlerGuarded
  <2>2. CASE ReadStops(t, c)
    <3>1. ASSUME NEW x \in (ConnectedIdentifiers \ abandoned)'
          PROVE  /\ x \in ConnectedIdentifiers \ abandoned
                 /\ Guarded(x) => Guarded(x)'
      <4>1. x \in ConnectedIdentifiers \ abandoned /\ x # identifier[c]
        BY <2>2, <3>1 DEF ReadStops, ConnectedIdentifiers
      <4>2. ASSUME NEW d \in Connections, Guards(d, x) PROVE Guards(d, x)'
        BY <2>2, <4>1, <4>2 DEF Guards, ReadStops, TypeOK
      <4>3. ASSUME NEW u \in Threads, Demotes(u, x) PROVE Demotes(u, x)'
        BY <2>2, <4>3 DEF Demotes, Busy, ReadStops
      <4> QED BY <4>1, <4>2, <4>3 DEF Guarded
    <3> QED BY <2>2, <3>1, GuardStep DEF ReadStops
  <2>3. CASE ReadFails(t, c)
    <3>1. \A d \in Connections \ {c} : reader'[d] = reader[d]
      BY <2>3 DEF ReadFails, TypeOK
    <3> QED BY <2>3, <3>1, BeginDisconnectGuarded DEF ReadFails, Free
  <2> QED BY <1>3, <2>1, <2>2, <2>3 DEF ReadHandler
<1>4. ASSUME NEW t \in Threads, NEW c \in Connections, WriteHandler(t, c)
      PROVE  ConnectedIsGuarded'
  BY <1>1, <1>4, BeginDisconnectGuarded DEF WriteHandler, WriteEnds, WriteFails, Free
<1>5. ASSUME NEW t \in Threads, NEW c \in Connections, TimerHandler(t, c)
      PROVE  ConnectedIsGuarded'
  BY <1>1, <1>5, BeginDisconnectGuarded
     DEF TimerHandler, PingWasSeen, PingIsMissing, Free
<1>6. ASSUME NEW c \in Connections, TimerExpires(c) PROVE ConnectedIsGuarded'
  BY <1>6 DEF TimerExpires, ConnectedIsGuarded, ConnectedIdentifiers, Guarded,
              Guards, Demotes, Busy
<1> QED BY <1>2, <1>3, <1>4, <1>5, <1>6 DEF ProcessStep

\* A restart leaves no record that says Connected; a new record does not say
\* it either.
LEMMA EnvironmentStepGuarded ==
  ASSUME TypeOK, ConnectedIsGuarded, EnvironmentStep
  PROVE  ConnectedIsGuarded'
<1>1. CASE Crash
  BY <1>1 DEF Crash, ConnectedIsGuarded
<1>2. CASE Restart
  <2>1. ConnectedIdentifiers' = {}
    BY <1>2 DEF Restart, markAllConnectedAsDisconnected, ConnectedIdentifiers
  <2> QED BY <2>1 DEF ConnectedIsGuarded
<1>3. ASSUME NEW id \in Identifiers, Register(id) \/ Unregister(id)
      PROVE  ConnectedIsGuarded'
  <2>1. (ConnectedIdentifiers \ abandoned)' \subseteq ConnectedIdentifiers \ abandoned
    BY <1>3 DEF Register, Unregister, insertOne, deleteOne, ConnectedIdentifiers,
                TypeOK, RecordsTypeOK
  <2>2. \A x : Guarded(x) => Guarded(x)'
    BY <1>3 DEF Register, Unregister, connectionVars, Guarded, Guards, Demotes, Busy
  <2> QED BY <1>3, <2>1, <2>2, GuardStep DEF Register, Unregister
<1> QED BY <1>1, <1>2, <1>3 DEF EnvironmentStep
-----------------------------------------------------------------------------
(* IInv.                                                                   *)

\* IInv holds when the watchdog starts: no record says Connected, no thread
\* does anything.
LEMMA InitIInv == Init => IInv
<1> SUFFICES ASSUME Init PROVE IInv
  OBVIOUS
<1>1. TypeOK
  BY DEF Init, TypeOK, RecordsTypeOK, RecordState, ConnectionState
<1>2. HandlerOwnsConnection
  BY DEF Init, HandlerOwnsConnection, Handles, Busy
<1>3. ConnectedIsGuarded
  BY DEF Init, ConnectedIsGuarded, ConnectedIdentifiers
<1> QED BY <1>1, <1>2, <1>3 DEF IInv

\* IInv is kept by whatever modules and services do alike.
LEMMA SharedStepIInv == IInv /\ (ProcessStep \/ EnvironmentStep) => IInv'
BY ProcessStepType, ProcessStepOwns, ProcessStepGuarded, EnvironmentStepType,
   EnvironmentStepOwns, EnvironmentStepGuarded DEF IInv

\* IInv depends on vars only.
LEMMA StutterIInv == IInv /\ UNCHANGED vars => IInv'
BY DEF IInv, vars, connectionVars, TypeOK, RecordsTypeOK, HandlerOwnsConnection,
       Handles, Busy, ConnectedIsGuarded, ConnectedIdentifiers, Guarded, Guards,
       Demotes
-----------------------------------------------------------------------------
(* ClosedWindsDown.                                                        *)

LEMMA RankType ==
  ASSUME TypeOK, NEW c \in Connections
  PROVE  /\ ReaderRank(c) \in 0..3 /\ due[c] \in Nat /\ TimerWork(c) \in Nat
         /\ reader[c] = "idle" <=> ReaderRank(c) = 0
BY DEF TypeOK, ReaderRank, TimerWork

\* A step that does nothing to a closed connection, but perhaps ends a task.
LEMMA LeftAlone ==
  ASSUME TypeOK, NEW c \in Connections, socket'[c] = "closed",
         reader'[c] = reader[c], waiting'[c] = waiting[c], due'[c] = due[c],
         writing'[c] = writing[c],
         \A t \in Threads : WorksFor(t, c)' => WorksFor(t, c)
  PROVE  WindsDown(c)
<1>1. ReaderRank(c)' = ReaderRank(c) /\ TimerWork(c)' = TimerWork(c)
  BY DEF ReaderRank, TimerWork
<1> QED BY <1>1, RankType DEF WindsDown

\* A step of the chain of reads, whatever else happens in it.
LEMMA ReadsLess ==
  ASSUME TypeOK, NEW c \in Connections, socket'[c] = "closed",
         \/ reader[c] = "reading" /\ reader'[c] \in {"handling", "failing", "idle"}
         \/ reader[c] = "handling" /\ reader'[c] = "failing"
         \/ reader[c] = "failing" /\ reader'[c] = "idle"
  PROVE  WindsDown(c)
<1>1. ReaderRank(c) \in Nat /\ ReaderRank(c)' \in Nat
      /\ ReaderRank(c)' < ReaderRank(c)
  BY DEF ReaderRank
<1> QED BY <1>1 DEF WindsDown

\* A message handler takes a step of the chain of reads.
LEMMA MessageHandlerWindsDown ==
  ASSUME TypeOK, NEW t \in Threads, NEW d \in Connections, MessageHandler(t, d),
         NEW c \in Connections, socket[c] = "closed"
  PROVE  WindsDown(c)
<1>1. /\ reader[d] = "reading" /\ socket' = socket /\ writing' = writing
      /\ \/ reader' = [reader EXCEPT ![d] = "handling"]
         \/ startReadingSequence(d)
      /\ UNCHANGED <<waiting, due>> \/ setTimerExpiration(d)
  BY DEF MessageHandler, ConnectRefused, ConnectAccepted, ReconnectRefused,
         ReconnectAccepted, ShutdownAccepted, PingAnswered, RequestDropped,
         MessageArrives, sendMessage
<1>2. CASE d = c
  <2>1. reader'[c] \in {"handling", "failing"}
    BY <1>1, <1>2 DEF TypeOK, startReadingSequence
  <2> QED BY <1>1, <1>2, <2>1, ReadsLess
<1>3. CASE d # c
  <2>1. /\ reader'[c] = reader[c]
        /\ waiting'[c] = waiting[c] /\ due'[c] = due[c]
    BY <1>1, <1>3 DEF TypeOK, startReadingSequence, setTimerExpiration
  <2>2. /\ \A u \in Threads \ {t} : task'[u] = task[u]
        /\ ~Busy(t)' \/ task'[t].conn = d
    <3>1. CASE sendMessage(t, d)
      BY <3>1, SendTask
    <3>2. CASE ~sendMessage(t, d)
      BY <3>2 DEF MessageHandler, ConnectRefused, ConnectAccepted, ReconnectRefused,
           ReconnectAccepted, ShutdownAccepted, PingAnswered, RequestDropped,
           MessageArrives, Free, Busy, Begin, TypeOK
    <3> QED BY <3>1, <3>2
  <2>3. \A u \in Threads : WorksFor(u, c)' => WorksFor(u, c)
    BY <1>3, <2>2 DEF WorksFor, Busy
  <2> QED BY <1>1, <2>1, <2>3, LeftAlone
<1> QED BY <1>2, <1>3

\* The end of a message handler, which is in the chain of reads.  Of a
\* connection that is closed, no handler is about to reply that is not already.
LEMMA RequestEndWindsDown ==
  ASSUME IInv, NEW t \in Threads, Busy(t), task[t].step \in RequestSteps,
         \/ End(t) /\ startReadingSequence(task[t].conn)
         \/ sendMessage(t, task[t].conn),
         socket' = socket,
         \/ writing' = writing
         \/ writing' = [writing EXCEPT ![task[t].conn] = TRUE],
         UNCHANGED <<waiting, due>> \/ setTimerExpiration(task[t].conn),
         NEW c \in Connections, socket[c] = "closed"
  PROVE  WindsDown(c)
<1> DEFINE d == task[t].conn
<1>1. d \in Connections /\ reader[d] = "handling"
  BY TaskType DEF IInv, HandlerOwnsConnection, Handles
<1>2. CASE d = c
  <2>1. reader'[c] = "failing"
    BY <1>1, <1>2 DEF IInv, TypeOK, startReadingSequence, sendMessage
  <2> QED BY <1>1, <1>2, <2>1, ReadsLess DEF IInv
<1>3. CASE d # c
  <2>1. /\ reader'[c] = reader[c] /\ writing'[c] = writing[c]
        /\ waiting'[c] = waiting[c] /\ due'[c] = due[c]
    BY <1>3 DEF IInv, TypeOK, startReadingSequence, sendMessage,
                setTimerExpiration
  <2>2. /\ \A u \in Threads \ {t} : task'[u] = task[u]
        /\ ~Busy(t)' \/ task'[t].conn = d
    BY <1>1, EndTask, SendTask DEF IInv
  <2>3. \A u \in Threads : WorksFor(u, c)' => WorksFor(u, c)
    BY <1>3, <2>2 DEF WorksFor, Busy
  <2> QED BY <2>1, <2>3, LeftAlone DEF IInv
<1> QED BY <1>2, <1>3

LEMMA HandlerStepWindsDown ==
  ASSUME IInv, NEW t \in Threads, HandlerStep(t),
         NEW c \in Connections, socket[c] = "closed"
  PROVE  WindsDown(c)
<1>1. CASE SessionGranted(t)
  BY <1>1, RequestEndWindsDown DEF SessionGranted, RequestSteps, RecordSteps
<1>2. CASE ShutdownWrites(t) \/ StartsWriting(t)
  BY <1>2, RequestEndWindsDown
     DEF ShutdownWrites, StartsWriting, RequestSteps, RecordSteps
<1>3. CASE ConnectWrites(t) \/ ReconnectWrites(t) \/ DisconnectWrites(t)
  <2>1. Busy(t) /\ UNCHANGED connectionVars
    BY <1>3 DEF ConnectWrites, ReconnectWrites, DisconnectWrites
  <2>2. /\ task'[t].conn = task[t].conn
        /\ \A u \in Threads \ {t} : task'[u] = task[u]
    BY <1>3 DEF ConnectWrites, ReconnectWrites, DisconnectWrites, Advance,
                Begin, IInv, TypeOK
  <2>3. \A u \in Threads : WorksFor(u, c)' => WorksFor(u, c)
    BY <2>1, <2>2 DEF WorksFor, Busy
  <2> QED BY <2>1, <2>3, LeftAlone DEF IInv, connectionVars
<1> QED BY <1>1, <1>2, <1>3 DEF HandlerStep

\* disconnect() begins in a handler of connection d, and takes up work for no
\* other.
LEMMA BeginDisconnectWorksFor ==
  ASSUME TypeOK, NEW t \in Threads, NEW d \in Connections, BeginDisconnect(t, d),
         NEW c \in Connections \ {d}
  PROVE  \A u \in Threads : WorksFor(u, c)' => WorksFor(u, c)
<1>1. /\ task'[t].conn = d
      /\ \A u \in Threads \ {t} : task'[u] = task[u]
  BY DEF BeginDisconnect, Begin, TypeOK
<1> QED BY <1>1 DEF WorksFor, Busy

\* Whatever modules and services do alike, a closed connection winds down.
LEMMA ProcessStepWindsDown ==
  ASSUME IInv, ProcessStep, NEW c \in Connections, socket[c] = "closed"
  PROVE  WindsDown(c)
<1> USE DEF IInv
<1>1. ASSUME NEW t \in Threads, HandlerStep(t) PROVE WindsDown(c)
  BY <1>1, HandlerStepWindsDown
<1>2. ASSUME NEW t \in Threads, NEW d \in Connections, ReadHandler(t, d)
      PROVE  WindsDown(c)
  <2>1. CASE MessageHandler(t, d)
    BY <2>1, MessageHandlerWindsDown
  <2>2. CASE ReadStops(t, d) \/ ReadFails(t, d)
    <3>1. /\ reader[d] \in {"reading", "failing"}
          /\ reader' = [reader EXCEPT ![d] = "idle"]
          /\ UNCHANGED <<socket, waiting, due, writing>>
          /\ task' = task \/ BeginDisconnect(t, d)
      BY <2>2 DEF ReadStops, ReadFails, MessageArrives
    <3>2. CASE d = c
      BY <3>1, <3>2, ReadsLess DEF TypeOK
    <3>3. CASE d # c
      <4>1. \A u \in Threads : WorksFor(u, c)' => WorksFor(u, c)
        BY <3>1, <3>3, BeginDisconnectWorksFor DEF WorksFor, Busy
      <4>2. reader'[c] = reader[c]
        BY <3>1, <3>3 DEF TypeOK
      <4> QED BY <3>1, <4>1, <4>2, LeftAlone
    <3> QED BY <3>2, <3>3
  <2> QED BY <1>2, <2>1, <2>2 DEF ReadHandler
<1>3. ASSUME NEW t \in Threads, NEW d \in Connections, WriteHandler(t, d)
      PROVE  WindsDown(c)
  <2>1. /\ writing[d] /\ writing' = [writing EXCEPT ![d] = FALSE]
        /\ UNCHANGED <<socket, reader, waiting, due>>
        /\ task' = task \/ BeginDisconnect(t, d)
    BY <1>3 DEF WriteHandler, WriteEnds, WriteFails
  <2>2. CASE d = c
    <3>1. writing[c] /\ ~writing'[c]
      BY <2>1, <2>2 DEF TypeOK
    <3>2. ReaderRank(c)' = ReaderRank(c) /\ TimerWork(c)' = TimerWork(c)
      BY <2>1 DEF ReaderRank, TimerWork
    <3> QED BY <2>1, <3>1, <3>2, RankType DEF WindsDown
  <2>3. CASE d # c
    <3>1. \A u \in Threads : WorksFor(u, c)' => WorksFor(u, c)
      BY <2>1, <2>3, BeginDisconnectWorksFor DEF WorksFor, Busy
    <3>2. writing'[c] = writing[c]
      BY <2>1, <2>3 DEF TypeOK
    <3> QED BY <2>1, <3>1, <3>2, LeftAlone
  <2> QED BY <2>2, <2>3
<1>4. ASSUME NEW t \in Threads, NEW d \in Connections, TimerHandler(t, d)
      PROVE  WindsDown(c)
  <2>1. /\ due[d] > 0 /\ due' = [due EXCEPT ![d] = @ - 1]
        /\ UNCHANGED <<socket, reader, waiting, writing>>
        /\ task' = task \/ BeginDisconnect(t, d)
    BY <1>4 DEF TimerHandler, PingWasSeen, PingIsMissing
  <2>2. CASE d = c
    <3>1. ReaderRank(c)' = ReaderRank(c) /\ TimerWork(c)' < TimerWork(c)
      BY <2>1, <2>2, RankType DEF TypeOK, ReaderRank, TimerWork
    <3>2. TimerWork(c)' \in Nat
      BY <2>1, <2>2, RankType DEF TypeOK, TimerWork
    <3> QED BY <2>1, <3>1, <3>2, RankType DEF WindsDown
  <2>3. CASE d # c
    <3>1. \A u \in Threads : WorksFor(u, c)' => WorksFor(u, c)
      BY <2>1, <2>3, BeginDisconnectWorksFor DEF WorksFor, Busy
    <3>2. due'[c] = due[c]
      BY <2>1, <2>3 DEF TypeOK
    <3> QED BY <2>1, <3>1, <3>2, LeftAlone
  <2> QED BY <2>2, <2>3
<1>5. ASSUME NEW d \in Connections, TimerExpires(d) PROVE WindsDown(c)
  <2>1. \A u \in Threads : WorksFor(u, c)' => WorksFor(u, c)
    BY <1>5 DEF TimerExpires, WorksFor, Busy
  <2>2. CASE d = c
    <3>1. ReaderRank(c)' = ReaderRank(c) /\ TimerWork(c)' = TimerWork(c) - 1
      BY <1>5, <2>2 DEF TimerExpires, TypeOK, ReaderRank, TimerWork
    <3> QED BY <1>5, <2>1, <3>1, RankType DEF TimerExpires, WindsDown
  <2>3. CASE d # c
    BY <1>5, <2>1, <2>3, LeftAlone DEF TimerExpires, TypeOK
  <2> QED BY <2>2, <2>3
<1> QED BY <1>1, <1>2, <1>3, <1>4, <1>5 DEF ProcessStep

\* So it does in a crash, which leaves nothing of it.
LEMMA EnvironmentStepWindsDown ==
  ASSUME TypeOK, EnvironmentStep, NEW c \in Connections, socket[c] = "closed"
  PROVE  WindsDown(c)
<1>1. CASE Crash
  <2>1. /\ socket'[c] = "closed" /\ reader'[c] = "idle" /\ ~waiting'[c]
        /\ due'[c] = 0 /\ ~writing'[c] /\ \A t \in Threads : ~Busy(t)'
    BY <1>1 DEF Crash, Busy
  <2>2. ReaderRank(c)' = 0 /\ TimerWork(c)' = 0
    BY <2>1 DEF ReaderRank, TimerWork
  <2> QED BY <2>1, <2>2, RankType DEF WindsDown, WorksFor
<1>2. CASE ~Crash
  <2>1. UNCHANGED <<connectionVars, task>>
    BY <1>2 DEF EnvironmentStep, Restart, Register, Unregister
  <2> QED BY <2>1, LeftAlone DEF connectionVars, WorksFor, Busy
<1> QED BY <1>1, <1>2
-----------------------------------------------------------------------------
(* ImplementsSessions.                                                     *)

\* Handlers are at work in a process only: a crash ends them all.
BusyIsRunning == \A t \in Threads : Busy(t) => running

\* A thread becomes busy when it is free, and a free thread has a process.
LEMMA SharedStepRunning ==
  ASSUME TypeOK, BusyIsRunning, ProcessStep \/ EnvironmentStep
  PROVE  BusyIsRunning'
<1>1. CASE ProcessStep
  <2>1. ASSUME NEW t \in Threads, Busy(t) PROVE running
    BY <2>1 DEF BusyIsRunning
  <2>2. ASSUME NEW t \in Threads, HandlerStep(t) PROVE running /\ running' = running
    BY <2>1, <2>2 DEF HandlerStep, ConnectWrites, ReconnectWrites,
                      SessionGranted, ShutdownWrites, DisconnectWrites,
                      StartsWriting
  <2>3. ASSUME NEW t \in Threads, NEW c \in Connections,
               ReadHandler(t, c) \/ WriteHandler(t, c) \/ TimerHandler(t, c)
        PROVE  running /\ running' = running
    BY <2>3 DEF ReadHandler, MessageHandler, ConnectRefused, ConnectAccepted,
         ReconnectRefused, ReconnectAccepted, ShutdownAccepted, PingAnswered,
         RequestDropped, MessageArrives, ReadStops, ReadFails, WriteHandler,
         WriteEnds, WriteFails, TimerHandler, PingWasSeen, PingIsMissing, Free
  <2>4. ASSUME NEW c \in Connections, TimerExpires(c)
        PROVE  running /\ running' = running
    BY <2>4 DEF TimerExpires
  <2>5. running'
    BY <1>1, <2>2, <2>3, <2>4 DEF ProcessStep
  <2> QED BY <2>5 DEF BusyIsRunning
<1>2. CASE Crash
  BY <1>2 DEF Crash, BusyIsRunning, Busy
<1>3. CASE EnvironmentStep /\ ~Crash
  <2>1. task' = task /\ (running => running')
    BY <1>3 DEF EnvironmentStep, Restart, Register, Unregister
  <2> QED BY <2>1 DEF BusyIsRunning, Busy
<1> QED BY <1>1, <1>2, <1>3 DEF EnvironmentStep

SessionInv == IInv /\ BusyIsRunning

\* A step of the session of one program, or none.
Lives(id) == [Session(id)!SessionNext]_(Session(id)!sessionVars)

\* The intent of a thread.
LEMMA IntentOf ==
  ASSUME NEW id, NEW t \in Threads
  PROVE  /\ Busy(t) /\ task[t].id = id /\ task[t].step \in DOMAIN Intent
             => IntentTo(id)[t] = Intent[task[t].step] /\ IntentTo(id)[t] # "none"
         /\ ~(Busy(t) /\ task[t].id = id /\ task[t].step \in DOMAIN Intent)
             => IntentTo(id)[t] = "none"
         /\ DOMAIN Intent = {"connecting", "reconnecting", "shuttingDown",
                             "disconnecting"}
BY DEF IntentTo, Intent

\* What becomes of the intents when one thread moves on.
LEMMA IntentMoves ==
  ASSUME NEW id, NEW t \in Threads,
         \A u \in Threads \ {t} : task'[u] = task[u]
  PROVE  IntentTo(id)' = [IntentTo(id) EXCEPT ![t] = IntentTo(id)'[t]]
<1>1. ASSUME NEW u \in Threads \ {t} PROVE IntentTo(id)'[u] = IntentTo(id)[u]
  BY <1>1 DEF IntentTo, Busy
<1>2. IntentTo(id)' = [u \in Threads |-> IntentTo(id)'[u]]
  BY DEF IntentTo
<1>3. IntentTo(id) = [u \in Threads |-> IntentTo(id)[u]]
  BY DEF IntentTo
<1> QED BY <1>1, <1>2, <1>3

\* A step that has nothing to do with the program.
LEMMA SessionRests ==
  ASSUME NEW id \in Identifiers, running' = running, records'[id] = records[id],
         NEW t \in Threads, \A u \in Threads \ {t} : task'[u] = task[u],
         IntentTo(id)'[t] = IntentTo(id)[t]
  PROVE  Lives(id)
<1>1. IntentTo(id)' = IntentTo(id)
  <2>1. IntentTo(id) = [u \in Threads |-> IntentTo(id)[u]]
    BY DEF IntentTo
  <2> QED BY <2>1, IntentMoves
<1> QED BY <1>1 DEF Lives, Session!sessionVars

\* A handler that begins, with step as what it is about to write to the record
\* of program i, has looked at a record that allows it.
LEMMA BeginLives ==
  ASSUME SessionInv, NEW t \in Threads, Free(t), NEW c \in Connections,
         NEW i \in Identifiers \cup {NoIdentifier}, NEW step,
         [step |-> step, conn |-> c, id |-> i] \in Task,
         Begin(t, step, c, i), UNCHANGED <<records, running>>,
         NEW id \in Identifiers,
         i = id /\ step \in DOMAIN Intent => Intent[step] \in Session(id)!Allowed
  PROVE  Lives(id)
<1>1. /\ task'[t] = [step |-> step, conn |-> c, id |-> i] /\ Busy(t)'
      /\ \A u \in Threads \ {t} : task'[u] = task[u]
  BY BeginTask DEF SessionInv, IInv
<1>2. IntentTo(id)[t] = "none"
  BY IntentOf DEF Free
<1>3. CASE i = id /\ step \in DOMAIN Intent
  <2>1. IntentTo(id)'[t] = Intent[step]
    BY <1>1, <1>3 DEF IntentTo
  <2>2. IntentTo(id)' = [IntentTo(id) EXCEPT ![t] = Intent[step]]
    BY <1>1, <2>1, IntentMoves
  <2>3. Session(id)!Looks(t)
    BY <1>2, <1>3, <2>2 DEF Session!Looks, Session!None, Free
  <2> QED BY <2>3 DEF Lives, Session!SessionNext
<1>4. CASE ~(i = id /\ step \in DOMAIN Intent)
  <2>1. IntentTo(id)'[t] = "none"
    BY <1>1, <1>4 DEF IntentTo
  <2> QED BY <1>1, <1>2, <2>1, SessionRests
<1> QED BY <1>3, <1>4

\* disconnect() intends to write a record only if it says Connected.
LEMMA BeginDisconnectLives ==
  ASSUME SessionInv, NEW t \in Threads, Free(t), NEW c \in Connections,
         BeginDisconnect(t, c), UNCHANGED <<records, running>>,
         NEW id \in Identifiers
  PROVE  Lives(id)
<1> DEFINE step == IF getProgram(identifier[c]) = "Connected" THEN "disconnecting"
                                                              ELSE "closing"
<1>1. identifier[c] \in Identifiers \cup {NoIdentifier}
  BY DEF SessionInv, IInv, TypeOK
<1>2. [step |-> step, conn |-> c, id |-> identifier[c]] \in Task
  BY <1>1 DEF Task, DisconnectSteps
<1>3. Begin(t, step, c, identifier[c])
  BY DEF BeginDisconnect
<1>4. ASSUME identifier[c] = id, step \in DOMAIN Intent
      PROVE  Intent[step] \in Session(id)!Allowed
  <2>1. step = "disconnecting" /\ records[id] = "Connected"
    BY <1>4 DEF Intent, getProgram
  <2> QED BY <2>1 DEF Intent, Session!Allowed
<1> HIDE DEF step
<1> QED BY <1>1, <1>2, <1>3, <1>4, BeginLives

\* A handler that has written the record it looked at, and intends to write
\* no more.
LEMMA WriteLives ==
  ASSUME SessionInv, NEW t \in Threads, Busy(t), task[t].step \in DOMAIN Intent,
         updateProgram(task[t].id, Intent[task[t].step]), running' = running,
         \A u \in Threads \ {t} : task'[u] = task[u],
         Busy(t)' => task'[t].step \notin DOMAIN Intent,
         NEW id \in Identifiers
  PROVE  Lives(id)
<1>1. IntentTo(id)'[t] = "none"
  BY DEF IntentTo
<1>2. CASE task[t].id = id
  <2>1. IntentTo(id)[t] = Intent[task[t].step] /\ IntentTo(id)[t] # "none"
    BY <1>2, IntentOf
  <2>2. records'[id] = IF records[id] = "Missing" THEN records[id]
                                                  ELSE IntentTo(id)[t]
    BY <1>2, <2>1 DEF updateProgram, SessionInv, IInv, TypeOK, RecordsTypeOK
  <2>3. IntentTo(id)' = [IntentTo(id) EXCEPT ![t] = "none"]
    BY <1>1, IntentMoves
  <2>4. Session(id)!Writes(t)
    BY <2>1, <2>2, <2>3 DEF Session!Writes, Session!None, SessionInv, BusyIsRunning
  <2> QED BY <2>4 DEF Lives, Session!SessionNext
<1>3. CASE task[t].id # id
  <2>1. IntentTo(id)[t] = "none" /\ records'[id] = records[id]
    BY <1>3, IntentOf DEF updateProgram, SessionInv, IInv, TypeOK, RecordsTypeOK
  <2> QED BY <1>1, <2>1, SessionRests
<1> QED BY <1>2, <1>3

\* A handler that will not write a record any more, whatever it intended.
LEMMA NoMoreWrites ==
  ASSUME SessionInv, NEW t \in Threads, Busy(t),
         \A u \in Threads \ {t} : task'[u] = task[u],
         Busy(t)' => task'[t].step \notin DOMAIN Intent,
         UNCHANGED <<records, running>>, NEW id \in Identifiers
  PROVE  Lives(id)
<1>1. IntentTo(id)'[t] = "none"
  BY DEF IntentTo
<1>2. CASE IntentTo(id)[t] = "none"
  BY <1>1, <1>2, SessionRests
<1>3. CASE IntentTo(id)[t] # "none"
  <2>1. IntentTo(id)' = [IntentTo(id) EXCEPT ![t] = "none"]
    BY <1>1, IntentMoves
  <2>2. Session(id)!GivesUp(t)
    BY <1>3, <2>1 DEF Session!GivesUp, Session!None, SessionInv, BusyIsRunning
  <2> QED BY <2>2 DEF Lives, Session!SessionNext
<1> QED BY <1>2, <1>3

\* A handler that ends without a write.
LEMMA EndLives ==
  ASSUME SessionInv, NEW t \in Threads, Busy(t), End(t),
         UNCHANGED <<records, running>>, NEW id \in Identifiers
  PROVE  Lives(id)
<1>1. ~Busy(t)' /\ \A u \in Threads \ {t} : task'[u] = task[u]
  BY EndTask DEF SessionInv, IInv
<1> QED BY <1>1, NoMoreWrites

\* A reply writes no record.
LEMMA SendLives ==
  ASSUME SessionInv, NEW t \in Threads, NEW c \in Connections, sendMessage(t, c),
         UNCHANGED <<records, running>>, NEW id \in Identifiers
  PROVE  Lives(id)
<1>1. \A u \in Threads \ {t} : task'[u] = task[u]
  BY SendTask DEF SessionInv, IInv
<1>2. Busy(t)' => task'[t].step \notin DOMAIN Intent
  BY SendTask DEF SessionInv, IInv, Intent
<1>3. CASE Busy(t)
  BY <1>1, <1>2, <1>3, NoMoreWrites
<1>4. CASE ~Busy(t)
  <2>1. IntentTo(id)[t] = "none" /\ IntentTo(id)'[t] = "none"
    BY <1>2, <1>4 DEF IntentTo
  <2> QED BY <1>1, <2>1, SessionRests
<1> QED BY <1>3, <1>4

\* A step that touches no record and no task.
LEMMA NothingLives ==
  ASSUME UNCHANGED <<records, running, task>>, NEW id \in Identifiers
  PROVE  Lives(id)
<1>1. IntentTo(id)' = IntentTo(id)
  BY DEF IntentTo, Busy
<1> QED BY <1>1 DEF Lives, Session!sessionVars

LEMMA MessageHandlerLives ==
  ASSUME SessionInv, NEW t \in Threads, NEW c \in Connections, MessageHandler(t, c),
         NEW id \in Identifiers
  PROVE  Lives(id)
<1> USE DEF RecordSteps, Intent
<1>1. ASSUME NEW i \in Identifiers, ConnectAccepted(t, c, i) PROVE Lives(id)
  <2>1. /\ Free(t) /\ Begin(t, "connecting", c, i)
        /\ UNCHANGED <<records, running>>
        /\ records[i] \in {"Registered", "Disconnected"}
    BY <1>1 DEF ConnectAccepted, MessageArrives, getProgram
  <2>2. [step |-> "connecting", conn |-> c, id |-> i] \in Task
    BY DEF Task
  <2>3. i = id => "Connected" \in Session(id)!Allowed
    BY <2>1 DEF Session!Allowed
  <2> QED BY <2>1, <2>2, <2>3, BeginLives
<1>2. ASSUME NEW i \in Identifiers, ReconnectAccepted(t, c, i) PROVE Lives(id)
  <2>1. /\ Free(t) /\ Begin(t, "reconnecting", c, i)
        /\ UNCHANGED <<records, running>> /\ records[i] = "Disconnected"
    BY <1>2 DEF ReconnectAccepted, MessageArrives, getProgram
  <2>2. [step |-> "reconnecting", conn |-> c, id |-> i] \in Task
    BY DEF Task
  <2>3. i = id => "Connected" \in Session(id)!Allowed
    BY <2>1 DEF Session!Allowed
  <2> QED BY <2>1, <2>2, <2>3, BeginLives
<1>3. ASSUME NEW i \in Identifiers, ShutdownAccepted(t, c, i) PROVE Lives(id)
  <2>1. /\ Free(t) /\ Begin(t, "shuttingDown", c, i)
        /\ UNCHANGED <<records, running>> /\ records[i] # "Missing"
    BY <1>3 DEF ShutdownAccepted, MessageArrives, getProgram
  <2>2. [step |-> "shuttingDown", conn |-> c, id |-> i] \in Task
    BY DEF Task
  <2>3. i = id => "Registered" \in Session(id)!Allowed
    BY <2>1 DEF Session!Allowed
  <2> QED BY <2>1, <2>2, <2>3, BeginLives
<1>4. CASE UNCHANGED <<records, running, task>>
  BY <1>4, NothingLives
<1>5. CASE sendMessage(t, c) /\ UNCHANGED <<records, running>>
  BY <1>5, SendLives
<1> QED BY <1>1, <1>2, <1>3, <1>4, <1>5
        DEF MessageHandler, ConnectRefused, ReconnectRefused, PingAnswered,
            RequestDropped

LEMMA HandlerStepLives ==
  ASSUME SessionInv, NEW t \in Threads, HandlerStep(t), NEW id \in Identifiers
  PROVE  Lives(id)
<1> USE DEF RecordSteps, DisconnectSteps
<1>0. /\ DOMAIN Intent = {"connecting", "reconnecting", "shuttingDown",
                          "disconnecting"}
      /\ Intent["connecting"] = "Connected" /\ Intent["reconnecting"] = "Connected"
      /\ Intent["shuttingDown"] = "Registered"
      /\ Intent["disconnecting"] = "Disconnected"
  BY DEF Intent
<1>1. CASE ConnectWrites(t) \/ ReconnectWrites(t)
  <2>1. /\ Busy(t) /\ task[t].step \in {"connecting", "reconnecting"}
        /\ updateProgram(task[t].id, "Connected") /\ Advance(t, "granted")
        /\ running' = running
    BY <1>1 DEF ConnectWrites, ReconnectWrites
  <2>2. /\ task'[t].step = "granted"
        /\ \A u \in Threads \ {t} : task'[u] = task[u]
    <3>1. TypeOK
      BY DEF SessionInv, IInv
    <3>2. /\ task'[t] = [step |-> "granted", conn |-> task[t].conn, id |-> task[t].id]
          /\ \A u \in Threads \ {t} : task'[u] = task[u]
      BY <2>1, <3>1, AdvanceTask
    <3> QED BY <3>2
  <2> QED BY <1>0, <2>1, <2>2, WriteLives
<1>2. CASE DisconnectWrites(t)
  <2>1. /\ Busy(t) /\ task[t].step = "disconnecting"
        /\ updateProgram(task[t].id, "Disconnected") /\ Advance(t, "closing")
        /\ running' = running
    BY <1>2 DEF DisconnectWrites
  <2>2. /\ task'[t].step = "closing"
        /\ \A u \in Threads \ {t} : task'[u] = task[u]
    <3>1. TypeOK
      BY DEF SessionInv, IInv
    <3>2. /\ task'[t] = [step |-> "closing", conn |-> task[t].conn, id |-> task[t].id]
          /\ \A u \in Threads \ {t} : task'[u] = task[u]
      BY <2>1, <3>1, AdvanceTask
    <3> QED BY <3>2
  <2> QED BY <1>0, <2>1, <2>2, WriteLives
<1>3. CASE ShutdownWrites(t)
  <2>1. /\ Busy(t) /\ task[t].step = "shuttingDown"
        /\ updateProgram(task[t].id, "Registered") /\ End(t)
        /\ running' = running
    BY <1>3 DEF ShutdownWrites
  <2>2. ~Busy(t)' /\ \A u \in Threads \ {t} : task'[u] = task[u]
    BY <2>1, EndTask DEF SessionInv, IInv
  <2> QED BY <1>0, <2>1, <2>2, WriteLives
<1>4. CASE SessionGranted(t)
  BY <1>4, TaskType, SendLives DEF SessionGranted, SessionInv, IInv
<1>5. CASE StartsWriting(t)
  BY <1>5, EndLives DEF StartsWriting
<1> QED BY <1>1, <1>2, <1>3, <1>4, <1>5 DEF HandlerStep

LEMMA ProcessStepLives ==
  ASSUME SessionInv, ProcessStep, NEW id \in Identifiers
  PROVE  Lives(id)
<1>1. ASSUME NEW t \in Threads, HandlerStep(t) PROVE Lives(id)
  BY <1>1, HandlerStepLives
<1>2. ASSUME NEW t \in Threads, NEW c \in Connections, MessageHandler(t, c)
      PROVE  Lives(id)
  BY <1>2, MessageHandlerLives
<1>3. ASSUME NEW t \in Threads, NEW c \in Connections,
             \/ ReadStops(t, c) \/ ReadFails(t, c)
             \/ WriteHandler(t, c) \/ TimerHandler(t, c)
      PROVE  Lives(id)
  <2>1. /\ Free(t) /\ UNCHANGED <<records, running>>
        /\ task' = task \/ BeginDisconnect(t, c)
    BY <1>3 DEF ReadStops, ReadFails, MessageArrives, WriteHandler, WriteEnds,
                WriteFails, TimerHandler, PingWasSeen, PingIsMissing
  <2> QED BY <2>1, NothingLives, BeginDisconnectLives
<1>4. ASSUME NEW c \in Connections, TimerExpires(c) PROVE Lives(id)
  BY <1>4, NothingLives DEF TimerExpires
<1> QED BY <1>1, <1>2, <1>3, <1>4 DEF ProcessStep, ReadHandler

LEMMA EnvironmentStepLives ==
  ASSUME SessionInv, EnvironmentStep, NEW id \in Identifiers
  PROVE  Lives(id)
<1>1. CASE Crash
  <2>1. IntentTo(id)' = [u \in Threads |-> "none"]
    BY <1>1 DEF Crash, IntentTo, Busy
  <2>2. Session(id)!Dies
    BY <1>1, <2>1 DEF Crash, Session!Dies, Session!None
  <2> QED BY <2>2 DEF Lives, Session!SessionNext
<1>2. ASSUME task' = task PROVE IntentTo(id)' = IntentTo(id)
  BY <1>2 DEF IntentTo, Busy
<1>3. CASE Restart
  <2>1. Session(id)!Starts
    BY <1>2, <1>3 DEF Restart, markAllConnectedAsDisconnected, Session!Starts
  <2> QED BY <2>1 DEF Lives, Session!SessionNext
<1>4. ASSUME NEW i \in Identifiers, Register(i) \/ Unregister(i)
      PROVE  Lives(id)
  <2>1. CASE i # id
    <3>1. UNCHANGED <<running, task>> /\ records'[id] = records[id]
      BY <1>4, <2>1 DEF Register, Unregister, insertOne, deleteOne, SessionInv,
                        IInv, TypeOK, RecordsTypeOK
    <3> QED BY <1>2, <3>1 DEF Lives, Session!sessionVars
  <2>2. CASE i = id
    <3>1. Session(id)!Registers \/ Session(id)!Unregisters
      BY <1>2, <1>4, <2>2
         DEF Register, Unregister, insertOne, deleteOne, SessionInv, IInv,
             TypeOK, RecordsTypeOK, Session!Registers, Session!Unregisters
    <3> QED BY <3>1 DEF Lives, Session!SessionNext
  <2> QED BY <2>1, <2>2
<1> QED BY <1>1, <1>3, <1>4 DEF EnvironmentStep

\* At the start every record is that of a session, and nobody writes.
LEMMA SessionsStart ==
  ASSUME Init
  PROVE  BusyIsRunning /\ \A id \in Identifiers : Session(id)!SessionInit
<1>1. ASSUME NEW id \in Identifiers PROVE Session(id)!SessionInit
  <2>1. IntentTo(id) = [u \in Threads |-> "none"]
    BY DEF Init, IntentTo, Busy
  <2>2. records[id] \in {"Registered", "Disconnected", "Missing"}
    BY DEF Init, RecordState, ConnectionState
  <2> QED BY <2>1, <2>2 DEF Init, Session!SessionInit, Session!None
<1>2. BusyIsRunning
  BY DEF Init, BusyIsRunning
<1> QED BY <1>1, <1>2
-----------------------------------------------------------------------------
(* What is left when nobody is.                                            *)

\* NobodyLeftNobodyConnected, which a Reconnect breaks, but for the records
\* nobody answers for.
NobodyLeftOnlyAbandoned ==
  running /\ (\A c \in Connections : Released(c))
    => ConnectedIdentifiers \subseteq abandoned

\* Whoever answers for a record has not been released.
LEMMA GuardIsNotReleased ==
  ASSUME TypeOK, NEW id \in Identifiers, Guarded(id)
  PROVE  \E c \in Connections : ~Released(c)
<1>1. ASSUME NEW c \in Connections, Guards(c, id) PROVE ~Released(c)
  BY <1>1 DEF Guards, Released
<1>2. ASSUME NEW t \in Threads, Demotes(t, id)
      PROVE  task[t].conn \in Connections /\ ~Released(task[t].conn)
  BY <1>2, TaskType DEF Demotes, Released
<1> QED BY <1>1, <1>2 DEF Guarded

LEMMA IInvLeavesAbandoned == IInv => NobodyLeftOnlyAbandoned
<1> SUFFICES ASSUME IInv, running, \A c \in Connections : Released(c),
                    NEW id \in ConnectedIdentifiers, id \notin abandoned
             PROVE  FALSE
  BY DEF NobodyLeftOnlyAbandoned
<1>1. id \in Identifiers /\ Guarded(id)
  BY DEF IInv, ConnectedIsGuarded, ConnectedIdentifiers
<1> QED BY <1>1, GuardIsNotReleased DEF IInv
=============================================================================
