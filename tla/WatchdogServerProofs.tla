------------------------- MODULE WatchdogServerProofs -------------------------
(***************************************************************************)
(* Proofs about WatchdogServer, for any programs, threads and number of    *)
(* failures.                                                               *)
(***************************************************************************)
EXTENDS WatchdogServer, TLAPS

\* Before a thread is created there is no connection.
StartPhases == {"readConfiguration", "isConnected", "createAcceptors",
                "markModules", "markServices", "acceptModules",
                "acceptServices"}

IdleAtStart ==
  phase \in StartPhases => /\ \A t \in Threads : worker[t] = "none"
                           /\ \A p \in Programs : session[p] = "none"

\* The loop inserts the client for the modules first, and is through when main
\* joins the threads.
MapsAreFull ==
  /\ client["service"] \subseteq client["module"]
  /\ phase = "join" => \A k \in Kinds : client[k] = Threads

ServerInv == /\ ServerTypeOK
             /\ IdleAtStart
             /\ MapsAreFull
             /\ OpenIsServed
             /\ ConnectedIsWatched

LEMMA ServerInitHolds == ServerInit => ServerInv
  BY ServerAssumption
     DEF ServerInit, ServerInv, ServerTypeOK, IdleAtStart, StartPhases,
         MapsAreFull, OpenIsServed, ConnectedIsWatched, IsMarked, Phases,
         Kinds

LEMMA ServerTypeStep == ServerTypeOK /\ [ServerNext]_serverVars => ServerTypeOK'
<1> SUFFICES ASSUME ServerTypeOK, [ServerNext]_serverVars
             PROVE  ServerTypeOK'
  OBVIOUS
<1> USE DEF ServerTypeOK, Phases, Kinds, Goes, MayFail
<1>1. CASE MainStep
  <2>1. CASE CreateAcceptors(Kinds)
    BY <2>1, ServerAssumption DEF CreateAcceptors, databaseVars
  <2>2. CASE MarkModules \/ MarkServices
    BY <2>2 DEF MarkModules, MarkServices, MarkAll, processVars
  <2>3. CASE AcceptModules \/ AcceptServices \/ CannotAcceptAny
    BY <2>3 DEF AcceptModules, AcceptServices, CannotAcceptAny, StartAccepting,
                CannotAccept, processVars, databaseVars
  <2>4. CASE ReadConfiguration \/ HasNoInstance \/ IsConnected \/ Join
    BY <2>4 DEF ReadConfiguration, HasNoInstance, IsConnected, Join,
                processVars, databaseVars
  <2>5. ASSUME NEW t \in Threads, CreateThread(t)
        PROVE  ServerTypeOK'
    BY <2>5 DEF CreateThread, databaseVars
  <2>6. ASSUME NEW t \in Threads, FillModulesMap(t)
        PROVE  ServerTypeOK'
    BY <2>6 DEF FillModulesMap, databaseVars
  <2>7. ASSUME NEW t \in Threads, FillServicesMap(t)
        PROVE  ServerTypeOK'
    BY <2>7 DEF FillServicesMap, databaseVars
  <2> QED BY <1>1, <2>1, <2>2, <2>3, <2>4, <2>5, <2>6, <2>7 DEF MainStep
<1>2. CASE Failure
  <2>1. ASSUME NEW made \in SUBSET Kinds, CreateAcceptors(made)
        PROVE  ServerTypeOK'
    BY <2>1, ServerAssumption DEF CreateAcceptors, databaseVars
  <2>2. CASE IsNotConnected \/ CreateThreadsFails \/ Crash
    BY <2>2, ServerAssumption
       DEF IsNotConnected, CreateThreadsFails, Crash, processVars, databaseVars
  <2> QED BY <1>2, <2>1, <2>2 DEF Failure
<1>3. CASE Restart
  BY <1>3 DEF Restart, databaseVars
<1>4. ASSUME NEW t \in Threads, NEW p \in Programs, SessionStep(t, p)
      PROVE  ServerTypeOK'
  <2>1. CASE Accept(t, p)
    <3>1. held' \in SUBSET Programs
      BY <2>1 DEF Accept, Programs
    <3> QED BY <2>1, <3>1 DEF Accept, databaseVars
  <2>2. CASE Connect(t, p) \/ Shutdown(t, p)
    BY <2>2 DEF Connect, Shutdown
  <2>3. CASE Disconnects(t, p) \/ DisconnectsBlind(t, p) \/ Abandons(t, p)
    BY <2>3 DEF Disconnects, DisconnectsBlind, Abandons, Ends
  <2>4. CASE DisconnectsLate(t, p)
    BY <2>4 DEF DisconnectsLate, databaseVars
  <2> QED BY <1>4, <2>1, <2>2, <2>3, <2>4 DEF SessionStep
<1>5. ASSUME NEW t \in Threads, NEW k \in Kinds, AcceptFails(t, k)
      PROVE  ServerTypeOK'
  BY <1>5, ServerAssumption DEF AcceptFails, databaseVars
<1>6. ASSUME NEW t \in Threads, WorkerEnds(t)
      PROVE  ServerTypeOK'
  BY <1>6 DEF WorkerEnds, databaseVars
<1>7. CASE UNCHANGED serverVars
  BY <1>7 DEF serverVars, processVars, databaseVars
<1> QED BY <1>1, <1>2, <1>3, <1>4, <1>5, <1>6, <1>7 DEF ServerNext

\* Who is still at the start is idle, because only a restart leads there from
\* a state with threads.
LEMMA IdleStep ==
  ServerTypeOK /\ IdleAtStart /\ [ServerNext]_serverVars => IdleAtStart'
<1> SUFFICES ASSUME ServerTypeOK, IdleAtStart, [ServerNext]_serverVars
             PROVE  IdleAtStart'
  OBVIOUS
<1> USE DEF IdleAtStart, StartPhases, Goes
<1>1. CASE MainStep
  <2>1. CASE ReadConfiguration \/ IsConnected \/ CreateAcceptors(Kinds)
             \/ MarkModules \/ MarkServices \/ AcceptModules
    BY <2>1 DEF ReadConfiguration, IsConnected, CreateAcceptors, MarkModules,
                MarkServices, AcceptModules, StartAccepting, processVars
  <2>2. CASE AcceptServices \/ CannotAcceptAny \/ HasNoInstance \/ Join
    BY <2>2 DEF AcceptServices, StartAccepting, CannotAcceptAny, CannotAccept,
                HasNoInstance, Join
  <2>3. ASSUME NEW t \in Threads,
               CreateThread(t) \/ FillModulesMap(t) \/ FillServicesMap(t)
        PROVE  IdleAtStart'
    BY <2>3 DEF CreateThread, FillModulesMap, FillServicesMap
  <2> QED BY <1>1, <2>1, <2>2, <2>3 DEF MainStep
<1>2. CASE Failure
  BY <1>2 DEF Failure, IsNotConnected, CreateAcceptors, CreateThreadsFails,
              Crash, processVars
<1>3. CASE Restart
  BY <1>3 DEF Restart
<1>4. ASSUME NEW t \in Threads, NEW p \in Programs, SessionStep(t, p)
      PROVE  IdleAtStart'
  BY <1>4 DEF SessionStep, Accept, Connect, Shutdown, Disconnects,
              DisconnectsBlind, Abandons, DisconnectsLate, Ends, Runs
<1>5. ASSUME NEW t \in Threads, NEW k \in Kinds, AcceptFails(t, k)
      PROVE  IdleAtStart'
  BY <1>5 DEF AcceptFails
<1>6. ASSUME NEW t \in Threads, WorkerEnds(t)
      PROVE  IdleAtStart'
  BY <1>6 DEF WorkerEnds, Runs
<1>7. CASE UNCHANGED serverVars
  BY <1>7 DEF serverVars, processVars
<1> QED BY <1>1, <1>2, <1>3, <1>4, <1>5, <1>6, <1>7 DEF ServerNext

LEMMA MapsStep ==
  ServerTypeOK /\ MapsAreFull /\ [ServerNext]_serverVars => MapsAreFull'
<1> SUFFICES ASSUME ServerTypeOK, MapsAreFull, [ServerNext]_serverVars
             PROVE  MapsAreFull'
  OBVIOUS
<1> USE DEF MapsAreFull, Goes
<1>1. CASE MainStep
  <2>1. ASSUME NEW t \in Threads, FillServicesMap(t)
        PROVE  MapsAreFull'
    <3>1. t \in client["module"] /\ client["module"] \in SUBSET Threads
      BY <2>1 DEF FillServicesMap, ServerTypeOK, Kinds
    <3>2. client' = [client EXCEPT !["service"] = @ \cup {t}]
      BY <2>1 DEF FillServicesMap
    <3>3. /\ client'["service"] = client["service"] \cup {t}
          /\ client'["module"] = client["module"]
      BY <3>2 DEF ServerTypeOK, Kinds
    <3>4. phase' = "join" => client'["service"] = Threads
      BY <2>1 DEF FillServicesMap
    <3> QED BY <3>1, <3>3, <3>4 DEF Kinds
  <2>2. ASSUME NEW t \in Threads, CreateThread(t) \/ FillModulesMap(t)
        PROVE  MapsAreFull'
    BY <2>2 DEF CreateThread, FillModulesMap, ServerTypeOK, Kinds
  <2>3. CASE ReadConfiguration \/ HasNoInstance \/ IsConnected
             \/ CreateAcceptors(Kinds) \/ MarkModules \/ MarkServices
             \/ AcceptModules \/ AcceptServices \/ CannotAcceptAny \/ Join
    BY <2>3 DEF ReadConfiguration, HasNoInstance, IsConnected, CreateAcceptors,
                MarkModules, MarkServices, AcceptModules, AcceptServices,
                StartAccepting, CannotAcceptAny, CannotAccept, Join,
                processVars
  <2> QED BY <1>1, <2>1, <2>2, <2>3 DEF MainStep
<1>2. CASE Failure \/ Restart
  BY <1>2 DEF Failure, Restart, IsNotConnected, CreateAcceptors,
              CreateThreadsFails, Crash, processVars, Kinds
<1>4. ASSUME NEW t \in Threads, NEW p \in Programs, SessionStep(t, p)
      PROVE  MapsAreFull'
  BY <1>4 DEF SessionStep, Accept, Connect, Shutdown, Disconnects,
              DisconnectsBlind, Abandons, DisconnectsLate, Ends
<1>5. ASSUME NEW t \in Threads, NEW k \in Kinds, AcceptFails(t, k)
      PROVE  MapsAreFull'
  BY <1>5 DEF AcceptFails
<1>6. ASSUME NEW t \in Threads, WorkerEnds(t)
      PROVE  MapsAreFull'
  BY <1>6 DEF WorkerEnds
<1>7. CASE UNCHANGED serverVars
  BY <1>7 DEF serverVars, processVars
<1> QED BY <1>1, <1>2, <1>4, <1>5, <1>6, <1>7 DEF ServerNext

\* Nothing but a thread with no work left ends, and main() returns only when
\* all have.
LEMMA OpenStep ==
  ServerTypeOK /\ IdleAtStart /\ OpenIsServed /\ [ServerNext]_serverVars
    => OpenIsServed'
<1> SUFFICES ASSUME ServerTypeOK, IdleAtStart, OpenIsServed,
                    [ServerNext]_serverVars
             PROVE  OpenIsServed'
  OBVIOUS
<1> USE DEF OpenIsServed, Goes
<1>1. CASE MainStep
  <2>1. ASSUME NEW t \in Threads, CreateThread(t)
        PROVE  OpenIsServed'
    BY <2>1 DEF CreateThread, ServerTypeOK
  <2>2. ASSUME NEW t \in Threads, FillModulesMap(t) \/ FillServicesMap(t)
        PROVE  OpenIsServed'
    BY <2>2 DEF FillModulesMap, FillServicesMap
  <2>3. CASE ReadConfiguration \/ HasNoInstance \/ IsConnected
             \/ CreateAcceptors(Kinds) \/ MarkModules \/ MarkServices
             \/ AcceptModules \/ AcceptServices
    BY <2>3 DEF ReadConfiguration, HasNoInstance, IsConnected, CreateAcceptors,
                MarkModules, MarkServices, AcceptModules, AcceptServices,
                StartAccepting, processVars
  <2>4. CASE CannotAcceptAny
    BY <2>4 DEF CannotAcceptAny, CannotAccept, IdleAtStart, StartPhases,
                processVars
  <2>5. CASE Join
    BY <2>5 DEF Join, processVars
  <2> QED BY <1>1, <2>1, <2>2, <2>3, <2>4, <2>5 DEF MainStep
<1>2. CASE Failure
  <2>1. CASE CreateThreadsFails
    BY <2>1 DEF CreateThreadsFails, Created, ServerTypeOK, processVars
  <2>2. CASE IsNotConnected
    BY <2>2 DEF IsNotConnected, IdleAtStart, StartPhases, processVars
  <2>3. ASSUME NEW made \in SUBSET Kinds, CreateAcceptors(made)
        PROVE  OpenIsServed'
    BY <2>3 DEF CreateAcceptors
  <2>4. CASE Crash
    BY <2>4 DEF Crash, processVars
  <2> QED BY <1>2, <2>1, <2>2, <2>3, <2>4 DEF Failure
<1>3. CASE Restart
  BY <1>3 DEF Restart
<1>4. ASSUME NEW t \in Threads, NEW p \in Programs, SessionStep(t, p)
      PROVE  OpenIsServed'
  BY <1>4 DEF SessionStep, Accept, Connect, Shutdown, Disconnects,
              DisconnectsBlind, Abandons, DisconnectsLate, Ends, Runs
<1>5. ASSUME NEW t \in Threads, NEW k \in Kinds, AcceptFails(t, k)
      PROVE  OpenIsServed'
  BY <1>5 DEF AcceptFails
<1>6. ASSUME NEW t \in Threads, WorkerEnds(t)
      PROVE  OpenIsServed'
  BY <1>6 DEF WorkerEnds, HasWork
<1>7. CASE UNCHANGED serverVars
  BY <1>7 DEF serverVars, processVars
<1> QED BY <1>1, <1>2, <1>3, <1>4, <1>5, <1>6, <1>7 DEF ServerNext

\* What ConnectedIsWatched says of one program.
IsWatched(p) ==
  /\ record[p] = "Connected" => Granted(p) \/ orphan[p] # "no"
  /\ orphan[p] # "no" => record[p] = "Connected" /\ ~Granted(p)

\* Marking meets no connection.  Afterwards a handler changes a record and the
\* connection it belongs to in one step, or leaves an orphan; and who sets the
\* record of an orphan to another state makes it an orphan no more.
LEMMA WatchedStep ==
  (/\ ServerTypeOK /\ IdleAtStart /\ ConnectedIsWatched
   /\ [ServerNext]_serverVars)
    => ConnectedIsWatched'
<1> SUFFICES ASSUME ServerTypeOK, IdleAtStart, ConnectedIsWatched,
                    [ServerNext]_serverVars, NEW q \in Programs, IsMarked(q)'
             PROVE  IsWatched(q)'
  BY DEF ConnectedIsWatched, IsWatched
<1> USE DEF Goes, IsMarked, Granted
<1>0. IsMarked(q) => IsWatched(q)
  BY DEF ConnectedIsWatched, IsWatched
<1>1. CASE MainStep
  <2>1. CASE MarkModules
    <3>1. q \in Modules
      BY <2>1 DEF MarkModules, Programs
    <3>2. orphan'[q] = "no" /\ record'[q] # "Connected"
      BY <2>1, <3>1 DEF MarkModules, MarkAll
    <3> QED BY <3>2 DEF IsWatched
  <2>2. CASE MarkServices
    <3>1. CASE q \in Services
      <4>1. orphan'[q] = "no" /\ record'[q] # "Connected"
        BY <2>2, <3>1 DEF MarkServices, MarkAll
      <4> QED BY <4>1 DEF IsWatched
    <3>2. CASE q \notin Services
      BY <1>0, <2>2, <3>2 DEF MarkServices, MarkAll, processVars, IsWatched
    <3> QED BY <3>1, <3>2
  <2>3. CASE ReadConfiguration \/ HasNoInstance \/ IsConnected
             \/ CreateAcceptors(Kinds) \/ CannotAcceptAny \/ Join
    BY <2>3 DEF ReadConfiguration, HasNoInstance, IsConnected, CreateAcceptors,
                CannotAcceptAny, CannotAccept, Join
  <2>4. CASE AcceptModules \/ AcceptServices
    BY <1>0, <2>4 DEF AcceptModules, AcceptServices, StartAccepting,
                      databaseVars, IsWatched
  <2>5. ASSUME NEW t \in Threads,
               CreateThread(t) \/ FillModulesMap(t) \/ FillServicesMap(t)
        PROVE  IsWatched(q)'
    BY <1>0, <2>5 DEF CreateThread, FillModulesMap, FillServicesMap,
                      databaseVars, IsWatched
  <2> QED BY <1>1, <2>1, <2>2, <2>3, <2>4, <2>5 DEF MainStep
<1>2. CASE Failure
  BY <1>2 DEF Failure, IsNotConnected, CreateAcceptors, CreateThreadsFails,
              Crash
<1>3. CASE Restart
  BY <1>3 DEF Restart
<1>4. ASSUME NEW t \in Threads, NEW p \in Programs, SessionStep(t, p)
      PROVE  IsWatched(q)'
  <2>1. worker[t] = "running" /\ phase \notin StartPhases /\ phase' = phase
        /\ phase # "failed"
    BY <1>4 DEF SessionStep, Accept, Connect, Shutdown, Disconnects,
                DisconnectsBlind, Abandons, DisconnectsLate, Ends, Runs,
                IdleAtStart
  <2>2. IsWatched(q)
    BY <1>0, <2>1
  <2>3. CASE q # p
    <3>1. UNCHANGED <<session[q], record[q], orphan[q]>>
      BY <1>4, <2>3
         DEF SessionStep, Accept, Connect, Shutdown, Disconnects,
             DisconnectsBlind, Abandons, DisconnectsLate, Ends, databaseVars,
             ServerTypeOK
    <3> QED BY <2>1, <2>2, <3>1 DEF IsWatched
  <2>4. CASE q = p
    <3> USE DEF IsWatched, ServerTypeOK
    <3>1. CASE Accept(t, p)
      BY <2>1, <2>2, <2>4, <3>1 DEF Accept, databaseVars
    <3>2. CASE Connect(t, p)
      BY <2>1, <2>2, <2>4, <3>2 DEF Connect
    <3>3. CASE Shutdown(t, p)
      BY <2>1, <2>2, <2>4, <3>3 DEF Shutdown
    <3>4. CASE Disconnects(t, p)
      BY <2>1, <2>2, <2>4, <3>4 DEF Disconnects, Ends, IsGranted
    <3>5. CASE DisconnectsBlind(t, p)
      BY <2>1, <2>2, <2>4, <3>5 DEF DisconnectsBlind, Ends, IsGranted
    <3>6. CASE Abandons(t, p)
      BY <2>1, <2>2, <2>4, <3>6 DEF Abandons, Ends, IsGranted
    <3>7. CASE DisconnectsLate(t, p)
      BY <2>1, <2>2, <2>4, <3>7 DEF DisconnectsLate, databaseVars
    <3> QED BY <1>4, <3>1, <3>2, <3>3, <3>4, <3>5, <3>6, <3>7 DEF SessionStep
  <2> QED BY <2>3, <2>4
<1>5. ASSUME NEW t \in Threads,
             WorkerEnds(t) \/ \E k \in Kinds : AcceptFails(t, k)
      PROVE  IsWatched(q)'
  BY <1>0, <1>5 DEF AcceptFails, WorkerEnds, databaseVars, IsWatched
<1>6. CASE UNCHANGED serverVars
  BY <1>0, <1>6 DEF serverVars, processVars, databaseVars, IsWatched
<1> QED BY <1>1, <1>2, <1>3, <1>4, <1>5, <1>6 DEF ServerNext

\* The invariant holds throughout, whatever fails and however often.
THEOREM ServerInvariance == ServerSpec => []ServerInv
<1>1. ServerInit => ServerInv
  BY ServerInitHolds
<1>2. ServerInv /\ [ServerNext]_serverVars => ServerInv'
  BY ServerTypeStep, IdleStep, MapsStep, OpenStep, WatchedStep DEF ServerInv
<1> QED BY <1>1, <1>2, PTL DEF ServerSpec

\* Type correctness.
THEOREM ServerTypeCorrect == ServerSpec => []ServerTypeOK
<1>1. ServerInv => ServerTypeOK
  BY DEF ServerInv
<1> QED BY <1>1, ServerInvariance, PTL

\* Once the records are marked at start-up, a Connected record is that of a
\* program being watched, or else of one known to have been left behind.
THEOREM ServerConnectedIsWatched == ServerSpec => []ConnectedIsWatched
<1>1. ServerInv => ConnectedIsWatched
  BY DEF ServerInv
<1> QED BY <1>1, ServerInvariance, PTL

\* A connection has a thread to serve it, and no process returns 0 with one.
THEOREM ServerOpenIsServed == ServerSpec => []OpenIsServed
<1>1. ServerInv => OpenIsServed
  BY DEF ServerInv
<1> QED BY <1>1, ServerInvariance, PTL

\* No program is left behind for want of a database client once the server is
\* up.
THEOREM ServerBlindWhileStarting == ServerSpec => BlindWhileStarting
<1>1. ASSUME ServerInv, [ServerNext]_serverVars, NEW q \in Programs,
             orphan[q] # "blind", orphan'[q] = "blind"
      PROVE  phase \in {"createThreads", "fillMaps"}
  <2>1. PICK t \in Threads, p \in Programs : DisconnectsBlind(t, p)
    <3>1. CASE MainStep
      BY <1>1, <3>1
         DEF MainStep, MarkModules, MarkServices, MarkAll,
             ReadConfiguration, HasNoInstance, IsConnected,
             CreateAcceptors, AcceptModules, AcceptServices, StartAccepting,
             CannotAcceptAny, CannotAccept, CreateThread, FillModulesMap,
             FillServicesMap, Join, processVars, databaseVars
    <3>2. CASE Failure \/ Restart
      BY <1>1, <3>2
         DEF Failure, IsNotConnected, CreateAcceptors, CreateThreadsFails,
             Crash, Restart, databaseVars
    <3>3. ASSUME NEW t \in Threads, NEW p \in Programs, SessionStep(t, p)
          PROVE  DisconnectsBlind(t, p)
      BY <1>1, <3>3
         DEF SessionStep, Accept, Connect, Shutdown, Disconnects, Abandons,
             DisconnectsLate, databaseVars, ServerInv, ServerTypeOK
    <3>4. ASSUME NEW t \in Threads,
                 WorkerEnds(t) \/ \E k \in Kinds : AcceptFails(t, k)
          PROVE  FALSE
      BY <1>1, <3>4 DEF WorkerEnds, AcceptFails, databaseVars
    <3>5. CASE UNCHANGED serverVars
      BY <1>1, <3>5 DEF serverVars, databaseVars
    <3> QED BY <1>1, <3>1, <3>2, <3>3, <3>4, <3>5 DEF ServerNext
  <2>2. Runs(t) /\ Misses(t, KindOf(p))
    BY <2>1 DEF DisconnectsBlind, Ends
  <2>3. phase # "join"
    BY <1>1, <2>2 DEF Misses, ServerInv, MapsAreFull, KindOf, Kinds
  <2>4. phase \notin StartPhases /\ phase \notin {"returned", "failed"}
    BY <1>1, <2>2 DEF Runs, ServerInv, IdleAtStart
  <2> QED BY <1>1, <2>3, <2>4 DEF ServerInv, ServerTypeOK, Phases, StartPhases
<1>2. ServerInv /\ [ServerNext]_serverVars
        => [\A p \in Programs :
              orphan[p] # "blind" /\ orphan'[p] = "blind"
                => phase \in {"createThreads", "fillMaps"}]_serverVars
  BY <1>1
<1> QED BY <1>2, ServerInvariance, PTL DEF ServerSpec, BlindWhileStarting
=============================================================================
