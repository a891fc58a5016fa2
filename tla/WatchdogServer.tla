---------------------------- MODULE WatchdogServer ----------------------------
(***************************************************************************)
(* The process: main() from the configuration of the database to the join  *)
(* of its threads, the acceptors, the threads that run the handlers, the   *)
(* maps that give a thread its database clients, and systemd, which starts *)
(* the watchdog again when it fails.  The records outlive the process.     *)
(*                                                                         *)
(* Accepting begins before there is a thread, and handlers run before main *)
(* has filled the maps, which it does without a lock: in the meantime a    *)
(* handler may or may not find the client of its thread.  Threads live on  *)
(* as long as a connection or a pending accept keeps them busy.            *)
(*                                                                         *)
(* The handlers of a connection are single steps here, and a program has   *)
(* one connection and one record; ProgramConnection takes both apart.      *)
(***************************************************************************)
EXTENDS Integers, FiniteSets

CONSTANTS Modules, Services,   \* the programs, each with its record
          Threads,             \* extraWorkingThreads, three of them
          MaxFailures          \* bound: how often something fails or crashes

Programs == Modules \cup Services

ASSUME ServerAssumption == /\ Modules \cap Services = {}
                           /\ Programs # {}
                           /\ Threads # {} /\ IsFiniteSet(Threads)
                           /\ MaxFailures \in Nat

VARIABLES configured,  \* is there a configuration of the database to read?
          phase,       \* where main() is
          acceptor,    \* of each kind: is it there, and does it accept?
          worker,      \* the threads
          client,      \* of each kind: the threads with an entry in the map
          session,     \* the connection of each program
          held,        \* programs whose identifier another connection holds
          record,      \* its record, in the database
          orphan,      \* history: how its last connection left the record
          failures

processVars == <<acceptor, worker, client, session, held>>

databaseVars == <<record, orphan>>

serverVars == <<configured, phase, processVars, databaseVars, failures>>

Kinds == {"module", "service"}

KindOf(p) == IF p \in Modules THEN "module" ELSE "service"

\* From main() to runIoContext(); "returned" 0, or "failed".
Phases == {"readConfiguration", "isConnected", "createAcceptors",
           "markModules", "markServices", "acceptModules", "acceptServices",
           "createThreads", "fillMaps", "join", "returned", "failed"}

ServerTypeOK ==
  /\ configured \in BOOLEAN
  /\ phase \in Phases
  /\ acceptor \in [Kinds -> {"none", "bound", "accepting", "deaf"}]
  /\ worker \in [Threads -> {"none", "running", "ended"}]
  /\ client \in [Kinds -> SUBSET Threads]
  /\ session \in [Programs -> {"none", "accepted", "granted", "shutDown"}]
  /\ held \in SUBSET Programs
  /\ record \in [Programs -> {"Registered", "Connected", "Disconnected"}]
  /\ orphan \in [Programs -> {"no", "blind", "abandoned"}]
  /\ failures \in 0..MaxFailures

Created == {t \in Threads : worker[t] # "none"}

Goes(from, to) == phase = from /\ phase' = to

\* Something goes wrong, as it does MaxFailures times at most.
MayFail == failures < MaxFailures /\ failures' = failures + 1
-----------------------------------------------------------------------------
(* main().                                                                 *)

\* DbEnvironment::initialize(); its result, FALSE for a bad address, is not
\* looked at.
ReadConfiguration ==
  /\ configured
  /\ Goes("readConfiguration", "isConnected")
  /\ UNCHANGED <<configured, processVars, databaseVars, failures>>

\* Without a configuration there is no instance, and isConnected() calls it.
HasNoInstance ==
  /\ ~configured
  /\ Goes("readConfiguration", "failed")
  /\ UNCHANGED <<configured, processVars, databaseVars, failures>>

IsConnected ==
  /\ Goes("isConnected", "createAcceptors")
  /\ UNCHANGED <<configured, processVars, databaseVars, failures>>

\* The database does not answer: main() returns 0.
IsNotConnected ==
  /\ Goes("isConnected", "returned")
  /\ MayFail
  /\ UNCHANGED <<configured, processVars, databaseVars>>

\* The constructor of WatchdogServer.  An acceptor whose port is taken is not
\* made, which startAcceptingConnections() finds out.
CreateAcceptors(made) ==
  /\ Goes("createAcceptors", "markModules")
  /\ acceptor' = [k \in Kinds |-> IF k \in made THEN "bound" ELSE "none"]
  /\ IF made = Kinds THEN UNCHANGED failures ELSE MayFail
  /\ UNCHANGED <<configured, worker, client, session, held, databaseVars>>

\* markAllConnectedAsDisconnected(), of one collection.
MarkAll(programs) ==
  /\ record' = [p \in Programs |->
                  IF p \in programs /\ record[p] = "Connected"
                  THEN "Disconnected" ELSE record[p]]
  /\ orphan' = [p \in Programs |-> IF p \in programs THEN "no" ELSE orphan[p]]

MarkModules ==
  /\ Goes("markModules", "markServices")
  /\ MarkAll(Modules)
  /\ UNCHANGED <<configured, processVars, failures>>

\* Mutant: the services are not marked when the modules are.
MarkServicesNot ==
  /\ Goes("markServices", "acceptModules")
  /\ UNCHANGED <<configured, processVars, databaseVars, failures>>

MarkServices ==
  /\ Goes("markServices", "acceptModules")
  /\ MarkAll(Services)
  /\ UNCHANGED <<configured, processVars, failures>>

\* startAcceptingConnections(), startAcceptingServices().
StartAccepting(k, from, to) ==
  /\ acceptor[k] = "bound"
  /\ Goes(from, to)
  /\ acceptor' = [acceptor EXCEPT ![k] = "accepting"]
  /\ UNCHANGED <<configured, worker, client, session, held, databaseVars,
                 failures>>

\* The exception is caught, and main() returns 0.
CannotAccept(k, from) ==
  /\ acceptor[k] = "none"
  /\ Goes(from, "returned")
  /\ UNCHANGED <<configured, processVars, databaseVars, failures>>

AcceptModules == StartAccepting("module", "acceptModules", "acceptServices")

AcceptServices == StartAccepting("service", "acceptServices", "createThreads")

CannotAcceptAny == CannotAccept("module", "acceptModules")
                   \/ CannotAccept("service", "acceptServices")

CreateThread(t) ==
  /\ phase = "createThreads"
  /\ worker[t] = "none"
  /\ worker' = [worker EXCEPT ![t] = "running"]
  /\ phase' = IF Created \cup {t} = Threads THEN "fillMaps" ELSE phase
  /\ UNCHANGED <<configured, acceptor, client, session, held, databaseVars,
                 failures>>

\* A thread cannot be created: main() returns 0, but on the way the destructor
\* of a thread that could ends the process with a signal.
CreateThreadsFails ==
  /\ phase = "createThreads"
  /\ phase' = IF Created = {} THEN "returned" ELSE "failed"
  /\ MayFail
  /\ UNCHANGED <<configured, processVars, databaseVars>>

\* The loop over the threads inserts both clients of one before it goes on.
FillModulesMap(t) ==
  /\ phase = "fillMaps"
  /\ client["module"] = client["service"]
  /\ t \notin client["module"]
  /\ client' = [client EXCEPT !["module"] = @ \cup {t}]
  /\ UNCHANGED <<configured, phase, acceptor, worker, session, held,
                 databaseVars, failures>>

\* Mutant: the loop leaves out the last thread.
FillServicesMapTooShort(t) ==
  /\ phase = "fillMaps"
  /\ t \in client["module"] \ client["service"]
  /\ client' = [client EXCEPT !["service"] = @ \cup {t}]
  /\ phase' = IF Cardinality(Threads \ client'["service"]) <= 1
              THEN "join" ELSE phase
  /\ UNCHANGED <<configured, acceptor, worker, session, held, databaseVars,
                 failures>>

FillServicesMap(t) ==
  /\ phase = "fillMaps"
  /\ t \in client["module"] \ client["service"]
  /\ client' = [client EXCEPT !["service"] = @ \cup {t}]
  /\ phase' = IF client'["service"] = Threads THEN "join" ELSE phase
  /\ UNCHANGED <<configured, acceptor, worker, session, held, databaseVars,
                 failures>>

\* runIoContext() has joined all threads, and main() returns 0.
Join ==
  /\ \A t \in Threads : worker[t] = "ended"
  /\ Goes("join", "returned")
  /\ UNCHANGED <<configured, processVars, databaseVars, failures>>
-----------------------------------------------------------------------------
(* The threads.                                                            *)

Runs(t) == worker[t] = "running" /\ phase \notin {"returned", "failed"}

\* A map is read while main inserts into it, so that find() may miss what is
\* there.
Finds(t, k) == t \in client[k]

Misses(t, k) == t \notin client[k] \/ phase = "fillMaps"

\* postAccept, serviceAccepted: the connection is started, and the acceptor
\* waits for the next.  That of a service may be made in memory that holds the
\* identifier of a service.
Accept(t, p) ==
  /\ Runs(t)
  /\ acceptor[KindOf(p)] = "accepting"
  /\ session[p] = "none"
  /\ session' = [session EXCEPT ![p] = "accepted"]
  /\ \/ UNCHANGED held
     \/ p \in Services /\ \E q \in Services : held' = held \cup {q}
  /\ UNCHANGED <<configured, phase, acceptor, worker, client, databaseVars,
                 failures>>

\* The same on an error: nothing waits for the next.
AcceptFails(t, k) ==
  /\ Runs(t)
  /\ acceptor[k] = "accepting"
  /\ acceptor' = [acceptor EXCEPT ![k] = "deaf"]
  /\ MayFail
  /\ UNCHANGED <<configured, phase, worker, client, session, held, databaseVars>>

\* A Connect or Reconnect is granted.
Connect(t, p) ==
  /\ Runs(t) /\ Finds(t, KindOf(p))
  /\ session[p] # "none"
  /\ record[p] # "Connected"
  /\ session' = [session EXCEPT ![p] = "granted"]
  /\ record' = [record EXCEPT ![p] = "Connected"]
  /\ UNCHANGED <<configured, phase, acceptor, worker, client, held, orphan,
                 failures>>

\* A Shutdown of p can come in on any connection of its kind.
MayShutDown(p) == \E q \in Programs : KindOf(q) = KindOf(p) /\ session[q] # "none"

\* Mutant: the record gets a state of its own.
ShutdownUnregisters(t, p) ==
  /\ Runs(t) /\ Finds(t, KindOf(p))
  /\ MayShutDown(p)
  /\ record' = [record EXCEPT ![p] = "Unregistered"]
  /\ UNCHANGED <<configured, phase, processVars, orphan, failures>>

\* Shutdown: the connection stays open, and keeps the identifier.
Shutdown(t, p) ==
  /\ Runs(t) /\ Finds(t, KindOf(p))
  /\ MayShutDown(p)
  /\ session' = [session EXCEPT ![p] = IF @ = "granted" THEN "shutDown" ELSE @]
  /\ record' = [record EXCEPT ![p] = "Registered"]
  /\ orphan' = [orphan EXCEPT ![p] = "no"]
  /\ UNCHANGED <<configured, phase, acceptor, worker, client, held, failures>>

IsGranted(p) == session[p] = "granted" /\ record[p] = "Connected"

\* The connection is closed.  Its object may stay a while with handlers still
\* to come, and with the identifier.
Ends(t, p) ==
  /\ Runs(t)
  /\ session[p] # "none"
  /\ session' = [session EXCEPT ![p] = "none"]
  /\ \/ UNCHANGED held
     \/ session[p] # "accepted" /\ held' = held \cup {p}
  /\ UNCHANGED <<configured, phase, acceptor, worker, client, failures>>

\* disconnect(), on a thread that finds its client.
Disconnects(t, p) ==
  /\ Ends(t, p)
  /\ Finds(t, KindOf(p))
  /\ record' = IF IsGranted(p)
               THEN [record EXCEPT ![p] = "Disconnected"] ELSE record
  /\ UNCHANGED orphan

\* disconnect(), on a thread that does not: the record is left as it is.
DisconnectsBlind(t, p) ==
  /\ Ends(t, p)
  /\ Misses(t, KindOf(p))
  /\ orphan' = IF IsGranted(p) THEN [orphan EXCEPT ![p] = "blind"] ELSE orphan
  /\ UNCHANGED record

\* One of the ways in which ProgramConnection has a connection end and not
\* change the record: it came back by Reconnect, or an empty header ended its
\* reads.
Abandons(t, p) ==
  /\ Ends(t, p)
  /\ IsGranted(p)
  /\ orphan' = [orphan EXCEPT ![p] = "abandoned"]
  /\ UNCHANGED record

\* disconnect() of the other connection that holds the identifier, because its
\* peer is gone or its timer has expired.  It does not ask whether the program
\* has a connection of its own by now.
DisconnectsLate(t, p) ==
  /\ Runs(t)
  /\ p \in held
  /\ held' \in {held, held \ {p}}
  /\ \/ /\ Finds(t, KindOf(p)) /\ record[p] = "Connected"
        /\ record' = [record EXCEPT ![p] = "Disconnected"]
        /\ orphan' = [orphan EXCEPT ![p] = "no"]
     \/ /\ Misses(t, KindOf(p)) \/ record[p] # "Connected"
        /\ UNCHANGED databaseVars
  /\ UNCHANGED <<configured, phase, acceptor, worker, client, session, failures>>

\* What keeps io_context::run() from returning.
HasWork == \/ \E k \in Kinds : acceptor[k] = "accepting"
           \/ \E p \in Programs : session[p] # "none"
           \/ held # {}

\* Mutant: nothing but the acceptors counts as work.
WorkerEndsEarly(t) ==
  /\ Runs(t)
  /\ \A k \in Kinds : acceptor[k] # "accepting"
  /\ worker' = [worker EXCEPT ![t] = "ended"]
  /\ UNCHANGED <<configured, phase, acceptor, client, session, held,
                 databaseVars, failures>>

WorkerEnds(t) ==
  /\ Runs(t)
  /\ ~HasWork
  /\ worker' = [worker EXCEPT ![t] = "ended"]
  /\ UNCHANGED <<configured, phase, acceptor, client, session, held,
                 databaseVars, failures>>

-----------------------------------------------------------------------------
(* The process and systemd.                                                *)

\* A signal, whose handler exits with its number; an exception no handler
\* catches, as of a command the database refuses; undefined behaviour; or no
\* client for the maps, which leaves createWorkingThreads() as a missing thread
\* does.
Crash ==
  /\ phase \notin {"returned", "failed"}
  /\ phase' = "failed"
  /\ MayFail
  /\ UNCHANGED <<configured, processVars, databaseVars>>

\* Mutant: systemd gives up.
RestartGivesUp ==
  /\ failures < MaxFailures
  /\ Goes("failed", "readConfiguration")
  /\ acceptor' = [k \in Kinds |-> "none"]
  /\ worker' = [t \in Threads |-> "none"]
  /\ client' = [k \in Kinds |-> {}]
  /\ session' = [p \in Programs |-> "none"]
  /\ held' = {}
  /\ UNCHANGED <<configured, databaseVars, failures>>

\* Restart=on-failure: of the process nothing is left.
Restart ==
  /\ Goes("failed", "readConfiguration")
  /\ acceptor' = [k \in Kinds |-> "none"]
  /\ worker' = [t \in Threads |-> "none"]
  /\ client' = [k \in Kinds |-> {}]
  /\ session' = [p \in Programs |-> "none"]
  /\ held' = {}
  /\ UNCHANGED <<configured, databaseVars, failures>>

\* The records are those of the run before.
ServerInit ==
  /\ configured \in BOOLEAN
  /\ phase = "readConfiguration"
  /\ acceptor = [k \in Kinds |-> "none"]
  /\ worker = [t \in Threads |-> "none"]
  /\ client = [k \in Kinds |-> {}]
  /\ session = [p \in Programs |-> "none"]
  /\ held = {}
  /\ record \in [Programs -> {"Registered", "Connected", "Disconnected"}]
  /\ orphan = [p \in Programs |-> "no"]
  /\ failures = 0

MainStep ==
  \/ ReadConfiguration \/ HasNoInstance
  \/ IsConnected
  \/ CreateAcceptors(Kinds)
  \/ MarkModules \/ MarkServices
  \/ AcceptModules \/ AcceptServices \/ CannotAcceptAny
  \/ \E t \in Threads :
       CreateThread(t) \/ FillModulesMap(t) \/ FillServicesMap(t)
  \/ Join

Failure ==
  \/ IsNotConnected
  \/ \E made \in SUBSET Kinds : made # Kinds /\ CreateAcceptors(made)
  \/ CreateThreadsFails
  \/ Crash

SessionStep(t, p) ==
  \/ Accept(t, p)
  \/ Connect(t, p) \/ Shutdown(t, p)
  \/ Disconnects(t, p) \/ DisconnectsBlind(t, p) \/ Abandons(t, p)
  \/ DisconnectsLate(t, p)

ServerNext ==
  \/ MainStep \/ Failure \/ Restart
  \/ \E t \in Threads :
       \/ \E p \in Programs : SessionStep(t, p)
       \/ \E k \in Kinds : AcceptFails(t, k)
       \/ WorkerEnds(t)

ServerSpec == ServerInit /\ [][ServerNext]_serverVars

\* main() and systemd go on.  (systemd gives up after five starts within ten
\* seconds, more than MaxFailures of them.)
FairServerSpec ==
  ServerSpec /\ WF_serverVars(MainStep) /\ WF_serverVars(Restart)
-----------------------------------------------------------------------------
(* Properties.                                                             *)

Granted(p) == session[p] = "granted" /\ phase # "failed"

\* setAllConnectedToDisconnectedState has been at the record.
IsMarked(p) ==
  /\ phase \notin {"readConfiguration", "isConnected", "createAcceptors",
                   "markModules", "returned", "failed"}
  /\ p \in Services => phase # "markServices"

\* Once the records are marked, one that says Connected is that of a program
\* with a connection that was granted, or of a program whose connection is
\* known to have left its record, and never of both at a time: no crash,
\* wherever it comes, makes the watchdog take a program for one it watches.
ConnectedIsWatched ==
  \A p \in Programs : IsMarked(p) =>
    /\ record[p] = "Connected" => Granted(p) \/ orphan[p] # "no"
    /\ orphan[p] # "no" => record[p] = "Connected" /\ ~Granted(p)

\* A program is left Connected for want of a database client only while the
\* server starts up: in createWorkingThreads the race between the handlers and
\* the loop that fills the maps has an end.
BlindWhileStarting ==
  [][\A p \in Programs :
       orphan[p] # "blind" /\ orphan'[p] = "blind"
         => phase \in {"createThreads", "fillMaps"}]_serverVars

\* A connection has a thread to serve it, and the process that holds it does
\* not return 0: with an acceptor or both of them deaf, the threads stay for
\* the connections there are, and runIoContext for the threads.
OpenIsServed ==
  (\E p \in Programs : session[p] # "none")
    => /\ phase # "returned"
       /\ phase # "failed" => \E t \in Threads : worker[t] = "running"

\* A process that failed, by a signal, an exception or undefined behaviour, is
\* up again, or has given up in good order; a half-made set of threads counts
\* as a failure.
FailureIsRepaired ==
  (phase = "failed" /\ configured) ~> phase \in {"join", "returned"}
=============================================================================
