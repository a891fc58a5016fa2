--------------------------- MODULE ProgramCollection ---------------------------
(***************************************************************************)
(* One of the collections of the database, ModulesCollection or            *)
(* ServicesCollection, with the fields of its documents, and the clients   *)
(* that use it.  ProgramRecords keeps the connection state only, of one    *)
(* record per identifier; this module shows that it may, and says what     *)
(* becomes of the rest.                                                    *)
(*                                                                         *)
(* insertOne stores whatever it is given: the answer to a number that is   *)
(* too large, -1, as well.  (ModulesCollectionPerformanceTest registers    *)
(* programs with the identifier 0, which the handlers treat as they treat  *)
(* -1: it stands for both.)                                                *)
(*                                                                         *)
(* A handler of the watchdog reads a document, changes the state in its    *)
(* copy, and writes the copy back with a second command, the address       *)
(* included.  In between, the program may have been registered anew, at    *)
(* another address.  The watchdog leaves registering to others: one        *)
(* registrar, which inserts no identifier a second time (it may use        *)
(* findOne, which only ModulesCollection has, or know what it has done).   *)
(***************************************************************************)
EXTENDS ProgramIdentifiers

CONSTANTS Numbers,     \* what programs are numbered with
          Addresses,   \* where they can be; two differ in IP and in port
          NoAddress,   \* no address: the port 0, and "" for an IP
          Threads      \* the threads of the watchdog, each with its client

ASSUME CollectionAssumption == /\ Numbers \subseteq Int
                               /\ NoAddress \notin Addresses

VARIABLES kind,        \* which collection it is
          documents,   \* the document of each identifier
          copy,        \* what each thread has read and not written back
          newest,      \* history: the address each was last registered with
          programs     \* history: the numbers each was ever registered for

collectionVars == <<kind, documents, copy, newest, programs>>

ConnectionState == {"Registered", "Connected", "Disconnected"}

Document == [state : ConnectionState, ip : Addresses, port : Addresses]

\* Of no document there is nothing but the state to say.
Missing == [state |-> "Missing", ip |-> NoAddress, port |-> NoAddress]

toIdentifier(k, n) ==
  IF k = "module" THEN toModuleIdentifier(n) ELSE toServiceIdentifier(n)

isIdentifier(k, id) ==
  IF k = "module" THEN isModuleIdentifier(id) ELSE isServiceIdentifier(id)

Identifiers ==
  {toIdentifier(k, n) : k \in {"module", "service"}, n \in Numbers}

Exists(id) == documents[id] # Missing

\* A thread with no copy has no address.
NoCopy == [id |-> -1, ip |-> NoAddress, port |-> NoAddress]

CollectionTypeOK ==
  /\ kind \in {"module", "service"}
  /\ documents \in [Identifiers -> Document \cup {Missing}]
  /\ copy \in [Threads -> [id : Identifiers \cup {-1},
                           ip : Addresses \cup {NoAddress},
                           port : Addresses \cup {NoAddress}]]
  /\ newest \in [Identifiers -> Addresses \cup {NoAddress}]
  /\ programs \in [Identifiers -> SUBSET Numbers]
-----------------------------------------------------------------------------
\* It asks neither whether there is such a document, nor what the identifier is.
insertOne(id, address) ==
  documents' = [documents EXCEPT ![id] =
                  [state |-> "Registered", ip |-> address, port |-> address]]

deleteOne(id) ==
  /\ Exists(id)
  /\ documents' = [documents EXCEPT ![id] = Missing]
  /\ UNCHANGED <<kind, copy, newest, programs>>

\* drop
drop ==
  /\ documents' = [id \in Identifiers |-> Missing]
  /\ UNCHANGED <<kind, copy, newest, programs>>

\* getModule, getService.  viewToServiceRecord looks at the type of the port,
\* and leaves its value.
getProgram(t, id) ==
  /\ copy[t] = NoCopy
  /\ Exists(id)
  /\ copy' = [copy EXCEPT ![t] =
                [id |-> id, ip |-> documents[id].ip,
                 port |-> IF kind = "module" THEN documents[id].port
                                             ELSE NoAddress]]
  /\ UNCHANGED <<kind, documents, newest, programs>>

\* A handler may have nothing to write.
forget(t) ==
  /\ copy[t] # NoCopy
  /\ copy' = [copy EXCEPT ![t] = NoCopy]
  /\ UNCHANGED <<kind, documents, newest, programs>>

\* $set, of a document that may have gone.
Set(id, document) ==
  documents' = [documents EXCEPT ![id] = IF Exists(id) THEN document ELSE Missing]

WritesBack(t) ==
  /\ copy[t] # NoCopy
  /\ copy' = [copy EXCEPT ![t] = NoCopy]
  /\ UNCHANGED <<kind, newest, programs>>

\* Mutant: the port is not written back, as that of a service is not.
updateModuleWithoutPort(t, state) ==
  /\ kind = "module"
  /\ WritesBack(t)
  /\ LET id == copy[t].id IN
     Set(id, [documents[id] EXCEPT !.state = state, !.ip = copy[t].ip])

updateModule(t, state) ==
  /\ kind = "module"
  /\ WritesBack(t)
  /\ Set(copy[t].id,
         [state |-> state, ip |-> copy[t].ip, port |-> copy[t].port])

\* Mutant: all fields are written back, as those of a module are.
updateServiceWithPort(t, state) ==
  /\ kind = "service"
  /\ WritesBack(t)
  /\ Set(copy[t].id,
         [state |-> state, ip |-> copy[t].ip, port |-> copy[t].port])

\* Mutant: the command inserts what it does not find.
updateServiceUpserts(t, state) ==
  /\ kind = "service"
  /\ WritesBack(t)
  /\ LET id == copy[t].id IN
     documents' = [documents EXCEPT ![id] =
                     [state |-> state, ip |-> copy[t].ip, port |-> newest[id]]]

\* The port is that of the document.
updateService(t, state) ==
  /\ kind = "service"
  /\ WritesBack(t)
  /\ LET id == copy[t].id IN
     Set(id, [documents[id] EXCEPT !.state = state, !.ip = copy[t].ip])

SetAll(ids, state) ==
  /\ documents' = [id \in Identifiers |->
                     IF id \in ids /\ Exists(id)
                     THEN [documents[id] EXCEPT !.state = state]
                     ELSE documents[id]]
  /\ UNCHANGED <<kind, copy, newest, programs>>

\* setDisconnected
setDisconnected(id) == kind = "module" /\ SetAll({id}, "Disconnected")

\* setAllAsRegistered, but "$gt" leaves out toModuleIdentifier(0).
setAllAsRegistered ==
  /\ kind = "module"
  /\ SetAll({id \in Identifiers : id > getMinimalModuleIdentifier}, "Registered")

markAllConnectedAsDisconnected ==
  SetAll({id \in Identifiers : documents[id].state = "Connected"}, "Disconnected")
-----------------------------------------------------------------------------
CollectionInit ==
  /\ kind \in {"module", "service"}
  /\ documents = [id \in Identifiers |-> Missing]
  /\ copy = [t \in Threads |-> NoCopy]
  /\ newest = [id \in Identifiers |-> NoAddress]
  /\ programs = [id \in Identifiers |-> {}]

\* The registrar numbers a program, and does not look at the identifier it gets.
Registers(n, address) ==
  LET id == toIdentifier(kind, n) IN
  /\ ~Exists(id)
  /\ insertOne(id, address)
  /\ newest' = [newest EXCEPT ![id] = address]
  /\ programs' = [programs EXCEPT ![id] = @ \cup {n}]
  /\ UNCHANGED <<kind, copy>>

\* The registrar, and whoever else has the collection.
Administration ==
  \/ \E n \in Numbers, address \in Addresses : Registers(n, address)
  \/ \E id \in Identifiers : deleteOne(id) \/ setDisconnected(id)
  \/ drop \/ setAllAsRegistered

Watching(t) ==
  \/ \E id \in Identifiers : getProgram(t, id)
  \/ \E state \in ConnectionState : updateModule(t, state) \/ updateService(t, state)
  \/ forget(t)

CollectionNext ==
  \/ Administration
  \/ \E t \in Threads : Watching(t)
  \/ markAllConnectedAsDisconnected

CollectionSpec == CollectionInit /\ [][CollectionNext]_collectionVars
-----------------------------------------------------------------------------
(* Properties.                                                             *)

\* Two programs never share a record that a request can find, whatever numbers
\* the registrar comes with: a number that would run over into the byte of the
\* kind does not wrap around to that of another program, and the record that it
\* gets, that of -1, is the only one no handler accepts the identifier of
\* (toModuleIdentifier, processConnectRequest).
RecordIsOfOneProgram ==
  \A id \in Identifiers :
    Exists(id) => \/ /\ isIdentifier(kind, id)
                     /\ \A n, m \in programs[id] : n = m
                  \/ id = -1 /\ ~isIdentifier(kind, id)

\* The IP and the port of a module belong together, though a handler that read
\* them before the module was registered anew may put the old ones back
\* (updateModule).
AddressIsWhole ==
  kind = "module" =>
    \A id \in Identifiers : documents[id].ip = documents[id].port

\* The port of a service is the one it was last registered with, whatever the
\* handlers write back; the IP beside it may be an older one (updateService).
PortIsNewest ==
  kind = "service" =>
    \A id \in Identifiers : Exists(id) => documents[id].port = newest[id]

StateOf == [id \in Identifiers |-> documents[id].state]

Records == INSTANCE ProgramRecords WITH NoIdentifier <- 0, records <- StateOf

\* setAllAsRegistered and drop, which nothing in the watchdog calls.
RecordsAreReset ==
  \/ \E ids \in SUBSET Identifiers :
       StateOf' = [id \in Identifiers |->
                     IF id \in ids /\ StateOf[id] # "Missing" THEN "Registered"
                                                              ELSE StateOf[id]]
  \/ StateOf' = [id \in Identifiers |-> "Missing"]

RecordsNext ==
  \/ \E id \in Identifiers :
       \/ StateOf[id] = "Missing" /\ Records!insertOne(id)
       \/ Records!deleteOne(id)
       \/ \E state \in ConnectionState : Records!updateProgram(id, state)
  \/ Records!markAllConnectedAsDisconnected
  \/ RecordsAreReset

\* The collection implements the records the connections are modelled with:
\* each command is one step of theirs, and none brings back a record that has
\* gone (ProgramRecords).
ImplementsRecords ==
  (\A id \in Identifiers : StateOf[id] = "Missing") /\ [][RecordsNext]_StateOf
=============================================================================
