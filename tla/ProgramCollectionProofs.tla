------------------------ MODULE ProgramCollectionProofs ------------------------
(***************************************************************************)
(* Proofs about ProgramIdentifiers, for all integers, and about     *)
(* ProgramCollection, for any numbers, addresses and threads.              *)
(***************************************************************************)
EXTENDS ProgramCollection, TLAPS

LEMMA NumberOfModule ==
  ASSUME NEW n \in Int, toModuleIdentifier(n) # -1
  PROVE  /\ isModuleIdentifier(toModuleIdentifier(n))
         /\ toModuleIdentifier(n) = n + 42 * Top
         /\ 0 <= n
<1>1. n \div Top = 0
  BY DEF toModuleIdentifier, topByte
<1>2. 0 <= n /\ n % Top = n
  BY <1>1, SMT DEF Top
<1>3. toModuleIdentifier(n) = n + 42 * Top
  BY <1>1, <1>2 DEF toModuleIdentifier, topByte, withTopByte,
                    ModuleIdentifierCode
<1>4. (n + 42 * Top) \div Top = 42
  BY <1>1, SMT DEF Top
<1> QED BY <1>2, <1>3, <1>4 DEF isModuleIdentifier, topByte, ModuleIdentifierCode

LEMMA NumberOfService ==
  ASSUME NEW n \in Int, toServiceIdentifier(n) # -1
  PROVE  /\ isServiceIdentifier(toServiceIdentifier(n))
         /\ toServiceIdentifier(n) = n + 52 * Top
         /\ 0 <= n
<1>1. n \div Top = 0
  BY DEF toServiceIdentifier, topByte
<1>2. 0 <= n /\ n % Top = n
  BY <1>1, SMT DEF Top
<1>3. toServiceIdentifier(n) = n + 52 * Top
  BY <1>1, <1>2 DEF toServiceIdentifier, topByte, withTopByte,
                    ServiceIdentifierCode
<1>4. (n + 52 * Top) \div Top = 52
  BY <1>1, SMT DEF Top
<1> QED BY <1>2, <1>3, <1>4 DEF isServiceIdentifier, topByte, ServiceIdentifierCode

LEMMA TopByteOfRefusal == topByte(-1) # 42 /\ topByte(-1) # 52
<1>1. \A i \in Int : i < 0 => i \div Top # 42 /\ i \div Top # 52
  BY SMT DEF Top
<1>2. -1 \in Int /\ -1 < 0
  BY SMT
<1> QED BY <1>1, <1>2 DEF topByte

\* No identifier is of both kinds, and -1, the answer to a number that is too
\* large, is of none: isModuleIdentifier and isServiceIdentifier turn it away.
THEOREM KindsAreDisjoint ==
  ASSUME NEW id \in Int
  PROVE  /\ ~(isModuleIdentifier(id) /\ isServiceIdentifier(id))
         /\ ~isModuleIdentifier(-1) /\ ~isServiceIdentifier(-1)
  BY TopByteOfRefusal DEF isModuleIdentifier, isServiceIdentifier,
       ModuleIdentifierCode, ServiceIdentifierCode

\* Two numbers of one kind that are not refused make two identifiers: two
\* programs have a record in common only if they have kind and number.
THEOREM IdentifiersAreDistinct ==
  ASSUME NEW n \in Int, NEW m \in Int, n # m,
         NEW k \in {"module", "service"}, toIdentifier(k, n) # -1
  PROVE  toIdentifier(k, n) # toIdentifier(k, m)
<1>0. Top \in Int
  BY SMT DEF Top
<1>1. CASE k = "module"
  <2>1. toModuleIdentifier(n) = n + 42 * Top
    BY <1>1, NumberOfModule DEF toIdentifier
  <2>2. toModuleIdentifier(m) # -1 => toModuleIdentifier(m) = m + 42 * Top
    BY NumberOfModule
  <2>3. m + 42 * Top # n + 42 * Top
    BY <1>0
  <2> QED BY <1>1, <2>1, <2>2, <2>3 DEF toIdentifier
<1>2. CASE k = "service"
  <2>1. toServiceIdentifier(n) = n + 52 * Top
    BY <1>2, NumberOfService DEF toIdentifier
  <2>2. toServiceIdentifier(m) # -1 => toServiceIdentifier(m) = m + 52 * Top
    BY NumberOfService
  <2>3. m + 52 * Top # n + 52 * Top
    BY <1>0
  <2> QED BY <1>2, <2>1, <2>2, <2>3 DEF toIdentifier
<1> QED BY <1>1, <1>2

\* setAllAsRegistered asks for what is greater than the minimal identifier:
\* that reaches every module but number 0.
THEOREM ResetMissesNumberZero ==
  ASSUME NEW n \in Int, toModuleIdentifier(n) # -1
  PROVE  toModuleIdentifier(n) > getMinimalModuleIdentifier <=> n # 0
<1>1. toModuleIdentifier(n) = n + 42 * Top /\ 0 <= n
  BY NumberOfModule
<1>2. 0 % Top = 0 /\ Top \in Int
  BY SMT DEF Top
<1>3. getMinimalModuleIdentifier = 42 * Top
  BY <1>2 DEF getMinimalModuleIdentifier, withTopByte, ModuleIdentifierCode
<1> QED BY <1>1, <1>2, <1>3

\* canBeModuleIdentifier agrees to numbers that toModuleIdentifier refuses.
THEOREM CanBeModuleIsNoCheck ==
  \E n \in Int : canBeModuleIdentifier(n) /\ toModuleIdentifier(n) = -1
<1>1. Top \in Int /\ Top \div Top # 0
  BY SMT DEF Top
<1> QED BY <1>1 DEF canBeModuleIdentifier, toModuleIdentifier, topByte
-----------------------------------------------------------------------------
\* What a thread has read is a whole address of a module, and of a service an
\* IP.
CopiesAreWhole ==
  \A t \in Threads :
    copy[t] # NoCopy => /\ copy[t].id \in Identifiers
                        /\ copy[t].ip \in Addresses
                        /\ kind = "module" => copy[t].port = copy[t].ip

\* What each program has been registered under.
ProgramsHaveIdentifiers ==
  \A id \in Identifiers : \A n \in programs[id] : id = toIdentifier(kind, n)

CollectionInv == /\ CollectionTypeOK
                 /\ CopiesAreWhole
                 /\ ProgramsHaveIdentifiers
                 /\ RecordIsOfOneProgram
                 /\ AddressIsWhole
                 /\ PortIsNewest

LEMMA RegisteredIsOfItsKind ==
  ASSUME NEW n \in Numbers, kind \in {"module", "service"}
  PROVE  /\ toIdentifier(kind, n) \in Identifiers
         /\ isIdentifier(kind, toIdentifier(kind, n)) <=> toIdentifier(kind, n) # -1
<1>1. n \in Int
  BY CollectionAssumption
<1>2. toIdentifier(kind, n) \in Identifiers
  BY DEF Identifiers
<1>3. CASE toIdentifier(kind, n) = -1
  BY <1>2, <1>3, KindsAreDisjoint DEF isIdentifier
<1>4. CASE toIdentifier(kind, n) # -1 /\ kind = "module"
  BY <1>1, <1>2, <1>4, NumberOfModule DEF toIdentifier, isIdentifier
<1>5. CASE toIdentifier(kind, n) # -1 /\ kind = "service"
  BY <1>1, <1>2, <1>5, NumberOfService DEF toIdentifier, isIdentifier
<1> QED BY <1>3, <1>4, <1>5

LEMMA CollectionInitHolds == CollectionInit => CollectionInv
  BY DEF CollectionInit, CollectionInv, CollectionTypeOK, CopiesAreWhole,
         ProgramsHaveIdentifiers, RecordIsOfOneProgram, AddressIsWhole,
         PortIsNewest, Exists, Missing, NoCopy

LEMMA RegistersKeeps ==
  ASSUME CollectionInv, NEW n \in Numbers, NEW address \in Addresses,
         Registers(n, address)
  PROVE  CollectionInv'
<1> DEFINE id == toIdentifier(kind, n)
           new == [state |-> "Registered", ip |-> address, port |-> address]
<1>1. id \in Identifiers
  BY RegisteredIsOfItsKind DEF CollectionInv, CollectionTypeOK
<1>2. /\ documents' = [documents EXCEPT ![id] = new]
      /\ newest' = [newest EXCEPT ![id] = address]
      /\ programs' = [programs EXCEPT ![id] = @ \cup {n}]
      /\ UNCHANGED <<kind, copy>>
  BY DEF Registers, insertOne
<1>3. new \in Document /\ new # Missing
  BY DEF Document, ConnectionState, Missing
<1>4. id = toIdentifier(kind, n)
  OBVIOUS
<1> HIDE DEF id, new
<1>5. CollectionTypeOK'
  BY <1>1, <1>2, <1>3 DEF CollectionInv, CollectionTypeOK
<1>6. CopiesAreWhole'
  BY <1>2 DEF CollectionInv, CopiesAreWhole
<1>7. ProgramsHaveIdentifiers'
  BY <1>1, <1>2, <1>4 DEF CollectionInv, CollectionTypeOK, ProgramsHaveIdentifiers
<1>8. RecordIsOfOneProgram'
  <2> SUFFICES ASSUME NEW i \in Identifiers, Exists(i)', i # id
               PROVE  (\/ /\ isIdentifier(kind, i)
                          /\ \A k, m \in programs[i] : k = m
                       \/ i = -1 /\ ~isIdentifier(kind, i))'
    <3>1. isIdentifier(kind, id) <=> id # -1
      BY <1>4, RegisteredIsOfItsKind DEF CollectionInv, CollectionTypeOK
    <3>2. ASSUME id # -1, NEW k \in programs'[id], NEW m \in programs'[id]
          PROVE  k = m
      <4>1. k \in Numbers /\ m \in Numbers
        BY <1>1, <1>5, <3>2 DEF CollectionTypeOK
      <4>2. k \in Int /\ m \in Int
        BY <4>1, CollectionAssumption
      <4>3. toIdentifier(kind, k) = id /\ toIdentifier(kind, m) = id
        BY <1>1, <1>2, <1>7, <3>2 DEF ProgramsHaveIdentifiers
      <4> QED BY <3>2, <4>2, <4>3, IdentifiersAreDistinct
                 DEF CollectionInv, CollectionTypeOK
    <3> QED BY <1>2, <3>1, <3>2 DEF RecordIsOfOneProgram
  <2>1. Exists(i) /\ programs'[i] = programs[i]
    BY <1>1, <1>2 DEF Exists, CollectionInv, CollectionTypeOK
  <2> QED BY <1>2, <2>1 DEF CollectionInv, RecordIsOfOneProgram
<1>9. AddressIsWhole'
  BY <1>1, <1>2 DEF CollectionInv, CollectionTypeOK, AddressIsWhole, new
<1>10. PortIsNewest'
  BY <1>1, <1>2 DEF CollectionInv, CollectionTypeOK, PortIsNewest, Exists, new
<1> QED BY <1>5, <1>6, <1>7, <1>8, <1>9, <1>10 DEF CollectionInv

\* A command that changes the states of some documents and nothing else.
LEMMA SetAllKeeps ==
  ASSUME CollectionInv, NEW ids, NEW state \in ConnectionState,
         SetAll(ids, state)
  PROVE  CollectionInv'
<1>1. ASSUME NEW id \in Identifiers
      PROVE  /\ documents'[id] \in Document \cup {Missing}
             /\ documents'[id].ip = documents[id].ip
             /\ documents'[id].port = documents[id].port
             /\ documents'[id] # Missing => documents[id] # Missing
  <2>1. documents[id] \in Document \cup {Missing}
    BY DEF CollectionInv, CollectionTypeOK
  <2>2. documents'[id] = IF id \in ids /\ documents[id] # Missing
                         THEN [documents[id] EXCEPT !.state = state]
                         ELSE documents[id]
    BY DEF SetAll, Exists
  <2>3. CASE documents[id] \in Document
    BY <2>2, <2>3 DEF Document, Missing
  <2>4. CASE documents[id] = Missing
    BY <2>2, <2>4
  <2> QED BY <2>1, <2>3, <2>4
<1>2. documents' = [id \in Identifiers |-> documents'[id]]
  BY DEF SetAll
<1>3. UNCHANGED <<kind, copy, newest, programs>>
  BY DEF SetAll
<1>4. CollectionTypeOK'
  BY <1>1, <1>2, <1>3 DEF CollectionInv, CollectionTypeOK
<1>5. CopiesAreWhole'
  BY <1>3 DEF CollectionInv, CopiesAreWhole
<1>6. RecordIsOfOneProgram' /\ ProgramsHaveIdentifiers'
  BY <1>1, <1>3 DEF CollectionInv, RecordIsOfOneProgram, Exists,
                    ProgramsHaveIdentifiers
<1>7. AddressIsWhole'
  BY <1>1, <1>3 DEF CollectionInv, AddressIsWhole
<1>8. PortIsNewest'
  BY <1>1, <1>3 DEF CollectionInv, PortIsNewest, Exists
<1> QED BY <1>4, <1>5, <1>6, <1>7, <1>8 DEF CollectionInv

\* deleteOne and drop.
LEMMA RemovalKeeps ==
  ASSUME CollectionInv, NEW ids \in SUBSET Identifiers,
         documents' = [id \in Identifiers |->
                         IF id \in ids THEN Missing ELSE documents[id]],
         UNCHANGED <<kind, copy, newest, programs>>
  PROVE  CollectionInv'
<1>1. CollectionTypeOK'
  BY DEF CollectionInv, CollectionTypeOK
<1>2. CopiesAreWhole'
  BY DEF CollectionInv, CopiesAreWhole
<1>3. RecordIsOfOneProgram' /\ ProgramsHaveIdentifiers'
  BY DEF CollectionInv, RecordIsOfOneProgram, Exists, ProgramsHaveIdentifiers
<1>4. AddressIsWhole'
  BY DEF CollectionInv, AddressIsWhole, Missing
<1>5. PortIsNewest'
  BY DEF CollectionInv, PortIsNewest, Exists
<1> QED BY <1>1, <1>2, <1>3, <1>4, <1>5 DEF CollectionInv

LEMMA ReadKeeps ==
  ASSUME CollectionInv, NEW t \in Threads, NEW id \in Identifiers,
         getProgram(t, id)
  PROVE  CollectionInv'
<1> DEFINE new == [id |-> id, ip |-> documents[id].ip,
                   port |-> IF kind = "module" THEN documents[id].port
                                               ELSE NoAddress]
<1>1. /\ copy' = [copy EXCEPT ![t] = new]
      /\ UNCHANGED <<kind, documents, newest, programs>>
      /\ documents[id] # Missing
  BY DEF getProgram, Exists
<1>2. documents[id] \in Document
  BY <1>1 DEF CollectionInv, CollectionTypeOK
<1>3. /\ new.id = id
      /\ new.ip \in Addresses
      /\ new.port \in Addresses \cup {NoAddress}
      /\ kind = "module" => new.port = new.ip
  BY <1>2 DEF Document, CollectionInv, AddressIsWhole
<1>4. new \in [id : Identifiers \cup {-1}, ip : Addresses \cup {NoAddress},
               port : Addresses \cup {NoAddress}]
  BY <1>3
<1> HIDE DEF new
<1>5. CollectionTypeOK'
  BY <1>1, <1>4 DEF CollectionInv, CollectionTypeOK
<1>6. CopiesAreWhole'
  BY <1>1, <1>3 DEF CollectionInv, CollectionTypeOK, CopiesAreWhole
<1>7. /\ ProgramsHaveIdentifiers' /\ RecordIsOfOneProgram'
      /\ AddressIsWhole' /\ PortIsNewest'
  BY <1>1 DEF CollectionInv, ProgramsHaveIdentifiers, RecordIsOfOneProgram,
              AddressIsWhole, PortIsNewest, Exists
<1> QED BY <1>5, <1>6, <1>7 DEF CollectionInv

LEMMA CopyIsGone ==
  ASSUME CollectionTypeOK, CopiesAreWhole, NEW t \in Threads,
         copy' = [copy EXCEPT ![t] = NoCopy], kind' = kind
  PROVE  /\ CopiesAreWhole'
         /\ copy' \in [Threads -> [id : Identifiers \cup {-1},
                                   ip : Addresses \cup {NoAddress},
                                   port : Addresses \cup {NoAddress}]]
<1>1. NoCopy \in [id : Identifiers \cup {-1}, ip : Addresses \cup {NoAddress},
                  port : Addresses \cup {NoAddress}]
  BY DEF NoCopy
<1> QED BY <1>1 DEF CollectionTypeOK, CopiesAreWhole

LEMMA ForgetKeeps ==
  ASSUME CollectionInv, NEW t \in Threads, forget(t)
  PROVE  CollectionInv'
<1>1. CollectionTypeOK' /\ CopiesAreWhole'
  BY CopyIsGone DEF forget, CollectionInv, CollectionTypeOK
<1>2. /\ ProgramsHaveIdentifiers' /\ RecordIsOfOneProgram'
      /\ AddressIsWhole' /\ PortIsNewest'
  BY DEF forget, CollectionInv, ProgramsHaveIdentifiers, RecordIsOfOneProgram,
         AddressIsWhole, PortIsNewest, Exists
<1> QED BY <1>1, <1>2 DEF CollectionInv

\* What is written back is an address of its kind, and no document comes into
\* being.
LEMMA WriteKeeps ==
  ASSUME CollectionInv, NEW t \in Threads, NEW state \in ConnectionState,
         updateModule(t, state) \/ updateService(t, state)
  PROVE  CollectionInv'
<1> DEFINE id == copy[t].id
           old == documents[id]
           new == IF kind = "module"
                  THEN [state |-> state, ip |-> copy[t].ip, port |-> copy[t].port]
                  ELSE [old EXCEPT !.state = state, !.ip = copy[t].ip]
<1>1. /\ documents' = [documents EXCEPT ![id] =
                         IF Exists(id) THEN new ELSE Missing]
      /\ copy[t] # NoCopy
      /\ copy' = [copy EXCEPT ![t] = NoCopy]
      /\ UNCHANGED <<kind, newest, programs>>
  BY DEF updateModule, updateService, WritesBack, Set
<1>2. /\ id \in Identifiers
      /\ copy[t].ip \in Addresses
      /\ kind = "module" => copy[t].port = copy[t].ip
  BY <1>1 DEF CollectionInv, CopiesAreWhole
<1>3. old \in Document \cup {Missing}
  BY <1>2 DEF CollectionInv, CollectionTypeOK
<1>4. ASSUME Exists(id)
      PROVE  /\ new \in Document
             /\ kind = "module" => new.ip = new.port
             /\ kind = "service" => new.port = old.port
  <2>1. old \in Document
    BY <1>3, <1>4 DEF Exists
  <2> QED BY <1>2, <2>1 DEF Document
<1> HIDE DEF new
<1>5. CollectionTypeOK' /\ CopiesAreWhole'
  <2>1. documents' \in [Identifiers -> Document \cup {Missing}]
    BY <1>1, <1>4 DEF CollectionInv, CollectionTypeOK
  <2>2. kind' \in {"module", "service"}
        /\ newest' \in [Identifiers -> Addresses \cup {NoAddress}]
        /\ programs' \in [Identifiers -> SUBSET Numbers]
    BY <1>1 DEF CollectionInv, CollectionTypeOK
  <2> QED BY <1>1, <2>1, <2>2, CopyIsGone DEF CollectionInv, CollectionTypeOK
<1>6. RecordIsOfOneProgram' /\ ProgramsHaveIdentifiers'
  BY <1>1 DEF CollectionInv, CollectionTypeOK, RecordIsOfOneProgram, Exists,
              ProgramsHaveIdentifiers
<1>7. AddressIsWhole'
  BY <1>1, <1>4 DEF CollectionInv, CollectionTypeOK, AddressIsWhole, Missing
<1>8. PortIsNewest'
  <2>1. ASSUME kind = "service", NEW i \in Identifiers, Exists(i)'
        PROVE  documents'[i].port = newest'[i]
    <3>1. Exists(i) /\ documents[i].port = newest[i]
      BY <1>1, <2>1 DEF CollectionInv, CollectionTypeOK, PortIsNewest, Exists
    <3>2. CASE i = id
      <4>1. documents'[i] = new
        BY <1>1, <1>2, <2>1, <3>1, <3>2 DEF CollectionInv, CollectionTypeOK
      <4> QED BY <1>1, <1>4, <2>1, <3>1, <3>2, <4>1
    <3>3. CASE i # id
      BY <1>1, <3>1, <3>3 DEF CollectionInv, CollectionTypeOK
    <3> QED BY <3>2, <3>3
  <2> QED BY <1>1, <2>1 DEF PortIsNewest
<1> QED BY <1>5, <1>6, <1>7, <1>8 DEF CollectionInv

LEMMA CollectionStep ==
  CollectionInv /\ [CollectionNext]_collectionVars => CollectionInv'
<1> SUFFICES ASSUME CollectionInv, [CollectionNext]_collectionVars
             PROVE  CollectionInv'
  OBVIOUS
<1>1. ASSUME NEW n \in Numbers, NEW address \in Addresses,
             Registers(n, address)
      PROVE  CollectionInv'
  BY <1>1, RegistersKeeps
<1>2. ASSUME NEW id \in Identifiers, deleteOne(id)
      PROVE  CollectionInv'
  <2>1. documents' = [i \in Identifiers |->
                        IF i \in {id} THEN Missing ELSE documents[i]]
    BY <1>2 DEF deleteOne, CollectionInv, CollectionTypeOK
  <2> QED BY <1>2, <2>1, RemovalKeeps DEF deleteOne
<1>3. CASE drop
  <2>1. documents' = [i \in Identifiers |->
                        IF i \in Identifiers THEN Missing ELSE documents[i]]
    BY <1>3 DEF drop
  <2> QED BY <1>3, <2>1, RemovalKeeps DEF drop
<1>4. ASSUME NEW id \in Identifiers, setDisconnected(id)
      PROVE  CollectionInv'
  BY <1>4, SetAllKeeps DEF setDisconnected, ConnectionState
<1>5. CASE setAllAsRegistered \/ markAllConnectedAsDisconnected
  BY <1>5, SetAllKeeps
     DEF setAllAsRegistered, markAllConnectedAsDisconnected, ConnectionState
<1>6. ASSUME NEW t \in Threads, NEW id \in Identifiers, getProgram(t, id)
      PROVE  CollectionInv'
  BY <1>6, ReadKeeps
<1>7. ASSUME NEW t \in Threads, forget(t)
      PROVE  CollectionInv'
  BY <1>7, ForgetKeeps
<1>8. ASSUME NEW t \in Threads, NEW state \in ConnectionState,
             updateModule(t, state) \/ updateService(t, state)
      PROVE  CollectionInv'
  BY <1>8, WriteKeeps
<1>9. CASE UNCHANGED collectionVars
  BY <1>9 DEF collectionVars, CollectionInv, CollectionTypeOK, CopiesAreWhole,
              ProgramsHaveIdentifiers, RecordIsOfOneProgram, AddressIsWhole,
              PortIsNewest, Exists
<1> QED
  BY <1>1, <1>2, <1>3, <1>4, <1>5, <1>6, <1>7, <1>8, <1>9
     DEF CollectionNext, Administration, Watching

\* The invariant of a collection, with any clients.
THEOREM CollectionInvariance == CollectionSpec => []CollectionInv
  BY CollectionInitHolds, CollectionStep, PTL DEF CollectionSpec

\* Type correctness.
THEOREM CollectionTypeCorrect == CollectionSpec => []CollectionTypeOK
<1>1. CollectionInv => CollectionTypeOK
  BY DEF CollectionInv
<1> QED BY <1>1, CollectionInvariance, PTL

\* A record that a request can find is that of one program, for all integers
\* as numbers.
THEOREM CollectionRecordIsOfOneProgram ==
  CollectionSpec => []RecordIsOfOneProgram
<1>1. CollectionInv => RecordIsOfOneProgram
  BY DEF CollectionInv
<1> QED BY <1>1, CollectionInvariance, PTL

\* A module's IP and port belong together.
THEOREM CollectionAddressIsWhole == CollectionSpec => []AddressIsWhole
<1>1. CollectionInv => AddressIsWhole
  BY DEF CollectionInv
<1> QED BY <1>1, CollectionInvariance, PTL

\* A service's port is the one it was last registered with.
THEOREM CollectionPortIsNewest == CollectionSpec => []PortIsNewest
<1>1. CollectionInv => PortIsNewest
  BY DEF CollectionInv
<1> QED BY <1>1, CollectionInvariance, PTL
-----------------------------------------------------------------------------
(* The refinement.                                                         *)

LEMMA ExistsHasState ==
  ASSUME CollectionTypeOK, NEW id \in Identifiers
  PROVE  /\ StateOf[id] = documents[id].state
         /\ Exists(id) <=> documents[id].state # "Missing"
         /\ ~Exists(id) => documents[id].state = "Missing"
<1>1. documents[id] \in Document \cup {Missing}
  BY DEF CollectionTypeOK
<1>2. documents[id] \in Document => documents[id].state \in ConnectionState
  BY DEF Document
<1> QED BY <1>1, <1>2 DEF StateOf, Exists, Missing, ConnectionState

LEMMA StateOfSet ==
  ASSUME CollectionTypeOK, NEW id \in Identifiers, NEW document,
         documents' = [documents EXCEPT ![id] = document]
  PROVE  StateOf' = [StateOf EXCEPT ![id] = document.state]
  BY DEF StateOf, CollectionTypeOK

LEMMA StateOfSetAll ==
  ASSUME CollectionTypeOK, NEW ids, NEW state, SetAll(ids, state)
  PROVE  StateOf' = [id \in Identifiers |->
                       IF id \in ids /\ StateOf[id] # "Missing" THEN state
                                                                ELSE StateOf[id]]
<1>1. ASSUME NEW id \in Identifiers
      PROVE  documents'[id].state =
               IF id \in ids /\ StateOf[id] # "Missing" THEN state
                                                        ELSE StateOf[id]
  <2>1. documents'[id] = IF id \in ids /\ Exists(id)
                         THEN [documents[id] EXCEPT !.state = state]
                         ELSE documents[id]
    BY DEF SetAll
  <2>2. documents[id] \in Document \cup {Missing}
    BY DEF CollectionTypeOK
  <2>3. [documents[id] EXCEPT !.state = state].state = state
    BY <2>2 DEF Document, Missing
  <2> QED BY <2>1, <2>3, ExistsHasState
<1> QED BY <1>1 DEF StateOf

LEMMA RecordsStep ==
  CollectionInv /\ [CollectionNext]_collectionVars => [RecordsNext]_StateOf
<1> SUFFICES ASSUME CollectionInv, [CollectionNext]_collectionVars
             PROVE  RecordsNext \/ UNCHANGED StateOf
  OBVIOUS
<1>0. CollectionTypeOK
  BY DEF CollectionInv
<1>1. ASSUME NEW n \in Numbers, NEW address \in Addresses,
             Registers(n, address)
      PROVE  RecordsNext
  <2> DEFINE id == toIdentifier(kind, n)
             new == [state |-> "Registered", ip |-> address, port |-> address]
  <2>1. id \in Identifiers
    BY <1>0, <1>1, RegisteredIsOfItsKind DEF CollectionTypeOK
  <2>2. ~Exists(id) /\ documents' = [documents EXCEPT ![id] = new]
    BY <1>1 DEF Registers, insertOne
  <2> HIDE DEF id
  <2>3. StateOf[id] = "Missing"
    BY <1>0, <2>1, <2>2, ExistsHasState
  <2>4. StateOf' = [StateOf EXCEPT ![id] = new.state]
    BY <1>0, <2>1, <2>2, StateOfSet
  <2>5. Records!insertOne(id)
    BY <2>4 DEF Records!insertOne
  <2> QED BY <2>1, <2>3, <2>5 DEF RecordsNext
<1>2. ASSUME NEW id \in Identifiers, deleteOne(id)
      PROVE  RecordsNext
  <2>1. StateOf[id] # "Missing"
    BY <1>0, <1>2, ExistsHasState DEF deleteOne
  <2>2. StateOf' = [StateOf EXCEPT ![id] = Missing.state]
    BY <1>0, <1>2, StateOfSet DEF deleteOne
  <2>3. Records!deleteOne(id)
    BY <2>1, <2>2 DEF Records!deleteOne, Missing
  <2> QED BY <2>3 DEF RecordsNext
<1>3. CASE drop
  <2>1. StateOf' = [id \in Identifiers |-> "Missing"]
    BY <1>3 DEF drop, StateOf, Missing
  <2> QED BY <2>1 DEF RecordsNext, RecordsAreReset
<1>4. ASSUME NEW id \in Identifiers, setDisconnected(id)
      PROVE  RecordsNext
  <2>1. StateOf' = [i \in Identifiers |->
                      IF i \in {id} /\ StateOf[i] # "Missing"
                      THEN "Disconnected" ELSE StateOf[i]]
    BY <1>0, <1>4, StateOfSetAll DEF setDisconnected
  <2>2. StateOf = [i \in Identifiers |-> StateOf[i]]
    BY DEF StateOf
  <2>3. StateOf' = [StateOf EXCEPT ![id] = IF @ = "Missing" THEN @
                                           ELSE "Disconnected"]
    BY <2>1, <2>2
  <2>4. Records!updateProgram(id, "Disconnected")
    BY <2>3 DEF Records!updateProgram
  <2> QED BY <2>4 DEF RecordsNext, ConnectionState
<1>5. CASE setAllAsRegistered
  <2> DEFINE ids == {id \in Identifiers : id > getMinimalModuleIdentifier}
  <2>1. StateOf' = [id \in Identifiers |->
                      IF id \in ids /\ StateOf[id] # "Missing"
                      THEN "Registered" ELSE StateOf[id]]
    BY <1>0, <1>5, StateOfSetAll DEF setAllAsRegistered
  <2>2. ids \in SUBSET Identifiers
    OBVIOUS
  <2> QED BY <2>1, <2>2 DEF RecordsNext, RecordsAreReset
<1>6. CASE markAllConnectedAsDisconnected
  <2> DEFINE ids == {id \in Identifiers : documents[id].state = "Connected"}
  <2>1. StateOf' = [id \in Identifiers |->
                      IF id \in ids /\ StateOf[id] # "Missing"
                      THEN "Disconnected" ELSE StateOf[id]]
    BY <1>0, <1>6, StateOfSetAll DEF markAllConnectedAsDisconnected
  <2>2. \A id \in Identifiers :
          id \in ids /\ StateOf[id] # "Missing" <=> StateOf[id] = "Connected"
    BY DEF StateOf
  <2>3. StateOf' = [id \in Identifiers |->
                      IF StateOf[id] = "Connected" THEN "Disconnected"
                                                   ELSE StateOf[id]]
    BY <2>1, <2>2
  <2>4. Records!markAllConnectedAsDisconnected
    BY <2>3 DEF Records!markAllConnectedAsDisconnected
  <2> QED BY <2>4 DEF RecordsNext
<1>7. ASSUME NEW t \in Threads, NEW state \in ConnectionState,
             updateModule(t, state) \/ updateService(t, state)
      PROVE  RecordsNext
  <2> DEFINE id == copy[t].id
             new == IF kind = "module"
                    THEN [state |-> state, ip |-> copy[t].ip,
                          port |-> copy[t].port]
                    ELSE [documents[id] EXCEPT !.state = state,
                                               !.ip = copy[t].ip]
  <2>1. /\ id \in Identifiers
        /\ documents' = [documents EXCEPT ![id] =
                           IF Exists(id) THEN new ELSE Missing]
    BY <1>7 DEF updateModule, updateService, WritesBack, Set, CollectionInv,
                CopiesAreWhole
  <2>2. new.state = state
    BY <1>0, <2>1 DEF CollectionTypeOK, Document, Missing
  <2> HIDE DEF new
  <2>3. StateOf' = [StateOf EXCEPT ![id] =
                      (IF Exists(id) THEN new ELSE Missing).state]
    BY <1>0, <2>1, StateOfSet
  <2>4. (IF Exists(id) THEN new ELSE Missing).state
          = IF StateOf[id] = "Missing" THEN StateOf[id] ELSE state
    BY <1>0, <2>1, <2>2, ExistsHasState DEF Missing
  <2>5. Records!updateProgram(id, state)
    BY <2>3, <2>4 DEF Records!updateProgram
  <2> QED BY <2>1, <2>5 DEF RecordsNext
<1>8. ASSUME NEW t \in Threads,
             forget(t) \/ \E id \in Identifiers : getProgram(t, id)
      PROVE  UNCHANGED StateOf
  BY <1>8 DEF forget, getProgram, StateOf
<1>9. CASE UNCHANGED collectionVars
  BY <1>9 DEF collectionVars, StateOf
<1> QED
  BY <1>1, <1>2, <1>3, <1>4, <1>5, <1>6, <1>7, <1>8, <1>9
     DEF CollectionNext, Administration, Watching

\* Each command of the collection is one step of the records that the
\* connections are modelled with.
THEOREM CollectionImplementsRecords == CollectionSpec => ImplementsRecords
<1>1. CollectionInit => \A id \in Identifiers : StateOf[id] = "Missing"
  BY DEF CollectionInit, StateOf, Missing
<1> QED
  BY <1>1, RecordsStep, CollectionInvariance, PTL
     DEF CollectionSpec, ImplementsRecords
=============================================================================
