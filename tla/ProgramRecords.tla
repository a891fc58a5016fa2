--------------------------- MODULE ProgramRecords ---------------------------
(***************************************************************************)
(* The collections "Modules" and "Services" of the MongoDB database        *)
(* ProcessManager, as the watchdog uses them.  A collection holds at most  *)
(* one record per identifier; of a record only the connection state is     *)
(* kept here (ProgramCollection has all fields, and shows that its         *)
(* commands are these).  Each operator is one command sent to the          *)
(* database, hence one atomic step.  A handler that reads a record and     *)
(* writes it back issues two of them, and other handlers run in between.   *)
(***************************************************************************)

CONSTANTS Identifiers,   \* the identifiers a record can exist for
          NoIdentifier   \* 0 and -1: what a connection has before a Connect.
                         \* No request is accepted for them: if there is a
                         \* record of one, it is never Connected, which for
                         \* disconnect() is as if there were none

ASSUME NoIdentifierAssumption == NoIdentifier \notin Identifiers

VARIABLE records         \* the state of the record of each identifier

ConnectionState == {"Registered", "Connected", "Disconnected"}

RecordState == ConnectionState \cup {"Missing"}

RecordsTypeOK == records \in [Identifiers -> RecordState]

\* getModule / getService.  An identifier that is not of the right kind, or
\* that no record carries, gives the same answer: no record.
getProgram(id) == IF id \in Identifiers THEN records[id] ELSE "Missing"

\* updateModule / updateService.  update_one() on a record that has gone in
\* the meantime matches nothing and still returns a result.
updateProgram(id, state) ==
  records' = [records EXCEPT ![id] = IF @ = "Missing" THEN @ ELSE state]

\* insertOne, called by whoever registers programs, for which it is to see that
\* there is no record of the identifier: the command does not ask.
insertOne(id) == records' = [records EXCEPT ![id] = "Registered"]

\* deleteOne, called by whoever registers programs.
deleteOne(id) ==
  /\ records[id] # "Missing"
  /\ records' = [records EXCEPT ![id] = "Missing"]

\* markAllConnectedAsDisconnected: one update_many().
markAllConnectedAsDisconnected ==
  records' = [id \in Identifiers |->
                IF records[id] = "Connected" THEN "Disconnected"
                                             ELSE records[id]]
=============================================================================
