--------------------------- MODULE ProgramSession ---------------------------
(***************************************************************************)
(* What the handlers of all connections together promise about the record  *)
(* of one program.  A handler looks at the record, and some time later     *)
(* writes it; in between it is a writer with an intent, and any number of  *)
(* others look and write.  So a state of the record may be overwritten by  *)
(* a writer that never saw it, but never by one whose own look did not     *)
(* allow the write.                                                        *)
(*                                                                         *)
(*   Connected      after a look at a record of an unconnected program     *)
(*   Disconnected   after a look at a record that said Connected           *)
(*   Registered     after a look at any record                             *)
(***************************************************************************)

CONSTANT Writers   \* who may be between the look and the write

VARIABLES up,      \* is there a watchdog process?
          record,  \* the state of the record, or Missing
          intent   \* the state a writer is about to write, or None

sessionVars == <<up, record, intent>>

None == "none"

\* What a look at the record allows its writer.
Allowed ==
  CASE record = "Missing" -> {}
    [] record = "Connected" -> {"Disconnected", "Registered"}
    [] OTHER -> {"Connected", "Registered"}

\* getModule(), getService(): the check of a handler.
Looks(w) ==
  /\ up /\ intent[w] = None
  /\ \E state \in Allowed : intent' = [intent EXCEPT ![w] = state]
  /\ UNCHANGED <<up, record>>

\* updateModule(), updateService().  A record that has gone is not put back.
Writes(w) ==
  /\ up /\ intent[w] # None
  /\ record' = IF record = "Missing" THEN record ELSE intent[w]
  /\ intent' = [intent EXCEPT ![w] = None]
  /\ UNCHANGED up

\* The update throws.
GivesUp(w) ==
  /\ up /\ intent[w] # None
  /\ intent' = [intent EXCEPT ![w] = None]
  /\ UNCHANGED <<up, record>>

\* The process dies, with all that was about to be written.
Dies ==
  /\ up /\ up' = FALSE
  /\ intent' = [w \in Writers |-> None]
  /\ UNCHANGED record

\* It starts: markAllConnectedAsDisconnected.
Starts ==
  /\ ~up /\ up' = TRUE
  /\ record' = IF record = "Connected" THEN "Disconnected" ELSE record
  /\ UNCHANGED intent

\* insertOne(), deleteOne(), at any time.
Registers ==
  /\ record = "Missing" /\ record' = "Registered"
  /\ UNCHANGED <<up, intent>>

Unregisters ==
  /\ record # "Missing" /\ record' = "Missing"
  /\ UNCHANGED <<up, intent>>

SessionInit ==
  /\ up = TRUE
  /\ record \in {"Registered", "Disconnected", "Missing"}
  /\ intent = [w \in Writers |-> None]

SessionNext ==
  \/ \E w \in Writers : Looks(w) \/ Writes(w) \/ GivesUp(w)
  \/ Dies \/ Starts
  \/ Registers \/ Unregisters
=============================================================================
