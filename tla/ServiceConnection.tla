------------------------- MODULE ServiceConnection -------------------------
(***************************************************************************)
(* class ServiceConnection: the connections accepted on port 1235.         *)
(*                                                                         *)
(* Where it differs from ModuleConnection: serviceAuthenticationData is    *)
(* not initialised, so a new connection holds whatever the memory of the   *)
(* object held; no wait begins when a connection is accepted;              *)
(* disconnect() cancels the timer that is in use; and createMessageResponse*)
(* catches every exception, so a database command that fails costs the     *)
(* reply and not the process.                                              *)
(***************************************************************************)
EXTENDS ProgramConnection

\* ServicesAcceptor::serviceAccepted.  The memory may be that of an earlier
\* connection, with the identifier of any service.
Accept(t, c) ==
  /\ Free(t) /\ Released(c)
  /\ socket' = [socket EXCEPT ![c] = "open"]
  /\ reader' = [reader EXCEPT ![c] = "reading"]
  /\ \E id \in Identifiers \cup {NoIdentifier} :
       identifier' = [identifier EXCEPT ![c] = id]
  /\ UNCHANGED <<records, running, waiting, due, writing, task, abandoned>>

\* updateService() throws before the record is written, and catch (...) in
\* createMessageResponse drops the request.  Connect has already taken the
\* identifier.
WriteThrows(t) ==
  /\ Busy(t) /\ task[t].step \in {"connecting", "reconnecting", "shuttingDown"}
  /\ startReadingSequence(task[t].conn)
  /\ End(t)
  /\ UNCHANGED <<records, running, socket, identifier, waiting, due, writing,
                 abandoned>>

\* Mutant: the exception also skips the start of the next read.
GrantThrowsAway(t) ==
  /\ Busy(t) /\ task[t].step = "granted"
  /\ reader' = [reader EXCEPT ![task[t].conn] = "idle"]
  /\ End(t)
  /\ UNCHANGED <<records, running, socket, identifier, waiting, due, writing,
                 abandoned>>

\* updateService() throws after the record was written: the answer of the
\* database is lost, and with it the sequence code, the timer and the reply.
GrantThrows(t) ==
  /\ Busy(t) /\ task[t].step = "granted"
  /\ startReadingSequence(task[t].conn)
  /\ End(t)
  /\ UNCHANGED <<records, running, socket, identifier, waiting, due, writing,
                 abandoned>>

\* The end of disconnect().  cancel() makes the handler of the outstanding
\* wait due.
Close(t) ==
  /\ closeSocket(t)
  /\ LET c == task[t].conn IN
       /\ due' = [due EXCEPT ![c] = IF waiting[c] THEN @ + 1 ELSE @]
       /\ waiting' = [waiting EXCEPT ![c] = FALSE]
  /\ UNCHANGED <<records, running, reader, identifier, writing, abandoned>>

Next ==
  \/ \E t \in Threads, c \in Connections : Accept(t, c)
  \/ \E t \in Threads : WriteThrows(t) \/ GrantThrows(t) \/ Close(t)
  \/ ProcessStep
  \/ EnvironmentStep

Spec == Init /\ [][Next]_vars

Fairness == CommonFairness /\ \A t \in Threads : WF_vars(Close(t))

FairSpec == Spec /\ Fairness
=============================================================================
