-------------------------- MODULE ModuleConnection --------------------------
(***************************************************************************)
(* class ModuleConnection: the connections accepted on port 1234.          *)
(*                                                                         *)
(* Two things are its own.  A connection starts with a three second wait   *)
(* on the timer, whose handler finds that the last ping, set when reading  *)
(* started, is not eight seconds old.  And the class declares a second     *)
(* timer of the same name: disconnect() cancels that one, on which nothing *)
(* ever waits, so the wait for the next ping goes on after the connection  *)
(* has been closed.                                                        *)
(***************************************************************************)
EXTENDS ProgramConnection

\* Mutant: authenticationData is not initialised, so that a new connection
\* holds the identifier that was in the memory.
AcceptKeepsIdentifier(t, c) ==
  /\ Free(t) /\ Released(c)
  /\ socket' = [socket EXCEPT ![c] = "open"]
  /\ reader' = [reader EXCEPT ![c] = "reading"]
  /\ waiting' = [waiting EXCEPT ![c] = TRUE]
  /\ UNCHANGED <<records, running, identifier, due, writing, task, abandoned>>

\* ModulesAcceptor::postAccept for an object made since the last accept.
Accept(t, c) ==
  /\ Free(t) /\ Released(c)
  /\ socket' = [socket EXCEPT ![c] = "open"]
  /\ reader' = [reader EXCEPT ![c] = "reading"]
  /\ identifier' = [identifier EXCEPT ![c] = NoIdentifier]
  /\ waiting' = [waiting EXCEPT ![c] = TRUE]
  /\ UNCHANGED <<records, running, due, writing, task, abandoned>>

\* The end of disconnect(), on any thread and for any reason.
Close(t) ==
  /\ closeSocket(t)
  /\ UNCHANGED <<records, running, reader, identifier, waiting, due, writing,
                 abandoned>>

Next ==
  \/ \E t \in Threads, c \in Connections : Accept(t, c)
  \/ \E t \in Threads : Close(t)
  \/ ProcessStep
  \/ EnvironmentStep

Spec == Init /\ [][Next]_vars

Fairness == CommonFairness /\ \A t \in Threads : WF_vars(Close(t))

FairSpec == Spec /\ Fairness
=============================================================================
