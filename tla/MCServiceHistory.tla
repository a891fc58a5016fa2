-------------------------- MODULE MCServiceHistory --------------------------
(***************************************************************************)
(* ServiceConnection with a history variable: the connections on which a     *)
(* Connect was accepted since they were opened.                            *)
(***************************************************************************)
EXTENDS ServiceConnection, TLC

VARIABLE connected

Opens(c) == reader[c] = "idle" /\ reader'[c] = "reading"

HistoryInit == Init /\ connected = {}

HistoryNext ==
  /\ Next
  /\ connected' =
       {c \in Connections :
          /\ ~Opens(c)
          /\ \/ c \in connected
             \/ \E t \in Threads, id \in Identifiers : ConnectAccepted(t, c, id)}

HistorySpec == HistoryInit /\ [][HistoryNext]_<<vars, connected>>

\* A connection on which no Connect was accepted has no identifier, and its
\* disconnect() leaves every record alone: "authenticationData.identifier is
\* not set - cannot set to disconnect state" (WatchdogConnection.cpp).
OnlyConnectedDemote ==
  \A t \in Threads, id \in Identifiers :
    Demotes(t, id) => task[t].conn \in connected

Symmetry == Permutations(Connections) \cup Permutations(Threads)
              \cup Permutations(Identifiers)
=============================================================================
