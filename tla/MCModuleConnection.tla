------------------------- MODULE MCModuleConnection -------------------------
EXTENDS ModuleConnection

\* Programs that send no empty header, and are neither registered nor
\* unregistered while the watchdog runs: what the runs that refute a claim
\* look at, so that nothing else than threads and the protocol refutes it.
OrderlyNext ==
  /\ Next
  /\ \A id \in Identifiers : (records[id] = "Missing") = (records'[id] = "Missing")
  /\ \A t \in Threads, c \in Connections : ~ReadStops(t, c)

OrderlySpec == Init /\ [][OrderlyNext]_vars
=============================================================================
