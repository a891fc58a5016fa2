\* Two kinds of program, three threads, and two failures: one to strike while
\* the server runs, another while it starts again.
SPECIFICATION FairServerSpec
CONSTANTS
  Modules = {m1}
  Services = {s1}
  Threads = {t1, t2, t3}
  MaxFailures = 2
INVARIANTS ServerTypeOK ConnectedIsWatched OpenIsServed
PROPERTIES BlindWhileStarting FailureIsRepaired
\* main() returns
CHECK_DEADLOCK FALSE
