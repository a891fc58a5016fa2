SPECIFICATION HistorySpec
CONSTANTS
  Identifiers = {id1, id2}
  NoIdentifier = NoIdentifier
  Connections = {c1, c2}
  Threads = {t1, t2}
  NoTask = NoTask
  MaxTimerHandlers = 1
SYMMETRY Symmetry
INVARIANTS
  TypeOK
  HandlerOwnsConnection
  ConnectedIsGuarded
  OnlyConnectedDemote
