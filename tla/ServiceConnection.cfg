SPECIFICATION FairSpec
CONSTANTS
  Identifiers = {id1, id2}
  NoIdentifier = NoIdentifier
  Connections = {c1}
  Threads = {t1, t2}
  NoTask = NoTask
  MaxTimerHandlers = 2
INVARIANTS
  TypeOK
  HandlerOwnsConnection
  ConnectedIsGuarded
PROPERTIES
  ClosedIsRecorded
  ClosedIsReleased
  ImplementsSessions
