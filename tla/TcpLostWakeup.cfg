SPECIFICATION FairTcpSpec
CONSTANTS
  MaxRequests = 2
  Messages = {1, 2}
  Bodyless = {}
  Threads = {t1, t2}
PROPERTIES
  QueueDrains
CHECK_DEADLOCK FALSE
