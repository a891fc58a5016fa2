SPECIFICATION FairTcpSpec
CONSTANTS
  MaxRequests = 4
  Messages = {1, 2, 3, 4}
  Bodyless = {2}
  Threads = {t1, t2, t3}
INVARIANTS
  TcpTypeOK
  OneWriter
  OneReader
  AnswersInOrder
PROPERTIES
  SendsInOrder
  RequestsInOrder
  KeepsOneSender
  StartedIsDelivered
  RequestsAreHandled
CHECK_DEADLOCK FALSE
