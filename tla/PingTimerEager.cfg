SPECIFICATION SteadySpec
CONSTANTS
  ExpirationInterval = 16
  ConnectionInterval = 6
  PingGap = 14
  MaxLatency = 0
  MaxShift = 0
  MaxHandlers = 2
INVARIANTS
  OnlySilentTimesOut
