SPECIFICATION TimerSpec
CONSTANTS
  ExpirationInterval = 16
  ConnectionInterval = 6
  PingGap = 14
  MaxLatency = 1
  MaxShift = 4
  MaxHandlers = 2
INVARIANTS
  TimerTypeOK
  PromptIsKept
  SilenceIsNoticed
