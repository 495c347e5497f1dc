SPECIFICATION Spec
CONSTANTS
  Peers = {2}
  Broadcast = 255
  Self = 1
  EventQueueSize = 4
  ColdQueueSize = 1
  QueueSize = 1
  MaxTxRetry = 2
  MaxPendingCad = 1
  CommandBudget = 3
  AppCommands <- ExchangeCommands
  RadioMayStall = FALSE
CHECK_DEADLOCK FALSE
INVARIANTS
  TypeOK
  OneWakeUp
  BackoffReleases
  NoStaleUnblock
  PendingAccounted
  FrameWithinRetries
  AckReady
  RadioFormat
PROPERTY RadioStartsAsleep
