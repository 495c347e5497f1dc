SPECIFICATION Spec
CONSTANTS
  Peers = {2}
  Broadcast = 255
  Self = 1
  EventQueueSize = 4
  ColdQueueSize = 1
  QueueSize = 1
  MaxTxRetry = 2
  MaxPendingCad = 1
  CommandBudget = 1
  AppCommands <- ServiceCommands
  RadioMayStall = FALSE
CHECK_DEADLOCK FALSE
PROPERTY CadFlagHonoured
