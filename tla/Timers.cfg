SPECIFICATION Spec
CONSTANTS
  Sm = sm
  Cad = cad
  Radio = radio
  Timers = {sm, cad, radio}
  SmDelays = {1, 4}
  CadInterval = 3
  RadioTimeout = 2
  MaxLatency = 1
  MaxElapsed = 6
CHECK_DEADLOCK FALSE
INVARIANTS
  TypeOK
  NoneDropped
  AlarmSet
  EndsOnce
PROPERTIES
  NeverEarly
  OperationEnds
  TimersExpire
