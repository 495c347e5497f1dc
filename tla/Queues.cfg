SPECIFICATION StatSpec
CONSTANTS
  Elements = {d1, d2, d3, d4, d5}
  Empty = none
  MAXQSZ = 3
  ClockPeriod = 8
  MaxTime = 9
SYMMETRY SameDevices
INVARIANTS
  RingInv
  OneRecordEach
  MostRecent
PROPERTY ImplementsFifo
