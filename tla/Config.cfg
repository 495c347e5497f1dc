SPECIFICATION Spec
CONSTANTS
  KeySize = 2
  DeviceIds = {1}
  Channels = {3}
  Factors = {7, 12}
  PreambleTimes = {100}
  EncKeys <- MCEncKeys
  Wraps = FALSE
INVARIANTS TypeOK ConnectedIsUsable RadioFollows CadCatchesPreamble
PROPERTY BootsWhole
