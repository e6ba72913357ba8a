SPECIFICATION Spec
CONSTANTS
  MaxSignals = 3
CHECK_DEADLOCK FALSE
INVARIANTS
  TransportInv
PROPERTY
  LoopsEnd
