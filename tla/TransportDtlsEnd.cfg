SPECIFICATION Spec
CONSTANTS
  MaxSignals = 0
CHECK_DEADLOCK FALSE
PROPERTY DtlsEndAnnounced
