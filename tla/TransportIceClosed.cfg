SPECIFICATION SafeSpec
CONSTANTS
  MaxSignals = 2
CHECK_DEADLOCK FALSE
INVARIANT IceStaysClosed
