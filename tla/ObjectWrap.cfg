SPECIFICATION WrapSpec
CONSTANTS
  Callers = {js, t1, t2}
  JS = js
  Events = {e1, e2}
  NoOp = NoOp
  NoOne = NoOne
  MaxStops = 2
CHECK_DEADLOCK FALSE
INVARIANTS
  OutlivesLoop
  RefsBalance
  FifoInv
  NoLostWakeup
  NoLostStop
  HandleDiscipline
PROPERTIES
  StopFrees
  IsMailbox
