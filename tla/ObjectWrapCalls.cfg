SPECIFICATION WrapSafeSpec
CONSTANTS
  Callers = {js, t1}
  JS = js
  Events = {e1, e2}
  NoOp = NoOp
  NoOne = NoOne
  MaxStops = 2
CHECK_DEADLOCK FALSE
INVARIANT OutlivesCalls
