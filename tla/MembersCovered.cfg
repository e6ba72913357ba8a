SPECIFICATION Spec
CONSTANTS
  Pcs = {p1, p2}
  Transceivers = {x1, x2}
  Tracks = {t1}
  None = None
  Members = Members
  MaxRefs = 4
  MaxEvents = 0
SYMMETRY Symmetry
CHECK_DEADLOCK FALSE
INVARIANT DereferencesCovered
