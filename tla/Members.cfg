SPECIFICATION Spec
CONSTANTS
  Pcs = {p1, p2}
  Transceivers = {x1, x2}
  Tracks = {t1}
  None = None
  Members = Members
  MaxRefs = 3
  MaxEvents = 1
SYMMETRY Symmetry
CHECK_DEADLOCK FALSE
INVARIANTS
  MembersInv
  MirrorsBalanced
  MirrorsSettled
  TracksOutlive
