SPECIFICATION Spec
CONSTANTS
  Tracks = {t1, t2}
  Wrappers = {w1, w2}
  Streams = {s1, s2}
  None = None
  MaxChanges = 1
CHECK_DEADLOCK FALSE
INVARIANTS
  TracksInv
  OneWrapper
PROPERTY
  EndReachesTrack
