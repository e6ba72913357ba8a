SPECIFICATION Spec
CONSTANTS
  Pcs = {p1}
  Transceivers = {x1, x2}
  Tracks = {t1}
  None = None
  Members = Members
  MaxRefs = 4
  MaxEvents = 2
SYMMETRY Symmetry
CHECK_DEADLOCK FALSE
INVARIANTS
  ClosedCollected
  ReceiverTracksReleased
  TrackKnown
  TracksReleased
  ClosedMembersUsable
