SPECIFICATION ReleaserSpec
CONSTANT Contexts = {c1, c2, c3, c4}
CHECK_DEADLOCK FALSE
INVARIANTS
  NoLostRelease
  QueueFaithful
  WellUsed
PROPERTY
  AllDeleted
