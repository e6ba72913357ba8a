SPECIFICATION Spec
CONSTANT MaxMessages = 2
CHECK_DEADLOCK FALSE
INVARIANTS
  ChannelInv
  NoEventLost
  OnlyHandoverReorders
PROPERTY
  LocalChannelEnds
