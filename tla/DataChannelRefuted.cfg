SPECIFICATION SafeSpec
CONSTANT MaxMessages = 1
CHECK_DEADLOCK FALSE
INVARIANTS
  CacheFaithful
  ChannelReleased
  InOrder
  NoNullUse
  OpenNotDuringClosing
