SPECIFICATION Spec
CONSTANTS
  AudioSinks = {a1}
  VideoSinks = {v1}
  Sender = Sender
  None = None
  MaxData = 3
CHECK_DEADLOCK FALSE
INVARIANT
  SinksInv
PROPERTIES
  QuietOnceStopped
  ListenersHear
  AreMailboxes
