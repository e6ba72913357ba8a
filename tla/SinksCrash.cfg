SPECIFICATION SafeSpec
CONSTANTS
  AudioSinks = {a1, a2}
  VideoSinks = {v1}
  Sender = Sender
  None = None
  MaxData = 2
CHECK_DEADLOCK FALSE
INVARIANT NeverCrashes
