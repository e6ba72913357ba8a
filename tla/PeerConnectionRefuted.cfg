SPECIFICATION SafeSpec
CONSTANTS
  Offers = {o1}
  Locals = {}
  Remotes = {r1}
  Candidates = {c1}
  Stats = {}
  Programs = {{}, {o1}, {o1, r1, c1}}
  Quiet = {{o1, r1, c1}}
  MaxNotices = 1
CHECK_DEADLOCK FALSE
INVARIANTS
  NothingCrashes
  CandidateQueued
  QuietWhenClosed
