SPECIFICATION Spec
CONSTANTS
  Offers = {o1}
  Locals = {l1}
  Remotes = {r1, r2}
  Candidates = {c1}
  Stats = {s1}
  Programs = {{o1, r1, r2}, {l1, c1, s1}}
  Quiet = {{o1, r1, r2}}
  MaxNotices = 1
CHECK_DEADLOCK FALSE
INVARIANTS
  PeerConnectionInv
  MembersFirst
PROPERTIES
  IsPromises
  CloseEnds
  PromisesSettled
