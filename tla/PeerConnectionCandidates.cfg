SPECIFICATION Spec
CONSTANTS
  Offers = {}
  Locals = {}
  Remotes = {}
  Candidates = {c1}
  Stats = {}
  Programs = {{c1}}
  Quiet = {}
  MaxNotices = 0
CHECK_DEADLOCK FALSE
PROPERTY CandidatesSettled
