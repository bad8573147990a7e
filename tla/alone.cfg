SPECIFICATION SerialRepairSpec
CONSTANTS
  p1 = p1
  c1 = c1
  c2 = c2
  Procs = {p1}
  Candidates = {c1, c2}
  CheckStages = {}
  Verdicts = {TRUE}
  DirectTargets = {}
  MaxRequests = 5
  MaxFailures = 2
  StartAt = 10
  FirstCandidate = c1
  AlreadyPassing = TRUE
INVARIANTS LossBoundedByFailures ReplayMatchesRow
PROPERTY ResumeReturnsToEntry
CHECK_DEADLOCK FALSE
