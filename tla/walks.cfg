SPECIFICATION SerialFairSpec
CONSTANTS
  p1 = p1
  p2 = p2
  c1 = c1
  Procs = {p1, p2}
  Candidates = {c1}
  CheckStages = {"PolicyEvaluation"}
  Verdicts = {TRUE, FALSE}
  DirectTargets = {}
  MaxRequests = 3
  MaxFailures = 0
  StartAt = 10
  FirstCandidate = c1
  AlreadyPassing = TRUE
PROPERTIES EveryRequestAnswered WalkReachesReview
CHECK_DEADLOCK FALSE
