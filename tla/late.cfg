SPECIFICATION SerialSpec
CONSTANTS
  p1 = p1
  p2 = p2
  c1 = c1
  c2 = c2
  Procs = {p1, p2}
  Candidates = {c1, c2}
  CheckStages = {"FinalValidation"}
  Verdicts = {TRUE}
  DirectTargets = {"InfrastructureBlocked"}
  MaxRequests = 3
  MaxFailures = 1
  StartAt = 11
  FirstCandidate = c1
  AlreadyPassing = FALSE
SYMMETRY Symmetry
INVARIANTS VersionNamesTheRow LogTellsOneHistory
PROPERTY CrossingsProven
CHECK_DEADLOCK FALSE
