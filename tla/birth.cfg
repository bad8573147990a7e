SPECIFICATION Spec
CONSTANTS
  p1 = p1
  p2 = p2
  c1 = c1
  Procs = {p1, p2}
  Candidates = {c1}
  CheckStages = {"SourcePreparation"}
  Verdicts = {TRUE, FALSE}
  DirectTargets = {"Cancelled"}
  MaxRequests = 4
  MaxFailures = 0
  StartAt = 0
  FirstCandidate = c1
  AlreadyPassing = FALSE
SYMMETRY Symmetry
INVARIANTS TypeOK HandlersKnow
PROPERTY ImplementsLifecycle
CHECK_DEADLOCK FALSE
