SPECIFICATION Spec
CONSTANTS
  p1 = p1
  p2 = p2
  a = a
  b = b
  Procs = {p1, p2}
  Fingerprints = {a, b}
  PlannedGates = 1
  Templates <- TwoTemplates
  Known <- KnownToEvaluator
  Authority <- TwoAuthorities
  Verdicts = {"Pass", "Fail", "Inconclusive"}
  Outcomes = {"Pass", "RequiresReview"}
  Threshold = 0
  MaxAge = 1
  MaxRequests = 4
  MaxFailures = 1
SYMMETRY Symmetry
INVARIANTS TypeOK AnswersAgree SnapshotStaysWhole VerdictRestsOnEvidence
PROPERTIES DecisionsStand
CHECK_DEADLOCK FALSE
