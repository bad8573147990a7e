SPECIFICATION Spec
CONSTANTS
  p1 = p1
  p2 = p2
  Procs = {p1, p2}
  Plan <- QaPlan
  Verdicts = {"Pass", "Fail", "InfrastructureError"}
  Recorded = {"NotApplicable"}
  MaxRequests = 5
  MaxFailures = 1
SYMMETRY Symmetry
INVARIANTS TypeOK OpenStagesRestOnEvidence VerdictsAreOwn StageOpensOnLastRun
CHECK_DEADLOCK FALSE
