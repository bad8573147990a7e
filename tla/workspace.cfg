SPECIFICATION Spec
CONSTANTS
  c1 = c1
  c2 = c2
  Callers = {c1, c2}
  Handles <- TwoHandles
  p1 = p1
  p2 = p2
  Patches <- TwoPatches
  Bumps <- BumpingPatches
  Files <- FilePatches
  Remote = "remote"
  Expected = {0, 1}
  MaxCalls = 3
  MaxFaults = 1
SYMMETRY Symmetry
INVARIANTS TypeOK RevisionsAnsweredOnce AppliedPatchIsCaptured CleanMeansCaptured 
CHECK_DEADLOCK FALSE
