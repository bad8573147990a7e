SPECIFICATION KindSpec
CONSTANTS
  r1 = r1
  Runs = {r1}
  Tools <- AllTools
  Endings <- AllEndings
  OutputMax = 1
  ArtifactMax = 2
  Budgets <- TightBudgets
  MaxFaults = 1
  MaxRestarts = 1
INVARIANTS TypeOK  NamedArtifactsResolve RecordsAccountForStreams PassIsEarned
PROPERTIES EveryRunAnswered
CHECK_DEADLOCK FALSE
