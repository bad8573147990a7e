SPECIFICATION Spec
CONSTANTS
  Candidate <- Hello
  SoundTree <- Sound
  Revisions <- MCRevisions
  HelperRuns <- MCHelperRuns
  MaxRevisions = 2
  MaxLost = 1
INVARIANTS ToolsTellOneStory 
ACTION_CONSTRAINT InOrder
CHECK_DEADLOCK FALSE
