SPECIFICATION FairSpec
CONSTANTS
  Retries = 1
  Steps = 2
  Forks = {1}
  Waits = {2}
  Checked = {1}
  Retriable = {"error"}
CONSTRAINT MCBound
INVARIANTS TypeOK DoneInOrder RunsBounded FewCommandsAfterAbandon
PROPERTY EveryCallEnds
CHECK_DEADLOCK FALSE
