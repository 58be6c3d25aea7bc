SPECIFICATION FairSpec
CONSTANTS
  Msdu = {m1, m2}
  Mmpdu = {g1}
  None = None
  RetryList = 2
  RetryMax = 2
  MaxReturned = 2
  Mngs = 1
  Retries = 2
  Fails = 1
  Watches = 1
  Cancels = 1
  Budget <- MCBudget
INVARIANTS
  TypeOK
  PoolConserved
  TaskletIsRight
PROPERTY
  FramesLeave
\* A transfer that USB refuses, and a stop for a timeout, leave frames waiting.
CHECK_DEADLOCK FALSE
