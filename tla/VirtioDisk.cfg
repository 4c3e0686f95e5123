SPECIFICATION FairSpec
CONSTANTS
  t1 = t1
  t2 = t2
  t3 = t3
  r1 = r1
  None = None
  Tasks <- MCTasks
  Requests <- MCRequest
  NUM = 8
  IdxMod = 8
  MayReset = TRUE
VIEW MCView
CHECK_DEADLOCK FALSE
INVARIANTS
  DescriptorsOwned
  ServedOnce
PROPERTY
  CommandsReturn
