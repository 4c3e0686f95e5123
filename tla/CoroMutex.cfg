SPECIFICATION FairSpec
CONSTANTS
  c1 = c1
  c2 = c2
  c3 = c3
  c4 = c4
  h1 = h1
  h2 = h2
  None = None
  Coros <- MCCoros
  Harts <- MCHarts
  NoYield <- MCSpinner
INVARIANTS
  MutualExclusion
  InOnePlace
  NoLostWakeup
PROPERTIES
  ImplementsAbstractLock
  SleepersWoken
  SomebodyOwns
