SPECIFICATION FairSpec
CONSTANTS
  h1 = h1
  h2 = h2
  i1 = i1
  i2 = i2
  s1 = s1
  s2 = s2
  a = a
  Main = Main
  None = None
  Harts <- MCHarts
  Idle <- MCIdle
  Scheduler <- MCScheduler
  Subs <- MCSub
INVARIANTS
  OnePlace
  NoPanic
  NoLostWakeup
PROPERTIES
  RunnableRuns
