SPECIFICATION Spec
CONSTANTS
  Harts <- MCHarts
  Locks <- MCLocks
INVARIANTS
  MutualExclusion
  NoPanic
  IrqRestored
PROPERTY
  ImplementsAbstractLock
