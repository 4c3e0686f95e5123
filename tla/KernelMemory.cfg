SPECIFICATION Spec
CONSTANTS
  a1 = a1
  a2 = a2
  u1 = u1
  u2 = u2
  NULL = NULL
  Kernel = Kernel
  NPages = 14
  FreeCounts = {2, 5, 7, 9, 11, 14}
  Pages <- MCPages
  FreeLists <- MCFreeLists
  Actors <- MCActors
  Procs <- MCProcs
  Classes <- MCClasses
  Capacity <- MCCapacity
  Sizes <- MCSizes
  Programs <- MCPrograms
  Fan = 3
  PageUnits = 2
  TRAMPOLINE = 26
  TRAPFRAME = 25
  USER_STACK_TOP = 17
  USER_TEXT_START = 1
  TrampolinePage = 0
  VMEM_START = 12
  MaxVmem = 4
  MaxCalls = 4
SYMMETRY MCSymmetry
CHECK_DEADLOCK FALSE
INVARIANTS
  PagesOwned
  SlotsOwned
  FreeChain
  SpacesOwnPages
  LoadedImage
  ObjectsFit
PROPERTIES
  ImplementsHeap
