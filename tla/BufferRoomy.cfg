SPECIFICATION Spec
CONSTANTS
  t1 = t1
  t2 = t2
  b1 = b1
  b2 = b2
  b3 = b3
  d1 = d1
  d2 = d2
  n1 = n1
  n2 = n2
  n3 = n3
  n4 = n4
  None = None
  Tasks <- MCTasks
  Blocks <- MCTwoBlocks
  Devices <- MCDevices
  DeviceOf <- MCDeviceOf
  BadBlocks <- MCBad
  Nodes <- MCNodes
  Cells <- MCCells
  CacheSize = 8
  MinCount = 2
  MaxCount = 3
  OutOfMemory = TRUE
  MaxVersion = 2
SYMMETRY MCSymmetry
INVARIANTS
  RightBuffer
  Coherent
  DestroyWritesBack

CHECK_DEADLOCK FALSE
