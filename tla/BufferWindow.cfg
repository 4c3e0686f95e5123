SPECIFICATION Spec
CONSTANTS
  t1 = t1
  t2 = t2
  b1 = b1
  b2 = b2
  b3 = b3
  d1 = d1
  d2 = d2
  n1 = n1
  n2 = n2
  n3 = n3
  n4 = n4
  None = None
  Tasks <- MCTasks
  Blocks <- MCTwoBlocks
  Devices <- MCNoDevices
  DeviceOf <- MCDeviceOf
  BadBlocks <- MCNoBad
  Nodes <- MCNodes
  Cells <- MCCells
  CacheSize = 8
  MinCount = 1
  MaxCount = 2
  OutOfMemory = FALSE
  MaxVersion = 1
INVARIANT
  RightBuffer
