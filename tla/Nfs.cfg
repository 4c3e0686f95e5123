SPECIFICATION NfsSpec
CONSTANTS
  Files <- MCFiles
  Starts <- MCStarts
  Lengths <- MCLengths
  TotalBlocks = 7
  BitmapSize = 4
  BlockSize = 3
  NumDirect = 1
  MaxOffset = 15
  MaxOps = 4
  CacheFull = TRUE
  Names <- MCNames
  RootName = ""
  Buckets <- MCBuckets
  Begins <- MCBegins
  MaxInode = 4
  MaxCalls = 4
  MaxMounts = 2
  UseStale = FALSE
CHECK_DEADLOCK FALSE
INVARIANTS
  ReadsBack
  BlocksOwned
  LinksCounted
  InodesOwned
  Resolves
PROPERTIES
  ImplementsNameSpace
