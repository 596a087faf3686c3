SPECIFICATION FairSpec
CONSTANTS
  t1 = t1 t2 = t2
  NULL = NULL
  Thread <- MCThread
  Size <- MCSize
  Default = 2
  Junk <- MCJunk
  MaxElem = 3
  MaxBlocks = 3
INVARIANTS Exclusive FreeListExact NullJustified
PROPERTY CallsReturn
