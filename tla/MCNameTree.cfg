SPECIFICATION FairSpec
CONSTANTS
  Name = {x1, x2, x3}
  EdgeName = {edge}
  LongName = {long}
  Roof = 4
  NodeCost = 1 LruCost = 1
  Expect = {1, 4}
  NULL = NULL
  MaxInserts = 7
  SignBit = 8
INVARIANTS PoolSound HeapSound TopN
PROPERTIES ImplementsNameSpec RecyclingEnds
CHECK_DEADLOCK FALSE
