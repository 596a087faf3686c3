SPECIFICATION Spec
CONSTANTS
  Name = {x1, x2, x3, x4}
  EdgeName = {edge}
  LongName = {long}
  Roof = 3
  NodeCost = 1 LruCost = 1
  Expect = {1, 4}
  NULL = NULL
  MaxInserts = 4
  SignBit = 8
INVARIANT AcceptedOnce
SYMMETRY Symmetry
CHECK_DEADLOCK FALSE
