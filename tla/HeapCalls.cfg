SPECIFICATION HeapSpec
CONSTANTS
  SignBit = 3
  MaxLen = 7
  MaxCount = 4
INVARIANTS IndexExact SortDescends
PROPERTIES KeepsOrder KeepsElements
CHECK_DEADLOCK FALSE
