SPECIFICATION Spec
CONSTANTS
  n1 = n1 n2 = n2 n3 = n3
  d1 = d1 d2 = d2
  NULL = NULL
  Node <- MCNode
  Data <- MCData
INVARIANT ListSound
PROPERTY ImplementsLruSpec
