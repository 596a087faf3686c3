SPECIFICATION FairSpec
CONSTANTS
  v1 = v1 v2 = v2 long = long total = total star = star n1 = n1 n2 = n2 n3 = n3
  s1 = s1 s2 = s2 s3 = s3 c1 = c1 c2 = c2
  NULL = NULL main = main qps = qps
  Client = {c1}
  Key <- MCKey
  LongKey = {long}
  Line <- MCFewLines
  Name <- MCName
  Overrun = {n3}
  Stat = {s1, s2}
  Asked <- MCAsked
  Limit = 5
  StatCost = 2 NodeCost = 1 BaseCost = 0
  Garbage = {}
  MaxLines = 4
  MaxRequests = 2
INVARIANT MemoryBound
PROPERTY AllServed
CHECK_DEADLOCK FALSE
