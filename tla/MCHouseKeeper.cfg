SPECIFICATION Spec
CONSTANTS
  v1 = v1 v2 = v2 long = long total = total star = star n1 = n1 n2 = n2 n3 = n3
  s1 = s1 s2 = s2 s3 = s3 c1 = c1 c2 = c2
  NULL = NULL main = main qps = qps
  Client = {c1, c2}
  Key <- MCKey
  LongKey = {long}
  Line <- MCLine
  Name <- MCName
  Overrun = {n3}
  Stat <- MCStat
  Asked <- MCAsked
  Limit = 12
  StatCost = 2 NodeCost = 2 BaseCost = 0
  Garbage <- MCGarbage
  MaxLines = 4
  MaxRequests = 2
SYMMETRY MCSymmetry
INVARIANTS LockDiscipline TreeMatchesLru CountOffByResidue InUseNotFreed TotalsCover
CHECK_DEADLOCK FALSE
