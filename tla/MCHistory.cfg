SPECIFICATION Spec
CONSTANTS
  all = all local = local
  View <- MCView
  FLUSH_TIME = 2
  ONE_HOUR_TIME = 2
  ONE_DAY_TIME = 4
  RECORD_NUM = 1
  TIME_INTERVAL = 4
  Dates = {0, 10, 18}
  MaxQuery = 2
  MaxTimes = 4
  MaxDelay = 1
  MaxFail = 1
SYMMETRY MCSymmetry
INVARIANTS InOneHour Accounted ReportedOnce ReportMisses
CHECK_DEADLOCK FALSE
