SPECIFICATION FairSpec
CONSTANTS
  Caller = {web, saver}
  Retries = 2
  NULL = NULL
  MaxCalls = 3
  MaxConn = 2
  MaxCrash = 1
INVARIANT OwnReply
PROPERTIES ImplementsCallSpec KilledByGivenUp CallsReturn ThreadsEnd
CHECK_DEADLOCK FALSE
