SPECIFICATION FairSpec
CONSTANTS
  Log <- MCLog
  MaxLine = 2
  MaxFile = 3
INVARIANTS InOrderOnce LostOnlyIfLate KilledByLine RepliesMatch
PROPERTIES RotationNoticed ReadsOn
CHECK_DEADLOCK FALSE
