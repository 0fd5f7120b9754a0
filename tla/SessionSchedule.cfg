SPECIFICATION FairSpec
CONSTANTS
  NumCalls = 2
  Owner = owner
  Interval = 2
  MaxDelay = 2
  Horizon = 4
  MaxTurns = 1
  MaxTroubles = 1
INVARIANTS
  LogReplays
  DispatchIsBacked
  RepeatsOnlyAfterCrash
  AnswersAreDurable
  NoLostWake
PROPERTIES
  NeverEarly
  StopsQuietly
  DueIsServed
CHECK_DEADLOCK FALSE
