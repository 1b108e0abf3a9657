CONSTANTS
  Topics = {"query", "response"}
  Handled = {"query", "response"}
  Answered = {"query", "sample"}
  Parsing = {"query"}
  Publishers = {"flow", "channel"}
  Guarded = {"flow"}
  MaxRetry = 5
  MaxLosses = 3
  MaxRequests = 2
SPECIFICATION FairSpec
INVARIANTS
  TypeOK
  SubscribedWhenSettled
  GivesUpOnTime
  DiesOnlyOffline
  RepliesMatch
PROPERTY
  LossEnds
CHECK_DEADLOCK FALSE
