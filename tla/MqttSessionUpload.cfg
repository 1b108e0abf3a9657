CONSTANTS
  Topics = {"query", "response"}
  Handled = {"query", "response"}
  Answered = {"query", "sample"}
  Parsing = {"query"}
  Publishers = {"flow", "channel"}
  Guarded = {}
  MaxRetry = 5
  MaxLosses = 1
  MaxRequests = 1
SPECIFICATION FairSpec
PROPERTY
  LossIsRetried
CHECK_DEADLOCK FALSE
