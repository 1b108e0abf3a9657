CONSTANTS
  sampler = sampler
  callback = callback
  Threads = {sampler, callback}
  TidMod = 3
  MaxCalls = 5
  MaxCrowded = 3
SPECIFICATION FairSpec
INVARIANTS
  TypeOK
  SerialOwnAnswer
  AnswerOnce
PROPERTIES
  SuccessMeansInSync
  EveryCallReturns
CHECK_DEADLOCK FALSE
