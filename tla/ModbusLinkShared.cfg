CONSTANTS
  sampler = sampler
  callback = callback
  Threads = {sampler, callback}
  TidMod = 8
  MaxCalls = 2
  MaxCrowded = 2
SPECIFICATION Spec
INVARIANT
  OwnAnswer
CHECK_DEADLOCK FALSE
