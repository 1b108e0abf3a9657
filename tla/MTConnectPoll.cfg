CONSTANTS
  NumChannels = 2
  MaxVersion = 2
  MaxQueries = 2
  MaxFaults = 2
SPECIFICATION FairSpec
INVARIANTS
  EndsOnlyBy
  FirstChannelsLead
PROPERTY
  NewestPublished
CHECK_DEADLOCK FALSE
