CONSTANTS
  plain = plain
  other = other
  Ids <- MCIds
  Models = {plain, other}
  Item <- MCItem
  SampleIds <- MCSample
  SetEntries <- MCSetEntries
  QueryEntries <- MCQueryEntries
  MaxItems = 2
  MaxVersion = 2
  MaxProbes = 1
  MaxStarts = 2
  NoItem = NoItem
  Torn = Torn
  Null = Null
SPECIFICATION Spec
INVARIANTS
  CodesFollow
  ReadsBack
  AnsweredIsStored
  RowsAligned
PROPERTIES
  RefusedUnwritten
CHECK_DEADLOCK FALSE
