CONSTANTS
  NumIds = 2
  MaxRow = 2
  Torn = Torn
SPECIFICATION FairSpec
INVARIANTS
  TypeOK
  PublishedInOrder
  NoGapInMessage
  LossOnlyInWindow
  BeginTimeExact
  RowsWhole
PROPERTIES
  EveryValueSettles
  ImplementsChannel
CHECK_DEADLOCK FALSE
