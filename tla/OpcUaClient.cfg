CONSTANTS
  n1 = n1
  n2 = n2
  stranger = stranger
  SampleIds <- TwoNodes
  Numeric = {n2}
  Strangers = {stranger}
  Entries <- MCEntries
  MaxChanges = 1
  MaxIds = 1
  NoNode = NoNode
  None = None
  Untyped = Untyped
SPECIFICATION FairSpec
INVARIANTS
  TypeOK
  AnswersOwnNode
  AnswersNotBehindSamples
PROPERTIES
  SamplesInOrder
  SamplesCatchUp
CHECK_DEADLOCK FALSE
