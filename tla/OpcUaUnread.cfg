CONSTANTS
  n1 = n1
  n2 = n2
  stranger = stranger
  SampleIds <- TwoNodes
  Numeric = {n2}
  Strangers = {stranger}
  Entries <- MCUnread
  MaxChanges = 1
  MaxIds = 2
  NoNode = NoNode
  None = None
  Untyped = Untyped
SPECIFICATION Spec
INVARIANTS
  UnreadRefused
CHECK_DEADLOCK FALSE
