CONSTANTS
  Adapters = {"ModBus", "OPC-UA", "MTConnect"}
  MaxSamples = 3
  MaxWrites = 2
SPECIFICATION FairSpec
INVARIANTS
  TypeOK
  FlowsInOrder
  LossOnlyInWindow
PROPERTIES
  EverySampleSettles
  ImplementsChannel
CHECK_DEADLOCK FALSE
