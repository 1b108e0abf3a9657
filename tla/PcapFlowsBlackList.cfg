CONSTANTS
  a = a
  b = b
  c = c
  modbus = modbus
  s7 = s7
  Keys = {a, b, c}
  Protocols = {modbus, s7}
  Unknown = Unknown
  LabelLists <- MCLabelLists
  BlackLists <- MCLabelLists
  Lengths = {1, 2}
  Width = 3
  NPackets = 3
  MinObjects = 1
  MaxFlows = 2
  MaxPackets = 3
SPECIFICATION Spec
INVARIANT
  ListingExact
CHECK_DEADLOCK FALSE
