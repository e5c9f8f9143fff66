SPECIFICATION Spec
CONSTANTS
  b1 = b1
  n1 = n1
  b2 = b2
  b3 = b3
  Box = {b1, b2, b3}
  Selections <- AllOnly
  Names = {}
  NoName = NoName
  NoRecord = NoRecord
  MayFail = {}
  MaxFaults = 0
PROPERTIES ConnectsAll
