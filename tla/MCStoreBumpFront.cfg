SPECIFICATION Spec
CONSTANTS
  g1 = g1
  g2 = g2
  NoGuid = NoGuid
  Guids <- MCGuids
  Worlds <- BumpWorld
  Values = 2
  MaxId = 2
  MaxStack = 2
PROPERTY BumpMovesToFront
