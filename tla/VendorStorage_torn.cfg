SPECIFICATION Spec
CONSTANTS
  Ids = {sn, mac}
  HeadIds = {sn}
  Vals = {v1, v2}
  None = None
  PartNum = 2
  MaxVersion = 5
  MaxFails = 1
INVARIANT ValidIsWhole
