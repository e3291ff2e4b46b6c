SPECIFICATION Spec
CONSTANTS
  Ids = {mac}
  HeadIds = {}
  Vals = {v1, v2}
  None = None
  PartNum = 4
  MaxVersion = 7
  MaxFails = 2
INVARIANT ValidIsWhole
INVARIANT NeverOverwritesNewest
INVARIANT AckedIsDurable
INVARIANT IInv
PROPERTY RefinesAtomicStore
PROPERTY NeverRollsBack
