SPECIFICATION Spec
CONSTANTS
  Ids = {sn, mac, bt}
  Vals = {v1, v2}
  None = None
  Align = 2
  DataSize = 11
  MaxItems = 3
  Sizes = {1, 3}
INVARIANT ReadBack
INVARIANT ExtentsApart
INVARIANT CopiesDown
INVARIANT IInv
SYMMETRY Symmetry
