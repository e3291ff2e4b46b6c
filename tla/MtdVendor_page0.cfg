SPECIFICATION Spec
CONSTANTS
  Blocks = 3
  Pages = 4
  MaxErr = 1
  Vals = {a, b}
  Blank = Blank
  Junk = Junk
  FailPages = {0}
  MaxVersion = 5
INVARIANT AckedIsDurable
