SPECIFICATION Spec
CONSTANTS
  Blocks = 3
  Pages = 4
  MaxErr = 1
  Vals = {a, b}
  Blank = Blank
  Junk = Junk
  FailPages = {1, 2, 3}
  MaxVersion = 5
INVARIANT AckedIsDurable
INVARIANT ProgramsBlankPages
INVARIANT VersionsNameImages
INVARIANT VersionInv
