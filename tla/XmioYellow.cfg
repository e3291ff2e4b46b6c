SPECIFICATION FairSpec
CONSTANTS
  MaxSectors = 2
  MaxKills = 1
PROPERTY OnlyTransfers
PROPERTY TransferIsShown
PROPERTY GoesDark
