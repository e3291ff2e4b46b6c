SPECIFICATION FairSpec
CONSTANTS
  PING_EVERY = 5
  RETRY = 2
  MU_EVERY = 3
  MaxKills = 1
INVARIANT NeverStale
INVARIANT IInv
PROPERTY SettlesGreen
PROPERTY SettlesRed
PROPERTY Blinks
PROPERTY NoticedOnceSteady
