SPECIFICATION SysSpec
CONSTANTS
  Freeze = 7
  Vendors = {"mac", "empty", "dead"}
  NandTimes = {1, 6, 15, 16}
  MaxTime = 22
  Deadline = 15
  Slack = 1
  Retry = 1
  Requests = {r1, r2}
CHECK_DEADLOCK FALSE
INVARIANT HealthyGetsStored
INVARIANT RetryPending
INVARIANT SysInv
INVARIANT GateHolds
PROPERTY EthEventually
PROPERTY Quiesces
PROPERTY Collects
PROPERTY FirstCollection
