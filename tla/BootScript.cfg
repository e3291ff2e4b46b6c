SPECIFICATION Spec
CONSTANTS
  Names = {"emmc-enabled", "gpio2-sdcard-disabled", "usb-otg-peripheral"}
  MaxLen = 2
  MaxAttempts = 2
  Faults = {"missing", "reject", "damage"}
INVARIANT IInv
INVARIANT CorrectedList
INVARIANT WholeOrOriginal
INVARIANT BlockedNotInTree
INVARIANT RootIsOwn
INVARIANT SameOnRetry
