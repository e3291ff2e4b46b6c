SPECIFICATION Spec
CONSTANTS
  Names = {"emmc-enabled", "gpio2-sdcard-disabled", "usb-otg-peripheral"}
  MaxLen = 1
  MaxAttempts = 1
  Faults = {"damage"}
INVARIANT RequiredInTree
