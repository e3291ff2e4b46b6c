SPECIFICATION Spec
CONSTANTS
  Width = 2
  Height = 2
  Drawers = {fbcon}
  Idle = Idle
INVARIANT NoLostDamage
INVARIANT IInv
PROPERTY Settles
