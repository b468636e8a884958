\* A device is lost and recovered by a second call of Reset.
SPECIFICATION Spec
CONSTANTS
  Device = {d1}
  NoDevice = NoDevice
  Slot = {}
PROPERTY ReinitialisesAfterFailedReset
CHECK_DEADLOCK FALSE
