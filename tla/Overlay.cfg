\* The process may end in a fault: deadlock is not an error.
SPECIFICATION FairSpec
CONSTANTS
  Device = {d1, d2}
  NoDevice = NoDevice
  Slot = {0}
INVARIANTS TypeOK FaultsExplained MaskNeedsPanel
PROPERTIES OneTogglePerPress PanelReturns
CHECK_DEADLOCK FALSE
