SPECIFICATION Spec
CONSTANTS
  MaxCores = 10
  MaxBoxesCores = 24
  MaxHeight = 100
  Cores <- MCCores
  Heights <- MCHeights
  Widths <- MCWidths
  Threshold = 32
CHECK_DEADLOCK FALSE
INVARIANTS
  BandsTile
