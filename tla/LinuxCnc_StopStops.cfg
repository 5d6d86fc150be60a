CONSTANTS
  MaxAxes = 1
  Speeds <- MCSpeeds
SPECIFICATION Spec
INVARIANT StopStops
