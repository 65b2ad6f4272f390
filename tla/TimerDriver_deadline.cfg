SPECIFICATION Spec
CONSTANTS
  Half = 8
  Interval = 14
  Horizon = 40
INVARIANTS TypeOK ArmedDeadlineIsWhole
PROPERTIES NeverEarly
