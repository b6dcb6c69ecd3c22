SPECIFICATION Spec
CONSTANTS
  Resolutions = {low, high}
  MotionResolution = motion
  None = none
  Tasks = {1, 2}
  InitialDelay = 8
  ActiveInterval = 1
  IdleInterval = 2
  CoolingDown = 4
  Delaying = 4
  MmalMayFail = TRUE
INVARIANTS
  FirstChangeIsMade
PROPERTY RebuildsSpaced
