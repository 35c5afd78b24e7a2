CONSTANTS
  Bad = Bad
  Configs <- Loadable
  Broken <- Raising
  First <- Both
  MaxReloads = 1
SPECIFICATION Spec
INVARIANTS StoppedOnExit
CHECK_DEADLOCK FALSE
