CONSTANTS
  Bad = Bad
  Configs <- Loadable
  Broken <- Raising
  First <- Both
  MaxReloads = 2
SPECIFICATION FairSpec
INVARIANTS TypeOK   StaleCacheIsRepaired
PROPERTIES UnchangedUntouched LastReloadAdopted TerminateExits
CHECK_DEADLOCK FALSE
