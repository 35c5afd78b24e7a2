CONSTANTS
  MaxMail = 3
  Old = 1
  Matching = {2, 3}
  CatchUpLimit = 1
  Shifts = {0, 1}
  RebuildAlone = TRUE
  MaxRebuilds = 2
  MaxFaults = 1
  MaxStops = 1
SPECIFICATION FairSpec
INVARIANTS TypeOK  
PROPERTIES EveryMailHandled
