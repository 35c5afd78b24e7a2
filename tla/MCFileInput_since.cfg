CONSTANTS
  Paths = {"p"}
  Sizes = {1}
  Debounce = 1
  LastSeenInterval = 2
  None = None
  MaxTime = 2
  MaxWrites = 2
  MaxFaults = 1
  MaxStops = 1
SPECIFICATION Spec
INVARIANTS OnlyHistoryIsSkipped
