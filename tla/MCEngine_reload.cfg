CONSTANTS
  r1 = r1
  i1 = i1
  o1 = o1
  Rules = {r1}
  Inputs = {i1}
  Outputs = {o1}
  Configurations <- Reloadable
  Threads = 1
  RetryInitial = 1
  RetryMax = 2
  ReconcileRetryInitial = 1
  ReconcileRetryMax = 1
  LastSeenInterval = 1
  Horizon = 1
  AttemptCap = 2
  CountCap = 0
  MaxQueue = 1
  MaxDowntime = 1
SPECIFICATION Spec
INVARIANTS TypeOK  SingleFlight OneRetryChain
PROPERTIES FreshDispatch 
