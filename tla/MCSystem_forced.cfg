CONSTANTS
  r1 = r1
  i1 = i1
  pager = pager
  lamp = lamp
  Rules = {r1}
  Inputs = {i1}
  Outputs = {pager, lamp}
  Configurations <- Both
  PollOutputs = {pager}
  SwitchOutputs = {lamp}
  Scenarios <- FaultAndCrash
  Threads = 1
  RetryInitial = 1
  RetryMax = 2
  ReconcileRetryInitial = 1
  ReconcileRetryMax = 2
  LastSeenInterval = 1
  Horizon = 2
  AttemptCap = 2
  CountCap = 0
  MaxQueue = 2
  MaxDowntime = 2
SPECIFICATION SysSpec
PROPERTIES FailedPushRetries
