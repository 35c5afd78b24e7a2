CONSTANTS
  i1 = i1
  i2 = i2
  Instances = {i1, i2}
  HealthInterval = 1
  HeartbeatGrace = 2
  UnhealthyGrace = 10
  MaxStall = 1
  Horizon = 12
SPECIFICATION Spec
SYMMETRY Symmetric
INVARIANTS LongFailureSeen
