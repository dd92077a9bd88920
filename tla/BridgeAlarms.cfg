SPECIFICATION LinkSpec
CONSTANTS
  Key = {k1, k2}
  None = None
  ReconnectMin = 5
  ReconnectMax = 120
  WarnAt = 2
  MaxFailed = 3
INVARIANTS CalmOutage
