\* a is a sensor and a light, b is not imported.
SPECIFICATION MCFairSpec
CONSTANTS
  None = None
  Key = {k1, k2}
  ReconnectMin = 5
  ReconnectMax = 120
  WarnAt = 2
  MaxFailed = 3
  Sensors = {a}
  Lights = {a}
  Strangers = {b}
  Value = {v1, v2}
  RadioDiagnostics = TRUE
  Interval = 2
  MaxChanges = 2
  MaxPushes = 1
INVARIANTS
  LinkTypeOK
  NoStorm
  TypeOK
  NotMasked
PROPERTIES
  ImplementsPinnedLink
  LinkRestored
  Converges
  PollsGoOn
