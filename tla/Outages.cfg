SPECIFICATION Spec
CONSTANTS
  None = None
  Entry = e
  Loops = {l1}
  Forwarders = {f1}
  Task = {e, l1, f1}
  Sock = {s1, s2, s3}
  Exports = {}
  Backpressure = FALSE
  AutoRepublish = FALSE
  QuietUnload = TRUE
  MaxFaults = 2
SYMMETRY Symmetry
INVARIANTS
  NeverGivesUp
  StatusTrue
  KeptAlive
\* Nothing is left to do once the entry is unloaded.
CHECK_DEADLOCK FALSE
