SPECIFICATION Spec
CONSTANTS
  None = None
  Entry = e
  Loops = {l1, l2}
  Forwarders = {}
  Task = {e, l1, l2}
  Sock = {s1, s2, s3}
  Exports = {}
  Backpressure = TRUE
  AutoRepublish = FALSE
  QuietUnload = TRUE
  MaxFaults = 2
SYMMETRY Symmetry
INVARIANTS
  ShutdownIsFinal
  OneConnection
\* Nothing is left to do once the entry is unloaded.
CHECK_DEADLOCK FALSE
