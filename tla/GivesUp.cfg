SPECIFICATION Spec
CONSTANTS
  None = None
  Entry = e
  Loops = {l1, l2}
  Forwarders = {}
  Task = {e, l1, l2}
  Sock = {s1, s2}
  Exports = {d1}
  Backpressure = TRUE
  AutoRepublish = TRUE
  QuietUnload = FALSE
  MaxFaults = 2
SYMMETRY Symmetry
INVARIANTS
  NeverGivesUp
\* Nothing is left to do once the entry is unloaded.
CHECK_DEADLOCK FALSE
