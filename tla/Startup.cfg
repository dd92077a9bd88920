SPECIFICATION Spec
CONSTANTS
  None = None
  Entry = e
  Loops = {l1, l2}
  Forwarders = {f1}
  Task = {e, l1, l2, f1}
  Sock = {s1, s2}
  Exports = {d1}
  Backpressure = TRUE
  AutoRepublish = TRUE
  QuietUnload = FALSE
  MaxFaults = 1
SYMMETRY Symmetry
INVARIANTS
  TypeOK
  OneReconnectLoop
  LockHeld
\* Nothing is left to do once the entry is unloaded.
CHECK_DEADLOCK FALSE
