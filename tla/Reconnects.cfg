SPECIFICATION FairSpec
CONSTANTS
  None = None
  Entry = e
  Loops = {l1}
  Forwarders = {f1}
  Task = {e, l1, f1}
  Sock = {s1, s2}
  Exports = {}
  Backpressure = TRUE
  AutoRepublish = FALSE
  QuietUnload = FALSE
  MaxFaults = 1
PROPERTIES
  Reconnects
\* Nothing is left to do once the entry is unloaded.
CHECK_DEADLOCK FALSE
