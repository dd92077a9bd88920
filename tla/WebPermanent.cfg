SPECIFICATION WebSpec
CONSTANTS
  Thread = {t1, t2}
  Channel = {brightness, colortemp}
  Attempts = 3
  None = None
INVARIANTS
  PermanentFailsAtOnce
CHECK_DEADLOCK FALSE
