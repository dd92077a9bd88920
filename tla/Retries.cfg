SPECIFICATION MCSpec
CONSTANTS
  None = None
  \* One tick of the reconnect loop stands for 10 s.
  Healthy = 6
  MaxDelay = 30
  Base = 1
  Never = Never
  Thread = {t1, t2}
  Channel = {brightness, colortemp}
  Attempts = 3
  \* One tick of the radio link stands for 5 s.
  Jitter = 2
  Transit = 2
  MaxTime = 7
  Levels <- Level
  Lamps = {0, 10, 5000, 9999}
  Bases = {base1, base2}
  Ranges = {range1, range2}
  MaxRanges = 2
  MaxChannels = 3
SYMMETRY Symmetry
INVARIANTS
  BackoffTypeOK
  WebTypeOK
  OneMove
  Done
  Patience
  RadioTypeOK
  RealInterval
  LevelsTypeOK
  LevelKept
  SliderStays
  CleanNamesDistinct
PROPERTIES
  ShortIsThrottled
  LastPacketFresh
\* A call has ended, or the bounds have.
CHECK_DEADLOCK FALSE
