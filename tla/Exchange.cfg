SPECIFICATION MCSpec
CONSTANTS
  None = None
  Entity = {a, b}
  Sub = {1, 2}
  Name = {n1, n2}
  Unsure = Unsure
  Call = {c1, c2}
  Loop = Loop
  AutoRepublish = TRUE
  EditsInSetup = FALSE
  MaxEdits = 3
  MaxLosses = 1
  \* A tick is half a second.
  Value = {on, off}
  Forward = 2
  Reverse = 3
  MaxChanges = 3
  MaxLines = 2
  Device = {s1, s2}
  Tag = {t1, t2}
  Channel = {ch1, ch2}
  Number = {v1, v2}
  Malformed = {nan}
  SharedTags = FALSE
  MaxTags = 1
  MaxImports = 2
SYMMETRY Symmetry
INVARIANTS
  TypeOK
  Durable
  Tracked
  Registered
  EchoTypeOK
  InSync
  InboundTypeOK
  Delivered
  UpToDate
  Discovered
\* The entry may be idle for good, and the bounds end every behaviour.
CHECK_DEADLOCK FALSE
