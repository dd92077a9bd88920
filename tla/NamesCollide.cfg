SPECIFICATION LevelsSpec
CONSTANTS
  None = None
  Levels = {0, 1000}
  Lamps = {0, 10000}
  Bases = {base1}
  Ranges = {range1, range2}
  MaxRanges = 2
  MaxChannels = 3
INVARIANTS
  NamesDistinct
