SPECIFICATION Spec
CONSTANTS
  Data = {x}
  Blank = Blank
  CachePages = 2
  DefaultInterval = 3
  Intervals = {0, 1, 2}
  Settings <- Mishaps
  MaxPages = 4
  MaxWrites = 6
INVARIANTS NextIdFresh ReadsLatest SettledReadsBack CacheBounded UnsyncedBounded SavedNotAhead
