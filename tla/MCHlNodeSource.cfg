\* Two callers after one block, files longer than the cache, a change of hours.
SPECIFICATION Spec
CONSTANTS
  MaxHeight = 3
  MaxClock = 2
  HourTicks = 1
  Threshold = 1
  CacheSize = 2
  ChunkLines = 3
  NextBlock = 2
  Callers = {c1, c2}
  Wanted = {2}
  None = None
INVARIANTS TypeOK OnlyCompleteBlocks PassedLinesKept
PROPERTIES BackfillComplete KnownBlocksServedLocally
SYMMETRY CallerSymmetry
CHECK_DEADLOCK FALSE
