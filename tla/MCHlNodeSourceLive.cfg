SPECIFICATION Spec
CONSTANTS
  MaxHeight = 2
  MaxClock = 3
  HourTicks = 2
  Threshold = 1
  CacheSize = 2
  ChunkLines = 3
  NextBlock = 1
  Callers = {c1}
  Wanted = {1, 2}
  None = None
PROPERTIES LinesTailed
CHECK_DEADLOCK FALSE
