\* Three blocks, two tokens, a cache of one block, five command lines on two chains.
SPECIFICATION Spec
CONSTANTS
  None = None
  Starts <- MCStarts
  Requests <- MCRequests
  Blocks <- MCBlocks
  Buckets <- MCBuckets
  Tokens <- MCTokens
  FirstSpan = 2
  SecondSpan = 1
  CacheLimit = 1
  HeightSpan = 16
INVARIANTS
  TypeOK
  DeliveredIntact
  LatestIsCurrent
PROPERTIES
  ConversionEnds
