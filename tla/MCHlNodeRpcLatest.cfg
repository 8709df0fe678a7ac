\* As MCHlNodeRpc.cfg, with two heights and without unwinds; only the tag latest, resolved twice.
SPECIFICATION Spec
CONSTANTS
  None = None
  Blocks <- MCBlocks
  Accounts <- MCAccounts
  CoreWriter = "CW"
  Precompiles <- MCPrecompiles
  EthPrecompiles <- MCEthPrecompiles
  LowestRead = 8
  DefaultHighest = 9
  WarmBlock = 2
  CoreWriterBlock = 3
  PlaceholderBlocks = 2
  HashHistory = 1
  Patches <- MCPatches
  Batches <- MCBatches
  GenesisHeader <- MCGenesis
  GenesisWorld <- MCGenesisWorld
  MaxBatch = 2
  MaxUnwinds = 0
  ArgSets <- MCArgSets
  Upstream <- MCUpstream
  Requests <- MCLatestRequests
  MCHeights = 2
INVARIANT
  OneBlockAnswers
