\* Three blocks; the engine, the pipeline, one unwind and crashes; one request at a time.
SPECIFICATION Spec
CONSTANTS
  None = None
  Blocks <- MCBlocks
  Accounts <- MCAccounts
  CoreWriter = "CW"
  Precompiles <- MCPrecompiles
  EthPrecompiles <- MCEthPrecompiles
  LowestRead = 8
  DefaultHighest = 9
  WarmBlock = 2
  CoreWriterBlock = 3
  PlaceholderBlocks = 2
  HashHistory = 1
  Patches <- MCPatches
  Batches <- MCBatches
  GenesisHeader <- MCGenesis
  GenesisWorld <- MCGenesisWorld
  MaxBatch = 2
  MaxUnwinds = 1
  ArgSets <- MCArgSets
  Upstream <- MCUpstream
  Requests <- MCRequests
  MCHeights = 3
INVARIANTS
  TypeOK
  RecognisedByGas
  TablesAgree
  VerdictsRight
  WorldsRight
  AssembledAsValidated
  CompliantAnswers
  TracesAgree
  CallsAfterReceipts
PROPERTIES
  StoreRefined
