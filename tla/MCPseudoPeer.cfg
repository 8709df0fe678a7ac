SPECIFICATION Spec
CONSTANTS
  Hashes = {11, 12, 13, 14}
  Numbers = {1, 2, 3, 4}
  None = None
  Limit = 2
  MaxHeight = 4
  HashOf <- HashTable
  ChannelSize = 1
  SourceMayFail = TRUE
  ChunkSize = 2
  WarmSize = 1
  RetryLimit = 2
  RpcThreshold = 1
  Requests <- SmallRequests
  MaxRequests = 2
  EthChannel = 1
  U64 = 256
INVARIANTS TypeOK AnnouncedInOrder AnnouncedResolvable ResponsesCorrect CleanPassFinds
CHECK_DEADLOCK FALSE
