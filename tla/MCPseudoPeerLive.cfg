SPECIFICATION Spec
CONSTANTS
  Hashes = {11, 12, 13}
  Numbers = {1, 2, 3}
  None = None
  Limit = 2
  MaxHeight = 3
  HashOf <- HashTable
  ChannelSize = 1
  SourceMayFail = TRUE
  ChunkSize = 1
  WarmSize = 1
  RetryLimit = 2
  RpcThreshold = 1
  Requests <- LookupRequests
  MaxRequests = 1
  EthChannel = 1
  U64 = 256
PROPERTIES RequestsSettled EveryBlockAnnounced FeedRefined
CHECK_DEADLOCK FALSE
