SPECIFICATION Spec
CONSTANTS
  Hashes = {1, 2, 3, 4}
  Numbers = {11, 12, 13, 14}
  None = None
  Limit = 3
  MaxInserts = 7
  NumberOf <- TwoVersions
INVARIANTS TypeOK ReverseSound InverseMaps KeysTracked KeepsMostRecent
PROPERTY ForgetsOnlyTheOldest
CHECK_DEADLOCK FALSE
