SPECIFICATION Spec
CONSTANTS
  Blocks = {0, 1, 2}
  Genesis = 0
  Number <- ForkNumber
  Parent <- ForkParent
  Answers = {"valid", "invalid", "inconclusive"}
  ProviderMayFail = FALSE
  MaxMsgs = 2
PROPERTIES EveryBlockSubmitted
CHECK_DEADLOCK FALSE
