SPECIFICATION Spec
CONSTANTS
  Blocks = {0, 1, 2, 3}
  Genesis = 0
  Number <- ForkNumber
  Parent <- ForkParent
  Answers = {"valid", "invalid", "inconclusive"}
  ProviderMayFail = FALSE
  MaxMsgs = 2
PROPERTIES HeadFollowsRules
CHECK_DEADLOCK FALSE
