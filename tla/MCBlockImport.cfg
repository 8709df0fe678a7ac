SPECIFICATION Spec
CONSTANTS
  Blocks = {0, 1, 2, 3}
  Genesis = 0
  Number <- ForkNumber
  Parent <- ForkParent
  Answers = {"valid", "invalid", "inconclusive"}
  ProviderMayFail = TRUE
  MaxMsgs = 2
INVARIANTS TypeOK ForkChoiceAfterPayload OutcomesFaithful NoSleepWithWork
PROPERTIES BothOutcomes
CHECK_DEADLOCK FALSE
