SPECIFICATION FairSpec
CONSTANTS
  MaxUpdates = 3
  Ahead = 1
  Limit = 1
  Faults = {"crash", "busy", "error", "api"}
INVARIANT DelegationWasConfirmed
INVARIANT AnswersAreOnRecord
PROPERTY AnswersAreFinal
PROPERTY QueueIsDrained
PROPERTY RefinesTwoStep
CHECK_DEADLOCK FALSE
