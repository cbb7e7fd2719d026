CONSTANTS
  Task <- MCTask
  Proposals <- MCProposals
  MaxTaskRetries = 2
  MaxPlanRetries = 2
  StallCycles = 1
  Cancellable = {"b"}
  Resumed = {"a"}
  AttemptCap = 2
SPECIFICATION FairSpec
PROPERTIES
  AcceptedCancelHeeded
CHECK_DEADLOCK FALSE
