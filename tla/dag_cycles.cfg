\* Two subtasks, two attempts each, plans that are retried or recovered.
CONSTANTS
  Task <- MCTask
  Proposals <- MCProposals
  MaxTaskRetries = 2
  MaxPlanRetries = 2
  StallCycles = 1
  Cancellable = {"b"}
  Resumed = {"a"}
  AttemptCap = 2
SPECIFICATION FairSpec
INVARIANTS
  TypeOK
  PlanIsWellFounded
  InputsAreConcluded
  ConcludedStays
  FailuresAreBounded
  AbandonedStaysOut
PROPERTIES
  CycleEnds
  LegacySessionEnds
CHECK_DEADLOCK FALSE
