\* A live process may be judged stopped: reassert_active against a resumption.
CONSTANTS
  Session = {s1, s2}
  NoSession = NoSession
  StopMotivos = {"limite"}
  MisjudgesLive = TRUE
  RacyUpdates = FALSE
  WritesFail = FALSE
  TakesUpPassed = FALSE
  First = {s1}
  MaxResearches = 1
  MaxPairs = 1
CONSTRAINT Bound
SPECIFICATION Spec
INVARIANT ContinuedIsInactive
CHECK_DEADLOCK FALSE
