\* A live process may be judged stopped, and writers come inside pairs of steps.
CONSTANTS
  Session = {s1, s2}
  NoSession = NoSession
  StopMotivos = {"pausada_pesquisador", "aguarda_pesquisador", "nil"}
  MisjudgesLive = TRUE
  RacyUpdates = TRUE
  WritesFail = FALSE
  TakesUpPassed = TRUE
  First = {s1}
  MaxResearches = 1
  MaxPairs = 1
CONSTRAINT Bound
SPECIFICATION FairSpec
INVARIANTS TypeOK LostIsContinued
PROPERTY SourceGivenBack
CHECK_DEADLOCK FALSE
