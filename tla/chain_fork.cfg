\* The same, and a session that was passed over may be taken up.
CONSTANTS
  Session = {s1, s2, s3, s4}
  NoSession = NoSession
  StopMotivos = {"limite"}
  MisjudgesLive = FALSE
  RacyUpdates = FALSE
  WritesFail = FALSE
  TakesUpPassed = TRUE
  First = {s1, s2, s3, s4}
  MaxResearches = 1
  MaxPairs = 1
CONSTRAINT Bound
SYMMETRY Symmetry
SPECIFICATION Spec
INVARIANT OneLiveSession
CHECK_DEADLOCK FALSE
