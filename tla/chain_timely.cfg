\* Every live process keeps its row fresh, no writer comes inside a pair of steps,
\* and nobody takes up a session that was passed over.
CONSTANTS
  Session = {s1, s2, s3, s4}
  NoSession = NoSession
  StopMotivos = {"limite"}
  MisjudgesLive = FALSE
  RacyUpdates = FALSE
  WritesFail = FALSE
  TakesUpPassed = FALSE
  First = {s1, s2, s3, s4}
  MaxResearches = 1
  MaxPairs = 1
CONSTRAINT Bound
SYMMETRY Symmetry
SPECIFICATION Spec
INVARIANTS OneLiveSession NoFork NeverStranded
PROPERTY LockSpec
CHECK_DEADLOCK FALSE
