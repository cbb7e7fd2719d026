\* Two sessions, a hypothesis of an agent and one derived by the system.
CONSTANTS
  Session = {1, 2}
  Subject = {ha, hs}
  FromSystem = {hs}
  Measured = {ha}
  MaxRequests = 2
  PendingLimit = 1
  MaxLosses = 1
CONSTRAINT FewLosses
SPECIFICATION FairSpec
INVARIANTS TypeOK TestedWasApproved LastWordStands RejectionStands AskedOnce EffectsFollow
PROPERTY AnswerHeard
CHECK_DEADLOCK FALSE
