\* Two sessions, two terminals, an agent that asks; a limit of one.
CONSTANTS
  Session = {1, 2}
  Subject = {q1}
  Terminal = {t1, t2}
  MaxRequests = 2
  PendingLimit = 1
  MaxMessages = 3
  InboxLimit = 1
SYMMETRY Alike
CONSTRAINT FirstIsStopped
SPECIFICATION Spec
INVARIANTS TypeOK InboxIsBounded ReadBeforeConsumed FirstAnswerStands SignalHeeded
CHECK_DEADLOCK FALSE
