\* One session, one terminal that sends parar while it starts.
CONSTANTS
  Session = {1}
  Subject = {q1}
  Terminal = {t1}
  MaxRequests = 1
  PendingLimit = 1
  MaxMessages = 2
  InboxLimit = 1
SPECIFICATION Spec
INVARIANT AcceptedStopHeeded
CHECK_DEADLOCK FALSE
