\* Two callers: one leads, the other follows, comes late, or follows alone.
CONSTANTS
  Waiters = {w1, w2}
  MaxNotFound = 3
  PollMaxRetries = 2
  None = None
SPECIFICATION FairSpec
INVARIANTS OthersAreNotCancelled RemovedStayedAbsent
PROPERTIES PollIsShared WaitersReturn
