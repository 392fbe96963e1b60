\* Two calls contend for one permit, with every retry budget at one.
CONSTANTS
  Calls = {c1, c2}
  None = None
  MaxConcurrent = 1
  RateLimitMax = 1
  ServerErrorMax = 1
  MaxExpiries = 2
SPECIFICATION FairSpec
INVARIANT AttemptsBounded
PROPERTIES RefreshIsShared CallsEnd
