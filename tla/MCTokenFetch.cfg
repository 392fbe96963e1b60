\* Two calls on one loop, one on another, two cookies after the first.
CONSTANTS
  c1 = c1
  c2 = c2
  c3 = c3
  a = a
  b = b
  Callers = {c1, c2, c3}
  Loops = {a, b}
  LoopOf <- TwoLoops
  MaxValue = 2
  None = None
SPECIFICATION Spec
INVARIANTS TypeOK WorkIsExclusive HerdRunsOnce
PROPERTIES RetryHasNewCookies RotationIsSaved CallsEnd
CHECK_DEADLOCK FALSE
