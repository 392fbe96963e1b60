\* Liveness: one poll, two overlapping close() calls.
CONSTANTS
  o1 = o1
  p1 = p1
  Ops = {}
  Polls <- MCPolls
  Tasks <- MCPolls
  Tokens = {k1}
  Drainers = {c1, c2}
  MaxNested = 0
SPECIFICATION FairSpec
PROPERTY CloseEnds
