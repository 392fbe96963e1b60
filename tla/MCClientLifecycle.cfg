\* One operation with up to two nested RPCs, one poll, two overlapping close().
CONSTANTS
  o1 = o1
  p1 = p1
  Ops <- MCOps
  Polls <- MCPolls
  Tasks <- MCTasks
  Tokens = {k1, k2, k3}
  Drainers = {c1, c2}
  MaxNested = 2
SPECIFICATION Spec
SYMMETRY Symmetry
INVARIANT GracefulCutsNothing
PROPERTIES DrainSpec ReturnMeansClosed
