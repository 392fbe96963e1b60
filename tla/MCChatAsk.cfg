\* One answered question, two more and a deletion, two conversations, a cache of
\* one; one request is posted again.
CONSTANTS
  a1 = a1
  a2 = a2
  c1 = c1
  Asks = {a0, a1, a2}
  Past = a0
  Deletes = {d1}
  Convs = {c1, c2}
  MaxConvs = 1
  MaxTurns = 2
  MaxOthers = 1
  MaxReplays = 1
  NoConv = NoConv
SPECIFICATION ChatSpec
ACTION_CONSTRAINT InOrder
INVARIANTS ChatTypeOK CachedInServerOrder CachedWhereItBelongs Lineage
PROPERTIES NoDeletedHistory AsksEnd
CHECK_DEADLOCK FALSE
