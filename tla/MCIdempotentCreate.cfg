\* Two calls of any kinds with two attempts each, and three resources: room
\* for a duplicate and for what somebody else creates.
CONSTANTS
  Callers = {c1, c2}
  Ids = {i1, i2, i3}
  Kinds = {"url", "notebook", "file"}
  MaxAttempts = 2
  None = None
  Others = Others
SPECIFICATION Spec
SYMMETRY Symmetry
INVARIANTS DuplicatesExplained ResultIsNew
CHECK_DEADLOCK FALSE
