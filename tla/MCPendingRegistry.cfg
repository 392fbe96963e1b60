\* A source and an artifact that is retried; two polls at once; a queue that
\* the copies which it keeps of a dropped id fill up.
CONSTANTS
  Sources = {s1}
  Artifacts = {a1}
  Polls = {p1, p2}
  MaxEntries = 2
  None = None
SPECIFICATION Spec
SYMMETRY Symmetry
PROPERTY NoSpurious404
CHECK_DEADLOCK FALSE
