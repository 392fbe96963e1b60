CONSTANTS
  Clients = {c1, c2}
  Cookies = {k1, k2}
  Background = {b1}
  None = None
  MaxRotations = 2
SPECIFICATION Spec
SYMMETRY Symmetry
INVARIANT BaselineWasStored
PROPERTIES SiblingWritesSurvive ClosingSaveIsFresh
