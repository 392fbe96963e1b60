CONSTANTS
  e1 = e1
  k1 = k1
  c2 = c2
  a2 = a2
  Emails = {e1}
  Keys = {k1}
  Requests = {r1, r2}
  Admins = {a1}
  Clients = {c1, c2}
  None = None
  MaxUploads = 2
  MaxAge = 0
SPECIFICATION Spec
PROPERTY UploadsNeverUndone
