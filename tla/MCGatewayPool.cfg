\* Two accounts that swap keys, hot updates, deletions and restarts around a
\* request, and an upload that may overlap any other admin call.
CONSTANTS
  e1 = e1
  k1 = k1
  c2 = c2
  a2 = a2
  Emails = {e1, e2}
  Keys = {k1, k2}
  Requests = {r1}
  Admins = {a1, a2}
  Clients = {c1, c2}
  None = None
  MaxUploads = 2
  MaxAge = 2
SPECIFICATION FairSpec
ACTION_CONSTRAINT InOrder
INVARIANTS NoClosedClientPooled PoolMatchesTable OpenClientsArePooled OpensFromRow
PROPERTY AdminEnds
