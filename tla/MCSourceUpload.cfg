\* Two uploads, one permit, a link store of one.
CONSTANTS
  Uploads = {u1, u2}
  Links = {l1, l2}
  MaxConcurrent = 1
  MaxInflight = 2
  MaxSeen = 1
  NoLink = NoLink
SPECIFICATION UploadSpec
INVARIANTS UploadTypeOK FileFollowsTask StreamsBounded DroppedNeverStreamed LinkUsedOnce
PROPERTY UploadsEnd
CHECK_DEADLOCK FALSE
