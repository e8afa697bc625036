SPECIFICATION Spec
CONSTANTS
  f1 = f1
  NoUpload = NoUpload
  Uploads = {u1}
  File <- SameFile
  Size = 2
  Handlers = {h1, h2}
  UPLOAD_MAX_RETRIES = 2
  MaxLost = 1
  MaxFaults = 0
INVARIANT
  ResumedIsFaithful
CHECK_DEADLOCK FALSE
