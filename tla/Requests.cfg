SPECIFICATION Spec
CONSTANTS
  Handlers = {h1, h2}
  Things = {a1, a2}
  Groups = {g1, g2}
  Names = {"n1", "n2"}
  Ops <- AllScimOps
  GroupRoles <- ScimMaps
  DefaultRole = "member"
  Deactivate = TRUE
  MaxProvisions = 3
  NoName = "none"
  UploadIds = {u1, u2}
  File <- SameFile
  Size = 2
  UPLOAD_MAX_RETRIES = 2
  MaxLost = 1
  MaxFaults = 1
  NoUpload = none
  Passkeys = {p1}
  ApiKeys = {k1}
  AccountOps <- AccountScenarios
  MaxAccountRequests = 4
  MaxCounter = 2
  NoUser = nobody
  IMAP_POOL_MAX = 1
  SessionOps <- SessionScenarios
  MaxSessionRequests = 3
  MaxRev = 1
  NoMailbox = noBox
SYMMETRY Symmetry
INVARIANTS
  ProvisioningKept
  UploadsKept
  SessionsKept
PROPERTIES
  ResourcesKept
  AccountsKept
CHECK_DEADLOCK FALSE
