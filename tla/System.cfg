SPECIFICATION Spec
CONSTANTS
  Replicas = {r1, r2}
  Limit = 2
  MaxHits = 6
  Boxes = {"b1", "b2"}
  Mail = {"m1", "m2"}
  BoxOf <- MailBox
  Expired = {"m1"}
  Admins = {"x1", "x2"}
  MaxHolds = 2
  Exports = {"e1"}
  Duties <- RetentionDuties
  Keys = {"k1", "k2"}
  First = "k1"
  Consoles = {"c1"}
  Worker = "w"
  MaxRequests = 3
  MaxFaults = 1
  NoKey = "none"
  ObjectKeys = {"k1", "k2"}
  Tmp = "tmp"
  MissingObject <- NoObject
  Contents <- ObjectContents
  MaxWrites = 1
  MaxByte = 4
  Tasks = {"migrate", "serve", "thumbnail"}
  BackupRuns = {"r1", "r2"}
  MaxDay = 3
  BackupPlans <- BackupChores
  Pictures = {"red", "blue"}
  Exts = {"jpg", "png"}
  PictureSlots = {1, 2}
  LogoUrls <- BrandLogos
  PicturePlans <- AvatarPlans
  MaxFetches = 2
  MaxVersion = 2
  PanelPlans <- ComposerPlans
  Files = {"f1", "f2"}
  MaxCount = 2
  MaxId = 3
  LinkPlans <- ConnectionPlans
  Letters = {"c", "o", "y", "z"}
  RoleMaps <- GroupRoleMaps
  MaxSecret = 2
  IssuePlans <- SecretPlans
INVARIANTS
  LimitsKept
  BackupsKept
  StorageKept
  ComposerKept
  ConnectionsKept
  AvatarsKept
PROPERTIES
  KeysKept
  RetentionKept
  ZonesKept
  InboundKept
  GroupwareKept
  ReaderKept
  ManagersKept
  OfflineKept
  SecretsKept
CHECK_DEADLOCK FALSE
