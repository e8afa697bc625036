SPECIFICATION Spec
CONSTANTS
  NoUser = NoUser
  NoInvite = NoInvite
  Users = {u1, u2}
  Founder = u1
  Invites = {}
  Handlers = {h1, h2}
  Directory = {}
  DirectoryRole <- AllMembers
  GrantRoles = {"owner", "member"}
INVARIANT
  LastOwnerGuarded
