SPECIFICATION Spec
CONSTANTS
  NoUser = NoUser
  NoInvite = NoInvite
  Users = {u1, u2}
  Founder = u1
  Invites = {i1}
  Handlers = {h1, h2}
  Directory = {u2}
  DirectoryRole <- AllMembers
  GrantRoles = {"owner", "admin"}
SYMMETRY Symmetry
INVARIANTS
  TypeOK
  MembersHaveAccounts
  OwnersMadeByOwners
  AlwaysAnOwner
