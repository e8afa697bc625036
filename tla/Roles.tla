-------------------------------- MODULE Roles --------------------------------
(***************************************************************************)
(* Organisation roles, their rank, and the role a set of directory groups  *)
(* resolves to.  Shared by the membership, LDAP and SCIM models.           *)
(***************************************************************************)
EXTENDS Naturals

OrgRole == {"owner", "admin", "member", "viewer"}

\* No org_members row, or no role mapped to a group.
NoRole == "none"

ROLE_RANK == [owner |-> 3, admin |-> 2, member |-> 1, viewer |-> 0]

AtLeast(r, min) == r \in OrgRole /\ ROLE_RANK[r] >= ROLE_RANK[min]

\* The highest-ranked role mapped to one of the groups, or the default.
ResolveRole(groups, roleMap, defaultRole) ==
  LET mapped == {roleMap[g] : g \in groups} \cap OrgRole
  IN  IF mapped = {} THEN defaultRole
      ELSE CHOOSE r \in mapped : \A s \in mapped : ROLE_RANK[r] >= ROLE_RANK[s]
=============================================================================
