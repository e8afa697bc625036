----------------------------- MODULE MCOrgMembers -----------------------------
(* OrgMembers on small instances for TLC.                                  *)
EXTENDS OrgMembers, TLC

\* The directory's groups resolve to the member role.
AllMembers == [u \in Directory |-> "member"]

Symmetry == Permutations(Handlers)
===============================================================================
