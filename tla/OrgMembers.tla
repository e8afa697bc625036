------------------------------ MODULE OrgMembers ------------------------------
(***************************************************************************)
(* Who belongs to one organisation, and with which role: the console       *)
(* requests that add, change and remove members (OrgsService), invitations *)
(* (InvitesService) and the LDAP sync's upsert (LdapService).              *)
(*                                                                         *)
(* A request is a sequence of database statements with an await between    *)
(* them; other requests run in the gaps.  A user stands for an e-mail      *)
(* address, which has an account once account[u] is TRUE.                  *)
(***************************************************************************)
EXTENDS Roles, FiniteSets

CONSTANTS
  Users, Invites, Handlers,
  Founder,         \* created the organisation
  Directory,       \* users listed by the LDAP directory
  DirectoryRole,   \* DirectoryRole[u]: what the directory's groups resolve to
  GrantRoles,      \* roles that requests and invitations ask for
  NoUser, NoInvite

ASSUME FounderAssumption == Founder \in Users /\ NoUser \notin Users
ASSUME GrantRolesAssumption == GrantRoles \subseteq OrgRole
ASSUME DirectoryAssumption == Directory \subseteq Users /\ DirectoryRole \in [Directory -> OrgRole]

VARIABLES
  account,   \* the users table
  role,      \* the org_members table; NoRole when there is no row
  invite,    \* the invites table
  req,       \* the requests in flight
  sanction,  \* sanction[u]: who first let u have the owner role
  disturbed  \* a role was written that guardLastOwner did not see

vars == <<account, role, invite, req, sanction, disturbed>>

MemberOps == {"add", "update", "remove"}
InviteOps == {"invite", "revoke", "accept"}
Idle == [op |-> "idle", at |-> "idle", actor |-> NoUser, target |-> NoUser,
         role |-> NoRole, invite |-> NoInvite, had |-> FALSE]
NoRow == [state |-> "absent", email |-> NoUser, role |-> NoRole, by |-> NoUser]

\* OrgsService.create: the organisation and its owner in one transaction.
Init ==
  /\ account \in [Users -> BOOLEAN] /\ account[Founder]
  /\ role = [u \in Users |-> IF u = Founder THEN "owner" ELSE NoRole]
  /\ invite = [i \in Invites |-> NoRow]
  /\ req = [h \in Handlers |-> Idle]
  /\ sanction = [u \in Users |-> IF u = Founder THEN Founder ELSE NoUser]
  /\ disturbed = FALSE

Owners == {u \in Users : role[u] = "owner"}
-----------------------------------------------------------------------------
(* A request arrives and is authorised.                                    *)

Start(h, r) == req[h] = Idle /\ req' = [req EXCEPT ![h] = r]
Goto(h, step) == req' = [req EXCEPT ![h].at = step]
Finish(h) == req' = [req EXCEPT ![h] = Idle]
tables == <<account, role, invite, sanction>>

MemberRequest(h) ==
  /\ \E op \in MemberOps, a, t \in Users, r \in GrantRoles :
       Start(h, [Idle EXCEPT !.op = op, !.at = "authorise", !.actor = a, !.target = t,
                             !.role = IF op = "remove" THEN NoRole ELSE r])
  /\ UNCHANGED <<tables, disturbed>>

InviteRequest(h) ==
  /\ \E a, t \in Users, r \in GrantRoles, i \in Invites :
       /\ invite[i] = NoRow
       /\ Start(h, [Idle EXCEPT !.op = "invite", !.at = "authorise", !.actor = a, !.target = t,
                                !.role = r, !.invite = i])
  /\ UNCHANGED <<tables, disturbed>>

RevokeRequest(h) ==
  /\ \E a \in Users, i \in Invites :
       Start(h, [Idle EXCEPT !.op = "revoke", !.at = "authorise", !.actor = a, !.invite = i])
  /\ UNCHANGED <<tables, disturbed>>

\* Faulty variant: an administrator may grant any role.
AllowedByAdmin(q) ==
  \/ q.op = "remove" /\ q.actor = q.target
  \/ AtLeast(role[q.actor], "admin")

\* requireRole: admin, or owner to grant the owner role; leaving needs neither.
Allowed(q) ==
  \/ q.op = "remove" /\ q.actor = q.target
  \/ AtLeast(role[q.actor], IF q.role = "owner" THEN "owner" ELSE "admin")

AfterAuthorise(op) ==
  CASE op \in {"update", "remove"} -> "guard"
    [] op = "add" -> "write"
    [] op = "invite" -> "members"
    [] op = "revoke" -> "write"

Authorise(h) ==
  /\ req[h].at = "authorise"
  /\ IF Allowed(req[h]) THEN Goto(h, AfterAuthorise(req[h].op)) ELSE Finish(h)
  /\ UNCHANGED <<tables, disturbed>>
-----------------------------------------------------------------------------
(* OrgsService: addMember, updateMember, removeMember.                     *)

\* Faulty variant: the last owner is not looked for.
GuardNothing(h) ==
  /\ req[h].at = "guard"
  /\ Goto(h, "write")
  /\ UNCHANGED <<tables, disturbed>>

\* guardLastOwner.
GuardLastOwner(h) ==
  /\ req[h].at = "guard"
  /\ IF Owners = {req[h].target} THEN Finish(h) ELSE Goto(h, "write")
  /\ UNCHANGED <<tables, disturbed>>

\* Faulty variant: an account status is written where the role belongs.
SetRoleToStatus(u, r, by) ==
  /\ role' = [role EXCEPT ![u] = "invited"]
  /\ UNCHANGED sanction

SetRole(u, r, by) ==
  /\ role' = [role EXCEPT ![u] = r]
  /\ sanction' = IF r = "owner" /\ sanction[u] = NoUser
                   THEN [sanction EXCEPT ![u] = by] ELSE sanction

\* Faulty variant: the address is not looked up among the users.
AddMemberAnyone(h) ==
  LET q == req[h] IN
  /\ q.op = "add" /\ q.at = "write"
  /\ IF role[q.target] = NoRole THEN SetRole(q.target, q.role, q.actor) ELSE UNCHANGED <<role, sanction>>
  /\ Finish(h)
  /\ UNCHANGED <<account, invite, disturbed>>

\* INSERT ... ON CONFLICT DO NOTHING, for a user that exists.
AddMember(h) ==
  LET q == req[h] IN
  /\ q.op = "add" /\ q.at = "write"
  /\ IF account[q.target] /\ role[q.target] = NoRole
       THEN SetRole(q.target, q.role, q.actor)
       ELSE UNCHANGED <<role, sanction>>
  /\ Finish(h)
  /\ UNCHANGED <<account, invite, disturbed>>

\* The count of owners this request acts on was read before.
PastGuard(h) == req[h].op \in {"update", "remove"} /\ req[h].at = "write"

\* UPDATE or DELETE: nothing happens when the row is gone.
ChangeMember(h) ==
  LET q == req[h] IN
  /\ q.op \in {"update", "remove"} /\ q.at = "write"
  /\ IF role[q.target] # NoRole
       THEN SetRole(q.target, q.role, q.actor)
       ELSE UNCHANGED <<role, sanction>>
  /\ Finish(h)
  /\ disturbed' = (disturbed \/ \E k \in Handlers \ {h} : PastGuard(k))
  /\ UNCHANGED <<account, invite>>
-----------------------------------------------------------------------------
(* InvitesService.                                                         *)

\* create: someone already in the organisation is not invited.
InviteMembers(h) ==
  /\ req[h].at = "members"
  /\ IF role[req[h].target] # NoRole THEN Finish(h) ELSE Goto(h, "write")
  /\ UNCHANGED <<tables, disturbed>>

InviteInsert(h) ==
  LET q == req[h] IN
  /\ q.op = "invite" /\ q.at = "write"
  /\ invite' = IF invite[q.invite] = NoRow
                 THEN [invite EXCEPT ![q.invite] =
                        [state |-> "pending", email |-> q.target, role |-> q.role, by |-> q.actor]]
                 ELSE invite
  /\ Finish(h)
  /\ UNCHANGED <<account, role, sanction, disturbed>>

\* revoke: DELETE ... AND accepted_at IS NULL.
InviteRevoke(h) ==
  LET q == req[h] IN
  /\ q.op = "revoke" /\ q.at = "write"
  /\ invite' = IF invite[q.invite].state = "pending"
                 THEN [invite EXCEPT ![q.invite].state = "revoked"] ELSE invite
  /\ Finish(h)
  /\ UNCHANGED <<account, role, sanction, disturbed>>

\* accept: loadPending refuses a used, revoked or expired invitation.
AcceptLoad(h) ==
  /\ \E i \in Invites :
       /\ invite[i].state = "pending"
       /\ Start(h, [Idle EXCEPT !.op = "accept", !.at = "user", !.invite = i,
                                !.target = invite[i].email])
  /\ UNCHANGED <<tables, disturbed>>

\* accept: SELECT the account of the invited address.
AcceptUser(h) ==
  /\ req[h].at = "user"
  /\ req' = [req EXCEPT ![h].at = "accept", ![h].had = account[req[h].target]]
  /\ UNCHANGED <<tables, disturbed>>

\* accept, the transaction: an account that was missing is created, which fails it
\* all when one was created meanwhile; the membership is upserted, and the
\* invitation marked if its row still exists.
Accept(h) ==
  LET q == req[h]
      row == invite[q.invite] IN
  /\ q.at = "accept"
  /\ IF ~q.had /\ account[q.target]
       THEN UNCHANGED <<tables, disturbed>>
       ELSE /\ SetRole(q.target, row.role, row.by)
            /\ account' = [account EXCEPT ![q.target] = TRUE]
            /\ invite' = IF row.state \in {"pending", "expired"}
                           THEN [invite EXCEPT ![q.invite].state = "accepted"] ELSE invite
            /\ disturbed' = TRUE
  /\ Finish(h)

Expire(i) ==
  /\ invite[i].state = "pending"
  /\ invite' = [invite EXCEPT ![i].state = "expired"]
  /\ UNCHANGED <<account, role, req, sanction, disturbed>>
-----------------------------------------------------------------------------
(* LdapService.applySnapshot, one transaction per user.                    *)

LdapApply(u) ==
  /\ u \in Directory
  /\ account' = [account EXCEPT ![u] = TRUE]
  /\ SetRole(u, DirectoryRole[u], u)
  /\ disturbed' = TRUE
  /\ UNCHANGED <<invite, req>>
-----------------------------------------------------------------------------
Next ==
  \/ \E h \in Handlers :
       \/ MemberRequest(h) \/ InviteRequest(h) \/ RevokeRequest(h)
       \/ Authorise(h) \/ GuardLastOwner(h) \/ AddMember(h) \/ ChangeMember(h)
       \/ InviteMembers(h) \/ InviteInsert(h) \/ InviteRevoke(h) \/ AcceptLoad(h)
       \/ AcceptUser(h) \/ Accept(h)
  \/ \E i \in Invites : Expire(i)
  \/ \E u \in Users : LdapApply(u)

Spec == Init /\ [][Next]_vars
-----------------------------------------------------------------------------
(* Properties.                                                             *)

Steps == {"idle", "authorise", "guard", "members", "write", "user", "accept"}

\* Types of the tables and of the requests in flight.
TypeOK ==
  /\ account \in [Users -> BOOLEAN]
  /\ role \in [Users -> OrgRole \cup {NoRole}]
  /\ invite \in [Invites -> [state : {"absent", "pending", "accepted", "revoked", "expired"},
                             email : Users \cup {NoUser}, role : OrgRole \cup {NoRole},
                             by : Users \cup {NoUser}]]
  /\ req \in [Handlers -> [op : {"idle"} \cup MemberOps \cup InviteOps, at : Steps,
                           actor : Users \cup {NoUser}, target : Users \cup {NoUser},
                           role : OrgRole \cup {NoRole}, invite : Invites \cup {NoInvite},
                           had : BOOLEAN]]
  /\ sanction \in [Users -> Users \cup {NoUser}]

\* Members have accounts, whatever order invitations, additions and syncs run in.
MembersHaveAccounts == \A u \in Users : role[u] # NoRole => account[u]

\* The directory makes u an owner.
DirectoryOwner(u) == u \in Directory /\ DirectoryRole[u] = "owner"

\* Whoever got the owner role first got it from someone who had it before, or is the
\* founder or an owner by the directory, however requests, invitations and the
\* changes of their senders' roles interleave: requireRole(..., "owner").
OwnersMadeByOwners ==
  \A u \in Users : sanction[u] # NoUser =>
    /\ sanction[sanction[u]] # NoUser
    /\ sanction[u] = u => u = Founder \/ DirectoryOwner(u)

\* "Cannot remove the last owner": the organisation keeps an owner, as long as no
\* role was written between another request's guard and its write, nor by an
\* accepted invitation or the directory, which do not ask the guard.
AlwaysAnOwner == ~disturbed => Owners # {}

\* The "last-owner guard": the organisation always has an owner.
LastOwnerGuarded == Owners # {}
=============================================================================
