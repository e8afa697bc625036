--------------------------- MODULE OrgMembersProofs ---------------------------
(***************************************************************************)
(* Proofs about OrgMembers for any sets of users, invitations, requests    *)
(* and directory entries.                                                  *)
(***************************************************************************)
EXTENDS OrgMembers, TLAPS

Requests == [op : {"idle"} \cup MemberOps \cup InviteOps, at : Steps,
             actor : Users \cup {NoUser}, target : Users \cup {NoUser},
             role : OrgRole \cup {NoRole}, invite : Invites \cup {NoInvite}, had : BOOLEAN]

\* Which fields of a request are set, by what it asks for.
ReqOK ==
  \A h \in Handlers :
    /\ req[h].op \in MemberOps \cup {"invite"} => req[h].actor \in Users /\ req[h].target \in Users
    /\ req[h].op = "revoke" => req[h].actor \in Users
    /\ req[h].op = "accept" => req[h].target \in Users
    /\ req[h].op \in InviteOps => req[h].invite \in Invites
    /\ req[h].op \in {"add", "update", "invite"} => req[h].role \in OrgRole
    /\ req[h].op \in {"remove", "idle", "accept", "revoke"} => req[h].role = NoRole
    /\ req[h].at \in {"user", "accept"} <=> req[h].op = "accept"
    /\ req[h].at = "guard" => req[h].op \in {"update", "remove"}
    /\ req[h].at \in {"authorise", "write"} => req[h].op # "idle"
    /\ req[h].at = "members" => req[h].op = "invite"

\* A row of invites is complete, and a request to accept one found it.
InviteOK ==
  /\ \A i \in Invites : invite[i].state = "absent" => invite[i].role = NoRole
  /\ \A i \in Invites : invite[i].state # "absent" =>
       invite[i].email \in Users /\ invite[i].by \in Users /\ invite[i].role \in OrgRole
  /\ \A h \in Handlers : req[h].op = "accept" => invite[req[h].invite].state # "absent"

\* Where the owner role is held, promised by an invitation or about to be given by
\* an authorised request, an owner let it happen.
SanctionInv ==
  /\ \A u \in Users : role[u] = "owner" => sanction[u] # NoUser
  /\ OwnersMadeByOwners
  /\ \A h \in Handlers :
       req[h].at \in {"guard", "members", "write"} /\ req[h].role = "owner" => sanction[req[h].actor] # NoUser
  /\ \A i \in Invites : invite[i].role = "owner" => sanction[invite[i].by] # NoUser

Inv == TypeOK /\ ReqOK /\ InviteOK /\ MembersHaveAccounts /\ SanctionInv

\* Only an owner passes requireRole(..., "owner").
LEMMA OwnerRank == \A r : AtLeast(r, "owner") => r = "owner"
  BY DEF AtLeast, ROLE_RANK, OrgRole

\* Giving u a role keeps the owner role traceable to owners, when "by" is one.
LEMMA SanctionKept ==
  ASSUME TypeOK, SanctionInv, NEW u \in Users, NEW r \in OrgRole \cup {NoRole}, NEW by \in Users,
         SetRole(u, r, by), r = "owner" => (by = u /\ DirectoryOwner(u)) \/ sanction[by] # NoUser
  PROVE  /\ sanction' \in [Users -> Users \cup {NoUser}]
         /\ \A v \in Users : sanction[v] # NoUser => sanction'[v] # NoUser
         /\ \A v \in Users : role'[v] = "owner" => sanction'[v] # NoUser
         /\ OwnersMadeByOwners'
<1>0. NoUser \notin Users /\ "owner" # NoRole
  BY FounderAssumption DEF NoRole
<1>1. CASE r = "owner" /\ sanction[u] = NoUser
  <2>1. sanction' = [sanction EXCEPT ![u] = by] /\ role' = [role EXCEPT ![u] = r]
    BY <1>1 DEF SetRole
  <2>2. /\ sanction' \in [Users -> Users \cup {NoUser}]
        /\ \A v \in Users : sanction[v] # NoUser => sanction'[v] # NoUser
        /\ \A v \in Users : role'[v] = "owner" => sanction'[v] # NoUser
    BY <1>0, <2>1 DEF TypeOK, SanctionInv
  <2>3. sanction'[by] # NoUser
    BY <1>0, <1>1, <2>1 DEF TypeOK
  <2>4. by = u => DirectoryOwner(u)
    BY <1>1
  <2>5. OwnersMadeByOwners'
    BY <1>0, <2>1, <2>2, <2>3, <2>4 DEF TypeOK, SanctionInv, OwnersMadeByOwners, DirectoryOwner
  <2> QED BY <2>2, <2>5
<1>2. CASE r # "owner" \/ sanction[u] # NoUser
  BY <1>2 DEF SetRole, SanctionInv, OwnersMadeByOwners, TypeOK
<1> QED BY <1>1, <1>2

LEMMA InitInv == Init => Inv
<1> SUFFICES ASSUME Init PROVE Inv
  OBVIOUS
<1>1. account \in [Users -> BOOLEAN] /\ account[Founder]
  BY Zenon DEF Init
<1>2. TypeOK
  BY <1>1, FounderAssumption DEF Init, TypeOK, NoRow, Idle, MemberOps, InviteOps, Steps, OrgRole, NoRole
<1>3. ReqOK /\ InviteOK
  BY DEF Init, ReqOK, InviteOK, Idle, NoRow, MemberOps, InviteOps, NoRole
<1>4. MembersHaveAccounts
  BY <1>1 DEF Init, MembersHaveAccounts, NoRole
<1>5. SanctionInv
  BY FounderAssumption DEF Init, SanctionInv, OwnersMadeByOwners, Idle, NoRow, NoRole
<1> QED BY <1>2, <1>3, <1>4, <1>5 DEF Inv

\* A request that arrives or moves on touches no table: what is left to show is
\* that it is well formed, and authorised where it asks for the owner role.
LEMMA RequestKept ==
  ASSUME Inv, NEW h \in Handlers, NEW q \in Requests, req' = [req EXCEPT ![h] = q], UNCHANGED tables,
         /\ q.op \in MemberOps \cup {"invite"} => q.actor \in Users /\ q.target \in Users
         /\ q.op = "revoke" => q.actor \in Users
         /\ q.op = "accept" => q.target \in Users
         /\ q.op \in InviteOps => q.invite \in Invites
         /\ q.op \in {"add", "update", "invite"} => q.role \in OrgRole
         /\ q.op \in {"remove", "idle", "accept", "revoke"} => q.role = NoRole
         /\ q.at \in {"user", "accept"} <=> q.op = "accept"
         /\ q.at = "guard" => q.op \in {"update", "remove"}
         /\ q.at \in {"authorise", "write"} => q.op # "idle"
         /\ q.at = "members" => q.op = "invite",
         q.op = "accept" => invite[q.invite].state # "absent",
         q.at \in {"guard", "members", "write"} /\ q.role = "owner" => sanction[q.actor] # NoUser
  PROVE  Inv'
<1> USE DEF Inv, tables
<1>1. TypeOK'
  BY DEF TypeOK, Requests
<1>2. \A k \in Handlers : req'[k] = IF k = h THEN q ELSE req[k]
  BY DEF TypeOK
<1>3. ReqOK'
  BY <1>2 DEF ReqOK
<1>4. InviteOK'
  BY <1>2 DEF InviteOK
<1>5. MembersHaveAccounts' /\ SanctionInv'
  BY <1>2 DEF MembersHaveAccounts, SanctionInv, OwnersMadeByOwners
<1> QED BY <1>1, <1>3, <1>4, <1>5

LEMMA RequestStep ==
  ASSUME Inv, NEW h \in Handlers,
         MemberRequest(h) \/ InviteRequest(h) \/ RevokeRequest(h) \/ AcceptLoad(h)
  PROVE  Inv'
<1>1. CASE MemberRequest(h)
  <2>1. PICK op \in MemberOps, a \in Users, t \in Users, r \in GrantRoles :
          Start(h, [Idle EXCEPT !.op = op, !.at = "authorise", !.actor = a, !.target = t,
                                !.role = IF op = "remove" THEN NoRole ELSE r])
    BY <1>1 DEF MemberRequest
  <2> QED BY <1>1, <2>1, RequestKept, GrantRolesAssumption, ZenonT(60)
          DEF MemberRequest, Start, Idle, Requests, MemberOps, InviteOps, Steps, OrgRole, NoRole
<1>2. CASE InviteRequest(h)
  <2>1. PICK a \in Users, t \in Users, r \in GrantRoles, i \in Invites :
          Start(h, [Idle EXCEPT !.op = "invite", !.at = "authorise", !.actor = a, !.target = t,
                                !.role = r, !.invite = i])
    BY <1>2 DEF InviteRequest
  <2> QED BY <1>2, <2>1, RequestKept, GrantRolesAssumption
          DEF InviteRequest, Start, Idle, Requests, MemberOps, InviteOps, Steps, OrgRole, NoRole
<1>3. CASE RevokeRequest(h)
  <2>1. PICK a \in Users, i \in Invites :
          Start(h, [Idle EXCEPT !.op = "revoke", !.at = "authorise", !.actor = a, !.invite = i])
    BY <1>3 DEF RevokeRequest
  <2> QED BY <1>3, <2>1, RequestKept
          DEF RevokeRequest, Start, Idle, Requests, MemberOps, InviteOps, Steps, OrgRole, NoRole
<1>4. CASE AcceptLoad(h)
  <2>1. PICK i \in Invites :
          /\ invite[i].state = "pending"
          /\ Start(h, [Idle EXCEPT !.op = "accept", !.at = "user", !.invite = i, !.target = invite[i].email])
    BY <1>4 DEF AcceptLoad
  <2>2. invite[i].email \in Users
    BY <2>1 DEF Inv, InviteOK
  <2> QED BY <1>4, <2>1, <2>2, RequestKept
          DEF AcceptLoad, Start, Idle, Requests, MemberOps, InviteOps, Steps, OrgRole, NoRole
<1> QED BY <1>1, <1>2, <1>3, <1>4

\* A request that is answered leaves nothing behind.
LEMMA FinishKept ==
  ASSUME Inv, NEW h \in Handlers, Finish(h), UNCHANGED tables
  PROVE  Inv'
  BY RequestKept DEF Finish, Idle, Requests, MemberOps, InviteOps, Steps, OrgRole, NoRole

\* requireRole, guardLastOwner and the reads of an invitation.
LEMMA CheckStep ==
  ASSUME Inv, NEW h \in Handlers,
         Authorise(h) \/ GuardLastOwner(h) \/ InviteMembers(h) \/ AcceptUser(h)
  PROVE  Inv'
<1> DEFINE Moved(step) == [req[h] EXCEPT !.at = step]
<1>0. req \in [Handlers -> Requests] /\ req[h] \in Requests
  BY DEF Inv, TypeOK, Requests
<1>1. CASE Authorise(h) /\ Allowed(req[h])
  <2> DEFINE q == Moved(AfterAuthorise(req[h].op))
  <2>1. req' = [req EXCEPT ![h] = q] /\ UNCHANGED tables /\ req[h].at = "authorise"
    BY <1>0, <1>1 DEF Authorise, Goto, tables
  <2>2. req[h].op \in {"add", "update", "remove", "invite", "revoke"}
    BY <1>0, <2>1 DEF Inv, ReqOK, Requests, MemberOps, InviteOps
  <2>3. /\ req[h].op \in {"update", "remove"} => AfterAuthorise(req[h].op) = "guard"
        /\ req[h].op \in {"add", "revoke"} => AfterAuthorise(req[h].op) = "write"
        /\ req[h].op = "invite" => AfterAuthorise(req[h].op) = "members"
    BY Zenon, <2>2 DEF AfterAuthorise
  <2>4. req[h].role = "owner" => sanction[req[h].actor] # NoUser
    <3> SUFFICES ASSUME req[h].role = "owner" PROVE sanction[req[h].actor] # NoUser
      OBVIOUS
    <3>1. req[h].op # "remove" /\ req[h].op # "revoke"
      BY DEF Inv, ReqOK, NoRole
    <3>2. AtLeast(role[req[h].actor], "owner")
      BY <1>1, <3>1 DEF Allowed
    <3> QED BY <2>2, <3>1, <3>2, OwnerRank DEF Inv, ReqOK, SanctionInv, MemberOps
  <2>5. q \in Requests
    BY <1>0, <2>2, <2>3 DEF Requests, Steps
  <2> HIDE DEF q
  <2>6. q.op = req[h].op /\ q.actor = req[h].actor /\ q.target = req[h].target /\ q.role = req[h].role
        /\ q.invite = req[h].invite /\ q.at = AfterAuthorise(req[h].op)
    BY <1>0 DEF q, Requests
  <2> QED BY <2>1, <2>2, <2>3, <2>4, <2>5, <2>6, RequestKept DEF Inv, ReqOK, MemberOps, InviteOps
<1>2. CASE Authorise(h) /\ ~Allowed(req[h])
  BY <1>2, FinishKept DEF Authorise, tables
<1>3. CASE GuardLastOwner(h)
  <2>1. CASE Owners = {req[h].target}
    BY <1>3, <2>1, FinishKept DEF GuardLastOwner, tables
  <2>2. CASE Owners # {req[h].target}
    <3>1. req' = [req EXCEPT ![h] = Moved("write")] /\ UNCHANGED tables /\ req[h].at = "guard"
      BY <1>0, <1>3, <2>2 DEF GuardLastOwner, Goto, tables
    <3> QED BY <1>0, <3>1, RequestKept, ZenonT(60) DEF Inv, ReqOK, SanctionInv, Requests, Steps, MemberOps, InviteOps
  <2> QED BY <2>1, <2>2
<1>4. CASE InviteMembers(h)
  <2>1. CASE role[req[h].target] # NoRole
    BY <1>4, <2>1, FinishKept DEF InviteMembers, tables
  <2>2. CASE role[req[h].target] = NoRole
    <3>1. req' = [req EXCEPT ![h] = Moved("write")] /\ UNCHANGED tables /\ req[h].at = "members"
      BY <1>0, <1>4, <2>2 DEF InviteMembers, Goto, tables
    <3> QED BY <1>0, <3>1, RequestKept DEF Inv, ReqOK, SanctionInv, Requests, Steps, MemberOps, InviteOps
  <2> QED BY <2>1, <2>2
<1>5. CASE AcceptUser(h)
  <2> DEFINE q == [req[h] EXCEPT !.at = "accept", !.had = account[req[h].target]]
  <2>1. req' = [req EXCEPT ![h] = q] /\ UNCHANGED tables /\ req[h].at = "user"
    BY <1>0, <1>5 DEF AcceptUser, tables
  <2>2. req[h].op = "accept" /\ req[h].target \in Users /\ req[h].role = NoRole /\ req[h].invite \in Invites
        /\ invite[req[h].invite].state # "absent"
    BY <2>1 DEF Inv, ReqOK, InviteOK, InviteOps
  <2>3. account[req[h].target] \in BOOLEAN
    BY <2>2 DEF Inv, TypeOK
  <2>4. q \in Requests
    BY <1>0, <2>3 DEF Requests, Steps
  <2> QED BY <1>0, <2>1, <2>2, <2>4, RequestKept DEF Requests, MemberOps, InviteOps, NoRole
<1> QED BY <1>1, <1>2, <1>3, <1>4, <1>5

\* A role is written, by a request that is answered or by the directory sync.
LEMMA WriteKept ==
  ASSUME Inv, (\E h \in Handlers : Finish(h)) \/ UNCHANGED req,
         NEW u \in Users, NEW r \in OrgRole \cup {NoRole}, NEW by \in Users, SetRole(u, r, by),
         r = "owner" => (by = u /\ DirectoryOwner(u)) \/ sanction[by] # NoUser,
         account' \in [Users -> BOOLEAN], \A v \in Users : account[v] => account'[v],
         r # NoRole => account'[u],
         invite' \in [Invites -> [state : {"absent", "pending", "accepted", "revoked", "expired"},
                                  email : Users \cup {NoUser}, role : OrgRole \cup {NoRole},
                                  by : Users \cup {NoUser}]],
         \A i \in Invites :
           /\ invite'[i].email = invite[i].email /\ invite'[i].role = invite[i].role
           /\ invite'[i].by = invite[i].by
           /\ invite'[i].state = "absent" <=> invite[i].state = "absent"
  PROVE  Inv'
<1> USE DEF Inv
<1>1. req' \in [Handlers -> Requests] /\ \A k \in Handlers : req'[k] = req[k] \/ req'[k] = Idle
  <2>1. Idle \in Requests
    BY DEF Idle, Requests, Steps, NoRole
  <2>2. req \in [Handlers -> Requests]
    BY DEF TypeOK, Requests
  <2>3. CASE UNCHANGED req
    BY <2>2, <2>3
  <2>4. CASE \E h \in Handlers : Finish(h)
    BY <2>1, <2>2, <2>4 DEF Finish
  <2> QED BY <2>3, <2>4
<1>2. role' = [role EXCEPT ![u] = r] /\ role' \in [Users -> OrgRole \cup {NoRole}]
  BY DEF TypeOK, SetRole
<1>3. /\ sanction' \in [Users -> Users \cup {NoUser}]
      /\ \A v \in Users : sanction[v] # NoUser => sanction'[v] # NoUser
      /\ \A v \in Users : role'[v] = "owner" => sanction'[v] # NoUser
      /\ OwnersMadeByOwners'
  BY SanctionKept
<1>4. TypeOK'
  BY <1>1, <1>2, <1>3 DEF TypeOK, Requests
<1>5. ReqOK'
  BY <1>1 DEF ReqOK, Idle, MemberOps, InviteOps, NoRole
<1>6. InviteOK'
  BY <1>1 DEF InviteOK, ReqOK, InviteOps, Idle
<1>7. MembersHaveAccounts'
  BY <1>2 DEF MembersHaveAccounts, TypeOK
<1>8. SanctionInv'
  <2>1. \A k \in Handlers : req[k].at \in {"guard", "members", "write"} /\ req[k].role = "owner" => req[k].actor \in Users
    BY DEF ReqOK, TypeOK, MemberOps, InviteOps, NoRole
  <2>2. \A i \in Invites : invite[i].role = "owner" => invite[i].by \in Users
    BY DEF InviteOK, NoRole
  <2> QED BY <1>1, <1>3, <2>1, <2>2 DEF SanctionInv, Idle, NoRole
<1> QED BY <1>4, <1>5, <1>6, <1>7, <1>8

LEMMA MemberStep ==
  ASSUME Inv, NEW h \in Handlers, AddMember(h) \/ ChangeMember(h)
  PROVE  Inv'
<1> DEFINE q == req[h]
<1>1. /\ q.actor \in Users /\ q.target \in Users /\ q.role \in OrgRole \cup {NoRole}
      /\ q.role = "owner" => sanction[q.actor] # NoUser
      /\ Finish(h) /\ UNCHANGED <<account, invite>>
  BY DEF AddMember, ChangeMember, Inv, ReqOK, SanctionInv, MemberOps
<1>2. CASE UNCHANGED <<role, sanction>>
  BY <1>1, <1>2, FinishKept DEF tables
<1>3. CASE SetRole(q.target, q.role, q.actor) /\ account[q.target]
  BY <1>1, <1>3, WriteKept DEF Inv, TypeOK
<1>4. account[q.target] \/ UNCHANGED <<role, sanction>>
  BY <1>1 DEF AddMember, ChangeMember, Inv, MembersHaveAccounts
<1>5. SetRole(q.target, q.role, q.actor) \/ UNCHANGED <<role, sanction>>
  BY DEF AddMember, ChangeMember
<1> QED BY <1>2, <1>3, <1>4, <1>5

LEMMA InviteStep ==
  ASSUME Inv, NEW h \in Handlers, InviteInsert(h) \/ InviteRevoke(h)
  PROVE  Inv'
<1> USE DEF Inv
<1>1. Finish(h) /\ UNCHANGED <<account, role, sanction>>
  BY DEF InviteInsert, InviteRevoke
<1>2. req' \in [Handlers -> Requests] /\ \A k \in Handlers : req'[k] = req[k] \/ req'[k] = Idle
  <2>1. Idle \in Requests
    BY DEF Idle, Requests, Steps, NoRole
  <2> QED BY <1>1, <2>1 DEF Finish, TypeOK, Requests
<1>3. PICK i \in Invites, row \in [state : {"pending", "accepted", "revoked", "expired"},
                                   email : Users, role : OrgRole, by : Users] :
        /\ invite' = invite \/ invite' = [invite EXCEPT ![i] = row]
        /\ row.role = "owner" => sanction[row.by] # NoUser
  <2>1. CASE InviteInsert(h)
    <3>1. req[h].target \in Users /\ req[h].role \in OrgRole /\ req[h].actor \in Users /\ req[h].invite \in Invites
          /\ (req[h].role = "owner" => sanction[req[h].actor] # NoUser)
      BY <2>1 DEF InviteInsert, ReqOK, SanctionInv, InviteOps
    <3> DEFINE new == [state |-> "pending", email |-> req[h].target, role |-> req[h].role, by |-> req[h].actor]
    <3>2. new \in [state : {"pending", "accepted", "revoked", "expired"}, email : Users, role : OrgRole, by : Users]
          /\ new.role = req[h].role /\ new.by = req[h].actor
      BY <3>1
    <3>3. invite' = invite \/ invite' = [invite EXCEPT ![req[h].invite] = new]
      BY <2>1 DEF InviteInsert
    <3> QED BY <3>1, <3>2, <3>3
  <2>2. CASE InviteRevoke(h) /\ invite[req[h].invite].state = "pending"
    <3> DEFINE i == req[h].invite
    <3>1. i \in Invites
      BY <2>2 DEF InviteRevoke, ReqOK, InviteOps
    <3>2. [invite[i] EXCEPT !.state = "revoked"]
            \in [state : {"pending", "accepted", "revoked", "expired"}, email : Users, role : OrgRole, by : Users]
      BY <2>2, <3>1 DEF InviteOK, TypeOK
    <3>3. invite' = [invite EXCEPT ![i] = [invite[i] EXCEPT !.state = "revoked"]]
      BY <2>2, <3>1 DEF InviteRevoke, TypeOK
    <3>4. [invite[i] EXCEPT !.state = "revoked"].role = "owner" =>
            sanction[[invite[i] EXCEPT !.state = "revoked"].by] # NoUser
      BY <3>1 DEF SanctionInv, TypeOK
    <3> QED BY <3>1, <3>2, <3>3, <3>4
  <2>3. CASE InviteRevoke(h) /\ invite[req[h].invite].state # "pending"
    <3>1. req[h].invite \in Invites /\ req[h].actor \in Users /\ invite' = invite
      BY <2>3 DEF InviteRevoke, ReqOK, InviteOps
    <3>2. [state |-> "revoked", email |-> req[h].actor, role |-> "viewer", by |-> req[h].actor]
            \in [state : {"pending", "accepted", "revoked", "expired"}, email : Users, role : OrgRole, by : Users]
      BY <3>1 DEF OrgRole
    <3> QED BY <3>1, <3>2
  <2> QED BY <2>1, <2>2, <2>3
<1>4. invite' \in [Invites -> [state : {"absent", "pending", "accepted", "revoked", "expired"},
                               email : Users \cup {NoUser}, role : OrgRole \cup {NoRole},
                               by : Users \cup {NoUser}]]
  BY <1>3 DEF TypeOK
<1>5. \A j \in Invites : invite'[j] = invite[j] \/ invite'[j] = row
  BY <1>3 DEF TypeOK
<1>6. TypeOK'
  BY <1>1, <1>2, <1>4 DEF TypeOK, Requests
<1>7. ReqOK'
  BY <1>2 DEF ReqOK, Idle, MemberOps, InviteOps, NoRole
<1>8. InviteOK'
  BY <1>2, <1>5 DEF InviteOK, ReqOK, InviteOps, Idle
<1>9. MembersHaveAccounts' /\ SanctionInv'
  BY <1>1, <1>2, <1>3, <1>5 DEF MembersHaveAccounts, SanctionInv, OwnersMadeByOwners, Idle, NoRole
<1> QED BY <1>6, <1>7, <1>8, <1>9

LEMMA AcceptStep ==
  ASSUME Inv, NEW h \in Handlers, Accept(h)
  PROVE  Inv'
<1> DEFINE q == req[h]
           row == invite[q.invite]
<1>1. q.target \in Users /\ q.invite \in Invites /\ row.state # "absent" /\ row.role \in OrgRole /\ row.by \in Users
      /\ (row.role = "owner" => sanction[row.by] # NoUser)
  BY DEF Accept, Inv, ReqOK, InviteOK, SanctionInv, InviteOps
<1>2. CASE ~q.had /\ account[q.target]
  BY <1>2, FinishKept DEF Accept
<1>3. CASE ~(~q.had /\ account[q.target])
  <2>1. /\ SetRole(q.target, row.role, row.by) /\ Finish(h)
        /\ account' = [account EXCEPT ![q.target] = TRUE]
    BY <1>3 DEF Accept
  <2>2. account' \in [Users -> BOOLEAN] /\ account'[q.target] /\ \A v \in Users : account[v] => account'[v]
    BY <1>1, <2>1 DEF Inv, TypeOK
  <2>3. invite' = invite \/ invite' = [invite EXCEPT ![q.invite].state = "accepted"]
    BY <1>3 DEF Accept
  <2>4. /\ invite' \in [Invites -> [state : {"absent", "pending", "accepted", "revoked", "expired"},
                                  email : Users \cup {NoUser}, role : OrgRole \cup {NoRole},
                                  by : Users \cup {NoUser}]]
        /\ \A i \in Invites :
           /\ invite'[i].email = invite[i].email /\ invite'[i].role = invite[i].role
           /\ invite'[i].by = invite[i].by
           /\ invite'[i].state = "absent" <=> invite[i].state = "absent"
    BY <1>1, <2>3 DEF Inv, TypeOK
  <2> QED BY <1>1, <2>1, <2>2, <2>4, WriteKept
<1> QED BY <1>2, <1>3

LEMMA ExpireStep ==
  ASSUME Inv, NEW i \in Invites, Expire(i)
  PROVE  Inv'
<1>1. /\ invite' \in [Invites -> [state : {"absent", "pending", "accepted", "revoked", "expired"},
                                email : Users \cup {NoUser}, role : OrgRole \cup {NoRole},
                                by : Users \cup {NoUser}]]
      /\ \A j \in Invites :
         /\ invite'[j].email = invite[j].email /\ invite'[j].role = invite[j].role
         /\ invite'[j].by = invite[j].by
         /\ invite'[j].state = "absent" <=> invite[j].state = "absent"
  BY DEF Expire, Inv, TypeOK
<1>2. UNCHANGED <<account, role, req, sanction>>
  BY DEF Expire
<1>3. TypeOK' /\ ReqOK' /\ MembersHaveAccounts'
  BY <1>1, <1>2 DEF Inv, TypeOK, ReqOK, MembersHaveAccounts
<1>4. InviteOK' /\ SanctionInv'
  BY <1>1, <1>2 DEF Inv, InviteOK, ReqOK, InviteOps, SanctionInv, OwnersMadeByOwners
<1> QED BY <1>3, <1>4 DEF Inv

LEMMA LdapStep ==
  ASSUME Inv, NEW u \in Users, LdapApply(u)
  PROVE  Inv'
<1>1. /\ DirectoryRole[u] \in OrgRole /\ SetRole(u, DirectoryRole[u], u) /\ UNCHANGED <<invite, req>>
      /\ DirectoryRole[u] = "owner" => DirectoryOwner(u)
  BY DirectoryAssumption DEF LdapApply, DirectoryOwner
<1>2. account' \in [Users -> BOOLEAN] /\ account'[u] /\ \A v \in Users : account[v] => account'[v]
  BY DEF LdapApply, Inv, TypeOK
<1>3. invite' \in [Invites -> [state : {"absent", "pending", "accepted", "revoked", "expired"},
                                email : Users \cup {NoUser}, role : OrgRole \cup {NoRole},
                                by : Users \cup {NoUser}]]
  BY <1>1 DEF Inv, TypeOK
<1> QED BY <1>1, <1>2, <1>3, WriteKept

LEMMA NextInv == Inv /\ [Next]_vars => Inv'
<1> SUFFICES ASSUME Inv, [Next]_vars PROVE Inv'
  OBVIOUS
<1>1. ASSUME NEW h \in Handlers,
             MemberRequest(h) \/ InviteRequest(h) \/ RevokeRequest(h) \/ AcceptLoad(h) PROVE Inv'
  BY <1>1, RequestStep
<1>2. ASSUME NEW h \in Handlers,
             Authorise(h) \/ GuardLastOwner(h) \/ InviteMembers(h) \/ AcceptUser(h) PROVE Inv'
  BY <1>2, CheckStep
<1>3. ASSUME NEW h \in Handlers, AddMember(h) \/ ChangeMember(h) PROVE Inv'
  BY <1>3, MemberStep
<1>4. ASSUME NEW h \in Handlers, InviteInsert(h) \/ InviteRevoke(h) PROVE Inv'
  BY <1>4, InviteStep
<1>5. ASSUME NEW h \in Handlers, Accept(h) PROVE Inv'
  BY <1>5, AcceptStep
<1>6. ASSUME NEW i \in Invites, Expire(i) PROVE Inv'
  BY <1>6, ExpireStep
<1>7. ASSUME NEW u \in Users, LdapApply(u) PROVE Inv'
  BY <1>7, LdapStep
<1>8. CASE UNCHANGED vars
  BY <1>8 DEF vars, Inv, TypeOK, ReqOK, InviteOK, MembersHaveAccounts, SanctionInv, OwnersMadeByOwners
<1> QED BY <1>1, <1>2, <1>3, <1>4, <1>5, <1>6, <1>7, <1>8 DEF Next

LEMMA SpecInv == Spec => []Inv
<1> QED BY InitInv, NextInv, PTL DEF Spec

\* The tables and the requests in flight keep their types.
THEOREM TypeCorrect == Spec => []TypeOK
<1>1. Inv => TypeOK
  BY DEF Inv
<1> QED BY <1>1, SpecInv, PTL

\* Every member has an account, however requests, invitations and directory syncs
\* interleave.
THEOREM MemberAccounts == Spec => []MembersHaveAccounts
<1>1. Inv => MembersHaveAccounts
  BY DEF Inv
<1> QED BY <1>1, SpecInv, PTL

\* The owner role is only ever given by the founder, the directory or someone who had
\* it, however the checks of
\* addMember, updateMember and invitations interleave with changes of roles.
THEOREM OwnerProvenance == Spec => []OwnersMadeByOwners
<1>1. Inv => OwnersMadeByOwners
  BY DEF Inv, SanctionInv
<1> QED BY <1>1, SpecInv, PTL
-----------------------------------------------------------------------------
(* The last-owner guard, where it holds: until a role is written between   *)
(* another request's guard and its write, or by an upsert.                 *)

\* Past the guard there is an owner besides the member about to be changed.
GuardInv ==
  /\ disturbed \in BOOLEAN
  /\ AlwaysAnOwner
  /\ \A h \in Handlers : ~disturbed /\ PastGuard(h) => Owners # {req[h].target}

\* A step that writes no role keeps the guard's promise when it lets no request
\* past the guard.
LEMMA GuardKept ==
  ASSUME GuardInv, UNCHANGED <<role, disturbed>>,
         \A h \in Handlers : req'[h] = req[h] \/ ~PastGuard(h)'
  PROVE  GuardInv'
<1>1. UNCHANGED Owners
  BY DEF Owners
<1> QED BY <1>1 DEF GuardInv, AlwaysAnOwner, PastGuard

\* guardLastOwner keeps an owner in the organisation, for any number of requests
\* in flight, as long as every role is written by a request whose count of owners
\* is still true.
THEOREM LastOwnerKept == Spec => []AlwaysAnOwner
<1>1. Init => GuardInv
  <2> SUFFICES ASSUME Init PROVE GuardInv
    OBVIOUS
  <2>1. Owners # {}
    BY FounderAssumption DEF Init, Owners
  <2>2. \A h \in Handlers : ~PastGuard(h)
    BY DEF Init, PastGuard, Idle
  <2>3. disturbed \in BOOLEAN
    BY DEF Init
  <2> QED BY <2>1, <2>2, <2>3 DEF GuardInv, AlwaysAnOwner
<1>2. Inv /\ GuardInv /\ [Next]_vars => GuardInv'
  <2> SUFFICES ASSUME Inv, GuardInv, [Next]_vars PROVE GuardInv'
    OBVIOUS
  <2>0. req \in [Handlers -> Requests]
    BY DEF Inv, TypeOK, Requests
  <2>1. ASSUME NEW h \in Handlers, Finish(h), UNCHANGED <<role, disturbed>> PROVE GuardInv'
    BY <2>0, <2>1, GuardKept DEF Finish, Idle, PastGuard
  <2>2. ASSUME NEW h \in Handlers, MemberRequest(h) \/ InviteRequest(h) \/ RevokeRequest(h) \/ AcceptLoad(h)
        PROVE GuardInv'
    <3>1. UNCHANGED <<role, disturbed>>
      BY <2>2 DEF MemberRequest, InviteRequest, RevokeRequest, AcceptLoad, tables
    <3>2. req'[h].at # "write" /\ \A k \in Handlers \ {h} : req'[k] = req[k]
      <4>1. CASE MemberRequest(h)
        BY <2>0, <4>1 DEF MemberRequest, Start, Idle
      <4>2. CASE InviteRequest(h)
        BY <2>0, <4>2 DEF InviteRequest, Start, Idle
      <4>3. CASE RevokeRequest(h)
        BY <2>0, <4>3 DEF RevokeRequest, Start, Idle
      <4>4. CASE AcceptLoad(h)
        BY <2>0, <4>4 DEF AcceptLoad, Start, Idle
      <4> QED BY <2>2, <4>1, <4>2, <4>3, <4>4
    <3> QED BY <3>1, <3>2, GuardKept DEF PastGuard
  <2>3. ASSUME NEW h \in Handlers, Authorise(h) PROVE GuardInv'
    <3>1. UNCHANGED <<role, disturbed>>
      BY <2>3 DEF Authorise, tables
    <3>2. CASE Allowed(req[h])
      <4>1. req' = [req EXCEPT ![h].at = AfterAuthorise(req[h].op)]
        BY <2>3, <3>2 DEF Authorise, Goto
      <4>2. req[h].op \in {"update", "remove"} => AfterAuthorise(req[h].op) = "guard"
        BY Zenon DEF AfterAuthorise
      <4>3. ~PastGuard(h)' /\ \A k \in Handlers \ {h} : req'[k] = req[k]
        BY <2>0, <4>1, <4>2 DEF PastGuard, Requests
      <4> QED BY <3>1, <4>3, GuardKept
    <3>3. CASE ~Allowed(req[h])
      BY <2>1, <2>3, <3>1, <3>3 DEF Authorise
    <3> QED BY <3>2, <3>3
  <2>4. ASSUME NEW h \in Handlers, GuardLastOwner(h) PROVE GuardInv'
    <3>1. UNCHANGED <<role, disturbed>> /\ UNCHANGED Owners
      BY <2>4 DEF GuardLastOwner, tables, Owners
    <3>2. CASE Owners = {req[h].target}
      BY <2>1, <2>4, <3>1, <3>2 DEF GuardLastOwner
    <3>3. CASE Owners # {req[h].target}
      <4>1. req'[h].target = req[h].target /\ \A k \in Handlers \ {h} : req'[k] = req[k]
        BY <2>0, <2>4, <3>3 DEF GuardLastOwner, Goto, Requests
      <4> QED BY <3>1, <3>3, <4>1 DEF GuardInv, AlwaysAnOwner, PastGuard
    <3> QED BY <3>2, <3>3
  <2>5. ASSUME NEW h \in Handlers, AddMember(h) PROVE GuardInv'
    <3>1. Finish(h) /\ UNCHANGED disturbed
      BY <2>5 DEF AddMember
    <3>2. \A u \in Users : role[u] = "owner" => role'[u] = "owner"
      BY <2>5 DEF AddMember, SetRole, Inv, TypeOK, NoRole
    <3>3. Owners \subseteq Owners'
      BY <3>2 DEF Owners
    <3>4. \A k \in Handlers : PastGuard(k)' => PastGuard(k) /\ req'[k] = req[k]
      BY <2>0, <3>1 DEF Finish, Idle, PastGuard
    <3> QED BY <3>1, <3>3, <3>4 DEF GuardInv, AlwaysAnOwner
  <2>6. ASSUME NEW h \in Handlers, ChangeMember(h) PROVE GuardInv'
    <3>1. Finish(h) /\ PastGuard(h) /\ disturbed' = (disturbed \/ \E k \in Handlers \ {h} : PastGuard(k))
      BY <2>6 DEF ChangeMember, PastGuard
    <3>2. \A k \in Handlers : PastGuard(k)' => PastGuard(k) /\ k # h
      BY <2>0, <3>1 DEF Finish, Idle, PastGuard
    <3>3. disturbed' \in BOOLEAN /\ (~disturbed' => ~disturbed /\ \A k \in Handlers : ~PastGuard(k)')
      BY <3>1, <3>2
    <3>4. ASSUME ~disturbed PROVE Owners' # {}
      <4>1. PICK v \in Owners : v # req[h].target
        BY <3>1, <3>4 DEF GuardInv, AlwaysAnOwner
      <4>2. role'[v] = "owner" /\ v \in Users
        BY <2>6, <4>1 DEF ChangeMember, SetRole, Owners, Inv, TypeOK
      <4> QED BY <4>2 DEF Owners
    <3> QED BY <3>3, <3>4 DEF GuardInv, AlwaysAnOwner
  <2>7. ASSUME NEW h \in Handlers, InviteInsert(h) \/ InviteRevoke(h) PROVE GuardInv'
    BY <2>1, <2>7 DEF InviteInsert, InviteRevoke
  <2>8. ASSUME NEW h \in Handlers, InviteMembers(h) PROVE GuardInv'
    <3>1. UNCHANGED <<role, disturbed>> /\ req[h].at = "members" /\ req[h].op \notin {"update", "remove"}
      BY <2>8 DEF InviteMembers, tables, Inv, ReqOK
    <3>2. CASE Goto(h, "write")
      <4>1. ~PastGuard(h)' /\ \A k \in Handlers \ {h} : req'[k] = req[k]
        BY <2>0, <3>1, <3>2 DEF Goto, PastGuard, Requests
      <4> QED BY <3>1, <4>1, GuardKept
    <3> QED BY <2>1, <2>8, <3>1, <3>2 DEF InviteMembers
  <2>9. ASSUME NEW h \in Handlers, AcceptUser(h) PROVE GuardInv'
    <3>1. UNCHANGED <<role, disturbed>> /\ ~PastGuard(h)' /\ \A k \in Handlers \ {h} : req'[k] = req[k]
      BY <2>0, <2>9 DEF AcceptUser, tables, PastGuard, Requests
    <3> QED BY <3>1, GuardKept
  <2>10. ASSUME NEW h \in Handlers, Accept(h) PROVE GuardInv'
    <3>1. CASE disturbed' = TRUE
      BY <3>1 DEF GuardInv, AlwaysAnOwner
    <3>2. CASE UNCHANGED <<tables, disturbed>>
      BY <2>1, <2>10, <3>2 DEF Accept, tables
    <3> QED BY <2>10, <3>1, <3>2 DEF Accept
  <2>11. ASSUME NEW i \in Invites, Expire(i) PROVE GuardInv'
    BY <2>11, GuardKept DEF Expire
  <2>12. ASSUME NEW u \in Users, LdapApply(u) PROVE GuardInv'
    BY <2>12 DEF LdapApply, GuardInv, AlwaysAnOwner
  <2>13. CASE UNCHANGED vars
    BY <2>13, GuardKept DEF vars
  <2> QED BY <2>2, <2>3, <2>4, <2>5, <2>6, <2>7, <2>8, <2>9, <2>10, <2>11, <2>12, <2>13 DEF Next
<1>3. GuardInv => AlwaysAnOwner
  BY DEF GuardInv
<1> QED BY <1>1, <1>2, <1>3, SpecInv, PTL DEF Spec
=============================================================================
