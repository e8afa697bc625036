--------------------------- MODULE ScimProvisioning ---------------------------
(***************************************************************************)
(* SCIM provisioning of one organisation: an identity provider creates,    *)
(* patches and deletes users and groups, and the role of every user a      *)
(* group request touches is recomputed from the user's groups.             *)
(*                                                                         *)
(* A request reads the configuration and the resource, then runs one       *)
(* transaction (READ COMMITTED).  A user's transaction is two UPDATEs and  *)
(* is one step.  A group's transaction reads between its writes, so it is  *)
(* modelled write by write: its writes are private until it commits, it    *)
(* waits for the rows another transaction wrote, and PostgreSQL aborts one *)
(* of two that wait for each other.                                        *)
(***************************************************************************)
EXTENDS Roles, FiniteSets

CONSTANTS
  Users,         \* SCIM users, each linked to one local account
  Groups, Names, \* SCIM groups and the display names they may have
  Handlers,
  Ops,           \* the requests the provider makes
  GroupRoles,    \* the group_role_map values an administrator may save
  DefaultRole,   \* default_role
  Deactivate,    \* deactivate: suspend the accounts of users deleted by the provider
  MaxRequests,   \* bound on the requests of the provider and the administrator
  NoName

\* Assumed of the constants, by the module that gives them values.
RoleAssumption == Deactivate \in BOOLEAN /\ DefaultRole \in OrgRole /\ GroupRoles \subseteq [Names -> OrgRole \cup {NoRole}]
NamesAssumption == NoName \notin Names
HandlersAssumption == IsFiniteSet(Handlers)

VARIABLES
  present, active,   \* scim_users: the rows, and their active flag
  status,            \* users.status of the linked account, "none" before it exists
  role,              \* org_members.role
  name,              \* scim_groups.display_name, NoName when there is no row
  members,           \* scim_group_members
  groupRoleMap,      \* scim_configs.group_role_map
  req,               \* the requests in flight
  gone,              \* users deleted by the provider and not created again
  unsettled,         \* history: users whose role was last computed by a group request that
                     \* overlapped another, or from a map that is no longer saved
  lost,              \* history: users whose account was last set by a request whose row was gone
  served

vars == <<present, active, status, role, name, members, groupRoleMap, req, gone, unsettled, lost, served>>
users == <<present, active, status, gone, lost>>
groups == <<name, members>>

UserOps == {"create", "patch", "delete"}
GroupOps == {"makeGroup", "add", "remove", "replace", "rename", "deleteGroup"}
Idle == [op |-> "idle", at |-> "idle", row |-> TRUE, alone |-> TRUE, user |-> {}, group |-> {}, sids |-> {}, active |-> FALSE,
         name |-> NoName, map |-> [n \in Names |-> NoRole], adds |-> {}, dels |-> {},
         touched |-> {}, next |-> {}, nextRole |-> NoRole, roles |-> [s \in {} |-> NoRole]]

Init ==
  /\ present \in SUBSET Users   \* some users are provisioned already
  /\ active = [s \in Users |-> s \in present]
  /\ status \in [Users -> {"none", "active", "suspended"}]
  /\ \A s \in present : status[s] = "active"
  /\ role = [s \in Users |-> IF s \in present THEN DefaultRole ELSE NoRole]
  /\ name = [g \in Groups |-> NoName]
  /\ members = {}
  /\ groupRoleMap \in GroupRoles
  /\ req = [h \in Handlers |-> Idle]
  /\ gone = {}
  /\ unsettled = {}
  /\ lost = {}
  /\ served = 0

Finish(h) == req' = [req EXCEPT ![h] = Idle]

\* The request h ends with users S and groups G deleted: an id that another request
\* holds matches no row any more, even if the user or group is created again.
FinishDeleting(h, S, G) ==
  req' = [k \in Handlers |->
    IF k = h THEN Idle
    ELSE IF req[k].at \notin {"user", "write"} \/ req[k].op = "create" THEN req[k]
    ELSE [req[k] EXCEPT !.row = @ /\ req[k].user \cap S = {} /\ (req[k].group \cap G = {} \/ req[k].op = "makeGroup"),
                        !.sids = @ \ S]]

\* The membership rows a group transaction wrote, and where it is once it wrote them.
Rows(h) == req[h].adds \cup req[h].dels
Writing == {"read", "upsert"}

\* updateConfig: requests that authenticated before keep the map they read.
UpdateConfig ==
  /\ served < MaxRequests
  /\ served' = served + 1
  /\ groupRoleMap' \in GroupRoles
  /\ unsettled' = Users
  /\ UNCHANGED <<users, role, groups, req>>
-----------------------------------------------------------------------------
(* What a group request writes, and who waits for whom.                    *)

Of(g) == {m \in members : m[1] = g}
UsersOf(rows) == {m[2] : m \in rows}

\* The rows a group request adds and removes, and the users it touches.
Adds(h, g) ==
  IF req[h].op \in {"makeGroup", "add", "replace"} THEN {g} \X (req[h].sids \cap present) ELSE {}
Dels(h, g) ==
  IF ~req[h].row THEN {} ELSE
  CASE req[h].op = "remove" -> {g} \X req[h].sids
    [] req[h].op = "replace" -> Of(g) \ Adds(h, g)
    [] req[h].op = "deleteGroup" -> Of(g)
    [] OTHER -> {}

\* Faulty variant: a rename touches nobody, though the new name may map to another role.
TouchedNotRenamed(h, g) ==
  IF req[h].op \in {"replace", "deleteGroup"}
    THEN UsersOf(Of(g) \cup Adds(h, g))
    ELSE req[h].sids \cap present

Touched(h, g) ==
  IF req[h].op \in {"replace", "rename", "deleteGroup"}
    THEN UsersOf(Of(g) \cup Adds(h, g))
    ELSE req[h].sids \cap present

\* Two group requests write the same membership, the same group or the same name.
Conflict(h, k) ==
  \/ \E g \in req[h].group : (Adds(h, g) \cup Dels(h, g)) \cap Rows(k) # {}
  \/ req[h].group \cap req[k].group # {} /\ req[k].row /\ "deleteGroup" \in {req[h].op, req[k].op}
  \/ req[h].group \cap req[k].group # {} /\ {req[h].op, req[k].op} = {"rename"}
  \/ req[h].name = req[k].name /\ {req[h].op, req[k].op} \subseteq {"makeGroup", "rename"}

\* The statement h is at waits for a row that the transaction of k wrote: a membership of
\* the user it deletes, a row of the group it changes, or the user's org_members row.
Awaits(h, k) ==
  /\ k # h /\ req[k].at \in Writing
  /\ \/ req[h].at = "user" /\ req[h].op = "delete" /\ req[h].row /\ \E m \in Rows(k) : m[2] \in req[h].user
     \/ req[h].at = "write" /\ req[h].row /\ Conflict(h, k)
     \/ req[h].at = "upsert" /\ req[h].next \cap DOMAIN req[k].roles # {}
Blocked(h) == \E k \in Handlers : Awaits(h, k)

\* h waits for itself: every set that has whomever h waits for, and with each request
\* whomever that one waits for, has h.
Circle(h) ==
  \A S \in SUBSET Handlers :
    (\A j \in S \cup {h} : \A k \in Handlers : Awaits(j, k) => k \in S) => h \in S
-----------------------------------------------------------------------------
(* Users.                                                                  *)

\* createUser, replaceUser, patchUser and deleteUser arrive and read the row.  A
\* patch without "active" carries on with the flag it read.
UserLoad(h) ==
  /\ req[h] = Idle
  /\ served < MaxRequests
  /\ served' = served + 1
  /\ \E s \in Users, op \in UserOps \cap Ops, a \in BOOLEAN, sets \in BOOLEAN :
       /\ op = "create" <=> s \notin present
       /\ req' = [req EXCEPT ![h] = [Idle EXCEPT !.op = op, !.at = "user", !.user = {s},
                    !.active = IF op = "patch" /\ ~sets THEN active[s] ELSE a]]
  /\ UNCHANGED <<users, role, groups, groupRoleMap, unsettled>>

\* An account that exists is linked as it is; an inactive user is suspended.  The
\* unique index refuses a row that was created meanwhile.
CreateUser(h, s) ==
  /\ req[h].op = "create"
  /\ s \notin present
  /\ present' = present \cup {s}
  /\ active' = [active EXCEPT ![s] = req[h].active]
  /\ status' = [status EXCEPT ![s] = IF ~req[h].active THEN "suspended"
                                     ELSE IF @ = "none" THEN "active" ELSE @]
  /\ role' = [role EXCEPT ![s] = IF @ = NoRole THEN DefaultRole ELSE @]
  /\ gone' = gone \ {s}
  /\ lost' = IF req[h].active THEN lost ELSE lost \ {s}
  /\ Finish(h)
  /\ UNCHANGED members

\* replaceUser and patchUser: the row, if it still exists, then applyActive, which
\* does not ask whether it does.
PatchUser(h, s) ==
  /\ req[h].op = "patch"
  /\ active' = IF req[h].row THEN [active EXCEPT ![s] = req[h].active] ELSE active
  /\ status' = [status EXCEPT ![s] = IF req[h].active THEN "active" ELSE "suspended"]
  /\ lost' = IF req[h].row THEN lost \ {s} ELSE lost \cup {s}
  /\ Finish(h)
  /\ UNCHANGED <<present, members, role, gone>>

\* deleteUser: the row, its memberships, and with deactivate the account.
DeleteUser(h, s) ==
  /\ req[h].op = "delete"
  /\ status' = IF Deactivate THEN [status EXCEPT ![s] = "suspended"] ELSE status
  /\ IF req[h].row
       THEN /\ present' = present \ {s}
            /\ members' = {m \in members : m[2] # s}
            /\ gone' = gone \cup {s}
            /\ lost' = lost \ {s}
            /\ FinishDeleting(h, {s}, {})
       ELSE Finish(h) /\ UNCHANGED <<present, members, gone, lost>>
  /\ UNCHANGED <<active, role>>

\* The transaction of a user request; a group transaction that wrote a membership
\* of the user holds it up.
UserCommit(h) ==
  /\ req[h].at = "user" /\ ~Blocked(h)
  /\ \E s \in req[h].user :
       /\ \/ CreateUser(h, s)
          \/ req[h].op = "create" /\ s \in present /\ Finish(h) /\ UNCHANGED <<users, role, members>>
          \/ PatchUser(h, s)
          \/ DeleteUser(h, s)
  /\ UNCHANGED <<name, groupRoleMap, unsettled, served>>
-----------------------------------------------------------------------------
(* Groups.                                                                 *)

\* authenticate, and the lookup of the group; createGroup wants a free name and will
\* give an id of its own.
GroupLoad(h) ==
  /\ req[h] = Idle
  /\ served < MaxRequests
  /\ served' = served + 1
  /\ \E g \in Groups, op \in GroupOps \cap Ops,
        sids \in SUBSET Users, n \in Names :
       /\ op = "makeGroup" <=> name[g] = NoName
       /\ op = "makeGroup" => \A k \in Handlers : ~(req[k].op = "makeGroup" /\ g \in req[k].group)
       /\ op = "makeGroup" => \A f \in Groups : name[f] # n
       /\ op \in {"rename", "deleteGroup"} => sids = {}
       /\ op \notin {"makeGroup", "rename"} => n = CHOOSE m \in Names : TRUE
       /\ req' = [req EXCEPT ![h] = [Idle EXCEPT !.op = op, !.at = "write", !.group = {g},
                    !.sids = sids, !.name = n, !.map = groupRoleMap]]
  /\ UNCHANGED <<users, role, groups, groupRoleMap, unsettled>>

\* The writes of the request itself; a group or name that is no longer as it was
\* read fails the transaction.
GroupWrite(h) ==
  /\ req[h].at = "write" /\ ~Blocked(h)
  /\ \E g \in req[h].group :
       LET fail == \/ req[h].op \notin {"makeGroup", "remove"} /\ ~req[h].row
                   \/ req[h].op \in {"makeGroup", "rename"} /\ \E f \in Groups \ {g} : name[f] = req[h].name
       IN  IF fail THEN Finish(h)
           ELSE req' = [k \in Handlers |->
                  IF k # h THEN [req[k] EXCEPT !.alone = @ /\ req[k].at \notin Writing]
                  ELSE [req[h] EXCEPT !.at = "read", !.adds = Adds(h, g), !.dels = Dels(h, g),
                          !.touched = Touched(h, g), !.alone = \A j \in Handlers : req[j].at \notin Writing]]
  /\ UNCHANGED <<users, role, groups, groupRoleMap, unsettled, served>>

\* What the transaction sees: committed rows and its own.
NameSeen(h, g) ==
  IF g \in req[h].group /\ req[h].op \in {"makeGroup", "rename"} THEN req[h].name ELSE name[g]
NamesOf(h, s) ==
  {NameSeen(h, g) : g \in {f \in Groups : s \in present /\ <<f, s>> \in (members \cup req[h].adds) \ req[h].dels}}

\* recomputeRoles, the SELECT of one user's groups.
RecomputeRead(h) ==
  /\ req[h].at = "read"
  /\ \E s \in req[h].touched \ DOMAIN req[h].roles :
       req' = [req EXCEPT ![h] = [req[h] EXCEPT !.at = "upsert", !.next = {s},
                 !.nextRole = ResolveRole(NamesOf(h, s), req[h].map, DefaultRole)]]
  /\ UNCHANGED <<users, role, groups, groupRoleMap, unsettled, served>>

\* recomputeRoles, the upsert: it waits for the row, and writes the role read before.
RecomputeUpsert(h) ==
  /\ req[h].at = "upsert" /\ ~Blocked(h)
  /\ \E s \in req[h].next :
       req' = [req EXCEPT ![h] = [req[h] EXCEPT !.at = "read", !.next = {},
                 !.roles = [t \in DOMAIN req[h].roles \cup {s} |->
                              IF t = s THEN req[h].nextRole ELSE req[h].roles[t]]]]
  /\ UNCHANGED <<users, role, groups, groupRoleMap, unsettled, served>>

GroupCommit(h) ==
  /\ req[h].at = "read" /\ req[h].touched = DOMAIN req[h].roles
  /\ members' = (members \cup req[h].adds) \ req[h].dels
  /\ name' = [g \in Groups |->
       IF g \notin req[h].group \/ ~req[h].row THEN name[g]
       ELSE IF req[h].op = "deleteGroup" THEN NoName ELSE NameSeen(h, g)]
  /\ role' = [s \in Users |-> IF s \in DOMAIN req[h].roles THEN req[h].roles[s] ELSE role[s]]
  /\ FinishDeleting(h, {}, IF req[h].op = "deleteGroup" THEN req[h].group ELSE {})
  /\ unsettled' = IF req[h].alone /\ req[h].map = groupRoleMap THEN unsettled \ req[h].touched
                  ELSE unsettled \cup req[h].touched
  /\ UNCHANGED <<users, groupRoleMap, served>>

\* Transactions wait for each other's rows in a circle: one is the victim.
Deadlock(h) ==
  /\ req[h].at = "upsert"
  /\ Circle(h)
  /\ Finish(h)
  /\ UNCHANGED <<users, role, groups, groupRoleMap, unsettled, served>>
-----------------------------------------------------------------------------
Proceed(h) ==
  \/ UserCommit(h) \/ GroupWrite(h) \/ RecomputeRead(h) \/ RecomputeUpsert(h) \/ GroupCommit(h)
  \/ Deadlock(h)

Next == UpdateConfig \/ \E h \in Handlers : UserLoad(h) \/ GroupLoad(h) \/ Proceed(h)

Spec == Init /\ [][Next]_vars
-----------------------------------------------------------------------------
\* Types, and memberships only of groups and users that exist.
TypeOK ==
  /\ present \subseteq Users
  /\ status \in [Users -> {"none", "active", "suspended"}]
  /\ role \in [Users -> OrgRole \cup {NoRole}]
  /\ name \in [Groups -> Names \cup {NoName}]
  /\ members \subseteq {g \in Groups : name[g] # NoName} \X present

\* active=false deprovisions: a user the provider sees as inactive cannot sign in, in
\* whatever order requests run, unless a patch lost its row to a delete; the next
\* request that finds the row repairs that.
InactiveIsSuspended == \A s \in present \ lost : ~active[s] => status[s] = "suspended"

\* The names of the user's groups, as committed.
GroupNames(s) == {name[g] : g \in {f \in Groups : <<f, s>> \in members}}

\* "Highest matching role wins": a user with a group has the role its groups resolve
\* to, once a group request that no other overlapped has touched it under the saved map.
RoleFollowsGroups ==
  \A s \in present \ unsettled :
    GroupNames(s) # {} => role[s] = ResolveRole(GroupNames(s), groupRoleMap, DefaultRole)

\* A user deleted by the provider stays suspended until it is created again, unless
\* a patch that lost its row lifts the suspension.
DeletedStaysSuspended == Deactivate => \A s \in gone \ lost : status[s] = "suspended"

\* Whoever the provider deactivated or deleted cannot sign in.
DeprovisionedIsSuspended == InactiveIsSuspended /\ DeletedStaysSuspended

\* Whenever requests are in flight, one of them waits for nobody, or PostgreSQL will
\* abort one: requests that all wait do so in a circle of recomputations.
SomeoneProceeds ==
  (\E h \in Handlers : req[h] # Idle) =>
    \E h \in Handlers : req[h] # Idle /\ (Blocked(h) => req[h].at = "upsert" /\ Circle(h))
=============================================================================
