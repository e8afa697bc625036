----------------------------- MODULE OrgResources -----------------------------
(***************************************************************************)
(* What an organisation owns: its domains, mailboxes, aliases, groups and  *)
(* storage quota (OrgsService, DomainsService, MailboxesService,           *)
(* AliasesService, GroupsService) and the brand logo in the object store.  *)
(*                                                                         *)
(* A request is what its service does between two awaits, one action each; *)
(* its role was checked before (Roles, OrgMembers).  A mailbox is a domain *)
(* and a local part, with its quota_mb; the other columns of a row are     *)
(* data.  Transactions run under READ COMMITTED: their writes appear at    *)
(* the commit and they lock the rows they write.                           *)
(***************************************************************************)
EXTENDS Naturals, FiniteSets, FiniteSetsExt

CONSTANTS
  Domains, Locals, Addresses, Handlers,
  Scenarios,    \* kinds of request that are made together
  MaxMb,        \* bound on quotas
  MaxRequests,  \* bound on requests
  NoDomain, NoLocal

NoQuota == MaxMb + 1    \* storage_quota_mb IS NULL, no max_mailboxes
Boxes == Domains \X Locals

VARIABLES
  org,        \* the row of organizations exists
  quota,      \* storage_quota_mb
  status,     \* domains.status, "none" without a row
  primary,    \* domains with is_primary
  limit,      \* domains.max_mailboxes
  txt,        \* domains whose verification record is in the DNS
  logo,       \* domains with a bimi_logo_key
  object,     \* domains with a logo in the object store
  box,        \* mailboxes.quota_mb, NoBox without a row
  alias,      \* domains with an alias row
  group,      \* members of a domain's group, NoGroup without a row
  ops,        \* the kinds of request made in this behaviour
  req,        \* requests in flight
  requests,
  raced       \* history: rules a request broke with what it had read before another's write

NoBox == MaxMb + 1
NoGroup == {NoLocal}

rows == <<org, quota, status, primary, limit, box, alias, group>>
bimi == <<logo, object>>
env == <<txt, ops>>
vars == <<rows, env, bimi, req, requests, raced>>

Idle == [op |-> "idle", at |-> "idle", d |-> NoDomain, l |-> NoLocal, n |-> 0,
         flag |-> FALSE, seen |-> "none", used |-> 0, cap |-> 0, hit |-> {}, list |-> {}]

Exists(d) == status[d] # "none"
BoxesOf(d) == {b \in {d} \X Locals : box[b] # NoBox}
AllBoxes == UNION {BoxesOf(d) : d \in Domains}
Allocated(S) == MapThenSumSet(LAMBDA b : box[b], S)

Init ==
  /\ org = TRUE
  /\ quota \in {MaxMb, NoQuota}
  /\ \E D \in SUBSET Domains : status = [d \in Domains |-> IF d \in D THEN "pending_verification" ELSE "none"]
  /\ primary \in SUBSET {d \in Domains : Exists(d)}
  /\ limit = [d \in Domains |-> NoQuota]
  /\ txt = {}
  /\ logo = {} /\ object = {}
  /\ box = [b \in Boxes |-> NoBox]
  /\ alias = {} /\ group = [d \in Domains |-> NoGroup]
  /\ ops \in Scenarios /\ req = [h \in Handlers |-> Idle] /\ requests = 0
  /\ raced = IF Cardinality(primary) > 1 THEN {<<"primary", NoDomain>>} ELSE {}
-----------------------------------------------------------------------------
(* A request arrives.                                                      *)

Goto(h, step) == req' = [req EXCEPT ![h].at = step]
Finish(h) == req' = [req EXCEPT ![h] = Idle]

MailboxOps == {"createBox", "resizeBox", "removeBox"}
AliasOps == {"createAlias", "removeAlias"}
GroupOps == {"createGroup", "setMembers", "removeGroup"}
OrgOps == {"setQuota", "removeOrg"}

Request(h) ==
  /\ org /\ req[h] = Idle /\ requests < MaxRequests
  /\ requests' = requests + 1
  /\ \E op \in ops, d \in Domains, l \in Locals, n \in 0 .. NoQuota, f \in BOOLEAN, A \in SUBSET Addresses :
       /\ op \in MailboxOps \/ l = CHOOSE k \in Locals : TRUE
       /\ n \in CASE op \in {"createBox", "resizeBox", "setQuota"} -> 0 .. MaxMb
                   [] op = "updateDomain" /\ "createBox" \in ops -> {0, 1, NoQuota}
                   [] op = "updateDomain" -> {NoQuota}
                   [] OTHER -> {0}
       /\ f => op = "createDomain" \/ (op = "updateDomain" /\ "createBox" \notin ops)
       /\ op = "setMembers" \/ A = {}
       /\ req' = [req EXCEPT ![h] = [Idle EXCEPT !.op = op, !.at = "check", !.d = d, !.l = l,
                                                 !.n = n, !.flag = f, !.list = A]]
  /\ UNCHANGED <<rows, env, bimi, raced>>

\* requireRole without an organisation, get without the row: 404.
NotFound(h) ==
  /\ req[h].at = "check"
  /\ \/ ~org
     \/ req[h].op \notin OrgOps \cup {"createDomain"} /\ ~Exists(req[h].d)
     \/ req[h].op \in {"resizeBox", "removeBox"} /\ box[<<req[h].d, req[h].l>>] = NoBox
     \/ req[h].op = "removeAlias" /\ req[h].d \notin alias
     \/ req[h].op \in {"setMembers", "removeGroup"} /\ group[req[h].d] = NoGroup
  /\ Finish(h)
  /\ UNCHANGED <<rows, env, bimi, requests, raced>>

Checks(h, op) == req[h].at = "check" /\ req[h].op = op /\ org
Writes(h, op) == req[h].at = "write" /\ req[h].op = op
-----------------------------------------------------------------------------
(* Domains: create and update as transactions.                             *)

Locked(h) == {d \in Domains : \E g \in Handlers \ {h} : req[g].at = "locked" /\ d \in req[g].hit}

\* UPDATE domains SET is_primary = false: the rows its snapshot shows ...
ClearPrimary(h) ==
  /\ req[h].at = "check" /\ req[h].op \in {"createDomain", "updateDomain"} /\ org
  /\ req[h].op = "updateDomain" => Exists(req[h].d)
  /\ req' = [req EXCEPT ![h].at = "lock", ![h].hit = IF req[h].flag THEN primary \ {req[h].d} ELSE {}]
  /\ UNCHANGED <<rows, env, bimi, requests, raced>>

\* ... which it locks, and waits for.
LockRows(h) ==
  /\ req[h].at = "lock" /\ req[h].hit \cap Locked(h) = {}
  /\ Goto(h, "locked")
  /\ UNCHANGED <<rows, env, bimi, requests, raced>>

\* Each waits for a row the other has written: PostgreSQL aborts one.
Deadlocked(h) ==
  /\ \E g \in Handlers \ {h} :
       /\ req[h].at = "locked" /\ req[g].at = "locked"
       /\ req[h].d \in req[g].hit /\ req[g].d \in req[h].hit
  /\ Finish(h)
  /\ UNCHANGED <<rows, env, bimi, requests, raced>>

\* Another request has become the primary one since the snapshot.
StalePrimary(h) == req[h].flag /\ primary \ {req[h].d} # req[h].hit

\* INSERT domains with its seeds, unless the name is in use or the organisation gone.
CreateDomain(h) ==
  LET d == req[h].d IN
  /\ req[h].at = "locked" /\ req[h].op = "createDomain"
  /\ IF Exists(d) \/ ~org THEN UNCHANGED <<status, primary, raced>>
     ELSE /\ status' = [status EXCEPT ![d] = "pending_verification"]
          /\ primary' = IF req[h].flag THEN (primary \ req[h].hit) \cup {d} ELSE primary
          /\ raced' = IF StalePrimary(h) THEN raced \cup {<<"primary", NoDomain>>} ELSE raced
  /\ Finish(h)
  /\ UNCHANGED <<org, quota, limit, box, alias, group, env, bimi, requests>>

\* The rows whose flag the transaction clears.
Cleared(h) == req[h].hit

\* update: the flags, the limits, the administrator's status.
UpdateDomain(h) ==
  LET d == req[h].d IN
  /\ req[h].at = "locked" /\ req[h].op = "updateDomain" /\ d \notin Locked(h)
  /\ IF ~Exists(d) THEN primary' = primary \ Cleared(h) /\ UNCHANGED <<status, limit, raced>>
     ELSE /\ \E s \in {status[d], "active", "suspended"} : status' = [status EXCEPT ![d] = s]
          /\ limit' = IF req[h].n = NoQuota THEN limit ELSE [limit EXCEPT ![d] = req[h].n]
          /\ primary' \in IF req[h].flag THEN {(primary \ Cleared(h)) \cup {d}}
                                       ELSE {primary, primary \ {d}}
          /\ raced' = IF StalePrimary(h) THEN raced \cup {<<"primary", NoDomain>>} ELSE raced
  /\ Finish(h)
  /\ UNCHANGED <<org, quota, box, alias, group, env, bimi, requests>>

\* ON DELETE CASCADE from domains.
Cascade(D) ==
  /\ status' = [d \in Domains |-> IF d \in D THEN "none" ELSE status[d]]
  /\ primary' = primary \ D
  /\ limit' = [d \in Domains |-> IF d \in D THEN NoQuota ELSE limit[d]]
  /\ logo' = logo \ D
  /\ box' = [b \in Boxes |-> IF b[1] \in D THEN NoBox ELSE box[b]]
  /\ alias' = alias \ D
  /\ group' = [d \in Domains |-> IF d \in D THEN NoGroup ELSE group[d]]

\* remove: "Delete mailboxes first".
RemoveDomainCheck(h) ==
  /\ Checks(h, "removeDomain") /\ Exists(req[h].d)
  /\ IF BoxesOf(req[h].d) # {} THEN Finish(h) ELSE Goto(h, "write")
  /\ UNCHANGED <<rows, env, bimi, requests, raced>>

RemoveDomain(h) ==
  LET d == req[h].d IN
  /\ Writes(h, "removeDomain") /\ d \notin Locked(h)
  /\ Cascade({d})
  /\ raced' = IF BoxesOf(d) # {} THEN raced \cup {<<"lost", NoDomain>>} ELSE raced
  /\ Finish(h)
  /\ UNCHANGED <<org, quota, env, object, requests>>
-----------------------------------------------------------------------------
(* Domains: verify.                                                        *)

\* The owner of the zone publishes or withdraws the record.
ZoneChanges(d) ==
  /\ "verify" \in ops /\ requests < MaxRequests
  /\ txt' = IF d \in txt THEN txt \ {d} ELSE txt \cup {d}
  /\ UNCHANGED <<rows, ops, bimi, req, requests, raced>>

VerifyRead(h) ==
  /\ Checks(h, "verify") /\ Exists(req[h].d)
  /\ req' = [req EXCEPT ![h].at = "lookup", ![h].seen = status[req[h].d]]
  /\ UNCHANGED <<rows, env, bimi, requests, raced>>

\* resolveTxt; a resolver error is no record.
Lookup(h) ==
  /\ req[h].at = "lookup"
  /\ \E ok \in {FALSE, req[h].d \in txt} : req' = [req EXCEPT ![h].at = "write", ![h].flag = ok]
  /\ UNCHANGED <<rows, env, bimi, requests, raced>>

NextStatus(seen, ok) == IF ok \/ seen = "active" THEN "active" ELSE "verifying"

\* The status is written when it differs from the one that was read.
VerifyWrite(h) ==
  LET d == req[h].d
      next == NextStatus(req[h].seen, req[h].flag) IN
  /\ Writes(h, "verify") /\ d \notin Locked(h)
  /\ status' = IF Exists(d) /\ next # req[h].seen THEN [status EXCEPT ![d] = next] ELSE status
  /\ raced' = IF status[d] # req[h].seen THEN raced \cup {<<"status", d>>} ELSE raced
  /\ Finish(h)
  /\ UNCHANGED <<org, quota, primary, limit, box, alias, group, env, bimi, requests>>
-----------------------------------------------------------------------------
(* Domains: the brand logo.                                                *)

\* uploadBimi: put, then the key; an invalid SVG is refused.
UploadPut(h) ==
  /\ Checks(h, "uploadBimi") /\ Exists(req[h].d)
  /\ \/ object' = object \cup {req[h].d} /\ Goto(h, "write")
     \/ Finish(h) /\ UNCHANGED object
  /\ UNCHANGED <<rows, env, logo, requests, raced>>

UploadKey(h) ==
  /\ Writes(h, "uploadBimi")
  /\ logo' = IF Exists(req[h].d) THEN logo \cup {req[h].d} ELSE logo
  /\ raced' = IF req[h].d \notin object THEN raced \cup {<<"logo", NoDomain>>} ELSE raced
  /\ Finish(h)
  /\ UNCHANGED <<rows, env, object, requests>>

\* removeBimi: the object (a store that refuses is ignored), then the key, whose
\* UPDATE may fail.
RemoveObject(h) ==
  /\ Checks(h, "removeBimi") /\ Exists(req[h].d)
  /\ IF req[h].d \notin logo THEN Finish(h) /\ UNCHANGED object
     ELSE object' \in {object, object \ {req[h].d}} /\ Goto(h, "write")
  /\ UNCHANGED <<rows, env, logo, requests, raced>>

RemoveKey(h) ==
  /\ Writes(h, "removeBimi")
  /\ logo' = logo \ {req[h].d}
  /\ Finish(h)
  /\ UNCHANGED <<rows, env, object, requests, raced>>

RemoveKeyFails(h) ==
  /\ Writes(h, "removeBimi")
  /\ raced' = raced \cup {<<"logo", NoDomain>>}
  /\ Finish(h)
  /\ UNCHANGED <<rows, env, bimi, requests>>
-----------------------------------------------------------------------------
(* Mailboxes under max_mailboxes and the organisation's quota.             *)

\* enforceLimits: no limit and a limit of 0 are the same.
LimitReached(d) == limit[d] \notin {0, NoQuota} /\ Cardinality(BoxesOf(d)) >= limit[d]

CreateBoxLimit(h) ==
  /\ Checks(h, "createBox") /\ Exists(req[h].d)
  /\ IF LimitReached(req[h].d) THEN Finish(h)
     ELSE req' = [req EXCEPT ![h].at = "quota", ![h].hit = BoxesOf(req[h].d)]
  /\ UNCHANGED <<rows, env, bimi, requests, raced>>

ResizeBoxCheck(h) ==
  /\ Checks(h, "resizeBox") /\ box[<<req[h].d, req[h].l>>] # NoBox
  /\ Goto(h, "quota")
  /\ UNCHANGED <<rows, env, bimi, requests, raced>>

\* Faulty variant: the request itself is not counted.
ExceedsAlready(used, add, cap) == cap # NoQuota /\ used > cap

Exceeds(used, add, cap) == cap # NoQuota /\ used + add > cap

\* assertQuota: what the other mailboxes have, and the cap, in one statement.
AssertQuota(h) ==
  LET used == Allocated(AllBoxes \ {<<req[h].d, req[h].l>>}) IN
  /\ req[h].at = "quota"
  /\ IF org /\ Exceeds(used, req[h].n, quota) THEN Finish(h)
     ELSE req' = [req EXCEPT ![h].at = "write", ![h].used = used, ![h].cap = quota]
  /\ UNCHANGED <<rows, env, bimi, requests, raced>>

StaleQuota(h) ==
  \/ req[h].cap # quota
  \/ req[h].used # Allocated(AllBoxes \ {<<req[h].d, req[h].l>>})

\* INSERT after the password hash: the key and the foreign key are checked.
CreateBox(h) ==
  LET b == <<req[h].d, req[h].l>> IN
  /\ Writes(h, "createBox")
  /\ IF Exists(req[h].d) /\ box[b] = NoBox
       THEN /\ box' = [box EXCEPT ![b] = req[h].n]
            /\ raced' = raced \cup (IF StaleQuota(h) THEN {<<"quota", NoDomain>>} ELSE {})
                              \cup (IF BoxesOf(req[h].d) # req[h].hit THEN {<<"limit", NoDomain>>} ELSE {})
       ELSE UNCHANGED <<box, raced>>
  /\ Finish(h)
  /\ UNCHANGED <<org, quota, status, primary, limit, alias, group, env, bimi, requests>>

ResizeBox(h) ==
  LET b == <<req[h].d, req[h].l>> IN
  /\ Writes(h, "resizeBox")
  /\ IF box[b] # NoBox
       THEN /\ box' = [box EXCEPT ![b] = req[h].n]
            /\ raced' = IF StaleQuota(h) THEN raced \cup {<<"quota", NoDomain>>} ELSE raced
       ELSE UNCHANGED <<box, raced>>
  /\ Finish(h)
  /\ UNCHANGED <<org, quota, status, primary, limit, alias, group, env, bimi, requests>>

RemoveBox(h) ==
  LET b == <<req[h].d, req[h].l>> IN
  /\ Checks(h, "removeBox") /\ box[b] # NoBox
  /\ box' = [box EXCEPT ![b] = NoBox]
  /\ Finish(h)
  /\ UNCHANGED <<org, quota, status, primary, limit, alias, group, env, bimi, requests, raced>>

\* setQuota: computeQuota, then the UPDATE.
SetQuotaCheck(h) ==
  LET used == Allocated(AllBoxes) IN
  /\ Checks(h, "setQuota")
  /\ IF req[h].n < used THEN Finish(h)
     ELSE req' = [req EXCEPT ![h].at = "write", ![h].used = used]
  /\ UNCHANGED <<rows, env, bimi, requests, raced>>

SetQuota(h) ==
  /\ Writes(h, "setQuota")
  /\ quota' = IF org THEN req[h].n ELSE quota
  /\ raced' = IF req[h].used # Allocated(AllBoxes) THEN raced \cup {<<"quota", NoDomain>>} ELSE raced
  /\ Finish(h)
  /\ UNCHANGED <<org, status, primary, limit, box, alias, group, env, bimi, requests>>
-----------------------------------------------------------------------------
(* Aliases, groups, and the end of the organisation.                       *)

Alias(h) ==
  /\ req[h].at = "check" /\ req[h].op \in AliasOps /\ Exists(req[h].d)
  /\ alias' = IF req[h].op = "createAlias" THEN alias \cup {req[h].d} ELSE alias \ {req[h].d}
  /\ Finish(h)
  /\ UNCHANGED <<org, quota, status, primary, limit, box, group, env, bimi, requests, raced>>

\* create with no members, and remove.
Group(h) ==
  /\ req[h].at = "check" /\ req[h].op \in {"createGroup", "removeGroup"} /\ Exists(req[h].d)
  /\ group' = [group EXCEPT ![req[h].d] =
                 IF req[h].op = "removeGroup" THEN NoGroup ELSE IF @ = NoGroup THEN {} ELSE @]
  /\ Finish(h)
  /\ UNCHANGED <<org, quota, status, primary, limit, box, alias, env, bimi, requests, raced>>

\* setMembers, a transaction: DELETE the members its snapshot shows ...
DeleteMembers(h) ==
  /\ Checks(h, "setMembers") /\ group[req[h].d] # NoGroup
  /\ req' = [req EXCEPT ![h].at = "write", ![h].hit = group[req[h].d]]
  /\ UNCHANGED <<rows, env, bimi, requests, raced>>

Replaced(now, old, list) == (now \ old) \cup list

\* ... then INSERT the list; the foreign key fails without the group.
InsertMembers(h) ==
  LET d == req[h].d IN
  /\ Writes(h, "setMembers")
  /\ IF group[d] = NoGroup THEN UNCHANGED <<group, raced>>
     ELSE /\ group' = [group EXCEPT ![d] = Replaced(@, req[h].hit, req[h].list)]
          /\ raced' = IF group[d] # req[h].hit THEN raced \cup {<<"members", d>>}
                      ELSE raced \ {<<"members", d>>}
  /\ Finish(h)
  /\ UNCHANGED <<org, quota, status, primary, limit, box, alias, env, bimi, requests>>

\* OrgsService.remove: "Organization has domains".
RemoveOrgCheck(h) ==
  /\ Checks(h, "removeOrg")
  /\ IF \E d \in Domains : Exists(d) THEN Finish(h) ELSE Goto(h, "write")
  /\ UNCHANGED <<rows, env, bimi, requests, raced>>

RemoveOrg(h) ==
  /\ Writes(h, "removeOrg")
  /\ org' = FALSE
  /\ Cascade(Domains)
  /\ raced' = IF AllBoxes # {} THEN raced \cup {<<"lost", NoDomain>>} ELSE raced
  /\ Finish(h)
  /\ UNCHANGED <<quota, env, object, requests>>
-----------------------------------------------------------------------------
Step(h) ==
  \/ Request(h) \/ NotFound(h)
  \/ ClearPrimary(h) \/ LockRows(h) \/ Deadlocked(h) \/ CreateDomain(h) \/ UpdateDomain(h)
  \/ RemoveDomainCheck(h) \/ RemoveDomain(h)
  \/ VerifyRead(h) \/ Lookup(h) \/ VerifyWrite(h)
  \/ UploadPut(h) \/ UploadKey(h) \/ RemoveObject(h) \/ RemoveKey(h) \/ RemoveKeyFails(h)
  \/ CreateBoxLimit(h) \/ ResizeBoxCheck(h) \/ AssertQuota(h) \/ CreateBox(h) \/ ResizeBox(h)
  \/ RemoveBox(h) \/ SetQuotaCheck(h) \/ SetQuota(h)
  \/ Alias(h) \/ Group(h) \/ DeleteMembers(h) \/ InsertMembers(h)
  \/ RemoveOrgCheck(h) \/ RemoveOrg(h)

Next == (\E h \in Handlers : Step(h)) \/ (\E d \in Domains : ZoneChanges(d))

Spec == Init /\ [][Next]_vars
-----------------------------------------------------------------------------
(* Properties.                                                             *)

TypeOK ==
  /\ quota \in 0 .. NoQuota /\ limit \in [Domains -> 0 .. NoQuota] /\ box \in [Boxes -> 0 .. NoBox]
  /\ status \in [Domains -> {"none", "pending_verification", "verifying", "active", "suspended"}]
  /\ group \in [Domains -> SUBSET Addresses \cup {NoGroup}]

Raced(rule) == <<rule, NoDomain>> \in raced
Writing(op, d) == \E h \in Handlers : req[h].op = op /\ req[h].d = d /\ req[h].at = "write"

\* Mailboxes, aliases, groups and keys hang under a row that exists (the cascades
\* of remove); one domain is primary, the allocated storage stays under the cap
\* ("the sum ... may not exceed this value", 0012_org_quota.sql) and a logo key
\* names an object, unless the history shows the overlap each check is open to,
\* or a removal whose UPDATE failed after the object was gone.
ResourcesSound ==
  /\ TypeOK
  /\ \A d \in Domains : ~Exists(d) =>
       BoxesOf(d) = {} /\ d \notin alias \cup primary \cup logo /\ group[d] = NoGroup
  /\ ~org => \A d \in Domains : ~Exists(d)
  /\ Raced("primary") \/ Cardinality(primary) <= 1
  /\ Raced("quota") \/ quota = NoQuota \/ Allocated(AllBoxes) <= quota
  /\ \A d \in logo \ object : Raced("logo") \/ Writing("removeBimi", d)

\* A verification never takes a domain off line that is active, a removal takes
\* no mailbox with it, a creation keeps to max_mailboxes and setMembers leaves
\* exactly its list, unless the row the request had read has changed since.
LawfulStep ==
  \A h \in Handlers : LET d == req[h].d IN req'[h] = Idle =>
       /\ Writes(h, "verify") /\ status[d] = "active" /\ status'[d] # "active" => <<"status", d>> \in raced'
       /\ req[h].op \in {"removeDomain", "removeOrg"} /\ box' # box => <<"lost", NoDomain>> \in raced'
       /\ Writes(h, "createBox") /\ box' # box /\ limit[d] \notin {0, NoQuota}
            => Cardinality(BoxesOf(d)) < limit[d] \/ <<"limit", NoDomain>> \in raced'
       /\ Writes(h, "setMembers") /\ group[d] # NoGroup
            => group'[d] = req[h].list \/ <<"members", d>> \in raced'
===============================================================================
