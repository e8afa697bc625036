----------------------------- MODULE MCRequests -----------------------------
(***************************************************************************)
(* Requests that race for shared rows: organisation resources, accounts,   *)
(* SCIM provisioning, uploads and the webmail's sessions, each on its own  *)
(* small instance, in one run.  They share no variable on the code paths   *)
(* modelled here, so a behaviour of this module is a behaviour of one of   *)
(* them, chosen at the start, and the state space is the sum of theirs.    *)
(***************************************************************************)
EXTENDS Naturals, Sequences, FiniteSets, TLC, TLAPS

CONSTANTS Handlers, Things, Groups, UploadIds, File, Size, UPLOAD_MAX_RETRIES, MaxLost, MaxFaults,
          NoUpload, Names, Ops, GroupRoles, DefaultRole, Deactivate, MaxProvisions, NoName,
          Passkeys, ApiKeys, AccountOps, MaxAccountRequests, MaxCounter, NoUser, IMAP_POOL_MAX,
          SessionOps, MaxSessionRequests, MaxRev, NoMailbox

VARIABLES
  on,   \* the component this behaviour is about
  v1, v2, v3, v4, v5, v6, v7, v8, v9, v10, v11, v12, v13, v14, v15, v16, v17, v18, v19,
  v20

vars == <<on, v1, v2, v3, v4, v5, v6, v7, v8, v9, v10, v11, v12, v13, v14, v15, v16, v17,
           v18, v19, v20>>

\* Handlers are the requests in flight.  Things stands for domains, users or mailboxes:
\* in each component one is as good as another.  The others are those of ScimProvisioning,
\* AttachmentUploads, Accounts and WebmailSession, whose theorems hold here for all their
\* values.
Symmetry == Permutations(Handlers) \cup Permutations(Things) \cup Permutations(Groups)

\* OrgResources: requests that may meet.
ResourceScenarios ==
  {{"createDomain", "updateDomain", "removeDomain"}, {"verify", "updateDomain", "removeDomain"},
   {"createBox", "resizeBox", "setQuota"}, {"createBox", "resizeBox", "removeBox"}, {"createBox", "updateDomain"},
   {"uploadBimi", "removeBimi", "removeDomain"}, {"createAlias", "removeAlias", "removeDomain"},
   {"createGroup", "setMembers", "removeGroup", "removeDomain"},
   {"createDomain", "createBox", "removeOrg"}}

\* Accounts: requests that may meet.
AccountScenarios ==
  {{"bootstrap"}, {"apikey"}, {"login", "mailboxLogin", "logout", "removeBox"},
   {"setup", "verify2fa", "disable2fa", "login"},
   {"challenge", "register", "removePasskey", "passkeyLogin"},
   {"ssoBegin", "oidc", "saml", "provider"}}

\* ScimProvisioning: one display name maps to admin, the other to owner or to nothing.
ScimMaps == {[n \in {"n1", "n2"} |-> IF n = "n1" THEN "admin" ELSE r] : r \in {"owner", "none"}}
AllScimOps == {"create", "patch", "delete", "makeGroup", "add", "remove", "replace", "rename", "deleteGroup"}

\* AttachmentUploads: two uploads of one file, which share an attachment.
SameFile == [u \in UploadIds |-> "f"]

\* WebmailSession: requests that may meet.
SessionScenarios ==
  {{"list", "change"}, {"list", "watch"}, {"watch", "unwatch"},
   {"watch", "logout"}, {"read", "unlock", "lock", "logout"}}

-----------------------------------------------------------------------------
\* The components whose theorems RequestsProofs holds, under the names it gives them.
Asked == INSTANCE RequestsProofs WITH
  Users <- Things, Keys <- ApiKeys, Scenarios <- AccountOps, MaxRequests <- MaxAccountRequests,
  Uploads <- UploadIds,
  status <- v1, mbox <- v2, totp <- v3, owners <- v4, passkey <- v5, device <- v6, challenge <- v7,
  provider <- v8, flow <- v9, ident <- v10, key <- v11, sess <- v12, sealed <- v13, ops <- v14,
  req <- v15, requests <- v16, ids <- v17, confirmed <- v18, minted <- v19, raced <- v20,
  present <- v1, active <- v2, userStatus <- v3, role <- v4, name <- v5, members <- v6,
  groupRoleMap <- v7, call <- v8, gone <- v9, unsettled <- v10, orphaned <- v11, served <- v12,
  upload <- v1, offset <- v2, staged <- v3, stored <- v4, attachment <- v5, client <- v6,
  handler <- v7, lost <- v8, faults <- v9
Resources == INSTANCE OrgResources WITH
  Domains <- Things, Locals <- {"l1"}, Addresses <- {"x1"}, Scenarios <- ResourceScenarios,
  MaxMb <- 2, MaxRequests <- 3, NoDomain <- "none", NoLocal <- "none",
  org <- v1, quota <- v2, status <- v3, primary <- v4, limit <- v5, txt <- v6, logo <- v7,
  object <- v8, box <- v9, alias <- v10, group <- v11, ops <- v12, req <- v13, requests <- v14,
  raced <- v15
Webmail == INSTANCE WebmailSessionProofs WITH
  Boxes <- Things, Scenarios <- SessionOps, MaxRequests <- MaxSessionRequests, NoBox <- NoMailbox,
  ops <- v1, session <- v2, cred <- v3, pool <- v4, older <- v5, entry <- v6, watcher <- v7,
  sockets <- v8, stray <- v9, rev <- v10, view <- v11, idx <- v12, crossed <- v13, told <- v14,
  news <- v15, req <- v16, requests <- v17, faults <- v18

ASSUME AccountsAssumption == Asked!Account!UsersAssumption
ASSUME ScimAssumption == Asked!Scim!RoleAssumption /\ Asked!Scim!NamesAssumption /\ Asked!Scim!HandlersAssumption
ASSUME UploadsAssumption == Asked!Upload!SizeAssumption /\ Asked!Upload!HandlersAssumption
ASSUME WebmailAssumption == Webmail!PoolAssumption /\ Webmail!BoundsAssumption /\ Webmail!KindsAssumption

\* One component runs, in as many slots as it has variables; the other slots stay 0.
Init ==
  \/ /\ on = "resources" /\ Resources!Init
     /\ v16 = 0 /\ v17 = 0 /\ v18 = 0 /\ v19 = 0 /\ v20 = 0
  \/ /\ on = "accounts" /\ Asked!Account!Init
  \/ /\ on = "scim" /\ Asked!Scim!Init
     /\ v13 = 0 /\ v14 = 0 /\ v15 = 0 /\ v16 = 0 /\ v17 = 0 /\ v18 = 0 /\ v19 = 0 /\ v20 = 0
  \/ /\ on = "uploads" /\ Asked!Upload!Init
     /\ v10 = 0 /\ v11 = 0 /\ v12 = 0 /\ v13 = 0 /\ v14 = 0 /\ v15 = 0 /\ v16 = 0 /\ v17 = 0 /\
        v18 = 0 /\ v19 = 0 /\ v20 = 0
  \/ /\ on = "webmail" /\ Webmail!Init
     /\ v19 = 0 /\ v20 = 0

Next ==
  \/ /\ on = "resources" /\ Resources!Next
     /\ UNCHANGED <<on, v16, v17, v18, v19, v20>>
  \/ /\ on = "accounts" /\ Asked!Account!Next
     /\ UNCHANGED <<on>>
  \/ /\ on = "scim" /\ Asked!Scim!Next
     /\ UNCHANGED <<on, v13, v14, v15, v16, v17, v18, v19, v20>>
  \/ /\ on = "uploads" /\ Asked!Upload!Next
     /\ UNCHANGED <<on, v10, v11, v12, v13, v14, v15, v16, v17, v18, v19, v20>>
  \/ /\ on = "webmail" /\ Webmail!Next
     /\ UNCHANGED <<on, v19, v20>>

Spec == Init /\ [][Next]_vars
-----------------------------------------------------------------------------
\* OrgsService, DomainsService, MailboxesService, AliasesService and GroupsService keep
\* their rows consistent, and no request does what the row it had read forbade,
\* as long as no other request changed that row between its read and its write.
ResourcesKept ==
  /\ [](on = "resources" => Resources!ResourcesSound)
  /\ [][on = "resources" => Resources!LawfulStep]_vars

\* AuthService and SsoService: sessions, second factors, passkeys and linked
\* identities stay consistent, and no login skips what its account demands,
\* unless what the handler had read was changed under it; a mailbox password
\* outlives its session only where no purge followed the session's end.
AccountsKept ==
  /\ [](on = "accounts" => Asked!Account!AccountsSound)
  /\ [][on = "accounts" => Asked!Account!AccountStep]_vars

\* ScimService: a deprovisioned user's account is suspended, roles follow the
\* groups, and requests that all wait for rows do so in a circle, which PostgreSQL breaks.
ProvisioningKept ==
  on = "scim" => Asked!Scim!TypeOK /\ Asked!Scim!DeprovisionedIsSuspended /\ Asked!Scim!RoleFollowsGroups /\ Asked!Scim!SomeoneProceeds

\* AttachmentsService: rows, staged and stored objects agree, and a finished
\* upload is the browser's file unless a retry overlapped the call it repeats.
UploadsKept == on = "uploads" => Asked!Upload!TypeOK /\ Asked!Upload!StoreIsConsistent /\ Asked!Upload!DoneIsFaithful

\* ImapSessionManager, ImapIdleWatcher, WebmailCredentialStore and WebmailCache: connections are
\* never lost track of, and a user reads the change that was answered, unless a
\* view was written late.
SessionsKept == on = "webmail" => Webmail!TypeOK /\ Webmail!PoolIsSound /\ Webmail!ReadYourWrites
-----------------------------------------------------------------------------
\* For every number of uploads, chunks, retries, handlers, lost connections and faults, not only
\* those of the run: the upload tables and objects agree and an undisturbed upload is the
\* browser's file.
THEOREM UploadsKeptAlways == Spec => []UploadsKept
  <1> DEFINE Inv == on = "uploads" => Asked!UploadsInv
  <1> USE UploadsAssumption
  <1>1. Init => Inv
    BY Asked!UploadsInit DEF Init
  <1>2. Inv /\ [Next]_vars => Inv'
    BY Asked!UploadsStep DEF Next, vars, Asked!Upload!vars
  <1>3. Inv => UploadsKept
    BY Asked!UploadsInvSound DEF UploadsKept
  <1> QED BY <1>1, <1>2, <1>3, PTL DEF Spec

\* For any accounts, passkeys, keys and sets of requests that meet: one first owner, confirmed second
\* factors, single-use challenges and login flows, no password kept without its session unless that ended
\* without a purge, links that stay, and counters that go back only under overlapping logins.
THEOREM AccountsKeptAlways == Spec => AccountsKept
  <1> DEFINE Inv == on = "accounts" => Asked!AccountsInv
  <1> DEFINE Safe == on = "accounts" => Asked!Account!AccountsSound
  <1> DEFINE Move == on = "accounts" => Asked!Account!AccountStep
  <1> USE AccountsAssumption
  <1>1. Init => Inv
    BY Asked!AccountsInit DEF Init
  <1>2. Inv /\ [Next]_vars => Inv'
    BY Asked!AccountsNext DEF Next, vars, Asked!Account!vars, Asked!Account!accounts, Asked!Account!passkeys, Asked!Account!sso,
       Asked!Account!sessions, Asked!Account!hist
  <1>3. Inv => Safe
    BY Asked!AccountsSafe
  <1>4. Inv /\ [Next]_vars => [Move]_vars
    BY Asked!AccountsMove DEF Next, vars
  <1>5. Spec => []Safe /\ [][Move]_vars
    <2> HIDE DEF Inv, Safe, Move
    <2> QED BY <1>1, <1>2, <1>3, <1>4, PTL DEF Spec
  <1> QED BY <1>5 DEF AccountsKept

\* For any users, groups, role maps, requests and handlers, a group's transaction statement by
\* statement: memberships join rows that exist, whoever was deprovisioned stays suspended, a role
\* follows the groups, and requests that all wait do so in a circle that PostgreSQL breaks.
THEOREM ProvisioningKeptAlways == Spec => []ProvisioningKept
  <1> DEFINE Inv == on = "scim" => Asked!ScimInv
  <1>0. Asked!ScimAssumed
    BY ScimAssumption DEF Asked!ScimAssumed
  <1>1. Init => Inv
    BY <1>0, Asked!ScimStart DEF Init
  <1>2. Inv /\ [Next]_vars => Inv'
    BY <1>0, Asked!ScimStep DEF Next, vars, Asked!Scim!vars, Asked!Scim!users, Asked!Scim!groups
  <1>3. Inv => ProvisioningKept
    BY <1>0, Asked!ScimSafe DEF ProvisioningKept
  <1> HIDE DEF Inv
  <1> QED BY <1>1, <1>2, <1>3, PTL DEF Spec

\* For any mailboxes, requests, cap of the pool, revisions, faults and sets of requests that meet: the
\* pool is within its cap when idle, no connection is closed under a request, every connection is
\* accounted for, every chain moves, and an answered change is not followed by an older view.
THEOREM SessionsKeptAlways == Spec => []SessionsKept
  <1> DEFINE Inv == on = "webmail" => Webmail!SessionInv
  <1>0. Webmail!Assumed
    BY WebmailAssumption DEF Webmail!Assumed
  <1>1. Init => Inv
    BY <1>0, Webmail!SessionInit DEF Init
  <1>2. Inv /\ [Next]_vars => Inv'
    BY <1>0, Webmail!SessionNext DEF Next, vars, Webmail!vars, Webmail!conns, Webmail!map, Webmail!cache
  <1>3. Inv => SessionsKept
    BY <1>0, Webmail!SessionSafe DEF SessionsKept
  <1> HIDE DEF Inv
  <1> QED BY <1>1, <1>2, <1>3, PTL DEF Spec
=============================================================================
