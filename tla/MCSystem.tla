------------------------------ MODULE MCSystem ------------------------------
(***************************************************************************)
(* The worker's chores, the stores and the front ends, each on its own     *)
(* small instance, in one run: rate limits, DKIM keys, retention, backups, *)
(* inbound mail, object storage, calendar and contacts, and the webmail's  *)
(* and the console's dialogs.  They share no variable on the code paths    *)
(* modelled here, so a behaviour of this module is a behaviour of one of   *)
(* them, chosen at the start, and the state space is the sum of theirs.    *)
(***************************************************************************)
EXTENDS Integers, Sequences, FiniteSets, SequencesExt, TLAPS

CONSTANTS Replicas, Limit, MaxHits, Boxes, Mail, BoxOf, Expired, Admins, MaxHolds, Exports, Duties,
          Keys, First, Consoles, Worker, MaxRequests, MaxFaults, NoKey, ObjectKeys, Tmp,
          MissingObject, Contents, MaxWrites, MaxByte, Tasks, BackupRuns, MaxDay, BackupPlans,
          Pictures, Exts, PictureSlots, LogoUrls, PicturePlans, MaxFetches, MaxVersion, PanelPlans,
          Files, MaxCount, MaxId, LinkPlans, Letters, RoleMaps, MaxSecret, IssuePlans

VARIABLES
  on,   \* the component this behaviour is about
  v1, v2, v3, v4, v5, v6, v7, v8, v9, v10, v11, v12, v13, v14, v15, v16, v17, v18, v19,
  v20, v21

vars == <<on, v1, v2, v3, v4, v5, v6, v7, v8, v9, v10, v11, v12, v13, v14, v15, v16, v17,
           v18, v19, v20, v21>>

\* Retention: one expired message in one mailbox, a younger one in the other.
MailBox == [m \in {"m1", "m2"} |-> IF m = "m1" THEN "b1" ELSE "b2"]
RetentionDuties == {{"policy", "prune"}, {"hold", "prune"}, {"prune", "owner", "export"}}

\* Backups: the schedule is edited, or runs are made, pruned and restored.
BackupChores == {{"schedule"}, {"worker", "admin", "restore"}}

\* Inbound: a message with a known sender and one without; logs in and out of
\* order; reports; every MIME nesting of up to five boundary lines.
MailFrom == [m \in {"m1", "m2"} |-> IF m = "m1" THEN "ann" ELSE "unknown"]
MailTo == [m \in {"m1", "m2"} |-> IF m = "m1" THEN "alice" ELSE "bob"]
Line(m, k) == [msg |-> m, kind |-> k]
MailLogs ==
  {<<>>, <<Line("m1", "from"), Line("m2", "from"), Line("m1", "sent"), Line("m2", "sent")>>,
   <<Line("m1", "sent"), Line("m1", "from"), Line("m2", "bare"), Line("m2", "deferred")>>}
MailArchives ==
  {<<[count |-> 2, dkim |-> TRUE, spf |-> FALSE], [count |-> c, dkim |-> FALSE, spf |-> s]>> :
     c \in {-1, 1}, s \in BOOLEAN}
MailShapes == SeqOf([b : {1, 2, 3}, close : BOOLEAN], 5)

\* Storage: two contents of one size, one of another.
NoObject == [ver |-> 0, size |-> 0]
ObjectContents == {[ver |-> 1, size |-> 1], [ver |-> 2, size |-> 1], [ver |-> 3, size |-> 2]}

\* Groupware: short texts with every character that is escaped or folded, and
\* other clients at a server that answers an existing collection with 409.
DavPlans ==
  {[kind |-> k, exists |-> 405, sample |-> s, calls |-> 2, others |-> 0, failures |-> 1] :
     k \in {"calendar", "contacts"}, s \in SeqOf({"n", "bs", ";", "lf", " "}, 2)}
  \cup {[kind |-> k, exists |-> 409, sample |-> <<"x", "cr", "x">>, calls |-> 2, others |-> 2, failures |-> 0] :
          k \in {"calendar", "contacts"}}

\* Composer: a draft resumed and re-seeded; calls lost; a panel opened over a send.
Composing == [opens |-> 1, revs |-> 1, faults |-> 0, polls |-> 2, signature |-> FALSE,
              minimise |-> FALSE, retarget |-> FALSE, files |-> FALSE, sends |-> FALSE]
ComposerPlans ==
  {[Composing EXCEPT !.opens = 2, !.revs = 2, !.signature = TRUE],
   [Composing EXCEPT !.revs = 2, !.faults = 2],
   [Composing EXCEPT !.retarget = TRUE, !.sends = TRUE],
   [Composing EXCEPT !.opens = 2, !.sends = TRUE],
   [Composing EXCEPT !.revs = 2, !.faults = 1, !.sends = TRUE],
   [Composing EXCEPT !.minimise = TRUE, !.signature = TRUE, !.faults = 1],
   [Composing EXCEPT !.revs = 0, !.sends = TRUE, !.files = TRUE, !.faults = 1]}

\* Reader: mail arriving under a live view, folders switched, renamed and
\* removed, threads, a search.
Reading == [changes |-> 0, switches |-> 0, ops |-> 0, faults |-> 0, tokens |-> 0, live |-> TRUE,
            rail |-> FALSE, threads |-> FALSE, cached |-> FALSE]
ReaderPlans ==
  {[Reading EXCEPT !.changes = 2, !.faults = 1],
   [Reading EXCEPT !.changes = 1, !.switches = 2], [Reading EXCEPT !.changes = 1, !.switches = 1, !.ops = 1],
   [Reading EXCEPT !.switches = 2, !.ops = 1],
   [Reading EXCEPT !.cached = TRUE, !.changes = 1, !.faults = 1],
   [Reading EXCEPT !.cached = TRUE, !.switches = 1, !.ops = 1, !.faults = 1],
   [Reading EXCEPT !.ops = 1, !.live = FALSE, !.switches = 1],
   [Reading EXCEPT !.rail = TRUE, !.ops = 2, !.switches = 2],
   [Reading EXCEPT !.threads = TRUE, !.changes = 2],
   [Reading EXCEPT !.tokens = 2]}
Header(refs, reply, id, subject) == [native |-> 0, refs |-> refs, reply |-> reply, id |-> id, subject |-> subject]
MailHeaders == <<Header(<<>>, 0, 1, 1), Header(<<1, 2>>, 2, 3, 1), Header(<<>>, 0, 0, 0)>>
SearchTerms ==
  {[op |-> o, val |-> v] : o \in {"from", "before", "attachment"}, v \in {0, 1}}
  \cup {[op |-> "from", val |-> 2], [op |-> "text", val |-> 1], [op |-> "seen", val |-> 1], [op |-> "seen", val |-> 2]}

\* ItemManagers: each kind of item with the fields that matter, one or two tabs.
Managing(kind, fields, tabs, seeds, edits, opens, dels, losses) ==
  [kind |-> kind, fields |-> fields, tabs |-> tabs, seeds |-> seeds, edits |-> edits, opens |-> opens,
   dels |-> dels, losses |-> losses]
ManagerPlans ==
  {Managing("signature", {"flag"}, 2, 2, 2, 2, 0, 0), Managing("signature", {"flag"}, 2, 1, 1, 1, 1, 0),
   Managing("signature", {"rich"}, 1, 1, 2, 2, 0, 1), Managing("template", {"name"}, 1, 1, 2, 3, 0, 0),
   Managing("filter", {"conditions", "acts"}, 1, 1, 3, 1, 0, 0),
   Managing("contact", {"addresses"}, 1, 1, 2, 2, 1, 1), Managing("event", {"flag", "when"}, 1, 1, 3, 1, 0, 0)}

\* Connections: each kind of directory or sign-on connection, one or two tabs.
Connecting(kinds, tabs, seeds, opens, edits, dels, tests, losses) ==
  [kinds |-> kinds, tabs |-> tabs, seeds |-> seeds, opens |-> opens, edits |-> edits, dels |-> dels,
   tests |-> tests, losses |-> losses]
ConnectionPlans ==
  {Connecting({"oidc"}, 2, 1, 2, 2, 0, 0, 0), Connecting({"saml", "oidc"}, 1, 1, 2, 2, 1, 0, 1),
   Connecting({"ldap"}, 2, 1, 1, 1, 1, 1, 0), Connecting({"ldap"}, 1, 0, 2, 3, 0, 0, 0),
   Connecting({"oidc"}, 1, 2, 2, 3, 0, 0, 0)}
GroupRoleMaps ==
  LET c == <<"c", "eq", "x">>
      o == <<"o", "eq", "y", "sp", "z">>
  IN  {[dn \in {c} |-> "admin"], [dn \in {c, o} |-> IF dn = c THEN "member" ELSE "viewer"]}

\* Avatars: a logo template that passes the check and one that does not; pictures set, removed and read at once.
BrandLogos == {[https |-> TRUE, listed |-> FALSE], [https |-> TRUE, listed |-> TRUE]}
Picturing(changes, reads, faults, proxy) ==
  [changes |-> changes, reads |-> reads, faults |-> faults, proxy |-> proxy]
AvatarPlans ==
  {Picturing(1, 2, 1, TRUE), Picturing(2, 1, 0, TRUE), Picturing(3, 0, 0, FALSE), Picturing(2, 0, 1, FALSE)}

\* DnsRecords: two publishes at once, or one of several rows.
Publishing(rows, syncs) == [rows |-> rows, syncs |-> syncs, checks |-> FALSE]
ZoneSettings == {Publishing({"spf"}, 2), Publishing({"mx", "caa"}, 1), Publishing({"autoconfig", "spf"}, 1)}

\* IssuedSecrets: each of the four pages, one or two administrators.
Issuing(kind, tabs, opens, dels, uses, leaves, losses) ==
  [kind |-> kind, tabs |-> tabs, opens |-> opens, dels |-> dels, uses |-> uses, edits |-> 0, saves |-> 0, leaves |-> leaves, losses |-> losses]
SecretPlans ==
  {Issuing("apikey", 2, 2, 1, 0, 0, 0), Issuing("webhook", 1, 2, 1, 1, 1, 0), Issuing("invite", 2, 1, 2, 1, 0, 0),
   Issuing("invite", 1, 2, 1, 1, 0, 1), Issuing("scim", 2, 2, 1, 0, 0, 0),
   [Issuing("scim", 1, 1, 0, 1, 1, 1) EXCEPT !.edits = 2, !.saves = 1],
   [Issuing("scim", 2, 1, 0, 0, 0, 0) EXCEPT !.edits = 1, !.saves = 1]}

-----------------------------------------------------------------------------
\* The components whose theorems StoresProofs holds, under the names it gives them.
Stores == INSTANCE StoresProofs WITH
  Runs <- BackupRuns, Chores <- BackupPlans, Keys <- ObjectKeys, Absent <- MissingObject,
  Slots <- PictureSlots, Plans <- PicturePlans, MaxReads <- MaxFetches,
  policy <- v1, holds <- v2, young <- v3, asking <- v4, loc <- v5, prune <- v6, export <- v7,
  stored <- v8, duty <- v9, sched <- v1, runs <- v2, objects <- v3, engine <- v4, day <- v5,
  chore <- v6, wish <- v7, abandoned <- v8, rewritten <- v9, task <- v1, kinds <- v2, verify <- v3,
  src <- v4, tgt <- v5, write <- v6, mig <- v7, served <- v8, thumb <- v9, writes <- v10,
  faults <- v11, quiet <- v12, panelPlan <- v1, ui <- v2, inst <- v3, initial <- v4, head <- v5,
  dom <- v6, sigDue <- v7, timer <- v8, save <- v9, draftUid <- v10, discard <- v11, drafts <- v12,
  files <- v13, post <- v14, sendRow <- v15, cancel <- v16, poll <- v17, told <- v18,
  panelFaults <- v19, marks <- v20, linkPlan <- v1, links <- v2, typed <- v3, mixed <- v4,
  linkTab <- v5, secrets <- v6, linkUsed <- v7, plan <- v1, logo <- v2, path <- v3, store <- v4,
  redis <- v5, req <- v6, tab <- v7, used <- v8, spoiled <- v9, litter <- v10, changes <- v11,
  worker <- v1, caches <- v2, version <- v3, online <- v4, fetch <- v5, puts <- v6, page <- v7,
  best <- v8, crossed <- v9, push <- v10, spent <- v11, issuePlan <- v1, secretRow <- v2,
  settings <- v3, issueTab <- v4, onScreen <- v5, blind <- v6, issueUsed <- v7
Limits == INSTANCE RateLimits WITH
  counter <- v1, expires <- v2, bucket <- v3, hit <- v4, served <- v5, lost <- v6, hits <- v7
Dkim == INSTANCE DkimKeysProofs WITH
  status <- v1, ripe <- v2, txt <- v3, files <- v4, map <- v5, req <- v6, rotated <- v7,
  outage <- v8, crossed <- v9, unsettled <- v10, requests <- v11, faults <- v12
Zones == INSTANCE DnsRecords WITH
  Provider <- "cloudflare", Syncers <- {"s1", "s2"}, Ids <- 1 .. 5, MaxEdits <- 1, MaxFaults <- 1,
  Settings <- ZoneSettings,
  zone <- v1, status <- v2, stale <- v3, sync <- v4, look <- v5, setting <- v6, edits <- v7,
  faults <- v8, disturbed <- v9
Ingest == INSTANCE Inbound WITH
  Messages <- {"m1", "m2"}, From <- MailFrom, To <- MailTo, Users <- {"alice", "bob"},
  Endpoints <- {"e1"}, NoSender <- "unknown", Logs <- MailLogs, MaxBatch <- 2, MaxBreaks <- 1,
  Archives <- MailArchives, Shapes <- MailShapes, MaxDepth <- 2, MaxParts <- 3,
  log <- v1, batch <- v2, events <- v3, notes <- v4, subs <- v5, pushed <- v6, read <- v7,
  report <- v8, mime <- v9, breaks <- v10, again <- v11, could <- v12
Dav == INSTANCE Groupware WITH
  Uids <- {"u1", "u2"}, Handlers <- {"h1", "h2"}, Fold <- 4, Plans <- DavPlans,
  plan <- v1, made <- v2, store <- v3, call <- v4, calls <- v5, others <- v6, failures <- v7,
  wrote <- v8, calm <- v9
Read == INSTANCE Reader WITH
  Plans <- ReaderPlans, Inbox <- "inbox", System <- {"inbox"}, Folders <- {"inbox", "work"},
  Spare <- {"new"}, MaxUid <- 3, Headers <- MailHeaders, Terms <- SearchTerms,
  plan <- v1, exists <- v2, box <- v3, rail <- v4, railDue <- v5, folder <- v6, openUid <- v7,
  watched <- v8, cache <- v9, fetch <- v10, syncs <- v11, served <- v12, sets <- v13, busts <- v14,
  events <- v15, op <- v16, expanded <- v17, search <- v18, term <- v19, used <- v20, missed <- v21
Manage == INSTANCE ItemManagers WITH
  MaxId <- 3, Plans <- ManagerPlans,
  plan <- v1, table <- v2, gone <- v3, tab <- v4, used <- v5

ASSUME LimitsAssumption == Limits!BoundsAssumption
ASSUME StorageAssumption == Stores!Objects!NamesAssumption
ASSUME RetentionAssumption == Stores!Retain!MailAssumption
ASSUME AvatarsAssumption == Stores!Avatar!PicturesAssumption
ASSUME OfflineAssumption == Stores!Offline!VersionsAssumption
ASSUME ComposerAssumption == Stores!Compose!PlansAssumption
ASSUME ConnectionsAssumption == Stores!Connect!RoleMapsAssumption /\ Stores!Connect!KindsAssumption
ASSUME DkimAssumption == Dkim!BoundsAssumption /\ Dkim!HandlersAssumption

\* One component runs, in as many slots as it has variables; the other slots stay 0.
Init ==
  \/ /\ on = "limits" /\ Limits!Init
     /\ v8 = 0 /\ v9 = 0 /\ v10 = 0 /\ v11 = 0 /\ v12 = 0 /\ v13 = 0 /\ v14 = 0 /\ v15 = 0 /\
        v16 = 0 /\ v17 = 0 /\ v18 = 0 /\ v19 = 0 /\ v20 = 0 /\ v21 = 0
  \/ /\ on = "dkim" /\ Dkim!Init
     /\ v13 = 0 /\ v14 = 0 /\ v15 = 0 /\ v16 = 0 /\ v17 = 0 /\ v18 = 0 /\ v19 = 0 /\ v20 = 0 /\
        v21 = 0
  \/ /\ on = "retention" /\ Stores!Retain!Init
     /\ v10 = 0 /\ v11 = 0 /\ v12 = 0 /\ v13 = 0 /\ v14 = 0 /\ v15 = 0 /\ v16 = 0 /\ v17 = 0 /\
        v18 = 0 /\ v19 = 0 /\ v20 = 0 /\ v21 = 0
  \/ /\ on = "backups" /\ Stores!Backup!Init
     /\ v10 = 0 /\ v11 = 0 /\ v12 = 0 /\ v13 = 0 /\ v14 = 0 /\ v15 = 0 /\ v16 = 0 /\ v17 = 0 /\
        v18 = 0 /\ v19 = 0 /\ v20 = 0 /\ v21 = 0
  \/ /\ on = "zones" /\ Zones!Init
     /\ v10 = 0 /\ v11 = 0 /\ v12 = 0 /\ v13 = 0 /\ v14 = 0 /\ v15 = 0 /\ v16 = 0 /\ v17 = 0 /\
        v18 = 0 /\ v19 = 0 /\ v20 = 0 /\ v21 = 0
  \/ /\ on = "inbound" /\ Ingest!Init
     /\ v13 = 0 /\ v14 = 0 /\ v15 = 0 /\ v16 = 0 /\ v17 = 0 /\ v18 = 0 /\ v19 = 0 /\ v20 = 0 /\
        v21 = 0
  \/ /\ on = "storage" /\ Stores!Objects!Init
     /\ v13 = 0 /\ v14 = 0 /\ v15 = 0 /\ v16 = 0 /\ v17 = 0 /\ v18 = 0 /\ v19 = 0 /\ v20 = 0 /\
        v21 = 0
  \/ /\ on = "groupware" /\ Dav!Init
     /\ v10 = 0 /\ v11 = 0 /\ v12 = 0 /\ v13 = 0 /\ v14 = 0 /\ v15 = 0 /\ v16 = 0 /\ v17 = 0 /\
        v18 = 0 /\ v19 = 0 /\ v20 = 0 /\ v21 = 0
  \/ /\ on = "composer" /\ Stores!Compose!Init
     /\ v21 = 0
  \/ /\ on = "reader" /\ Read!Init
  \/ /\ on = "managers" /\ Manage!Init
     /\ v6 = 0 /\ v7 = 0 /\ v8 = 0 /\ v9 = 0 /\ v10 = 0 /\ v11 = 0 /\ v12 = 0 /\ v13 = 0 /\
        v14 = 0 /\ v15 = 0 /\ v16 = 0 /\ v17 = 0 /\ v18 = 0 /\ v19 = 0 /\ v20 = 0 /\ v21 = 0
  \/ /\ on = "connections" /\ Stores!Connect!Init
     /\ v8 = 0 /\ v9 = 0 /\ v10 = 0 /\ v11 = 0 /\ v12 = 0 /\ v13 = 0 /\ v14 = 0 /\ v15 = 0 /\
        v16 = 0 /\ v17 = 0 /\ v18 = 0 /\ v19 = 0 /\ v20 = 0 /\ v21 = 0
  \/ /\ on = "avatars" /\ Stores!Avatar!Init
     /\ v12 = 0 /\ v13 = 0 /\ v14 = 0 /\ v15 = 0 /\ v16 = 0 /\ v17 = 0 /\ v18 = 0 /\ v19 = 0 /\
        v20 = 0 /\ v21 = 0
  \/ /\ on = "offline" /\ Stores!Offline!Init
     /\ v12 = 0 /\ v13 = 0 /\ v14 = 0 /\ v15 = 0 /\ v16 = 0 /\ v17 = 0 /\ v18 = 0 /\ v19 = 0 /\
        v20 = 0 /\ v21 = 0
  \/ /\ on = "secrets" /\ Stores!Secrets!Init
     /\ v8 = 0 /\ v9 = 0 /\ v10 = 0 /\ v11 = 0 /\ v12 = 0 /\ v13 = 0 /\ v14 = 0 /\ v15 = 0 /\
        v16 = 0 /\ v17 = 0 /\ v18 = 0 /\ v19 = 0 /\ v20 = 0 /\ v21 = 0

Next ==
  \/ /\ on = "limits" /\ Limits!Next
     /\ UNCHANGED <<on, v8, v9, v10, v11, v12, v13, v14, v15, v16, v17, v18, v19, v20, v21>>
  \/ /\ on = "dkim" /\ Dkim!Next
     /\ UNCHANGED <<on, v13, v14, v15, v16, v17, v18, v19, v20, v21>>
  \/ /\ on = "retention" /\ Stores!Retain!Next
     /\ UNCHANGED <<on, v10, v11, v12, v13, v14, v15, v16, v17, v18, v19, v20, v21>>
  \/ /\ on = "backups" /\ Stores!Backup!Next
     /\ UNCHANGED <<on, v10, v11, v12, v13, v14, v15, v16, v17, v18, v19, v20, v21>>
  \/ /\ on = "zones" /\ Zones!Next
     /\ UNCHANGED <<on, v10, v11, v12, v13, v14, v15, v16, v17, v18, v19, v20, v21>>
  \/ /\ on = "inbound" /\ Ingest!Next
     /\ UNCHANGED <<on, v13, v14, v15, v16, v17, v18, v19, v20, v21>>
  \/ /\ on = "storage" /\ Stores!Objects!Next
     /\ UNCHANGED <<on, v13, v14, v15, v16, v17, v18, v19, v20, v21>>
  \/ /\ on = "groupware" /\ Dav!Next
     /\ UNCHANGED <<on, v10, v11, v12, v13, v14, v15, v16, v17, v18, v19, v20, v21>>
  \/ /\ on = "composer" /\ Stores!Compose!Next
     /\ UNCHANGED <<on, v21>>
  \/ /\ on = "reader" /\ Read!Next
     /\ UNCHANGED <<on>>
  \/ /\ on = "managers" /\ Manage!Next
     /\ UNCHANGED <<on, v6, v7, v8, v9, v10, v11, v12, v13, v14, v15, v16, v17, v18, v19, v20, v21>>
  \/ /\ on = "connections" /\ Stores!Connect!Next
     /\ UNCHANGED <<on, v8, v9, v10, v11, v12, v13, v14, v15, v16, v17, v18, v19, v20, v21>>
  \/ /\ on = "avatars" /\ Stores!Avatar!Next
     /\ UNCHANGED <<on, v12, v13, v14, v15, v16, v17, v18, v19, v20, v21>>
  \/ /\ on = "offline" /\ Stores!Offline!Next
     /\ UNCHANGED <<on, v12, v13, v14, v15, v16, v17, v18, v19, v20, v21>>
  \/ /\ on = "secrets" /\ Stores!Secrets!Next
     /\ UNCHANGED <<on, v8, v9, v10, v11, v12, v13, v14, v15, v16, v17, v18, v19, v20, v21>>

Spec == Init /\ [][Next]_vars
-----------------------------------------------------------------------------
\* ThrottlerGuard: no window lets more through than its limit, and a window that began
\* will end, unless Redis or the replica failed between INCR and EXPIRE.
LimitsKept == on = "limits" => Limits!LimitsSound

\* DkimService: at most one key signs and, unless it is retired by hand, one does; the
\* signer's map lists it once all is quiet, unless the last syncs of the disk overlapped or
\* one failed; and a rotation promotes only a verified key.
KeysKept ==
  /\ [](on = "dkim" => Dkim!TypeOK /\ Dkim!OneActive /\ Dkim!DiskFollowsTable /\ Dkim!RotationIsVerified)
  /\ [][on = "dkim" => Dkim!KeepsAnActive]_vars

\* RetentionService prunes no mail under a hold older than its read of the holds, and a
\* finished ExportService archive holds exactly the mailbox's undisturbed mail.
RetentionKept ==
  /\ [](on = "retention" => Stores!Retain!ExportSound)
  /\ [][on = "retention" => Stores!Retain!HoldsProtect]_vars

\* BackupEngine and BackupsService: until a restore rewrites the tables a completed run has its
\* object and a running one its runner, unless a crash abandoned it; every dump lists its own
\* run as running; and a schedule holds what was accepted.
BackupsKept == on = "backups" => Stores!Backup!BackupsSound

\* IngestController and NotificationsService: every delivery in the log becomes a
\* notification of its user naming its sender if that was read in time, and the mail
\* and report parsers end on whole parts.
InboundKept ==
  /\ [](on = "inbound" => Ingest!DeliveriesNotified /\ Ingest!ParsersSound)
  /\ [][on = "inbound" => Ingest!SenderIsNamed]_vars

\* LocalAdapter, the migration and the thumbnails: no reader sees half an object, whatever
\* crashes, and a completed migration has copied everything nobody wrote meanwhile.
StorageKept == on = "storage" => Stores!Objects!StorageSound /\ Stores!Objects!MigrationComplete

\* CalendarService, ContactsService and their DAV clients: what is stored reads back as it was
\* written, an undisturbed listing is whole, and an operation touches no item but its own.
GroupwareKept ==
  /\ [](on = "groupware" => Dav!GroupwareSound)
  /\ [][on = "groupware" => Dav!OnlyTheItem]_vars

\* The compose panel (page.tsx): unless a save or a discard failed, one draft per panel, equal
\* to the editor once nothing is pending, gone with the panel's message; and a message
\* reported sent, failed or cancelled is just that.
ComposerKept == on = "composer" => Stores!Compose!ComposerSound

\* The mailbox view (page.tsx) over the server's cached lists: once calm it shows the folder,
\* unless a named race left it behind (ViewSound), and it never stays on a folder its own
\* operation took away.
ReaderKept ==
  /\ [](on = "reader" => Read!ViewSound)
  /\ [][on = "reader" => Read!FolderSurvives]_vars

\* The webmail's item dialogs (page.tsx) and their services: a calm list shows the table, one
\* default signature, and typed text goes only when it is saved, cancelled or its dialog left.
ManagersKept ==
  /\ [](on = "managers" => Manage!ManagersSound)
  /\ [][on = "managers" => Manage!TypedSurvives]_vars

\* The console's LDAP and SSO dialogs with LdapService and SsoService: a secret changes
\* only when one is typed, a role map reads back as it was saved, a test shown as passed
\* vouches for the secret of the row it read.
ConnectionsKept == on = "connections" => Stores!Connect!ConnectionsSound

\* AvatarService and the picture dialog: the row names a stored object and no other is left,
\* unless two changes overlapped or one died; an announced picture is shown.
AvatarsKept == on = "avatars" => Stores!Avatar!AvatarSound

\* sw.js: the cache has the last answer of a request whose puts all landed in order; online,
\* what a page newly shows of a read is an answer of the network, or that copy after a fetch
\* or a cache open failed; and no older release's cache stays in use.
OfflineKept ==
  /\ [](on = "offline" => Stores!Offline!OfflineSound)
  /\ [][on = "offline" => Stores!Offline!FreshOnline]_vars

\* DnsService.publish through the Cloudflare provider: a publish that met no error and no other
\* writer leaves every row as expected, one TXT of its kind, and no publish changes a
\* record that was not ours when it listed the zone.
ZonesKept == [][on = "zones" => Zones!ZoneStep]_vars


\* The console's pages with ApiKeysService, WebhooksService, InvitesService and ScimService: a
\* secret in force was shown once unless its dialog was left or its answer lost, an ended one
\* stays ended, a calm list shows the rows unless a call failed or its answer joined an earlier
\* fetch, and typed settings go only when the row changed.
SecretsKept ==
  /\ [](on = "secrets" => Stores!Secrets!SecretsSound)
  /\ [][on = "secrets" => Stores!Secrets!SecretsStep]_vars
-----------------------------------------------------------------------------
\* The rate limits' invariant is inductive.  Slots: v1 counter, v2 expires, v3 bucket, v4 hit,
\* v5 served, v6 lost.
LEMMA LimitsStep ==
  ASSUME Limits!LimitsInv, [Limits!Next]_(Limits!vars)
  PROVE  Limits!LimitsInv'
  <1> USE LimitsAssumption DEF Limits!BoundsAssumption, Limits!LimitsInv, Limits!LimitTypes,
              Limits!OneOpener, Limits!SharedWithinCounter, Limits!LocalWithinBucket, Limits!WindowEnds
  <1>1. ASSUME NEW r \in Replicas, Limits!Incr(r) PROVE Limits!LimitsInv'
    <2>1. CASE v1 = 0
      \* The window opens: nothing was let through in it, and nobody else is opening it.
      <3>1. v1' = 1 /\ v5' = v5 /\ v4' = [v4 EXCEPT ![r] = "expire"]
        BY <1>1, <2>1 DEF Limits!Incr
      <3>2. ~v2' /\ v3' = v3
        BY <1>1, <2>1 DEF Limits!Incr
      <3> QED BY <2>1, <3>1, <3>2
    <2>2. CASE v1 # 0
      <3>1. v4' = v4 /\ v1' = v1 + 1 /\ v2' = v2 /\ v3' = v3 /\ v6' = v6
        BY <1>1, <2>2 DEF Limits!Incr
      <3>2. v5' = IF v1' > Limit THEN v5 ELSE [v5 EXCEPT !["redis"] = @ + 1]
        BY <1>1, <2>2 DEF Limits!Incr
      <3> QED BY <2>2, <3>1, <3>2
    <2> QED BY <2>1, <2>2
  <1>2. ASSUME NEW r \in Replicas, Limits!Expire(r) PROVE Limits!LimitsInv'
    <2>1. v1 > 0 /\ v4[r] = "expire"
      BY <1>2 DEF Limits!Expire
    <2>2. v2'
      BY <1>2, <2>1 DEF Limits!Expire, Limits!ExpiresSet
    <2>3. /\ v1' = v1 /\ v3' = v3
          /\ v5' = [v5 EXCEPT !["redis"] = @ + 1]
          /\ v4' = [v4 EXCEPT ![r] = "idle"]
      BY <1>2 DEF Limits!Expire
    <2> QED BY <2>1, <2>2, <2>3
  <1>3. ASSUME NEW r \in Replicas, Limits!RedisFails(r) PROVE Limits!LimitsInv'
    BY <1>3 DEF Limits!RedisFails, Limits!HitMemory
  <1>4. ASSUME NEW r \in Replicas, Limits!Crash(r) PROVE Limits!LimitsInv'
    <2>1. v6 \/ v4[r] = "expire" => v6'
      BY <1>4 DEF Limits!Crash
    <2>2. /\ v1' = v1 /\ v2' = v2
          /\ v4' = [v4 EXCEPT ![r] = "idle"]
          /\ v3' = [v3 EXCEPT ![r] = 0]
          /\ v5' = [v5 EXCEPT ![r] = 0]
      BY <1>4 DEF Limits!Crash
    <2> QED BY <2>1, <2>2
  <1>5. ASSUME NEW r \in Replicas, Limits!CloseBucket(r) PROVE Limits!LimitsInv'
    BY <1>5 DEF Limits!CloseBucket
  <1>6. CASE Limits!CloseWindow
    BY <1>6 DEF Limits!CloseWindow
  <1>8. ASSUME NEW r \in Replicas, Limits!TtlFails(r) PROVE Limits!LimitsInv'
    BY <1>8 DEF Limits!TtlFails, Limits!HitMemory
  <1>7. CASE UNCHANGED Limits!vars
    BY <1>7 DEF Limits!vars
  <1> QED
    BY <1>1, <1>2, <1>3, <1>4, <1>5, <1>6, <1>7, <1>8 DEF Limits!Next

LEMMA LimitsInit == Limits!Init => Limits!LimitsInv
  BY LimitsAssumption DEF Limits!BoundsAssumption, Limits!Init, Limits!LimitsInv, Limits!LimitTypes,
     Limits!OneOpener, Limits!SharedWithinCounter, Limits!LocalWithinBucket, Limits!WindowEnds

LEMMA LimitsSafe == Limits!LimitsInv => Limits!LimitsSound
  BY DEF Limits!LimitsInv, Limits!LimitTypes, Limits!SharedWithinCounter, Limits!LocalWithinBucket,
         Limits!WindowEnds, Limits!LimitsSound

\* For every number of replicas and every limit, not only those of the run: no window of the rate
\* limits lets more than its limit through.
THEOREM LimitsKeptAlways == Spec => []LimitsKept
  <1> DEFINE Inv == on = "limits" => Limits!LimitsInv
  <1>1. Init => Inv
    BY LimitsInit DEF Init
  <1>2. Inv /\ [Next]_vars => Inv'
    BY LimitsStep DEF Next, vars, Limits!vars
  <1>3. Inv => LimitsKept
    BY LimitsSafe DEF LimitsKept
  <1> QED BY <1>1, <1>2, <1>3, PTL DEF Spec

\* For any mailboxes, messages, holds, administrators and exports: the worker spares what a hold it
\* has read protects, and a finished archive is complete.
THEOREM RetentionKeptAlways == Spec => RetentionKept
  <1> DEFINE Inv == on = "retention" => Stores!RetentionInv
             Exported == on = "retention" => Stores!Retain!ExportSound
             Protected == on = "retention" => Stores!Retain!HoldsProtect
  <1> USE RetentionAssumption
  <1>1. Init => Inv
    BY Stores!RetentionInit DEF Init
  <1>2. Inv /\ [Next]_vars => Inv'
    BY Stores!RetentionStep DEF Next, vars, Stores!Retain!vars
  <1>3. Inv => Exported
    BY Stores!ExportsDone
  <1>4. Inv => Protected
    BY Stores!HoldsRespected
  <1>5. Spec => []Exported /\ [][Protected]_vars
    <2> HIDE DEF Inv, Exported, Protected
    <2> QED BY <1>1, <1>2, <1>3, <1>4, PTL DEF Spec
  <1> QED BY <1>5 DEF RetentionKept

\* For any keys, console requests and faults: at most one key signs, one does unless it is retired by
\* hand, the signer's files follow the table unless a sync of them overlapped another or failed,
\* and a rotation promotes only a verified key.
THEOREM KeysKeptAlways == Spec => KeysKept
  <1> DEFINE Inv == on = "dkim" => Dkim!KeysInv
             Safe == on = "dkim" => Dkim!TypeOK /\ Dkim!OneActive /\ Dkim!DiskFollowsTable /\ Dkim!RotationIsVerified
             Signing == on = "dkim" => Dkim!KeepsAnActive
  <1> USE DkimAssumption
  <1>1. Init => Inv
    BY Dkim!KeysInit DEF Init
  <1>2. Inv /\ [Next]_vars => Inv'
    BY Dkim!KeysStep DEF Next, vars, Dkim!vars
  <1>3. Inv => Safe
    BY Dkim!KeysSafe
  <1>4. Inv /\ [Next]_vars => Signing
    BY Dkim!ActiveKept DEF Next, vars, Dkim!vars
  <1>5. Spec => []Safe /\ [][Signing]_vars
    <2> HIDE DEF Inv, Safe, Signing
    <2> QED BY <1>1, <1>2, <1>3, <1>4, PTL DEF Spec
  <1> QED BY <1>5 DEF KeysKept

\* For any keys, objects, headers, sizes, writers and faults: no name holds half an object, a range
\* gets its bytes, a ready preview exists, and a migration that reports no failure is complete.
THEOREM StorageKeptAlways == Spec => []StorageKept
  <1> DEFINE Inv == on = "storage" => Stores!StorageInv
  <1> USE StorageAssumption
  <1>1. Init => Inv
    BY Stores!StorageInit DEF Init
  <1>2. Inv /\ [Next]_vars => Inv'
    BY Stores!StorageStep DEF Next, vars, Stores!Objects!vars
  <1>3. Inv => StorageKept
    BY Stores!StorageSafe DEF StorageKept
  <1> QED BY <1>1, <1>2, <1>3, PTL DEF Spec

\* For any runs, days, requests, crashes and restores: a completed run has its object, a running one
\* its runner, a dump lists itself, and the schedule holds what was accepted.
THEOREM BackupsKeptAlways == Spec => []BackupsKept
  <1> DEFINE Inv == on = "backups" => Stores!BackupsInv
  <1>1. Init => Inv
    BY Stores!BackupsInit DEF Init
  <1>2. Inv /\ [Next]_vars => Inv'
    BY Stores!BackupsStep DEF Next, vars, Stores!Backup!vars
  <1>3. Inv => BackupsKept
    BY Stores!BackupsSafe DEF BackupsKept
  <1> QED BY <1>1, <1>2, <1>3, PTL DEF Spec

\* For any pictures, formats, requests in flight, plans and faults: the row names a stored object unless
\* two changes overlapped or one died, and an announced picture is shown.
THEOREM AvatarsKeptAlways == Spec => []AvatarsKept
  <1> DEFINE Inv == on = "avatars" => Stores!AvatarsInv
  <1> USE AvatarsAssumption
  <1>1. Init => Inv
    BY Stores!AvatarsInit DEF Init
  <1>2. Inv /\ [Next]_vars => Inv'
    BY Stores!AvatarsStep DEF Next, vars, Stores!Avatar!vars
  <1>3. Inv => AvatarsKept
    BY Stores!AvatarsSafe DEF AvatarsKept
  <1> QED BY <1>1, <1>2, <1>3, PTL DEF Spec

\* For any number of reads, versions and faults, lost puts and failed cache opens among them: the cache
\* has the last answer of a request whose puts landed in order, and online what a page newly shows of a
\* read is an answer of the network, or that copy after a failure.
THEOREM OfflineKeptAlways == Spec => OfflineKept
  <1> DEFINE Inv == on = "offline" => Stores!OfflineInv
             Safe == on = "offline" => Stores!Offline!OfflineSound
             Fresh == on = "offline" => Stores!Offline!FreshOnline
  <1> USE OfflineAssumption
  <1>1. Init => Inv
    BY Stores!OfflineInit DEF Init
  <1>2. Inv /\ [Next]_vars => Inv'
    BY Stores!OfflineStep DEF Next, vars, Stores!Offline!vars
  <1>3. Inv => Safe
    BY Stores!OfflineSafe
  <1>4. Inv /\ [Next]_vars => Fresh
    BY Stores!OfflineFresh DEF Next, vars, Stores!Offline!vars
  <1>5. Spec => []Safe /\ [][Fresh]_vars
    <2> HIDE DEF Inv, Safe, Fresh
    <2> QED BY <1>1, <1>2, <1>3, <1>4, PTL DEF Spec
  <1> QED BY <1>5 DEF OfflineKept

\* For any plans, files and faults: unless a save or a discard failed, one draft per panel and none of a
\* message that left; a draft that is what the editor holds; a true report of what became of the message.
THEOREM ComposerKeptAlways == Spec => []ComposerKept
  <1> DEFINE Inv == on = "composer" => Stores!ComposerInv
  <1> USE ComposerAssumption
  <1>1. Init => Inv
    BY Stores!ComposerInit DEF Init
  <1>2. Inv /\ [Next]_vars => Inv'
    BY Stores!ComposerStep DEF Next, vars, Stores!Compose!vars
  <1>3. Inv => ComposerKept
    BY Stores!ComposerSafe DEF ComposerKept
  <1> QED BY <1>1, <1>2, <1>3, PTL DEF Spec

\* For any number of tabs, connections, edits and lost answers, and any DNs: the secret last typed is
\* the one stored unless two edits overlapped, one enabled provider serves a domain, every stored role
\* map survives the form's text, and a test that passed vouches for the secret of the row it read.
THEOREM ConnectionsKeptAlways == Spec => []ConnectionsKept
  <1> DEFINE Inv == on = "connections" => Stores!ConnectionsInv
  <1> USE ConnectionsAssumption
  <1>1. Init => Inv
    BY Stores!ConnectionsInit DEF Init
  <1>2. Inv /\ [Next]_vars => Inv'
    BY Stores!ConnectionsStep DEF Next, vars, Stores!Connect!vars
  <1>3. Inv => ConnectionsKept
    BY Stores!ConnectionsSafe DEF ConnectionsKept
  <1> QED BY <1>1, <1>2, <1>3, PTL DEF Spec

\* For any administrators, secrets, dialogs and lost answers: a secret in force was shown once unless
\* its dialog was left or its answer lost, an ended one stays ended, a calm list shows the rows unless
\* a call failed or its answer joined an earlier fetch, and typed settings go only when the row changed.
THEOREM SecretsKeptAlways == Spec => SecretsKept
  <1> DEFINE Inv == on = "secrets" => Stores!SecretsInv
             Safe == on = "secrets" => Stores!Secrets!SecretsSound
             Move == on = "secrets" => Stores!Secrets!SecretsStep
  <1>1. Init => Inv
    BY Stores!SecretsStart DEF Init
  <1>2. Inv /\ [Next]_vars => Inv'
    BY Stores!SecretsNext, Stores!SecretsRest DEF Next, vars, Stores!Secrets!vars
  <1>3. Inv => Safe
    BY Stores!SecretsSafe
  <1>4. Inv /\ [Next]_vars => [Move]_vars
    BY Stores!SecretsNext DEF Next, vars
  <1>5. Spec => []Safe /\ [][Move]_vars
    <2> HIDE DEF Inv, Safe, Move
    <2> QED BY <1>1, <1>2, <1>3, <1>4, PTL DEF Spec
  <1> QED BY <1>5 DEF SecretsKept
=============================================================================
