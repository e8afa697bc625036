# JustMail: a TLA+ verification project

JustMail is a multi-tenant mail platform. Its own logic lives in `apps/api` (a NestJS
server and a worker process over PostgreSQL, Redis and an object store); the mail
server, IMAP, SMTP submission and DNS providers are external services it drives. The
console (`apps/admin`), the webmail (`apps/webmail`) and the landing page are clients
of the API. Paths below are relative to the repository; `api/` abbreviates
`apps/api/src/`.

This project models the parts of the system where several processes, requests, browser
tabs or failures meet, checks them with TLC and proves the most important invariants
with TLAPS.

## How to run

    tlc -workers 2 -config ScheduledSends_safety.cfg MCScheduledSends
    tlapm ScheduledSendsProofs.tla

`PROJECT.json` lists for every run its module, configuration and properties, for every
definition the source lines it models, and for every property a faulty variant of one
definition that breaks it (definitions commented "Faulty variant" in the modules).

## The system and its parts

| Part | State | Operations | Meets | What makes it correct |
|---|---|---|---|---|
| Deferred sends (`api/webmail/webmail.service.ts`) | `scheduled_sends` | send, cancel, claim, dispatch, settle | worker replicas, SMTP, IMAP, Redis, webhooks | no two workers dispatch a row; every send settles; reports are true |
| Worker loop (`api/worker.ts`) | advisory locks, timers | runLocked | every background service | one tick at a time; the lock comes back |
| Webhooks (`api/webhooks`) | endpoints, deliveries | create, remove, emit, tick | every emitting service, HTTP receivers | truthful outcomes, bounded posts, nothing stuck |
| Attachment uploads (`api/attachments`, the webmail's upload loop) | `uploads`, `attachments`, objects | create, append, resync, finalise | the browser, the object store | the attachment is the file; rows have objects |
| Membership (`api/orgs`, `api/invites`) | `org_members`, `invites` | add, update, remove, invite, revoke, accept | LDAP, SCIM and SSO, which also write roles | members have accounts; owners made by owners; an owner remains |
| LDAP sync (`api/ldap`) | directories, identities, runs | syncNow, due syncs, apply, suspend | membership, accounts | accounts follow the directory |
| SCIM (`api/scim`) | users, groups, members, config | user and group requests, role recompute | membership, accounts | roles follow groups; deprovisioned means suspended |
| DKIM (`api/dkim`) | `dkim_keys`, TXT records, key files, `selectors.map` | generate, activate, retire, rotate | console, worker, DNS, mail server | one active key; the signer's view follows the table |
| DNS records (`api/dkim/dns*.ts`, `cloudflare.ts`, `desec.ts`) | `dns_records`, provider zone | sync, reconcile, drift check | DKIM, domains | only the managed records change |
| Webmail connections (`api/webmail/imap-*.ts`, `webmail.cache.ts`, `credential.store.ts`) | connection pool, IDLE watchers, cache, sealed credentials | run, evict, sweep, purge, watch, bust | browser sessions, IMAP | connections capped and owned; no view from before an answered change |
| Domains, mailboxes, aliases, groups, quotas (`api/domains`, `api/mailboxes`, `api/orgs`) | their tables, logo objects | create, verify, resize, remove | each other, DNS, the object store | limits hold; status follows verification; nothing hangs under a removed row |
| Accounts, sessions, second factors, SSO, API keys (`api/auth`, `api/sso`, `api/apikeys`) | users, sessions, challenges, flows, identities, keys | login, setup, passkeys, provisioning | everything | single use; no login skips what its account demands |
| OIDC keys (`api/sso/oidc.ts`) | cached key set | pick, refetch | identity provider | a rotated key is found |
| Rate limits (`api/common/throttler.guard.ts`) | counters in Redis and memory | hit | every route | no window lets more through; every window ends |
| Retention, holds, exports (`api/retention`) | policy, holds, export rows, archives | hold, prune, export | worker, IMAP, owners moving mail | held mail is not pruned; an export is complete |
| Backups (`api/backups`) | schedule, runs, dumps | due, run, prune, restore | worker, object store | completed runs have their dump |
| Sieve rules (`api/webmail/sieve*.ts`) | rules, the server's script, a lease | change, push, reconcile | ManageSieve, two tabs | the server runs the stored rules |
| Calendar and contacts (`api/calendar`, `api/contacts`) | DAV collections | list, create, update, delete | other clients of the mailbox | what is written reads back; no other item is touched |
| Realtime (`api/realtime`, `webmail/src/lib/realtime.ts`) | sockets, topics, watchers | ticket, watch, unwatch, re-arm | IDLE watcher, tabs | an open folder is fed; nobody hears another session |
| Ingest, notifications, DMARC, mail parser | events, notifications, pushes, reports | ingest, notify, push | log shipper, push services | one notification per delivery, with its sender; totals add up |
| Object storage, migration, thumbnails (`packages/storage`) | objects | put, range, list, migrate | writers beside a migration | no half object; a clean migration is complete |
| Webmail view, compose panel, item dialogs, pictures, offline cache (`apps/webmail`) | query cache, editor, drafts, forms, caches | type, save, send, undo, list, patch | the API, other tabs | the screen follows the server; typed text is kept; the user hears the outcome |
| Console dialogs (`apps/admin`) | forms, lists, secrets shown once | edit, create, rotate, revoke | the API, other administrators | a secret is kept until replaced, shown once, and the list follows the rows |

What is hard in this code is nearly always one of five things: a request is a series
of statements with an `await` between them and no lock (last-owner guard, upload
offset, quotas, role recomputation); a worker dies or a statement fails between an
external effect and its record (SMTP, webhook POST, DNS, object store); two sources
write the same rows (console, invitations, LDAP, SCIM; console and rotation); a lock or
claim expires under somebody who still works; and an answer reaches a browser that has
moved on since it asked. The `hazards` of `PROJECT.json`
give each at its line, with the properties aimed at it.

## Modules

State and actions keep the names of the code where TLA+ allows it. One action is one
statement or one external call with the code up to the next `await`; a SQL statement
is atomic. Where the interleaving *inside* a transaction matters (SCIM groups, DKIM
activation) the transaction is modelled statement by statement under READ COMMITTED:
writes are private until the commit and a statement waits for rows another
transaction has written.

* **ScheduledSends**: `scheduled_sends` and the workers. `Send`, `Cancel`,
  `DeleteMailbox` are the API; `TickStart`/`Unlock` are `runLocked`; `Claim` is the
  `UPDATE ... FOR UPDATE SKIP LOCKED`; `Resolve`, `Smtp`, `Append`, `Bust`, `Record`
  and `Fail` are the awaits of `dispatchScheduled` and its catch block. Time is two
  flags per row, `due` and `stale`. Faults are crashes, database errors and the loss
  of the session that holds the advisory lock.
* **SendLifecycle**: what the user is promised, with no workers, locks, claims or faults:
  at most one copy per try, a report of "sent" only after a copy, "failed" only after
  the budget, nothing after settlement. `ScheduledSends` implements it under the
  mapping `pending, sending -> open`.
* **WebhookDelivery**: endpoints, emit (its SELECT and its INSERT), deliveries in
  the order of the `LIMIT`ed query, the worker's tick, back-off as a flag. Some
  endpoints' secrets no longer open (`Unopenable`).
* **AttachmentUploads**: the browser's loop (send, wait, retry, resync, finalise)
  against the handlers of `appendChunk` and `finaliseUpload`, which outlive a dropped
  connection. A file is a sequence of chunks, so equality of contents is equality of
  sequences.
* **Roles**: role ranks, `requireRole`, and `resolveRole` ("highest matching role wins").
* **OrgMembers**: `addMember`, `updateMember`, `removeMember`, invitations and the
  LDAP upsert, each with its authorisation, guard and write as separate steps.
  `sanction` and `disturbed` are history variables: who first let a user have the
  owner role, and whether a role was written that `guardLastOwner` did not see.
* **GroupExpansion**: `expandGroups` of the LDAP mapping as the loop it is, compared
  with the transitive closure of the group graph.
* **LdapSync**: directories, snapshots, per-user transactions, suspension of the accounts of
  the names not seen, with and without `deactivate_missing`; a console sync beside the
  worker's. DNs and accounts are told apart, so an entry that moves is linked again by its
  e-mail. The `ldap_sync_runs` rows are a log nothing reads and are left out.
* **ScimProvisioning**: user requests as load and transaction; group requests write by
  write; `recomputeRoles` user by user. Who waits for whose row is a relation of its own
  (`Awaits`), and PostgreSQL aborts a recomputation that waits in a `Circle`.
  The history variables `unsettled` and `lost` mark the users whose last write raced.
* **DkimKeys**: the table, the TXT records, the key files and `selectors.map`;
  `generate`, `activate`, `retire`, both phases of the rotation, the partial unique
  index, the startup sync after a crash; a sync that fails or skips a key file leaves the
  disk `unsettled` until the next one.
* **WebmailSession**: one browser session in the API process. A request is its operation
  and the await it is at (`req`); a pool entry has its connection and its promise chain
  as a queue of requests (`Run`, `Begin`, `Connect`, `Leave`), `Evicted` is
  `evictOverCap`. `BustRead` and `BustDel` are the two awaits of `bustMailbox`, after a
  change or from the IDLE watcher's notification. `Lock`, `Logout` and the `Purge`
  actions end the session step by step. The pool is a set of entries with the order of their
  last use as a relation. A mailbox's content is a revision, a cached view
  the revision it was read at; folder list and message lists are one view. Requests in
  flight outlive a logout, as in the code. The history variables are `crossed` (views
  written late or out of the index), `told` (the last change that was answered) and
  `stray` (open connections nothing refers to).
* **OrgResources**: domains, mailboxes, aliases, groups, the storage quota and brand
  logos, two requests at a time, each cut at its awaits. `raced` is the history of checks
  that another request's write made stale.
* **Accounts**: bootstrap, logins of users and mailboxes, TOTP, passkeys, SSO flows,
  identities, sealed passwords and API keys. Secrets, challenges and sessions are fresh
  numbers, a passkey's row has an id of its own; a mailbox can be removed under its sessions and
  a purge can fail; `raced` as above, `minted` records which credential gave which session.
* **OidcKeys**: `resolveKey` and the JWKS cache against a provider that rotates.
* **RateLimits**: `INCR`, `EXPIRE`, `TTL` and the in-memory fallback of several replicas.
* **Retention**: policy, holds, `pruneOrg` mailbox by mailbox and folder by folder, and
  exports, while owners move mail. `young` marks holds placed after the run's read.
* **Backups**: schedule row and requests that name any of its columns, runs, dumps that contain
  the runs table, pruning (its SELECT apart from the schedule's UPDATE), restore.
* **DnsRecords**: `syncToProvider` record by record (`ChooseExisting`, duplicates) with
  either provider, the owner's edits (also of a record a publish has listed and will PUT by
  id), `checkRecords` and the recheck schedule.
* **SieveFilters**: rule changes of two tabs, the push, the lease and `reconcile`.
* **Groupware**: the DAV calls of calendar and contacts, other clients (whose items may have
  any href and may not parse), and the escaping
  and folding of a property line with their inverses, character by character.
* **Realtime**: tickets, sockets, topics and the arming posts, which may overtake each other.
  `Begin` and `Opened` are `startWatch` before and after it awaits the IMAP connection;
  `Logout` and `PurgeSession` are the two awaits of a logout, and the purge may fail.
* **Inbound**: log batches and notifications; DMARC totals; the MIME boundary stack.
* **Storage**: staged writes, migration beside writers, byte ranges, thumbnails.
* **Composer**: mounts of the compose panel as instances with refs of their own; autosave
  and its replacement, discards that fail, attachments, minimise, send, undo and the poll.
* **Reader**: the query cache of the open folder over the server's stored lists (`served`,
  filled by `SetMessageList` and dropped by the un-awaited busts of the watcher and of
  operations), deltas, realtime events, mutations, the folder rail, conversations, search
  criteria. An invalidation restarts a fetch, except a folder's first, which is joined.
* **ItemManagers**: signatures, templates, filters, contacts, events: list, editor, save
  of the whole item, two tabs, the two-statement default-signature transaction; a dialog
  left with its editor open, or with a save still to be answered.
* **Connections**: the console's directory and provider dialogs (blank secret means keep),
  `roleMapToText`/`roleMapFromText` (a map is a function, its text a sequence of lines), and the read-then-write of the two services. A test of a
  directory may fail whatever its secret.
* **IssuedSecrets**: the console pages that show a secret once (API keys, webhooks,
  invitations, the SCIM token). `Submit`, `Create` and `Answer` are the mutation's three
  moments; `Mounted` decides whether the answer meets the dialog that asked. `seen` and
  `blind` are the history of secrets that met a screen or none. The SCIM page's settings
  form is reset by a refetch that brings changed data (`FetchArrive`). An invalidation joins
  a first fetch still under way, as TanStack Query does while there is no data.
* **Avatars**: set and remove in their steps, lookups with the Redis cache, the dialog. Where
  an outside picture comes from is data: no claim is made about `isSafePublicUrl`, which
  looks at the address as written and not at what it resolves or redirects to.
* **OfflineCache**: the service worker's caches, un-awaited puts that may be lost, fetches and
  cache opens that fail, releases, web push.
* **MCRequests, MCSystem, MCProgress** bundle components. The components share no state on
  the code paths modelled, so instead of a run each, one behaviour is that of one component,
  chosen by `on` in `Init`, in slots `v1..v20` that stand for its variables; the state space
  is the sum of the components' and not their product. A component's invariants and action
  properties are conjoined under `on = "..."` as one named property. The other **MC...**
  modules give instances and symmetry. **...Proofs** modules hold a component's inductive
  invariant and theorems; MCSystem and MCRequests hold those about the bundled properties.

## Runs

Bounds are the constants of the configurations. Passing runs are exhaustive for them.

| Run | Instance | Shows |
|---|---|---|
| `sends_safety` | 2 sends, 2 workers, 2 attempts, 1 fault | exclusive claims; copies, attempts and reports add up; refinement of `SendLifecycle` |
| `sends_live` | 2 sends, 2 workers, batches of 1, 1 fault, lock may drop | every send settles, the lock comes back, at most one copy per attempt even when two workers dispatch one row |
| `members` | 2 users, 2 requests in flight, 1 invitation, 1 directory entry | accounts, provenance of owners, the guard within its limits |
| `requests` | 2 handlers; 2 domains, users or mailboxes; 3 or 4 requests, in the combinations `...Scenarios` lists; 1 lost connection and 1 fault for uploads; a pool of 1 | `ResourcesKept`, `AccountsKept`, `ProvisioningKept`, `UploadsKept`, `SessionsKept` (1.6 M states) |
| `system` | 15 components, each with 2 actors, 1 or 2 faults and the plans `...Plans` lists | `LimitsKept`, `KeysKept`, `RetentionKept`, `BackupsKept`, `ZonesKept`, `InboundKept`, `StorageKept`, `GroupwareKept`, `ComposerKept`, `ReaderKept`, `ManagersKept`, `ConnectionsKept`, `AvatarsKept`, `OfflineKept`, `SecretsKept` (3.1 M states) |
| `progress` | 9 components under their fairness | `DeliveriesKept`, `ExpansionKept`, `SyncKept`, `StatusConverges`, `FiltersKept`, `FeedKept`, `UploadsEnd`, `RotationsEnd`, `OutcomeIsTold` (0.15 M states) |
| `uploads_resume` | violation | a dropped connection and its retry both append |
| `members_race` | violation | two owners demote each other |
| `oidc_rotation` | violation | the refetch after a rotation is unreachable |
| `dns_desec` | violation | a publish through deSEC drops foreign values of the same name and type |
| `groupware_href` | violation | an update misses the card it found |
| `composer_minimise` | violation | minimising the panel loses what was typed |

Why the bounds suffice. Two of each actor is the least at which a check and a write
can be separated by someone else's write, and none of the races found needs a third.
One fault at any step covers "a crash or an error between any two awaits". Two
attempts reach both branches of the retry budget, two chunks make a skipped and a
repeated chunk different files, two names make an empty, a partial and a full match of
the role map, and three groups allow a cycle
outside the one direct group. The scenarios and
plans pair the operations that write the same rows or the same screen; operations of
different plans do not meet in the code (a domain's logo and a mailbox's quota, say).
A fold at 4 characters instead of 75 lets a text of six be folded; five boundary lines
and a depth of two reach both MIME limits; offsets up to 4 reach every case of a range.

`CHECK_DEADLOCK FALSE` is set for the bundles and the violations: their requests, faults and
edits are bounded, so every behaviour ends. `ProvisioningKept` contains
`SomeoneProceeds`: of SCIM's requests in flight one waits for nobody, or is in a circle of
recomputations, which PostgreSQL breaks.

### What the violations show

* **`ResumedIsFaithful`**: the offset is checked in one statement and advanced in
  another keyed on the id only. The handler of a dropped connection and the retry both
  pass; the upload is then complete without its second chunk.
* **`LastOwnerGuarded`**: the owners are counted in one statement and the role written
  in another.
* **`RotatedKeyIsFetched`**: `pick` (`api/sso/oidc.ts`) falls back to the first key when no
  `kid` matches, so `if (!key)` is never true and "refetch once before giving up" is dead code:
  after a rotation the login fails until the cached set expires.
* **`SyncSparesOthers`** with deSEC: `upsertRecord` replaces the record set of the name and
  type by ours alone, against "never clobbering unrelated" (`INSTALL.md`).
* **`UpdateReachesFound`**: `update` (`api/contacts/contacts.service.ts:97`) finds the card and
  writes to `<uid>.vcf` whatever its href.
* **`TypedInputKept`**: a minimised panel unmounts its editor; restored, it is seeded with
  the initial body.

### What the conditional properties leave open

Some properties hold only under a condition, which the modules state as history
variables. Each condition names a behaviour of the code that a maintainer should know:

* `Accounting`: an attempt is any dispatch that throws, also after the submission:
  `dispatchScheduled` awaits `cache.bustMailbox` outside any try block
  (`api/webmail/webmail.service.ts:1074`), so a Redis error queues an accepted message
  again, while `api/config.schema.ts:157` describes the budget as one for a send "that
  fails at the SMTP step".
* `DeliveriesKept`: one endpoint removed between emit's SELECT and its INSERT fails the
  foreign key and loses the event for all endpoints (`api/webhooks/webhooks.service.ts:177`).
  A delivery whose secret does not open throws outside the try block and ends every tick
  at its place (`:208`).
* `UploadsKept`: see `ResumedIsFaithful`; a failed read of the staged object is also
  taken for an empty one. Two concurrent finalises of equal content meet the UNIQUE
  constraint, and one browser sees an error (`api/attachments/attachments.service.ts:235`).
* `AlwaysAnOwner`: besides the race, invitations and the LDAP sync upsert roles without
  asking the guard. Acceptance reads the invitation outside its transaction, so two
  acceptances both succeed.
* `ProvisioningKept`: overlapping group requests recompute a role from memberships the
  other has not committed (`api/scim/scim.service.ts:740`), and saving a role map
  recomputes nobody. A patch whose row is deleted under it still sets the account active
  (`:432`). An account that was suspended before it was provisioned
  stays suspended although its row is created as active (`:347`), and the `deactivate`
  setting is read by `deleteUser` only (`:468`).
* `KeysKept`: overlapping rebuilds may leave an old `selectors.map`, and `retire`
  may unlink the file of a key activated again. A sync that fails after the committed UPDATE
  leaves map and files behind the table, and one that cannot open a key skips its file
  (`api/dkim/dkim.service.ts:154`, `:324`, `:403`): both last until the next sync or restart.
* `SyncKept`: `ldap_identities` has no UNIQUE user, so an entry that moves to another DN is
  linked again by its e-mail, activated and then suspended for the old DN by the same sync, at
  every sync (`api/ldap/ldap.service.ts:383`, `:431`).
* `RotationsEnd`: a failed publication leaves the row `published` with no record;
  nothing publishes it again until an administrator syncs DNS, and meanwhile no rotation
  starts. The promotion writes by id, so a key retired during its DNS lookup is revived
  (`api/dkim/dkim.service.ts:322`).
* `SessionsKept`: a listing read before a change and cached after its bust shows the old
  view until its TTL, and a view cached between a bust's SMEMBERS and DEL loses its index
  entry, so later busts miss it (`api/webmail/webmail.cache.ts:42`, `:91`). A cached view
  is also served without asking for the credential, so `lock` leaves it readable for the
  TTL. `stray` connections come from overlapping `watch` calls, a `mailboxOpen` that fails, and a purge under queued work (`api/webmail/imap-session.manager.ts:105`).
  The comment there says "called on logout/lock"; `lock` does not call it, and the
  connection stays until it is swept.
* `ResourcesKept`: of two overlapping verifications the one that saw no record can put
  `verifying` over `active` (`api/domains/domains.service.ts:274`); two creations together
  exceed a quota or limit; a domain removed beside a mailbox's creation takes it along;
  two `setMembers` leave the union. Besides: a verification reactivates a suspended domain,
  an administrator can set one active unverified, a removed domain leaves its logo object,
  and `max_quota_mb` is stored and never enforced.
* `AccountsKept`: `verifyTwoFa` enables by user id, so a setup restarted meanwhile is enabled
  unconfirmed (`api/auth/auth.service.ts:533`); a passkey's counter and a sealed password are
  written just as late, so a counter goes back when two logins with one passkey overlap. A
  suspended mailbox keeps its sessions. A sealed password outlives its session when the
  mailbox's removal takes the session along (`api/mailboxes/mailboxes.service.ts:217`), when
  the purge fails, or when it is stored after it.
* `LimitsKept`: a failure between `INCR` and `EXPIRE` leaves a counter without an end, and a
  hit whose `TTL` fails is counted in both windows and judged by the replica's own bucket.
* `RetentionKept`: holds are read once per organisation, so one placed during the run comes
  too late for it (`api/retention/retention.service.ts:103`). An export passes over a folder it
  cannot open without saying so, and a crash leaves it pending or running for ever. The first
  policy update of an organisation without a row only inserts the defaults.
* `BackupsKept`: a crash leaves a run `running`, which nothing prunes; a dump contains its
  own run as `running`, so a restore brings that back; `pg_restore` is not one transaction.
* `ZonesKept`: an overlapping publish or edit may leave duplicates, and a record edited
  between a publish's list and its PUT or DELETE by id is overwritten whatever it became
  (`api/dkim/dns.service.ts:83`).
* `FiltersKept`: a failed push leaves the row saved, and `reconcile` returns early when no
  rule is enabled, so a removal that failed to reach the server stays in force.
* `FeedKept`: the tabs of a session share one watcher; two on different folders take it from
  each other at every re-arm. A socket outlives the logout of its session. An arming that was
  let in before a logout's purge registers its watcher after it, and a purge whose credential
  step fails leaves one: both stay until `sweepIdle` (`api/webmail/imap-idle.watcher.ts:109`,
  `api/auth/auth.service.ts:438`). Of two armings that overlap, the connection replaced goes
  on idling.
* `InboundKept`: a repeated batch notifies again, and a delivery whose sender line comes in
  a later batch is notified without a name.
* `ComposerKept`: a lost autosave answer leaves a second draft; an autosave that overlaps
  send or discard leaves the draft of a message already gone, and so does a discard that
  fails, which panel and server swallow (`page.tsx:3887`, `api/webmail/webmail.service.ts:1147`).
  A refused cancel can be the last word, since the poll is skipped while it is under way.
* `ReaderKept`: `missed` marks the changes made where no watcher looked, the answers that
  overtook newer ones, the changes that met a folder's first fetch, which is joined and not
  restarted, and the lists the server answered from its store although a bust still under way,
  overtaken or refused should have dropped them (`api/webmail/webmail.service.ts:216`,
  `imap-idle.watcher.ts:88`); a later listing mends them.
* `ManagersKept`: the answer to an earlier save closes the editor open now; two saves of a
  default signature may meet the unique index, and one is refused. Closing the dialog or
  switching its tab drops what an open editor holds.
* `ConnectionsKept`: an edit with a blank secret writes back the one it read, over a rotation
  in between (`api/ldap/ldap.service.ts:166`). A failed test says nothing of the secret: the
  directory may be out of reach or its search refused; only a test that passed vouches for it.
* `SecretsKept`: a dialog closed, or a page left, while its creation is pending leaves a secret
  in force that nobody saw; a rotation of the SCIM token, or any use of it, resets unsaved
  settings at the next refetch; a refused revocation is not shown and the stale row stays. A
  key issued while the page's first list is still under way can be missing from it, for the
  invalidation joins that fetch (`apps/admin/.../api-keys/page.tsx:147`).
  Scopes typed for an API key are filtered to the known words, and none means full access
  (`apps/admin/.../api-keys/page.tsx:203`), so a misspelt scope widens the key.
* `AvatarsKept`: overlapping changes of a picture leave the row naming a removed object. It
  says nothing of where an outside picture came from: `isSafePublicUrl` judges the host as
  written, and redirects are followed unchecked (`api/webmail/avatar.service.ts:225`, `:273`).
* `OfflineKept`: puts are not awaited, so of two reads the older may be what is kept, and a put
  that is refused or dies with the worker leaves the copy before it (`crossed`). The catch of
  `networkFirst` also takes a failed `caches.open`, so a page may get the older copy though the
  network answered (`sw.js:58`). The cache survives a logout; a failed subscription post
  leaves the browser subscribed.
* Uploads: `expires_at` is written and nothing reads it, so abandoned uploads stay.

### Fairness

Only what the runtime gives: timers fire (`setInterval` of the worker, the browser's
reconnect, re-arm, poll and undo timers), time passes (a row becomes due, a claim ages, a
key ripens, a lease expires, six hours pass), and every await of a live process returns,
with success or an error (SQL, SMTP, IMAP, HTTP with timeouts). All of it is weak fairness,
with one exception. Users, administrators, faults and the console's buttons have none. In
`sends_live` and for webhooks the tick's fairness is on "some worker ticks", not on each:
a replica may lose the try-lock for ever. `SyncKept` assumes that the directory ends up
enabled; the bound on changes makes it quiet.

The exception is `FiltersKept`: `reconcile` runs only when the rules are listed, so healing
needs somebody who opens the Filters panel again and again at times when the mailbox is
unlocked and no change is under way; that is strong fairness of `ListLoad`. Without listings the
property is false: nothing else looks at the server's script.

## Proofs

TLAPS proves the following for every value of the constants (any number of sends,
workers, users, handlers, keys, mailboxes and faults), from assumptions the modules name:
finiteness of `Sends` and `Workers`, positive budgets, the "no one" values outside their
sets, role constants within `OrgRole`; `MailAssumption` (a message belongs to a mailbox),
`NamesAssumption` (the staging name is not a key, SCIM's "no name" is no name),
`HandlersAssumption` of DkimKeys (the worker is no console), of AttachmentUploads and of
ScimProvisioning (finitely many requests are in flight), `PoolAssumption` ("no mailbox" is none),
`RoleMapsAssumption` (a role map is finite and its names are written with the alphabet),
and the types of users, pictures, kinds, plans, versions, sizes and limits. TLC
evaluates each in a passing run. The invariants below were invariants of a TLC run before
they were proved; each proof has one step per action and group of conjuncts, with frame
lemmas for what an action leaves alone.

**ScheduledSendsProofs.**

* `TypeCorrect`: `TypeOK`, the inductive base of the rest.
* `NoDoubleDispatch`: `OneDispatcher`. This and the next three theorems assume
  `~LockMayDrop`: when the session that holds the advisory lock dies under a tick, two
  workers may dispatch one row (`sends_live` explores that). It is not inductive: the invariant adds that only the lock's holder is inside a tick, and that
  every claim of a live tick is a `sending` row (or gone) with the attempt count the
  tick remembers. The claim then gives a row to one tick only because nobody else holds
  any.
* `DispatchAccounting`: `Accounting`. The strengthening relates copies and attempts at
  each step of the dispatch: before `Smtp` strictly fewer copies than attempts, after
  it at least one copy, and the attempts beyond the budget are counted by the faults
  that stranded them.
* `SettledStaysSettled`: no late write revives a settled row and no copy leaves after
  settlement, as an action property from the same invariant.
* `ImplementsPromise`: the refinement. Initial states map to initial states, and every
  step maps to a step of `SendLifecycle` or a stutter.
* `CopiesArePaidFor`: `CopiesWithinAttempts`, without any assumption on the lock. The
  invariant counts: the copies of a send and the live ticks that still owe its submission
  are together at most its attempts (`Owing`, a cardinality, hence finite `Workers`), and no
  tick has a row twice.

**OrgMembersProofs.**

* `TypeCorrect`, `MemberAccounts`: with `ReqOK` and `InviteOK`, which say which fields of
  a request or invitation are set at which step.
* `OwnerProvenance`: `OwnersMadeByOwners`. The strengthening carries the sanction through
  requests past their authorisation and through invitations that promise the owner role;
  it is there that the stale reads of the code are harmless.
* `LastOwnerKept`: `AlwaysAnOwner`, with the fact that past its guard a request leaves an
  owner other than its target as long as nothing was `disturbed`.

**RequestsProofs.** Uploads, accounts and SCIM, as the instances `Upload` (`UploadsInv`),
`Account` (`AccountsInv`) and `Scim` (`ScimInv`).

* `UploadsTyped`: rows, requests and the browser's loop keep their types. The bound on the
  offset needs a count: every chunk request advances it once at most, so the offset and the
  requests still pending are within what the browser can have sent (`OffsetWithinSent`).
* `StoreStaysConsistent`: `StoreIsConsistent`. Not inductive: `BodyRecorded` says what each
  step of `finaliseUpload` knows of its body (promoted before the row, recorded before the
  upload is dropped).
* `UploadsFaithful`: while nothing is lost or fails, the attachment is the browser's file.
  `Faithful` follows one upload: the one handler that serves it is the one the browser waits
  for, and the staged object is the file up to the slice under way.
* `AccountsAreSound`: one bootstrap owner, second factors confirmed, challenges and flows used
  once, stored credentials with their session unless no purge followed its end. Each rests on what a request that passed its
  `DELETE ... RETURNING` carries: nobody else holds its ticket, and no session was minted from it.
* `AccountsMoveSafely`: the action property `AccountStep`. What a handler read before its await
  is still so when it writes, or the write that came between is in `raced`.
* `ProvisioningIsSound`: `TypeOK`, `DeprovisionedIsSuspended`, `RoleFollowsGroups` and
  `SomeoneProceeds`. A request that has its row finds the user or group there (`RowsThere`);
  transactions that have written know of each other and wrote different rows (`Apart`); whose
  role a commit may change is touched or unsettled (`WroteInv`); the roles a transaction
  computed alone are those of the groups it sees (`RolesInv`). That requests which all wait
  contain a circle is `SomeCircle`: a smallest set closed under waiting, which exists because
  the requests in flight are finitely many, consists of requests that wait for themselves. All
  of them are recomputations, for only a transaction that has written is waited for.

**DkimKeysProofs** (`KeysInv`).

* `KeysStaySafe`: `TypeOK`, `OneActive`, `DiskFollowsTable` and `RotationIsVerified`. That
  one key is active rests on `LocksInv`: rows have one holder, and a transaction past the
  unique index commits before another may pass. `MapDue` and `FilesDue` say who still owes
  the rebuild of `selectors.map` or the key's file; when nobody does and the last sync neither
  failed nor overlapped another, they match the table.
* `SigningGoesOn`: the action property `KeepsAnActive`, from the same invariant.

**StoresProofs.** Object storage, retention, backups, profile pictures, the offline cache, the
compose panel, the console's connections and its secrets shown once share no variable, so one
module holds an instance of each (`Objects`, `Retain`, `Backup`, `Avatar`, `Offline`, `Compose`,
`Connect`, `Secrets`).

* `StoreIsSound` (`StorageInv`): no half object under a client's name, exact ranges
  (`RangeIsExact` is the lemma about `parseRange`), previews marked ready after row and image.
* `MigrationsComplete`: while the source is quiet and nothing failed, a name is still to be
  visited, at hand, or at the target with its size (`MigInv`).
* `HoldsAlwaysProtect` (`RetentionInv`): the action property `HoldsProtect`. What was found for
  deletion is expired mail of a mailbox that was not held when the run read the holds
  (`FoundIsDue`), and a hold in force is known to the run or younger than its read (`HoldsSeen`).
* `ExportsComplete`: `ExportSound`. `Collected` splits the messages that nobody touched by
  whether their folder is still to be fetched: not yet collected, or collected once.
* `BackupsAreSound` (`BackupsInv`): the rows, the objects and the two engines. Until a restore
  rewrites the tables, a run an engine works on is its own and `running` (`RunnersInv`), the
  prune's list holds only runs that ended (`PruningInv`), and a completed row has its object, a
  running one its runner, or was abandoned (`RowsInv`). That a schedule holds what was accepted
  is `BoundToItself`: the handler numbers its placeholders by counting the named columns, and
  of the values PostgreSQL's types accept, each named column gets its own.
* `AvatarsAreSound` (`AvatarsInv`): while no change overlapped another, `ChangeStage` says where
  row and objects stand at each await of the one change under way; after a tab's change the
  lookups in flight find what it announced (`ShownInv`), unless something changed or failed since.
* `OfflineCacheIsSound` (`OfflineInv`): before it is active the worker has neither answered nor
  put anything, afterwards no older release's cache is left (`WorkerInv`); of a request that
  never overlapped itself and lost no put there is one read or one put at a time, the put is of
  the last answer, and with none under way the cache has that answer (`CopyInv`).
* `ComposerIsSound` (`ComposerInv`): the server gives a uid once (`UidInv`); the drafts of a
  panel are counted along its chain of saves, the replaced one being deleted by the save that
  replaces it (`ChainInv`), with one more for an append that was overtaken, while no save or
  discard was lost; after a send nobody is left to append (`CleanInv`), and what the mounted panel
  saved is what its editor holds unless a timer is set (`SavedInv`).
* `ConnectionsAreSound` (`ConnectionsInv`): `RoundTrip` proves for every finite map of trimmed
  names that `roleMapFromText` inverts `roleMapToText`: the last equals sign of a line is the
  one `roleMapToText` wrote, since no role contains one, and trimming gives back the name. The
  rest follows the three moments of a save (`SaveOK`): between the read of an update and its
  write the secret read is the row's, or another write is on record; a test that passed carries
  the version of the row whose secret it bound with (`TestOK`).
* `SecretsAreSound` and `SecretsMoveSafely` (`SecretsInv`): a dialog or page waits for one
  creation of its own and shows nothing meanwhile (`OneCreation`); a secret that was made is
  known, lost to every screen, or in exactly one answer under way (`AnswersInv`,
  `InForceInv`). A list is the table as it is, or its tab is `behind` (a call failed, or its
  answer joined the first fetch), marked stale, or has an answer of its own to come that will
  refetch it; settings typed and not `stirred` were typed
  over the configuration as it is (`UpToDate`).

**WebmailSessionProofs** (`SessionInv`).

* `SessionIsSound`: `TypeOK`, `PoolIsSound` and `ReadYourWrites`. `ChainInv` ties the promise
  chains to the requests: a chain repeats nobody, who is in one waits or works at that entry,
  and only its head works. `OpenInv` says where an open connection is held, `SocketInv` counts
  the watchers. The cap rests on `PoolWithinCap`: after a request leaves, the pool is within
  the cap or every other entry is in use. `ViewInv` is about the cache: a view nothing
  `crossed` is in the index, is no older than the last change answered, and no bust under way
  has missed it.

**MCSystem, MCRequests.** `LimitsKeptAlways`, `RetentionKeptAlways`, `KeysKeptAlways`,
`StorageKeptAlways`, `BackupsKeptAlways`, `AvatarsKeptAlways`, `OfflineKeptAlways`,
`ComposerKeptAlways`, `ConnectionsKeptAlways`, `SecretsKeptAlways`, `UploadsKeptAlways`,
`AccountsKeptAlways`, `ProvisioningKeptAlways` and `SessionsKeptAlways` state the bundled
properties themselves. Each lifts a component's lemmas through the instance: `on = "..." => C!Inv` is inductive for
the bundle, since a step keeps `on` and is a step of the component it names. The rate limits
are proved there altogether, from `LimitsInv` (end of RateLimits): at most one replica is
about to set the expiry, what a window let through is within its counter or its bucket,
and a window that began has an end, or somebody about to give it one, or was `lost`.

**Only model-checked.**

* All liveness (`MCProgress` and `sends_live`): there is no reasoning about ENABLED or
  fairness here.
* Induction over data: `ExpansionIsComplete` (a transitive closure), the escaping and folding
  of Groupware, the boundary stack and the totals of Inbound.
* Not attempted: `ResourcesKept`, `ReaderKept`, `ManagersKept` and `ZonesKept`, which are action or
  temporal properties of many operations, and the safety parts of webhooks, LDAP, Sieve and
  realtime.

## Not modelled, and why

`PROJECT.json` lists each component with its reason. In short: IMAP, SMTP, DNS, S3, ClamAV,
DAV, push services and identity providers are external and appear only as outcomes;
cryptography (sealing, passwords, WebAuthn and SAML signatures, key generation) is out of
scope; the text of Sieve scripts, MIME headers and encodings, DMARC's XML, images and
e-mail rendering are data; audit, settings, themes, dashboard, health, autoconfig and MTA-STS
are single statements or static documents; the queue and block-list snapshots store what an
external service said and nothing reads it back to decide. The console's other pages are
tables and forms whose submit is one request of a modelled service.

Inside the modelled parts these are left out: session expiry and password change
(Accounts); `setUTCMonth`'s overflow at the end of a month (Backups); dates, alarms and
several components per object (Groupware); the stored folder list (Reader: WebmailSession
  has one view for both); `--dry-run`, `--force`, prefixes, health and
`copyObject` (Storage); the schedule picker, the limit on toasts, and what a resumed draft
loses (Composer); push and notification clicks (OfflineCache); the team page's members
table and the list of a webhook's deliveries (IssuedSecrets); the log of runs (LdapSync); more than one save, or one
removal, in flight per console tab (Connections, IssuedSecrets); lock-key hashing in
`worker.ts`, pagination and batch limits of lists. The worker process has an IMAP pool of
its own, which dispatches use; its bust of the session's cache appears in ScheduledSends
only. `DkimKeys` sees a DNS publish as one step, and `Accounts`, `OrgMembers`, `LdapSync` and
`ScimProvisioning` each see the others' writes of `org_members` and `users` only as far as
they race with their own.

## Plan

Done: everything in the inventory that has a protocol of its own is modelled, and every
invariant of the passing runs is proved; of the action properties those of the send queue,
retention, DKIM keys, accounts, the offline cache and the secrets shown once are. What remains
is proof, in this order, each after its strengthening has been checked as an invariant:

1. `ZonesKept`, by the argument of Connections: what an answer meets.
2. `OutcomeIsTrue` and `PostsBounded` of WebhookDelivery, by that of ScheduledSendsProofs.
3. `ManagersKept` and `ResourcesKept`, with `raced` as the exception as in Accounts.
