------------------------------- MODULE DkimKeys -------------------------------
(***************************************************************************)
(* The DKIM keys of one domain (dkim.service.ts): the dkim_keys table, the *)
(* TXT records at the DNS provider, and the two things the mail server     *)
(* signs with, the key files and selectors.map on the shared volume.       *)
(*                                                                         *)
(* Console requests (generate, activate, retire) and the worker's rotation *)
(* run side by side, an await at a time.  activate and the promotion are   *)
(* transactions under READ COMMITTED, modelled statement by statement: a   *)
(* statement sees the rows committed when it starts, waits for rows        *)
(* another transaction wrote, and looks at them again.  A key stands for   *)
(* its selector: UNIQUE (domain_id, selector).                             *)
(***************************************************************************)
EXTENDS Naturals, FiniteSets

CONSTANTS
  Keys, First,   \* First is the key the domain may start with
  Consoles,      \* console requests that run at a time
  Worker,        \* the one tick the "dkim-rotate" advisory lock admits
  MaxRequests,   \* bound on console requests
  MaxFaults,     \* bound on crashes, failed publications, lookups and writes
  NoKey

\* Assumed of the constants, by the module that gives them values.
BoundsAssumption == MaxRequests \in Nat /\ MaxFaults \in Nat
HandlersAssumption == Worker \notin Consoles /\ NoKey \notin Keys /\ First \in Keys

VARIABLES
  status,     \* dkim_keys.status; "none" when there is no row
  ripe,       \* published keys older than DKIM_ROTATION_OVERLAP_HOURS
  txt,        \* TXT records at the provider: "none", "published", "resolves"
  files,      \* key files on the volume
  map,        \* the selectors selectors.map lists
  req,        \* requests and the tick in flight
  rotated,    \* history: keys the worker made active
  outage,     \* history: a console request retired an active key
  crossed,    \* history: keys whose file was removed after they left "retired", or not written by a sync
  unsettled,  \* history: the last rebuild of selectors.map overlapped another, or failed
  requests, faults

vars == <<status, ripe, txt, files, map, req, rotated, outage, crossed, unsettled, requests, faults>>
table == <<status, ripe, rotated, outage>>
disk == <<files, map, crossed, unsettled>>
bounds == <<requests, faults>>

Handlers == Consoles \cup {Worker}
Idle == [op |-> "idle", at |-> "idle", key |-> NoKey, seen |-> {}, retiring |-> {}, todo |-> {},
         got |-> {}, alone |-> TRUE]

Active == {k \in Keys : status[k] = "active"}

\* A domain without keys, or one whose first key is in use.
Init ==
  /\ \E K \in {{}, {First}} :
       /\ status = [k \in Keys |-> IF k \in K THEN "active" ELSE "none"]
       /\ txt = [k \in Keys |-> IF k \in K THEN "resolves" ELSE "none"]
       /\ files = K /\ map = K
  /\ ripe = {} /\ rotated = {} /\ crossed = {}
  /\ outage = FALSE /\ unsettled = FALSE
  /\ req = [h \in Handlers |-> Idle]
  /\ requests = 0 /\ faults = 0

Fault == faults < MaxFaults /\ faults' = faults + 1
At(h, op, step) == req[h].op = op /\ req[h].at = step
Goto(h, step) == req' = [req EXCEPT ![h].at = step]

\* h goes on with r; the rebuilds it meets between their read and their write are not alone.
Meeting(h, r) ==
  req' = [g \in Handlers |-> IF g = h THEN r ELSE [req[g] EXCEPT !.alone = req[g].alone /\ req[g].at # "mapWrite"]]

\* The worker's promotion goes on with the rows it has left, and ends after the last;
\* a console request has none.
ToPromote == [Idle EXCEPT !.op = "promote", !.at = "select"]
NextRow(rows) == IF rows = {} THEN Idle ELSE [Idle EXCEPT !.op = "promote", !.at = "next", !.seen = rows]
-----------------------------------------------------------------------------
(* The world: time passes, records propagate, administrators push DNS.     *)

Ripens(k) ==
  /\ status[k] = "published" /\ k \notin ripe
  /\ ripe' = ripe \cup {k}
  /\ UNCHANGED <<status, txt, disk, req, rotated, outage, bounds>>

Propagates(k) ==
  /\ txt[k] = "published"
  /\ txt' = [txt EXCEPT ![k] = "resolves"]
  /\ UNCHANGED <<table, disk, req, bounds>>

\* DnsService.syncToProvider: the record of every key that was ever generated.
SyncToProvider ==
  /\ requests < MaxRequests
  /\ requests' = requests + 1
  /\ txt' = [k \in Keys |-> IF status[k] # "none" /\ txt[k] = "none" THEN "published" ELSE txt[k]]
  /\ UNCHANGED <<table, disk, req, faults>>
-----------------------------------------------------------------------------
(* The files.                                                              *)

\* syncKeysToDisk: SELECT the keys that are not retired, then one file each.
SyncSelect(h) ==
  /\ req[h].at = "sync"
  /\ req' = [req EXCEPT ![h].at = "syncWrite",
                        ![h].todo = {k \in Keys : status[k] \in {"pending", "published", "active"}}]
  /\ UNCHANGED <<table, txt, disk, bounds>>

SyncWrite(h) ==
  /\ req[h].at = "syncWrite"
  /\ IF req[h].todo = {}
       THEN Goto(h, "mapRead") /\ UNCHANGED <<files, crossed>>
       ELSE \E k \in req[h].todo :
              /\ files' = files \cup {k}
              /\ crossed' = crossed \ {k}
              /\ req' = [req EXCEPT ![h].todo = @ \ {k}]
  /\ UNCHANGED <<table, txt, map, unsettled, bounds>>

\* A key that cannot be opened or written is skipped; the sync goes on.
SyncSkips(h) ==
  /\ req[h].at = "syncWrite"
  /\ Fault
  /\ \E k \in req[h].todo :
       /\ crossed' = crossed \cup ({k} \ files)
       /\ req' = [req EXCEPT ![h].todo = @ \ {k}]
  /\ UNCHANGED <<table, txt, files, map, unsettled, requests>>

\* writeKeyFile of generate and startDueRotations.
WriteKeyFile(h) ==
  /\ req[h].at = "file"
  /\ files' = files \cup {req[h].key}
  /\ crossed' = crossed \ {req[h].key}
  /\ Goto(h, "mapRead")
  /\ UNCHANGED <<table, txt, map, unsettled, bounds>>

\* rebuildSelectorMap: SELECT the active keys ...
MapRead(h) ==
  /\ req[h].at = "mapRead"
  /\ Meeting(h, [req[h] EXCEPT !.at = "mapWrite", !.got = Active,
                               !.alone = \A g \in Handlers \ {h} : req[g].at # "mapWrite"])
  /\ UNCHANGED <<table, txt, disk, bounds>>

\* ... and write the file.  The worker goes on with its next phase or row.
MapWrite(h) ==
  /\ req[h].at = "mapWrite"
  /\ map' = req[h].got
  /\ unsettled' = ~req[h].alone
  /\ req' = [req EXCEPT ![h] = IF @.op = "start" THEN ToPromote ELSE NextRow(@.seen)]
  /\ UNCHANGED <<table, txt, files, crossed, bounds>>

\* The database or the volume fails after the table was committed: the request is answered
\* with an error, the worker's tick ends or, in startDueRotations, goes on to the promotions;
\* nothing tries again before the next rebuild.  writeFile may have emptied the map.
DiskFails(h) ==
  /\ req[h].at \in {"sync", "file", "mapRead", "mapWrite"}
  /\ Fault
  /\ Meeting(h, IF req[h].op = "start" THEN ToPromote ELSE Idle)
  /\ map' \in IF req[h].at = "mapWrite" THEN {map, {}} ELSE {map}
  /\ unsettled' = TRUE
  /\ crossed' = IF req[h].at = "sync" THEN crossed \cup (Active \ files) ELSE crossed
  /\ UNCHANGED <<table, txt, files, requests>>
-----------------------------------------------------------------------------
(* Console requests.                                                       *)

Request(h, r) ==
  /\ req[h] = Idle
  /\ requests < MaxRequests
  /\ requests' = requests + 1
  /\ req' = [req EXCEPT ![h] = r]

\* generate: the INSERT, refused when the month's selector exists; then file and map.
Generate(h) ==
  /\ \E k \in Keys :
       /\ status[k] = "none"
       /\ Request(h, [Idle EXCEPT !.op = "generate", !.at = "file", !.key = k])
       /\ status' = [status EXCEPT ![k] = "pending"]
  /\ UNCHANGED <<ripe, rotated, outage, txt, disk, faults>>

Activate(h) ==
  /\ \E k \in Keys :
       /\ status[k] # "none"
       /\ Request(h, [Idle EXCEPT !.op = "activate", !.at = "lock", !.key = k])
  /\ UNCHANGED <<table, txt, disk, faults>>

Retire(h) ==
  /\ \E k \in Keys :
       /\ status[k] # "none"
       /\ Request(h, [Idle EXCEPT !.op = "retire", !.at = "update", !.key = k])
  /\ UNCHANGED <<table, txt, disk, faults>>

\* Rows an open transaction has locked or written.
InTx == {"scan", "demote", "set", "commit"}
Holds(h) == IF req[h].at \in InTx THEN {req[h].key} \cup req[h].retiring ELSE {}

Free(h, k) == \A g \in Handlers \ {h} : k \notin Holds(g)

RetireUpdate(h) ==
  /\ At(h, "retire", "update")
  /\ Free(h, req[h].key)
  /\ outage' = (outage \/ status[req[h].key] = "active")
  /\ status' = [status EXCEPT ![req[h].key] = "retired"]
  /\ Goto(h, "unlink")
  /\ UNCHANGED <<ripe, rotated, txt, disk, bounds>>

\* deleteKeyFile: whatever became of the key since.
Unlink(h) ==
  /\ At(h, "retire", "unlink")
  /\ files' = files \ {req[h].key}
  /\ crossed' = IF status[req[h].key] = "retired" THEN crossed ELSE crossed \cup {req[h].key}
  /\ Goto(h, "mapRead")
  /\ UNCHANGED <<table, txt, map, unsettled, bounds>>

\* A failed unlink is swallowed.
UnlinkFails(h) ==
  /\ At(h, "retire", "unlink")
  /\ Fault
  /\ Goto(h, "mapRead")
  /\ UNCHANGED <<table, txt, disk, requests>>
-----------------------------------------------------------------------------
(* The transaction of activate and of the promotion.                       *)

\* SELECT ... FOR UPDATE.
TxLock(h) ==
  /\ req[h].at = "lock"
  /\ Free(h, req[h].key)
  /\ Goto(h, "scan")
  /\ UNCHANGED <<table, txt, disk, bounds>>

\* UPDATE ... SET status = 'retired' WHERE id <> $2 AND status = 'active': the rows its
\* snapshot finds ...
TxScan(h) ==
  /\ req[h].at = "scan"
  /\ req' = [req EXCEPT ![h].at = "demote", ![h].todo = Active \ {req[h].key}]
  /\ UNCHANGED <<table, txt, disk, bounds>>

\* ... each, once it is free, if it still qualifies.
TxDemote(h) ==
  /\ req[h].at = "demote"
  /\ \A k \in req[h].todo : Free(h, k)
  /\ req' = [req EXCEPT ![h].at = "set", ![h].todo = {}, ![h].retiring = req[h].todo \cap Active]
  /\ UNCHANGED <<table, txt, disk, bounds>>

\* dkim_one_active_per_domain admits the key of h.
IndexAdmits(h) == Active \subseteq {req[h].key} \cup req[h].retiring

\* Faulty variant: the outgoing key is retired in a statement of its own.
TxSetLate(h) ==
  /\ req[h].at = "set"
  /\ status' = [k \in Keys |-> IF k \in req[h].retiring THEN "retired" ELSE status[k]]
  /\ Goto(h, "commit")
  /\ UNCHANGED <<ripe, rotated, outage, txt, disk, bounds>>

\* UPDATE ... SET status = 'active': the index makes it wait for another transaction
\* that is about to add or remove the active entry, and fail beside a committed one.
TxSet(h) ==
  /\ req[h].at = "set"
  /\ \A g \in Handlers \ {h} : req[g].at # "commit" /\ req[g].retiring = {}
  /\ IF IndexAdmits(h) THEN Goto(h, "commit")
     ELSE req' = [req EXCEPT ![h] = NextRow(@.seen)]
  /\ UNCHANGED <<table, txt, disk, bounds>>

\* COMMIT, then syncKeysToDisk.
TxCommit(h) ==
  /\ req[h].at = "commit"
  /\ status' = [k \in Keys |-> IF k = req[h].key THEN "active" ELSE IF k \in req[h].retiring THEN "retired" ELSE status[k]]
  /\ rotated' = IF h = Worker THEN rotated \cup {req[h].key} ELSE rotated \ {req[h].key}
  /\ req' = [req EXCEPT ![h].at = "sync", ![h].retiring = {}]
  /\ UNCHANGED <<ripe, outage, txt, disk, bounds>>
-----------------------------------------------------------------------------
(* The worker's tick: rotateDue.                                           *)

\* startDueRotations: the SELECT finds the domain when its active key is old, which
\* it may be, and no successor exists; freshSelector picks a selector that is free.
StartSelect ==
  /\ req[Worker] = Idle
  /\ \E k \in Keys :
       /\ status[k] = "none"
       /\ Active # {} /\ \A s \in Keys : status[s] \notin {"pending", "published"}
       /\ req' = [req EXCEPT ![Worker] = [Idle EXCEPT !.op = "start", !.at = "insert", !.key = k]]
  /\ UNCHANGED <<table, txt, disk, bounds>>

\* The INSERT, refused when a console request took the selector meanwhile.
StartInsert ==
  /\ At(Worker, "start", "insert")
  /\ IF status[req[Worker].key] = "none"
       THEN status' = [status EXCEPT ![req[Worker].key] = "published"] /\ Goto(Worker, "publish")
       ELSE req' = [req EXCEPT ![Worker] = ToPromote] /\ UNCHANGED status
  /\ UNCHANGED <<ripe, rotated, outage, txt, disk, bounds>>

\* publishTxt.
StartPublish ==
  /\ At(Worker, "start", "publish")
  /\ txt' = [txt EXCEPT ![req[Worker].key] = IF @ = "none" THEN "published" ELSE @]
  /\ Goto(Worker, "file")
  /\ UNCHANGED <<table, disk, bounds>>

\* publishTxt throws: the key stays 'published' without a record or a file.
StartPublishFails ==
  /\ At(Worker, "start", "publish")
  /\ Fault
  /\ req' = [req EXCEPT ![Worker] = ToPromote]
  /\ UNCHANGED <<table, txt, disk, requests>>

\* Faulty variant: the SELECT asks for 'pending' keys.
PromoteSelectPending ==
  LET rows == {k \in ripe : status[k] = "pending"} IN
  /\ \/ At(Worker, "promote", "select")
     \/ req[Worker] = Idle /\ rows # {}
  /\ req' = [req EXCEPT ![Worker] = NextRow(rows)]
  /\ UNCHANGED <<table, txt, disk, bounds>>

\* promoteReadyRotations, after startDueRotations or when that found nothing due: the
\* published keys that are old enough.
PromoteSelect ==
  LET rows == {k \in ripe : status[k] = "published"} IN
  /\ \/ At(Worker, "promote", "select")
     \/ req[Worker] = Idle /\ rows # {}
  /\ req' = [req EXCEPT ![Worker] = NextRow(rows)]
  /\ UNCHANGED <<table, txt, disk, bounds>>

\* The next row is promoted if txtResolves, and left for the next tick otherwise.
PromoteNext ==
  /\ At(Worker, "promote", "next")
  /\ \E k \in req[Worker].seen :
       req' = [req EXCEPT ![Worker] = IF txt[k] # "resolves" THEN NextRow(@.seen \ {k})
                                      ELSE [@ EXCEPT !.at = "lock", !.key = k,
                                                     !.seen = req[Worker].seen \ {k}]]
  /\ UNCHANGED <<table, txt, disk, bounds>>

\* A lookup fails although the record is there.
PromoteDeferred ==
  /\ At(Worker, "promote", "next")
  /\ Fault
  /\ \E k \in req[Worker].seen : req' = [req EXCEPT ![Worker] = NextRow(@.seen \ {k})]
  /\ UNCHANGED <<table, txt, disk, requests>>

\* The process dies; an open transaction is rolled back.  Its restart runs syncKeysToDisk.
Crash(h) ==
  /\ req[h] # Idle
  /\ Fault
  /\ req' = [req EXCEPT ![h] = [Idle EXCEPT !.op = "startup", !.at = "sync"]]
  /\ UNCHANGED <<table, txt, disk, requests>>
-----------------------------------------------------------------------------
Step(h) ==
  \/ SyncSelect(h) \/ SyncWrite(h) \/ WriteKeyFile(h) \/ MapRead(h) \/ MapWrite(h)
  \/ RetireUpdate(h) \/ Unlink(h)
  \/ TxLock(h) \/ TxScan(h) \/ TxDemote(h) \/ TxSet(h) \/ TxCommit(h)

Tick ==
  \/ StartSelect \/ StartInsert \/ StartPublish
  \/ PromoteSelect \/ PromoteNext

Next ==
  \/ \E h \in Handlers : Step(h) \/ Crash(h) \/ SyncSkips(h) \/ DiskFails(h) \/ UnlinkFails(h)
  \/ \E h \in Consoles : Generate(h) \/ Activate(h) \/ Retire(h)
  \/ \E k \in Keys : Ripens(k) \/ Propagates(k)
  \/ SyncToProvider \/ Tick \/ StartPublishFails \/ PromoteDeferred

Spec == Init /\ [][Next]_vars

\* Requests in flight go on, the timer fires, time passes and records propagate.
Fairness ==
  /\ \A h \in Handlers : WF_vars(Step(h))
  /\ WF_vars(Tick)
  /\ \A k \in Keys : WF_vars(Ripens(k)) /\ WF_vars(Propagates(k))

FairSpec == Spec /\ Fairness
-----------------------------------------------------------------------------
Quiet == \A h \in Handlers : req[h].at \in {"idle", "select", "next"}

\* Types; rows are held by one transaction at a time.
TypeOK ==
  /\ status \in [Keys -> {"none", "pending", "published", "active", "retired"}]
  /\ txt \in [Keys -> {"none", "published", "resolves"}]
  /\ files \cup map \cup ripe \subseteq {k \in Keys : status[k] # "none"}
  /\ \A g, h \in Handlers : g # h => Holds(g) \cap Holds(h) = {}

\* "exactly one active DKIM key per domain": never two, however activations,
\* promotions and retirements interleave.
OneActive == Cardinality(Active) <= 1

\* "... or zero - a signing outage": a domain with an active key keeps one, unless an
\* administrator retires the active key itself.
KeepsAnActive == Active # {} /\ ~outage' => Active' # {}

\* selectors.map lists exactly the active key once everything is quiet, unless the last two
\* rebuilds overlapped, when the older one may have been written last, or the last failed,
\* when the map stays behind the committed table until the next rebuild.
MapIsCurrent == Quiet /\ ~unsettled => map = Active

\* What the map lists can be signed with: the file is there, unless a retirement removed it
\* after the key was activated again, or the last sync skipped the key or failed.
MapHasFiles == Quiet /\ ~unsettled => map \ crossed \subseteq files

\* What the mail server signs with follows the table, after overlapping activations,
\* retirements and rotations, with the exceptions above.
DiskFollowsTable == MapIsCurrent /\ MapHasFiles

\* "a fresh selector must be publishable and verifiable before it can sign": a key
\* the worker rotated to has a record that resolves.
RotationIsVerified == \A k \in rotated : status[k] = "active" => txt[k] = "resolves"

\* Nobody waits for ever: every console request ends, whatever rows it meets locked.
InFlight(h) == req[h] # Idle

\* A rotation that got its record out is finished: the key does not stay 'published'.
RecordOut(k) == status[k] = "published" /\ txt[k] # "none"
Published(k) == status[k] = "published"
===============================================================================
