----------------------------- MODULE DnsRecords -----------------------------
(***************************************************************************)
(* The DNS Center of one domain (src/apps/api/src/dkim): the expected rows *)
(* of dns_records, the zone at the provider, the reconciler that publishes *)
(* the rows (syncToProvider) and the checks that resolve them and record   *)
(* what they saw (checkRecords, from a request or the "dns-recheck" loop). *)
(* Several administrators may publish at once, and the owner edits the     *)
(* zone by hand meanwhile.                                                 *)
(*                                                                         *)
(* A record's content is its kind (what the reconciler identifies it by: a *)
(* TXT scheme token, an MX host, a CAA tuple) and a version, "want" for    *)
(* the expected text and "old" for any other.  `disturbed' is history.     *)
(***************************************************************************)
EXTENDS Naturals, FiniteSets

CONSTANTS Provider,     \* "cloudflare" or "desec"
          Syncers,      \* publish requests
          Ids,          \* record ids of the zone
          MaxEdits,     \* bound: edits by the zone's owner
          MaxFaults,    \* bound: provider and resolver errors
          Settings      \* what is explored together: the domain's rows, the
                        \* number of publish requests, whether checks run

\* The seeded rows the cases need: an SPF and an MX at the apex, a CNAME, a CAA.
Row  == [spf        |-> [name |-> "apex", type |-> "TXT",   kind |-> "v=spf1"],
         mx         |-> [name |-> "apex", type |-> "MX",    kind |-> "our host"],
         autoconfig |-> [name |-> "auto", type |-> "CNAME", kind |-> "any"],
         caa        |-> [name |-> "apex", type |-> "CAA",   kind |-> "issue ours"]]

\* What somebody else keeps at the same names.
Foreign == {[name |-> "apex", type |-> "TXT", kind |-> "none"],     \* a site verification
            [name |-> "apex", type |-> "MX",  kind |-> "other host"],
            [name |-> "apex", type |-> "CAA", kind |-> "issue other"]}

Absent == [name |-> "-", type |-> "-", kind |-> "-", ver |-> "-"]
Deleted == [Absent EXCEPT !.name = "deleted"]      \* ids are never reused
Versioned(r, v) == [name |-> r.name, type |-> r.type, kind |-> r.kind, ver |-> v]
Wanted(r) == Versioned(Row[r], "want")
NoId == 0

VARIABLES zone,         \* Ids -> record: the zone at the provider
          status,       \* dns_records.check_status
          stale,        \* rows last checked six hours ago or never
          sync,         \* Syncers -> the request's progress
          look,         \* the check under way
          setting, edits, faults, disturbed

vars == <<setting, zone, status, stale, sync, look, edits, faults, disturbed>>

Rows == setting.rows

NotAsked == [pc |-> "none", left |-> {}, row |-> "spf", seen |-> {}, dups |-> {}, ok |-> TRUE]
NoLook   == [pc |-> "idle", left |-> {}, row |-> "spf", found |-> "unknown"]

Init == /\ setting \in Settings
        /\ zone \in {[i \in Ids |-> IF i = 1 THEN Versioned(Row["spf"], "old")
                                    ELSE IF i = 2 THEN f ELSE Absent] :
                       f \in {Versioned(x, "want") : x \in Foreign}
                              \cup {Versioned(Row["spf"], "old"), Versioned(Row["autoconfig"], "old")}}
        /\ status = [r \in Rows |-> "unknown"]
        /\ stale = Rows
        /\ sync = [h \in Syncers |-> NotAsked]
        /\ look = NoLook
        /\ edits = 0 /\ faults = 0
        /\ disturbed = [h \in Syncers |-> FALSE]

Disturb(h) == [g \in Syncers |-> disturbed[g] \/ (g # h /\ sync[g].pc \notin {"none", "done"})]

-----------------------------------------------------------------------------
(* Matching, dns-reconcile.ts.  Entries are <<id, record>>.                 *)

Existing(r) == {e \in {<<i, zone[i]>> : i \in Ids} :
                  e[2].name = Row[r].name /\ e[2].type = Row[r].type}

TxtKind(c) == IF c.kind = "none" THEN "unknown" ELSE c.kind

\* Faulty variant: by position, not identity
ChooseFirst(r, seen) == IF {e \in seen : e[2] = Wanted(r)} # {}
                        THEN {e \in seen : e[2] = Wanted(r)} ELSE seen

\* The entries chooseExisting may pick; none means a fresh record.
ChooseExisting(r, seen) ==
  LET exact == {e \in seen : e[2] = Wanted(r)}
  IN IF exact # {} THEN exact
     ELSE CASE Row[r].type = "TXT"   -> {e \in seen : TxtKind(e[2]) = Row[r].kind}
            [] Row[r].type = "MX"    -> {e \in seen : e[2].kind = Row[r].kind}
            [] Row[r].type = "CAA"   -> {}
            [] Row[r].type = "CNAME" -> seen

StaleDuplicates(r, seen, id) ==
  {e \in seen : Row[r].type = "TXT" /\ TxtKind(e[2]) = Row[r].kind /\ e[1] # id}

-----------------------------------------------------------------------------
(* One publish request.                                                     *)

SyncStart(h) == /\ sync[h].pc = "none"
                /\ Cardinality({g \in Syncers : sync[g].pc # "none"}) < setting.syncs
                /\ sync' = [sync EXCEPT ![h] = [NotAsked EXCEPT !.pc = "rows", !.left = Rows]]
                /\ disturbed' = [disturbed EXCEPT ![h] =
                                   \E g \in Syncers : sync[g].pc \notin {"none", "done"}]
                /\ UNCHANGED <<zone, status, stale, look, edits, faults, setting>>

SyncList(h, r) == /\ sync[h].pc = "rows" /\ r \in sync[h].left
                  /\ sync' = [sync EXCEPT ![h] = [@ EXCEPT !.pc = "upsert", !.row = r,
                                !.left = @ \ {r}, !.seen = Existing(r)]]
                  /\ UNCHANGED <<zone, status, stale, look, edits, faults, disturbed, setting>>

\* deSEC has no record ids: a write replaces the whole set of that name and type.
RRsetReplaced(c, id) ==
  [i \in Ids |-> IF i = id THEN c
                 ELSE IF zone[i].name = c.name /\ zone[i].type = c.type THEN Deleted
                 ELSE zone[i]]

\* The zone after the provider wrote record c over entry id (NoId: a new one).
Written(c, id) == IF Provider = "desec" THEN RRsetReplaced(c, id) ELSE [zone EXCEPT ![id] = c]

\* Cloudflare refuses a PUT to a deleted id and a POST of an identical record.
Refused(c, id, new) ==
  Provider = "cloudflare" /\ IF new THEN \E i \in Ids : zone[i] = c ELSE zone[id] = Deleted

\* Ids are opaque: a new record takes the first free one.
Free == {i \in Ids : zone[i] = Absent}
FreeIds == {i \in Free : \A j \in Free : i <= j}

SyncUpsert(h) ==
  /\ sync[h].pc = "upsert"
  /\ LET r    == sync[h].row
         pick == ChooseExisting(r, sync[h].seen)
         new  == pick = {}
     IN \E id \in (IF new THEN FreeIds ELSE {e[1] : e \in pick}) :
          /\ ~Refused(Wanted(r), id, new)
          /\ zone' = Written(Wanted(r), id)
          /\ sync' = [sync EXCEPT ![h] = [@ EXCEPT !.pc = "dups",
                        !.dups = IF Provider = "desec" THEN {}     \* one id per set
                                 ELSE {e[1] : e \in StaleDuplicates(r, sync[h].seen, id)}]]
  /\ disturbed' = Disturb(h)
  /\ UNCHANGED <<status, stale, look, edits, faults, setting>>

SyncDelete(h) == \E id \in sync[h].dups :
  /\ sync[h].pc = "dups"
  /\ zone[id] # Deleted
  /\ zone' = [zone EXCEPT ![id] = Deleted]
  /\ sync' = [sync EXCEPT ![h].dups = @ \ {id}]
  /\ disturbed' = Disturb(h)
  /\ UNCHANGED <<status, stale, look, edits, faults, setting>>

SyncMark(h) == /\ sync[h].pc = "dups" /\ sync[h].dups = {}
               /\ status' = [status EXCEPT ![sync[h].row] = "propagating"]
               /\ sync' = [sync EXCEPT ![h].pc = "rows"]
               /\ UNCHANGED <<zone, stale, look, edits, faults, disturbed, setting>>

\* catch: the row's action is "error" and the loop goes on.
RowFailed(h) == sync' = [sync EXCEPT ![h] = [@ EXCEPT !.pc = "rows", !.ok = FALSE, !.dups = {}]]

SyncRefused(h) ==
  /\ \/ /\ sync[h].pc = "upsert"
        /\ LET pick == ChooseExisting(sync[h].row, sync[h].seen)
           IN \E id \in (IF pick = {} THEN {NoId} ELSE {e[1] : e \in pick}) :
                Refused(Wanted(sync[h].row), id, pick = {})
     \/ sync[h].pc = "dups" /\ \E id \in sync[h].dups : zone[id] = Deleted
  /\ RowFailed(h)
  /\ UNCHANGED <<zone, status, stale, look, edits, faults, disturbed, setting>>

SyncFault(h) == /\ sync[h].pc \in {"upsert", "dups"} /\ faults < MaxFaults
                /\ faults' = faults + 1
                /\ RowFailed(h)
                /\ UNCHANGED <<zone, status, stale, look, edits, disturbed, setting>>

SyncEnd(h) == /\ sync[h].pc = "rows" /\ sync[h].left = {}
              /\ sync' = [sync EXCEPT ![h].pc = "done"]
              /\ UNCHANGED <<zone, status, stale, look, edits, faults, disturbed, setting>>

-----------------------------------------------------------------------------
(* Checks.                                                                  *)

Observed(r) == CASE Existing(r) = {} -> "missing"
                 [] \E e \in Existing(r) : e[2] = Wanted(r) -> "ok"
                 [] OTHER -> "drifted"

\* Faulty variant: settled rows are never looked at again
DueUnsettled == \E r \in Rows : status[r] \in {"propagating", "missing", "error", "unknown"}

Due == \E r \in Rows : status[r] \in {"propagating", "missing", "error"} \/ r \in stale

RecheckDue == /\ setting.checks
              /\ look.pc = "idle" /\ Due
              /\ look' = [NoLook EXCEPT !.pc = "rows", !.left = Rows]
              /\ UNCHANGED <<zone, status, stale, sync, edits, faults, disturbed, setting>>

Resolve(r) == /\ look.pc = "rows" /\ r \in look.left
              /\ \/ /\ look' = [look EXCEPT !.pc = "write", !.row = r, !.left = @ \ {r},
                                            !.found = Observed(r)]
                    /\ UNCHANGED faults
                 \/ /\ faults < MaxFaults
                    /\ faults' = faults + 1
                    /\ look' = [look EXCEPT !.pc = "write", !.row = r, !.left = @ \ {r},
                                            !.found = "error"]
              /\ UNCHANGED <<zone, status, stale, sync, edits, disturbed, setting>>

WriteStatus == /\ look.pc = "write"
               /\ status' = [status EXCEPT ![look.row] = look.found]
               /\ stale' = stale \ {look.row}
               /\ look' = [look EXCEPT !.pc = IF look.left = {} THEN "idle" ELSE "rows"]
               /\ UNCHANGED <<zone, sync, edits, faults, disturbed, setting>>

SixHoursPass == /\ setting.checks /\ stale # Rows
                /\ stale' = Rows
                /\ UNCHANGED <<zone, status, sync, look, edits, faults, disturbed, setting>>

-----------------------------------------------------------------------------
(* The owner of the zone adds a record of his own, turns one that is there   *)
(* into one of his own under the same id, or changes or removes one by hand. *)

OwnerEdits == /\ edits < MaxEdits
              /\ edits' = edits + 1
              /\ \/ \E i \in FreeIds, f \in Foreign :
                      /\ \A j \in Ids : zone[j] # Versioned(f, "want")
                      /\ zone' = [zone EXCEPT ![i] = Versioned(f, "want")]
                 \/ \E i \in {j \in Ids : zone[j] \notin {Absent, Deleted}} :
                      \/ zone' = [zone EXCEPT ![i] = Versioned(@, "old")]
                      \/ zone' = [zone EXCEPT ![i] = Deleted]
                      \/ \E f \in Foreign :
                           /\ f.name = zone[i].name /\ f.type = zone[i].type
                           /\ \A j \in Ids : zone[j] # Versioned(f, "want")
                           /\ zone' = [zone EXCEPT ![i] = Versioned(f, "want")]
              /\ disturbed' = [h \in Syncers |-> disturbed[h] \/ sync[h].pc \notin {"none", "done"}]
              /\ UNCHANGED <<status, stale, sync, look, faults, setting>>

-----------------------------------------------------------------------------
SyncStep(h) == \/ SyncUpsert(h) \/ SyncDelete(h) \/ SyncMark(h) \/ SyncRefused(h)
               \/ SyncFault(h) \/ SyncEnd(h)
               \/ \E r \in Rows : SyncList(h, r)

CheckStep == RecheckDue \/ WriteStatus \/ \E r \in Rows : Resolve(r)

Next == \/ \E h \in Syncers : SyncStart(h) \/ SyncStep(h)
        \/ CheckStep \/ SixHoursPass \/ OwnerEdits

\* A started request runs to its end, the worker's loop keeps ticking, time passes.
Fairness == /\ \A h \in Syncers : WF_vars(SyncStep(h))
            /\ WF_vars(CheckStep) /\ WF_vars(SixHoursPass)

Spec == Init /\ [][Next]_vars /\ Fairness

-----------------------------------------------------------------------------
IsForeign(c) == \E f \in Foreign : c.name = f.name /\ c.type = f.type /\ c.kind = f.kind

\* The request that takes this step listed entry i, and i was edited since: the
\* PUT or DELETE by id does not look again.
EditedSince(i) == \E h \in Syncers : sync'[h] # sync[h] /\ \E e \in sync[h].seen : e[1] = i /\ e[2] # zone[i]

SparesOthers == edits' = edits => \A i \in Ids : IsForeign(zone[i]) => zone'[i] = zone[i] \/ EditedSince(i)

\* Publishing (syncToProvider, chooseExisting, staleDuplicates) never rewrites
\* or deletes a record that was not ours when the request listed it.
SyncSparesOthers == [][SparesOthers]_vars

\* A publish that met no error and no other writer leaves every row published
\* as expected and no second TXT of its kind; and no publish touches a record
\* that was not ours when it listed it.
ZoneStep ==
     /\ SparesOthers
     /\ \A h \in Syncers :
          (sync[h].pc # "done" /\ sync'[h].pc = "done" /\ sync'[h].ok /\ ~disturbed'[h]) =>
            \A r \in Rows : /\ Observed(r) = "ok"
                            /\ Row[r].type = "TXT" =>
                                 Cardinality({e \in Existing(r) : e[2].kind = Row[r].kind}) = 1

\* "Statuses converge to reality, and drift gets noticed, without anyone
\* clicking Recheck" (recheckDue): once the zone stops changing, every row's
\* status comes to say what the resolver would answer, and stays so.
StatusIsTrue == \A r \in Rows : status[r] = Observed(r)
=============================================================================
