----------------------------- MODULE Retention -----------------------------
(***************************************************************************)
(* Message retention, legal holds and mailbox exports of one organisation  *)
(* (src/apps/api/src/retention).  Administrators edit the policy row and   *)
(* the holds; the worker's "retention" loop prunes expired mail mailbox by *)
(* mailbox and folder by folder; an export walks the folders of a mailbox  *)
(* in the background of the API process while its owner and the worker     *)
(* keep changing it.                                                       *)
(*                                                                         *)
(* `young' and the `touched' field of an export are history variables: no  *)
(* guard reads them.                                                       *)
(***************************************************************************)
EXTENDS Naturals, FiniteSets

CONSTANTS Boxes,        \* the organisation's active mailboxes
          Mail,         \* messages
          BoxOf,        \* [Mail -> Boxes]
          Expired,      \* the messages older than any policy's cutoff
          Admins,       \* concurrent requests for a hold
          MaxHolds,     \* bound: active holds on one scope
          Exports,      \* export rows that can be requested
          Duties        \* sets of duties explored together

\* Assumed of the constants, by the module that gives them values.
MailAssumption == BoxOf \in [Mail -> Boxes]

Folders == {"INBOX", "Trash"}
OrgWide == "org"                        \* mailbox_id NULL
Scopes  == Boxes \cup {OrgWide}
NoScope == "none"
Gone    == "gone"

VARIABLES policy,       \* retention_policies: the organisation's row
          holds,        \* active legal_holds rows per scope
          young,        \* scopes whose hold is younger than the run's read
          asking,       \* hold requests past their duplicate check
          loc,          \* Mail -> the folder that holds it
          prune,        \* the worker's run
          export,       \* mailbox_exports rows with their background runner
          stored,       \* archives in object storage
          duty          \* the duties of this behaviour, a member of Duties

vars == <<duty, policy, holds, young, asking, loc, prune, export, stored>>

NoRow    == [row |-> FALSE, enabled |-> FALSE, days |-> 0, folders |-> {"Trash"}]
Defaults == [NoRow EXCEPT !.row = TRUE]
Idle     == [pc |-> "idle", folders |-> {}, held |-> {}, todo |-> {},
             box |-> NoScope, left |-> {}, at |-> "INBOX", found |-> {}]
NoExport == [status |-> "none", live |-> FALSE, box |-> NoScope, left |-> {},
             got |-> [m \in Mail |-> 0], start |-> {}, skipped |-> FALSE,
             touched |-> {}]

In(b) == {m \in Mail : BoxOf[m] = b /\ loc[m] # Gone}

Init == /\ duty \in Duties
        /\ policy \in {NoRow, [Defaults EXCEPT !.enabled = TRUE, !.days = 1,
                                               !.folders = Folders]}
        /\ holds  = [s \in Scopes |-> 0]
        /\ young  = {}
        /\ asking = [a \in Admins |-> NoScope]
        /\ loc   \in [Mail -> Folders]
        /\ prune  = Idle
        /\ export = [e \in Exports |-> NoExport]
        /\ stored = {}

-----------------------------------------------------------------------------
(* The policy.  Reading it creates the default row; an update that finds no *)
(* row inserts one with the defaults and drops the values it was sent.      *)

GetPolicy == /\ ~policy.row
             /\ policy' = Defaults
             /\ UNCHANGED <<holds, young, asking, loc, prune, export, stored, duty>>

Overridden(named, req) ==
  IF policy.row THEN [k \in DOMAIN policy |-> IF k \in named THEN req[k] ELSE policy[k]]
                ELSE Defaults

UpdatePolicy ==
  /\ \E named \in SUBSET {"enabled", "days", "folders"},
        on \in BOOLEAN, d \in 0..1, fs \in {{}, {"Trash"}, Folders} :
       policy' = Overridden(named, [enabled |-> on, days |-> d, folders |-> fs])
  /\ UNCHANGED <<holds, young, asking, loc, prune, export, stored, duty>>

-----------------------------------------------------------------------------
(* Legal holds.  The duplicate check and the INSERT are two statements and  *)
(* the table has no constraint: two requests may both insert.               *)

HoldCheck(a, s) == /\ asking[a] = NoScope
                   /\ holds[s] = 0
                   /\ asking' = [asking EXCEPT ![a] = s]
                   /\ UNCHANGED <<policy, holds, young, loc, prune, export, stored, duty>>

HoldInsert(a) == /\ asking[a] # NoScope
                 /\ holds[asking[a]] < MaxHolds
                 /\ holds'  = [holds EXCEPT ![asking[a]] = @ + 1]
                 /\ young'  = IF holds[asking[a]] = 0 /\ prune.pc \notin {"idle", "org"}
                              THEN young \cup {asking[a]} ELSE young
                 /\ asking' = [asking EXCEPT ![a] = NoScope]
                 /\ UNCHANGED <<policy, loc, prune, export, stored, duty>>

Release(s) == /\ holds[s] > 0
              /\ holds' = [holds EXCEPT ![s] = @ - 1]
              /\ young' = IF holds[s] = 1 THEN young \ {s} ELSE young
              /\ UNCHANGED <<policy, asking, loc, prune, export, stored, duty>>

-----------------------------------------------------------------------------
(* One run of the worker's loop.  Policy, holds and mailboxes are read once *)
(* at its start.                                                            *)

HeldMailboxIds == {b \in Boxes : holds[b] > 0}

RunDuePruning == /\ prune.pc = "idle"
                 /\ policy.row /\ policy.enabled /\ policy.days > 0
                 /\ prune' = [Idle EXCEPT !.pc = "org", !.folders = policy.folders]
                 /\ UNCHANGED <<policy, holds, young, asking, loc, export, stored, duty>>

SparedEmpty == prune.folders = {}        \* Faulty variant: the org-wide hold is ignored
Spared == prune.folders = {} \/ holds[OrgWide] > 0

PruneOrg == /\ prune.pc = "org"
            /\ prune' = IF Spared THEN Idle
                        ELSE [prune EXCEPT !.pc = "boxes", !.held = HeldMailboxIds,
                                           !.todo = Boxes]
            /\ young' = {}
            /\ UNCHANGED <<policy, holds, asking, loc, export, stored, duty>>

\* The next mailbox: skipped when held, or when the connection fails.
NextBox(b) == /\ prune.pc = "boxes" /\ b \in prune.todo
              /\ \/ prune' = [prune EXCEPT !.todo = @ \ {b}]
                 \/ /\ b \notin prune.held
                    /\ prune' = [prune EXCEPT !.todo = @ \ {b}, !.pc = "folders",
                                              !.box = b, !.left = prune.folders]
              /\ UNCHANGED <<policy, holds, young, asking, loc, export, stored, duty>>

\* A folder that cannot be opened is passed over.
SearchFolder(f) ==
  /\ prune.pc = "folders" /\ f \in prune.left
  /\ LET hits == {m \in In(prune.box) : loc[m] = f /\ m \in Expired}
     IN \/ prune' = [prune EXCEPT !.left = @ \ {f}]
        \/ /\ hits # {}
           /\ prune' = [prune EXCEPT !.pc = "delete", !.at = f, !.found = hits]
  /\ UNCHANGED <<policy, holds, young, asking, loc, export, stored, duty>>

\* Mail that changes while an export runs is outside its guarantee.
Touch(ms) == [e \in Exports |-> [export[e] EXCEPT !.touched = @ \cup ms]]

DeleteFound == /\ prune.pc = "delete"
               /\ loc' = [m \in Mail |-> IF m \in prune.found THEN Gone ELSE loc[m]]
               /\ prune' = [prune EXCEPT !.pc = "folders", !.left = @ \ {prune.at},
                                         !.found = {}]
               /\ export' = Touch(prune.found)
               /\ UNCHANGED <<policy, holds, young, asking, stored, duty>>

\* The mailbox is done, or an IMAP error abandons the rest of it.
EndBox == /\ prune.pc \in {"folders", "delete"}
          /\ prune' = [prune EXCEPT !.pc = "boxes", !.found = {}, !.left = {}]
          /\ UNCHANGED <<policy, holds, young, asking, loc, export, stored, duty>>

EndRun == /\ prune.pc = "boxes" /\ prune.todo = {}
          /\ prune' = Idle /\ young' = {}
          /\ UNCHANGED <<policy, holds, asking, loc, export, stored, duty>>

WorkerCrash == /\ prune.pc # "idle"
               /\ prune' = Idle /\ young' = {}
               /\ UNCHANGED <<policy, holds, asking, loc, export, stored, duty>>

-----------------------------------------------------------------------------
(* The mailbox's owner moves and deletes mail.  A moved message has a new   *)
(* uid: a search that found the old one no longer reaches it.               *)

OwnerMoves(m, f) == /\ loc[m] # Gone /\ loc[m] # f
                    /\ loc'    = [loc EXCEPT ![m] = f]
                    /\ prune'  = [prune EXCEPT !.found = @ \ {m}]
                    /\ export' = Touch({m})
                    /\ UNCHANGED <<policy, holds, young, asking, stored, duty>>

-----------------------------------------------------------------------------
(* Exports.                                                                 *)

RequestExport(e, b) ==
  /\ export[e].status = "none"
  /\ export' = [export EXCEPT ![e] = [NoExport EXCEPT !.status = "pending",
                                                      !.live = TRUE, !.box = b]]
  /\ UNCHANGED <<policy, holds, young, asking, loc, prune, stored, duty>>

StartExport(e) ==
  /\ export[e].live /\ export[e].status = "pending"
  /\ export' = [export EXCEPT ![e] = [@ EXCEPT !.status = "running", !.left = Folders,
                                               !.start = In(export[e].box), !.touched = {}]]
  /\ UNCHANGED <<policy, holds, young, asking, loc, prune, stored, duty>>

Appended(got, ms) == [m \in Mail |-> got[m] + IF m \in ms THEN 1 ELSE 0]

FetchFolder(e, f) ==
  /\ export[e].live /\ export[e].status = "running" /\ f \in export[e].left
  /\ LET x == export[e]
     IN export' = [export EXCEPT ![e] = [x EXCEPT
                     !.left = x.left \ {f},
                     !.got  = Appended(x.got, {m \in In(x.box) : loc[m] = f})]]
  /\ UNCHANGED <<policy, holds, young, asking, loc, prune, stored, duty>>

\* getMailboxLock fails: the folder is left out of the archive.
SkipFolder(e, f) ==
  /\ export[e].live /\ export[e].status = "running" /\ f \in export[e].left
  /\ export' = [export EXCEPT ![e] = [@ EXCEPT !.left = export[e].left \ {f},
                                               !.skipped = TRUE]]
  /\ UNCHANGED <<policy, holds, young, asking, loc, prune, stored, duty>>

\* buildMbox has returned.
Ready(e) == export[e].live /\ export[e].status = "running" /\ export[e].left = {}

PutArchive(e) == /\ Ready(e) /\ e \notin stored
                 /\ stored' = stored \cup {e}
                 /\ UNCHANGED <<policy, holds, young, asking, loc, prune, export, duty>>

FinishExport(e) == /\ Ready(e) /\ e \in stored
                   /\ export' = [export EXCEPT ![e] = [@ EXCEPT !.status = "done",
                                                                !.live = FALSE]]
                   /\ UNCHANGED <<policy, holds, young, asking, loc, prune, stored, duty>>

FailExport(e) == /\ export[e].live /\ export[e].status = "running"
                 /\ export' = [export EXCEPT ![e] = [@ EXCEPT !.status = "error",
                                                              !.live = FALSE]]
                 /\ UNCHANGED <<policy, holds, young, asking, loc, prune, stored, duty>>

\* The API process dies with its background exports; nothing resumes them.
ApiCrash == /\ \E e \in Exports : export[e].live
            /\ export' = [e \in Exports |-> [export[e] EXCEPT !.live = FALSE]]
            /\ UNCHANGED <<policy, holds, young, asking, loc, prune, stored, duty>>

-----------------------------------------------------------------------------
ExportStep(e) == \/ StartExport(e) \/ PutArchive(e) \/ FinishExport(e) \/ FailExport(e)
                 \/ \E f \in Folders : FetchFolder(e, f) \/ SkipFolder(e, f)

WorkerStep == \/ RunDuePruning \/ PruneOrg \/ DeleteFound \/ EndBox \/ EndRun
              \/ \E b \in Boxes : NextBox(b)
              \/ \E f \in Folders : SearchFolder(f)

PolicyStep == GetPolicy \/ UpdatePolicy

HoldStep == \/ \E a \in Admins : HoldInsert(a) \/ \E s \in Scopes : HoldCheck(a, s)
            \/ \E s \in Scopes : Release(s)

Next == \/ "policy" \in duty /\ PolicyStep
        \/ "hold"   \in duty /\ HoldStep
        \/ "prune"  \in duty /\ (WorkerStep \/ WorkerCrash)
        \/ "export" \in duty /\ ApiCrash
        \/ \E e \in Exports, b \in Boxes : "export" \in duty /\ RequestExport(e, b)
        \/ \E e \in Exports : ExportStep(e)
        \/ \E m \in Mail, f \in Folders \cup {Gone} : "owner" \in duty /\ OwnerMoves(m, f)

Spec == Init /\ [][Next]_vars

-----------------------------------------------------------------------------
\* A hold the current run has seen: older than its read of the table.
HeldSinceRead(b) == \E s \in {b, OrgWide} : holds[s] > 0 /\ s \notin young

\* The worker (pruneOrg, pruneMailbox) removes only expired mail, and none
\* of a mailbox whose hold is older than its read of the holds, whatever
\* duplicate holds, releases and moves happen meanwhile.
HoldsProtect ==
  \A m \in Mail :
    (loc[m] # Gone /\ loc'[m] = Gone /\ m \in prune.found) =>
      m \in Expired /\ ~HeldSinceRead(BoxOf[m])

\* A finished export (run, buildMbox) has its archive in storage, holds no
\* message of another mailbox, and holds exactly once every message that lay
\* in the mailbox when it began and that nobody touched, unless a folder was
\* passed over.
ExportSound ==
  \A e \in Exports : export[e].status = "done" =>
    /\ e \in stored
    /\ \A m \in Mail : export[e].got[m] > 0 => BoxOf[m] = export[e].box
    /\ ~export[e].skipped =>
         \A m \in export[e].start \ export[e].touched : export[e].got[m] = 1
=============================================================================
