---------------------------- MODULE SieveFilters ----------------------------
(***************************************************************************)
(* A mailbox's mail filters (src/apps/api/src/webmail/sieve*.ts).  The     *)
(* rules live in sieve_rules; after every change the request compiles the  *)
(* enabled ones into one script, uploads it over ManageSieve and activates *)
(* it.  The change and the upload are separate steps of a request, requests*)
(* overlap, the server may be unreachable and the mailbox locked; opening  *)
(* the Filters panel uploads the script again, at most once per lease.     *)
(*                                                                         *)
(* A rule's priority is max + 1 when it is created and never changes, so   *)
(* priority order is creation order: rules is kept in it.  `clean' is a    *)
(* history variable.                                                       *)
(***************************************************************************)
EXTENDS Naturals, Sequences, SequencesExt

CONSTANTS Tabs,         \* concurrent requests
          MaxRules,     \* bound: rules ever created
          MaxChanges,   \* bound: changing requests
          MaxOutages    \* bound: failed ManageSieve dialogues and locked mailboxes

VARIABLES rules,        \* sieve_rules, in priority order
          uploaded,     \* the script stored on the server
          active,       \* whether delivery runs it
          lease,        \* the Redis key webmail:sieve:synced:<mailbox>
          tab,          \* Tabs -> the request's progress
          made, changes, outages, clean

vars == <<rules, uploaded, active, lease, tab, made, changes, outages, clean>>

NoTab == [pc |-> "idle", kind |-> "list", script |-> <<>>]

Init == /\ rules = <<>> /\ uploaded = <<>> /\ active = FALSE
        /\ lease = FALSE
        /\ tab = [t \in Tabs |-> NoTab]
        /\ made = 0 /\ changes = 0 /\ outages = 0
        /\ clean = TRUE

\* compileScript of the enabled rules: one block per rule, in order.
CompileScript(rs) ==
  LET on == SelectSeq(rs, LAMBDA r : r.enabled) IN [i \in DOMAIN on |-> <<on[i].id, on[i].ver>>]

-----------------------------------------------------------------------------
(* A change: the row first, then the upload.                                *)

Starts(t, rs) == /\ tab[t].pc = "idle" /\ changes < MaxChanges
                 /\ changes' = changes + 1
                 /\ rules' = rs
                 /\ tab' = [tab EXCEPT ![t] = [NoTab EXCEPT !.pc = "creds", !.kind = "sync"]]
                 /\ clean' = (clean /\ \A u \in Tabs \ {t} : tab[u].pc = "idle")
                 /\ UNCHANGED <<uploaded, active, lease, outages>>

CreateRule(t) == /\ made < MaxRules
                 /\ made' = made + 1
                 /\ \E on \in BOOLEAN :
                      Starts(t, Append(rules, [id |-> made + 1, enabled |-> on, ver |-> 1]))

UpdateRule(t) == /\ \E i \in DOMAIN rules, on \in BOOLEAN :
                      Starts(t, [rules EXCEPT ![i] = [@ EXCEPT !.enabled = on, !.ver = 3 - @]])
                 /\ UNCHANGED made

DeleteRule(t) == /\ \E i \in DOMAIN rules : Starts(t, RemoveAt(rules, i))
                 /\ UNCHANGED made

\* sync: the mailbox's password, then the rules as they are now.
SyncLoad(t) == /\ tab[t].pc = "creds" /\ tab[t].kind = "sync"
               /\ tab' = [tab EXCEPT ![t] = [@ EXCEPT !.pc = "put", !.script = CompileScript(rules)]]
               /\ UNCHANGED <<rules, uploaded, active, lease, made, changes, outages, clean>>

\* A locked mailbox ends the request with the row already written.
SyncLocked(t) == /\ tab[t].pc = "creds" /\ tab[t].kind = "sync" /\ outages < MaxOutages
                 /\ outages' = outages + 1
                 /\ tab' = [tab EXCEPT ![t] = NoTab]
                 /\ clean' = FALSE
                 /\ UNCHANGED <<rules, uploaded, active, lease, made, changes>>

-----------------------------------------------------------------------------
(* Opening the panel.                                                       *)

ListLoad(t) == /\ tab[t].pc = "idle"
               /\ CompileScript(rules) # <<>>                \* reconcile: nothing enabled, return
               /\ tab' = [tab EXCEPT ![t] = [pc |-> "lease", kind |-> "list", script |-> CompileScript(rules)]]
               /\ clean' = (clean /\ \A u \in Tabs \ {t} : tab[u].pc = "idle")
               /\ UNCHANGED <<rules, uploaded, active, lease, made, changes, outages>>

\* SET NX: whoever finds the key set returns without an upload.
TakeLease(t) == /\ tab[t].pc = "lease"
                /\ tab' = [tab EXCEPT ![t] = IF lease THEN NoTab ELSE [@ EXCEPT !.pc = "put"]]
                /\ lease' = TRUE
                /\ UNCHANGED <<rules, uploaded, active, made, changes, outages, clean>>

LeaseForever == FALSE /\ UNCHANGED vars              \* Faulty variant: the key has no TTL

LeaseExpires == /\ lease
                /\ lease' = FALSE
                /\ UNCHANGED <<rules, uploaded, active, tab, made, changes, outages, clean>>

-----------------------------------------------------------------------------
(* pushScript: connect, STARTTLS, AUTHENTICATE, PUTSCRIPT, SETACTIVE.  The  *)
(* server runs the active script: replacing it replaces what runs.          *)

PutScript(t) == /\ tab[t].pc = "put"
                /\ uploaded' = tab[t].script
                /\ tab' = [tab EXCEPT ![t].pc = "activate"]
                /\ UNCHANGED <<rules, active, lease, made, changes, outages, clean>>

SetActive(t) == /\ tab[t].pc = "activate"
                /\ active' = TRUE
                /\ tab' = [tab EXCEPT ![t] = IF @.kind = "sync" THEN [@ EXCEPT !.pc = "mark"] ELSE NoTab]
                /\ UNCHANGED <<rules, uploaded, lease, made, changes, outages, clean>>

MarkReconciled(t) == /\ tab[t].pc = "mark"
                     /\ lease' = TRUE
                     /\ tab' = [tab EXCEPT ![t] = NoTab]
                     /\ UNCHANGED <<rules, uploaded, active, made, changes, outages, clean>>

PushFails(t) == /\ tab[t].pc \in {"put", "activate"} /\ outages < MaxOutages
                /\ outages' = outages + 1
                /\ tab' = [tab EXCEPT ![t] = NoTab]
                /\ clean' = FALSE
                /\ UNCHANGED <<rules, uploaded, active, lease, made, changes>>

-----------------------------------------------------------------------------
Change(t) == CreateRule(t) \/ UpdateRule(t) \/ DeleteRule(t)
Push(t)   == SyncLoad(t) \/ TakeLease(t) \/ PutScript(t) \/ SetActive(t) \/ MarkReconciled(t)

Next == \/ \E t \in Tabs : Change(t) \/ Push(t) \/ ListLoad(t) \/ SyncLocked(t) \/ PushFails(t)
        \/ LeaseExpires

\* Requests run to their end, the lease has a TTL, and the owner opens the panel again.
Fairness == /\ \A t \in Tabs : WF_vars(Push(t))
            /\ SF_vars(\E t \in Tabs : ListLoad(t)) /\ WF_vars(LeaseExpires)

Spec == Init /\ [][Next]_vars /\ Fairness

-----------------------------------------------------------------------------
Running == IF active THEN uploaded ELSE <<>>

\* The server runs the enabled rules as last saved, the older rule first.
InForce == /\ ToSet(Running) = {<<r.id, r.ver>> : r \in {q \in ToSet(rules) : q.enabled}}
           /\ \A i, j \in DOMAIN Running : i < j => Running[i][1] < Running[j][1]

SomeEnabled == \E r \in ToSet(rules) : r.enabled

\* As long as no request overlapped another and none failed, an idle mailbox
\* runs exactly its enabled rules, in priority order (createRule, updateRule,
\* deleteRule, sync).
FiltersInForce == (clean /\ \A t \in Tabs : tab[t].pc = "idle") => InForce

\* "Heal drift between the stored rules and the server's active script"
\* (reconcile): whatever overlaps, failures and locked mailboxes happened, a
\* mailbox with an enabled rule comes to run its rules and goes on doing so.
Healed == SomeEnabled => InForce
=============================================================================
