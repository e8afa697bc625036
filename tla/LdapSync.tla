------------------------------- MODULE LdapSync -------------------------------
(***************************************************************************)
(* One organisation's LDAP directory and the syncs that copy it into local *)
(* accounts: the worker's runDueSyncs, one at a time, and the console's    *)
(* syncNow, at any time beside it.  A sync reads a snapshot, applies it    *)
(* user by user in transactions, then suspends the linked accounts it did  *)
(* not see, if the directory row it started from says so.  An entry's name *)
(* (its DN) and the e-mail in it are told apart: entries come, go, move to *)
(* another name and pass from one person to another meanwhile.             *)
(***************************************************************************)
EXTENDS Naturals, FiniteSets

CONSTANTS
  Names,         \* the DNs of directory entries, normalised
  People,        \* e-mail addresses: one local account each, at most
  NoOne,         \* no entry of this name with an e-mail, or no link
  Workers,       \* syncs started by the worker loop (its lock allows one)
  Consoles,      \* syncs started by syncNow
  Starts,        \* what the directory lists and who has an account before the first sync
  MaxChanges,    \* bound on changes of the directory and of its row
  MaxFailures    \* bound on failed binds, database errors and crashes

\* Assumed of the constants, by the module that gives them values.
BoundsAssumption == MaxChanges \in Nat /\ MaxFailures \in Nat
RunnersAssumption == Workers \cap Consoles = {} /\ IsFiniteSet(People) /\ NoOne \notin People

Runners == Workers \cup Consoles

VARIABLES
  listing,    \* whose e-mail the entry of each name carries
  settings,   \* the directory row: enabled, and deactivate (deactivate_missing)
  due,        \* last_synced_at + interval has passed
  linked,     \* ldap_identities: the account each name is linked to
  status,     \* users.status of each person's account; "none" when there is no account
  run,        \* the syncs in progress; the ldap_sync_runs rows, a log for the console, are left out
  changes, failures

vars == <<listing, settings, due, linked, status, run, changes, failures>>
tables == <<settings, linked, status>>
Entries == [Names -> People \cup {NoOne}]
StartsAssumption == Starts \subseteq [listing : Entries, status : [People -> {"none", "active"}]]

\* The names a table of entries or links holds, and the accounts linked to some names.
Listed(entries) == {n \in Names : entries[n] # NoOne}
LinkedTo(names) == {linked[n] : n \in names} \ {NoOne}

\* snapshot: what it read; deactivate: the row it started from; todo: names still to apply or
\* to suspend; seen: the names applied; alone: no other sync has run beside this one.
NoRun == [at |-> "idle", deactivate |-> FALSE, snapshot |-> [n \in Names |-> NoOne], todo |-> {},
          seen |-> {}, alone |-> TRUE]

\* Accounts may exist before the first sync: people who signed up or were invited.
Init ==
  /\ \E s \in Starts : listing = s.listing /\ status = s.status
  /\ settings \in [enabled : {TRUE}, deactivate : BOOLEAN]
  /\ due = TRUE
  /\ linked = [n \in Names |-> NoOne]
  /\ run = [r \in Runners |-> NoRun]
  /\ changes = 0
  /\ failures = 0
-----------------------------------------------------------------------------
DirectoryBecomes(entries) ==
  /\ changes < MaxChanges
  /\ listing' = entries
  /\ changes' = changes + 1
  /\ UNCHANGED <<tables, due, run, failures>>

\* Someone joins under a name, takes it over, leaves, or is given another name.
Joins(n, p) == listing[n] # p /\ DirectoryBecomes([listing EXCEPT ![n] = p])
Leaves(n) == n \in Listed(listing) /\ DirectoryBecomes([listing EXCEPT ![n] = NoOne])
Moves(n, m) ==
  /\ n \in Listed(listing) /\ m \notin Listed(listing)
  /\ DirectoryBecomes([listing EXCEPT ![n] = NoOne, ![m] = listing[n]])

\* The interval since last_synced_at passes.
BecomesDue ==
  /\ ~due
  /\ due' = TRUE
  /\ UNCHANGED <<listing, tables, run, changes, failures>>

\* update: an administrator switches the directory, or deactivate_missing, off or on.
Update ==
  /\ changes < MaxChanges
  /\ changes' = changes + 1
  /\ settings' \in [enabled : BOOLEAN, deactivate : BOOLEAN]
  /\ UNCHANGED <<listing, due, linked, status, run, failures>>

Goto(r, step) == run' = [run EXCEPT ![r].at = step]

\* The worker's SELECT takes enabled directories that are due; syncNow asks for
\* neither.  Both keep the row they read.
StartRun(r) ==
  /\ run[r].at = "idle"
  /\ r \in Workers => settings.enabled /\ due /\ \A w \in Workers : run[w].at = "idle"
  /\ LET others == {q \in Runners : run[q].at # "idle"} IN
       run' = [q \in Runners |->
                 IF q = r THEN [NoRun EXCEPT !.at = "fetch", !.deactivate = settings.deactivate,
                                             !.alone = others = {}]
                 ELSE [run[q] EXCEPT !.alone = @ /\ q \notin others]]
  /\ UNCHANGED <<listing, tables, due, changes, failures>>

\* fetchDirectory: what the directory lists now; an entry without an e-mail is passed over.
Fetch(r) ==
  /\ run[r].at = "fetch"
  /\ run' = [run EXCEPT ![r].at = "apply", ![r].snapshot = listing, ![r].todo = Listed(listing)]
  /\ UNCHANGED <<listing, tables, due, changes, failures>>

\* One transaction: the account the name is linked to or else the one of the e-mail, which is
\* created if there is none, is set active and linked to the name.
ApplyUser(r) ==
  /\ run[r].at = "apply"
  /\ \E n \in run[r].todo :
       LET account == IF linked[n] # NoOne THEN linked[n] ELSE run[r].snapshot[n] IN
       /\ status' = [status EXCEPT ![account] = "active"]
       /\ linked' = [linked EXCEPT ![n] = account]
       /\ run' = [run EXCEPT ![r].todo = @ \ {n}, ![r].seen = @ \cup {n}]
  /\ UNCHANGED <<listing, settings, due, changes, failures>>

\* Faulty variant: everyone linked is suspended, seen or not.
SelectStaleAll(r) ==
  /\ run[r].at = "apply" /\ run[r].todo = {}
  /\ run' = [run EXCEPT ![r].at = "suspend",
                        ![r].todo = IF run[r].deactivate THEN Listed(linked) ELSE {}]
  /\ UNCHANGED <<listing, tables, due, changes, failures>>

\* With deactivate_missing, the linked names this run did not see.
SelectStale(r) ==
  /\ run[r].at = "apply" /\ run[r].todo = {}
  /\ run' = [run EXCEPT ![r].at = "suspend",
                        ![r].todo = IF run[r].deactivate THEN Listed(linked) \ run[r].seen ELSE {}]
  /\ UNCHANGED <<listing, tables, due, changes, failures>>

\* The account of a stale name, though this very sync may have activated it under another.
Suspend(r) ==
  /\ run[r].at = "suspend"
  /\ \E n \in run[r].todo :
       /\ status' = [status EXCEPT ![linked[n]] = "suspended"]
       /\ run' = [run EXCEPT ![r].todo = @ \ {n}]
  /\ UNCHANGED <<listing, settings, due, linked, changes, failures>>

FinishOk(r) ==
  /\ run[r].at = "suspend" /\ run[r].todo = {}
  /\ Goto(r, "mark")
  /\ UNCHANGED <<listing, tables, due, changes, failures>>

\* last_synced_at = now().
MarkSynced(r) ==
  /\ run[r].at = "mark"
  /\ due' = FALSE
  /\ run' = [run EXCEPT ![r] = NoRun]
  /\ UNCHANGED <<listing, tables, changes, failures>>

\* The bind fails, a statement throws or the process dies: what was applied stays and the
\* directory stays due.
Fail(r) ==
  /\ run[r].at # "idle"
  /\ failures < MaxFailures
  /\ failures' = failures + 1
  /\ run' = [run EXCEPT ![r] = NoRun]
  /\ UNCHANGED <<listing, tables, due, changes>>
-----------------------------------------------------------------------------
Step(r) == Fetch(r) \/ ApplyUser(r) \/ SelectStale(r) \/ Suspend(r) \/ FinishOk(r) \/ MarkSynced(r)

Next ==
  \/ \E n \in Names, p \in People : Joins(n, p)
  \/ \E n \in Names : Leaves(n)
  \/ \E n, m \in Names : Moves(n, m)
  \/ BecomesDue \/ Update
  \/ \E r \in Runners : StartRun(r) \/ Step(r) \/ Fail(r)

Spec == Init /\ [][Next]_vars

\* Time passes, the worker's timer fires and a sync's awaits return.  Nobody has
\* to press the console's sync button.
Fairness ==
  /\ WF_vars(BecomesDue)
  /\ WF_vars(\E w \in Workers : StartRun(w))
  /\ \A r \in Runners : WF_vars(Step(r))

FairSpec == Spec /\ Fairness
-----------------------------------------------------------------------------
\* Types; a sync never works on names outside its snapshot or the links.
TypeOK ==
  /\ listing \in Entries /\ linked \in Entries
  /\ settings \in [enabled : BOOLEAN, deactivate : BOOLEAN]
  /\ status \in [People -> {"none", "active", "suspended"}]
  /\ \A r \in Runners : /\ run[r].at \in {"idle", "fetch", "apply", "suspend", "mark"}
                        /\ run[r].seen \subseteq Listed(run[r].snapshot)
                        /\ run[r].todo \subseteq Listed(run[r].snapshot) \cup Listed(linked)

Suspended == {p \in People : status[p] = "suspended"}
Active == {p \in People : status[p] = "active"}

\* A sync never suspends on account of a name it saw, and only accounts the directory is linked
\* to are ever suspended: local accounts are out of its reach.
OnlyMissingSuspended ==
  /\ Suspended \subseteq LinkedTo(Names)
  /\ \A r \in Runners : run[r].at = "suspend" => run[r].todo \cap run[r].seen = {}

\* The accounts are as a directory with these names asks: the accounts of listed names are
\* active, and with deactivate_missing the accounts of linked names it does not list are
\* suspended.  An account with names of both kinds (its entry was moved) ends up suspended.
AsListed(names, deactivate) ==
  LET gone == IF deactivate THEN LinkedTo(Names \ names) ELSE {} IN
  /\ names \subseteq Listed(linked)
  /\ LinkedTo(names) \ gone \subseteq Active
  /\ gone \subseteq Suspended

\* A sync that ran alone leaves the accounts as its snapshot asks, whatever earlier syncs left
\* half done.
SyncIsExact ==
  \A r \in Runners :
    run[r].at = "mark" /\ run[r].alone => AsListed(run[r].seen, run[r].deactivate)

\* Once the directory stops changing and is enabled the accounts follow it for good, whatever
\* stale snapshots, failed or crashed syncs came before.  An account whose entry was moved is
\* left aside: every sync activates it under the new name and suspends it for the old one.
Enabled == settings.enabled
AccountsFollow ==
  LET now == LinkedTo(Listed(listing))
      gone == IF settings.deactivate THEN LinkedTo(Names \ Listed(listing)) ELSE {}
  IN /\ Listed(listing) \subseteq Listed(linked)
     /\ now \ gone \subseteq Active
     /\ gone \ now \subseteq Suspended
=============================================================================
