----------------------------- MODULE MCProgress -----------------------------
(***************************************************************************)
(* What must happen in the end: webhook deliveries, LDAP syncs and group   *)
(* expansion, DNS records and their checks, Sieve filters, realtime feeds, *)
(* uploads, DKIM rotations and undo-send, each on its own small instance,  *)
(* in one run.  They share no variable on the code paths modelled here, so *)
(* a behaviour of this module is a behaviour of one of them, chosen at the *)
(* start, and the fairness is that of each component while it runs.        *)
(***************************************************************************)
EXTENDS Integers, Sequences, FiniteSets, SequencesExt

VARIABLES
  on,   \* the component this behaviour is about
  v1, v2, v3, v4, v5, v6, v7, v8, v9, v10, v11, v12, v13, v14, v15, v16, v17, v18, v19,
  v20

vars == <<on, v1, v2, v3, v4, v5, v6, v7, v8, v9, v10, v11, v12, v13, v14, v15, v16, v17,
           v18, v19, v20>>

\* LdapSync: one person, two, and two names with one e-mail, with and without the accounts.
Start(first, second, accounts) ==
  [listing |-> [n \in {"n1", "n2"} |-> IF n = "n1" THEN first ELSE second],
   status |-> [p \in {"p1", "p2"} |-> IF p \in accounts THEN "active" ELSE "none"]]
LdapStarts == {Start("p1", "no-one", {}), Start("p1", "p2", {"p2"}), Start("p1", "p1", {"p1"})}

\* DnsRecords: a publish and the periodic check.
ZoneSettings ==
  {[rows |-> {"spf"}, syncs |-> 1, checks |-> TRUE], [rows |-> {"mx", "autoconfig"}, syncs |-> 0, checks |-> TRUE]}

\* Realtime: two tabs of one session, or of two.
Sharing(apart, moves, drops, news, outs) ==
  [of |-> [t \in {"t1", "t2"} |-> IF apart /\ t = "t2" THEN "s2" ELSE "s1"], moves |-> moves,
   drops |-> drops, news |-> news, outs |-> outs]
FeedSharings == {Sharing(FALSE, 2, 0, 0, 0), Sharing(FALSE, 1, 1, 0, 1), Sharing(TRUE, 2, 0, 1, 0)}

\* Composer: a message sent, undone or not, over answers that may be lost.
Composing == [opens |-> 1, revs |-> 1, faults |-> 0, polls |-> 2, signature |-> FALSE,
              minimise |-> FALSE, retarget |-> FALSE, files |-> FALSE, sends |-> TRUE]
UndoPlans == {[Composing EXCEPT !.retarget = TRUE], [Composing EXCEPT !.revs = 0, !.faults = 1]}

-----------------------------------------------------------------------------
Webhooks == INSTANCE WebhookDelivery WITH
  Emissions <- {"m1"}, Endpoints <- {"e1", "e2"}, Subscribed <- {"m1"} \X {"e1", "e2"},
  Unopenable <- {"e2"}, Workers <- {"w1", "w2"}, MAX_ATTEMPTS <- 2, BatchLimit <- 2, MaxFaults <- 1,
  None <- "none",
  endpoint <- v1, failures <- v2, state <- v3, attempts <- v4, ready <- v5, received <- v6,
  emission <- v7, targets <- v8, holder <- v9, pc <- v10, todo <- v11, ok <- v12, faults <- v13
Expansion == INSTANCE GroupExpansion WITH
  Groups <- {"g1", "g2", "g3"}, MaxDirect <- 1,
  direct <- v1, parents <- v2, queue <- v3, seen <- v4
Ldap == INSTANCE LdapSync WITH
  Names <- {"n1", "n2"}, People <- {"p1", "p2"}, NoOne <- "no-one", Workers <- {"w1"},
  Consoles <- {"c1"}, Starts <- LdapStarts, MaxChanges <- 1, MaxFailures <- 1,
  listing <- v1, settings <- v2, due <- v3, linked <- v4, status <- v5, run <- v6, changes <- v7,
  failures <- v8
Dns == INSTANCE DnsRecords WITH
  Provider <- "cloudflare", Syncers <- {"s1"}, Ids <- 1 .. 4, MaxEdits <- 1, MaxFaults <- 1,
  Settings <- ZoneSettings,
  zone <- v1, status <- v2, stale <- v3, sync <- v4, look <- v5, setting <- v6, edits <- v7,
  faults <- v8, disturbed <- v9
Sieve == INSTANCE SieveFilters WITH
  Tabs <- {"t1", "t2"}, MaxRules <- 2, MaxChanges <- 2, MaxOutages <- 1,
  rules <- v1, uploaded <- v2, active <- v3, lease <- v4, tab <- v5, made <- v6, changes <- v7,
  outages <- v8, clean <- v9
Feed == INSTANCE Realtime WITH
  Tabs <- {"t1", "t2"}, Folders <- {"f1", "f2"}, Sessions <- {"s1", "s2"}, NoFolder <- "none",
  Sharings <- FeedSharings,
  share <- v1, live <- v2, tab <- v3, sock <- v4, ghosts <- v5, posts <- v6, watcher <- v7,
  strays <- v8, ending <- v9, late <- v10, moves <- v11, drops <- v12, news <- v13, heard <- v14
Upload == INSTANCE AttachmentUploads WITH
  Uploads <- {"u1"}, File <- [u \in {"u1"} |-> "f"], Size <- 2, Handlers <- {"h1", "h2"},
  UPLOAD_MAX_RETRIES <- 2, MaxLost <- 1, MaxFaults <- 1, NoUpload <- "none",
  upload <- v1, offset <- v2, staged <- v3, stored <- v4, attachment <- v5, client <- v6,
  handler <- v7, lost <- v8, faults <- v9
Dkim == INSTANCE DkimKeys WITH
  Keys <- {"k1", "k2"}, First <- "k1", Consoles <- {"c1"}, Worker <- "w", MaxRequests <- 2,
  MaxFaults <- 0, NoKey <- "none",
  status <- v1, ripe <- v2, txt <- v3, files <- v4, map <- v5, req <- v6, rotated <- v7,
  outage <- v8, crossed <- v9, unsettled <- v10, requests <- v11, faults <- v12
Undo == INSTANCE Composer WITH
  Plans <- UndoPlans, Files <- {"f1"}, MaxCount <- 2,
  plan <- v1, ui <- v2, inst <- v3, initial <- v4, head <- v5, dom <- v6, sigDue <- v7, timer <- v8,
  save <- v9, draftUid <- v10, discard <- v11, drafts <- v12, files <- v13, post <- v14, row <- v15,
  cancel <- v16, poll <- v17, told <- v18, faults <- v19, marks <- v20

ASSUME Webhooks!SubscribedAssumption /\ Webhooks!AttemptsAssumption
ASSUME Ldap!BoundsAssumption /\ Ldap!RunnersAssumption /\ Ldap!StartsAssumption
ASSUME Upload!SizeAssumption /\ Upload!HandlersAssumption
ASSUME Dkim!BoundsAssumption /\ Dkim!HandlersAssumption

\* One component runs, in as many slots as it has variables; the other slots stay 0.
Init ==
  \/ /\ on = "webhooks" /\ Webhooks!Init
     /\ v14 = 0 /\ v15 = 0 /\ v16 = 0 /\ v17 = 0 /\ v18 = 0 /\ v19 = 0 /\ v20 = 0
  \/ /\ on = "expansion" /\ Expansion!Init
     /\ v5 = 0 /\ v6 = 0 /\ v7 = 0 /\ v8 = 0 /\ v9 = 0 /\ v10 = 0 /\ v11 = 0 /\ v12 = 0 /\
        v13 = 0 /\ v14 = 0 /\ v15 = 0 /\ v16 = 0 /\ v17 = 0 /\ v18 = 0 /\ v19 = 0 /\ v20 = 0
  \/ /\ on = "ldap" /\ Ldap!Init
     /\ v9 = 0 /\ v10 = 0 /\ v11 = 0 /\ v12 = 0 /\ v13 = 0 /\ v14 = 0 /\ v15 = 0 /\ v16 = 0 /\
        v17 = 0 /\ v18 = 0 /\ v19 = 0 /\ v20 = 0
  \/ /\ on = "dns" /\ Dns!Init
     /\ v10 = 0 /\ v11 = 0 /\ v12 = 0 /\ v13 = 0 /\ v14 = 0 /\ v15 = 0 /\ v16 = 0 /\ v17 = 0 /\
        v18 = 0 /\ v19 = 0 /\ v20 = 0
  \/ /\ on = "sieve" /\ Sieve!Init
     /\ v10 = 0 /\ v11 = 0 /\ v12 = 0 /\ v13 = 0 /\ v14 = 0 /\ v15 = 0 /\ v16 = 0 /\ v17 = 0 /\
        v18 = 0 /\ v19 = 0 /\ v20 = 0
  \/ /\ on = "feed" /\ Feed!Init
     /\ v15 = 0 /\ v16 = 0 /\ v17 = 0 /\ v18 = 0 /\ v19 = 0 /\ v20 = 0
  \/ /\ on = "upload" /\ Upload!Init
     /\ v10 = 0 /\ v11 = 0 /\ v12 = 0 /\ v13 = 0 /\ v14 = 0 /\ v15 = 0 /\ v16 = 0 /\ v17 = 0 /\
        v18 = 0 /\ v19 = 0 /\ v20 = 0
  \/ /\ on = "dkim" /\ Dkim!Init
     /\ v13 = 0 /\ v14 = 0 /\ v15 = 0 /\ v16 = 0 /\ v17 = 0 /\ v18 = 0 /\ v19 = 0 /\ v20 = 0
  \/ /\ on = "undo" /\ Undo!Init

Next ==
  \/ /\ on = "webhooks" /\ Webhooks!Next
     /\ UNCHANGED <<on, v14, v15, v16, v17, v18, v19, v20>>
  \/ /\ on = "expansion" /\ Expansion!Next
     /\ UNCHANGED <<on, v5, v6, v7, v8, v9, v10, v11, v12, v13, v14, v15, v16, v17, v18, v19, v20>>
  \/ /\ on = "ldap" /\ Ldap!Next
     /\ UNCHANGED <<on, v9, v10, v11, v12, v13, v14, v15, v16, v17, v18, v19, v20>>
  \/ /\ on = "dns" /\ Dns!Next
     /\ UNCHANGED <<on, v10, v11, v12, v13, v14, v15, v16, v17, v18, v19, v20>>
  \/ /\ on = "sieve" /\ Sieve!Next
     /\ UNCHANGED <<on, v10, v11, v12, v13, v14, v15, v16, v17, v18, v19, v20>>
  \/ /\ on = "feed" /\ Feed!Next
     /\ UNCHANGED <<on, v15, v16, v17, v18, v19, v20>>
  \/ /\ on = "upload" /\ Upload!Next
     /\ UNCHANGED <<on, v10, v11, v12, v13, v14, v15, v16, v17, v18, v19, v20>>
  \/ /\ on = "dkim" /\ Dkim!Next
     /\ UNCHANGED <<on, v13, v14, v15, v16, v17, v18, v19, v20>>
  \/ /\ on = "undo" /\ Undo!Next
     /\ UNCHANGED <<on>>

\* The slots of each component.
webhooksSlots == <<v1, v2, v3, v4, v5, v6, v7, v8, v9, v10, v11, v12, v13>>
expansionSlots == <<v1, v2, v3, v4>>
ldapSlots == <<v1, v2, v3, v4, v5, v6, v7, v8>>
dnsSlots == <<v1, v2, v3, v4, v5, v6, v7, v8, v9>>
sieveSlots == <<v1, v2, v3, v4, v5, v6, v7, v8, v9>>
feedSlots == <<v1, v2, v3, v4, v5, v6, v7, v8, v9, v10, v11, v12, v13, v14>>
uploadSlots == <<v1, v2, v3, v4, v5, v6, v7, v8, v9>>
dkimSlots == <<v1, v2, v3, v4, v5, v6, v7, v8, v9, v10, v11, v12>>
undoSlots == <<v1, v2, v3, v4, v5, v6, v7, v8, v9, v10, v11, v12, v13, v14, v15, v16, v17, v18, v19, v20>>

\* The fairness of each component, while it is the one that runs.
Fairness ==
  /\ \A d \in Webhooks!Deliveries : WF_webhooksSlots(on = "webhooks" /\ Webhooks!BecomesReady(d))
  /\ WF_webhooksSlots(on = "webhooks" /\ \E w \in {"w1", "w2"} : Webhooks!TickStart(w))
  /\ \A w \in {"w1", "w2"} : WF_webhooksSlots(on = "webhooks" /\ Webhooks!Step(w))
  /\ WF_expansionSlots(on = "expansion" /\ Expansion!Next)
  /\ WF_ldapSlots(on = "ldap" /\ Ldap!BecomesDue)
  /\ WF_ldapSlots(on = "ldap" /\ Ldap!StartRun("w1"))
  /\ \A r \in {"w1", "c1"} : WF_ldapSlots(on = "ldap" /\ Ldap!Step(r))
  /\ WF_dnsSlots(on = "dns" /\ Dns!SyncStep("s1"))
  /\ WF_dnsSlots(on = "dns" /\ Dns!CheckStep)
  /\ WF_dnsSlots(on = "dns" /\ Dns!SixHoursPass)
  /\ \A t \in {"t1", "t2"} : WF_sieveSlots(on = "sieve" /\ Sieve!Push(t))
  /\ SF_sieveSlots(on = "sieve" /\ \E t \in {"t1", "t2"} : Sieve!ListLoad(t))
  /\ WF_sieveSlots(on = "sieve" /\ Sieve!LeaseExpires)
  /\ \A t \in {"t1", "t2"} : WF_feedSlots(on = "feed" /\ Feed!Ticket(t)) /\ WF_feedSlots(on = "feed" /\ Feed!Connect(t))
  /\ \A t \in {"t1", "t2"} : WF_feedSlots(on = "feed" /\ Feed!Hello(t)) /\ WF_feedSlots(on = "feed" /\ Feed!Reconnect(t))
  /\ \A t \in {"t1", "t2"} : WF_feedSlots(on = "feed" /\ Feed!Rearm(t)) /\ WF_feedSlots(on = "feed" /\ Feed!Subscribe(t))
  /\ \A p \in [kind : {"watch", "unwatch"}, session : {"s1", "s2"}, folder : {"f1", "f2"}, at : {"asked"}] : WF_feedSlots(on = "feed" /\ Feed!Begin(p))
  /\ \A p \in [kind : {"watch"}, session : {"s1", "s2"}, folder : {"f1", "f2"}, at : {"opening"}] : WF_feedSlots(on = "feed" /\ Feed!Opened(p))
  /\ \A s \in {"s1", "s2"} : WF_feedSlots(on = "feed" /\ Feed!PurgeSession(s)) /\ WF_feedSlots(on = "feed" /\ Feed!SweepWatcher(s))
  /\ WF_feedSlots(on = "feed" /\ Feed!SweepIdle)
  /\ WF_uploadSlots(on = "upload" /\ Upload!BrowserGoesOn("u1"))
  /\ \A h \in {"h1", "h2"} : WF_uploadSlots(on = "upload" /\ Upload!HandlerGoesOn(h))
  /\ \A h \in {"w", "c1"} : WF_dkimSlots(on = "dkim" /\ Dkim!Step(h))
  /\ WF_dkimSlots(on = "dkim" /\ Dkim!Tick)
  /\ \A k \in {"k1", "k2"} : WF_dkimSlots(on = "dkim" /\ Dkim!Ripens(k)) /\ WF_dkimSlots(on = "dkim" /\ Dkim!Propagates(k))
  /\ \A i \in 1 .. 2 : WF_undoSlots(on = "undo" /\ i \in Undo!Panels /\ Undo!DiscardDraft(i))
  /\ WF_undoSlots(on = "undo" /\ Undo!ShowUndo)
  /\ WF_undoSlots(on = "undo" /\ Undo!CancelAnswered)
  /\ WF_undoSlots(on = "undo" /\ Undo!WindowEnds)
  /\ WF_undoSlots(on = "undo" /\ Undo!PollOutcome)

Spec == Init /\ [][Next]_vars /\ Fairness
-----------------------------------------------------------------------------
\* WebhooksService: a delivery's outcome is what happened to it, it is posted at most
\* as often as attempts and faults allow, and an event reaches every endpoint subscribed to it;
\* tick attempts "every ready delivery", so each is settled in the end, whichever step a crash or
\* a database error hits, unless one whose secret does not open ends every tick at its place.
DeliveriesKept ==
  /\ [](on = "webhooks" =>
         Webhooks!TypeOK /\ Webhooks!OutcomeIsTrue /\ Webhooks!PostsBounded /\ Webhooks!EmitReachesAll)
  /\ \A d \in Webhooks!Deliveries :
       on = "webhooks" /\ Webhooks!Ready(d) ~> on = "webhooks" /\ Webhooks!SettledOrBlocked(d)

\* The expansion of nested groups (expandGroups, ldap/mapping.ts) ends, on cycles too, with exactly the
\* groups a user belongs to through any chain.
ExpansionKept ==
  /\ [](on = "expansion" => Expansion!ExpansionIsComplete)
  /\ on = "expansion" ~> on = "expansion" /\ Expansion!ExpansionEnded

\* LdapService.runSync suspends only for names that were missing from the directory it read, and
\* only with deactivate_missing; a finished sync has applied exactly what it read; once the
\* directory stops changing and is enabled the accounts follow it for good, whatever stale
\* snapshots, failed or crashed syncs came before, those of moved entries aside.
SyncKept ==
  /\ [](on = "ldap" => Ldap!TypeOK /\ Ldap!OnlyMissingSuspended /\ Ldap!SyncIsExact)
  /\ <>[](on = "ldap" /\ Ldap!Enabled) => <>[](on = "ldap" /\ Ldap!AccountsFollow)

\* "Statuses converge to reality, and drift gets noticed, without anyone clicking Recheck"
\* (DnsService.recheckDue): once the zone stops changing every row's status comes to say
\* what the resolver would answer, and stays so.
StatusConverges == on = "dns" ~> [](on = "dns" /\ Dns!StatusIsTrue)

\* SieveService: without overlaps or failures an idle mailbox runs exactly its enabled rules, and
\* reconcile ("Heal drift between the stored rules and the server's active script") brings a
\* mailbox with an enabled rule back to them whatever happened.
FiltersKept ==
  /\ [](on = "sieve" => Sieve!FiltersInForce)
  /\ on = "sieve" ~> [](on = "sieve" /\ Sieve!Healed)

\* RealtimeGateway and realtime.ts: a tab hears of its own session only, and a tab on a folder
\* comes to be fed with its changes after drops, restarts of the watcher and overlapping
\* requests, unless it leaves the folder or the session ends; a session that ended is unwatched
\* for good in the end, whatever its purge met.
FeedKept ==
  /\ [](on = "feed" => Feed!RealtimeSound)
  /\ \A s \in {"s1", "s2"} : on = "feed" /\ Feed!Ended(s) ~> [](on = "feed" /\ Feed!Unwatched(s))
  /\ \A t \in {"t1", "t2"}, f \in {"f1", "f2"} :
       on = "feed" /\ Feed!Viewing(t, f) ~> on = "feed" /\ Feed!FedOrGone(t, f)

\* The browser's upload loop ends, with the attachment or with an error.
UploadsEnd == on = "upload" /\ Upload!Begun("u1") ~> on = "upload" /\ Upload!LoopEnded("u1")

\* DkimService: every console request ends, whatever rows it meets locked, and a rotation that
\* got its record out is finished: the key does not stay 'published'.
RotationsEnd ==
  /\ on = "dkim" /\ Dkim!InFlight("c1") ~> on = "dkim" /\ ~Dkim!InFlight("c1")
  /\ \A k \in {"k1", "k2"} : on = "dkim" /\ Dkim!RecordOut(k) ~> on = "dkim" /\ ~Dkim!Published(k)

\* Once Undo is offered the user is told something of the message's end: sent, failed,
\* cancelled, still being sent, or too late to cancel.
OutcomeIsTold == on = "undo" /\ Undo!UndoOffered ~> on = "undo" /\ Undo!ToldSomething
=============================================================================
