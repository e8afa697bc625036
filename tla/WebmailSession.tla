---------------------------- MODULE WebmailSession ----------------------------
(***************************************************************************)
(* One webmail session in the API process: the unlocked mailboxes          *)
(* (credential store), the pooled IMAP connections (ImapSessionManager),   *)
(* the IDLE watchers (ImapIdleWatcher), the cached views (WebmailCache) and *)
(* the requests of the session's browser tabs (WebmailService, logout).    *)
(*                                                                         *)
(* A request is a sequence of awaits; other requests, notifications and    *)
(* timers run in between.  The content of a mailbox is a revision, which   *)
(* every change raises; a cached view is the revision it was read at.      *)
(* Folder list and message lists are one view: they are cached and dropped *)
(* alike.  Time is abstracted: an idle connection may be swept, and a      *)
(* credential or a view may expire, at any time.                           *)
(***************************************************************************)
EXTENDS Naturals, Sequences, FiniteSets

CONSTANTS
  Boxes, Handlers,
  IMAP_POOL_MAX,
  Scenarios,     \* sets of kinds of request that may meet
  MaxRequests,   \* bound on requests
  MaxRev,        \* bound on revisions of a mailbox
  MaxFaults,     \* bound on lost connections and failed awaits
  NoBox

\* Assumed of the constants, by the module that gives them values.
Kinds == {"list", "read", "change", "watch", "unwatch", "unlock", "lock", "logout"}
PoolAssumption == IMAP_POOL_MAX \in Nat \ {0} /\ IsFiniteSet(Boxes) /\ IsFiniteSet(Handlers) /\ NoBox \notin Boxes
BoundsAssumption == MaxRequests \in Nat /\ MaxRev \in Nat /\ MaxFaults \in Nat
KindsAssumption == \A S \in Scenarios : S \subseteq Kinds

VARIABLES
  ops,       \* the kinds of request made in this behaviour
  session,   \* the row of sessions exists
  cred,      \* mailboxes with a stored credential
  pool,      \* the Map of pool entries
  older,     \* the Map's order: an entry and one used after it
  entry,     \* the PoolEntry objects, in the Map or still queued on
  watcher,   \* mailboxes with a watcher in the Map
  sockets,   \* open connections to the IMAP server
  stray,     \* history: open connections that nothing refers to any more
  rev,       \* the mailbox at the server
  view,      \* the cached view: the revision it shows, or NoView
  idx,       \* mailboxes whose index set names the view
  crossed,   \* history: views written late or out of the index
  told,      \* history: the latest revision whose change was answered
  news,      \* mailboxes with a notification under way: "none", "bust", "hit" or "miss"
  req,       \* the requests in flight
  requests, faults

map == <<pool, older>>
conns == <<map, entry, watcher, sockets, stray>>
cache == <<view, idx, crossed, told>>
vars == <<ops, session, cred, conns, rev, cache, news, req, requests, faults>>

NoView == MaxRev + 1
Entries == 1 .. Cardinality(Boxes) + Cardinality(Handlers)
NoEntry == 0
Unused == [box |-> NoBox, open |-> FALSE, queue |-> <<>>]
Idle == [op |-> "idle", at |-> "idle", box |-> NoBox, entry |-> NoEntry, rev |-> 0, hit |-> {}]

Init ==
  /\ ops \in Scenarios /\ session = TRUE
  /\ cred \in SUBSET Boxes
  /\ pool = {} /\ older = {} /\ entry = [e \in Entries |-> Unused]
  /\ watcher = {} /\ sockets = 0 /\ stray = 0
  /\ rev = [b \in Boxes |-> 0]
  /\ view = [b \in Boxes |-> NoView] /\ idx = {} /\ crossed = {}
  /\ told = [b \in Boxes |-> 0]
  /\ news = [b \in Boxes |-> "none"]
  /\ req = [h \in Handlers |-> Idle]
  /\ requests = 0 /\ faults = 0

Goto(h, step) == req' = [req EXCEPT ![h].at = step]
Finish(h) == req' = [req EXCEPT ![h] = Idle]
Fault == faults < MaxFaults /\ faults' = faults + 1
-----------------------------------------------------------------------------
(* A request arrives.                                                      *)

\* The first await of each request.
First(op) ==
  CASE op = "list" -> "cache"
    [] op \in {"read", "change", "watch"} -> "creds"
    [] op \in {"unwatch", "unlock", "lock", "logout"} -> op

\* SessionGuard finds the session.
Request(h) ==
  /\ session /\ req[h] = Idle /\ requests < MaxRequests
  /\ requests' = requests + 1
  /\ \E op \in ops, b \in Boxes :
       req' = [req EXCEPT ![h] = [Idle EXCEPT !.op = op, !.at = First(op), !.box = b]]
  /\ UNCHANGED <<ops, session, cred, conns, rev, cache, news, faults>>

\* listFolders, listMessages: a cached view is the answer.
CacheGet(h) ==
  /\ req[h].at = "cache"
  /\ IF view[req[h].box] # NoView THEN Finish(h) ELSE Goto(h, "creds")
  /\ UNCHANGED <<ops, session, cred, conns, rev, cache, news, requests, faults>>

\* creds: "Mailbox locked" without a stored credential.
Creds(h) ==
  /\ req[h].at = "creds"
  /\ IF req[h].box \notin cred THEN Finish(h)
     ELSE Goto(h, IF req[h].op = "watch" THEN "watch" ELSE "run")
  /\ UNCHANGED <<ops, session, cred, conns, rev, cache, news, requests, faults>>

\* unlock: a trial login, then store.
Unlock(h) ==
  /\ req[h].at = "unlock"
  /\ \/ cred' = cred \cup {req[h].box}
     \/ UNCHANGED cred
  /\ Finish(h)
  /\ UNCHANGED <<ops, session, conns, rev, cache, news, requests, faults>>

CredExpires(b) ==
  /\ b \in cred
  /\ cred' = cred \ {b}
  /\ UNCHANGED <<ops, session, conns, rev, cache, news, req, requests, faults>>
-----------------------------------------------------------------------------
(* ImapSessionManager: run, one await after the other.                     *)

InUse(e) == entry[e].queue # <<>>
Waiting(e) == {entry[e].queue[i] : i \in 1 .. Len(entry[e].queue)}
Pooled(b) == {e \in pool : entry[e].box = b}
Sockets(S) == Cardinality({e \in S : entry[e].open})

\* pool.get(key), or a new entry.
EntryFor(b, e) ==
  IF Pooled(b) # {} THEN e \in Pooled(b)
  ELSE entry[e] = Unused /\ \A d \in 1 .. e - 1 : entry[d] # Unused

\* Entries leave the Map.
Delete(S) == pool' = pool \ S /\ older' = {p \in older : p[1] \notin S /\ p[2] \notin S}

\* The entry moves to the end of the Map and the work joins its chain.
Run(h) ==
  LET b == req[h].box IN
  /\ req[h].at = "run"
  /\ \E e \in Entries :
       /\ EntryFor(b, e)
       /\ pool' = pool \cup {e}
       /\ older' = {p \in older : p[1] # e} \cup {<<d, e>> : d \in pool \ {e}}
       /\ entry' = [entry EXCEPT ![e].box = b, ![e].queue = Append(@, h)]
       /\ req' = [req EXCEPT ![h].at = "queued", ![h].entry = e]
  /\ UNCHANGED <<ops, session, cred, watcher, sockets, stray, rev, cache, news, requests, faults>>

\* The chain gets to this request: ensureConnected looks at the client.
Begin(h) ==
  LET e == req[h].entry IN
  /\ req[h].at = "queued" /\ Head(entry[e].queue) = h
  /\ Goto(h, IF entry[e].open THEN "fn" ELSE "connect")
  /\ UNCHANGED <<ops, session, cred, conns, rev, cache, news, requests, faults>>

Connect(h) ==
  /\ req[h].at = "connect"
  /\ entry' = [entry EXCEPT ![req[h].entry].open = TRUE]
  /\ sockets' = sockets + 1
  /\ Goto(h, "fn")
  /\ UNCHANGED <<ops, session, cred, map, watcher, stray, rev, cache, news, requests, faults>>

\* What may be given up for b's entry: never that one, never one in use.
IdleInUse(b, used) == {e \in pool : entry[e].box # b}
IdleBut(b, used) == {e \in pool : entry[e].box # b /\ e \notin used}

\* evictOverCap: the least recently used of them, as long as the pool is over its cap.
Evicted(idle, out) ==
  /\ \A d \in out, e \in idle \ out : <<d, e>> \in older
  /\ out # {} => Cardinality(pool \ out) >= IMAP_POOL_MAX
  /\ out # idle => Cardinality(pool \ out) <= IMAP_POOL_MAX

\* The work is over and the chain goes on; finally: inUse--, evictOverCap.  An entry
\* outside the Map that nobody waits for is garbage, with its connection.
Leave(h) ==
  LET e == req[h].entry
      left == Tail(entry[e].queue)
      idle == IdleBut(req[h].box, {d \in Entries : IF d = e THEN left # <<>> ELSE InUse(d)})
      dropped == e \notin pool /\ left = <<>> IN
  /\ \E out \in SUBSET idle :
       /\ Evicted(idle, out)
       /\ Delete(out)
       /\ entry' = [d \in Entries |->
            IF d \in out \/ (d = e /\ dropped) THEN Unused
            ELSE IF d = e THEN [entry[d] EXCEPT !.queue = left] ELSE entry[d]]
       /\ sockets' = sockets - Sockets(out)
  /\ stray' = stray + IF dropped /\ entry[e].open THEN 1 ELSE 0

\* fn of a listing on the open connection; its result is then cached.
List(h) ==
  /\ req[h].at = "fn" /\ entry[req[h].entry].open /\ req[h].op = "list"
  /\ Leave(h)
  /\ req' = [req EXCEPT ![h].at = "write", ![h].rev = rev[req[h].box]]
  /\ UNCHANGED <<ops, session, cred, watcher, rev, cache, news, requests, faults>>

\* fn of search, syncMessages, getMessage, getAttachment: never cached.
Read(h) ==
  /\ req[h].at = "fn" /\ entry[req[h].entry].open /\ req[h].op = "read"
  /\ Leave(h)
  /\ Finish(h)
  /\ UNCHANGED <<ops, session, cred, watcher, rev, cache, news, requests, faults>>

\* setFlag, move, remove, createFolder, renameFolder, deleteFolder, drafts.
Change(h) ==
  LET b == req[h].box IN
  /\ req[h].at = "fn" /\ entry[req[h].entry].open
  /\ req[h].op = "change" /\ rev[b] < MaxRev
  /\ Leave(h)
  /\ rev' = [rev EXCEPT ![b] = @ + 1]
  /\ req' = [req EXCEPT ![h].at = "bust", ![h].rev = rev[b] + 1]
  /\ UNCHANGED <<ops, session, cred, watcher, cache, news, requests, faults>>

\* The command fails on a connection that was closed, a change is refused, or the
\* connection breaks: a change may have been made or not.
CommandFails(h) ==
  /\ \/ /\ req[h].at = "fn" /\ (~entry[req[h].entry].open \/ req[h].op = "change")
        /\ UNCHANGED faults
     \/ req[h].at \in {"fn", "connect"} /\ Fault
  /\ Leave(h)
  /\ \/ UNCHANGED rev
     \/ /\ req[h].op = "change" /\ req[h].at = "fn" /\ rev[req[h].box] < MaxRev
        /\ rev' = [rev EXCEPT ![req[h].box] = @ + 1]
  /\ Finish(h)
  /\ UNCHANGED <<ops, session, cred, watcher, cache, news, requests>>
-----------------------------------------------------------------------------
(* WebmailCache.                                                           *)

\* Another bust of the mailbox has read an index that does not name the view.
Missed(b) ==
  \/ \E h \in Handlers : req[h].at = "del" /\ req[h].box = b /\ req[h].hit = {}
  \/ news[b] = "miss"

\* setFolders, setMessageList: the view and its index entry in one MULTI.
CacheSet(h) ==
  LET b == req[h].box IN
  /\ req[h].at = "write"
  /\ view' = [view EXCEPT ![b] = req[h].rev]
  /\ idx' = idx \cup {b}
  /\ crossed' = IF req[h].rev < rev[b] \/ Missed(b) THEN crossed \cup {b} ELSE crossed \ {b}
  /\ Finish(h)
  /\ UNCHANGED <<ops, session, cred, conns, rev, told, news, requests, faults>>

\* DEL of the keys SMEMBERS gave and of the index.
Drop(b, hit) ==
  /\ view' = IF b \in hit THEN [view EXCEPT ![b] = NoView] ELSE view
  /\ crossed' = crossed \ hit
  /\ idx' = idx \ {b}

\* bustMailbox after a change: SMEMBERS ...
BustRead(h) ==
  /\ req[h].at = "bust"
  /\ req' = [req EXCEPT ![h].at = "del", ![h].hit = idx \cap {req[h].box}]
  /\ UNCHANGED <<ops, session, cred, conns, rev, cache, news, requests, faults>>

\* ... then DEL; the change is answered.
BustDel(h) ==
  LET b == req[h].box IN
  /\ req[h].at = "del"
  /\ Drop(b, req[h].hit)
  /\ told' = [told EXCEPT ![b] = IF req[h].rev > @ THEN req[h].rev ELSE @]
  /\ Finish(h)
  /\ UNCHANGED <<ops, session, cred, conns, rev, news, requests, faults>>

ViewExpires(b) ==
  /\ view[b] # NoView
  /\ view' = [view EXCEPT ![b] = NoView]
  /\ idx' = idx \ {b} /\ crossed' = crossed \ {b}
  /\ UNCHANGED <<ops, session, cred, conns, rev, told, news, req, requests, faults>>

\* Redis fails under a request: it is answered with an error.
RedisFails(h) ==
  /\ req[h].at \in {"cache", "creds", "write", "bust", "del"}
  /\ Fault
  /\ Finish(h)
  /\ UNCHANGED <<ops, session, cred, conns, rev, cache, news, requests>>
-----------------------------------------------------------------------------
(* ImapIdleWatcher.                                                        *)

\* Mail is delivered, or another client changes the mailbox.
Arrives(b) ==
  /\ rev[b] < MaxRev
  /\ rev' = [rev EXCEPT ![b] = @ + 1]
  /\ news' = [news EXCEPT ![b] = IF b \in watcher /\ @ = "none" THEN "bust" ELSE @]
  /\ UNCHANGED <<ops, session, cred, conns, cache, req, requests, faults>>

\* emit: void cache.bustMailbox, nobody waits for it.
NotifyRead(b) ==
  /\ news[b] = "bust"
  /\ news' = [news EXCEPT ![b] = IF b \in idx THEN "hit" ELSE "miss"]
  /\ UNCHANGED <<ops, session, cred, conns, rev, cache, req, requests, faults>>

NotifyDel(b) ==
  /\ news[b] \in {"hit", "miss"}
  /\ Drop(b, IF news[b] = "hit" THEN {b} ELSE {})
  /\ news' = [news EXCEPT ![b] = "none"]
  /\ UNCHANGED <<ops, session, cred, conns, rev, told, req, requests, faults>>

Stop(B) == watcher' = watcher \ B /\ sockets' = sockets - Cardinality(watcher \cap B)

\* watch: the watcher of the same folder is kept, another one is stopped first.
Watch(h) ==
  LET b == req[h].box IN
  /\ req[h].at = "watch"
  /\ \/ b \in watcher /\ Finish(h) /\ UNCHANGED <<watcher, sockets>>
     \/ Goto(h, "idleConnect") /\ Stop({b})
  /\ UNCHANGED <<ops, session, cred, map, entry, stray, rev, cache, news, requests, faults>>

WatchConnect(h) ==
  /\ req[h].at = "idleConnect"
  /\ sockets' = sockets + 1
  /\ Goto(h, "idleOpen")
  /\ UNCHANGED <<ops, session, cred, map, entry, watcher, stray, rev, cache, news, requests, faults>>

\* watchers.set: one that another request registered meanwhile is overwritten.
WatchSet(h) ==
  LET b == req[h].box IN
  /\ req[h].at = "idleOpen"
  /\ watcher' = watcher \cup {b}
  /\ stray' = stray + IF b \in watcher THEN 1 ELSE 0
  /\ Finish(h)
  /\ UNCHANGED <<ops, session, cred, map, entry, sockets, rev, cache, news, requests, faults>>

\* connect or mailboxOpen throws; after mailboxOpen the connection stays open.
WatchFails(h) ==
  /\ req[h].at \in {"idleConnect", "idleOpen"}
  /\ Fault
  /\ stray' = stray + IF req[h].at = "idleOpen" THEN 1 ELSE 0
  /\ Finish(h)
  /\ UNCHANGED <<ops, session, cred, map, entry, watcher, sockets, rev, cache, news, requests>>

Unwatch(h) ==
  /\ req[h].at = "unwatch"
  /\ Stop({req[h].box})
  /\ Finish(h)
  /\ UNCHANGED <<ops, session, cred, map, entry, stray, rev, cache, news, requests, faults>>
-----------------------------------------------------------------------------
(* lock, logout and revokeSession.                                         *)

\* lock: remove the credential, then unwatch.
Lock(h) ==
  /\ req[h].at = "lock"
  /\ cred' = cred \ {req[h].box}
  /\ Goto(h, "unwatch")
  /\ UNCHANGED <<ops, session, conns, rev, cache, news, requests, faults>>

Logout(h) ==
  /\ req[h].at = "logout"
  /\ session' = FALSE
  /\ Goto(h, "purge")
  /\ UNCHANGED <<ops, cred, conns, rev, cache, news, requests, faults>>

\* credStore.purgeSession: SMEMBERS, then DEL.
PurgeRead(h) ==
  /\ req[h].at = "purge"
  /\ req' = [req EXCEPT ![h].at = "purgeDel", ![h].hit = cred]
  /\ UNCHANGED <<ops, session, cred, conns, rev, cache, news, requests, faults>>

PurgeDel(h) ==
  /\ req[h].at = "purgeDel"
  /\ cred' = cred \ req[h].hit
  /\ Goto(h, "purgePool")
  /\ UNCHANGED <<ops, session, conns, rev, cache, news, requests, faults>>

\* imapSessions.purgeSession: every entry is closed and leaves the Map, used or not.
PurgePool(h) ==
  /\ req[h].at = "purgePool"
  /\ Delete(pool)
  /\ entry' = [e \in Entries |->
       IF e \notin pool THEN entry[e]
       ELSE IF InUse(e) THEN [entry[e] EXCEPT !.open = FALSE] ELSE Unused]
  /\ sockets' = sockets - Sockets(pool)
  /\ Goto(h, "purgeIdle")
  /\ UNCHANGED <<ops, session, cred, watcher, stray, rev, cache, news, requests, faults>>

\* imapIdle.purgeSession.
PurgeIdle(h) ==
  /\ req[h].at = "purgeIdle"
  /\ Stop(Boxes)
  /\ Finish(h)
  /\ UNCHANGED <<ops, session, cred, map, entry, stray, rev, cache, news, requests, faults>>
-----------------------------------------------------------------------------
(* Timers, and connections the server closes.                              *)

\* sweepIdle of the pool: never an entry in use.
SweepPool(e) ==
  /\ e \in pool /\ ~InUse(e)
  /\ Delete({e})
  /\ entry' = [entry EXCEPT ![e] = Unused]
  /\ sockets' = sockets - Sockets({e})
  /\ UNCHANGED <<ops, session, cred, watcher, stray, rev, cache, news, req, requests, faults>>

\* sweepIdle of the watchers.
SweepWatcher(b) ==
  /\ b \in watcher
  /\ Stop({b})
  /\ UNCHANGED <<ops, session, cred, map, entry, stray, rev, cache, news, req, requests, faults>>

\* A pooled connection is no longer usable; a watcher that closes leaves its Map.
ConnectionLost ==
  /\ Fault
  /\ \/ \E e \in Entries : /\ entry[e].open
                           /\ entry' = [entry EXCEPT ![e].open = FALSE]
                           /\ sockets' = sockets - 1
                           /\ UNCHANGED watcher
     \/ \E b \in watcher : Stop({b}) /\ UNCHANGED entry
  /\ UNCHANGED <<ops, session, cred, map, stray, rev, cache, news, req, requests>>
-----------------------------------------------------------------------------
Step(h) ==
  \/ CacheGet(h) \/ Creds(h) \/ Unlock(h)
  \/ Run(h) \/ Begin(h) \/ Connect(h) \/ List(h) \/ Read(h) \/ Change(h) \/ CommandFails(h)
  \/ CacheSet(h) \/ BustRead(h) \/ BustDel(h)
  \/ Watch(h) \/ WatchConnect(h) \/ WatchSet(h) \/ Unwatch(h)
  \/ Lock(h) \/ Logout(h) \/ PurgeRead(h) \/ PurgeDel(h) \/ PurgePool(h) \/ PurgeIdle(h)

Timers ==
  (\E e \in Entries : SweepPool(e)) \/ (\E b \in Boxes : SweepWatcher(b))

Next ==
  \/ \E h \in Handlers : Request(h) \/ Step(h) \/ RedisFails(h) \/ WatchFails(h)
  \/ \E b \in Boxes :
       CredExpires(b) \/ ViewExpires(b) \/ Arrives(b) \/ NotifyRead(b) \/ NotifyDel(b)
  \/ Timers \/ ConnectionLost

Spec == Init /\ [][Next]_vars
-----------------------------------------------------------------------------
(* Properties.                                                             *)

Working(h) == req[h].at \in {"connect", "fn"}

\* Types; a mailbox has one entry in the Map.
TypeOK ==
  /\ pool \subseteq Entries
  /\ \A d, e \in pool : entry[d].box = entry[e].box => d = e
  /\ cred \cup watcher \cup idx \cup crossed \subseteq Boxes
  /\ sockets \in Nat /\ stray \in Nat
  /\ \A b \in Boxes : rev[b] \in 0 .. MaxRev /\ view[b] \in 0 .. NoView

\* "evicted LRU past a hard cap": the pool is within its cap whenever none of its
\* connections is in use.
PoolWithinCap == (\A e \in pool : ~InUse(e)) => Cardinality(pool) <= IMAP_POOL_MAX

\* Eviction and sweeps never close a connection under a request: as long as the
\* server closes none, only a logout does.
InUseIsOpen ==
  session /\ faults = 0 => \A h \in Handlers : req[h].at = "fn" => entry[req[h].entry].open

\* Every open connection is in an entry, in a watcher, or about to be registered;
\* what is not was lost by an overlap of watch requests, a failed mailboxOpen or a logout under
\* queued work, and by nothing else.
ConnectionsAccounted ==
  sockets = stray + Sockets(Entries) + Cardinality(watcher)
            + Cardinality({h \in Handlers : req[h].at = "idleOpen"})

\* "Calls for the same key run one at a time", "Keep the queue alive even if this op
\* rejects": a request waits in the chain of its mailbox's entry and works at its head,
\* and nobody else is in a chain, so the chain gets to everyone.
QueuesAreLive ==
  /\ \A h \in Handlers :
       LET e == req[h].entry
       IN  Working(h) \/ req[h].at = "queued" =>
             /\ entry[e].box = req[h].box /\ h \in Waiting(e)
             /\ Working(h) => Head(entry[e].queue) = h
  /\ \A e \in Entries : \A h \in Waiting(e) :
       req[h].entry = e /\ (Working(h) \/ req[h].at = "queued")

\* The connections of the session are where they should be.
PoolIsSound == PoolWithinCap /\ InUseIsOpen /\ ConnectionsAccounted /\ QueuesAreLive

\* "explicit busting on any mutation": once a change was answered no cached view from
\* before it is served, unless a listing overlapped the change, or a bust.
ReadYourWrites ==
  \A b \in Boxes \ crossed : view[b] # NoView => view[b] >= told[b]
===============================================================================
