------------------------ MODULE WebmailSessionProofs ------------------------
(***************************************************************************)
(* Theorems about WebmailSession, for any mailboxes, requests in flight,   *)
(* cap of the pool, revisions and faults.                                  *)
(***************************************************************************)
EXTENDS WebmailSession, FiniteSetTheorems, TLAPS

\* The requests in flight.
Queuing == {"queued", "connect", "fn"}
Purging == {"purge", "purgeDel", "purgePool", "purgeIdle"}
Steps == {"idle", "cache", "creds", "run", "write", "bust", "del", "watch", "idleConnect", "idleOpen",
          "unwatch", "unlock", "lock", "logout"} \cup Queuing \cup Purging
ReqShape(q) == q = [op |-> q.op, at |-> q.at, box |-> q.box, entry |-> q.entry, rev |-> q.rev, hit |-> q.hit]
Placed(q) ==
  /\ ReqShape(q) /\ q.at \in Steps
  /\ q.at # "idle" => q.box \in Boxes
  /\ q.at \in Queuing => q.entry \in Entries
ReqTable == req = [h \in Handlers |-> req[h]] /\ ops \subseteq Kinds /\ \A h \in Handlers : Placed(req[h])

\* The entries of the pool and their chains.
EntryShape(x) == x = [box |-> x.box, open |-> x.open, queue |-> x.queue] /\ x.open \in BOOLEAN /\ x.queue \in Seq(Handlers)
EntryTable ==
  /\ entry = [e \in Entries |-> entry[e]] /\ \A e \in Entries : EntryShape(entry[e])
  /\ pool \subseteq Entries /\ \A e \in pool : entry[e].box \in Boxes
  /\ \A d, e \in pool : entry[d].box = entry[e].box => d = e
ChainInv ==
  /\ \A e \in Entries : \A i, j \in 1 .. Len(entry[e].queue) : entry[e].queue[i] = entry[e].queue[j] => i = j
  /\ \A e \in Entries : \A h \in Waiting(e) : req[h].entry = e /\ req[h].at \in Queuing
  /\ \A h \in Handlers : req[h].at \in Queuing => entry[req[h].entry].box = req[h].box /\ h \in Waiting(req[h].entry)
  /\ \A h \in Handlers : Working(h) => Head(entry[req[h].entry].queue) = h
  /\ \A h \in Handlers : req[h].at = "connect" => ~entry[req[h].entry].open
OpenInv ==
  /\ faults \in Nat
  /\ \A h \in Handlers : req[h].at \in Purging => ~session
  /\ InUseIsOpen

\* The connections.
Opened == {e \in Entries : entry[e].open}
Opening == {h \in Handlers : req[h].at = "idleOpen"}
SocketInv ==
  /\ watcher \subseteq Boxes /\ stray \in Nat
  /\ sockets = stray + Cardinality(Opened) + Cardinality(watcher) + Cardinality(Opening)

\* The views.  One that is not marked is in the index, and no bust has missed it.
Dated == {"write", "bust", "del"}
ViewTypes ==
  /\ rev \in [Boxes -> 0 .. MaxRev] /\ view \in [Boxes -> 0 .. NoView] /\ told \in [Boxes -> 0 .. MaxRev]
  /\ cred \cup idx \cup crossed \subseteq Boxes
  /\ DOMAIN news = Boxes
  /\ \A b \in Boxes : told[b] <= rev[b]
  /\ \A h \in Handlers : req[h].at \in Dated => req[h].rev \in 0 .. rev[req[h].box]
  /\ \A h \in Handlers : req[h].at = "del" => req[h].hit \subseteq {req[h].box}
ViewInv ==
  \A b \in Boxes \ crossed : view[b] # NoView => view[b] >= told[b] /\ b \in idx /\ ~Missed(b)

\* The inductive invariant.
SessionInv == ReqTable /\ EntryTable /\ ChainInv /\ OpenInv /\ PoolWithinCap /\ SocketInv /\ ViewTypes /\ ViewInv

-----------------------------------------------------------------------------
(* What a step leaves alone.                                               *)

\* A step gives one request a new record.
LEMMA Moved ==
  ASSUME ReqTable, ops' = ops, NEW h \in Handlers, NEW q, Placed(q), req' = [req EXCEPT ![h] = q]
  PROVE  ReqTable' /\ req'[h] = q /\ \A g \in Handlers : g # h => req'[g] = req[g]
  BY DEF ReqTable, Placed, ReqShape

\* A request goes on to its next await.
LEMMA Goes ==
  ASSUME ReqTable, NEW h \in Handlers, NEW s \in Steps, req[h].at # "idle",
         s \in Queuing => req[h].at \in Queuing, Goto(h, s)
  PROVE  \E q : /\ req' = [req EXCEPT ![h] = q] /\ Placed(q)
                /\ q.at = s /\ q.op = req[h].op /\ q.box = req[h].box /\ q.entry = req[h].entry
  <1> DEFINE q == [op |-> req[h].op, at |-> s, box |-> req[h].box, entry |-> req[h].entry, rev |-> req[h].rev, hit |-> req[h].hit]
  <1>0. Placed(req[h]) /\ req = [g \in Handlers |-> req[g]]
    BY DEF ReqTable
  <1>1. [req[h] EXCEPT !.at = s] = q
    BY <1>0 DEF Placed, ReqShape
  <1>2. req' = [req EXCEPT ![h] = q]
    BY <1>0, <1>1 DEF Goto
  <1>3. Placed(q)
    BY <1>0 DEF Placed, ReqShape
  <1>4. q.at = s /\ q.op = req[h].op /\ q.box = req[h].box /\ q.entry = req[h].entry
    OBVIOUS
  <1> QED BY <1>2, <1>3, <1>4

\* A request is answered.
LEMMA Ends ==
  ASSUME NEW h \in Handlers, Finish(h)
  PROVE  \E q : req' = [req EXCEPT ![h] = q] /\ Placed(q) /\ q.at = "idle"
  <1>1. Placed(Idle) /\ Idle.at = "idle"
    BY DEF Idle, Placed, ReqShape, Steps, Queuing
  <1> QED BY <1>1 DEF Finish

\* The requests that are in a chain, or have just opened a watcher's connection, stay so.
Apart == \A g \in Handlers :
  req'[g] = req[g] \/ (req[g].at \notin Queuing /\ req'[g].at \notin Queuing)

LEMMA ChainsKept ==
  ASSUME ReqTable, EntryTable, ChainInv, PoolWithinCap, UNCHANGED <<pool, older, entry>>, Apart
  PROVE  EntryTable' /\ ChainInv' /\ PoolWithinCap'
  <1>1. EntryTable'
    BY DEF EntryTable, EntryShape
  <1>2. PoolWithinCap'
    BY DEF PoolWithinCap, InUse
  <1>3. \A e \in Entries : Waiting(e)' = Waiting(e)
    BY DEF Waiting
  <1>4. \A e \in Entries : Waiting(e) \subseteq Handlers
    BY DEF Waiting, EntryTable, EntryShape
  <1>5. \A h \in Handlers : req'[h].at \in Queuing => req'[h] = req[h] /\ req[h].entry \in Entries
    BY DEF Apart, ReqTable, Placed
  <1>6. \A e \in Entries : \A h \in Waiting(e)' : req'[h] = req[h]
    BY <1>3, <1>4 DEF ChainInv, Apart
  <1>7. \A e \in Entries : \A h \in Waiting(e)' : req'[h].entry = e /\ req'[h].at \in Queuing
    BY <1>3, <1>6 DEF ChainInv
  <1>8. \A h \in Handlers : req'[h].at \in Queuing => entry'[req'[h].entry].box = req'[h].box /\ h \in Waiting(req[h].entry)'
    BY <1>3, <1>5 DEF ChainInv
  <1>9. \A h \in Handlers : Working(h)' => Working(h) /\ req'[h] = req[h]
    BY <1>5 DEF Working, Queuing
  <1>10. \A h \in Handlers : req'[h].at = "connect" => req[h].at = "connect" /\ req'[h] = req[h]
    BY <1>5 DEF Queuing
  <1> QED BY <1>1, <1>2, <1>5, <1>7, <1>8, <1>9, <1>10 DEF ChainInv

LEMMA OpenKept ==
  ASSUME ReqTable, OpenInv, entry' = entry, session' => session, faults' \in Nat, faults' >= faults,
         \A g \in Handlers : req'[g].at = "fn" => req'[g] = req[g],
         \A g \in Handlers : req'[g].at \in Purging => req[g].at \in Purging \/ ~session'
  PROVE  OpenInv'
  <1>1. \A g \in Handlers : req'[g].at \in Purging => ~session'
    BY DEF OpenInv
  <1>2. InUseIsOpen'
    BY DEF OpenInv, InUseIsOpen
  <1> QED BY <1>1, <1>2 DEF OpenInv

LEMMA SocketsKept ==
  ASSUME SocketInv, UNCHANGED <<entry, watcher, sockets, stray>>,
         \A g \in Handlers : req'[g].at = "idleOpen" <=> req[g].at = "idleOpen"
  PROVE  SocketInv'
  BY DEF SocketInv, Opened, Opening

LEMMA ViewsKept ==
  ASSUME ReqTable', ViewTypes, ViewInv, UNCHANGED cache, cred' \subseteq Boxes,
         rev' \in [Boxes -> 0 .. MaxRev], \A b \in Boxes : rev[b] <= rev'[b],
         DOMAIN news' = Boxes, \A b \in Boxes : news'[b] = "miss" => news[b] = "miss",
         \A g \in Handlers : \/ req'[g] = req[g]
                             \/ req'[g].at # "del" /\ (req'[g].at \in Dated => req'[g].rev \in 0 .. rev'[req'[g].box])
  PROVE  ViewTypes' /\ ViewInv'
  <1>1. \A b \in Boxes : Missed(b)' => Missed(b)
    BY DEF Missed
  <1>2. \A g \in Handlers : req'[g].at \in Dated => req'[g].box \in Boxes
    BY DEF ReqTable, Placed, Dated
  <1>3. \A g \in Handlers : req'[g].at \in Dated => req'[g].rev \in 0 .. rev'[req'[g].box]
    BY <1>2 DEF ViewTypes
  <1>4. \A g \in Handlers : req'[g].at = "del" => req'[g].hit \subseteq {req'[g].box}
    BY DEF ViewTypes
  <1>5. \A b \in Boxes : told[b] <= rev'[b]
    BY DEF ViewTypes
  <1> QED BY <1>1, <1>3, <1>4, <1>5 DEF ViewTypes, ViewInv, cache

\* A step outside the pool, the watchers and the views.
LEMMA QuietStep ==
  ASSUME SessionInv, ops' = ops, NEW h \in Handlers, NEW q, Placed(q), req' = [req EXCEPT ![h] = q],
         UNCHANGED <<conns, rev, cache, news>>, cred' \subseteq Boxes,
         session' => session, faults' \in Nat, faults' >= faults,
         req[h].at \notin Queuing, req[h].at # "idleOpen",
         q.at \notin Queuing, q.at \notin Dated, q.at # "idleOpen",
         q.at \in Purging => req[h].at \in Purging \/ ~session'
  PROVE  SessionInv'
  <1> USE DEF SessionInv
  <1>1. ReqTable' /\ req'[h] = q /\ \A g \in Handlers : g # h => req'[g] = req[g]
    BY Moved
  <1>2. EntryTable' /\ ChainInv' /\ PoolWithinCap'
    BY <1>1, ChainsKept DEF Apart, conns, map
  <1>3. OpenInv'
    BY <1>1, OpenKept DEF conns, Queuing
  <1>4. SocketInv'
    BY <1>1, SocketsKept DEF conns
  <1>5. ViewTypes' /\ ViewInv'
    BY <1>1, ViewsKept DEF ViewTypes, Dated
  <1> QED BY <1>1, <1>2, <1>3, <1>4, <1>5

\* The constants.
Assumed == PoolAssumption /\ BoundsAssumption /\ KindsAssumption
-----------------------------------------------------------------------------
(* Requests that touch neither the pool nor the views.                     *)

LEMMA RequestStep ==
  ASSUME SessionInv, NEW h \in Handlers, Request(h)
  PROVE  SessionInv'
  <1>1. PICK op \in ops, b \in Boxes : req' = [req EXCEPT ![h] = [Idle EXCEPT !.op = op, !.at = First(op), !.box = b]]
    BY DEF Request
  <1> DEFINE q == [op |-> op, at |-> First(op), box |-> b, entry |-> NoEntry, rev |-> 0, hit |-> {}]
  <1>2. op \in Kinds /\ First(op) \in {"cache", "creds", "unwatch", "unlock", "lock", "logout"}
    BY DEF SessionInv, ReqTable, Kinds, First
  <1>3. Placed(q) /\ q.at = First(op)
    BY <1>2 DEF Placed, ReqShape, Steps, Queuing
  <1>4. req' = [req EXCEPT ![h] = q]
    <2>1. PICK r : r = [Idle EXCEPT !.op = op, !.at = First(op), !.box = b]
      OBVIOUS
    <2>2. r = q
      BY <2>1 DEF Idle
    <2> QED BY <1>1, <2>1, <2>2
  <1>5. req[h].at = "idle"
    BY DEF Request, Idle
  <1>6. UNCHANGED <<ops, session, cred, conns, rev, cache, news, faults>>
    BY DEF Request
  <1>7. cred' \subseteq Boxes /\ faults' \in Nat /\ faults' >= faults
    BY <1>6 DEF SessionInv, OpenInv, ViewTypes
  <1> HIDE DEF q
  <1>8. /\ req[h].at \notin Queuing /\ req[h].at # "idleOpen"
        /\ q.at \notin Queuing /\ q.at \notin Dated /\ q.at # "idleOpen" /\ q.at \notin Purging
    BY <1>2, <1>3, <1>5 DEF Queuing, Dated, Purging
  <1> QED BY <1>3, <1>4, <1>6, <1>7, <1>8, QuietStep

LEMMA LookupStep ==
  ASSUME SessionInv, NEW h \in Handlers, CacheGet(h) \/ Creds(h) \/ Unlock(h)
  PROVE  SessionInv'
  <1> USE DEF SessionInv
  <1>1. req[h].at \in {"cache", "creds", "unlock"} /\ req[h].box \in Boxes
    BY DEF CacheGet, Creds, Unlock, ReqTable, Placed
  <1>2. Finish(h) \/ Goto(h, "creds") \/ Goto(h, "watch") \/ Goto(h, "run")
    BY DEF CacheGet, Creds, Unlock
  <1>3. PICK q : req' = [req EXCEPT ![h] = q] /\ Placed(q) /\ q.at \in {"idle", "creds", "watch", "run"}
    <2>1. CASE Finish(h)
      BY <2>1, Ends
    <2>2. ASSUME NEW s \in {"creds", "watch", "run"}, Goto(h, s)
          PROVE  \E q : req' = [req EXCEPT ![h] = q] /\ Placed(q) /\ q.at = s
      BY <1>1, <2>2, Goes DEF Steps, Queuing
    <2> QED BY <1>2, <2>1, <2>2
  <1>4. cred' \subseteq Boxes
    BY <1>1 DEF CacheGet, Creds, Unlock, ViewTypes
  <1>5. UNCHANGED <<ops, session, conns, rev, cache, news, requests, faults>>
    BY DEF CacheGet, Creds, Unlock
  <1>6. faults' \in Nat /\ faults' >= faults
    BY <1>5 DEF OpenInv
  <1>7. /\ req[h].at \notin Queuing /\ req[h].at # "idleOpen"
        /\ q.at \notin Queuing /\ q.at \notin Dated /\ q.at # "idleOpen" /\ q.at \notin Purging
    BY <1>1, <1>3 DEF Queuing, Dated, Purging
  <1> HIDE DEF SessionInv
  <1> QED BY <1>3, <1>4, <1>5, <1>6, <1>7, QuietStep

LEMMA RevokeStep ==
  ASSUME SessionInv, NEW h \in Handlers, Lock(h) \/ Logout(h) \/ PurgeRead(h) \/ PurgeDel(h)
  PROVE  SessionInv'
  <1> USE DEF SessionInv
  <1>1. req[h].at \in {"lock", "logout", "purge", "purgeDel"} /\ Placed(req[h])
    BY DEF Lock, Logout, PurgeRead, PurgeDel, ReqTable
  <1>2. cred' \subseteq Boxes
    BY DEF Lock, Logout, PurgeRead, PurgeDel, ViewTypes
  <1>3. UNCHANGED <<ops, conns, rev, cache, news, requests, faults>> /\ (session' => session)
    BY DEF Lock, Logout, PurgeRead, PurgeDel
  <1>4. PICK q : req' = [req EXCEPT ![h] = q] /\ Placed(q) /\ q.at \in {"unwatch"} \cup Purging
    <2>1. CASE PurgeRead(h)
      <3> DEFINE q == [op |-> req[h].op, at |-> "purgeDel", box |-> req[h].box, entry |-> req[h].entry, rev |-> req[h].rev, hit |-> cred]
      <3>1. req' = [req EXCEPT ![h] = q]
        <4>0. PICK r : r = [req[h] EXCEPT !.at = "purgeDel", !.hit = cred]
          OBVIOUS
        <4>1. r = q
          BY <1>1, <4>0 DEF Placed, ReqShape
        <4>2. req' = [req EXCEPT ![h] = [req[h] EXCEPT !.at = "purgeDel", !.hit = cred]]
          BY <2>1 DEF PurgeRead
        <4> QED BY <4>0, <4>1, <4>2
      <3>2. Placed(q) /\ q.at = "purgeDel"
        BY <1>1 DEF Placed, ReqShape, Steps, Queuing, Purging
      <3> QED BY <3>1, <3>2 DEF Purging
    <2>2. CASE Lock(h) \/ Logout(h) \/ PurgeDel(h)
      BY <1>1, <2>2, Goes DEF Lock, Logout, PurgeDel, Steps, Queuing, Purging
    <2> QED BY <2>1, <2>2
  <1>5. q.at \in Purging => req[h].at \in Purging \/ ~session'
    <2>1. CASE Lock(h)
      <3>0. req' = [req EXCEPT ![h] = [req[h] EXCEPT !.at = "unwatch"]] /\ [req[h] EXCEPT !.at = "unwatch"].at = "unwatch"
        BY <1>1, <2>1 DEF Lock, Goto, Placed, ReqShape
      <3>1. req'[h].at = "unwatch"
        BY <3>0 DEF ReqTable
      <3>2. req'[h] = q
        BY <1>4 DEF ReqTable
      <3> QED BY <3>1, <3>2 DEF Purging
    <2> QED BY <2>1 DEF Logout, PurgeRead, PurgeDel, Purging
  <1>6. faults' \in Nat /\ faults' >= faults
    BY <1>3 DEF OpenInv
  <1>7. /\ req[h].at \notin Queuing /\ req[h].at # "idleOpen"
        /\ q.at \notin Queuing /\ q.at \notin Dated /\ q.at # "idleOpen"
    BY <1>1, <1>4 DEF Queuing, Dated, Purging
  <1> HIDE DEF SessionInv
  <1> QED BY <1>2, <1>3, <1>4, <1>5, <1>6, <1>7, QuietStep

LEMMA RedisStep ==
  ASSUME SessionInv, NEW h \in Handlers, RedisFails(h)
  PROVE  SessionInv'
  <1>1. PICK q : req' = [req EXCEPT ![h] = q] /\ Placed(q) /\ q.at = "idle"
    BY Ends DEF RedisFails
  <1>2. req[h].at \in {"cache", "creds", "write", "bust", "del"} /\ Fault
    BY DEF RedisFails
  <1>3. UNCHANGED <<ops, session, cred, conns, rev, cache, news>>
    BY DEF RedisFails
  <1>4. cred' \subseteq Boxes /\ faults' \in Nat /\ faults' >= faults
    BY <1>2, <1>3 DEF Fault, SessionInv, OpenInv, ViewTypes
  <1>5. /\ req[h].at \notin Queuing /\ req[h].at # "idleOpen"
        /\ q.at \notin Queuing /\ q.at \notin Dated /\ q.at # "idleOpen" /\ q.at \notin Purging
    BY <1>1, <1>2 DEF Queuing, Dated, Purging
  <1> QED BY <1>1, <1>3, <1>4, <1>5, QuietStep

LEMMA ExpiryStep ==
  ASSUME SessionInv, NEW b \in Boxes, CredExpires(b)
  PROVE  SessionInv'
  <1> USE DEF SessionInv, CredExpires
  <1>1. ReqTable' /\ \A g \in Handlers : req'[g] = req[g]
    BY DEF ReqTable
  <1>2. EntryTable' /\ ChainInv' /\ PoolWithinCap'
    BY <1>1, ChainsKept DEF Apart, conns, map
  <1>3. OpenInv'
    BY <1>1, OpenKept DEF conns, OpenInv
  <1>4. SocketInv'
    BY <1>1, SocketsKept DEF conns
  <1>5. ViewTypes' /\ ViewInv'
    BY <1>1, ViewsKept DEF ViewTypes, Dated
  <1> QED BY <1>1, <1>2, <1>3, <1>4, <1>5

-----------------------------------------------------------------------------
(* The views.                                                              *)

LEMMA ConnsKept ==
  ASSUME SessionInv, UNCHANGED <<conns, session, faults>>,
         \A g \in Handlers : \/ req'[g] = req[g]
                             \/ /\ req[g].at \notin Queuing /\ req[g].at # "idleOpen"
                                /\ req'[g].at \notin Queuing /\ req'[g].at # "idleOpen" /\ req'[g].at \notin Purging
  PROVE  EntryTable' /\ ChainInv' /\ PoolWithinCap' /\ OpenInv' /\ SocketInv'
  <1> USE DEF SessionInv
  <1>1. EntryTable' /\ ChainInv' /\ PoolWithinCap'
    BY ChainsKept DEF Apart, conns, map
  <1>2. faults' \in Nat /\ faults' >= faults
    BY DEF OpenInv
  <1>3. OpenInv'
    BY <1>2, OpenKept DEF conns, Queuing
  <1>4. SocketInv'
    BY SocketsKept DEF conns
  <1> QED BY <1>1, <1>3, <1>4

\* A bust of a view that is not in the index has missed it.
LEMMA MissedBy ==
  ASSUME ViewInv, NEW b \in Boxes, Missed(b), view[b] # NoView
  PROVE  b \in crossed
  BY DEF ViewInv

LEMMA CacheSetStep ==
  ASSUME Assumed, SessionInv, NEW h \in Handlers, CacheSet(h)
  PROVE  SessionInv'
  <1> USE DEF SessionInv
  <1>1. PICK q : req' = [req EXCEPT ![h] = q] /\ Placed(q) /\ q.at = "idle"
    BY Ends DEF CacheSet
  <1>2. ReqTable' /\ req'[h].at = "idle" /\ \A g \in Handlers : g # h => req'[g] = req[g]
    BY <1>1, Moved DEF CacheSet
  <1>3. PICK b \in Boxes : b = req[h].box
    BY DEF CacheSet, ReqTable, Placed
  <1>4. req[h].at = "write" /\ req[h].rev \in 0 .. rev[b]
    BY <1>3 DEF CacheSet, ViewTypes, Dated
  <1>5. EntryTable' /\ ChainInv' /\ PoolWithinCap' /\ OpenInv' /\ SocketInv'
    BY <1>2, <1>4, ConnsKept DEF CacheSet, Queuing, Purging
  <1>6. /\ view' = [view EXCEPT ![b] = req[h].rev] /\ idx' = idx \cup {b}
        /\ crossed' = IF req[h].rev < rev[b] \/ Missed(b) THEN crossed \cup {b} ELSE crossed \ {b}
        /\ UNCHANGED <<cred, rev, told, news>>
    BY <1>3 DEF CacheSet
  <1>7. \A c \in Boxes : Missed(c)' <=> Missed(c)
    BY <1>2, <1>4, <1>6 DEF Missed
  <1>8. MaxRev \in Nat /\ rev[b] \in 0 .. MaxRev /\ NoView = MaxRev + 1 /\ told[b] \in 0 .. rev[b]
    BY DEF Assumed, BoundsAssumption, ViewTypes, NoView
  <1>9. ViewTypes'
    <2>1. req[h].rev \in 0 .. NoView
      BY <1>4, <1>8
    <2>2. view' \in [Boxes -> 0 .. NoView]
      BY <1>6, <2>1 DEF ViewTypes
    <2>3. \A g \in Handlers : req'[g].at \in Dated => req'[g].rev \in 0 .. rev'[req'[g].box]
      BY <1>2, <1>6 DEF ViewTypes, Dated
    <2>4. \A g \in Handlers : req'[g].at = "del" => req'[g].hit \subseteq {req'[g].box}
      BY <1>2 DEF ViewTypes
    <2>5. \A c \in Boxes : told'[c] <= rev'[c]
      BY <1>6 DEF ViewTypes
    <2>6. cred' \cup idx' \cup crossed' \subseteq Boxes
      BY <1>6 DEF ViewTypes
    <2> QED BY <1>6, <2>2, <2>3, <2>4, <2>5, <2>6 DEF ViewTypes, NoView
  <1>10. ViewInv'
    <2> SUFFICES ASSUME NEW c \in Boxes, c \notin crossed', view'[c] # NoView
                 PROVE  view'[c] >= told'[c] /\ c \in idx' /\ ~Missed(c)'
      BY DEF ViewInv, NoView
    <2>1. CASE c = b
      <3>1. req[h].rev = rev[b] /\ ~Missed(b)
        BY <1>4, <1>6, <1>8, <2>1
      <3>2. view'[b] = rev[b]
        BY <1>6, <3>1 DEF ViewTypes
      <3> QED BY <1>6, <1>7, <1>8, <2>1, <3>1, <3>2
    <2>2. CASE c # b
      <3>1. c \notin crossed /\ view'[c] = view[c]
        BY <1>6, <2>2 DEF ViewTypes
      <3> QED BY <1>6, <1>7, <3>1 DEF ViewInv
    <2> QED BY <2>1, <2>2
  <1> QED BY <1>2, <1>5, <1>9, <1>10

LEMMA BustReadStep ==
  ASSUME SessionInv, NEW h \in Handlers, BustRead(h)
  PROVE  SessionInv'
  <1> USE DEF SessionInv
  <1>1. req[h].at = "bust" /\ Placed(req[h]) /\ req[h].box \in Boxes
    BY DEF BustRead, ReqTable, Placed
  <1> DEFINE hit == idx \cap {req[h].box}
  <1>2. PICK q : q = [req[h] EXCEPT !.at = "del", !.hit = hit]
    OBVIOUS
  <1>3. q = [op |-> req[h].op, at |-> "del", box |-> req[h].box, entry |-> req[h].entry, rev |-> req[h].rev, hit |-> hit]
    BY <1>1, <1>2 DEF Placed, ReqShape
  <1>4. Placed(q) /\ q.at = "del" /\ q.box = req[h].box /\ q.rev = req[h].rev /\ q.hit = hit
    BY <1>1, <1>3 DEF Placed, ReqShape, Steps, Queuing
  <1>5. req' = [req EXCEPT ![h] = q]
    BY <1>2 DEF BustRead
  <1>6. ReqTable' /\ req'[h] = q /\ \A g \in Handlers : g # h => req'[g] = req[g]
    BY <1>4, <1>5, Moved DEF BustRead
  <1>7. EntryTable' /\ ChainInv' /\ PoolWithinCap' /\ OpenInv' /\ SocketInv'
    BY <1>1, <1>4, <1>6, ConnsKept DEF BustRead, Queuing, Purging
  <1>8. UNCHANGED <<cred, rev, view, idx, crossed, told, news>>
    BY DEF BustRead, cache
  <1>9. ViewTypes'
    <2>1. \A g \in Handlers : req'[g].at \in Dated => req'[g].rev \in 0 .. rev'[req'[g].box]
      BY <1>1, <1>4, <1>6, <1>8 DEF ViewTypes, Dated
    <2>2. \A g \in Handlers : req'[g].at = "del" => req'[g].hit \subseteq {req'[g].box}
      BY <1>4, <1>6 DEF ViewTypes
    <2> QED BY <1>8, <2>1, <2>2 DEF ViewTypes, NoView
  <1>10. ViewInv'
    <2>1. \A c \in Boxes : Missed(c)' => Missed(c) \/ c \notin idx
      BY <1>4, <1>6, <1>8 DEF Missed
    <2> QED BY <1>8, <2>1 DEF ViewInv, NoView
  <1> QED BY <1>6, <1>7, <1>9, <1>10

\* A view is dropped, and the index with it.
LEMMA DropKeepsViews ==
  ASSUME Assumed, ViewTypes, ViewInv, NEW b \in Boxes, NEW hit, hit \subseteq {b}, Drop(b, hit),
         b \notin hit => Missed(b), told' \in [Boxes -> 0 .. MaxRev], \A c \in Boxes : c # b => told'[c] = told[c],
         \A c \in Boxes : c # b => (Missed(c)' => Missed(c))
  PROVE  /\ view' \in [Boxes -> 0 .. NoView] /\ idx' \cup crossed' \subseteq Boxes
         /\ ViewInv'
  <1>1. NoView \in 0 .. NoView
    BY DEF Assumed, BoundsAssumption, NoView
  <1>2. view' \in [Boxes -> 0 .. NoView] /\ idx' \cup crossed' \subseteq Boxes
    BY <1>1 DEF Drop, ViewTypes
  <1>3. ASSUME NEW c \in Boxes, c \notin crossed', view'[c] # NoView
        PROVE  view'[c] >= told'[c] /\ c \in idx' /\ ~Missed(c)'
    <2>1. CASE c = b
      <3>1. b \notin hit
        BY <1>3, <2>1 DEF Drop, ViewTypes
      <3>2. Missed(b) /\ view[b] # NoView /\ b \notin crossed
        BY <1>3, <2>1, <3>1 DEF Drop
      <3> QED BY <3>2, MissedBy
    <2>2. CASE c # b
      <3>1. c \notin crossed /\ view'[c] = view[c] /\ (c \in idx => c \in idx')
        BY <1>3, <2>2 DEF Drop, ViewTypes
      <3> QED BY <1>3, <2>2, <3>1 DEF ViewInv
    <2> QED BY <2>1, <2>2
  <1> QED BY <1>2, <1>3 DEF ViewInv, NoView

LEMMA BustDelStep ==
  ASSUME Assumed, SessionInv, NEW h \in Handlers, BustDel(h)
  PROVE  SessionInv'
  <1> USE DEF SessionInv
  <1>1. PICK q : req' = [req EXCEPT ![h] = q] /\ Placed(q) /\ q.at = "idle"
    BY Ends DEF BustDel
  <1>2. ReqTable' /\ req'[h].at = "idle" /\ \A g \in Handlers : g # h => req'[g] = req[g]
    BY <1>1, Moved DEF BustDel
  <1>3. PICK b \in Boxes : b = req[h].box
    BY DEF BustDel, ReqTable, Placed
  <1>4. req[h].at = "del" /\ req[h].rev \in 0 .. rev[b] /\ req[h].hit \subseteq {b}
    BY <1>3 DEF BustDel, ViewTypes, Dated
  <1>5. EntryTable' /\ ChainInv' /\ PoolWithinCap' /\ OpenInv' /\ SocketInv'
    BY <1>2, <1>4, ConnsKept DEF BustDel, Queuing, Purging
  <1>6. /\ Drop(b, req[h].hit) /\ UNCHANGED <<cred, rev, news>>
        /\ told' = [told EXCEPT ![b] = IF req[h].rev > told[b] THEN req[h].rev ELSE told[b]]
    BY <1>3 DEF BustDel
  <1>7. told' \in [Boxes -> 0 .. MaxRev] /\ \A c \in Boxes : told'[c] <= rev[c] /\ (c # b => told'[c] = told[c])
    <2>1. rev[b] \in 0 .. MaxRev /\ MaxRev \in Nat /\ told[b] \in 0 .. rev[b]
      BY DEF Assumed, BoundsAssumption, ViewTypes
    <2>2. (IF req[h].rev > told[b] THEN req[h].rev ELSE told[b]) \in 0 .. rev[b]
      BY <1>4, <2>1
    <2>3. (IF req[h].rev > told[b] THEN req[h].rev ELSE told[b]) \in 0 .. MaxRev
      BY <2>1, <2>2
    <2> HIDE DEF SessionInv
    <2>4. told \in [Boxes -> 0 .. MaxRev] /\ \A c \in Boxes : told[c] <= rev[c]
      BY DEF SessionInv, ViewTypes
    <2> QED BY <1>6, <2>1, <2>2, <2>3, <2>4
  <1>8. b \notin req[h].hit => Missed(b)
    BY <1>3, <1>4 DEF Missed
  <1>9. \A c \in Boxes : Missed(c)' => Missed(c)
    BY <1>2, <1>6 DEF Missed
  <1>10. view' \in [Boxes -> 0 .. NoView] /\ idx' \cup crossed' \subseteq Boxes /\ ViewInv'
    BY <1>4, <1>6, <1>7, <1>8, <1>9, DropKeepsViews
  <1>11. ViewTypes'
    <2>1. \A g \in Handlers : req'[g].at \in Dated => req'[g].rev \in 0 .. rev'[req'[g].box]
      BY <1>2, <1>6 DEF ViewTypes, Dated
    <2>2. \A g \in Handlers : req'[g].at = "del" => req'[g].hit \subseteq {req'[g].box}
      BY <1>2 DEF ViewTypes
    <2> QED BY <1>6, <1>7, <1>10, <2>1, <2>2 DEF ViewTypes, NoView
  <1> QED BY <1>2, <1>5, <1>10, <1>11

\* Steps of the server and the timers on the views: no request moves.
LEMMA ViewTimersStep ==
  ASSUME Assumed, SessionInv, NEW b \in Boxes, ViewExpires(b) \/ NotifyRead(b) \/ NotifyDel(b) \/ Arrives(b)
  PROVE  SessionInv'
  <1> USE DEF SessionInv
  <1>1. UNCHANGED <<ops, session, cred, conns, req, faults>>
    BY DEF ViewExpires, NotifyRead, NotifyDel, Arrives
  <1>2. ReqTable' /\ \A g \in Handlers : req'[g] = req[g]
    BY <1>1 DEF ReqTable
  <1>3. EntryTable' /\ ChainInv' /\ PoolWithinCap' /\ OpenInv' /\ SocketInv'
    BY <1>1, <1>2, ConnsKept
  <1>4. \A g \in Handlers : req[g].at \in Dated => req[g].box \in Boxes
    BY DEF ReqTable, Placed, Dated
  <1>5. CASE Arrives(b)
    <2>1. rev[b] \in 0 .. MaxRev /\ rev[b] < MaxRev /\ MaxRev \in Nat /\ rev' = [rev EXCEPT ![b] = rev[b] + 1] /\ rev[b] + 1 \in 0 .. MaxRev
      BY <1>5 DEF Arrives, ViewTypes, Assumed, BoundsAssumption
    <2>2. rev' \in [Boxes -> 0 .. MaxRev] /\ \A c \in Boxes : rev[c] <= rev'[c]
      BY <2>1 DEF ViewTypes
    <2>3. news' = [news EXCEPT ![b] = IF b \in watcher /\ news[b] = "none" THEN "bust" ELSE news[b]]
      BY <1>5 DEF Arrives
    <2>4. DOMAIN news' = Boxes /\ \A c \in Boxes : news'[c] = "miss" => news[c] = "miss"
      BY <2>3 DEF ViewTypes
    <2>5. UNCHANGED cache /\ cred' \subseteq Boxes
      BY <1>5 DEF Arrives, ViewTypes
    <2>6. ViewTypes' /\ ViewInv'
      BY <1>2, <2>2, <2>4, <2>5, ViewsKept
    <2> QED BY <1>2, <1>3, <2>6
  <1>6. CASE NotifyRead(b)
    <2>1. UNCHANGED <<rev, view, idx, crossed, told>> /\ news' = [news EXCEPT ![b] = IF b \in idx THEN "hit" ELSE "miss"]
      BY <1>6 DEF NotifyRead, cache
    <2>2. ViewTypes'
      BY <1>1, <1>2, <2>1 DEF ViewTypes, NoView
    <2>3. \A c \in Boxes : Missed(c)' => Missed(c) \/ c \notin idx
      BY <1>2, <2>1 DEF Missed, ViewTypes
    <2>4. ViewInv'
      BY <2>1, <2>3 DEF ViewInv, NoView
    <2> QED BY <1>2, <1>3, <2>2, <2>4
  <1>7. CASE NotifyDel(b)
    <2> DEFINE hit == IF news[b] = "hit" THEN {b} ELSE {}
    <2>1. UNCHANGED <<rev, told>> /\ news' = [news EXCEPT ![b] = "none"] /\ Drop(b, hit) /\ news[b] \in {"hit", "miss"}
      BY <1>7 DEF NotifyDel
    <2>2. \A c \in Boxes : Missed(c)' => Missed(c)
      BY <1>2, <2>1 DEF Missed, ViewTypes
    <2>3. hit \subseteq {b} /\ (b \notin hit => Missed(b))
      BY <2>1 DEF Missed
    <2>4. told' \in [Boxes -> 0 .. MaxRev] /\ \A c \in Boxes : told'[c] = told[c]
      BY <2>1 DEF ViewTypes
    <2> HIDE DEF hit
    <2>5. view' \in [Boxes -> 0 .. NoView] /\ idx' \cup crossed' \subseteq Boxes /\ ViewInv'
      BY <2>1, <2>2, <2>3, <2>4, DropKeepsViews
    <2>6. ViewTypes'
      BY <1>1, <1>2, <2>1, <2>5 DEF ViewTypes, NoView
    <2> QED BY <1>2, <1>3, <2>5, <2>6
  <1>8. CASE ViewExpires(b)
    <2>1. /\ view' = [view EXCEPT ![b] = NoView] /\ idx' = idx \ {b} /\ crossed' = crossed \ {b}
          /\ UNCHANGED <<rev, told, news>>
      BY <1>8 DEF ViewExpires
    <2>2. NoView \in 0 .. NoView
      BY DEF Assumed, BoundsAssumption, NoView
    <2>3. ViewTypes'
      <3>1. view' \in [Boxes -> 0 .. NoView]
        BY <2>1, <2>2 DEF ViewTypes
      <3> QED BY <1>1, <1>2, <2>1, <3>1 DEF ViewTypes, NoView
    <2>4. \A c \in Boxes : Missed(c)' <=> Missed(c)
      BY <1>2, <2>1 DEF Missed
    <2>5. ViewInv'
      BY <2>1, <2>4 DEF ViewInv, ViewTypes, NoView
    <2> QED BY <1>2, <1>3, <2>3, <2>5
  <1> QED BY <1>5, <1>6, <1>7, <1>8

-----------------------------------------------------------------------------
(* The watchers.                                                           *)

\* What is counted is finite.
LEMMA Counted ==
  ASSUME Assumed
  PROVE  /\ IsFiniteSet(Entries) /\ \A S \in SUBSET Entries : IsFiniteSet(S) /\ Cardinality(S) \in Nat
         /\ IsFiniteSet(Handlers) /\ \A S \in SUBSET Handlers : IsFiniteSet(S) /\ Cardinality(S) \in Nat
         /\ IsFiniteSet(Boxes) /\ \A S \in SUBSET Boxes : IsFiniteSet(S) /\ Cardinality(S) \in Nat
  <1>1. IsFiniteSet(Handlers) /\ IsFiniteSet(Boxes)
    BY DEF Assumed, PoolAssumption
  <1>2. PICK n \in Nat : n = Cardinality(Boxes) + Cardinality(Handlers)
    BY <1>1, FS_CardinalityType
  <1>3. IsFiniteSet(Entries)
    <2>1. PICK a \in Int : a = 1
      OBVIOUS
    <2>2. IsFiniteSet(a .. n)
      BY FS_Interval
    <2> QED BY <1>2, <2>1, <2>2 DEF Entries
  <1>4. ASSUME NEW T, IsFiniteSet(T), NEW S \in SUBSET T PROVE IsFiniteSet(S) /\ Cardinality(S) \in Nat
    BY <1>4, FS_Subset, FS_CardinalityType
  <1> QED BY <1>1, <1>3, <1>4

\* A watcher is stopped and its connection with it.
LEMMA Stopped ==
  ASSUME Assumed, SocketInv, NEW B, Stop(B), UNCHANGED <<entry, stray>>,
         \A g \in Handlers : req'[g].at = "idleOpen" <=> req[g].at = "idleOpen"
  PROVE  SocketInv'
  <1>1. IsFiniteSet(watcher)
    BY Counted DEF SocketInv
  <1>2. Cardinality(watcher \ B) = Cardinality(watcher) - Cardinality(watcher \cap B)
    BY <1>1, FS_Difference
  <1>3. Opened' = Opened /\ Opening' = Opening
    BY DEF Opened, Opening
  <1>4. /\ Cardinality(Opened) \in Nat /\ Cardinality(Opening) \in Nat
        /\ Cardinality(watcher) \in Nat /\ Cardinality(watcher \cap B) \in Nat
    <2>1. Opened \in SUBSET Entries /\ Opening \in SUBSET Handlers /\ watcher \in SUBSET Boxes /\ watcher \cap B \in SUBSET Boxes
      BY DEF Opened, Opening, SocketInv
    <2> QED BY <2>1, Counted
  <1> QED BY <1>2, <1>3, <1>4 DEF SocketInv, Stop

\* A request that is not in a chain, of a watcher.
LEMMA WatchingStep ==
  ASSUME SessionInv, NEW h \in Handlers, NEW q, Placed(q), req' = [req EXCEPT ![h] = q],
         UNCHANGED <<ops, session, cred, map, entry, rev, cache, news>>, faults' \in Nat, faults' >= faults,
         req[h].at \notin Queuing, q.at \notin Queuing, q.at \notin Dated, q.at \notin Purging, SocketInv'
  PROVE  SessionInv'
  <1> USE DEF SessionInv
  <1>1. ReqTable' /\ req'[h] = q /\ \A g \in Handlers : g # h => req'[g] = req[g]
    BY Moved
  <1>2. EntryTable' /\ ChainInv' /\ PoolWithinCap'
    BY <1>1, ChainsKept DEF Apart, map
  <1>3. OpenInv'
    BY <1>1, OpenKept DEF Queuing
  <1>4. ViewTypes' /\ ViewInv'
    <2>1. \A b \in Boxes : rev[b] <= rev'[b]
      BY DEF ViewTypes
    <2> QED BY <1>1, <2>1, ViewsKept DEF ViewTypes, Dated
  <1> QED BY <1>1, <1>2, <1>3, <1>4

LEMMA StopStep ==
  ASSUME Assumed, SessionInv, NEW h \in Handlers, Watch(h) \/ Unwatch(h) \/ PurgeIdle(h)
  PROVE  SessionInv'
  <1> USE DEF SessionInv
  <1>1. req[h].at \in {"watch", "unwatch", "purgeIdle"} /\ UNCHANGED <<ops, session, cred, map, entry, stray, rev, cache, news, faults>>
    BY DEF Watch, Unwatch, PurgeIdle
  <1>2. Finish(h) \/ Goto(h, "idleConnect")
    BY DEF Watch, Unwatch, PurgeIdle
  <1>3. PICK q : req' = [req EXCEPT ![h] = q] /\ Placed(q) /\ q.at \in {"idle", "idleConnect"}
    <2>1. CASE Finish(h)
      BY <2>1, Ends
    <2>2. CASE Goto(h, "idleConnect")
      BY <1>1, <2>2, Goes DEF Steps, Queuing
    <2> QED BY <1>2, <2>1, <2>2
  <1>4. req'[h] = q /\ \A g \in Handlers : g # h => req'[g] = req[g]
    BY <1>3 DEF ReqTable
  <1>5. \A g \in Handlers : req'[g].at = "idleOpen" <=> req[g].at = "idleOpen"
    BY <1>1, <1>3, <1>4
  <1>6. SocketInv'
    <2>1. (\E B : Stop(B)) \/ UNCHANGED <<watcher, sockets>>
      BY DEF Watch, Unwatch, PurgeIdle
    <2> QED BY <1>1, <1>5, <2>1, Stopped, SocketsKept
  <1>7. faults' \in Nat /\ faults' >= faults
    BY <1>1 DEF OpenInv
  <1>8. req[h].at \notin Queuing /\ q.at \notin Queuing /\ q.at \notin Dated /\ q.at \notin Purging
    BY <1>1, <1>3 DEF Queuing, Dated, Purging
  <1> HIDE DEF SessionInv
  <1> QED BY <1>1, <1>3, <1>6, <1>7, <1>8, WatchingStep

LEMMA WatchOpenStep ==
  ASSUME Assumed, SessionInv, NEW h \in Handlers, WatchConnect(h) \/ WatchSet(h) \/ WatchFails(h)
  PROVE  SessionInv'
  <1> USE DEF SessionInv
  <1>1. /\ req[h].at \in {"idleConnect", "idleOpen"} /\ req[h].box \in Boxes
        /\ UNCHANGED <<ops, session, cred, map, entry, rev, cache, news>>
    BY DEF WatchConnect, WatchSet, WatchFails, ReqTable, Placed
  <1>2. PICK q : req' = [req EXCEPT ![h] = q] /\ Placed(q) /\ q.at = IF WatchConnect(h) THEN "idleOpen" ELSE "idle"
    <2>1. CASE WatchConnect(h)
      <3>1. Goto(h, "idleOpen")
        BY <2>1 DEF WatchConnect
      <3> QED BY <1>1, <2>1, <3>1, Goes DEF Steps, Queuing
    <2>2. CASE ~WatchConnect(h)
      <3>1. Finish(h)
        BY <2>2 DEF WatchSet, WatchFails
      <3> QED BY <2>2, <3>1, Ends
    <2> QED BY <2>1, <2>2
  <1>3. req'[h] = q /\ \A g \in Handlers : g # h => req'[g] = req[g]
    BY <1>2 DEF ReqTable
  <1>4. Opened' = Opened
    BY <1>1 DEF Opened
  <1>5. /\ Cardinality(Opened) \in Nat /\ Cardinality(Opening) \in Nat /\ Cardinality(watcher) \in Nat
        /\ IsFiniteSet(Opening) /\ IsFiniteSet(watcher)
    <2>1. Opened \in SUBSET Entries /\ Opening \in SUBSET Handlers /\ watcher \in SUBSET Boxes
      BY DEF Opened, Opening, SocketInv
    <2> QED BY <2>1, Counted
  <1>6. /\ Cardinality(Opening \cup {h}) = IF h \in Opening THEN Cardinality(Opening) ELSE Cardinality(Opening) + 1
        /\ Cardinality(Opening \ {h}) = IF h \in Opening THEN Cardinality(Opening) - 1 ELSE Cardinality(Opening)
    BY <1>5, FS_AddElement, FS_RemoveElement
  <1>7. SocketInv'
    <2>1. CASE WatchConnect(h)
      <3>1. h \notin Opening /\ Opening' = Opening \cup {h}
        BY <1>2, <1>3, <2>1 DEF WatchConnect, Opening
      <3>2. sockets' = sockets + 1 /\ UNCHANGED <<watcher, stray>>
        BY <2>1 DEF WatchConnect
      <3> QED BY <1>4, <1>5, <1>6, <3>1, <3>2 DEF SocketInv
    <2>2. CASE ~WatchConnect(h)
      <3>1. Opening' = Opening \ {h} /\ (h \in Opening <=> req[h].at = "idleOpen")
        BY <1>2, <1>3, <2>2 DEF Opening
      <3>2. CASE WatchSet(h)
        <4>1. PICK b \in Boxes : b = req[h].box
          BY <1>1
        <4>2. h \in Opening /\ watcher' = watcher \cup {b} /\ stray' = stray + (IF b \in watcher THEN 1 ELSE 0) /\ sockets' = sockets
          BY <3>1, <3>2, <4>1 DEF WatchSet
        <4>3. Cardinality(watcher \cup {b}) = IF b \in watcher THEN Cardinality(watcher) ELSE Cardinality(watcher) + 1
          BY <1>5, FS_AddElement
        <4> QED BY <1>4, <1>5, <1>6, <3>1, <4>2, <4>3 DEF SocketInv
      <3>3. CASE WatchFails(h)
        <4>1. stray' = stray + (IF h \in Opening THEN 1 ELSE 0) /\ UNCHANGED <<watcher, sockets>>
          BY <3>1, <3>3 DEF WatchFails
        <4> QED BY <1>4, <1>5, <1>6, <3>1, <4>1 DEF SocketInv
      <3> QED BY <2>2, <3>2, <3>3
    <2> QED BY <2>1, <2>2
  <1>8. faults' \in Nat /\ faults' >= faults
    BY DEF OpenInv, WatchConnect, WatchSet, WatchFails, Fault
  <1>9. req[h].at \notin Queuing /\ q.at \notin Queuing /\ q.at \notin Dated /\ q.at \notin Purging
    BY <1>1, <1>2 DEF Queuing, Dated, Purging
  <1> HIDE DEF SessionInv
  <1> QED BY <1>1, <1>2, <1>7, <1>8, <1>9, WatchingStep

-----------------------------------------------------------------------------
(* The pool.                                                               *)

\* Who waits in a chain.
LEMMA InChain ==
  ASSUME EntryTable, ChainInv
  PROVE  /\ \A e \in Entries : Waiting(e) \subseteq Handlers /\ (Waiting(e) # {} => InUse(e))
         /\ \A h \in Handlers : req[h].at \in Queuing => h \in Waiting(req[h].entry)
         /\ \A e \in Entries : Len(entry[e].queue) \in Nat
  BY DEF EntryTable, EntryShape, ChainInv, Waiting, InUse

\* An entry whose connection is closed, and one whose chain moves.
LEMMA Closed ==
  ASSUME NEW y, EntryShape(y), NEW x, x = [y EXCEPT !.open = FALSE]
  PROVE  EntryShape(x) /\ x.box = y.box /\ x.queue = y.queue /\ x.open = FALSE
  <1>1. x = [box |-> y.box, open |-> FALSE, queue |-> y.queue]
    BY DEF EntryShape
  <1> QED BY <1>1 DEF EntryShape

LEMMA Queued ==
  ASSUME NEW y, EntryShape(y), NEW s \in Seq(Handlers), NEW x, x = [y EXCEPT !.queue = s]
  PROVE  EntryShape(x) /\ x.box = y.box /\ x.queue = s /\ x.open = y.open
  <1>1. x = [box |-> y.box, open |-> y.open, queue |-> s]
    BY DEF EntryShape
  <1> QED BY <1>1 DEF EntryShape

\* Entries leave the Map or are closed; the chains stay as they are.
LEMMA EntriesFall ==
  ASSUME ReqTable, EntryTable, ChainInv, Apart, pool' \subseteq pool, entry' = [d \in Entries |-> entry'[d]],
         \A d \in Entries :
           /\ EntryShape(entry'[d]) /\ entry'[d].queue = entry[d].queue /\ (entry'[d].open => entry[d].open)
           /\ d \in pool' \/ InUse(d) => entry'[d].box = entry[d].box
  PROVE  EntryTable' /\ ChainInv'
  <1>1. EntryTable'
    <2>1. \A d \in pool' : d \in Entries /\ entry'[d].box = entry[d].box /\ d \in pool
      BY DEF EntryTable
    <2>2. \A d \in pool' : entry'[d].box \in Boxes
      BY <2>1 DEF EntryTable
    <2>3. ASSUME NEW d \in pool', NEW e \in pool', entry'[d].box = entry'[e].box PROVE d = e
      <3>1. d \in pool /\ e \in pool /\ entry[d].box = entry[e].box
        BY <2>1, <2>3
      <3> QED BY <3>1 DEF EntryTable
    <2>4. \A d \in Entries : EntryShape(entry[d])'
      BY DEF EntryShape
    <2> QED BY <2>1, <2>2, <2>3, <2>4 DEF EntryTable
  <1>2. \A e \in Entries : Waiting(e)' = Waiting(e)
    BY DEF Waiting
  <1>3. \A e \in Entries : \A h \in Waiting(e)' : req'[h] = req[h] /\ req[h].entry = e /\ req[h].at \in Queuing
    BY <1>2, InChain DEF ChainInv, Apart
  <1>4. \A h \in Handlers : req'[h].at \in Queuing => req'[h] = req[h] /\ req[h].entry \in Entries
    BY DEF Apart, ReqTable, Placed
  <1>5. \A h \in Handlers : req'[h].at \in Queuing => InUse(req[h].entry) /\ h \in Waiting(req[h].entry)
    BY <1>4, InChain
  <1>6. \A h \in Handlers : req'[h].at \in Queuing => entry'[req'[h].entry].box = req'[h].box /\ h \in Waiting(req[h].entry)'
    BY <1>2, <1>4, <1>5 DEF ChainInv
  <1>7. \A h \in Handlers : Working(h)' => Head(entry'[req'[h].entry].queue) = h
    BY <1>4 DEF Working, Queuing, ChainInv
  <1>8. \A h \in Handlers : req'[h].at = "connect" => ~entry'[req'[h].entry].open
    BY <1>4 DEF Queuing, ChainInv
  <1>9. \A e \in Entries : \A i, j \in 1 .. Len(entry'[e].queue) : entry'[e].queue[i] = entry'[e].queue[j] => i = j
    BY DEF ChainInv
  <1> QED BY <1>1, <1>3, <1>4, <1>6, <1>7, <1>8, <1>9 DEF ChainInv

\* What leaves the Map unused leaves the pool within its cap.
LEMMA CapKept ==
  ASSUME Assumed, EntryTable, PoolWithinCap, pool' \subseteq pool, \A d \in pool \ pool' : ~InUse(d),
         \A d \in pool' : entry'[d].queue = entry[d].queue
  PROVE  PoolWithinCap'
  <1> SUFFICES ASSUME \A e \in pool' : ~InUse(e)' PROVE Cardinality(pool') <= IMAP_POOL_MAX
    BY DEF PoolWithinCap
  <1>1. \A e \in pool : ~InUse(e)
    BY DEF InUse
  <1>2. IsFiniteSet(pool) /\ pool' \in SUBSET pool
    BY Counted DEF EntryTable
  <1>3. Cardinality(pool') <= Cardinality(pool) /\ Cardinality(pool') \in Nat /\ Cardinality(pool) \in Nat
    BY <1>2, FS_Subset, FS_CardinalityType
  <1> QED BY <1>1, <1>3 DEF PoolWithinCap, Assumed, PoolAssumption

\* Connections of entries are closed.
LEMMA SocketsFall ==
  ASSUME Assumed, SocketInv, NEW S \in SUBSET Entries, Opened' = Opened \ S, sockets' = sockets - Sockets(S),
         UNCHANGED <<watcher, stray>>,
         \A g \in Handlers : req'[g].at = "idleOpen" <=> req[g].at = "idleOpen"
  PROVE  SocketInv'
  <1>1. Sockets(S) = Cardinality(Opened \cap S)
    <2>1. {e \in S : entry[e].open} = Opened \cap S
      BY DEF Opened
    <2> QED BY <2>1 DEF Sockets
  <1>2. Opening' = Opening
    BY DEF Opening
  <1>3. Opened \in SUBSET Entries /\ Opened \cap S \in SUBSET Entries /\ Opening \in SUBSET Handlers /\ watcher \in SUBSET Boxes
    BY DEF Opened, Opening, SocketInv
  <1>4. Cardinality(Opened \ S) = Cardinality(Opened) - Cardinality(Opened \cap S)
    BY <1>3, Counted, FS_Difference
  <1>5. /\ Cardinality(Opened) \in Nat /\ Cardinality(Opened \cap S) \in Nat
        /\ Cardinality(Opening) \in Nat /\ Cardinality(watcher) \in Nat
    BY <1>3, Counted
  <1> QED BY <1>1, <1>2, <1>4, <1>5 DEF SocketInv

LEMMA SweepStep ==
  ASSUME Assumed, SessionInv, NEW e \in Entries, SweepPool(e)
  PROVE  SessionInv'
  <1> USE DEF SessionInv
  <1>1. UNCHANGED <<ops, session, cred, watcher, stray, rev, cache, news, req, faults>>
    BY DEF SweepPool
  <1>2. ReqTable' /\ \A g \in Handlers : req'[g] = req[g]
    BY <1>1 DEF ReqTable
  <1>3. e \in pool /\ ~InUse(e) /\ pool' = pool \ {e} /\ entry' = [entry EXCEPT ![e] = Unused] /\ sockets' = sockets - Sockets({e})
    BY DEF SweepPool, Delete
  <1>4. /\ entry' = [d \in Entries |-> entry'[d]] /\ entry'[e] = Unused /\ \A d \in Entries : d # e => entry'[d] = entry[d]
    BY <1>3 DEF EntryTable
  <1>5. EntryShape(Unused) /\ Unused.queue = <<>> /\ Unused.open = FALSE
    BY DEF EntryShape, Unused
  <1>6. \A d \in Entries : /\ EntryShape(entry'[d]) /\ entry'[d].queue = entry[d].queue /\ (entry'[d].open => entry[d].open)
                           /\ d \in pool' \/ InUse(d) => entry'[d].box = entry[d].box
    BY <1>3, <1>4, <1>5 DEF EntryTable, InUse
  <1>7. EntryTable' /\ ChainInv'
    BY <1>2, <1>3, <1>4, <1>6, EntriesFall DEF Apart
  <1>8. PoolWithinCap'
    <2>1. \A d \in pool' : entry'[d].queue = entry[d].queue
      BY <1>3, <1>6 DEF EntryTable
    <2> QED BY <1>3, <2>1, CapKept
  <1>9. OpenInv'
    <2>1. \A g \in Handlers : req[g].at = "fn" => req[g].entry \in Entries /\ InUse(req[g].entry)
      BY InChain DEF ReqTable, Placed, Queuing
    <2>2. \A g \in Handlers : req[g].at = "fn" => entry'[req[g].entry] = entry[req[g].entry]
      BY <1>3, <1>4, <2>1
    <2> QED BY <1>1, <1>2, <2>2 DEF OpenInv, InUseIsOpen
  <1>10. SocketInv'
    <2>1. Opened' = Opened \ {e}
      BY <1>4, <1>5 DEF Opened
    <2> QED BY <1>1, <1>2, <1>3, <2>1, SocketsFall
  <1>11. ViewTypes' /\ ViewInv'
    BY <1>1, <1>2, ViewsKept DEF ViewTypes
  <1> QED BY <1>2, <1>7, <1>8, <1>9, <1>10, <1>11

LEMMA LostStep ==
  ASSUME Assumed, SessionInv, ConnectionLost \/ \E b \in Boxes : SweepWatcher(b)
  PROVE  SessionInv'
  <1> USE DEF SessionInv
  <1>1. UNCHANGED <<ops, session, cred, map, stray, rev, cache, news, req>> /\ faults' \in Nat /\ faults' >= faults
    <2>1. UNCHANGED <<ops, session, cred, map, stray, rev, cache, news, req>> /\ (faults' = faults \/ faults' = faults + 1)
      BY DEF ConnectionLost, SweepWatcher, Fault
    <2> QED BY <2>1 DEF OpenInv
  <1>2. ReqTable' /\ \A g \in Handlers : req'[g] = req[g]
    BY <1>1 DEF ReqTable
  <1>3. ViewTypes' /\ ViewInv'
    BY <1>1, <1>2, ViewsKept DEF ViewTypes
  <1>4. CASE \E B : Stop(B) /\ UNCHANGED entry
    <2>1. SocketInv'
      BY <1>1, <1>2, <1>4, Stopped
    <2>2. EntryTable' /\ ChainInv' /\ PoolWithinCap'
      BY <1>1, <1>2, <1>4, ChainsKept DEF Apart, map
    <2>3. OpenInv'
      BY <1>1, <1>2, <1>4, OpenKept
    <2> QED BY <1>2, <1>3, <2>1, <2>2, <2>3
  <1>5. CASE ConnectionLost /\ ~\E B : Stop(B) /\ UNCHANGED entry
    <2>1. PICK e \in Entries : /\ entry[e].open /\ entry' = [entry EXCEPT ![e].open = FALSE]
                               /\ sockets' = sockets - 1 /\ UNCHANGED watcher
      BY <1>5 DEF ConnectionLost
    <2>2. PICK x : x = [entry[e] EXCEPT !.open = FALSE]
      OBVIOUS
    <2>3. EntryShape(x) /\ x.box = entry[e].box /\ x.queue = entry[e].queue /\ x.open = FALSE
      <3>1. EntryShape(entry[e])
        BY DEF EntryTable
      <3> QED BY <2>2, <3>1, Closed
    <2>4. entry' = [d \in Entries |-> entry'[d]] /\ entry'[e] = x /\ \A d \in Entries : d # e => entry'[d] = entry[d]
      <3>1. entry' = [entry EXCEPT ![e] = x]
        BY <2>1, <2>2
      <3> QED BY <3>1 DEF EntryTable
    <2>5. \A d \in Entries : /\ EntryShape(entry'[d]) /\ entry'[d].queue = entry[d].queue /\ (entry'[d].open => entry[d].open)
                             /\ entry'[d].box = entry[d].box
      BY <2>3, <2>4 DEF EntryTable
    <2>6. EntryTable' /\ ChainInv'
      BY <1>1, <1>2, <2>4, <2>5, EntriesFall DEF Apart, map
    <2>7. PoolWithinCap'
      <3>1. pool' = pool /\ \A d \in pool' : entry'[d].queue = entry[d].queue
        BY <1>1, <2>5 DEF map, EntryTable
      <3> QED BY <3>1, CapKept
    <2>8. OpenInv'
      BY <1>1, <1>2, <1>5 DEF OpenInv, InUseIsOpen, ConnectionLost, Fault
    <2>9. SocketInv'
      <3>1. Opened' = Opened \ {e}
        BY <2>3, <2>4 DEF Opened
      <3>2. Sockets({e}) = 1
        <4>1. {d \in {e} : entry[d].open} = {e}
          BY <2>1
        <4> QED BY <4>1, FS_Singleton DEF Sockets
      <3> QED BY <1>1, <1>2, <2>1, <3>1, <3>2, SocketsFall
    <2> QED BY <1>2, <1>3, <2>6, <2>7, <2>8, <2>9
  <1>6. (\E b \in Boxes : SweepWatcher(b)) => \E B : Stop(B) /\ UNCHANGED entry
    BY DEF SweepWatcher
  <1> QED BY <1>4, <1>5, <1>6

\* A logout closes every entry of the Map, used or not.
LEMMA PurgePoolStep ==
  ASSUME Assumed, SessionInv, NEW h \in Handlers, PurgePool(h)
  PROVE  SessionInv'
  <1> USE DEF SessionInv
  <1>1. UNCHANGED <<ops, session, cred, watcher, stray, rev, cache, news, faults>> /\ req[h].at = "purgePool"
    BY DEF PurgePool
  <1>2. PICK q : req' = [req EXCEPT ![h] = q] /\ Placed(q) /\ q.at = "purgeIdle"
    BY <1>1, Goes DEF PurgePool, Steps, Purging, Queuing
  <1>3. ReqTable' /\ req'[h] = q /\ \A g \in Handlers : g # h => req'[g] = req[g]
    BY <1>1, <1>2, Moved
  <1>4. pool' = {} /\ sockets' = sockets - Sockets(pool) /\ pool \subseteq Entries
    BY DEF PurgePool, Delete, EntryTable
  <1>5. entry' = [e \in Entries |->
          IF e \notin pool THEN entry[e] ELSE IF InUse(e) THEN [entry[e] EXCEPT !.open = FALSE] ELSE Unused]
    BY DEF PurgePool
  <1>6. EntryShape(Unused) /\ Unused.queue = <<>> /\ Unused.open = FALSE
    BY DEF EntryShape, Unused
  <1>7. ASSUME NEW d \in Entries
        PROVE  /\ EntryShape(entry'[d]) /\ entry'[d].queue = entry[d].queue /\ (entry'[d].open <=> entry[d].open /\ d \notin pool)
               /\ InUse(d) => entry'[d].box = entry[d].box
    <2>0. EntryShape(entry[d])
      BY DEF EntryTable
    <2>1. CASE d \notin pool
      <3>1. entry'[d] = entry[d]
        BY <1>5, <2>1
      <3> QED BY <2>0, <2>1, <3>1
    <2>2. CASE d \in pool /\ InUse(d)
      <3>1. entry'[d] = [entry[d] EXCEPT !.open = FALSE]
        BY <1>5, <2>2
      <3> QED BY <2>0, <2>2, <3>1, Closed
    <2>3. CASE d \in pool /\ ~InUse(d)
      <3>1. entry'[d] = Unused
        BY <1>5, <2>3
      <3> QED BY <1>6, <2>3, <3>1 DEF InUse
    <2> QED BY <2>1, <2>2, <2>3
  <1>8. Apart
    BY <1>1, <1>2, <1>3 DEF Apart, Queuing
  <1>9. EntryTable' /\ ChainInv'
    BY <1>4, <1>5, <1>7, <1>8, EntriesFall
  <1>10. PoolWithinCap'
    BY <1>4, FS_EmptySet DEF PoolWithinCap, Assumed, PoolAssumption
  <1>11. OpenInv'
    <2>1. ~session'
      BY <1>1 DEF OpenInv, Purging
    <2> QED BY <1>1, <2>1 DEF OpenInv, InUseIsOpen
  <1>12. SocketInv'
    <2>1. Opened' = Opened \ pool
      BY <1>7 DEF Opened
    <2>2. \A g \in Handlers : req'[g].at = "idleOpen" <=> req[g].at = "idleOpen"
      BY <1>1, <1>2, <1>3
    <2> QED BY <1>1, <1>4, <2>1, <2>2, SocketsFall
  <1>13. ViewTypes' /\ ViewInv'
    <2>1. \A b \in Boxes : rev[b] <= rev'[b]
      BY <1>1 DEF ViewTypes
    <2> QED BY <1>1, <1>2, <1>3, <2>1, ViewsKept DEF ViewTypes, Dated
  <1> QED BY <1>3, <1>9, <1>10, <1>11, <1>12, <1>13

\* The chain gets to a request, which finds the connection open or closed.
LEMMA BeginStep ==
  ASSUME Assumed, SessionInv, NEW h \in Handlers, Begin(h)
  PROVE  SessionInv'
  <1> USE DEF SessionInv
  <1>1. UNCHANGED <<ops, session, cred, conns, rev, cache, news, faults>> /\ req[h].at = "queued"
    BY DEF Begin
  <1>2. PICK e \in Entries : e = req[h].entry
    BY <1>1 DEF ReqTable, Placed, Queuing
  <1>3. Head(entry[e].queue) = h /\ Goto(h, IF entry[e].open THEN "fn" ELSE "connect")
    BY <1>2 DEF Begin
  <1>4. PICK q : /\ req' = [req EXCEPT ![h] = q] /\ Placed(q) /\ q.at = (IF entry[e].open THEN "fn" ELSE "connect")
                 /\ q.box = req[h].box /\ q.entry = e
    <2>1. CASE entry[e].open
      BY <1>1, <1>2, <1>3, <2>1, Goes DEF Steps, Queuing
    <2>2. CASE ~entry[e].open
      BY <1>1, <1>2, <1>3, <2>2, Goes DEF Steps, Queuing
    <2> QED BY <2>1, <2>2
  <1>5. ReqTable' /\ req'[h] = q /\ \A g \in Handlers : g # h => req'[g] = req[g]
    BY <1>1, <1>4, Moved
  <1>6. EntryTable' /\ PoolWithinCap' /\ \A d \in Entries : Waiting(d)' = Waiting(d)
    BY <1>1, ZenonT(60) DEF EntryTable, EntryShape, PoolWithinCap, InUse, Waiting, conns, map
  <1>7. \A g \in Handlers : /\ req'[g].entry = req[g].entry \/ req'[g].at \notin Queuing
                            /\ req'[g].at \in Queuing => req'[g].entry = req[g].entry /\ req'[g].box = req[g].box
                            /\ req'[g].at \in Queuing <=> req[g].at \in Queuing
    BY <1>1, <1>2, <1>4, <1>5 DEF Queuing
  <1>8. ChainInv'
    <2>0. entry' = entry
      BY <1>1 DEF conns
    <2>1. \A d \in Entries : \A g \in Waiting(d)' : req'[g].entry = d /\ req'[g].at \in Queuing
      BY <1>6, <1>7, InChain DEF ChainInv
    <2>2. \A g \in Handlers : req'[g].at \in Queuing => entry'[req'[g].entry].box = req'[g].box /\ g \in Waiting(req[g].entry)'
      <3>1. \A g \in Handlers : req'[g].at \in Queuing => req[g].entry \in Entries
        BY <1>7 DEF ReqTable, Placed
      <3> QED BY <1>6, <1>7, <2>0, <3>1 DEF ChainInv
    <2>3. \A g \in Handlers : Working(g)' => Head(entry'[req'[g].entry].queue) = g
      BY <1>3, <1>4, <1>5, <2>0 DEF ChainInv, Working
    <2>4. \A g \in Handlers : req'[g].at = "connect" => ~entry'[req'[g].entry].open
      BY <1>4, <1>5, <2>0 DEF ChainInv
    <2>5. \A d \in Entries : \A i, j \in 1 .. Len(entry'[d].queue) : entry'[d].queue[i] = entry'[d].queue[j] => i = j
      BY <2>0 DEF ChainInv
    <2> QED BY <1>7, <2>1, <2>2, <2>3, <2>4, <2>5 DEF ChainInv
  <1>9. OpenInv'
    <2>1. entry' = entry
      BY <1>1 DEF conns
    <2> QED BY <1>1, <1>4, <1>5, <2>1 DEF OpenInv, InUseIsOpen, Purging
  <1>10. SocketInv'
    BY <1>1, <1>4, <1>5, SocketsKept DEF conns
  <1>11. ViewTypes' /\ ViewInv'
    <2>1. \A b \in Boxes : rev[b] <= rev'[b]
      BY <1>1 DEF ViewTypes
    <2> QED BY <1>1, <1>4, <1>5, <2>1, ViewsKept DEF ViewTypes, Dated
  <1> QED BY <1>5, <1>6, <1>8, <1>9, <1>10, <1>11

\* The head of a chain connects.
LEMMA ConnectStep ==
  ASSUME Assumed, SessionInv, NEW h \in Handlers, Connect(h)
  PROVE  SessionInv'
  <1> USE DEF SessionInv
  <1>1. UNCHANGED <<ops, session, cred, map, watcher, stray, rev, cache, news, faults>> /\ req[h].at = "connect"
    BY DEF Connect
  <1>2. PICK e \in Entries : e = req[h].entry
    BY <1>1 DEF ReqTable, Placed, Queuing
  <1>3. PICK x : x = [entry[e] EXCEPT !.open = TRUE]
    OBVIOUS
  <1>4. EntryShape(entry[e]) /\ Head(entry[e].queue) = h /\ ~entry[e].open
    BY <1>1, <1>2 DEF EntryTable, ChainInv, Working
  <1>5. EntryShape(x) /\ x.box = entry[e].box /\ x.queue = entry[e].queue /\ x.open
    <2>1. x = [box |-> entry[e].box, open |-> TRUE, queue |-> entry[e].queue]
      BY <1>3, <1>4 DEF EntryShape
    <2> QED BY <1>4, <2>1 DEF EntryShape
  <1>6. entry' = [d \in Entries |-> entry'[d]] /\ entry'[e] = x /\ \A d \in Entries : d # e => entry'[d] = entry[d]
    <2>1. entry' = [entry EXCEPT ![e] = x]
      BY <1>2, <1>3 DEF Connect
    <2> QED BY <2>1 DEF EntryTable
  <1>7. \A d \in Entries : EntryShape(entry'[d]) /\ entry'[d].box = entry[d].box /\ entry'[d].queue = entry[d].queue
    BY <1>5, <1>6 DEF EntryTable
  <1>8. PICK q : /\ req' = [req EXCEPT ![h] = q] /\ Placed(q) /\ q.at = "fn"
                 /\ q.box = req[h].box /\ q.entry = e
    BY <1>1, <1>2, Goes DEF Connect, Steps, Queuing
  <1>9. ReqTable' /\ req'[h] = q /\ \A g \in Handlers : g # h => req'[g] = req[g]
    BY <1>1, <1>8, Moved
  <1>10. EntryTable' /\ PoolWithinCap' /\ \A d \in Entries : Waiting(d)' = Waiting(d)
    <2>1. pool' = pool
      BY <1>1 DEF map
    <2>2. EntryTable'
      <3>1. \A d \in Entries : EntryShape(entry[d])'
        BY <1>7 DEF EntryShape
      <3>2. \A d \in pool : entry'[d].box = entry[d].box
        BY <1>7 DEF EntryTable
      <3> QED BY <1>6, <2>1, <3>1, <3>2 DEF EntryTable
    <2>3. PoolWithinCap'
      BY <1>7, <2>1, CapKept DEF EntryTable
    <2> QED BY <1>7, <2>2, <2>3 DEF Waiting
  <1>11. \A g \in Handlers : /\ req'[g].at \in Queuing => req[g].entry \in Entries /\ req'[g].entry = req[g].entry /\ req'[g].box = req[g].box
                             /\ req'[g].at \in Queuing <=> req[g].at \in Queuing
                             /\ Working(g)' => Working(g)
    BY <1>1, <1>2, <1>8, <1>9 DEF Queuing, ReqTable, Placed, Working
  <1>12. ASSUME NEW g \in Handlers, g # h, Working(g) PROVE req[g].entry # e
    BY <1>4, <1>12 DEF ChainInv
  <1>13. ChainInv'
    <2>1. \A d \in Entries : \A g \in Waiting(d)' : req'[g].entry = d /\ req'[g].at \in Queuing
      BY <1>10, <1>11, InChain DEF ChainInv
    <2>2. \A g \in Handlers : req'[g].at \in Queuing => entry'[req'[g].entry].box = req'[g].box /\ g \in Waiting(req[g].entry)'
      BY <1>7, <1>10, <1>11 DEF ChainInv
    <2>3. \A g \in Handlers : Working(g)' => Head(entry'[req'[g].entry].queue) = g
      BY <1>7, <1>11 DEF ChainInv, Working, Queuing
    <2>4. \A g \in Handlers : req'[g].at = "connect" => ~entry'[req'[g].entry].open
      <3> SUFFICES ASSUME NEW g \in Handlers, req'[g].at = "connect" PROVE ~entry'[req'[g].entry].open
        OBVIOUS
      <3>1. g # h /\ req'[g] = req[g] /\ req[g].entry \in Entries
        BY <1>8, <1>9, <1>11 DEF Queuing
      <3>2. req[g].entry # e
        BY <1>12, <3>1 DEF Working
      <3> QED BY <1>6, <3>1, <3>2 DEF ChainInv
    <2>5. \A d \in Entries : \A i, j \in 1 .. Len(entry'[d].queue) : entry'[d].queue[i] = entry'[d].queue[j] => i = j
      BY <1>7 DEF ChainInv
    <2> QED BY <1>11, <2>1, <2>2, <2>3, <2>4, <2>5 DEF ChainInv
  <1>14. OpenInv'
    <2>1. ASSUME NEW g \in Handlers, req'[g].at = "fn", session, faults = 0 PROVE entry'[req'[g].entry].open
      <3>1. CASE g = h
        BY <1>5, <1>6, <1>8, <1>9, <3>1
      <3>2. CASE g # h
        <4>1. req[g].entry # e /\ req[g].entry \in Entries /\ req'[g] = req[g]
          BY <1>9, <1>11, <1>12, <2>1, <3>2 DEF Working, Queuing
        <4> QED BY <1>6, <2>1, <4>1 DEF OpenInv, InUseIsOpen
      <3> QED BY <3>1, <3>2
    <2>2. \A g \in Handlers : req'[g].at \in Purging => req[g].at \in Purging
      BY <1>8, <1>9 DEF Purging
    <2> QED BY <1>1, <2>1, <2>2 DEF OpenInv, InUseIsOpen
  <1>15. SocketInv'
    <2>1. Opened' = Opened \cup {e} /\ e \notin Opened
      BY <1>4, <1>5, <1>6 DEF Opened
    <2>2. Opening' = Opening
      BY <1>1, <1>8, <1>9 DEF Opening
    <2>3. Opened \in SUBSET Entries /\ Opening \in SUBSET Handlers /\ watcher \in SUBSET Boxes
      BY DEF Opened, Opening, SocketInv
    <2>4. IsFiniteSet(Opened) /\ Cardinality(Opened) \in Nat /\ Cardinality(Opening) \in Nat /\ Cardinality(watcher) \in Nat
      BY <2>3, Counted
    <2>5. Cardinality(Opened \cup {e}) = Cardinality(Opened) + 1
      BY <2>1, <2>4, FS_AddElement
    <2>6. sockets' = sockets + 1
      BY DEF Connect
    <2> QED BY <1>1, <2>1, <2>2, <2>4, <2>5, <2>6 DEF SocketInv
  <1>16. ViewTypes' /\ ViewInv'
    <2>1. \A b \in Boxes : rev[b] <= rev'[b]
      BY <1>1 DEF ViewTypes
    <2> QED BY <1>1, <1>8, <1>9, <2>1, ViewsKept DEF ViewTypes, Dated
  <1> QED BY <1>9, <1>10, <1>13, <1>14, <1>15, <1>16

\* Someone joins the end of a chain.
LEMMA Joins ==
  ASSUME NEW s \in Seq(Handlers), NEW h \in Handlers, \A i \in 1 .. Len(s) : s[i] # h,
         \A i, j \in 1 .. Len(s) : s[i] = s[j] => i = j, NEW t, t = Append(s, h)
  PROVE  /\ t \in Seq(Handlers) /\ t # <<>> /\ Len(t) = Len(s) + 1
         /\ \A i, j \in 1 .. Len(t) : t[i] = t[j] => i = j
         /\ {t[i] : i \in 1 .. Len(t)} = {s[i] : i \in 1 .. Len(s)} \cup {h}
         /\ s # <<>> => Head(t) = Head(s)
  <1>1. t \in Seq(Handlers) /\ Len(t) = Len(s) + 1 /\ t[Len(t)] = h /\ \A i \in 1 .. Len(s) : t[i] = s[i]
    OBVIOUS
  <1>2. t # <<>> /\ Len(s) \in Nat
    BY <1>1
  <1>3. \A i, j \in 1 .. Len(t) : t[i] = t[j] => i = j
    BY <1>1, <1>2
  <1>4. {t[i] : i \in 1 .. Len(t)} = {s[i] : i \in 1 .. Len(s)} \cup {h}
    BY <1>1, <1>2
  <1>5. s # <<>> => Head(t) = Head(s)
    <2>1. s # <<>> => 1 \in 1 .. Len(s) /\ Head(s) = s[1]
      BY <1>2
    <2>2. Head(t) = t[1]
      BY <1>1, <1>2
    <2> QED BY <1>1, <2>1, <2>2
  <1> QED BY <1>1, <1>2, <1>3, <1>4, <1>5

\* The head leaves a chain.
Distinct(s) == \A i, j \in 1 .. Len(s) : s[i] = s[j] => i = j
Members(s) == {s[i] : i \in 1 .. Len(s)}

LEMMA HeadLeaves ==
  ASSUME NEW s \in Seq(Handlers), s # <<>>, Distinct(s)
  PROVE  Tail(s) \in Seq(Handlers) /\ Distinct(Tail(s)) /\ Members(Tail(s)) = Members(s) \ {Head(s)}
  <1> USE DEF Distinct
  <1>0. PICK t : t = Tail(s)
    OBVIOUS
  <1>1. t \in Seq(Handlers) /\ Len(s) \in Nat /\ Len(s) # 0 /\ Len(t) = Len(s) - 1 /\ \A i \in 1 .. Len(t) : t[i] = s[i + 1]
    BY <1>0
  <1>2. Head(s) = s[1]
    OBVIOUS
  <1>3. \A i, j \in 1 .. Len(t) : t[i] = t[j] => i = j
    <2> SUFFICES ASSUME NEW i \in 1 .. Len(t), NEW j \in 1 .. Len(t), t[i] = t[j] PROVE i = j
      OBVIOUS
    <2>1. i + 1 \in 1 .. Len(s) /\ j + 1 \in 1 .. Len(s) /\ s[i + 1] = s[j + 1]
      BY <1>1
    <2>2. i + 1 = j + 1
      BY <2>1
    <2> QED BY <1>1, <2>2
  <1>4. ASSUME NEW i \in 1 .. Len(t) PROVE t[i] \in {s[j] : j \in 1 .. Len(s)} \ {Head(s)}
    <2>1. i + 1 \in 1 .. Len(s) /\ 1 \in 1 .. Len(s) /\ i + 1 # 1 /\ t[i] = s[i + 1]
      BY <1>1
    <2>2. s[i + 1] # s[1]
      BY <2>1
    <2> QED BY <1>2, <2>1, <2>2
  <1>5. ASSUME NEW j \in 1 .. Len(s), s[j] # Head(s) PROVE s[j] \in {t[i] : i \in 1 .. Len(t)}
    <2>1. j # 1
      BY <1>2, <1>5
    <2>2. PICK i \in 1 .. Len(t) : j = i + 1
      BY <1>1, <2>1
    <2> QED BY <1>1, <2>2
  <1>6. {t[i] : i \in 1 .. Len(t)} = {s[i] : i \in 1 .. Len(s)} \ {Head(s)}
    BY <1>4, <1>5
  <1>7. Members(t) = Members(s) \ {Head(s)}
    BY <1>6, ZenonT(40) DEF Members
  <1>8. Distinct(t)
    BY <1>3, ZenonT(40)
  <1> QED BY <1>0, <1>1, <1>7, <1>8, ZenonT(40)

\* A request joins the chain of its mailbox's entry, or of a new one.
LEMMA RunStep ==
  ASSUME Assumed, SessionInv, NEW h \in Handlers, Run(h)
  PROVE  SessionInv'
  <1> USE DEF SessionInv
  <1>1. UNCHANGED <<ops, session, cred, watcher, sockets, stray, rev, cache, news, faults>> /\ req[h].at = "run"
    BY DEF Run
  <1>2. PICK b \in Boxes : b = req[h].box
    BY <1>1 DEF ReqTable, Placed
  <1>3. PICK e \in Entries : /\ EntryFor(b, e) /\ pool' = pool \cup {e}
                             /\ entry' = [entry EXCEPT ![e].box = b, ![e].queue = Append(@, h)]
                             /\ req' = [req EXCEPT ![h].at = "queued", ![h].entry = e]
    BY <1>2 DEF Run
  <1>4. EntryShape(entry[e]) /\ entry[e].queue \in Seq(Handlers)
    BY DEF EntryTable, EntryShape
  <1>5. PICK t : t = Append(entry[e].queue, h)
    OBVIOUS
  <1>6. h \notin Waiting(e)
    BY <1>1 DEF ChainInv, Queuing
  <1>7. /\ t \in Seq(Handlers) /\ t # <<>>
        /\ \A i, j \in 1 .. Len(t) : t[i] = t[j] => i = j
        /\ {t[i] : i \in 1 .. Len(t)} = Waiting(e) \cup {h}
        /\ InUse(e) => Head(t) = Head(entry[e].queue)
    <2>1. PICK s : s = entry[e].queue
      OBVIOUS
    <2>2. s \in Seq(Handlers) /\ t = Append(s, h)
      BY <1>4, <1>5, <2>1
    <2>3. \A i \in 1 .. Len(s) : s[i] # h
      BY <1>6, <2>1 DEF Waiting
    <2>4. \A i, j \in 1 .. Len(s) : s[i] = s[j] => i = j
      BY <2>1 DEF ChainInv
    <2>5. /\ t \in Seq(Handlers) /\ t # <<>>
          /\ \A i, j \in 1 .. Len(t) : t[i] = t[j] => i = j
          /\ {t[i] : i \in 1 .. Len(t)} = {s[i] : i \in 1 .. Len(s)} \cup {h}
          /\ s # <<>> => Head(t) = Head(s)
      BY <2>2, <2>3, <2>4, Joins
    <2> QED BY <2>1, <2>5, ZenonT(60) DEF Waiting, InUse
  <1> DEFINE x == [box |-> b, open |-> entry[e].open, queue |-> t]
  <1>8. EntryShape(x) /\ x.box = b /\ x.queue = t /\ x.open = entry[e].open
    BY <1>4, <1>7 DEF EntryShape
  <1>9. entry' = [d \in Entries |-> entry'[d]] /\ entry'[e] = x /\ \A d \in Entries : d # e => entry'[d] = entry[d]
    <2>1. entry'[e] = x
      BY <1>3, <1>4, <1>5 DEF EntryTable, EntryShape
    <2> QED BY <1>3, <2>1 DEF EntryTable
  <1> HIDE DEF x
  <1> DEFINE q == [op |-> req[h].op, at |-> "queued", box |-> b, entry |-> e, rev |-> req[h].rev, hit |-> req[h].hit]
  <1>10. Placed(q) /\ q.at = "queued" /\ q.box = b /\ q.entry = e
    BY DEF Placed, ReqShape, Steps, Queuing
  <1>11. req' = [req EXCEPT ![h] = q]
    <2>1. PICK r : r = [req[h] EXCEPT !.at = "queued", !.entry = e]
      OBVIOUS
    <2>2. r = q
      <3>1. ReqShape(req[h])
        BY DEF ReqTable, Placed
      <3> QED BY <1>2, <2>1, <3>1 DEF ReqShape
    <2>3. req' = [req EXCEPT ![h] = r]
      BY <1>3, <2>1
    <2> QED BY <2>2, <2>3
  <1> HIDE DEF q
  <1>12. ReqTable' /\ req'[h] = q /\ \A g \in Handlers : g # h => req'[g] = req[g]
    BY <1>1, <1>10, <1>11, Moved
  <1>13. (e \in pool /\ entry[e].box = b) \/ (e \notin pool /\ entry[e] = Unused /\ \A d \in pool : entry[d].box # b)
    <2>1. CASE Pooled(b) # {}
      BY <1>3, <2>1 DEF EntryFor, Pooled
    <2>2. CASE Pooled(b) = {}
      <3>1. entry[e] = Unused /\ \A d \in pool : entry[d].box # b
        BY <1>3, <2>2 DEF EntryFor, Pooled
      <3>2. entry[e].box = NoBox /\ NoBox \notin Boxes
        BY <3>1 DEF Unused, Assumed, PoolAssumption
      <3> QED BY <3>1, <3>2 DEF EntryTable
    <2> QED BY <2>1, <2>2
  <1>14. InUse(e) => entry[e].box = b
    BY <1>13 DEF InUse, Unused
  <1>15. EntryTable'
    <2>1. \A d \in Entries : EntryShape(entry[d])'
      BY <1>8, <1>9 DEF EntryTable, EntryShape
    <2>2. pool' \subseteq Entries /\ \A d \in pool' : entry'[d].box \in Boxes
      BY <1>3, <1>8, <1>9 DEF EntryTable
    <2>3. ASSUME NEW c \in pool', NEW d \in pool', entry'[c].box = entry'[d].box PROVE c = d
      <3>1. c \in Entries /\ d \in Entries
        BY <2>2
      <3>2. CASE c # e /\ d # e
        <4>1. c \in pool /\ d \in pool /\ entry[c].box = entry[d].box
          BY <1>3, <1>9, <2>3, <3>1, <3>2
        <4> QED BY <4>1 DEF EntryTable
      <3>3. ASSUME NEW y \in pool', y # e, entry'[y].box = b PROVE FALSE
        <4>1. y \in pool /\ entry[y].box = b
          BY <1>3, <1>9, <2>2, <3>3
        <4> QED BY <1>13, <3>3, <4>1 DEF EntryTable
      <3> QED BY <1>8, <1>9, <2>3, <3>2, <3>3
    <2> QED BY <1>9, <2>1, <2>2, <2>3 DEF EntryTable
  <1>16. Waiting(e)' = Waiting(e) \cup {h} /\ \A d \in Entries : d # e => Waiting(d)' = Waiting(d)
    <2>1. entry'[e].queue = t
      BY <1>8, <1>9
    <2>2. Waiting(e)' = {t[i] : i \in 1 .. Len(t)}
      BY <2>1 DEF Waiting
    <2>3. Waiting(e)' = Waiting(e) \cup {h}
      BY <1>7, <2>2
    <2>4. ASSUME NEW d \in Entries, d # e PROVE Waiting(d)' = Waiting(d)
      BY <1>9, <2>4 DEF Waiting
    <2> QED BY <2>3, <2>4
  <1>17. ChainInv'
    <2>1. \A d \in Entries : \A g \in Waiting(d)' : req'[g].entry = d /\ req'[g].at \in Queuing
      <3> SUFFICES ASSUME NEW d \in Entries, NEW g \in Waiting(d)' PROVE req'[g].entry = d /\ req'[g].at \in Queuing
        OBVIOUS
      <3>1. CASE g = h
        <4>1. d = e
          BY <1>1, <1>16, <3>1 DEF ChainInv, Queuing
        <4> QED BY <1>10, <1>12, <3>1, <4>1 DEF Queuing
      <3>2. CASE g # h
        <4>1. g \in Waiting(d) /\ g \in Handlers
          BY <1>16, <3>2, InChain
        <4> QED BY <1>12, <3>2, <4>1 DEF ChainInv
      <3> QED BY <3>1, <3>2
    <2>2. \A g \in Handlers : req'[g].at \in Queuing => entry'[req'[g].entry].box = req'[g].box /\ g \in Waiting(req[g].entry)'
      <3> SUFFICES ASSUME NEW g \in Handlers, req'[g].at \in Queuing
                   PROVE  entry'[req'[g].entry].box = req'[g].box /\ g \in Waiting(req[g].entry)'
        OBVIOUS
      <3>1. CASE g = h
        BY <1>8, <1>9, <1>10, <1>12, <1>16, <3>1
      <3>2. CASE g # h
        <4>1. req'[g] = req[g] /\ req[g].entry \in Entries /\ entry[req[g].entry].box = req[g].box /\ g \in Waiting(req[g].entry)
          BY <1>12, <3>2 DEF ChainInv, ReqTable, Placed
        <4>2. CASE req[g].entry = e
          BY <1>8, <1>9, <1>14, <1>16, <4>1, <4>2, InChain
        <4>3. CASE req[g].entry # e
          BY <1>9, <1>16, <4>1, <4>3
        <4> QED BY <4>2, <4>3
      <3> QED BY <3>1, <3>2
    <2>3. ASSUME NEW g \in Handlers, Working(g)'
          PROVE  /\ Head(entry'[req'[g].entry].queue) = g
                 /\ req'[g].at = "connect" => ~entry'[req'[g].entry].open
      <3>1. g # h
        BY <1>10, <1>12, <2>3 DEF Working
      <3>2. req'[g] = req[g] /\ Working(g) /\ req[g].at \in Queuing
        BY <1>12, <2>3, <3>1 DEF Working, Queuing
      <3>3. req[g].entry \in Entries /\ Head(entry[req[g].entry].queue) = g /\ InUse(req[g].entry)
        BY <3>2, InChain DEF ReqTable, Placed, ChainInv
      <3>4. Head(entry'[req[g].entry].queue) = g /\ entry'[req[g].entry].open = entry[req[g].entry].open
        BY <1>7, <1>8, <1>9, <3>3
      <3> QED BY <3>2, <3>4 DEF ChainInv
    <2>4. \A d \in Entries : \A i, j \in 1 .. Len(entry'[d].queue) : entry'[d].queue[i] = entry'[d].queue[j] => i = j
      BY <1>7, <1>8, <1>9 DEF ChainInv
    <2> QED BY <2>1, <2>2, <2>3, <2>4 DEF ChainInv, Working
  <1>18. PoolWithinCap'
    <2>1. e \in pool' /\ InUse(e)'
      BY <1>3, <1>7, <1>8, <1>9 DEF InUse
    <2> QED BY <2>1 DEF PoolWithinCap
  <1>19. \A d \in Entries : entry'[d].open = entry[d].open
    BY <1>8, <1>9
  <1>20. OpenInv'
    <2>1. \A g \in Handlers : req'[g].at = "fn" => req'[g] = req[g] /\ req[g].entry \in Entries
      BY <1>10, <1>12 DEF ReqTable, Placed, Queuing
    <2>2. \A g \in Handlers : req'[g].at \in Purging => req[g].at \in Purging
      BY <1>10, <1>12 DEF Purging
    <2> QED BY <1>1, <1>19, <2>1, <2>2 DEF OpenInv, InUseIsOpen
  <1>21. SocketInv'
    <2>1. Opened' = Opened
      BY <1>19 DEF Opened
    <2>2. Opening' = Opening
      BY <1>1, <1>10, <1>12 DEF Opening
    <2> QED BY <1>1, <2>1, <2>2 DEF SocketInv
  <1>22. ViewTypes' /\ ViewInv'
    <2>1. \A c \in Boxes : rev[c] <= rev'[c]
      BY <1>1 DEF ViewTypes
    <2> QED BY <1>1, <1>10, <1>12, <2>1, ViewsKept DEF ViewTypes, Dated
  <1> QED BY <1>12, <1>15, <1>17, <1>18, <1>20, <1>21, <1>22

\* The work is over: the head leaves its chain, and what is over the cap is evicted.
LEMMA LeaveStep ==
  ASSUME Assumed, SessionInv, NEW h \in Handlers, req[h].at \in {"connect", "fn"}, Leave(h),
         NEW q, Placed(q), q.at \in {"idle", "write", "bust"}, req' = [req EXCEPT ![h] = q],
         UNCHANGED <<ops, session, watcher>>, faults' \in Nat, faults' >= faults
  PROVE  ReqTable' /\ EntryTable' /\ ChainInv' /\ OpenInv' /\ PoolWithinCap' /\ SocketInv'
  <1> USE DEF SessionInv
  <1>1. ReqTable' /\ req'[h] = q /\ \A g \in Handlers : g # h => req'[g] = req[g]
    BY Moved
  <1>2. PICK e \in Entries : e = req[h].entry
    BY DEF ReqTable, Placed, Queuing
  <1>3. PICK left : left = Tail(entry[e].queue)
    OBVIOUS
  <1>4. EntryShape(entry[e]) /\ entry[e].queue \in Seq(Handlers) /\ h \in Waiting(e) /\ Head(entry[e].queue) = h /\ entry[e].queue # <<>>
    <2>1. h \in Waiting(e) /\ Head(entry[e].queue) = h
      BY <1>2 DEF ChainInv, Working, Queuing
    <2> QED BY <2>1, InChain DEF EntryTable, EntryShape, InUse
  <1>5. /\ left \in Seq(Handlers)
        /\ \A i, j \in 1 .. Len(left) : left[i] = left[j] => i = j
        /\ {left[i] : i \in 1 .. Len(left)} = Waiting(e) \ {h}
    <2>1. \A i, j \in 1 .. Len(entry[e].queue) : entry[e].queue[i] = entry[e].queue[j] => i = j
      BY DEF ChainInv
    <2>2. PICK s \in Seq(Handlers) : s = entry[e].queue /\ s # <<>>
      BY <1>4
    <2>3. Distinct(s) /\ left = Tail(s)
      BY <1>3, <2>1, <2>2 DEF Distinct
    <2>4. left \in Seq(Handlers) /\ Distinct(left) /\ Members(left) = Members(s) \ {Head(s)}
      BY <2>2, <2>3, HeadLeaves
    <2>5. Waiting(e) = Members(s) /\ Head(s) = h
      BY <1>4, <2>2 DEF Waiting, Members
    <2> QED BY <2>4, <2>5 DEF Distinct, Members
  <1>6. PICK b \in Boxes : b = req[h].box
    BY DEF ReqTable, Placed
  <1>7. PICK used : used = {d \in Entries : IF d = e THEN left # <<>> ELSE InUse(d)}
    OBVIOUS
  <1>8. PICK idle : idle = {d \in pool : entry[d].box # b /\ d \notin used}
    OBVIOUS
  <1> DEFINE dropped == e \notin pool /\ left = <<>>
  <1>9. PICK out \in SUBSET idle :
          /\ Evicted(idle, out) /\ pool' = pool \ out
          /\ entry' = [d \in Entries |->
               IF d \in out \/ (d = e /\ dropped) THEN Unused
               ELSE IF d = e THEN [entry[d] EXCEPT !.queue = left] ELSE entry[d]]
          /\ sockets' = sockets - Sockets(out)
    BY <1>2, <1>3, <1>6, <1>7, <1>8 DEF Leave, IdleBut, Delete
  <1>10. stray' = stray + IF dropped /\ entry[e].open THEN 1 ELSE 0
    BY <1>2, <1>3 DEF Leave
  <1>11. PICK gone : gone = IF dropped THEN out \cup {e} ELSE out
    OBVIOUS
  <1>12. EntryShape(Unused) /\ Unused.queue = <<>> /\ Unused.open = FALSE
    BY DEF EntryShape, Unused
  <1>13. out \subseteq pool /\ gone \subseteq Entries /\ gone \cap pool' = {} /\ \A d \in gone : d = e => left = <<>>
    BY <1>7, <1>8, <1>9, <1>11 DEF EntryTable
  <1>14. \A d \in gone : d # e => entry[d].queue = <<>>
    BY <1>7, <1>8, <1>9, <1>11, <1>13 DEF InUse
  <1>15. ASSUME NEW d \in Entries
         PROVE  /\ EntryShape(entry'[d]) /\ entry'[d].queue = (IF d = e THEN left ELSE entry[d].queue)
                /\ entry'[d].open <=> entry[d].open /\ d \notin gone
                /\ d \notin gone => entry'[d].box = entry[d].box
    <2>0. EntryShape(entry[d])
      BY DEF EntryTable
    <2>1. CASE d \in gone
      <3>1. entry'[d] = Unused
        BY <1>9, <1>11, <2>1
      <3> QED BY <1>12, <1>13, <1>14, <2>1, <3>1
    <2>2. CASE d \notin gone /\ d = e
      <3>1. entry'[d] = [entry[d] EXCEPT !.queue = left]
        BY <1>9, <1>11, <2>2
      <3> QED BY <1>5, <2>0, <2>2, <3>1, Queued
    <2>3. CASE d \notin gone /\ d # e
      <3>1. entry'[d] = entry[d]
        BY <1>9, <1>11, <2>3
      <3> QED BY <2>0, <2>3, <3>1
    <2> QED BY <2>1, <2>2, <2>3
  <1> HIDE DEF dropped
  <1>16. EntryTable'
    <2>1. \A d \in Entries : EntryShape(entry[d])'
      BY <1>15 DEF EntryShape
    <2>2. \A d \in pool' : d \in pool /\ d \in Entries /\ entry'[d].box = entry[d].box
      BY <1>9, <1>13, <1>15 DEF EntryTable
    <2>3. \A d \in pool' : entry'[d].box \in Boxes
      BY <2>2 DEF EntryTable
    <2>4. ASSUME NEW c \in pool', NEW d \in pool', entry'[c].box = entry'[d].box PROVE c = d
      <3>1. c \in pool /\ d \in pool /\ entry[c].box = entry[d].box
        BY <2>2, <2>4
      <3> QED BY <3>1 DEF EntryTable
    <2>5. entry' = [d \in Entries |-> entry'[d]]
      BY <1>9
    <2> QED BY <2>1, <2>2, <2>3, <2>4, <2>5 DEF EntryTable
  <1>17. Waiting(e)' = Waiting(e) \ {h} /\ \A d \in Entries : d # e => Waiting(d)' = Waiting(d)
    <2>1. entry'[e].queue = left
      BY <1>15
    <2>2. Waiting(e)' = {left[i] : i \in 1 .. Len(left)}
      BY <2>1 DEF Waiting
    <2>3. Waiting(e)' = Waiting(e) \ {h}
      BY <1>5, <2>2
    <2>4. ASSUME NEW d \in Entries, d # e PROVE Waiting(d)' = Waiting(d)
      BY <1>15, <2>4 DEF Waiting
    <2> QED BY <2>3, <2>4
  <1>18. ASSUME NEW g \in Handlers, req'[g].at \in Queuing
         PROVE  /\ g # h /\ req'[g] = req[g] /\ req[g].entry \in Entries /\ g \in Waiting(req[g].entry) /\ entry[req[g].entry].box = req[g].box
                /\ req[g].entry \notin gone
                /\ Working(g) => req[g].entry # e
    <2>1. g # h
      BY <1>1, <1>18 DEF Queuing
    <2>2. req'[g] = req[g] /\ req[g].entry \in Entries /\ g \in Waiting(req[g].entry) /\ entry[req[g].entry].box = req[g].box
      BY <1>1, <1>18, <2>1 DEF ChainInv, ReqTable, Placed
    <2>3. req[g].entry \notin gone
      <3>1. CASE req[g].entry = e
        <4>1. left # <<>>
          BY <1>5, <2>1, <2>2, <3>1
        <4> QED BY <1>13, <3>1, <4>1
      <3>2. CASE req[g].entry # e
        BY <1>14, <2>2, <3>2, InChain DEF InUse
      <3> QED BY <3>1, <3>2
    <2>4. Working(g) => req[g].entry # e
      BY <1>4, <2>1 DEF ChainInv
    <2> QED BY <2>1, <2>2, <2>3, <2>4
  <1>19. ChainInv'
    <2>1. \A d \in Entries : \A g \in Waiting(d)' : req'[g].entry = d /\ req'[g].at \in Queuing
      <3> SUFFICES ASSUME NEW d \in Entries, NEW g \in Waiting(d)' PROVE req'[g].entry = d /\ req'[g].at \in Queuing
        OBVIOUS
      <3>1. g \in Waiting(d) /\ g \in Handlers
        BY <1>17, InChain
      <3>2. g # h
        BY <1>2, <1>17, <3>1 DEF ChainInv
      <3> QED BY <1>1, <3>1, <3>2 DEF ChainInv
    <2>2. \A g \in Handlers : req'[g].at \in Queuing => entry'[req'[g].entry].box = req'[g].box /\ g \in Waiting(req[g].entry)'
      <3> SUFFICES ASSUME NEW g \in Handlers, req'[g].at \in Queuing
                   PROVE  entry'[req'[g].entry].box = req'[g].box /\ g \in Waiting(req[g].entry)'
        OBVIOUS
      <3>1. PICK d \in Entries : d = req[g].entry /\ g # h /\ req'[g] = req[g] /\ g \in Waiting(d) /\ entry[d].box = req[g].box /\ d \notin gone
        BY <1>18
      <3>2. entry'[d].box = req'[g].box /\ g \in Waiting(d)'
        BY <1>15, <1>17, <3>1
      <3> QED BY <3>1, <3>2
    <2>3. ASSUME NEW g \in Handlers, Working(g)'
          PROVE  /\ Head(entry'[req'[g].entry].queue) = g
                 /\ req'[g].at = "connect" => ~entry'[req'[g].entry].open
      <3>1. req'[g].at \in Queuing
        BY <2>3 DEF Working, Queuing
      <3>2. req'[g] = req[g] /\ req[g].entry \in Entries /\ (Working(g) => req[g].entry # e)
        BY <1>18, <3>1
      <3>3. Working(g)
        BY <2>3, <3>2 DEF Working
      <3>4. entry'[req[g].entry].queue = entry[req[g].entry].queue /\ (entry'[req[g].entry].open => entry[req[g].entry].open)
        BY <1>15, <3>2, <3>3
      <3> QED BY <3>2, <3>3, <3>4 DEF ChainInv
    <2>4. \A d \in Entries : \A i, j \in 1 .. Len(entry'[d].queue) : entry'[d].queue[i] = entry'[d].queue[j] => i = j
      <3> SUFFICES ASSUME NEW d \in Entries PROVE \A i, j \in 1 .. Len(entry'[d].queue) : entry'[d].queue[i] = entry'[d].queue[j] => i = j
        OBVIOUS
      <3>1. CASE d = e
        <4>1. entry'[d].queue = left
          BY <1>15, <3>1
        <4> QED BY <1>5, <4>1
      <3>2. CASE d # e
        <4>1. entry'[d].queue = entry[d].queue
          BY <1>15, <3>2
        <4> QED BY <4>1 DEF ChainInv
      <3> QED BY <3>1, <3>2
    <2> QED BY <2>1, <2>2, <2>3, <2>4 DEF ChainInv, Working
  <1>20. OpenInv'
    <2>1. \A g \in Handlers : req'[g].at = "fn" => req'[g] = req[g] /\ entry'[req[g].entry].open = entry[req[g].entry].open
      <3> SUFFICES ASSUME NEW g \in Handlers, req'[g].at = "fn"
                   PROVE  req'[g] = req[g] /\ entry'[req[g].entry].open = entry[req[g].entry].open
        OBVIOUS
      <3>1. req'[g] = req[g] /\ req[g].entry \in Entries /\ req[g].entry \notin gone
        BY <1>18 DEF Queuing
      <3>2. entry'[req[g].entry].open \in BOOLEAN /\ entry[req[g].entry].open \in BOOLEAN
        BY <1>15, <3>1 DEF EntryTable, EntryShape
      <3> QED BY <1>15, <3>1, <3>2
    <2>2. \A g \in Handlers : req'[g].at \in Purging => req[g].at \in Purging
      BY <1>1 DEF Purging
    <2> QED BY <2>1, <2>2 DEF OpenInv, InUseIsOpen
  <1>21. PoolWithinCap'
    <2> SUFFICES ASSUME \A d \in pool' : ~InUse(d)' PROVE Cardinality(pool') <= IMAP_POOL_MAX
      BY DEF PoolWithinCap
    <2>1. CASE out # idle
      BY <1>9, <2>1 DEF Evicted
    <2>2. CASE out = idle
      <3>1. \A d \in pool' : entry[d].box = b /\ d \in pool
        <4> SUFFICES ASSUME NEW d \in pool' PROVE entry[d].box = b /\ d \in pool
          OBVIOUS
        <4>1. d \in pool /\ d \notin idle /\ d \in Entries
          BY <1>9, <2>2 DEF EntryTable
        <4>2. entry[d].box = b \/ d \in used
          BY <1>8, <4>1
        <4>3. d \notin used
          BY <1>7, <1>15, <4>1 DEF InUse
        <4> QED BY <4>1, <4>2, <4>3
      <3>2. CASE pool' = {}
        BY <3>2, FS_EmptySet DEF Assumed, PoolAssumption
      <3>3. CASE pool' # {}
        <4>1. PICK x : x \in pool'
          BY <3>3
        <4>2. pool' \subseteq {x}
          BY <3>1, <4>1 DEF EntryTable
        <4>3. IsFiniteSet({x}) /\ Cardinality({x}) = 1 /\ pool' \in SUBSET {x}
          BY <4>2, FS_Singleton
        <4>4. Cardinality(pool') <= 1 /\ Cardinality(pool') \in Nat
          BY <4>3, FS_Subset, FS_CardinalityType
        <4> QED BY <4>4 DEF Assumed, PoolAssumption
      <3> QED BY <3>2, <3>3
    <2> QED BY <2>1, <2>2
  <1>22. SocketInv'
    <2>1. Opened' = Opened \ gone
      BY <1>15 DEF Opened
    <2>2. Opening' = Opening
      BY <1>1 DEF Opening
    <2>3. Sockets(out) = Cardinality(Opened \cap out)
      <3>1. {d \in out : entry[d].open} = Opened \cap out
        BY <1>13 DEF Opened, EntryTable
      <3> QED BY <3>1 DEF Sockets
    <2>4. Opened \in SUBSET Entries /\ Opened \cap out \in SUBSET Entries /\ Opened \ out \in SUBSET Entries /\ Opening \in SUBSET Handlers /\ watcher \in SUBSET Boxes
      BY DEF Opened, Opening, SocketInv
    <2>5. Cardinality(Opened \ out) = Cardinality(Opened) - Cardinality(Opened \cap out)
      BY <2>4, Counted, FS_Difference
    <2>6. /\ Cardinality(Opened) \in Nat /\ Cardinality(Opened \cap out) \in Nat
          /\ Cardinality(Opening) \in Nat /\ Cardinality(watcher) \in Nat /\ IsFiniteSet(Opened \ out)
      BY <2>4, Counted
    <2>7. CASE ~dropped
      <3>1. Opened' = Opened \ out /\ stray' = stray
        BY <1>10, <1>11, <2>1, <2>7 DEF SocketInv
      <3> QED BY <1>9, <2>2, <2>3, <2>5, <2>6, <3>1 DEF SocketInv
    <2>8. CASE dropped
      <3>1. e \notin out
        BY <1>13, <2>8 DEF dropped
      <3>2. Opened' = (Opened \ out) \ {e}
        BY <1>11, <2>1, <2>8
      <3>3. e \in Opened \ out <=> entry[e].open
        BY <3>1 DEF Opened
      <3>4. Cardinality((Opened \ out) \ {e}) = IF e \in Opened \ out THEN Cardinality(Opened \ out) - 1 ELSE Cardinality(Opened \ out)
        BY <2>6, FS_RemoveElement
      <3>5. stray' = stray + IF entry[e].open THEN 1 ELSE 0
        BY <1>10, <2>8
      <3> QED BY <1>9, <2>2, <2>3, <2>5, <2>6, <3>2, <3>3, <3>4, <3>5 DEF SocketInv
    <2> QED BY <2>7, <2>8
  <1> QED BY <1>1, <1>16, <1>19, <1>20, <1>21, <1>22

\* The commands on an open connection.
LEMMA CommandStep ==
  ASSUME Assumed, SessionInv, NEW h \in Handlers, List(h) \/ Read(h) \/ Change(h) \/ CommandFails(h)
  PROVE  SessionInv'
  <1> USE DEF SessionInv
  <1>1. /\ req[h].at \in {"connect", "fn"} /\ Leave(h) /\ UNCHANGED <<ops, session, cred, watcher, cache, news>>
        /\ faults' = faults \/ faults' = faults + 1
    BY DEF List, Read, Change, CommandFails, Fault
  <1>2. PICK b \in Boxes : b = req[h].box
    BY <1>1 DEF ReqTable, Placed
  <1>3. ReqShape(req[h]) /\ Placed(req[h])
    BY DEF ReqTable, Placed
  <1>4. rev' = rev \/ (rev[b] < MaxRev /\ rev' = [rev EXCEPT ![b] = rev[b] + 1])
    BY <1>2 DEF List, Read, Change, CommandFails
  <1>5. rev \in [Boxes -> 0 .. MaxRev] /\ MaxRev \in Nat
    BY DEF ViewTypes, Assumed, BoundsAssumption
  <1>6. rev' \in [Boxes -> 0 .. MaxRev] /\ \A c \in Boxes : rev[c] <= rev'[c]
    <2>1. CASE rev' = rev
      BY <1>5, <2>1
    <2>2. CASE rev[b] < MaxRev /\ rev' = [rev EXCEPT ![b] = rev[b] + 1]
      <3>1. rev[b] + 1 \in 0 .. MaxRev
        BY <1>5, <2>2
      <3> QED BY <1>5, <2>2, <3>1
    <2> QED BY <1>4, <2>1, <2>2
  <1>7. PICK q : /\ req' = [req EXCEPT ![h] = q] /\ Placed(q) /\ q.at \in {"idle", "write", "bust"}
                 /\ q.at \in Dated => q.box = b /\ q.rev = rev'[b]
    <2>1. CASE Read(h) \/ CommandFails(h)
      <3>1. PICK q : req' = [req EXCEPT ![h] = q] /\ Placed(q) /\ q.at = "idle"
        BY <2>1, Ends DEF Read, CommandFails
      <3> QED BY <3>1 DEF Dated
    <2>2. CASE List(h)
      <3> DEFINE q == [op |-> req[h].op, at |-> "write", box |-> b, entry |-> req[h].entry, rev |-> rev[b], hit |-> req[h].hit]
      <3>1. Placed(q) /\ q.at = "write" /\ q.box = b /\ q.rev = rev[b]
        BY DEF Placed, ReqShape, Steps, Queuing
      <3>2. PICK r : r = [req[h] EXCEPT !.at = "write", !.rev = rev[b]]
        OBVIOUS
      <3>3. r = q
        BY <1>2, <1>3, <3>2 DEF ReqShape
      <3>4. req' = [req EXCEPT ![h] = r]
        BY <1>2, <2>2, <3>2 DEF List
      <3>5. rev' = rev
        BY <2>2 DEF List
      <3> HIDE DEF q
      <3> QED BY <3>1, <3>3, <3>4, <3>5
    <2>3. CASE Change(h)
      <3> DEFINE q == [op |-> req[h].op, at |-> "bust", box |-> b, entry |-> req[h].entry, rev |-> rev[b] + 1, hit |-> req[h].hit]
      <3>1. Placed(q) /\ q.at = "bust" /\ q.box = b /\ q.rev = rev[b] + 1
        BY DEF Placed, ReqShape, Steps, Queuing
      <3>2. PICK r : r = [req[h] EXCEPT !.at = "bust", !.rev = rev[b] + 1]
        OBVIOUS
      <3>3. r = q
        BY <1>2, <1>3, <3>2 DEF ReqShape
      <3>4. req' = [req EXCEPT ![h] = r]
        BY <1>2, <2>3, <3>2 DEF Change
      <3>5. rev'[b] = rev[b] + 1
        BY <1>2, <1>5, <2>3 DEF Change
      <3> HIDE DEF q
      <3> QED BY <3>1, <3>3, <3>4, <3>5
    <2> QED BY <2>1, <2>2, <2>3
  <1>8. faults' \in Nat /\ faults' >= faults
    BY <1>1 DEF OpenInv
  <1>9. ReqTable' /\ EntryTable' /\ ChainInv' /\ OpenInv' /\ PoolWithinCap' /\ SocketInv'
    <2> HIDE DEF SessionInv
    <2> QED BY <1>1, <1>7, <1>8, LeaveStep
  <1>10. ViewTypes' /\ ViewInv'
    <2>1. req'[h] = q /\ \A g \in Handlers : g # h => req'[g] = req[g]
      BY <1>7 DEF ReqTable
    <2>2. rev'[b] \in 0 .. rev'[b]
      BY <1>6
    <2>3. \A g \in Handlers : \/ req'[g] = req[g]
                              \/ req'[g].at # "del" /\ (req'[g].at \in Dated => req'[g].rev \in 0 .. rev'[req'[g].box])
      BY <1>7, <2>1, <2>2
    <2>4. cred' \subseteq Boxes /\ DOMAIN news' = Boxes /\ news' = news
      BY <1>1 DEF ViewTypes
    <2> QED BY <1>1, <1>6, <1>9, <2>3, <2>4, ViewsKept
  <1> QED BY <1>9, <1>10
-----------------------------------------------------------------------------
(* The invariant and what it says.                                         *)

LEMMA SessionInit ==
  ASSUME Assumed, Init
  PROVE  SessionInv
  <1> USE DEF Init
  <1>1. ReqTable
    <2>1. Placed(Idle)
      BY DEF Idle, Placed, ReqShape, Steps, Queuing
    <2> QED BY <2>1 DEF ReqTable, Assumed, KindsAssumption
  <1>2. \A h \in Handlers : req[h].at = "idle"
    BY DEF Idle
  <1>3. \A e \in Entries : entry[e] = Unused
    OBVIOUS
  <1>4. EntryShape(Unused) /\ Unused.queue = <<>> /\ Unused.open = FALSE
    BY DEF EntryShape, Unused
  <1>5. EntryTable
    BY <1>3, <1>4 DEF EntryTable
  <1>6. ChainInv
    <2>1. \A e \in Entries : Waiting(e) = {}
      BY <1>3, <1>4 DEF Waiting
    <2> QED BY <1>2, <1>3, <1>4, <2>1 DEF ChainInv, Working, Queuing
  <1>7. OpenInv
    BY <1>2 DEF OpenInv, InUseIsOpen, Purging
  <1>8. PoolWithinCap
    BY FS_EmptySet DEF PoolWithinCap, Assumed, PoolAssumption
  <1>9. SocketInv
    <2>1. Opened = {} /\ Opening = {}
      BY <1>2, <1>3, <1>4 DEF Opened, Opening
    <2> QED BY <2>1, FS_EmptySet DEF SocketInv
  <1>10. ViewTypes
    <2>1. MaxRev \in Nat /\ NoView \in 0 .. NoView /\ 0 \in 0 .. MaxRev
      BY DEF Assumed, BoundsAssumption, NoView
    <2> QED BY <1>2, <2>1 DEF ViewTypes, Dated
  <1>11. ViewInv
    BY DEF ViewInv
  <1> QED BY <1>1, <1>5, <1>6, <1>7, <1>8, <1>9, <1>10, <1>11 DEF SessionInv

LEMMA SessionNext ==
  ASSUME Assumed, SessionInv, [Next]_vars
  PROVE  SessionInv'
  <1>1. ASSUME NEW h \in Handlers, Step(h) PROVE SessionInv'
    BY <1>1, LookupStep, RunStep, BeginStep, ConnectStep, CommandStep, CacheSetStep, BustReadStep, BustDelStep,
       StopStep, WatchOpenStep, RevokeStep, PurgePoolStep DEF Step
  <1>2. ASSUME NEW h \in Handlers, Request(h) \/ RedisFails(h) \/ WatchFails(h) PROVE SessionInv'
    BY <1>2, RequestStep, RedisStep, WatchOpenStep
  <1>3. ASSUME NEW b \in Boxes, CredExpires(b) \/ ViewExpires(b) \/ Arrives(b) \/ NotifyRead(b) \/ NotifyDel(b) PROVE SessionInv'
    BY <1>3, ExpiryStep, ViewTimersStep
  <1>4. CASE Timers \/ ConnectionLost
    BY <1>4, SweepStep, LostStep DEF Timers
  <1>5. CASE UNCHANGED vars
    <2> USE DEF SessionInv
    <2>1. UNCHANGED <<ops, session, cred, conns, rev, cache, news, req, faults>>
      BY <1>5 DEF vars
    <2>2. ReqTable' /\ \A g \in Handlers : req'[g] = req[g]
      BY <2>1 DEF ReqTable
    <2>3. EntryTable' /\ ChainInv' /\ PoolWithinCap' /\ OpenInv' /\ SocketInv'
      BY <2>1, <2>2, ConnsKept
    <2>4. ViewTypes' /\ ViewInv'
      BY <2>1, <2>2, ViewsKept DEF ViewTypes
    <2> QED BY <2>2, <2>3, <2>4
  <1> QED BY <1>1, <1>2, <1>3, <1>4, <1>5 DEF Next

LEMMA SessionSafe ==
  ASSUME Assumed, SessionInv
  PROVE  TypeOK /\ PoolIsSound /\ ReadYourWrites
  <1> USE DEF SessionInv
  <1>1. ReadYourWrites
    BY DEF ViewInv, ReadYourWrites
  <1>2. Sockets(Entries) = Cardinality(Opened)
    BY DEF Sockets, Opened
  <1>3. ConnectionsAccounted
    BY <1>2 DEF SocketInv, ConnectionsAccounted, Opening
  <1>4. QueuesAreLive
    <2>1. \A h \in Handlers : Working(h) \/ req[h].at = "queued" <=> req[h].at \in Queuing
      BY DEF Working, Queuing
    <2>2. \A e \in Entries : \A h \in Waiting(e) : req[h].entry = e /\ (Working(h) \/ req[h].at = "queued")
      BY <2>1, InChain DEF ChainInv
    <2>3. ASSUME NEW h \in Handlers, Working(h) \/ req[h].at = "queued"
          PROVE  /\ entry[req[h].entry].box = req[h].box /\ h \in Waiting(req[h].entry)
                 /\ Working(h) => Head(entry[req[h].entry].queue) = h
      BY <2>1, <2>3 DEF ChainInv
    <2> QED BY <2>2, <2>3 DEF QueuesAreLive
  <1>5. PoolIsSound
    BY <1>3, <1>4 DEF PoolIsSound, OpenInv
  <1>6. TypeOK
    <2>1. sockets \in Nat
      <3>1. Opened \in SUBSET Entries /\ Opening \in SUBSET Handlers /\ watcher \in SUBSET Boxes
        BY DEF Opened, Opening, SocketInv
      <3>2. Cardinality(Opened) \in Nat /\ Cardinality(Opening) \in Nat /\ Cardinality(watcher) \in Nat
        BY <3>1, Counted
      <3> QED BY <3>2 DEF SocketInv
    <2> QED BY <2>1 DEF TypeOK, EntryTable, SocketInv, ViewTypes
  <1> QED BY <1>1, <1>5, <1>6

\* The pool of a webmail session stays within its cap when idle, closes no connection under a request,
\* accounts for every connection and keeps its chains moving, and no view from before an answered
\* change is served unless a listing overlapped it.
THEOREM SessionIsSound == ASSUME Assumed PROVE Spec => [](TypeOK /\ PoolIsSound /\ ReadYourWrites)
  <1>1. Init => SessionInv
    BY SessionInit
  <1>2. SessionInv /\ [Next]_vars => SessionInv'
    BY SessionNext
  <1>3. SessionInv => TypeOK /\ PoolIsSound /\ ReadYourWrites
    BY SessionSafe
  <1> QED BY <1>1, <1>2, <1>3, PTL DEF Spec
================================================================================
