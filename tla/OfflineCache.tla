---------------------------- MODULE OfflineCache ----------------------------
(***************************************************************************)
(* The webmail's service worker: what a page is answered online and        *)
(* offline.  Reads of the API and navigations go to the network first and  *)
(* fall back on the Cache API, build assets come from the cache first; a   *)
(* good answer is put into the cache without waiting for the put, so puts  *)
(* of overlapping reads may land in either order.  Also the three awaits   *)
(* that turn web push on.  The page's own query cache is in Reader, the    *)
(* push rows in Inbound.                                                   *)
(***************************************************************************)
EXTENDS Naturals, FiniteSets

CONSTANTS MaxReads, MaxVersion, MaxFaults   \* bounds

\* Assumed of the constants, by the module that gives them values.
VersionsAssumption == MaxVersion \in Nat \ {0}

VARIABLES worker,   \* "none", "installed" or "active"
          caches,   \* the named caches: CACHE and the one of an older release
          version,  \* what the server would answer to each request
          online,   \* the network
          fetch,    \* requests of the page
          puts,     \* cache puts under way
          page,     \* the last answer the page got, by request
          best,     \* history: the newest network answer the page got
          crossed,  \* history: requests that ever ran twice at a time, or lost a put
          push,     \* the browser's push subscription
          used

vars == <<worker, caches, version, online, fetch, puts, page, best, crossed, push, used>>

CACHE == "justmail-v2"
OlderCache == "justmail-v1"
OFFLINE_URL == "/"
Urls == {OFFLINE_URL, "/m", "/v1/read", "/_next/static"}
Navigations == {OFFLINE_URL, "/m"}
isStaticAsset(u) == u = "/_next/static"

Absent == 0
Failed == 99     \* the page got no answer at all
Refused == 98    \* an answer that is not ok: shown, never cached
NoFetch == [url |-> OFFLINE_URL, at |-> "none", by |-> "page", awaited |-> TRUE, seen |-> 0]
Slots == 1..2

Init ==
    /\ worker = "none"
    /\ \E old \in {Absent, 1} : caches = [k \in {OlderCache, CACHE} |->
          [u \in Urls |-> IF k = OlderCache /\ u = "/v1/read" THEN old ELSE Absent]]
    /\ version = [u \in Urls |-> 1]
    /\ online = TRUE
    /\ fetch = [s \in Slots |-> NoFetch]
    /\ puts = {}
    /\ page = [u \in Urls |-> Absent] /\ best = [u \in Urls |-> Absent]
    /\ crossed = {}
    /\ \E supported \in BOOLEAN :   \* a behaviour is about the reads or about push
          /\ push = [at |-> IF supported THEN "off" ELSE "unsupported", sub |-> FALSE, told |-> "none"]
          /\ used = [reads |-> IF supported THEN MaxReads ELSE 0, faults |-> 0]

Spend(what, max) == used[what] < max /\ used' = [used EXCEPT ![what] = @ + 1]
Wire == <<version, online>>
View == <<page, best>>

(***************************************************************************)
(* The worker's life.  install adds the shell, whether or not that works,  *)
(* and skips waiting; activate drops every other cache.                    *)
(***************************************************************************)
Install ==
    /\ worker = "none"
    /\ worker' = "installed"
    /\ \E got \in IF online THEN {version[OFFLINE_URL], Absent} ELSE {Absent} :
          caches' = [caches EXCEPT ![CACHE][OFFLINE_URL] = got]
    /\ UNCHANGED <<Wire, fetch, puts, View, crossed, push, used>>

Activate ==
    /\ worker = "installed"
    /\ worker' = "active"
    /\ caches' = [k \in DOMAIN caches |-> IF k = CACHE THEN caches[k] ELSE [u \in Urls |-> Absent]]
    /\ UNCHANGED <<Wire, fetch, puts, View, crossed, push, used>>

\* caches.match looks through every cache, the oldest first.
Match(u) == IF caches[OlderCache][u] # Absent THEN caches[OlderCache][u] ELSE caches[CACHE][u]

(***************************************************************************)
(* The fetch event.  A page that no worker controls goes to the network.   *)
(***************************************************************************)
CacheFirstReads(u) == isStaticAsset(u) \/ u = "/v1/read"
CacheFirst(u) == isStaticAsset(u)

\* The page has its answer, unless a logout has forgotten the query since.
Answered(s, value) ==
    /\ fetch' = [fetch EXCEPT ![s] = NoFetch]
    /\ page' = IF fetch[s].awaited THEN [page EXCEPT ![fetch[s].url] = value] ELSE page

Request(s, u) ==
    /\ fetch[s].at = "none" /\ \A t \in Slots : t < s => fetch[t].at # "none"
    /\ Spend("reads", MaxReads)
    /\ crossed' = IF (\E t \in Slots : fetch[t].at # "none" /\ fetch[t].url = u) \/ \E p \in puts : p.url = u
                  THEN crossed \cup {u} ELSE crossed
    /\ IF worker = "active" /\ CacheFirst(u) /\ Match(u) # Absent
       THEN /\ page' = [page EXCEPT ![u] = Match(u)]
            /\ UNCHANGED <<fetch, best>>
       ELSE /\ fetch' = [fetch EXCEPT ![s] = [NoFetch EXCEPT !.url = u, !.at = "wire", !.by = IF worker = "active" THEN "worker" ELSE "page"]]
            /\ UNCHANGED View
    /\ UNCHANGED <<worker, caches, Wire, puts, push>>

\* The server answers: the page sees the version of that moment, ok or not.
ServerAnswers(s) ==
    /\ fetch[s].at = "wire" /\ online
    /\ \E v \in {version[fetch[s].url], Refused} :
          /\ v = Refused => Spend("faults", MaxFaults)
          /\ v # Refused => UNCHANGED used
          /\ fetch' = [fetch EXCEPT ![s].at = "answered", ![s].seen = v]
    /\ UNCHANGED <<worker, caches, Wire, puts, View, crossed, push>>

\* networkFirst and cacheFirst with an answer: an ok one is put, not awaited.
Deliver(s) ==
    /\ fetch[s].at = "answered"
    /\ IF fetch[s].by = "worker" /\ fetch[s].seen # Refused
       THEN /\ puts' = puts \cup {[url |-> fetch[s].url, ver |-> fetch[s].seen]}
            /\ best' = [best EXCEPT ![fetch[s].url] = fetch[s].seen]
       ELSE UNCHANGED <<puts, best>>
    /\ Answered(s, fetch[s].seen)
    /\ UNCHANGED <<worker, caches, Wire, crossed, push, used>>

PutLands(p) ==
    /\ p \in puts
    /\ puts' = puts \ {p}
    /\ caches' = [caches EXCEPT ![CACHE][p.url] = p.ver]
    /\ UNCHANGED <<worker, Wire, fetch, View, crossed, push, used>>

\* A put nobody waits for may reject, or go with a worker the browser ends.
PutLost(p) ==
    /\ p \in puts
    /\ Spend("faults", MaxFaults)
    /\ puts' = puts \ {p}
    /\ crossed' = crossed \cup {p.url}
    /\ UNCHANGED <<worker, caches, Wire, fetch, View, push>>

\* An await before the return rejects: in networkFirst that is the catch, in
\* cacheFirst and in a page no worker controls the request fails.
Throws(s) ==
    IF fetch[s].by = "worker" /\ ~isStaticAsset(fetch[s].url)
    THEN fetch' = [fetch EXCEPT ![s].at = "catch"] /\ UNCHANGED page
    ELSE Answered(s, Failed)

\* A fetch may fail online too.
NetworkFails(s) ==
    /\ fetch[s].at = "wire"
    /\ IF online THEN Spend("faults", MaxFaults) ELSE UNCHANGED used
    /\ Throws(s)
    /\ UNCHANGED <<worker, caches, Wire, puts, best, crossed, push>>

\* caches.open fails after an ok answer, which the page then never gets.
OpenFails(s) ==
    /\ fetch[s].at = "answered" /\ fetch[s].by = "worker" /\ fetch[s].seen # Refused
    /\ Spend("faults", MaxFaults)
    /\ Throws(s)
    /\ UNCHANGED <<worker, caches, Wire, puts, best, crossed, push>>

\* The catch of networkFirst: the cached copy, for a navigation the shell,
\* and otherwise the error.
Fallback(u) == IF Match(u) # Absent THEN Match(u)
               ELSE IF u \in Navigations /\ Match(OFFLINE_URL) # Absent THEN Match(OFFLINE_URL)
               ELSE Failed

FallsBack(s) ==
    /\ fetch[s].at = "catch"
    /\ Answered(s, Fallback(fetch[s].url))
    /\ UNCHANGED <<worker, caches, Wire, puts, best, crossed, push, used>>

(***************************************************************************)
(* Around the worker.                                                      *)
(***************************************************************************)
ServerChanges ==
    /\ version["/v1/read"] < MaxVersion
    /\ version' = [version EXCEPT !["/v1/read"] = @ + 1]
    /\ UNCHANGED <<worker, caches, online, fetch, puts, View, crossed, push, used>>

NetworkChanges ==
    /\ IF online THEN Spend("faults", MaxFaults) ELSE UNCHANGED used
    /\ online' = ~online
    /\ UNCHANGED <<worker, caches, version, fetch, puts, View, crossed, push>>

\* Logging out clears the page's own queries; the Cache API is left alone.
Logout ==
    /\ page # [u \in Urls |-> Absent]
    /\ page' = [u \in Urls |-> Absent]
    /\ fetch' = [s \in Slots |-> [fetch[s] EXCEPT !.awaited = fetch[s].at = "none"]]
    /\ UNCHANGED <<worker, caches, Wire, puts, best, crossed, push, used>>

(***************************************************************************)
(* enablePush: the key, the permission, the subscription, the API's row.   *)
(***************************************************************************)
EnablePush ==
    /\ push.at = "off" /\ push.told # "enabled"
    /\ \/ /\ online /\ push' = [push EXCEPT !.at = "key"]
       \/ /\ online /\ push' = [push EXCEPT !.told = "unconfigured"]
    /\ UNCHANGED <<worker, caches, Wire, fetch, puts, View, crossed, used>>

Permission ==
    /\ push.at = "key"
    /\ push' \in {[push EXCEPT !.at = "granted"], [push EXCEPT !.at = "off", !.told = "denied"]}
    /\ UNCHANGED <<worker, caches, Wire, fetch, puts, View, crossed, used>>

\* serviceWorker.ready waits for an active worker.
Subscribe ==
    /\ push.at = "granted" /\ worker = "active"
    /\ push' = [push EXCEPT !.at = "post", !.sub = TRUE]
    /\ UNCHANGED <<worker, caches, Wire, fetch, puts, View, crossed, used>>

\* A failed post rejects: the browser keeps its subscription, so the next
\* page shows the toggle as on although the API has no row for it.
PostSubscription ==
    /\ push.at = "post"
    /\ push' = [push EXCEPT !.at = "off", !.told = IF online THEN "enabled" ELSE @]
    /\ UNCHANGED <<worker, caches, Wire, fetch, puts, View, crossed, used>>

Next ==
    \/ Install \/ Activate \/ ServerChanges \/ NetworkChanges \/ Logout
    \/ EnablePush \/ Permission \/ Subscribe \/ PostSubscription
    \/ \E s \in Slots : \/ ServerAnswers(s) \/ Deliver(s) \/ NetworkFails(s) \/ OpenFails(s) \/ FallsBack(s)
                        \/ \E u \in Urls : Request(s, u)
    \/ \E p \in puts : PutLands(p) \/ PutLost(p)

Spec == Init /\ [][Next]_vars

-----------------------------------------------------------------------------
Stored == {Absent, Failed, Refused} \cup 1..MaxVersion

TypeOK ==
    /\ caches \in [{OlderCache, CACHE} -> [Urls -> Absent..MaxVersion]]
    /\ page \in [Urls -> Stored] /\ best \in [Urls -> Absent..MaxVersion]
    /\ push.told = "enabled" => push.sub

\* "the last-known copy when offline" (sw.js): once the puts have landed, the
\* cache holds the last answer the page got through the worker, as long as no
\* two reads of it ever overlapped (an older put may land last) and no put of
\* it was lost (nothing waits for a put or retries it).
LastKnownCopy ==
    (worker = "active" /\ puts = {}) => \A u \in Urls \ crossed : best[u] # Absent => caches[CACHE][u] = best[u]

\* A release starts with the caches of earlier ones gone.
OneRelease == worker = "active" => \A u \in Urls : caches[OlderCache][u] = Absent

\* What the page newly shows of u is an answer the network gave to a read of
\* it, or comes out of the catch: after a failed fetch or cache open the page
\* gets the last answer it had, unless u is crossed or its put still under way.
FromNetwork(u) ==
    \E s \in Slots : fetch[s].url = u /\ fetch[s].at = "answered" /\ page'[u] = fetch[s].seen
FromCatch(u) ==
    /\ \E s \in Slots : fetch[s].url = u /\ fetch[s].at = "catch"
    /\ (u \notin crossed /\ best[u] # Absent /\ \A p \in puts : p.url # u) => page'[u] = best[u]

\* "users always get fresh data when online" (sw.js): a read or a navigation
\* gets the network's answer, and a cached copy only when its own fetch or the
\* opening of the cache failed.
FreshOnline ==
    \A u \in Urls : (~isStaticAsset(u) /\ online /\ page'[u] \notin {page[u], Absent, Failed}) =>
       FromNetwork(u) \/ FromCatch(u)

\* The service worker's cache (networkFirst, cacheFirst, install, activate).
OfflineSound == TypeOK /\ LastKnownCopy /\ OneRelease
=============================================================================
