------------------------------ MODULE Realtime ------------------------------
(***************************************************************************)
(* How an open webmail folder hears of new mail: the hook that keeps a     *)
(* WebSocket (src/apps/webmail/src/lib/realtime.ts), the ticket that       *)
(* authenticates it, the gateway and the registry of sockets               *)
(* (src/apps/api/src/realtime) and the watcher that IMAP IDLE keeps per    *)
(* session and mailbox (imap-idle.watcher.ts).                             *)
(*                                                                         *)
(* The tabs of one browser share a session and therefore one watcher.      *)
(* Arming and disarming are ordinary HTTP posts, so they may overtake one  *)
(* another, and arming awaits an IMAP connection before it registers the   *)
(* watcher.  Ending a session deletes its row, then purges what it holds.  *)
(* Time is abstract: a silent socket is one whose pings no longer arrive,  *)
(* an old watcher one that nobody arms again.  `heard' and `late' are      *)
(* history variables.                                                      *)
(***************************************************************************)
EXTENDS Naturals, FiniteSets

CONSTANTS Tabs, Folders, Sessions, NoFolder,
          Sharings      \* what is explored: [of: the tabs' sessions, moves: folders
                        \* opened and tabs closed, drops: connections and watchers lost,
                        \* news: changes in the mailbox, outs: logouts (bounds)]

VARIABLES share,        \* the member of Sharings
          live,         \* the sessions that exist
          tab,          \* Tabs -> [folder, pc]: the effect's state
          sock,         \* Tabs -> the socket the tab uses: [open, topics]
          ghosts,       \* sockets the server still has and nobody uses
          posts,        \* HTTP posts under way, "asked" or "opening" a connection
          watcher,      \* Sessions -> the folder of the registered watcher
          strays,       \* IDLE connections whose place in the registry was taken over
          ending,       \* sessions deleted and not yet purged
          late,         \* sessions that ended under an arming, or whose purge failed
          moves, drops, news, heard

server == <<watcher, strays, ending, late>>
vars == <<share, live, tab, sock, ghosts, posts, watcher, strays, ending, late, moves, drops, news, heard>>

Closed == [open |-> FALSE, topics |-> {}]

Init == /\ share \in Sharings
        /\ live = Sessions
        /\ tab = [t \in Tabs |-> [folder |-> NoFolder, pc |-> "off"]]
        /\ sock = [t \in Tabs |-> Closed]
        /\ ghosts = {}
        /\ posts = {}
        /\ watcher = [s \in Sessions |-> NoFolder]
        /\ strays = {} /\ ending = {} /\ late = {}
        /\ moves = 0 /\ drops = 0 /\ news = 0
        /\ heard = {}

Post(kind, t) == [kind |-> kind, session |-> share.of[t], folder |-> tab[t].folder, at |-> "asked"]

-----------------------------------------------------------------------------
(* The effect: cleanup of the old folder, then connect for the new one.     *)

Cleanup(t) == IF tab[t].pc = "off" THEN {} ELSE {Post("unwatch", t)}

OpenFolder(t) == /\ moves < share.moves
                 /\ moves' = moves + 1
                 /\ \E f \in (Folders \cup {NoFolder}) \ {tab[t].folder} :
                      tab' = [tab EXCEPT ![t] = [folder |-> f, pc |-> IF f = NoFolder THEN "off" ELSE "ticket"]]
                 /\ posts' = posts \cup Cleanup(t)
                 /\ sock' = [sock EXCEPT ![t] = Closed]
                 /\ UNCHANGED <<share, live, ghosts, server, drops, news, heard>>

Goto(t, pc) == tab' = [tab EXCEPT ![t].pc = pc]

\* POST /v1/auth/ws-ticket, and the socket opened with it.  A session that has
\* ended gets none; the hook asks again five seconds later, for ever.
Ticket(t) == /\ tab[t].pc = "ticket"
             /\ Goto(t, IF share.of[t] \in live THEN "dial" ELSE "wait")
             /\ UNCHANGED <<share, live, sock, ghosts, posts, server, moves, drops, news, heard>>

\* verifyTicket: the signature and the sixty seconds; then "hello".
Connect(t) == /\ tab[t].pc = "dial"
              /\ sock' = [sock EXCEPT ![t] = [open |-> TRUE, topics |-> {}]]
              /\ Goto(t, "hello")
              /\ UNCHANGED <<share, live, ghosts, posts, server, moves, drops, news, heard>>

\* On hello the client subscribes to its session's topic and arms the watcher.
Hello(t) == /\ tab[t].pc = "hello"
            /\ Goto(t, "up")
            /\ posts' = posts \cup {Post("watch", t)}
            /\ UNCHANGED <<share, live, sock, ghosts, server, moves, drops, news, heard>>

\* onclose, and the three seconds before the next attempt.
Reconnect(t) == /\ tab[t].pc = "wait"
                /\ Goto(t, "ticket")
                /\ UNCHANGED <<share, live, sock, ghosts, posts, server, moves, drops, news, heard>>

NoRearm(t) == FALSE /\ UNCHANGED vars       \* Faulty variant: no timer arms the watcher again

\* setInterval(arm, 240_000), by when the post before it has been answered.
Rearm(t) == /\ tab[t].pc # "off"
            /\ \A p \in posts : p \notin {Post("watch", t), [Post("watch", t) EXCEPT !.at = "opening"]}
            /\ posts' = posts \cup {Post("watch", t)}
            /\ UNCHANGED <<share, live, tab, sock, ghosts, server, moves, drops, news, heard>>

-----------------------------------------------------------------------------
(* The server's side.                                                       *)

\* startWatch and stopWatch, for a session that exists and has its credentials.  A
\* watcher of the same folder is kept; any other is stopped before the new
\* connection is opened.
Begin(p) == /\ p \in posts /\ p.at = "asked"
            /\ LET s == p.session
                   kept == watcher[s] = p.folder /\ p.kind = "watch"
                   opens == s \in live /\ p.kind = "watch" /\ ~kept
               IN /\ posts' = (posts \ {p}) \cup IF opens THEN {[p EXCEPT !.at = "opening"]} ELSE {}
                  /\ watcher' = IF s \in live /\ ~kept THEN [watcher EXCEPT ![s] = NoFolder] ELSE watcher
            /\ UNCHANGED <<share, live, tab, sock, ghosts, strays, ending, late, moves, drops, news, heard>>

\* The connection idles on the folder and is registered, in the place of one that
\* another post registered meanwhile, which goes on idling.
Opened(p) == /\ p \in posts /\ p.at = "opening"
             /\ posts' = posts \ {p}
             /\ watcher' = [watcher EXCEPT ![p.session] = p.folder]
             /\ strays' = strays \cup {[session |-> s, folder |-> watcher[s]] : s \in {o \in {p.session} : watcher[o] # NoFolder}}
             /\ UNCHANGED <<share, live, tab, sock, ghosts, ending, late, moves, drops, news, heard>>

\* ImapIdleWatcher.sweepIdle: a watcher that no tab has armed for five minutes.
SweepWatcher(s) == /\ watcher[s] # NoFolder
                   /\ s \notin live \/ \A t \in Tabs : share.of[t] = s => tab[t].folder # watcher[s]
                   /\ watcher' = [watcher EXCEPT ![s] = NoFolder]
                   /\ UNCHANGED <<share, live, tab, sock, ghosts, posts, strays, ending, late, moves, drops, news, heard>>

\* canSubscribe, of a session's topic.
CanSubscribe(t, topic) == topic = share.of[t]

\* onMessage "subscribe": of the topic the hook names, or of any other one.
Subscribe(t) == /\ sock[t].open
                /\ \E topic \in Sessions \ sock[t].topics :
                     /\ topic = share.of[t] => tab[t].pc = "up"
                     /\ sock' = [sock EXCEPT ![t].topics = IF CanSubscribe(t, topic) THEN @ \cup {topic} ELSE @]
                /\ UNCHANGED <<share, live, tab, ghosts, posts, server, moves, drops, news, heard>>

\* sweepIdle: a socket no ping came from for a minute is closed and forgotten.
SweepIdle == /\ \E k \in ghosts : ghosts' = ghosts \ {k}
             /\ UNCHANGED <<share, live, tab, sock, posts, server, moves, drops, news, heard>>

\* A registered watcher or a stray one is on the folder.
Idling(s, f) == watcher[s] = f \/ [session |-> s, folder |-> f] \in strays

\* A change in folder f: the watchers of f publish to their session's topic,
\* and every socket with that topic gets the event.
Publish == /\ news < share.news
           /\ news' = news + 1
           /\ \E f \in Folders :
                heard' = heard \cup
                  UNION {{[tab |-> t, session |-> s] : s \in {r \in sock[t].topics : Idling(r, f)}} : t \in Tabs}
           /\ UNCHANGED <<share, live, tab, sock, ghosts, posts, server, moves, drops>>

\* A watcher of the session is being connected.
Arming(s) == \E p \in posts : p.session = s /\ p.at = "opening"

\* logout, revokeSession: the row goes first, then what the session holds; the
\* socket stays.
Logout(s) == /\ s \in live /\ Cardinality(Sessions \ live) < share.outs
             /\ live' = live \ {s}
             /\ ending' = ending \cup {s}
             /\ UNCHANGED <<share, tab, sock, ghosts, posts, watcher, strays, late, moves, drops, news, heard>>

PurgeSession(s) == /\ s \in ending
                   /\ ending' = ending \ {s}
                   /\ watcher' = [watcher EXCEPT ![s] = NoFolder]
                   /\ late' = IF Arming(s) THEN late \cup {s} ELSE late
                   /\ UNCHANGED <<share, live, tab, sock, ghosts, posts, strays, moves, drops, news, heard>>

-----------------------------------------------------------------------------
(* What the network does.                                                   *)

Breaks == drops < share.drops /\ drops' = drops + 1

\* The connection closes, with or without the server noticing, or the ticket
\* was refused.
Drop(t) == /\ Breaks
           /\ tab[t].pc \in {"dial", "hello", "up"}
           /\ Goto(t, "wait")
           /\ ghosts' \in {ghosts} \cup {ghosts \cup {[tab |-> t, topics |-> k.topics]} : k \in {j \in {sock[t]} : j.open}}
           /\ sock' = [sock EXCEPT ![t] = Closed]
           /\ UNCHANGED <<share, live, posts, server, moves, news, heard>>

\* The IMAP connection of a watcher closes, or cannot be opened.
WatcherDies(s) == /\ Breaks
                  /\ watcher[s] # NoFolder
                  /\ watcher' = [watcher EXCEPT ![s] = NoFolder]
                  /\ UNCHANGED <<share, live, tab, sock, ghosts, posts, strays, ending, late, moves, news, heard>>

OpenFails(p) == /\ Breaks
                /\ p \in posts /\ p.at = "opening"
                /\ posts' = posts \ {p}
                /\ UNCHANGED <<share, live, tab, sock, ghosts, server, moves, news, heard>>

StrayDies == /\ Breaks
             /\ \E w \in strays : strays' = strays \ {w}
             /\ UNCHANGED <<share, live, tab, sock, ghosts, posts, watcher, ending, late, moves, news, heard>>

\* Redis fails the purge of the credentials: the watcher is not purged.
PurgeFails(s) == /\ Breaks
                 /\ s \in ending
                 /\ ending' = ending \ {s} /\ late' = late \cup {s}
                 /\ UNCHANGED <<share, live, tab, sock, ghosts, posts, watcher, strays, moves, news, heard>>
-----------------------------------------------------------------------------
Next == \/ \E t \in Tabs : \/ OpenFolder(t) \/ Ticket(t) \/ Connect(t) \/ Hello(t) \/ Reconnect(t) \/ Rearm(t)
                            \/ Subscribe(t) \/ Drop(t)
        \/ \E p \in posts : Begin(p) \/ Opened(p) \/ OpenFails(p)
        \/ SweepIdle \/ Publish \/ StrayDies
        \/ \E s \in Sessions : Logout(s) \/ PurgeSession(s) \/ PurgeFails(s) \/ SweepWatcher(s) \/ WatcherDies(s)

\* The browser's timers and callbacks run, the awaits of a post and of a logout
\* return, and the sweepers tick; when a post is answered is the network's choice,
\* but it is.
Fairness == /\ \A t \in Tabs : /\ WF_vars(Ticket(t)) /\ WF_vars(Connect(t)) /\ WF_vars(Hello(t))
                               /\ WF_vars(Reconnect(t)) /\ WF_vars(Rearm(t)) /\ WF_vars(Subscribe(t))
            /\ \A p \in [kind : {"watch", "unwatch"}, session : Sessions, folder : Folders, at : {"asked"}] : WF_vars(Begin(p))
            /\ \A p \in [kind : {"watch"}, session : Sessions, folder : Folders, at : {"opening"}] : WF_vars(Opened(p))
            /\ \A s \in Sessions : WF_vars(PurgeSession(s)) /\ WF_vars(SweepWatcher(s))
            /\ WF_vars(SweepIdle)

Spec == Init /\ [][Next]_vars /\ Fairness

-----------------------------------------------------------------------------
(* Properties.                                                              *)

(* A mail event is delivered only to tabs of the session whose watcher     *)
(* raised it, whatever topics other clients ask the gateway for.  A session*)
(* that was ended and purged has no watcher, however late an arming post is*)
(* answered, unless the purge failed or met an arming that had already been*)
(* let in.  A tab the hook has closed has no socket of its own left.       *)
RealtimeSound ==
  /\ \A e \in heard : e.session = share.of[e.tab]
  /\ \A s \in Sessions \ (live \cup ending \cup late) : watcher[s] = NoFolder /\ ~Arming(s)
  /\ \A t \in Tabs : tab[t].pc = "off" => ~sock[t].open

(* A session that ended is unwatched in the end, even when its purge failed *)
(* or met an arming: what was registered is swept, and stays away.          *)
Ended(s) == s \notin live
Unwatched(s) == watcher[s] = NoFolder

(* A tab with an open folder is fed again and again: after any loss of the *)
(* socket or the watcher, and after another tab of the session or an unwatch*)
(* that came late has taken the watcher away, there is again a moment when  *)
(* its socket has the session's topic and its folder is the one watched     *)
(* ("re-arms the watcher on a timer", useMailboxRealtime) - unless the tab  *)
(* moves on or the session ends.                                           *)
Fed(t) == share.of[t] \in sock[t].topics /\ Idling(share.of[t], tab[t].folder)
Viewing(t, f) == tab[t].folder = f
FedOrGone(t, f) == Fed(t) \/ tab[t].folder # f \/ share.of[t] \notin live
=============================================================================
