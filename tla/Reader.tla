------------------------------- MODULE Reader -------------------------------
(***************************************************************************)
(* The mailbox view of the webmail client: the open folder, its cached     *)
(* message list, the flag delta that patches it, the realtime events and   *)
(* mutations that invalidate it, the folder rail, conversations, search.   *)
(*                                                                         *)
(* TanStack Query (external) keeps one entry per query key.  Invalidating  *)
(* the entry of the folder on screen cancels its fetch and starts another, *)
(* unless it has no list yet: then the first fetch is joined.  Invalidating *)
(* any other marks it stale, to be fetched when it is shown.               *)
(* With Redis the server keeps a copy of each list for TTL seconds, dropped *)
(* by every mutation and, without waiting for it, by the IDLE watcher.  Its *)
(* copy of the folder list is not modelled.                                *)
(* The callbacks of a mutation are those of the latest render: they see    *)
(* the folder open when the answer arrives, not the one that was mutated.  *)
(***************************************************************************)
EXTENDS Naturals, Sequences, FiniteSets, SequencesExt

CONSTANTS Plans,          \* records: which operations a behaviour uses, with its bounds
          Inbox, System,  \* the folder shown first; the special-use folders
          Folders, Spare, \* the folders at the start; names a new or renamed folder may take
          MaxUid,         \* messages per folder: uids 1..MaxUid
          Headers,        \* uid -> [native, refs, reply, id, subject] (0: absent)
          Terms           \* search tokens: [op, val] with val = 0 for an unusable value

VARIABLES plan,
          exists, box,    \* server: folders; messages uid -> flag, stamps, highest modseq
          rail, railDue,  \* the cached folder list; a refetch of it is due
          folder, openUid, watched,
          cache, fetch,   \* per folder: the cached list; the fetch in flight
          syncs,          \* flag deltas in flight
          served,         \* server, per folder: its cached list (late: stored after a drop meant for it)
          sets,           \* server: lists read and not stored yet (live: their fetch still waits)
          busts,          \* drops the watcher started and did not wait for
          events,         \* socket events not handled yet
          op,             \* the mutation in flight
          expanded,       \* the thread ids expanded in the list
          search, term,   \* the search box; the debounced term
          used,           \* bounds: [changes, switches, ops, faults]
          missed          \* history, per folder: a modseq the list may rightly be behind (0: none)

vars == <<plan, exists, box, rail, railDue, folder, openUid, watched, cache, fetch, served, sets, busts,
                syncs, events, op, expanded, search, term, used, missed>>

listCache == <<served, sets, busts>>

AllFolders == Folders \cup Spare
Uids       == 1..MaxUid
NoList     == [msgs |-> <<>>, mod |-> 0, state |-> "none"]
NoFetch    == [at |-> "idle", msgs |-> <<>>, mod |-> 0]
NoCopy     == [msgs |-> <<>>, mod |-> 0, late |-> FALSE]
NoOp       == [kind |-> "none", f |-> Inbox, u |-> 0, at |-> "idle", to |-> Inbox, done |-> FALSE]
NewBox     == [msgs |-> [u \in {1} |-> FALSE], stamp |-> [u \in Uids |-> 1], top |-> 1]

Init == /\ plan \in Plans
        /\ exists = Folders
        /\ box = [f \in AllFolders |-> NewBox]
        /\ rail = Folders /\ railDue = FALSE
        /\ folder = Inbox /\ openUid = 0 /\ watched = Inbox
        /\ cache = [f \in AllFolders |-> IF f = Inbox THEN [msgs |-> NewBox.msgs, mod |-> 1, state |-> "fresh"]
                                                    ELSE NoList]
        /\ fetch = [f \in AllFolders |-> NoFetch]
        /\ served = [f \in AllFolders |-> NoCopy] /\ sets = {} /\ busts = 0
        /\ syncs = {} /\ events = <<>> /\ op = NoOp /\ expanded = {}
        /\ search = <<>> /\ term = <<>>
        /\ used = [changes |-> 0, switches |-> 0, ops |-> 0, faults |-> 0]
        /\ missed = [f \in AllFolders |-> 0]

Can(what) == used[what] < plan[what]
Miss(f, mod) == missed' = [missed EXCEPT ![f] = IF mod > @ THEN mod ELSE @]
Use(what) == used' = [used EXCEPT ![what] = @ + 1]

-----------------------------------------------------------------------------
(* The query cache. *)

\* a first fetch that has its list already, and so misses what it is asked to list again for
HasRead(f) == fetch[f].at \in {"store", "answer"}
FirstFetch(f) == cache[f].state = "none" /\ fetch[f].at # "idle"

\* the request of a fetch that was given up still runs on the server
GiveUp(f) == sets' = {[s EXCEPT !.live = @ /\ s.f # f] : s \in sets}

\* ["messages", folder f] is invalidated: refetched on screen (a first fetch is joined), else stale
Invalidate(f) ==
    IF f # folder THEN /\ cache' = IF cache[f].state = "fresh" THEN [cache EXCEPT ![f].state = "stale"] ELSE cache
                       /\ UNCHANGED <<fetch, sets>>
    ELSE IF FirstFetch(f) THEN UNCHANGED <<cache, fetch, sets>>
    ELSE /\ fetch' = [fetch EXCEPT ![f] = [NoFetch EXCEPT !.at = "call"]]
         /\ GiveUp(f) /\ UNCHANGED cache

\* a joined first fetch may answer with what it read before
MissJoined(f) == IF FirstFetch(f) /\ HasRead(f) THEN Miss(f, box[f].top) ELSE UNCHANGED missed

\* showing a folder fetches its list unless a fresh one is cached
Show(f) == IF cache[f].state = "fresh" \/ fetch[f].at # "idle" THEN UNCHANGED fetch
           ELSE fetch' = [fetch EXCEPT ![f] = [NoFetch EXCEPT !.at = "call"]]

\* server, listMessages: the cached list, if it has one
FetchCached(f) ==
    /\ fetch[f].at = "call" /\ served[f] # NoCopy
    /\ fetch' = [fetch EXCEPT ![f] = [at |-> "answer", msgs |-> served[f].msgs, mod |-> served[f].mod]]
    /\ IF served[f].late \/ busts > 0 THEN Miss(f, box[f].top) ELSE UNCHANGED missed
    /\ UNCHANGED <<plan, exists, box, rail, railDue, folder, openUid, watched, cache, served, sets, busts, syncs, events, op,
                   expanded, search, term, used>>

\* none cached, or its TTL has passed: the mailbox is read; with Redis the list is stored before it is answered
FetchRead(f) ==
    /\ fetch[f].at = "call"
    /\ fetch' = [fetch EXCEPT ![f] = [at |-> IF plan.cached THEN "store" ELSE "answer",
                                      msgs |-> box[f].msgs, mod |-> box[f].top]]
    /\ sets' = IF plan.cached
               THEN sets \cup {[f |-> f, msgs |-> box[f].msgs, mod |-> box[f].top, late |-> FALSE, live |-> TRUE]}
               ELSE sets
    /\ UNCHANGED <<plan, exists, box, rail, railDue, folder, openUid, watched, cache, served, busts, syncs, events, op,
                   expanded, search, term, used, missed>>

SetMessageList(s) ==
    /\ s \in sets
    /\ sets' = sets \ {s}
    /\ served' = [served EXCEPT ![s.f] = [msgs |-> s.msgs, mod |-> s.mod, late |-> s.late]]
    /\ fetch' = IF s.live THEN [fetch EXCEPT ![s.f].at = "answer"] ELSE fetch
    /\ UNCHANGED <<plan, exists, box, rail, railDue, folder, openUid, watched, cache, busts, syncs, events, op,
                   expanded, search, term, used, missed>>

\* bustMailbox drops every stored list; one that is only stored later outlives it
Busted == /\ served' = [f \in AllFolders |-> NoCopy]
          /\ sets' = {[s EXCEPT !.late = TRUE] : s \in sets}
\* Redis refused: whatever is stored outlives the drop
NotBusted == /\ served' = [f \in AllFolders |-> IF served[f] = NoCopy THEN NoCopy ELSE [served[f] EXCEPT !.late = TRUE]]
             /\ sets' = {[s EXCEPT !.late = TRUE] : s \in sets}

WatcherBusts == /\ busts > 0 /\ busts' = busts - 1
                /\ \/ Busted /\ UNCHANGED used
                   \/ NotBusted /\ Can("faults") /\ Use("faults")
                /\ UNCHANGED <<plan, exists, box, rail, railDue, folder, openUid, watched, cache, fetch, syncs, events, op,
                               expanded, search, term, missed>>

FetchDone(f) == /\ fetch[f].at = "answer"
                /\ cache' = [cache EXCEPT ![f] = [msgs |-> fetch[f].msgs, mod |-> fetch[f].mod, state |-> "fresh"]]
                /\ fetch' = [fetch EXCEPT ![f] = NoFetch]
                /\ IF fetch[f].mod < cache[f].mod THEN Miss(f, cache[f].mod)
                   ELSE missed' = IF fetch[f].mod >= missed[f] THEN [missed EXCEPT ![f] = 0] ELSE missed
                /\ UNCHANGED <<plan, listCache, exists, box, rail, railDue, folder, openUid, watched, syncs, events, op, expanded,
                               search, term, used>>

\* retries exhausted: the error screen with its Retry button
FetchFails(f) == /\ fetch[f].at # "idle" /\ Can("faults") /\ Use("faults")
                 /\ fetch' = [fetch EXCEPT ![f] = NoFetch] /\ GiveUp(f)
                 /\ cache' = IF cache[f].state = "none" THEN cache ELSE [cache EXCEPT ![f].state = "stale"]
                 /\ Miss(f, box[f].top)
                 /\ UNCHANGED <<plan, served, busts, exists, box, rail, railDue, folder, openUid, watched, syncs, events, op, expanded,
                                search, term>>

\* the refresh button refetches the folder list and the open folder
Refresh == /\ missed[folder] # 0 /\ fetch[folder].at = "idle"
           /\ railDue' = TRUE
           /\ fetch' = [fetch EXCEPT ![folder] = [NoFetch EXCEPT !.at = "call"]]
           /\ UNCHANGED <<plan, listCache, exists, box, rail, folder, openUid, watched, cache, syncs, events, op, expanded, search,
                          term, used, missed>>

\* staleTime passes
Age(f) == /\ cache[f].state = "fresh" /\ f # folder
          /\ cache' = [cache EXCEPT ![f].state = "stale"]
          /\ UNCHANGED <<plan, listCache, exists, box, rail, railDue, folder, openUid, watched, fetch, syncs, events, op, expanded,
                         search, term, used, missed>>

RailFetched == /\ railDue
               /\ rail' = exists /\ railDue' = FALSE
               /\ UNCHANGED <<plan, listCache, exists, box, folder, openUid, watched, cache, fetch, syncs, events, op, expanded,
                              search, term, used, missed>>

-----------------------------------------------------------------------------
(* The mailbox changes: another client, a delivery, or the mutation in flight.  The *)
(* IDLE watcher of the watched folder reports it, if the socket is up.              *)

Changed(f, msgs, u, kind, own) ==
    /\ box' = [box EXCEPT ![f] = [msgs |-> msgs, stamp |-> [@.stamp EXCEPT ![u] = box[f].top + 1],
                                  top |-> @.top + 1]]
    /\ busts' = IF plan.cached /\ plan.live /\ watched = f THEN busts + 1 ELSE busts
    /\ IF plan.live /\ watched = f /\ folder = f
       THEN events' = Append(events, [f |-> f, kind |-> kind]) /\ UNCHANGED missed
       ELSE /\ IF own THEN UNCHANGED missed ELSE Miss(f, box[f].top + 1)
            /\ UNCHANGED events

Flipped(f, u) == [box[f].msgs EXCEPT ![u] = ~@]
Without(f, u) == [v \in DOMAIN box[f].msgs \ {u} |-> box[f].msgs[v]]
Arrived(f, u) == [v \in DOMAIN box[f].msgs \cup {u} |-> IF v = u THEN FALSE ELSE box[f].msgs[v]]

Elsewhere(f) ==
    /\ f \in exists /\ Can("changes") /\ Use("changes")
    /\ \/ \E u \in DOMAIN box[f].msgs : Changed(f, Flipped(f, u), u, "mail:flags", FALSE)
       \/ \E u \in DOMAIN box[f].msgs : Changed(f, Without(f, u), u, "mail:expunge", FALSE)
       \/ \E u \in Uids : /\ box[f].stamp[u] = 1 /\ \A v \in 1..u - 1 : v = 1 \/ box[f].stamp[v] # 1
                          /\ u # 1 /\ Changed(f, Arrived(f, u), u, "mail:new", FALSE)
    /\ UNCHANGED <<plan, served, sets, exists, rail, railDue, folder, openUid, watched, cache, fetch, syncs, op, expanded, search, term>>

Watch == /\ watched # folder
         /\ watched' = folder
         /\ UNCHANGED <<plan, listCache, exists, box, rail, railDue, folder, openUid, cache, fetch, syncs, events, op, expanded,
                        search, term, used, missed>>

\* onChange: a flag event pulls the delta, anything else re-lists
OnChange ==
    /\ events # <<>>
    /\ events' = Tail(events)
    /\ LET e == Head(events) IN
       IF e.kind = "mail:flags" /\ cache[folder].mod # 0
       THEN /\ syncs' = syncs \cup {[f |-> folder, since |-> cache[folder].mod, at |-> "call",
                                     changed |-> <<>>, mod |-> 0]}
            /\ UNCHANGED <<cache, fetch, sets, railDue, missed>>
       ELSE Invalidate(folder) /\ MissJoined(folder) /\ railDue' = TRUE /\ UNCHANGED syncs
    /\ UNCHANGED <<plan, served, busts, exists, box, rail, folder, openUid, watched, op, expanded, search, term, used>>

\* server, syncMessages: the flags of every message stamped after `since`
SyncRead(s) ==
    /\ s \in syncs /\ s.at = "call"
    /\ LET b == box[s.f]
           hit == {u \in DOMAIN b.msgs : b.stamp[u] > s.since}
       IN syncs' = (syncs \ {s}) \cup {[s EXCEPT !.at = "answer", !.mod = b.top,
                                                 !.changed = [u \in hit |-> b.msgs[u]]]}
    /\ UNCHANGED <<plan, listCache, exists, box, rail, railDue, folder, openUid, watched, cache, fetch, events, op, expanded, search,
                   term, used, missed>>

\* patch flags in place; a uid that is not listed is left to mail:new
PatchNone(c, s) == [c EXCEPT !.mod = s.mod]     \* Faulty variant: only the modseq moves on
Patched(c, s) == [c EXCEPT !.mod = s.mod,
                           !.msgs = [u \in DOMAIN c.msgs |-> IF u \in DOMAIN s.changed THEN s.changed[u] ELSE c.msgs[u]]]

SyncApply(s) ==
    /\ s \in syncs /\ s.at = "answer"
    /\ syncs' = syncs \ {s}
    /\ cache' = IF cache[s.f].state = "none" THEN cache ELSE [cache EXCEPT ![s.f] = Patched(@, s)]
    /\ railDue' = TRUE
    /\ IF s.mod < cache[s.f].mod THEN Miss(s.f, cache[s.f].mod) ELSE UNCHANGED missed
    /\ UNCHANGED <<plan, listCache, exists, box, rail, folder, openUid, watched, fetch, events, op, expanded, search, term, used>>

SyncFails(s) == /\ s \in syncs /\ Can("faults") /\ Use("faults")
                /\ syncs' = syncs \ {s}
                /\ Invalidate(s.f)
                /\ UNCHANGED <<plan, served, busts, exists, box, rail, railDue, folder, openUid, watched, events, op, expanded, search,
                               term, missed>>

-----------------------------------------------------------------------------
(* The user. *)

\* the effect of another folder: its socket is closed, events on their way are lost
Resubscribe == /\ events' = <<>>
               /\ IF events = <<>> THEN UNCHANGED missed ELSE Miss(folder, box[folder].top)

SwitchFolder(f) == /\ f \in rail \ {folder} /\ Can("switches") /\ Use("switches")
                   /\ folder' = f /\ openUid' = 0
                   /\ Show(f) /\ Resubscribe
                   /\ UNCHANGED <<plan, listCache, exists, box, rail, railDue, watched, cache, syncs, op, expanded, search, term>>

Mutate(kind, u, to) == /\ op.at = "idle" /\ Can("ops") /\ Use("ops")
                       /\ op' = [kind |-> kind, f |-> folder, u |-> u, at |-> "call", to |-> to, done |-> FALSE]

\* openMessage: an unread message is marked read
OpenMessage(u) == /\ ~plan.rail /\ u \in DOMAIN cache[folder].msgs /\ openUid # u
                  /\ openUid' = u
                  /\ IF cache[folder].msgs[u] THEN UNCHANGED <<op, used>> ELSE Mutate("flag", u, folder)
                  /\ UNCHANGED <<plan, listCache, exists, box, rail, railDue, folder, watched, cache, fetch, syncs, events, expanded,
                                 search, term, missed>>

\* toggleStar, the delete dialog and Archive act on the open message
ActOnOpen(kind) == /\ openUid # 0 /\ Mutate(kind, openUid, folder)
                   /\ UNCHANGED <<plan, listCache, exists, box, rail, railDue, folder, openUid, watched, cache, fetch, syncs, events,
                                  expanded, search, term, missed>>

FolderOp(kind, f, to) == /\ plan.rail /\ f \in rail \ System
                         /\ op.at = "idle" /\ Can("ops") /\ Use("ops")
                         /\ op' = [kind |-> kind, f |-> f, u |-> 0, at |-> "call", to |-> to, done |-> FALSE]
                         /\ UNCHANGED <<plan, listCache, exists, box, rail, railDue, folder, openUid, watched, cache, fetch, syncs,
                                        events, expanded, search, term, missed>>

\* with Redis the mutation drops the stored lists before it answers
Ran == IF plan.cached THEN "bust" ELSE "ok"

\* the server runs the mutation; an absent message or folder is refused
ServerRuns ==
    /\ op.at = "call"
    /\ LET gone == op.f \notin exists \/ (op.u # 0 /\ op.u \notin DOMAIN box[op.f].msgs) IN
       \/ /\ gone /\ op' = [op EXCEPT !.at = "refused"] /\ UNCHANGED <<exists, box, busts, events, missed>>
       \/ /\ ~gone /\ op.kind = "flag" /\ op' = [op EXCEPT !.at = Ran]
          /\ Changed(op.f, Flipped(op.f, op.u), op.u, "mail:flags", TRUE) /\ UNCHANGED exists
       \/ /\ ~gone /\ op.kind \in {"delete", "move"} /\ op' = [op EXCEPT !.at = Ran]
          /\ Changed(op.f, Without(op.f, op.u), op.u, "mail:expunge", TRUE) /\ UNCHANGED exists
       \/ /\ ~gone /\ op.kind \in {"create", "rename", "drop"} /\ op.to \notin exists \cup System
          /\ op' = [op EXCEPT !.at = Ran]
          /\ exists' = CASE op.kind = "create" -> exists \cup {op.to}
                         [] op.kind = "rename" -> (exists \ {op.f}) \cup {op.to}
                         [] OTHER              -> exists \ {op.f}
          /\ UNCHANGED <<box, busts, events, missed>>
       \/ /\ ~gone /\ op.kind \in {"create", "rename"} /\ op.to \in exists
          /\ op' = [op EXCEPT !.at = "refused"] /\ UNCHANGED <<exists, box, busts, events, missed>>
    /\ UNCHANGED <<plan, rail, railDue, folder, openUid, watched, cache, fetch, served, sets, syncs, expanded, search, term, used>>

OpBusts == /\ op.at = "bust" /\ op' = [op EXCEPT !.at = "ok"]
           /\ Busted
           /\ UNCHANGED <<plan, exists, box, rail, railDue, folder, openUid, watched, cache, fetch, busts, syncs, events,
                          expanded, search, term, used, missed>>

\* the mutation answers an error, or not at all, though it was done: the drop failed or the answer is lost
OpFails == /\ op.at \in {"bust", "ok"} /\ Can("faults") /\ Use("faults")
           /\ op' = [op EXCEPT !.at = "refused"]
           /\ IF op.at = "bust" THEN NotBusted ELSE UNCHANGED <<served, sets>>
           /\ IF op.u = 0 THEN UNCHANGED missed ELSE Miss(op.f, box[op.f].top)
           /\ UNCHANGED <<plan, exists, box, rail, railDue, folder, openUid, watched, cache, fetch, busts, syncs, events,
                          expanded, search, term>>

\* where the view goes when a folder operation succeeds
FolderAfter == CASE op.kind = "create"                    -> op.to
                 [] op.kind = "rename" /\ folder = op.f -> op.to
                 [] op.kind = "drop" /\ folder = op.f   -> Inbox
                 [] OTHER                                 -> folder

\* the latest render's invalidate: the open folder, whichever was mutated
Answered ==
    /\ op.at \in {"ok", "refused"}
    /\ op' = NoOp
    /\ IF op.at = "refused" THEN UNCHANGED <<cache, fetch, sets, openUid, railDue, folder, missed, events>>
       ELSE IF op.kind \in {"flag", "delete", "move"}
       THEN /\ Invalidate(folder)
            /\ openUid' = IF op.kind = "flag" THEN openUid ELSE 0
            /\ railDue' = (railDue \/ op.kind = "move")
            /\ IF op.f = folder THEN MissJoined(folder) ELSE Miss(op.f, box[op.f].top)
            /\ UNCHANGED <<folder, events>>
       ELSE /\ folder' = FolderAfter
            /\ openUid' = IF op.kind = "rename" \/ folder' = folder THEN openUid ELSE 0
            /\ railDue' = TRUE
            /\ Show(folder') /\ UNCHANGED <<cache, sets>>
            /\ IF folder' = folder THEN UNCHANGED <<events, missed>> ELSE Resubscribe
    /\ UNCHANGED <<plan, served, busts, exists, box, rail, watched, syncs, expanded, search, term, used>>

-----------------------------------------------------------------------------
(* Conversations. *)

\* computeThreadId: native id, else the root of the references, In-Reply-To, own id, subject
ThreadId(h) == IF h.native # 0 THEN <<"native", h.native>>
               ELSE IF h.refs # <<>> THEN <<"root", h.refs[1]>>
               ELSE IF h.reply # 0 THEN <<"root", h.reply>>
               ELSE IF h.id # 0 THEN <<"root", h.id>>
               ELSE IF h.subject # 0 THEN <<"subject", h.subject>> ELSE <<"none", 0>>

Key(u) == IF ThreadId(Headers[u])[1] = "none" THEN <<"uid", u>> ELSE ThreadId(Headers[u])

\* the list, newest first
Listed == SetToSortSeq(DOMAIN cache[folder].msgs, >)

\* groupThreads: buckets in the order their newest message appears
GroupThreads(l) ==
    LET keys == {Key(l[i]) : i \in 1..Len(l)}
        first(k) == CHOOSE i \in 1..Len(l) : Key(l[i]) = k /\ \A j \in 1..i - 1 : Key(l[j]) # k
        order == SetToSortSeq(keys, LAMBDA a, b : first(a) < first(b))
    IN [n \in 1..Len(order) |-> SelectSeq(l, LAMBDA u : Key(u) = order[n])]

\* the rows on screen: each head, and its older messages when expanded
Rows == FlattenSeq([n \in 1..Len(GroupThreads(Listed)) |->
            LET t == GroupThreads(Listed)[n] IN IF Len(t) > 1 /\ Key(t[1]) \in expanded THEN t ELSE <<t[1]>>])

ToggleThread(u) == /\ plan.threads /\ u \in DOMAIN cache[folder].msgs
                   /\ expanded' = IF Key(u) \in expanded THEN expanded \ {Key(u)} ELSE expanded \cup {Key(u)}
                   /\ UNCHANGED <<plan, listCache, exists, box, rail, railDue, folder, openUid, watched, cache, fetch, syncs, events,
                                  op, search, term, used, missed>>

-----------------------------------------------------------------------------
(* Search. *)

TypeToken(t) == /\ Len(search) < plan.tokens
                /\ search' = Append(search, t)
                /\ UNCHANGED <<plan, listCache, exists, box, rail, railDue, folder, openUid, watched, cache, fetch, syncs, events, op,
                               expanded, term, used, missed>>
Debounce == /\ term # search
            /\ term' = search
            /\ UNCHANGED <<plan, listCache, exists, box, rail, railDue, folder, openUid, watched, cache, fetch, syncs, events, op,
                           expanded, search, used, missed>>

Fields == {"from", "before", "seen", "attachment", "text"}
NoCriteria == [k \in Fields |-> <<>>]

\* one token: an operator without a usable value is dropped, an unknown one is free text
AddToken(c, t) == IF t.op \in {"from", "before", "seen"} THEN IF t.val = 0 THEN c ELSE [c EXCEPT ![t.op] = <<t.val>>]
                  ELSE IF t.op = "attachment" THEN IF t.val = 0 THEN c ELSE [c EXCEPT !["attachment"] = <<1>>]
                  ELSE [c EXCEPT !["text"] = Append(@, t.val)]

Criteria(q) ==
    LET c[i \in 0..Len(q)] == IF i = 0 THEN NoCriteria ELSE AddToken(c[i - 1], q[i])
        r == c[Len(q)]
    IN \* IMAP SEARCH needs a criterion: match the raw text when only unusable tokens were given
       IF r = NoCriteria THEN [r EXCEPT !["text"] = <<0>>] ELSE r

-----------------------------------------------------------------------------
Next == \/ \E f \in AllFolders : FetchCached(f) \/ FetchRead(f) \/ FetchDone(f) \/ FetchFails(f) \/ Age(f) \/ Elsewhere(f)
                                  \/ SwitchFolder(f)
        \/ \E s \in sets : SetMessageList(s)
        \/ Refresh \/ WatcherBusts \/ RailFetched \/ Watch \/ OnChange
        \/ \E s \in syncs : SyncRead(s) \/ SyncApply(s) \/ SyncFails(s)
        \/ \E u \in Uids : OpenMessage(u) \/ ToggleThread(u)
        \/ \E k \in {"flag", "delete", "move"} : ActOnOpen(k)
        \/ \E f \in rail, to \in Spare : \/ FolderOp("create", f, to) \/ FolderOp("rename", f, to)
                                         \/ FolderOp("drop", f, to)
        \/ ServerRuns \/ OpBusts \/ OpFails \/ Answered
        \/ \E t \in Terms : TypeToken(t)
        \/ Debounce

Spec == Init /\ [][Next]_vars

-----------------------------------------------------------------------------
Calm == /\ events = <<>> /\ syncs = {} /\ op = NoOp /\ watched = folder
        /\ \A f \in AllFolders : fetch[f].at = "idle"

LastSet(k) == {i \in 1..Len(term) : term[i].op = k /\ term[i].val # 0
                                     /\ \A j \in i + 1..Len(term) : term[j].op = k => term[j].val = 0}

\* Once nothing is in flight, the list on screen is the folder: no event, flag delta, own
\* mutation or re-listing is lost, except where an older answer overtook a newer one, a
\* change was made where no watcher looked, the user left the folder before the mutation was
\* answered, a fetch or a mutation's answer failed, a change met the folder's first fetch
\* (it is joined, not restarted), or the server answered from a stored list that a drop
\* still under way, overtaken or refused should have removed: then a later listing mends it.
\* Conversations partition it, a reply stands with the message its references start
\* from, and collapsing hides only older messages.  The search criteria are the last usable
\* value of each operator, and never empty.
ViewSound ==
    /\ (Calm /\ folder \in exists /\ missed[folder] = 0 /\ cache[folder].state = "fresh") => cache[folder].msgs = box[folder].msgs
    /\ LET ts == GroupThreads(Listed) IN
       /\ UNION {ToSet(ts[n]) : n \in DOMAIN ts} = ToSet(Listed)
       /\ \A n, m \in DOMAIN ts : n # m => ToSet(ts[n]) \cap ToSet(ts[m]) = {}
       /\ \A n \in DOMAIN ts : \A u, v \in ToSet(ts[n]) : Key(u) = Key(v)
       /\ \A u, v \in ToSet(Listed) : (Headers[v].refs # <<>> /\ Headers[v].refs[1] = Headers[u].id /\ Headers[u].refs = <<>>
                                        /\ Headers[u].reply = 0 /\ Headers[u].native = Headers[v].native) => Key(u) = Key(v)
       /\ {ts[n][1] : n \in DOMAIN ts} \subseteq ToSet(Rows) /\ Len(Rows) = Cardinality(ToSet(Rows))
    /\ LET c == Criteria(term) IN
       /\ c # NoCriteria
       /\ \A k \in {"from", "before", "seen"} : c[k] = IF LastSet(k) = {} THEN <<>>
                                                         ELSE <<term[CHOOSE i \in LastSet(k) : TRUE].val>>

\* The view never stays on a folder that its own operation removed or renamed, whichever
\* folder was open when the answer came (a click on the rail before it is re-read may).
FolderSurvives == (op.at = "ok" /\ op' = NoOp /\ folder \in exists \cup {op.f}) => folder' \in exists
=============================================================================
