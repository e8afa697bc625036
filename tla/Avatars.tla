------------------------------ MODULE Avatars ------------------------------
(***************************************************************************)
(* Profile pictures: a mailbox's row names a stored object, a picture is   *)
(* set in four steps (read the row, put the object, remove the old one,    *)
(* write the row) and removed in three, with nothing held between them; a  *)
(* lookup reads the row, streams the object, and falls back on a Redis     *)
(* cache and two external services.  A webmail tab caches the answer and   *)
(* previews an upload; other clients of the mailbox send requests too.     *)
(***************************************************************************)
EXTENDS Naturals, FiniteSets

CONSTANTS Pictures,  \* what an uploaded picture shows
          Exts,      \* the extensions a picture is stored under
          Slots,     \* requests in flight at once
          LogoUrls,  \* logo templates: [https, listed]: its scheme, and whether its host as
                     \* written is localhost, *.local or a private IPv4 address
          Plans      \* scenarios: [changes, reads, faults, proxy]

VARIABLES plan,      \* the scenario of this behaviour
          logo,      \* AVATAR_LOGO_URL
          path,      \* mailboxes.avatar_path: an extension or "none"
          store,     \* the object under each extension
          redis,     \* the cached outside answer, or Unknown
          req,       \* the requests in flight
          tab,       \* the webmail tab
          used,      \* how much of the plan's budget is spent
          spoiled,   \* two changes overlapped, or one died half way
          litter,    \* a cleanup failed and was only logged
          changes    \* version of the row and the store

vars == <<plan, logo, path, store, redis, req, tab, used, spoiled, litter, changes>>

Nothing == "nothing"      \* no picture: the client draws initials
Unknown == "unknown"      \* no answer yet, no cache entry
Outside == {"gravatar", "logo"}
Answers == Pictures \cup Outside \cup {Nothing}
CanvasExt == "jpg"        \* the canvas always gives a JPEG

\* Assumed of the constants, by the module that gives them values.
PicturesAssumption == Pictures \cap (Outside \cup {Nothing, Unknown}) = {} /\ CanvasExt \in Exts /\ "none" \notin Exts

NoReq == [op |-> "none", at |-> "none", ext |-> "none", pic |-> Nothing, old |-> "none", out |-> Nothing, mine |-> FALSE]
NoTab == [data |-> Unknown, preview |-> Nothing, open |-> FALSE, asked |-> "none", told |-> Unknown, at |-> 0, joined |-> FALSE]

Init ==
    /\ plan \in Plans
    /\ logo \in LogoUrls
    /\ path = "none"
    /\ store = [e \in Exts |-> Nothing]
    /\ redis = Unknown
    /\ req = [r \in Slots |-> NoReq]
    /\ tab = NoTab
    /\ used = [changes |-> 0, reads |-> 0, faults |-> 0]
    /\ spoiled = FALSE /\ litter = FALSE
    /\ changes = 0

Spend(what) == used[what] < plan[what] /\ used' = [used EXCEPT ![what] = @ + 1]
Free(r) == req[r].op = "none"
Writing(q) == q.op \in {"set", "remove"}
Busy == tab.asked \in {"set", "remove"}
Reading == \E r \in Slots : req[r].op = "resolve" /\ req[r].mine
Server == <<path, store, redis, litter, changes>>

\* A request starts; history notes a change that starts while another runs.
Start(r, q) ==
    /\ Free(r) /\ \A s \in Slots : s < r => ~Free(s)
    /\ req' = [req EXCEPT ![r] = q]
    /\ spoiled' = (spoiled \/ (Writing(q) /\ \E s \in Slots : Writing(req[s])))

Advance(r, q) == req' = [req EXCEPT ![r] = q]

(***************************************************************************)
(* setProfileAvatar.  A picture of another type or over the limit is       *)
(* refused before anything is read, which changes nothing.                 *)
(***************************************************************************)
ReadPrevious(r) ==
    /\ Writing(req[r]) /\ req[r].at = "start"
    /\ Advance(r, [req[r] EXCEPT !.at = IF req[r].op = "set" THEN "put" ELSE "clean", !.old = path])
    /\ UNCHANGED <<plan, logo, Server, tab, used, spoiled>>

\* The change failed: the mutation reports an error, the preview stays.
Failed(r) == /\ req' = [req EXCEPT ![r] = NoReq]
             /\ tab' = IF req[r].mine THEN [tab EXCEPT !.asked = "none"] ELSE tab

PutObject(r) ==
    /\ req[r].op = "set" /\ req[r].at = "put"
    /\ \/ /\ store' = [store EXCEPT ![req[r].ext] = req[r].pic]
          /\ Advance(r, [req[r] EXCEPT !.at = "clean"])
          /\ changes' = changes + 1
          /\ UNCHANGED <<tab, used>>
       \/ /\ Spend("faults")
          /\ Failed(r)
          /\ UNCHANGED <<store, changes>>
    /\ UNCHANGED <<plan, logo, path, redis, spoiled, litter>>

\* The object a change takes away: for a new picture the old one, unless the
\* new one has just been stored under the same name.
CleanOldAlways(q) == q.old
CleanOld(q) == IF q.op = "set" /\ q.old = q.ext THEN "none" ELSE q.old

CleanUp(r) ==
    /\ Writing(req[r]) /\ req[r].at = "clean"
    /\ Advance(r, [req[r] EXCEPT !.at = "update"])
    /\ LET gone == CleanOld(req[r]) IN
       \/ /\ store' = IF gone = "none" THEN store ELSE [store EXCEPT ![gone] = Nothing]
          /\ UNCHANGED <<used, litter>>
       \/ /\ gone # "none"
          /\ Spend("faults")
          /\ litter' = TRUE
          /\ UNCHANGED store
    /\ changes' = changes + 1
    /\ UNCHANGED <<plan, logo, path, redis, tab, spoiled>>

\* The tab's invalidate starts the lookup again, unless the first one is
\* still running: that one is joined.
Settled == [tab EXCEPT !.asked = "refetch", !.joined = Reading /\ tab.data = Unknown]

UpdateRow(r) ==
    /\ Writing(req[r]) /\ req[r].at = "update"
    /\ path' = IF req[r].op = "set" THEN req[r].ext ELSE "none"
    /\ changes' = changes + 1
    /\ req' = [s \in Slots |-> IF s = r \/ (req[r].mine /\ tab.data # Unknown /\ req[s].op = "resolve" /\ req[s].mine)
                               THEN NoReq ELSE req[s]]
    /\ tab' = IF req[r].mine THEN [Settled EXCEPT !.told = req[r].pic, !.at = changes + 1] ELSE tab
    /\ UNCHANGED <<plan, logo, store, redis, used, spoiled, litter>>

(***************************************************************************)
(* resolveForEmail.                                                        *)
(***************************************************************************)
ReadRow(r) ==
    /\ req[r].op = "resolve" /\ req[r].at = "start"
    /\ Advance(r, [req[r] EXCEPT !.old = path, !.at = IF path = "none" THEN "external" ELSE "stream"])
    /\ UNCHANGED <<plan, logo, Server, tab, used, spoiled>>

\* An object that cannot be read counts as no picture.
StreamObject(r) ==
    /\ req[r].op = "resolve" /\ req[r].at = "stream"
    /\ \/ LET found == store[req[r].old] IN
          /\ Advance(r, [req[r] EXCEPT !.out = found, !.at = IF found = Nothing THEN "external" ELSE "answer"])
          /\ UNCHANGED used
       \/ /\ Spend("faults")
          /\ Advance(r, [req[r] EXCEPT !.at = "external"])
    /\ UNCHANGED <<plan, logo, Server, tab, spoiled>>

\* The host is judged as written, not by what it resolves to or where it redirects.
isSafePublicUrl(u) == u.https /\ ~u.listed

\* What the two outside services may answer: every fetch may fail.
fetchExternal == {"gravatar", Nothing} \cup (IF isSafePublicUrl(logo) THEN {"logo"} ELSE {})

LookOutside(r) ==
    /\ req[r].op = "resolve" /\ req[r].at = "external"
    /\ \/ /\ ~plan.proxy
          /\ Advance(r, [req[r] EXCEPT !.out = Nothing, !.at = "answer"])
       \/ /\ plan.proxy /\ redis # Unknown
          /\ Advance(r, [req[r] EXCEPT !.out = redis, !.at = "answer"])
       \/ /\ plan.proxy /\ redis = Unknown
          /\ \E out \in fetchExternal : Advance(r, [req[r] EXCEPT !.out = out, !.at = "cache"])
    /\ UNCHANGED <<plan, logo, Server, tab, used, spoiled>>

CacheSet(r) ==
    /\ req[r].op = "resolve" /\ req[r].at = "cache"
    /\ redis' = req[r].out
    /\ Advance(r, [req[r] EXCEPT !.at = "answer"])
    /\ UNCHANGED <<plan, logo, path, store, tab, used, spoiled, litter, changes>>

CacheExpires ==
    /\ redis # Unknown /\ redis' = Unknown
    /\ UNCHANGED <<plan, logo, path, store, req, tab, used, spoiled, litter, changes>>

\* The answer is shown; after a change it also closes the dialog.
Answer(r) ==
    /\ req[r].op = "resolve" /\ req[r].at = "answer"
    /\ req' = [req EXCEPT ![r] = NoReq]
    /\ tab' = IF tab.asked = "refetch"
              THEN [tab EXCEPT !.data = req[r].out, !.asked = "none", !.preview = Nothing, !.open = FALSE]
              ELSE [tab EXCEPT !.data = req[r].out]
    /\ UNCHANGED <<plan, logo, Server, used, spoiled>>

(***************************************************************************)
(* The webmail tab: the query, and the dialog that changes the picture.    *)
(***************************************************************************)
Query(r) ==
    /\ tab.asked = "refetch" \/ tab.data = Unknown
    /\ ~Reading
    /\ Spend("reads")
    /\ Start(r, [NoReq EXCEPT !.op = "resolve", !.at = "start", !.mine = TRUE])
    /\ UNCHANGED <<plan, logo, Server, tab>>

OpenDialog ==
    /\ ~tab.open /\ tab' = [tab EXCEPT !.open = TRUE]
    /\ UNCHANGED <<plan, logo, Server, req, used, spoiled>>

\* Escape and the backdrop close the dialog even while a change runs.
CloseDialog ==
    /\ tab.open /\ tab' = [tab EXCEPT !.open = FALSE]
    /\ UNCHANGED <<plan, logo, Server, req, used, spoiled>>

Pick(r, pic) ==
    /\ tab.open /\ ~Busy /\ tab.asked = "none"
    /\ Spend("changes")
    /\ Start(r, [NoReq EXCEPT !.op = "set", !.at = "start", !.ext = CanvasExt, !.pic = pic, !.mine = TRUE])
    /\ tab' = [tab EXCEPT !.preview = pic, !.asked = "set", !.told = Unknown]
    /\ UNCHANGED <<plan, logo, Server>>

HasAvatar == tab.preview # Nothing \/ tab.data \notin {Unknown, Nothing}

ClickRemove(r) ==
    /\ tab.open /\ ~Busy /\ tab.asked = "none" /\ HasAvatar
    /\ Spend("changes")
    /\ Start(r, [NoReq EXCEPT !.op = "remove", !.at = "start", !.mine = TRUE])
    /\ tab' = [tab EXCEPT !.asked = "remove", !.told = Unknown]
    /\ UNCHANGED <<plan, logo, Server>>

\* A reload forgets the tab's state; its request runs on at the server.
Reload ==
    /\ tab # NoTab
    /\ Spend("faults")
    /\ tab' = NoTab
    /\ req' = [r \in Slots |-> IF req[r].op = "resolve" THEN NoReq ELSE [req[r] EXCEPT !.mine = FALSE]]
    /\ UNCHANGED <<plan, logo, Server, spoiled>>

\* Another client of the mailbox may send any accepted format.
ClientSets(r, e, pic) ==
    /\ Spend("changes")
    /\ Start(r, [NoReq EXCEPT !.op = "set", !.at = "start", !.ext = e, !.pic = pic])
    /\ UNCHANGED <<plan, logo, Server, tab>>

ClientRemoves(r) ==
    /\ Spend("changes")
    /\ Start(r, [NoReq EXCEPT !.op = "remove", !.at = "start"])
    /\ UNCHANGED <<plan, logo, Server, tab>>

\* The API process dies with the requests it was serving.
Crash ==
    /\ \E r \in Slots : ~Free(r)
    /\ Spend("faults")
    /\ spoiled' = (spoiled \/ \E r \in Slots : req[r].at \in {"clean", "update"})
    /\ req' = [r \in Slots |-> NoReq]
    /\ tab' = [tab EXCEPT !.asked = "none"]
    /\ UNCHANGED <<plan, logo, Server>>

Next ==
    \/ \E r \in Slots :
          \/ ReadPrevious(r) \/ PutObject(r) \/ CleanUp(r) \/ UpdateRow(r)
          \/ ReadRow(r) \/ StreamObject(r) \/ LookOutside(r) \/ CacheSet(r) \/ Answer(r)
          \/ Query(r) \/ ClickRemove(r) \/ ClientRemoves(r)
          \/ \E pic \in Pictures : Pick(r, pic) \/ \E e \in Exts : ClientSets(r, e, pic)
    \/ CacheExpires \/ OpenDialog \/ CloseDialog \/ Reload \/ Crash

Spec == Init /\ [][Next]_vars

-----------------------------------------------------------------------------
TypeOK ==
    /\ path \in Exts \cup {"none"} /\ store \in [Exts -> Pictures \cup {Nothing}]
    /\ redis \in Outside \cup {Nothing, Unknown}
    /\ tab.data \in Answers \cup {Unknown} /\ tab.asked \in {"none", "set", "remove", "refetch"}

\* As long as no two changes overlapped and none died half way, then between
\* changes the row names an object that exists, and every other object is
\* gone unless a cleanup failed.
RowNamesObject ==
    (~spoiled /\ ~\E r \in Slots : Writing(req[r])) =>
        /\ path # "none" => store[path] # Nothing
        /\ ~litter => \A e \in Exts : store[e] # Nothing => e = path

\* What the tab announced is what it shows: the new picture, or, once it was
\* removed, none that was ever uploaded (an outside one may take its place).
\* As long as nothing changed since its own change ended, nothing failed and
\* its refetch was not a lookup already running.
AnnouncedIsShown ==
    (/\ tab.asked = "none" /\ tab.told \in Pictures \cup {Nothing}
     /\ tab.at = changes /\ ~tab.joined /\ ~spoiled /\ used.faults = 0)
        => IF tab.told = Nothing THEN tab.data \notin Pictures ELSE tab.data = tab.told

\* Profile pictures as setProfileAvatar, removeProfileAvatar, resolveForEmail
\* and the picture dialog keep them: the row names a stored object and no
\* other object is left, unless two changes overlapped, one died half way or a
\* cleanup failed; and a tab that announced a change shows its effect.
AvatarSound == TypeOK /\ RowNamesObject /\ AnnouncedIsShown
=============================================================================
