---------------------------- MODULE IssuedSecrets ----------------------------
(***************************************************************************)
(* The console's pages that hand out a secret once: API keys, webhook      *)
(* signing secrets, invitation links and the SCIM token.  The services     *)
(* store a digest or a sealed copy and answer with the secret; the page    *)
(* keeps it in component state until it is dismissed.  Three pages keep it *)
(* in the dialog that asked for it, the SCIM page keeps it itself, beside  *)
(* a settings form that is reset whenever the configuration it was filled  *)
(* from arrives changed.  Several administrators work at once; what the    *)
(* webhook's deliveries, the invitation's acceptance and the API key's use *)
(* do is in WebhookDelivery, OrgMembers and Accounts.                      *)
(***************************************************************************)
EXTENDS Naturals, FiniteSets

CONSTANTS MaxId,    \* secrets are 1..MaxId, in the order they were made
          Plans     \* scenarios: [kind, tabs, opens, dels, uses, edits, saves, leaves, losses]

VARIABLES plan,     \* the scenario of this behaviour
          row,      \* api_keys, webhook_endpoints, invites, or the tokens of scim_configs
          settings, \* the saved SCIM settings, and a stamp of all else the list shows
          tab,      \* what each console tab holds
          seen,     \* secrets that were on a screen
          blind,    \* secrets whose answer met no holder, or got lost
          used      \* how much of the plan's budget is spent

vars == <<plan, row, settings, tab, seen, blind, used>>

Ids == 1..MaxId
NoId == 0
Slots == {1, 2}     \* creations of one tab under way, in dialogs old and new

(***************************************************************************)
(* The four pages: which rows the list shows, and whether a new secret     *)
(* replaces the one before.  Their dialogs: the fields that must be filled *)
(* and who keeps the answer.                                               *)
(***************************************************************************)
ApiKeysPage == [lists |-> {"live", "ended"}, single |-> FALSE]
WebhooksPage == [lists |-> {"live"}, single |-> FALSE]
TeamPage == [lists |-> {"live", "used"}, single |-> FALSE]
ScimPage == [lists |-> {"live"}, single |-> TRUE]
Page == [apikey |-> ApiKeysPage, webhook |-> WebhooksPage, invite |-> TeamPage, scim |-> ScimPage][plan.kind]

ApiKeyDialog == [keeps |-> "dialog", needs |-> {"name"}]
WebhookDialog == [keeps |-> "dialog", needs |-> {"url", "events"}]
InviteDialog == [keeps |-> "dialog", needs |-> {"email"}]
ScimButton == [keeps |-> "page", needs |-> {}]
Dialog == [apikey |-> ApiKeyDialog, webhook |-> WebhookDialog, invite |-> InviteDialog, scim |-> ScimButton][plan.kind]

\* What list and getConfig answer: the rows, never a secret.
Listed == [rows |-> [i \in Ids |-> IF row[i] \in Page.lists THEN row[i] ELSE "free"], settings |-> settings]

Tabs == 1..plan.tabs
NoPost == [at |-> "none", id |-> NoId, inst |-> 0]
NoDel == [at |-> "none", id |-> NoId]
NoSave == [at |-> "none", val |-> 0]
Unread == [rows |-> [i \in Ids |-> "free"], settings |-> [val |-> 0, stamp |-> 0]]
NoFetch == [at |-> "none", data |-> Unread]
Asked == [at |-> "asked", data |-> Unread]

Init ==
    /\ plan \in Plans
    /\ row = [i \in Ids |-> "free"]
    /\ settings = [val |-> 0, stamp |-> 1]
    /\ tab = [t \in Tabs |-> [here |-> TRUE, data |-> Unread, stale |-> FALSE, fetch |-> Asked, behind |-> FALSE, inst |-> 1,
                              open |-> FALSE, filled |-> {}, shown |-> NoId, post |-> [s \in Slots |-> NoPost], del |-> NoDel,
                              typed |-> 0, save |-> NoSave, stirred |-> FALSE]]
    /\ seen = {} /\ blind = {}
    /\ used = [opens |-> 0, dels |-> 0, uses |-> 0, edits |-> 0, saves |-> 0, leaves |-> 0, losses |-> 0]

Spend(what) == used[what] < plan[what] /\ used' = [used EXCEPT ![what] = @ + 1]
Set(t, r) == tab' = [tab EXCEPT ![t] = r]
SetPost(t, s, p) == [tab[t] EXCEPT !.post = [tab[t].post EXCEPT ![s] = p]]
Stored == <<row, settings>>
Known == <<seen, blind>>

\* updated_at, last_request_at, last_used_at, last_status: a fetch brings changed data.
Touch(v) == settings' = [val |-> v, stamp |-> settings.stamp + 1]

\* A write of tab t: its own answer will refetch, the other tabs know nothing.
Wrote(t, r) ==
    tab' = [z \in Tabs |-> IF z = t THEN [r EXCEPT !.stirred = TRUE] ELSE [tab[z] EXCEPT !.behind = TRUE, !.stirred = TRUE]]

\* Faulty variant: an answer does not refetch the list.
InvalidateNever(r) == r

\* invalidateQueries: the list on screen is asked for again and an answer under
\* way dropped; a first fetch under way is joined, not repeated, even when the
\* server has read its rows already.  A list that is not on screen is marked,
\* and an answer still under way then wipes the mark.
Invalidate(r) ==
    IF r.here /\ (r.data # Unread \/ r.fetch.at = "none") THEN [r EXCEPT !.fetch = Asked]
    ELSE [r EXCEPT !.stale = ~r.here, !.behind = @ \/ r.fetch.at = "read"]

(***************************************************************************)
(* The list query.                                                         *)
(***************************************************************************)
FetchRead(t) ==
    /\ tab[t].fetch.at = "asked"
    /\ Set(t, [tab[t] EXCEPT !.fetch = [at |-> "read", data |-> Listed], !.behind = FALSE])
    /\ UNCHANGED <<plan, Stored, Known, used>>

\* Changed data resets the settings form of the page that is mounted.
FetchArrive(t) ==
    /\ tab[t].fetch.at = "read"
    /\ LET new == tab[t].fetch.data IN
       Set(t, [tab[t] EXCEPT !.fetch = NoFetch, !.data = new, !.stale = FALSE, !.typed = IF new = tab[t].data THEN @ ELSE 0])
    /\ UNCHANGED <<plan, Stored, Known, used>>

FetchFails(t) ==
    /\ tab[t].fetch.at # "none"
    /\ Spend("losses")
    /\ Set(t, [tab[t] EXCEPT !.fetch = NoFetch, !.behind = TRUE])
    /\ UNCHANGED <<plan, Stored, Known>>

(***************************************************************************)
(* A secret is made.                                                       *)
(***************************************************************************)
OpenDialog(t) ==
    /\ tab[t].here /\ ~tab[t].open /\ Dialog.keeps = "dialog"
    /\ Spend("opens")
    /\ Set(t, [tab[t] EXCEPT !.open = TRUE, !.inst = @ + 1, !.filled = {}])
    /\ UNCHANGED <<plan, Stored, Known>>

Fill(t, field) ==
    /\ tab[t].open /\ tab[t].shown = NoId /\ field \in Dialog.needs \ tab[t].filled
    /\ Set(t, [tab[t] EXCEPT !.filled = @ \cup {field}])
    /\ UNCHANGED <<plan, Stored, Known, used>>

\* The button is disabled while a creation of this very dialog, or page, is pending.
Pending(t) == \E s \in Slots : tab[t].post[s].at # "none" /\ tab[t].post[s].inst = tab[t].inst

Submit(t) ==
    /\ tab[t].shown = NoId /\ ~Pending(t) /\ Dialog.needs \subseteq tab[t].filled
    /\ IF Dialog.keeps = "dialog" THEN tab[t].open /\ UNCHANGED used ELSE tab[t].here /\ tab[t].data # Unread /\ Spend("opens")
    /\ \E s \in Slots : /\ tab[t].post[s].at = "none" /\ \A z \in Slots : z < s => tab[t].post[z].at # "none"
                        /\ Set(t, SetPost(t, s, [at |-> "sent", id |-> NoId, inst |-> tab[t].inst]))
    /\ UNCHANGED <<plan, Stored, Known>>

\* What one more secret does to the rows: generateToken overwrites the digest
\* of the token before, the other services insert.
Issued(id) == [i \in Ids |-> IF i = id THEN "live" ELSE IF Page.single /\ row[i] = "live" THEN "ended" ELSE row[i]]

Create(t, s) ==
    /\ tab[t].post[s].at = "sent"
    /\ \E id \in Ids :
         /\ row[id] = "free" /\ \A j \in Ids : j < id => row[j] # "free"
         /\ row' = Issued(id)
         /\ Wrote(t, SetPost(t, s, [at |-> "done", id |-> id, inst |-> tab[t].post[s].inst]))
    /\ Touch(settings.val)
    /\ UNCHANGED <<plan, Known, used>>

\* onError: the dialog shows why and stays; nothing is refetched.
Refuse(t, s) ==
    /\ tab[t].post[s].at = "sent"
    /\ Spend("losses")
    /\ Set(t, SetPost(t, s, NoPost))
    /\ UNCHANGED <<plan, Stored, Known>>

\* Is the component that asked still mounted?
Mounted(t, s) ==
    tab[t].post[s].inst = tab[t].inst /\ IF Dialog.keeps = "dialog" THEN tab[t].open ELSE tab[t].here

\* onSuccess: the secret goes to the state of the component that asked, and
\* nowhere when that is gone; the list is refetched either way.
Answer(t, s) ==
    /\ tab[t].post[s].at = "done"
    /\ LET id == tab[t].post[s].id
           r == Invalidate(SetPost(t, s, NoPost))
       IN IF Mounted(t, s) THEN Set(t, [r EXCEPT !.shown = id]) /\ seen' = seen \cup {id} /\ UNCHANGED blind
                           ELSE Set(t, r) /\ blind' = blind \cup {id} /\ UNCHANGED seen
    /\ UNCHANGED <<plan, Stored, used>>

Lose(t, s) ==
    /\ tab[t].post[s].at \in {"sent", "done"}
    /\ Spend("losses")
    /\ LET done == tab[t].post[s].at = "done" IN
       /\ Set(t, [SetPost(t, s, NoPost) EXCEPT !.behind = @ \/ done])
       /\ blind' = IF done THEN blind \cup {tab[t].post[s].id} ELSE blind
    /\ UNCHANGED <<plan, Stored, seen>>

\* Cancel, Done, the cross, Escape or a click beside the dialog.
Close(t) ==
    /\ tab[t].open \/ tab[t].shown # NoId
    /\ Set(t, [tab[t] EXCEPT !.open = FALSE, !.shown = NoId, !.filled = {}])
    /\ UNCHANGED <<plan, Stored, Known, used>>

(***************************************************************************)
(* A secret is ended: revoked, deleted, or accepted by the person invited. *)
(***************************************************************************)
AskRemove(t, id) ==
    /\ tab[t].here /\ ~tab[t].open /\ tab[t].shown = NoId
    /\ tab[t].data.rows[id] = "live" /\ tab[t].del.at = "none"
    /\ Spend("dels")
    /\ Set(t, [tab[t] EXCEPT !.del = [at |-> "sent", id |-> id]])
    /\ UNCHANGED <<plan, Stored, Known>>

\* revokeToken clears whatever digest is there; the others name a row.
Ended(id) == IF Page.single THEN {i \in Ids : row[i] = "live"} ELSE {id} \cap {i \in Ids : row[i] = "live"}

Remove(t) ==
    /\ tab[t].del.at = "sent"
    /\ LET gone == Ended(tab[t].del.id) IN
       IF gone = {} /\ ~Page.single
       THEN Set(t, [tab[t] EXCEPT !.del = [at |-> "refused", id |-> tab[t].del.id]]) /\ UNCHANGED Stored
       ELSE /\ row' = [i \in Ids |-> IF i \in gone THEN "ended" ELSE row[i]]
            /\ Touch(settings.val)
            /\ Wrote(t, [tab[t] EXCEPT !.del = [at |-> "ok", id |-> tab[t].del.id]])
    /\ UNCHANGED <<plan, Known, used>>

\* A success refetches the list; a 404 is not even shown.
AnswerRemove(t) ==
    /\ tab[t].del.at \in {"ok", "refused"}
    /\ LET r == [tab[t] EXCEPT !.del = NoDel] IN Set(t, IF tab[t].del.at = "ok" THEN Invalidate(r) ELSE r)
    /\ UNCHANGED <<plan, Stored, Known, used>>

LoseRemove(t) ==
    /\ tab[t].del.at \in {"sent", "ok"}
    /\ Spend("losses")
    /\ Set(t, [tab[t] EXCEPT !.del = NoDel, !.behind = @ \/ tab[t].del.at = "ok"])
    /\ UNCHANGED <<plan, Stored, Known>>

\* The secret is used: an invitation is spent by it; a key, a token and a
\* webhook only show when that was.
Use(id) ==
    /\ row[id] = "live" /\ (id \in seen \/ plan.kind = "webhook")
    /\ Spend("uses")
    /\ row' = IF plan.kind = "invite" THEN [row EXCEPT ![id] = "used"] ELSE row
    /\ Touch(settings.val)
    /\ tab' = [z \in Tabs |-> [tab[z] EXCEPT !.behind = TRUE, !.stirred = TRUE]]
    /\ UNCHANGED <<plan, Known>>

(***************************************************************************)
(* The SCIM page's settings form.                                          *)
(***************************************************************************)
Form(t) == plan.kind = "scim" /\ tab[t].here /\ tab[t].shown = NoId /\ tab[t].data # Unread

Type(t) ==
    /\ Form(t)
    /\ Spend("edits")
    /\ Set(t, [tab[t] EXCEPT !.typed = used.edits + 1,
                             !.stirred = (@ /\ tab[t].typed # 0) \/ tab[t].fetch.at # "none" \/ tab[t].data # Listed])
    /\ UNCHANGED <<plan, Stored, Known>>

\* The whole form is sent, the fields nobody touched as they were read.
Save(t) ==
    /\ Form(t) /\ tab[t].save.at = "none"
    /\ Spend("saves")
    /\ Set(t, [tab[t] EXCEPT !.save = [at |-> "sent", val |-> IF tab[t].typed = 0 THEN tab[t].data.settings.val ELSE tab[t].typed]])
    /\ UNCHANGED <<plan, Stored, Known>>

UpdateConfig(t) ==
    /\ tab[t].save.at = "sent"
    /\ Touch(tab[t].save.val)
    /\ Wrote(t, [tab[t] EXCEPT !.save = [at |-> "ok", val |-> tab[t].save.val]])
    /\ UNCHANGED <<plan, row, Known, used>>

AnswerSave(t) ==
    /\ tab[t].save.at = "ok"
    /\ Set(t, Invalidate([tab[t] EXCEPT !.save = NoSave]))
    /\ UNCHANGED <<plan, Stored, Known, used>>

LoseSave(t) ==
    /\ tab[t].save.at # "none"
    /\ Spend("losses")
    /\ Set(t, [tab[t] EXCEPT !.save = NoSave, !.behind = @ \/ tab[t].save.at = "ok"])
    /\ UNCHANGED <<plan, Stored, Known>>

(***************************************************************************)
(* Another page and back: state is dropped, the query cache is not.        *)
(***************************************************************************)
Leave(t) ==
    /\ tab[t].here
    /\ Spend("leaves")
    /\ Set(t, [tab[t] EXCEPT !.here = FALSE, !.open = FALSE, !.shown = NoId, !.filled = {}, !.typed = 0, !.inst = @ + 1])
    /\ UNCHANGED <<plan, Stored, Known>>

\* A list that was marked, or read 15 s ago, is asked for again.
Return(t) ==
    /\ ~tab[t].here
    /\ LET r == [tab[t] EXCEPT !.here = TRUE, !.stale = FALSE] IN
       \/ Set(t, IF r.fetch.at = "none" THEN [r EXCEPT !.fetch = Asked] ELSE r)
       \/ ~tab[t].stale /\ Set(t, r)
    /\ UNCHANGED <<plan, Stored, Known, used>>

Next ==
    \/ \E id \in Ids : Use(id)
    \/ \E t \in Tabs :
          \/ FetchRead(t) \/ FetchArrive(t) \/ FetchFails(t) \/ OpenDialog(t) \/ Submit(t) \/ Close(t)
          \/ \E field \in {"name", "url", "events", "email"} : Fill(t, field)
          \/ \E s \in Slots : Create(t, s) \/ Refuse(t, s) \/ Answer(t, s) \/ Lose(t, s)
          \/ \E id \in Ids : AskRemove(t, id)
          \/ Remove(t) \/ AnswerRemove(t) \/ LoseRemove(t)
          \/ Type(t) \/ Save(t) \/ UpdateConfig(t) \/ AnswerSave(t) \/ LoseSave(t) \/ Leave(t) \/ Return(t)

Spec == Init /\ [][Next]_vars

-----------------------------------------------------------------------------
Calm(t) ==
    LET r == tab[t] IN
    r.here /\ r.fetch.at = "none" /\ r.del.at = "none" /\ r.save.at = "none" /\ \A s \in Slots : r.post[s].at = "none"

\* "This is the only time we'll show the full token" (api-keys/page.tsx): a
\* secret in force was on a screen, or its answer is on its way to one, unless
\* the dialog or page that asked was left before the answer or the answer was
\* lost.  A screen shows one secret, made for the dialog it is in; a calm list
\* shows the rows unless somebody else wrote them since, a call failed, or the
\* write's answer joined a fetch that had read them before; one SCIM token is in force.
SecretsSound ==
    /\ \A i \in Ids : row[i] = "live" =>
         i \in seen \cup blind \/ \E t \in Tabs, s \in Slots : tab[t].post[s].at = "done" /\ tab[t].post[s].id = i
    /\ seen \cap blind = {}
    /\ \A t, z \in Tabs : t # z => tab[t].shown = NoId \/ tab[t].shown # tab[z].shown
    /\ \A t \in Tabs : Calm(t) /\ ~tab[t].behind => tab[t].data = Listed
    /\ Page.single => Cardinality({i \in Ids : row[i] = "live"}) <= 1

\* A secret that was revoked, replaced or accepted is never in force again; a
\* page never drops a secret by itself; and settings typed into the SCIM page
\* stay until they are saved, unless the configuration changed since they were
\* begun (scim/page.tsx resets the form when a refetch brings it changed, and
\* a rotation of the token is such a change).
SecretsStep ==
    /\ \A i \in Ids : row[i] \in {"ended", "used"} => row'[i] = row[i]
    /\ \A t \in Tabs : LET r == tab[t] IN
         /\ r.shown # NoId /\ tab'[t].shown # r.shown => ~tab'[t].open /\ tab'[t].shown = NoId /\ (Close(t) \/ Leave(t))
         /\ r.typed # 0 /\ tab'[t].typed # r.typed => r.stirred \/ ~tab'[t].here \/ Type(t)
=============================================================================
