---------------------------- MODULE ItemManagers ----------------------------
(***************************************************************************)
(* The webmail's five item managers: signatures, message templates, mail   *)
(* filters, contacts and calendar events.  Each shows a list kept by React *)
(* Query, an editor seeded from a list row, and saves the WHOLE item.      *)
(* Several tabs of one mailbox run side by side against one table; the     *)
(* signature service demotes the old default and writes the new one in one *)
(* transaction of two statements, which READ COMMITTED lets interleave.    *)
(* The filter push and the DAV store behind the last three kinds are the   *)
(* subject of SieveFilters and Groupware: here a save is one write.        *)
(***************************************************************************)
EXTENDS Naturals, Sequences, FiniteSets, SequencesExt

CONSTANTS MaxId,  \* item ids are 1..MaxId, never used twice
          Plans   \* scenarios: [kind, fields, tabs, seeds, edits, opens, dels, losses]

VARIABLES plan,   \* the scenario of this behaviour
          table,  \* the stored items, by id
          gone,   \* ids that were used and deleted
          tab,    \* what each browser tab holds
          used    \* how much of the plan's budget is spent

Ids == 1..MaxId
NoId == 0         \* the editor of a new item has no id

vars == <<plan, table, gone, tab, used>>

Rich == {"signature", "template"}
\* The two forms that keep their own save mutation; the other three managers
\* share one between all their editors.
OwnSave == {"contact", "event"}
Bad == 9          \* an Invalid Date
Now == 1          \* what new Date() gives for an unreadable date-time

Trim(x) == IF x = "blank" THEN "" ELSE x

(***************************************************************************)
(* The forms.  One record serves all five: the flag is "default" for a     *)
(* signature, "enabled" for a filter, "all day" for an event; the rows are *)
(* rich text, conditions or addresses.                                     *)
(***************************************************************************)
NewForm(kind) ==
    [name |-> "", flag |-> kind = "filter",
     rows |-> IF kind \in {"filter", "contact"} THEN <<"">> ELSE <<>>,
     acts |-> IF kind = "filter" THEN <<[type |-> "fileinto", arg |-> ""]>> ELSE <<>>,
     from |-> 2, to |-> 3, labels |-> FALSE]

actionNeedsArg(type) == type = "fileinto"

TypedRows(kind) == CASE kind \in Rich -> {"v", "script"}
                     [] kind = "filter" -> {"v", "blank"}
                     [] OTHER -> {"v", "blank", "notmail"}

\* The condition list of a filter and MultiTextField: change, add or remove a
\* row; the last row of a contact is emptied instead.
ChangedRows(kind, f) == {[f EXCEPT !.rows[i] = x] : i \in DOMAIN f.rows, x \in TypedRows(kind)}
                        \cup (IF Len(f.rows) < 2 THEN {[f EXCEPT !.rows = Append(@, "")]} ELSE {})
ConditionEdits(f) == ChangedRows("filter", f) \cup {[f EXCEPT !.rows = RemoveAt(f.rows, i)] : i \in DOMAIN f.rows}
MultiTextField(f) ==
    ChangedRows("contact", f)
    \cup {[f EXCEPT !.rows = IF Len(f.rows) = 1 THEN <<"">> ELSE RemoveAt(f.rows, i)] : i \in DOMAIN f.rows}
RichEdits(f) == {[f EXCEPT !.rows = <<x>>] : x \in TypedRows("signature")}

\* The action list of a filter: a change of type empties the argument.
ActionEdits(f) ==
    {[f EXCEPT !.acts[i] = [type |-> t, arg |-> ""]] : i \in DOMAIN f.acts, t \in {"fileinto", "stop"}}
    \cup {[f EXCEPT !.acts[i].arg = "v"] : i \in {j \in DOMAIN f.acts : actionNeedsArg(f.acts[j].type)}}
    \cup {[f EXCEPT !.acts = RemoveAt(f.acts, i)] : i \in DOMAIN f.acts}
    \cup (IF Len(f.acts) < 2 THEN {[f EXCEPT !.acts = Append(@, [type |-> "fileinto", arg |-> ""])]} ELSE {})

\* The date inputs: an all-day value is a date, stored at midnight (an even
\* half-day); clearing it stores an Invalid Date, clearing a date-time the
\* present moment.
Moments(allDay) == IF allDay THEN {0, 2, 4, Bad} ELSE {0, Now, 3, 5}

WhenEdits(f) == {[f EXCEPT !.from = x] : x \in Moments(f.flag)} \cup {[f EXCEPT !.to = x] : x \in Moments(f.flag)}

\* The inputs each form has.
SignatureFields == {"name", "rich", "flag"}
TemplateFields == {"name", "rich"}
FilterFields == {"name", "conditions", "acts", "flag"}
ContactFields == {"name", "addresses"}
EventFields == {"name", "flag", "when"}
Fields == [signature |-> SignatureFields, template |-> TemplateFields, filter |-> FilterFields,
           contact |-> ContactFields, event |-> EventFields]

FormEdits(kind, f) ==
    UNION {CASE x = "name" -> {[f EXCEPT !.name = n] : n \in {"blank", "n", "m"}}
             [] x = "flag" -> {[f EXCEPT !.flag = ~@]}
             [] x = "rich" -> RichEdits(f)
             [] x = "conditions" -> ConditionEdits(f)
             [] x = "addresses" -> MultiTextField(f)
             [] x = "acts" -> ActionEdits(f)
             [] x = "when" -> WhenEdits(f) : x \in plan.fields \cap Fields[kind]} \ {f}

Before(a, b) == a # Bad /\ b # Bad /\ a < b

\* submit's early returns.
FormOk(kind, f) ==
    /\ Trim(f.name) # ""
    /\ kind = "filter" => f.acts # <<>>
    /\ kind = "event" => ~Before(f.to, f.from)

\* The body each submit sends: a filter drops its blank conditions and the
\* arguments its actions do not take, a contact its blank rows and the labels.
Filled(q) == SelectSeq(q, LAMBDA x : Trim(x) # "")
SignatureBody(f) == [f EXCEPT !.name = Trim(@)]
TemplateBody(f) == [f EXCEPT !.name = Trim(@)]
FilterBody(f) == [f EXCEPT !.name = Trim(@), !.rows = Filled(@),
                           !.acts = [i \in DOMAIN @ |-> IF actionNeedsArg(@[i].type) THEN @[i] ELSE [@[i] EXCEPT !.arg = ""]]]
ContactBody(f) == [f EXCEPT !.name = Trim(@), !.rows = Filled(@), !.labels = FALSE]
EventBody(f) == [f EXCEPT !.name = Trim(@)]

Body(kind, f) == CASE kind = "signature" -> SignatureBody(f) [] kind = "template" -> TemplateBody(f)
                   [] kind = "filter" -> FilterBody(f) [] kind = "contact" -> ContactBody(f) [] OTHER -> EventBody(f)

\* The request schemas of the contracts package.
Accepts(kind, b) ==
    /\ b.name # ""
    /\ kind = "filter" => b.acts # <<>> /\ \A i \in DOMAIN b.rows : b.rows[i] # ""
    /\ kind = "contact" => \A i \in DOMAIN b.rows : b.rows[i] = "v"
    /\ kind = "event" => b.from # Bad /\ b.to # Bad /\ b.from <= b.to

sanitizeMailHtml(kind, b) ==
    IF kind \in Rich THEN [b EXCEPT !.rows = SelectSeq(@, LAMBDA x : x # "script")] ELSE b

-----------------------------------------------------------------------------
Live == {i \in Ids : table[i].live}
NoItem == [live |-> FALSE, item |-> NewForm("template")]
Shut == [open |-> FALSE, id |-> NoId, form |-> NewForm("template"), typed |-> FALSE, late |-> FALSE]
NoSave == [at |-> "none", id |-> NoId, body |-> NewForm("template"), snap |-> {}, held |-> {}, alone |-> TRUE, own |-> FALSE,
           here |-> FALSE]
NoList == [known |-> FALSE, rows |-> [i \in Ids |-> NoItem]]

Tabs == 1..plan.tabs
Slots == 1..2

Stored(kind, dflt) == [NewForm(kind) EXCEPT !.name = "n", !.flag = IF kind = "signature" THEN dflt ELSE @,
                                            !.rows = IF kind = "template" THEN <<>> ELSE <<"v">>, !.labels = kind = "contact"]

Init ==
    /\ plan \in Plans
    /\ gone = {}
    /\ \E d \in {NoId, 1} :
          table = [i \in Ids |-> IF i <= plan.seeds THEN [live |-> TRUE, item |-> Stored(plan.kind, i = d)] ELSE NoItem]
    /\ tab = [t \in Tabs |-> [list |-> NoList, fetch |-> "asked", got |-> [i \in Ids |-> NoItem], edit |-> Shut,
                             save |-> [s \in Slots |-> NoSave], del |-> [at |-> "none", id |-> NoId], excused |-> FALSE]]
    /\ used = [edits |-> 0, opens |-> 0, dels |-> 0, losses |-> 0]

Spend(what) == used[what] < plan[what] /\ used' = [used EXCEPT ![what] = @ + 1]
Set(t, r) == tab' = [tab EXCEPT ![t] = r]
Same == UNCHANGED <<plan, table, gone>>

(***************************************************************************)
(* The list.                                                               *)
(***************************************************************************)
\* The handler's SELECT.
FetchRead(t) ==
    /\ tab[t].fetch = "asked"
    /\ Set(t, [tab[t] EXCEPT !.fetch = "read", !.got = table, !.excused = FALSE])
    /\ Same /\ UNCHANGED used

\* Faulty variant: an effect seeds the open form from the refetched row, too.
ShowListReseed(r) == [r EXCEPT !.fetch = "no", !.list = [known |-> TRUE, rows |-> r.got],
                               !.edit = IF @.open /\ @.id # NoId /\ r.got[@.id].live
                                        THEN [@ EXCEPT !.form = r.got[r.edit.id].item, !.typed = FALSE] ELSE @]

\* A refetch replaces the list; the open editor keeps its own copy.
ShowList(r) == [r EXCEPT !.fetch = "no", !.list = [known |-> TRUE, rows |-> r.got]]

FetchShown(t) ==
    /\ tab[t].fetch = "read"
    /\ Set(t, ShowList(tab[t]))
    /\ Same /\ UNCHANGED used

FetchFails(t) ==
    /\ tab[t].fetch \in {"asked", "read"}
    /\ Spend("losses")
    /\ Set(t, [tab[t] EXCEPT !.fetch = "no", !.excused = TRUE])
    /\ Same

\* invalidateQueries: a list that is shown is fetched again and an answer
\* under way dropped; a first fetch still under way is joined, not repeated.
Invalidate(r) == IF r.list.known \/ r.fetch = "no" THEN [r EXCEPT !.fetch = "asked"] ELSE [r EXCEPT !.excused = TRUE]

(***************************************************************************)
(* The editor.                                                             *)
(***************************************************************************)
Saving(t) == \E s \in Slots : tab[t].save[s].at # "none"
\* The saves whose manager is still mounted: their answers close its editor.
Pending(t) == \E s \in Slots : tab[t].save[s].here

StartEdit(t, id) ==
    /\ ~tab[t].edit.open
    /\ id # NoId => tab[t].list.known /\ tab[t].list.rows[id].live
    /\ Spend("opens")
    /\ Set(t, [tab[t] EXCEPT !.edit = [open |-> TRUE, id |-> id, typed |-> FALSE, late |-> Pending(t),
                                       form |-> IF id = NoId THEN NewForm(plan.kind) ELSE tab[t].list.rows[id].item]])
    /\ Same

Type(t) ==
    /\ tab[t].edit.open
    /\ Spend("edits")
    /\ \E f \in FormEdits(plan.kind, tab[t].edit.form) :
          Set(t, [tab[t] EXCEPT !.edit.form = f, !.edit.typed = TRUE])
    /\ Same

\* setEditing(null).  A form that owns its mutation is unmounted with it; the
\* request goes on, and so do its callbacks.
Close(r) == [r EXCEPT !.edit = Shut, !.save = [s \in Slots |-> [r.save[s] EXCEPT !.own = FALSE]]]

Cancel(t) ==
    /\ tab[t].edit.open
    /\ Set(t, Close(tab[t]))
    /\ Same /\ UNCHANGED used

\* The modal is closed, or its tab switched, and shown again: an open editor
\* goes, a save under way loses its manager, a stale list is fetched anew.
Unmounted(r) == [Close(r) EXCEPT !.save = [s \in Slots |-> [r.save[s] EXCEPT !.own = FALSE, !.here = FALSE]]]

Reopen(t) ==
    /\ Spend("opens")
    /\ \E stale \in BOOLEAN :
          Set(t, [Unmounted(tab[t]) EXCEPT !.fetch = IF stale /\ @ = "no" THEN "asked" ELSE @])
    /\ Same

\* The button is disabled while the mutation it belongs to is pending.
Submit(t, s) ==
    /\ tab[t].edit.open /\ FormOk(plan.kind, tab[t].edit.form)
    /\ tab[t].save[s].at = "none"
    /\ IF plan.kind \in OwnSave THEN \A z \in Slots : ~tab[t].save[z].own
                                ELSE ~Pending(t)
    /\ s = 2 => tab[t].save[1].at # "none"
    /\ Set(t, [tab[t] EXCEPT !.save[s] = [NoSave EXCEPT !.at = "sent", !.id = tab[t].edit.id, !.own = TRUE, !.here = TRUE,
                                                        !.body = Body(plan.kind, tab[t].edit.form)]])
    /\ Same /\ UNCHANGED used

(***************************************************************************)
(* The server's side of a save.                                            *)
(***************************************************************************)
Saves == {p \in Tabs \X Slots : tab[p[1]].save[p[2]].at # "none"}
Running == {p \in Saves : tab[p[1]].save[p[2]].at \in {"clearing", "cleared"}}
Locked(t, s) == UNION {tab[p[1]].save[p[2]].held : p \in Running \ {<<t, s>>}}

Default(t, s) == plan.kind = "signature" /\ tab[t].save[s].body.flag

\* The rows the demoting UPDATE finds.
Demotable(rows, id) == {i \in Ids \ {id} : rows[i].live /\ rows[i].item.flag}

\* createSignature and updateSignature with is_default: the demoting UPDATE
\* takes its snapshot ...
ClearStart(t, s) ==
    /\ tab[t].save[s].at = "sent" /\ Default(t, s) /\ Accepts(plan.kind, tab[t].save[s].body)
    /\ tab' = [z \in Tabs |->
                 [tab[z] EXCEPT !.save = [q \in Slots |->
                    IF <<z, q>> = <<t, s>>
                    THEN [tab[t].save[s] EXCEPT !.at = "clearing", !.snap = Demotable(table, tab[t].save[s].id), !.alone = Running = {}]
                    ELSE IF <<z, q>> \in Running THEN [tab[z].save[q] EXCEPT !.alone = FALSE] ELSE tab[z].save[q]]]]
    /\ Same /\ UNCHANGED used

\* ... waits for the rows another transaction has changed, and looks at them
\* again: a row no longer default is passed over.
ClearDone(t, s) ==
    /\ tab[t].save[s].at = "clearing"
    /\ tab[t].save[s].snap \cap Locked(t, s) = {}
    /\ Set(t, [tab[t] EXCEPT !.save[s].at = "cleared",
                             !.save[s].held = {i \in tab[t].save[s].snap : table[i].live /\ table[i].item.flag}])
    /\ Same /\ UNCHANGED used

\* The partial unique index: another row is the default of this mailbox.
Rival(t, s) == {i \in Live \ (tab[t].save[s].held \cup {tab[t].save[s].id}) : Default(t, s) /\ table[i].item.flag}

Free == Ids \ (Live \cup gone)

Commit(t, s, id) ==
    /\ table' = [i \in Ids |-> IF i = id THEN [live |-> TRUE, item |-> sanitizeMailHtml(plan.kind, tab[t].save[s].body)]
                               ELSE IF i \in tab[t].save[s].held THEN [table[i] EXCEPT !.item.flag = FALSE]
                               ELSE table[i]]
    /\ tab' = [z \in Tabs |-> IF z = t THEN [tab[t] EXCEPT !.save[s] = [@ EXCEPT !.at = "ok", !.held = {}]]
                                       ELSE [tab[z] EXCEPT !.excused = TRUE]]

Refuse(t, s, why) == /\ Set(t, [tab[t] EXCEPT !.save[s] = [@ EXCEPT !.at = why, !.held = {}]])
                     /\ UNCHANGED table

\* The INSERT or UPDATE and the end of its transaction.
Write(t, s) ==
    /\ tab[t].save[s].at = IF Default(t, s) /\ Accepts(plan.kind, tab[t].save[s].body) THEN "cleared" ELSE "sent"
    /\ LET id == tab[t].save[s].id IN
       IF ~Accepts(plan.kind, tab[t].save[s].body) \/ (id # NoId /\ id \notin Live) THEN Refuse(t, s, "refused")
       ELSE /\ id \notin Locked(t, s)
            /\ Rival(t, s) \cap Locked(t, s) = {}
            /\ IF Rival(t, s) # {} THEN Refuse(t, s, "conflict")
               ELSE IF id # NoId THEN Commit(t, s, id)
               ELSE Free # {} /\ Commit(t, s, CHOOSE i \in Free : \A j \in Free : i <= j)
    /\ UNCHANGED <<plan, gone, used>>

\* onSuccess closes whatever editor its manager has open by then.
Answer(t, s) ==
    /\ tab[t].save[s].at \in {"ok", "refused", "conflict"}
    /\ LET r == [tab[t] EXCEPT !.save[s] = NoSave] IN
       Set(t, IF tab[t].save[s].at = "ok" THEN Invalidate(IF tab[t].save[s].here THEN Close(r) ELSE r) ELSE r)
    /\ Same /\ UNCHANGED used

\* The request or its answer is lost: onError, though the row may be written.
Lost(t, s) ==
    /\ tab[t].save[s].at \in {"sent", "ok"}
    /\ Spend("losses")
    /\ Set(t, [tab[t] EXCEPT !.save[s] = NoSave, !.excused = @ \/ tab[t].save[s].at = "ok"])
    /\ Same

(***************************************************************************)
(* Deleting, after the confirmation, from the list.                        *)
(***************************************************************************)
Delete(t, id) ==
    /\ ~tab[t].edit.open /\ tab[t].list.known /\ tab[t].list.rows[id].live /\ tab[t].del.at = "none"
    /\ Spend("dels")
    /\ Set(t, [tab[t] EXCEPT !.del = [at |-> "sent", id |-> id]])
    /\ Same

DeleteRun(t) ==
    /\ tab[t].del.at = "sent"
    /\ LET id == tab[t].del.id IN
       IF id \notin Live
       THEN Set(t, [tab[t] EXCEPT !.del.at = "refused"]) /\ UNCHANGED <<table, gone>>
       ELSE /\ \A p \in Running : id \notin tab[p[1]].save[p[2]].held
            /\ table' = [table EXCEPT ![id] = NoItem] /\ gone' = gone \cup {id}
            /\ tab' = [z \in Tabs |-> IF z = t THEN [tab[t] EXCEPT !.del.at = "ok"] ELSE [tab[z] EXCEPT !.excused = TRUE]]
    /\ UNCHANGED <<plan, used>>

DeleteAnswer(t) ==
    /\ tab[t].del.at \in {"ok", "refused"}
    /\ LET r == [tab[t] EXCEPT !.del = [at |-> "none", id |-> NoId]] IN
       Set(t, IF tab[t].del.at = "ok" THEN Invalidate(r) ELSE r)
    /\ Same /\ UNCHANGED used

Next ==
    \E t \in Tabs :
       \/ FetchRead(t) \/ FetchShown(t) \/ FetchFails(t) \/ Reopen(t)
       \/ \E id \in Ids \cup {NoId} : StartEdit(t, id)
       \/ Type(t) \/ Cancel(t)
       \/ \E s \in Slots : Submit(t, s) \/ ClearStart(t, s) \/ ClearDone(t, s) \/ Write(t, s) \/ Answer(t, s) \/ Lost(t, s)
       \/ \E id \in Ids : Delete(t, id)
       \/ DeleteRun(t) \/ DeleteAnswer(t)

Spec == Init /\ [][Next]_vars

-----------------------------------------------------------------------------
Idle(t) == tab[t].fetch = "no" /\ ~Saving(t) /\ tab[t].del.at = "none"

(***************************************************************************)
(* What the managers keep, through every interleaving of tabs, statements  *)
(* and answers: the mailbox has at most one default signature; a save is   *)
(* refused for a rival default only if another default save overlapped it; *)
(* stored items are clean (no script, no blank row, a name, no event that  *)
(* ends before it starts) and an untouched editor would send them back     *)
(* unchanged, e-mail labels apart; and a tab at rest shows the table,      *)
(* unless another tab wrote since, an answer was lost, or its first fetch  *)
(* was already under way when its own save came back.                      *)
(***************************************************************************)
ManagersSound ==
    /\ plan.kind = "signature" => Cardinality({i \in Live : table[i].item.flag}) <= 1
    /\ \A p \in Saves : tab[p[1]].save[p[2]].at = "conflict" => ~tab[p[1]].save[p[2]].alone
    /\ \A i \in Live :
         /\ Accepts(plan.kind, [table[i].item EXCEPT !.labels = FALSE])
         /\ "script" \notin ToSet(table[i].item.rows)
         /\ Body(plan.kind, table[i].item) = [table[i].item EXCEPT !.labels = FALSE]
    /\ \A t \in Tabs : Idle(t) /\ tab[t].list.known /\ ~tab[t].excused => tab[t].list.rows = table

\* Text typed into an editor goes only when the user cancels it, closes the
\* modal or switches its tab, or its own save is answered, whatever lists and answers arrive meanwhile -- unless the
\* editor was opened while an earlier save was still under way (page.tsx:2229
\* and its siblings close the editor that is open when the answer comes).
TypedSurvives ==
    \A t \in Tabs :
       tab[t].edit.open /\ tab[t].edit.typed =>
          \/ tab'[t].edit.open /\ (tab'[t].edit.form = tab[t].edit.form \/ Type(t))
          \/ Cancel(t) \/ Reopen(t)
          \/ \E s \in Slots : tab[t].save[s].own /\ Answer(t, s)
          \/ tab[t].edit.late
=============================================================================
