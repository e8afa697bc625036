------------------------------ MODULE Composer ------------------------------
(***************************************************************************)
(* The compose panel of the webmail client: autosave into \Drafts, resume, *)
(* minimise, attachments, send, undo and the poll for the outcome.         *)
(*                                                                         *)
(* Each mount of the panel is an instance with refs of its own (draftUid,  *)
(* saving, seeded); calls outlive the instance that made them.  A body is  *)
(* [rev, sig]: the last typed revision it holds and how many signatures.   *)
(* The plan chosen in Init says which of the panel's operations a          *)
(* behaviour uses, so that the plans' state spaces add up.                 *)
(***************************************************************************)
EXTENDS Naturals, FiniteSets

CONSTANTS Plans,      \* records: which operations a behaviour uses, with its bounds
          Files,      \* the files the user may attach
          MaxCount    \* attachmentLimits().max_count

\* Assumed of the constants, by the module that gives them values.
PlansAssumption == \A p \in Plans : p.opens \in Nat

VARIABLES plan,
          ui,         \* the panel: "closed", "open" or "minimized"
          inst,       \* number of panels mounted so far; the last is the current one
          initial,    \* its props: the body to seed, the message replied to, the draft
          head,       \* the message the fields To and Subject answer (0: typed by hand)
          dom,        \* the body held by the contentEditable element
          sigDue, timer,
          save, draftUid, discard,   \* per instance: autosave call, draftUidRef, discard call
          drafts,     \* the \Drafts folder: records [uid, body, by]
          files,      \* attachments state: file -> status
          post,       \* the send mutation
          row,        \* scheduled_sends.status of the message
          cancel, poll, told,        \* the undo toast, the outcome poll, what the user was told
          faults, marks              \* history: what the conditional properties except

vars == <<plan, ui, inst, initial, head, dom, sigDue, timer, save, draftUid, discard,
                  drafts, files, post, row, cancel, poll, told, faults, marks>>

Empty   == [rev |-> 0, sig |-> 0]
NoSave  == [at |-> "idle", body |-> Empty, replace |-> 0, uid |-> 0]
NoPost  == [at |-> "idle", inst |-> 0, body |-> Empty, reply |-> 0, files |-> {}, wait |-> 0]
Blank   == [body |-> Empty, reply |-> 0, draft |-> 0]
Panels  == 1..plan.opens
Uids    == {d.uid : d \in drafts}
NextUid == marks.last + 1           \* UIDNEXT of the folder

Init == /\ plan \in Plans
        /\ ui = "closed" /\ inst = 0 /\ initial = Blank /\ head = 0 /\ dom = Empty
        /\ sigDue = FALSE /\ timer = FALSE
        /\ save = [i \in Panels |-> NoSave]
        /\ draftUid = [i \in Panels |-> 0]
        /\ discard = [i \in Panels |-> {}]
        /\ drafts = {}
        /\ files = [f \in Files |-> "none"]
        /\ post = NoPost /\ row = "none" /\ cancel = "off" /\ poll = 0 /\ told = ""
        /\ faults = 0
        /\ marks = [typed |-> 0, lost |-> FALSE, overtaken |-> FALSE, skipped |-> FALSE,
                    wiped |-> FALSE, last |-> 0]

Draft   == <<save, draftUid, discard, drafts>>
Outcome == <<row, cancel, poll, told>>

(***************************************************************************)
(* Opening.  Compose, Reply and a click on a message of \Drafts all call   *)
(* setCompose.  On a closed panel that mounts a new instance; on an open   *)
(* one only the prop `initial` changes: fields, body and refs stay.        *)
(***************************************************************************)
SetCompose(init) ==
    /\ initial' = init
    /\ IF ui = "closed"
       THEN /\ inst < plan.opens
            /\ inst' = inst + 1
            /\ ui' = "open"
            /\ dom' = init.body
            /\ head' = init.reply
            /\ draftUid' = [draftUid EXCEPT ![inst + 1] = init.draft]
            /\ sigDue' = plan.signature
            /\ files' = [f \in Files |-> "none"]
            /\ timer' = (init # Blank)
            /\ marks' = [marks EXCEPT !.typed = init.body.rev, !.skipped = FALSE, !.wiped = FALSE]
       ELSE /\ timer' = (timer \/ head # 0 \/ dom # Empty)
            /\ UNCHANGED <<inst, ui, dom, head, draftUid, sigDue, files, marks>>
    /\ UNCHANGED <<plan, save, discard, drafts, post, row, cancel, poll, told, faults>>

Compose == ui = "closed" /\ SetCompose(Blank)
\* the quoted text is not tracked: a reply starts from an empty body
ReplyTo == plan.retarget /\ initial.reply = 0 /\ SetCompose([Blank EXCEPT !.reply = 1])

\* openMessage in \Drafts: text and recipients come back, the threading headers do not
ResumeDraft(d) == /\ d \in drafts
                  /\ ui = "closed"
                  /\ SetCompose([body |-> d.body, reply |-> 0, draft |-> d.uid])

\* the signatures query answers: the default signature goes in at the caret, once per
\* instance, whether the body is new or resumed; a minimised panel has no editor
SeedSignature ==
    /\ ui # "closed" /\ sigDue
    /\ sigDue' = FALSE
    /\ IF ui = "open"
       THEN dom' = [dom EXCEPT !.sig = @ + 1] /\ timer' = TRUE
       ELSE UNCHANGED <<dom, timer>>
    /\ UNCHANGED <<plan, ui, inst, initial, head, Draft, files, post, Outcome, faults, marks>>

Type == /\ ui = "open" /\ marks.typed < plan.revs
        /\ dom' = [dom EXCEPT !.rev = marks.typed + 1]
        /\ marks' = [marks EXCEPT !.typed = @ + 1, !.skipped = FALSE]
        /\ timer' = TRUE
        /\ UNCHANGED <<plan, ui, inst, initial, head, sigDue, Draft, files, post, Outcome, faults>>

\* the minimised panel renders a button only: the editor is unmounted with its text
Minimize == /\ ui = "open" /\ plan.minimise
            /\ ui' = "minimized"
            /\ dom' = Empty
            /\ marks' = [marks EXCEPT !.wiped = TRUE]
            /\ UNCHANGED <<plan, inst, initial, head, sigDue, timer, Draft, files, post, Outcome, faults>>

\* a fresh RichTextEditor seeds itself from initialHtml
Restore == /\ ui = "minimized"
           /\ ui' = "open"
           /\ dom' = initial.body
           /\ UNCHANGED <<plan, inst, initial, head, sigDue, timer, Draft, files, post, Outcome, faults, marks>>

(***************************************************************************)
(* Autosave: one call at a time per instance; a timer that fires while one *)
(* is in flight does nothing and nothing re-arms it but another edit.      *)
(***************************************************************************)
AutosaveFires ==
    /\ timer
    /\ timer' = FALSE
    /\ IF save[inst].at # "idle"
       THEN marks' = [marks EXCEPT !.skipped = TRUE] /\ UNCHANGED save
       ELSE /\ save' = [save EXCEPT ![inst] = [NoSave EXCEPT !.at = "call", !.body = dom,
                                                            !.replace = draftUid[inst]]]
            /\ marks' = [marks EXCEPT !.overtaken = @ \/ (post.at = "accepted" /\ post.inst = inst)]
    /\ UNCHANGED <<plan, ui, inst, initial, head, dom, sigDue, draftUid, discard, drafts, files, post,
                   Outcome, faults>>

SaveStep(i, from, s, ds, m) ==
    /\ save[i].at = from
    /\ save' = [save EXCEPT ![i] = s]
    /\ drafts' = ds
    /\ marks' = m
    /\ UNCHANGED <<plan, ui, inst, initial, head, dom, sigDue, timer, draftUid, discard, files, post,
                   Outcome>>

\* server, saveDraft: append first, so that a failure never leaves the user with no draft
AppendDraft(i) ==
    SaveStep(i, "call", [save[i] EXCEPT !.at = "appended", !.uid = NextUid],
             drafts \cup {[uid |-> NextUid, body |-> save[i].body, by |-> i]},
             [marks EXCEPT !.last = NextUid]) /\ UNCHANGED faults

Keep(i)      == drafts                        \* Faulty variant: the prior version is not deleted
Replaced(i)  == {d \in drafts : d.uid # save[i].replace}
DeletePrior(i) ==
    SaveStep(i, "appended", [save[i] EXCEPT !.at = "answer"], Replaced(i), marks) /\ UNCHANGED faults

\* the delete is best-effort: when it fails the server still answers with the new uid
DeleteFails(i) ==
    /\ faults < plan.faults /\ faults' = faults + 1
    /\ SaveStep(i, "appended", [save[i] EXCEPT !.at = "answer"], drafts, [marks EXCEPT !.lost = TRUE])

\* the answer: draftUidRef of the instance that asked, mounted or not
SaveAnswered(i) == /\ save[i].at = "answer"
                   /\ draftUid' = [draftUid EXCEPT ![i] = save[i].uid]
                   /\ save' = [save EXCEPT ![i] = NoSave]
                   /\ UNCHANGED <<plan, ui, inst, initial, head, dom, sigDue, timer, discard, drafts, files,
                                  post, Outcome, faults, marks>>

\* request or answer lost, a server error, or an answer without a uid (an IMAP server that
\* does not report it): the ref keeps the old uid
SaveFails(i) == /\ save[i].at # "idle" /\ faults < plan.faults
                /\ faults' = faults + 1
                /\ save' = [save EXCEPT ![i] = NoSave]
                /\ marks' = [marks EXCEPT !.lost = TRUE]
                /\ UNCHANGED <<plan, ui, inst, initial, head, dom, sigDue, timer, draftUid, discard, drafts,
                               files, post, Outcome>>

(***************************************************************************)
(* discardDraft reads the ref, clears it and calls the server.  Close      *)
(* keeps the draft, Discard drops it without waiting for the call.         *)
(***************************************************************************)
AskDiscard(i) == /\ discard' = [discard EXCEPT ![i] = @ \cup ({draftUid[i]} \ {0})]
                 /\ draftUid' = [draftUid EXCEPT ![i] = 0]

\* onClose is setCompose(null): whichever panel is mounted goes away
OnClose == ui' = "closed" /\ timer' = FALSE /\ sigDue' = FALSE /\ dom' = Empty

Close == /\ ui = "open" /\ OnClose
         /\ UNCHANGED <<plan, inst, initial, head, Draft, files, post, Outcome, faults, marks>>

Discard == /\ ui = "open"
           /\ AskDiscard(inst)
           /\ OnClose
           /\ marks' = [marks EXCEPT !.overtaken = @ \/ save[inst].at # "idle"]
           /\ UNCHANGED <<plan, inst, initial, head, save, drafts, files, post, Outcome, faults>>

\* server, discardDraft: a draft already gone counts as success
DiscardDraft(i) == /\ discard[i] # {}
                   /\ \E u \in discard[i] : /\ drafts' = {d \in drafts : d.uid # u}
                                           /\ discard' = [discard EXCEPT ![i] = @ \ {u}]
                   /\ UNCHANGED <<plan, ui, inst, initial, head, dom, sigDue, timer, save, draftUid, files, post,
                                  Outcome, faults, marks>>

\* the call is lost, or the server's delete fails: neither says so, and the draft stays
DiscardFails(i) == /\ discard[i] # {} /\ faults < plan.faults
                   /\ \E u \in discard[i] : discard' = [discard EXCEPT ![i] = @ \ {u}]
                   /\ faults' = faults + 1
                   /\ marks' = [marks EXCEPT !.lost = TRUE]
                   /\ UNCHANGED <<plan, ui, inst, initial, head, dom, sigDue, timer, save, draftUid, drafts, files,
                                  post, Outcome>>

(***************************************************************************)
(* Attachments upload from the moment they are picked.                     *)
(***************************************************************************)
Attached == {f \in Files : files[f] # "none"}

FileStep(f, from, to) == /\ ui = "open" \/ from = "uploading"
                         /\ files[f] = from
                         /\ files' = [files EXCEPT ![f] = to]
                         /\ UNCHANGED <<plan, ui, inst, initial, head, dom, sigDue, timer, Draft, post, Outcome,
                                        faults, marks>>

OnPick(f) == plan.files /\ Cardinality(Attached) < MaxCount /\ FileStep(f, "none", "uploading")
Uploaded(f) == FileStep(f, "uploading", "done")
UploadFails(f) == FileStep(f, "uploading", "error")
RetryUpload(f) == FileStep(f, "error", "uploading")
\* abort: an upload whose file was removed patches nothing
RemoveAttachment(f) == \E s \in {"uploading", "done", "error"} : FileStep(f, s, "none")

(***************************************************************************)
(* Send.                                                                   *)
(***************************************************************************)
\* an attachment without an id yet would be left out of the message
AllUploaded == \A f \in Files : files[f] \in {"none", "done"}

Submit == /\ plan.sends /\ ui = "open" /\ post.at = "idle" /\ row = "none"
          /\ AllUploaded
          /\ post' = [at |-> "posting", inst |-> inst, body |-> dom, reply |-> initial.reply,
                      files |-> {f \in Files : files[f] = "done"}, wait |-> 0]
          /\ UNCHANGED <<plan, ui, inst, initial, head, dom, sigDue, timer, Draft, files, Outcome, faults, marks>>

\* server refuses (a limit, an infected or unscannable attachment) or cannot be reached
SendRefused == /\ post.at = "posting" /\ faults < plan.faults
               /\ faults' = faults + 1
               /\ post' = NoPost
               /\ UNCHANGED <<plan, ui, inst, initial, head, dom, sigDue, timer, Draft, files, Outcome, marks>>

\* then onSuccess closes the panel and shows "Sending…" with its Undo button
ShowsUndo == cancel' = "offered" /\ OnClose

\* accepted: onSuccess first awaits discardDraft, which returns at once when there is no draft
SendAccepted == /\ post.at = "posting"
                /\ row' = "pending"
                /\ AskDiscard(post.inst)
                /\ marks' = [marks EXCEPT !.overtaken = @ \/ save[post.inst].at # "idle"]
                /\ IF draftUid[post.inst] = 0
                   THEN post' = [post EXCEPT !.at = "shown"] /\ ShowsUndo
                   ELSE post' = [post EXCEPT !.at = "accepted", !.wait = draftUid[post.inst]] /\ UNCHANGED <<cancel, ui, dom, sigDue, timer>>
                /\ UNCHANGED <<plan, inst, initial, head, save, drafts, files, poll, told, faults>>

ShowUndo == /\ post.at = "accepted" /\ post.wait \notin discard[post.inst]
            /\ post' = [post EXCEPT !.at = "shown"]
            /\ ShowsUndo
            /\ UNCHANGED <<plan, inst, initial, head, Draft, files, row, poll, told, faults, marks>>

OutcomeStep == UNCHANGED <<plan, ui, inst, initial, head, dom, sigDue, timer, Draft, files, post>>

Undo == /\ cancel = "offered"
        /\ cancel' = "asked"
        /\ OutcomeStep /\ UNCHANGED <<row, poll, told, faults, marks>>

\* server, cancelScheduledSend: only a pending row; the answer clears or keeps the flag
CancelAnswered == /\ cancel = "asked"
                  /\ IF row = "pending"
                     THEN row' = "cancelled" /\ cancel' = "cancelled" /\ told' = "cancelled"
                     ELSE cancel' = "refused" /\ told' = "could not cancel" /\ UNCHANGED row
                  /\ OutcomeStep /\ UNCHANGED <<poll, faults, marks>>

\* the call or its answer is lost: "could not cancel", whether or not the row was cancelled
CancelLost == /\ cancel = "asked" /\ faults < plan.faults
              /\ faults' = faults + 1
              /\ row' \in {row} \cup (IF row = "pending" THEN {"cancelled"} ELSE {})
              /\ cancel' = "refused" /\ told' = "could not cancel"
              /\ OutcomeStep /\ UNCHANGED <<poll, marks>>

\* a cancel in flight or done silences the poll; a refusal before this moment does not
WindowEnds == /\ post.at = "shown"
              /\ post' = [post EXCEPT !.at = "over"]
              /\ IF cancel \in {"asked", "cancelled"} THEN UNCHANGED <<poll, cancel>>
                 ELSE poll' = 1 /\ cancel' = "gone"
              /\ UNCHANGED <<plan, ui, inst, initial, head, dom, sigDue, timer, Draft, files, row, told, faults, marks>>

\* confirmSendOutcome: what one attempt reports
Report(status) == IF status \in {"sent", "failed"} THEN status ELSE ""

\* what is said when the attempts run out
Silence  == ""                                \* Faulty variant: the loop just ends
LastWord == "still sending"

PollOutcome == /\ poll \in 1..plan.polls
               /\ \/ /\ told' = IF Report(row) # "" THEN Report(row)
                                ELSE IF poll = plan.polls /\ row # "cancelled" THEN LastWord ELSE told
                     /\ poll' = IF Report(row) # "" \/ row = "cancelled" \/ poll = plan.polls THEN 0 ELSE poll + 1
                     /\ UNCHANGED faults
                  \/ /\ faults < plan.faults
                     /\ faults' = faults + 1
                     /\ told' = IF poll = plan.polls THEN LastWord ELSE told
                     /\ poll' = IF poll = plan.polls THEN 0 ELSE poll + 1
               /\ OutcomeStep /\ UNCHANGED <<row, cancel, marks>>

\* the worker (module ScheduledSends), in its own time: the clocks need not agree
WorkerStep == /\ \/ row = "pending" /\ row' = "sending"
                 \/ row = "sending" /\ row' \in {"sent", "failed", "pending"}
              /\ OutcomeStep /\ UNCHANGED <<cancel, poll, told, faults, marks>>

Next == \/ Compose \/ ReplyTo \/ (\E d \in drafts : ResumeDraft(d))
        \/ SeedSignature \/ Type \/ Minimize \/ Restore \/ AutosaveFires
        \/ \E i \in Panels : AppendDraft(i) \/ DeletePrior(i) \/ DeleteFails(i) \/ SaveAnswered(i) \/ SaveFails(i)
                           \/ DiscardDraft(i) \/ DiscardFails(i)
        \/ Close \/ Discard
        \/ \E f \in Files : OnPick(f) \/ Uploaded(f) \/ UploadFails(f) \/ RetryUpload(f) \/ RemoveAttachment(f)
        \/ Submit \/ SendRefused \/ SendAccepted \/ ShowUndo
        \/ Undo \/ CancelAnswered \/ CancelLost \/ WindowEnds \/ PollOutcome \/ WorkerStep

\* timers fire and calls end; the user and the worker need do nothing
Fair == /\ \A i \in 1..2 : WF_vars(i \in Panels /\ DiscardDraft(i))
        /\ WF_vars(ShowUndo) /\ WF_vars(CancelAnswered)
        /\ WF_vars(WindowEnds) /\ WF_vars(PollOutcome)

Spec == Init /\ [][Next]_vars /\ Fair

-----------------------------------------------------------------------------
Mine(i) == {d \in drafts : d.by = i}
Calm    == \A i \in Panels : save[i].at = "idle" /\ discard[i] = {}

\* The folder keeps a single live draft per compose session (a second one only while the
\* first is being replaced), and nothing of a message that was sent: unless a save or a discard
\* was lost or failed (the panel and the server swallow both, and a draft stays), or an
\* autosave overlapped the discarding, which leaves one more at most.  The draft is what the
\* editor holds once nothing is pending, unless a call was lost, a firing was skipped or the
\* editor was unmounted.  A message reported sent, failed or cancelled is just that.
ComposerSound ==
    /\ ~marks.lost => \A i \in Panels : Cardinality(Mine(i)) <= 1 + (IF save[i].at = "appended" THEN 1 ELSE 0)
                                                                 + (IF marks.overtaken THEN 1 ELSE 0)
    /\ (Calm /\ ~marks.lost /\ ~marks.overtaken /\ post.at \in {"shown", "over"}) => Mine(post.inst) = {}
    /\ (Calm /\ ~timer /\ ui = "open" /\ dom # Empty /\ ~marks.lost /\ ~marks.skipped /\ ~marks.wiped
         /\ draftUid[inst] # 0)
         => \E d \in drafts : d.uid = draftUid[inst] /\ d.body = dom
    /\ told \in {"sent", "failed", "cancelled"} => row = told

\* Once Undo is offered, the user is told something of the message's end: sent, failed,
\* cancelled, still being sent, or not to be cancelled.  (A refusal that arrives after the
\* window is the last word: the poll was skipped while the cancel was in flight.)
UndoOffered == cancel = "offered"
ToldSomething == told # ""

\* "using dangerouslySetInnerHTML here can wipe typed input": the open editor holds what
\* the user typed last.
TypedInputKept == ui = "open" => dom.rev = marks.typed
=============================================================================
