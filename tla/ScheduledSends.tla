--------------------------- MODULE ScheduledSends ---------------------------
(***************************************************************************)
(* Deferred outbound mail: the scheduled_sends table, the API calls that   *)
(* insert and cancel rows, and the worker loop that claims due rows and    *)
(* dispatches them (WebmailService.send / cancelScheduledSend /            *)
(* processDueSends / dispatchScheduled) under the loop's advisory lock     *)
(* (worker.ts runLocked).                                                  *)
(*                                                                         *)
(* A worker is one replica of the worker process.  Every await of a tick   *)
(* is a step of its own: other workers, users and faults run in between.   *)
(* A SQL statement is atomic.  Time is abstracted to two flags per row:    *)
(* due (send_at <= now()) and stale (updated_at older than the claim       *)
(* timeout); the order of rows within a claim is arbitrary.                *)
(***************************************************************************)
EXTENDS Naturals, FiniteSets, FiniteSetsExt

CONSTANTS
  Sends,         \* the sends users may make
  Workers,       \* replicas of the worker process
  MaxAttempts,   \* WEBMAIL_SEND_MAX_ATTEMPTS
  BatchLimit,    \* LIMIT of the claim
  MaxFaults,     \* bound on crashes and database errors
  LockMayDrop,   \* whether the lock's database session may die under a tick
  None           \* no worker

ASSUME SendsAssumption == IsFiniteSet(Sends)
ASSUME WorkersAssumption == None \notin Workers /\ IsFiniteSet(Workers)
ASSUME BudgetAssumption == MaxAttempts \in Nat \ {0} /\ BatchLimit \in Nat \ {0}
ASSUME FaultAssumption == MaxFaults \in Nat /\ LockMayDrop \in BOOLEAN

VARIABLES
  status,    \* scheduled_sends.status; "absent" before INSERT, "gone" after the cascade
  attempts,  \* scheduled_sends.attempts
  due,       \* send_at <= now()
  stale,     \* updated_at < now() - claim timeout
  copies,    \* copies the submission server has accepted
  filed,     \* copies appended to the Sent folder
  events,    \* webhook events emitted for the send
  holder,    \* the worker whose session holds the "send" advisory lock
  pc,        \* where each worker's tick is
  cur,       \* the row the tick is dispatching: [id, attempts]
  batch,     \* claimed rows the tick has not dispatched yet: [id, attempts]
  faults     \* crashes and database errors so far

rows == <<status, attempts, due, stale>>
tickVars == <<pc, cur, batch>>
vars == <<rows, copies, filed, events, holder, tickVars, faults>>

Statuses == {"absent", "pending", "sending", "sent", "failed", "cancelled", "gone"}
Events == {"mail.sent", "mail.deferred", "mail.bounced"}
DispatchSteps == {"resolve", "smtp", "append", "bust", "record", "fail"}
Steps == {"idle", "claim", "next", "unlock"} \cup DispatchSteps
\* What the claim's RETURNING gives the tick: a copy of the row.
Row(s, n) == [id |-> s, attempts |-> n]

Init ==
  /\ status = [s \in Sends |-> "absent"]
  /\ attempts = [s \in Sends |-> 0]
  /\ due = [s \in Sends |-> FALSE]
  /\ stale = [s \in Sends |-> FALSE]
  /\ copies = [s \in Sends |-> 0]
  /\ filed = [s \in Sends |-> 0]
  /\ events = [s \in Sends |-> {}]
  /\ holder = None
  /\ pc = [w \in Workers |-> "idle"]
  /\ cur = [w \in Workers |-> None]
  /\ batch = [w \in Workers |-> {}]
  /\ faults = 0
-----------------------------------------------------------------------------
(* The API: users and administrators.                                      *)

\* send: the INSERT.  Requests refused before it change nothing here.
Send(s) ==
  /\ status[s] = "absent"
  /\ status' = [status EXCEPT ![s] = "pending"]
  /\ UNCHANGED <<attempts, due, stale, copies, filed, events, holder, tickVars, faults>>

\* Faulty variant: the cancel also takes a row that is being dispatched.
CancelSending(s) ==
  /\ status[s] \in {"pending", "sending"}
  /\ status' = [status EXCEPT ![s] = "cancelled"]
  /\ stale' = [stale EXCEPT ![s] = FALSE]
  /\ UNCHANGED <<attempts, due, copies, filed, events, holder, tickVars, faults>>

\* cancelScheduledSend: UPDATE ... WHERE status = 'pending'.
Cancel(s) ==
  /\ status[s] = "pending"
  /\ status' = [status EXCEPT ![s] = "cancelled"]
  /\ stale' = [stale EXCEPT ![s] = FALSE]
  /\ UNCHANGED <<attempts, due, copies, filed, events, holder, tickVars, faults>>

\* The mailbox is deleted; ON DELETE CASCADE removes the row.
DeleteMailbox(s) ==
  /\ status[s] \notin {"absent", "gone"}
  /\ status' = [status EXCEPT ![s] = "gone"]
  /\ UNCHANGED <<attempts, due, stale, copies, filed, events, holder, tickVars, faults>>
-----------------------------------------------------------------------------
(* The clock.                                                              *)

BecomesDue(s) ==
  /\ status[s] = "pending" /\ ~due[s]
  /\ due' = [due EXCEPT ![s] = TRUE]
  /\ UNCHANGED <<status, attempts, stale, copies, filed, events, holder, tickVars, faults>>

ClaimAges(s) ==
  /\ status[s] = "sending" /\ ~stale[s]
  /\ stale' = [stale EXCEPT ![s] = TRUE]
  /\ UNCHANGED <<status, attempts, due, copies, filed, events, holder, tickVars, faults>>
-----------------------------------------------------------------------------
(* runLocked: one tick of the "send" loop.                                 *)

Goto(w, step) == pc' = [pc EXCEPT ![w] = step]
Drop(w, step) == Goto(w, step) /\ cur' = [cur EXCEPT ![w] = None]

\* Faulty variant: the tick runs without the lock.
TickStartUnlocked(w) ==
  /\ pc[w] = "idle"
  /\ holder' = w
  /\ Goto(w, "claim")
  /\ UNCHANGED <<rows, copies, filed, events, cur, batch, faults>>

\* pg_try_advisory_lock succeeded; a tick that does not get the lock returns.
TickStart(w) ==
  /\ pc[w] = "idle"
  /\ holder = None
  /\ holder' = w
  /\ Goto(w, "claim")
  /\ UNCHANGED <<rows, copies, filed, events, cur, batch, faults>>

\* Faulty variant: the unlock is forgotten.
ReleaseNothing(w) == holder' = holder

Release(w) == holder' = IF holder = w THEN None ELSE holder

\* finally: pg_advisory_unlock.
Unlock(w) ==
  /\ pc[w] = "unlock"
  /\ Release(w)
  /\ Goto(w, "idle")
  /\ UNCHANGED <<rows, copies, filed, events, cur, batch, faults>>

\* Faulty variant: stranded 'sending' rows are not reclaimed.
ClaimablePending(s) == status[s] = "pending" /\ due[s]

Claimable(s) ==
  \/ status[s] = "pending" /\ due[s]
  \/ status[s] = "sending" /\ stale[s]

\* Faulty variant: reclaiming a stranded row does not count as an attempt.
NextAttemptFreeReclaim(s) == IF stale[s] THEN attempts[s] ELSE attempts[s] + 1

\* attempts = attempts + 1, for a first claim and for a reclaim alike.
NextAttempt(s) == attempts[s] + 1

\* The claim: one UPDATE ... WHERE id IN (SELECT ... LIMIT n FOR UPDATE SKIP LOCKED).
Claim(w) ==
  /\ pc[w] = "claim"
  /\ LET claimable == {s \in Sends : Claimable(s)}
         size == IF Cardinality(claimable) < BatchLimit
                   THEN Cardinality(claimable) ELSE BatchLimit
     IN  \E S \in kSubset(size, claimable) :
           /\ status' = [s \in Sends |-> IF s \in S THEN "sending" ELSE status[s]]
           /\ attempts' = [s \in Sends |-> IF s \in S THEN NextAttempt(s) ELSE attempts[s]]
           /\ stale' = [s \in Sends |-> IF s \in S THEN FALSE ELSE stale[s]]
           /\ batch' = [batch EXCEPT ![w] = {Row(s, NextAttempt(s)) : s \in S}]
  /\ Goto(w, "next")
  /\ UNCHANGED <<due, copies, filed, events, holder, cur, faults>>

\* for (const row of rows): take the next row, or leave the loop.
NextRow(w) ==
  /\ pc[w] = "next"
  /\ \/ /\ batch[w] = {}
        /\ Goto(w, "unlock")
        /\ UNCHANGED <<cur, batch>>
     \/ \E r \in batch[w] :
          /\ batch' = [batch EXCEPT ![w] = @ \ {r}]
          /\ cur' = [cur EXCEPT ![w] = r]
          /\ Goto(w, "resolve")
  /\ UNCHANGED <<rows, copies, filed, events, holder, faults>>
-----------------------------------------------------------------------------
(* dispatchScheduled, one await after the other.                           *)

\* open(sealed_password) and resolveStoredAttachments, which may throw.
Resolve(w) ==
  /\ pc[w] = "resolve"
  /\ \E next \in {"smtp", "fail"} : Goto(w, next)
  /\ UNCHANGED <<rows, copies, filed, events, holder, cur, batch, faults>>

\* Faulty variant: an error of sendMail is swallowed.
SmtpIgnoringErrors(w) ==
  /\ pc[w] = "smtp"
  /\ \E n \in {0, 1} : copies' = [copies EXCEPT ![cur[w].id] = @ + n]
  /\ Goto(w, "append")
  /\ UNCHANGED <<rows, filed, events, holder, cur, batch, faults>>

\* transport.sendMail: accepted, refused, or accepted with the reply lost.
Smtp(w) ==
  /\ pc[w] = "smtp"
  /\ LET s == cur[w].id IN
       \/ /\ copies' = [copies EXCEPT ![s] = @ + 1]
          /\ \E next \in {"append", "fail"} : Goto(w, next)
       \/ Goto(w, "fail") /\ UNCHANGED copies
  /\ UNCHANGED <<rows, filed, events, holder, cur, batch, faults>>

\* The append to Sent; its failure is caught and logged.
Append(w) ==
  /\ pc[w] = "append"
  /\ \E done \in {0, 1} : filed' = [filed EXCEPT ![cur[w].id] = @ + done]
  /\ Goto(w, "bust")
  /\ UNCHANGED <<rows, copies, events, holder, cur, batch, faults>>

\* cache.bustMailbox: a Redis error is not caught here and fails the dispatch.
Bust(w) ==
  /\ pc[w] = "bust"
  /\ \E next \in {"record", "fail"} : Goto(w, next)
  /\ UNCHANGED <<rows, copies, filed, events, holder, cur, batch, faults>>
-----------------------------------------------------------------------------
(* The outcome of a row.                                                   *)

\* Faulty variant: the event's name is written as the row's status.
SetStatusToEvent(s, new) ==
  status' = [status EXCEPT ![s] = IF new = "pending" THEN "deferred" ELSE new]

\* UPDATE ... WHERE id = $1: nothing happens to a row that is gone.
SetStatus(s, new) ==
  status' = [status EXCEPT ![s] = IF @ = "gone" THEN @ ELSE new]

\* void webhooks.emit: never awaited, so the event may be lost.
Emit(s, event) ==
  \/ events' = [events EXCEPT ![s] = @ \cup {event}]
  \/ UNCHANGED events

DbError == faults < MaxFaults /\ faults' = faults + 1

\* UPDATE to 'sent'; an error of the UPDATE lands in the catch block.
Record(w) ==
  /\ pc[w] = "record"
  /\ LET s == cur[w].id IN
       \/ /\ SetStatus(s, "sent")
          /\ stale' = [stale EXCEPT ![s] = FALSE]
          /\ Emit(s, "mail.sent")
          /\ Drop(w, "next")
          /\ UNCHANGED faults
       \/ /\ DbError
          /\ Goto(w, "fail")
          /\ UNCHANGED <<status, stale, events, cur>>
  /\ UNCHANGED <<attempts, due, copies, filed, holder, batch>>

\* The catch block, on the attempt count read by the claim.
Exhausted(r) == r.attempts >= MaxAttempts

Fail(w) ==
  /\ pc[w] = "fail"
  /\ LET r == cur[w] IN
       \/ /\ Exhausted(r)
          /\ SetStatus(r.id, "failed")
          /\ Emit(r.id, "mail.bounced")
          /\ UNCHANGED due
       \/ /\ ~Exhausted(r)
          /\ SetStatus(r.id, "pending")
          /\ due' = [due EXCEPT ![r.id] = FALSE]
          /\ Emit(r.id, "mail.deferred")
  /\ stale' = [stale EXCEPT ![cur[w].id] = FALSE]
  /\ Drop(w, "next")
  /\ UNCHANGED <<attempts, copies, filed, holder, batch, faults>>

\* A database error in the claim or in the catch block leaves the tick: the
\* rest of the batch stays 'sending' until the claim timeout.
TickThrows(w) ==
  /\ pc[w] \in {"claim", "fail"}
  /\ DbError
  /\ batch' = [batch EXCEPT ![w] = {}]
  /\ Drop(w, "unlock")
  /\ UNCHANGED <<rows, copies, filed, events, holder>>
-----------------------------------------------------------------------------
(* Faults.                                                                 *)

\* The worker process dies and is restarted; its sessions close.
Crash(w) ==
  /\ pc[w] # "idle"
  /\ faults < MaxFaults
  /\ faults' = faults + 1
  /\ Release(w)
  /\ batch' = [batch EXCEPT ![w] = {}]
  /\ Drop(w, "idle")
  /\ UNCHANGED <<rows, copies, filed, events>>

\* The session that holds the lock ends (failover, broken connection) while
\* the tick runs on.
LockSessionLost(w) ==
  /\ LockMayDrop
  /\ holder = w
  /\ faults < MaxFaults
  /\ faults' = faults + 1
  /\ holder' = None
  /\ UNCHANGED <<rows, copies, filed, events, tickVars>>
-----------------------------------------------------------------------------
Step(w) ==
  \/ Claim(w) \/ NextRow(w) \/ Resolve(w) \/ Smtp(w) \/ Append(w)
  \/ Bust(w) \/ Record(w) \/ Fail(w) \/ Unlock(w)

Next ==
  \/ \E s \in Sends :
       Send(s) \/ Cancel(s) \/ DeleteMailbox(s) \/ BecomesDue(s) \/ ClaimAges(s)
  \/ \E w \in Workers :
       TickStart(w) \/ Step(w) \/ TickThrows(w) \/ Crash(w) \/ LockSessionLost(w)

\* Timers fire, time passes and every await of a live tick returns: SMTP, IMAP,
\* Redis and SQL calls end, with success or with an error.
Fairness ==
  /\ \A s \in Sends : WF_vars(BecomesDue(s)) /\ WF_vars(ClaimAges(s))
  /\ WF_vars(\E w \in Workers : TickStart(w))
  /\ \A w \in Workers : WF_vars(Step(w))

Spec == Init /\ [][Next]_vars

FairSpec == Spec /\ Fairness
-----------------------------------------------------------------------------
(* Properties.                                                             *)

RowType == [id : Sends, attempts : Nat]

TypeOK ==
  /\ status \in [Sends -> Statuses]
  /\ attempts \in [Sends -> Nat]
  /\ due \in [Sends -> BOOLEAN]
  /\ stale \in [Sends -> BOOLEAN]
  /\ copies \in [Sends -> Nat]
  /\ filed \in [Sends -> Nat]
  /\ events \in [Sends -> SUBSET Events]
  /\ holder \in Workers \cup {None}
  /\ pc \in [Workers -> Steps]
  /\ cur \in [Workers -> RowType \cup {None}]
  /\ \A w \in Workers : pc[w] \in DispatchSteps => cur[w] \in RowType
  /\ batch \in [Workers -> SUBSET RowType]
  /\ faults \in 0 .. MaxFaults

\* The claims worker w still has to settle.
Claims(w) ==
  batch[w] \cup {r \in {cur[w]} : pc[w] \in DispatchSteps}

\* A row is never claimed by two live ticks, nor twice by one (the comment of
\* processDueSends: concurrent workers never double dispatch).
OneDispatcher ==
  \A v, w \in Workers : \A p \in Claims(v), q \in Claims(w) :
    p.id = q.id => v = w /\ p = q

\* Duplicates come from retries only: the submission server never accepts more
\* copies of a send than the send has had attempts.
CopiesWithinAttempts == \A s \in Sends : copies[s] <= attempts[s]

\* The Sent folder never holds more copies than were really submitted.
FiledWithinCopies == \A s \in Sends : filed[s] <= copies[s]

\* A send reported as sent has left: status 'sent' and the mail.sent event both
\* mean that the submission server accepted a copy.
SentMeansAccepted ==
  \A s \in Sends :
    status[s] = "sent" \/ "mail.sent" \in events[s] => copies[s] > 0

\* The retry budget: a row goes beyond MaxAttempts only through attempts that a
\* crash or a database error stranded, one for each such fault.
AttemptBudget == \A s \in Sends : attempts[s] <= MaxAttempts + faults

\* A send is given up ('failed', mail.bounced) only after its whole budget.
FailedMeansExhausted ==
  \A s \in Sends :
    status[s] = "failed" \/ "mail.bounced" \in events[s] => attempts[s] >= MaxAttempts

\* The accounts of a send add up, wherever a crash or an error strikes: submitted and
\* filed copies, attempts, and what the user is told.
Accounting ==
  /\ CopiesWithinAttempts /\ FiledWithinCopies /\ SentMeansAccepted
  /\ AttemptBudget /\ FailedMeansExhausted

\* Once settled a send stays settled: no late write of a dispatch revives a
\* sent, failed or cancelled row, and no copy leaves afterwards.
SettledIsFinal ==
  [][\A s \in Sends :
       status[s] \in {"sent", "failed", "cancelled"} =>
         /\ status'[s] \in {status[s], "gone"}
         /\ copies'[s] = copies[s]]_vars

\* Every send the API accepted is settled in the end: no crash, database error
\* or stranded claim leaves it pending or sending for ever.
EverySendSettles ==
  \A s \in Sends :
    status[s] = "pending" ~> status[s] \in {"sent", "failed", "cancelled", "gone"}

\* The advisory lock is always given back: no tick keeps the loop to itself.
LockIsReturned == []<>(holder = None)
-----------------------------------------------------------------------------
(* The promise to the user, and how the table implements it.               *)

Phase(s) ==
  IF status[s] \in {"pending", "sending"} THEN "open" ELSE status[s]

Lifecycle == INSTANCE SendLifecycle
  WITH phase <- [s \in Sends |-> Phase(s)], tries <- attempts, copies <- copies

\* The table and its workers implement the lifecycle of SendLifecycle.
ImplementsLifecycle == Lifecycle!Spec
=============================================================================
