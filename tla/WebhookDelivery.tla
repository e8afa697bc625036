--------------------------- MODULE WebhookDelivery ---------------------------
(***************************************************************************)
(* Outbound webhooks: webhook_endpoints, webhook_deliveries, emit() called *)
(* by every part of the API, and the worker's tick() that posts deliveries *)
(* and records the outcome (webhooks.service.ts), under the "webhooks"     *)
(* advisory lock of worker.ts.                                             *)
(*                                                                         *)
(* A delivery is a pair <<emission, endpoint>>.  Its columns delivered_at  *)
(* and next_attempt_at are one state: "ready" (next_attempt_at <= now()),  *)
(* "later", "delivered", or "dropped" (both NULL).  Deliveries become      *)
(* ready in the order of next_attempt_at, so the sequence ready is the     *)
(* tick's ORDER BY.                                                        *)
(***************************************************************************)
EXTENDS Naturals, Sequences, SequencesExt, FiniteSets

CONSTANTS
  Emissions,    \* calls of emit
  Endpoints,    \* endpoints an administrator may register
  Subscribed,   \* <<emission, endpoint>>: the endpoint lists the event
  Unopenable,   \* endpoints whose secret_enc no longer opens
  Workers,      \* replicas of the worker process
  MAX_ATTEMPTS,
  BatchLimit,   \* LIMIT of tick's SELECT
  MaxFaults,    \* bound on crashes and database errors
  None

\* Assumed of the constants, by the module that gives them values.
SubscribedAssumption == Subscribed \subseteq Emissions \X Endpoints
AttemptsAssumption == MAX_ATTEMPTS \in Nat \ {0} /\ BatchLimit \in Nat \ {0}

Deliveries == Emissions \X Endpoints

VARIABLES
  endpoint,   \* "absent", "live", "deleted"
  failures,   \* webhook_endpoints.failure_count
  state,      \* of each delivery; "none" before INSERT, "gone" after the cascade
  attempts,   \* webhook_deliveries.attempts
  ready,      \* deliveries with next_attempt_at <= now(), oldest first
  received,   \* POSTs that reached the endpoint
  emission,   \* where each call of emit is
  targets,    \* the endpoints emit's SELECT returned
  holder,     \* the worker that holds the "webhooks" lock
  pc,
  todo,       \* the rows the tick has still to post: [id, attempts]
  ok,         \* whether the last POST was answered with a 2xx
  faults

table == <<endpoint, failures, state, attempts, ready>>
emits == <<emission, targets>>
ticks == <<pc, todo, ok>>
vars == <<table, received, emits, holder, ticks, faults>>

Init ==
  /\ endpoint = [e \in Endpoints |-> "absent"]
  /\ failures = [e \in Endpoints |-> 0]
  /\ state = [d \in Deliveries |-> "none"]
  /\ attempts = [d \in Deliveries |-> 0]
  /\ ready = <<>>
  /\ received = [d \in Deliveries |-> 0]
  /\ emission = [m \in Emissions |-> "idle"]
  /\ targets = [m \in Emissions |-> {}]
  /\ holder = None
  /\ pc = [w \in Workers |-> "idle"]
  /\ todo = [w \in Workers |-> <<>>]
  /\ ok = [w \in Workers |-> FALSE]
  /\ faults = 0

Fault == faults < MaxFaults /\ faults' = faults + 1
Without(seq, D) == SelectSeq(seq, LAMBDA d : d \notin D)
-----------------------------------------------------------------------------
(* Administrators.                                                         *)

CreateEndpoint(e) ==
  /\ endpoint[e] = "absent"
  /\ endpoint' = [endpoint EXCEPT ![e] = "live"]
  /\ UNCHANGED <<failures, state, attempts, ready, received, emits, holder, ticks, faults>>

\* DELETE FROM webhook_endpoints; the cascade takes its deliveries.
RemoveEndpoint(e) ==
  /\ endpoint[e] = "live"
  /\ endpoint' = [endpoint EXCEPT ![e] = "deleted"]
  /\ state' = [d \in Deliveries |->
                 IF d[2] = e /\ state[d] # "none" THEN "gone" ELSE state[d]]
  /\ ready' = Without(ready, Emissions \X {e})
  /\ UNCHANGED <<failures, attempts, received, emits, holder, ticks, faults>>
-----------------------------------------------------------------------------
(* emit: a SELECT, then one INSERT for all endpoints.                      *)

EmitSelect(m) ==
  /\ emission[m] = "idle"
  /\ LET found == {e \in Endpoints : endpoint[e] = "live" /\ <<m, e>> \in Subscribed}
     IN  /\ targets' = [targets EXCEPT ![m] = found]
         /\ emission' = [emission EXCEPT ![m] = IF found = {} THEN "done" ELSE "insert"]
  /\ UNCHANGED <<table, received, holder, ticks, faults>>

\* The foreign key of every tuple must exist, else the statement fails as a
\* whole; emit logs the error and returns.
EmitInsert(m) ==
  /\ emission[m] = "insert"
  /\ emission' = [emission EXCEPT ![m] = "done"]
  /\ LET new == {m} \X targets[m] IN
       IF \A e \in targets[m] : endpoint[e] = "live"
         THEN /\ state' = [d \in Deliveries |-> IF d \in new THEN "ready" ELSE state[d]]
              /\ \E order \in SetToSeqs(new) : ready' = ready \o order
         ELSE UNCHANGED <<state, ready>>
  /\ UNCHANGED <<endpoint, failures, attempts, received, targets, holder, ticks, faults>>

\* Any other database error in emit: the event is lost.
EmitFails(m) ==
  /\ emission[m] \in {"idle", "insert"}
  /\ Fault
  /\ emission' = [emission EXCEPT ![m] = "done"]
  /\ targets' = [targets EXCEPT ![m] = {}]
  /\ UNCHANGED <<table, received, holder, ticks>>

\* The retry time of a delivery passes.
BecomesReady(d) ==
  /\ state[d] = "later"
  /\ state' = [state EXCEPT ![d] = "ready"]
  /\ ready' = Append(ready, d)
  /\ UNCHANGED <<endpoint, failures, attempts, received, emits, holder, ticks, faults>>
-----------------------------------------------------------------------------
(* tick, under the lock.                                                   *)

Goto(w, step) == pc' = [pc EXCEPT ![w] = step]

\* Faulty variant: the tick runs without the lock.
TickStartUnlocked(w) ==
  /\ pc[w] = "idle"
  /\ holder' = w
  /\ Goto(w, "select")
  /\ UNCHANGED <<table, received, emits, todo, ok, faults>>

TickStart(w) ==
  /\ pc[w] = "idle"
  /\ holder = None
  /\ holder' = w
  /\ Goto(w, "select")
  /\ UNCHANGED <<table, received, emits, todo, ok, faults>>

\* The SELECT: the oldest ready deliveries, each with the attempts read now.
Select(w) ==
  /\ pc[w] = "select"
  /\ LET n == IF Len(ready) < BatchLimit THEN Len(ready) ELSE BatchLimit
     IN  todo' = [todo EXCEPT ![w] =
                    [i \in 1 .. n |-> [id |-> ready[i], attempts |-> attempts[ready[i]]]]]
  /\ Goto(w, "next")
  /\ UNCHANGED <<table, received, emits, holder, ok, faults>>

Current(w) == Head(todo[w])

\* for (const r of rows): open(secret_enc) is outside the try block, so a secret
\* that does not open throws out of the tick.
NextDelivery(w) ==
  /\ pc[w] = "next"
  /\ \/ todo[w] = <<>> /\ Goto(w, "unlock") /\ UNCHANGED todo
     \/ /\ todo[w] # <<>> /\ Current(w).id[2] \in Unopenable
        /\ todo' = [todo EXCEPT ![w] = <<>>]
        /\ Goto(w, "unlock")
     \/ /\ todo[w] # <<>> /\ Current(w).id[2] \notin Unopenable
        /\ Goto(w, "post") /\ UNCHANGED todo
  /\ UNCHANGED <<table, received, emits, holder, ok, faults>>

\* The guarded fetch: refused or unreachable; received and refused or answered too
\* late; received and answered with a 2xx.
Post(w) ==
  /\ pc[w] = "post"
  /\ \E reached, success \in BOOLEAN :
       /\ success => reached
       /\ ok' = [ok EXCEPT ![w] = success]
       /\ received' = [received EXCEPT ![Current(w).id] = IF reached THEN @ + 1 ELSE @]
  /\ Goto(w, IF ok'[w] THEN "deliver" ELSE "retry")
  /\ UNCHANGED <<table, emits, holder, todo, faults>>

\* The outcome transaction: both UPDATEs match nothing once the endpoint is gone.
Settle(w, new, failureCount) ==
  LET r == Current(w) IN
    /\ IF state[r.id] = "gone"
         THEN UNCHANGED table
         ELSE /\ state' = [state EXCEPT ![r.id] = new]
              /\ attempts' = [attempts EXCEPT ![r.id] = r.attempts + 1]
              /\ ready' = Without(ready, {r.id})
              /\ failures' = [failures EXCEPT ![r.id[2]] = failureCount]
              /\ UNCHANGED endpoint
    /\ todo' = [todo EXCEPT ![w] = Tail(@)]
    /\ ok' = [ok EXCEPT ![w] = FALSE]
    /\ Goto(w, "next")
    /\ UNCHANGED <<received, emits, holder, faults>>

\* delivered_at = now(), next_attempt_at = NULL, failure_count = 0.
Deliver(w) ==
  /\ pc[w] = "deliver"
  /\ Settle(w, "delivered", 0)

LastAttempt(r) == r.attempts + 1 >= MAX_ATTEMPTS

Retry(w) ==
  /\ pc[w] = "retry"
  /\ Settle(w, IF LastAttempt(Current(w)) THEN "dropped" ELSE "later",
            failures[Current(w).id[2]] + 1)

\* Faulty variant: the lock is not given back.
UnlockNothing(w) ==
  /\ pc[w] = "unlock"
  /\ Goto(w, "idle")
  /\ UNCHANGED <<table, received, emits, holder, todo, ok, faults>>

Unlock(w) ==
  /\ pc[w] = "unlock"
  /\ holder' = None
  /\ Goto(w, "idle")
  /\ UNCHANGED <<table, received, emits, todo, ok, faults>>

\* A database error in the SELECT or in an outcome transaction leaves the tick.
TickThrows(w) ==
  /\ pc[w] \in {"select", "deliver", "retry"}
  /\ Fault
  /\ todo' = [todo EXCEPT ![w] = <<>>]
  /\ ok' = [ok EXCEPT ![w] = FALSE]
  /\ Goto(w, "unlock")
  /\ UNCHANGED <<table, received, emits, holder>>

\* The worker process dies and its lock session closes.
Crash(w) ==
  /\ pc[w] # "idle"
  /\ Fault
  /\ holder' = None
  /\ todo' = [todo EXCEPT ![w] = <<>>]
  /\ ok' = [ok EXCEPT ![w] = FALSE]
  /\ Goto(w, "idle")
  /\ UNCHANGED <<table, received, emits>>
-----------------------------------------------------------------------------
Step(w) ==
  Select(w) \/ NextDelivery(w) \/ Post(w) \/ Deliver(w) \/ Retry(w) \/ Unlock(w)

Next ==
  \/ \E e \in Endpoints : CreateEndpoint(e) \/ RemoveEndpoint(e)
  \/ \E m \in Emissions : EmitSelect(m) \/ EmitInsert(m) \/ EmitFails(m)
  \/ \E d \in Deliveries : BecomesReady(d)
  \/ \E w \in Workers : TickStart(w) \/ Step(w) \/ TickThrows(w) \/ Crash(w)

\* Time passes, timers fire and every await of a live tick returns: the fetch
\* has a timeout.
Fairness ==
  /\ \A d \in Deliveries : WF_vars(BecomesReady(d))
  /\ WF_vars(\E w \in Workers : TickStart(w))
  /\ \A w \in Workers : WF_vars(Step(w))

Spec == Init /\ [][Next]_vars
FairSpec == Spec /\ Fairness
-----------------------------------------------------------------------------
(* Properties.                                                             *)

States == {"none", "ready", "later", "delivered", "dropped", "gone"}

TypeOK ==
  /\ endpoint \in [Endpoints -> {"absent", "live", "deleted"}]
  /\ failures \in [Endpoints -> Nat]
  /\ state \in [Deliveries -> States]
  /\ attempts \in [Deliveries -> 0 .. MAX_ATTEMPTS]
  /\ ready \in Seq(Deliveries) /\ IsInjective(ready)
  /\ ToSet(ready) = {d \in Deliveries : state[d] = "ready"}
  /\ received \in [Deliveries -> Nat]
  /\ emission \in [Emissions -> {"idle", "insert", "done"}]
  /\ targets \in [Emissions -> SUBSET Endpoints]
  /\ holder \in Workers \cup {None}
  /\ pc \in [Workers -> {"idle", "select", "next", "post", "deliver", "retry", "unlock"}]
  /\ \A w \in Workers : ToSet(todo[w]) \subseteq [id : Deliveries, attempts : Nat]
  /\ ok \in [Workers -> BOOLEAN]
  /\ faults \in 0 .. MaxFaults

\* A delivery is recorded as delivered only after the endpoint really got it.
DeliveredMeansReceived ==
  \A d \in Deliveries : state[d] = "delivered" => received[d] > 0

\* An endpoint gets at most one POST per recorded attempt, one more while the
\* outcome is not recorded yet, and one for each crash or database error that
\* came between a POST and its record.
PostsBounded ==
  \A d \in Deliveries : state[d] # "gone" =>
    received[d] <= attempts[d] + faults
      + Cardinality({w \in Workers : pc[w] \in {"deliver", "retry"} /\ Current(w).id = d})

\* ... and given up only after MAX_ATTEMPTS recorded attempts.
DroppedMeansExhausted ==
  \A d \in Deliveries : state[d] = "dropped" => attempts[d] = MAX_ATTEMPTS

\* The outcome the console shows is what happened.
OutcomeIsTrue == DeliveredMeansReceived /\ DroppedMeansExhausted

\* The worker's ticks end at a ready delivery whose secret does not open.
Blocked == \E d \in ToSet(ready) : d[2] \in Unopenable

\* tick attempts "every ready delivery": each is settled in the end, whichever step
\* a crash or a database error hits, unless one whose secret does not open is in
\* the queue, which ends every tick at its place.
Ready(d) == state[d] = "ready"
SettledOrBlocked(d) == state[d] \in {"delivered", "dropped", "gone"} \/ Blocked

\* emit: "Emit an event to every subscribed endpoint".  The endpoints emit found
\* all have their delivery, unless one of them was removed.
EmitReachesAll ==
  \A m \in Emissions :
    emission[m] = "done" /\ (\A e \in targets[m] : endpoint[e] = "live")
      => \A e \in targets[m] : state[<<m, e>>] # "none"
=============================================================================
