------------------------ MODULE ScheduledSendsProofs ------------------------
(***************************************************************************)
(* Proofs about ScheduledSends, for any number of sends, workers, attempts *)
(* and faults.                                                             *)
(***************************************************************************)
EXTENDS ScheduledSends, FiniteSetTheorems, TLAPS

\* The claim takes some of the claimable rows.
LEMMA ClaimSubset ==
  ASSUME NEW k, NEW S \in kSubset(k, {s \in Sends : Claimable(s)})
  PROVE  S \subseteq Sends /\ \A s \in S : Claimable(s)
BY DEF kSubset

\* Every action keeps the type invariant.
LEMMA TypeStep == TypeOK /\ [Next]_vars => TypeOK'
<1> USE DEF RowType, DispatchSteps, Steps, Statuses, Events, tickVars, rows
<1> SUFFICES ASSUME TypeOK, [Next]_vars PROVE TypeOK'
  OBVIOUS
<1> USE FaultAssumption
<1>1. ASSUME NEW s \in Sends, Send(s) PROVE TypeOK'
  BY <1>1 DEF TypeOK, Send
<1>2. ASSUME NEW s \in Sends, Cancel(s) PROVE TypeOK'
  BY <1>2 DEF TypeOK, Cancel
<1>3. ASSUME NEW s \in Sends, DeleteMailbox(s) PROVE TypeOK'
  BY <1>3 DEF TypeOK, DeleteMailbox
<1>4. ASSUME NEW s \in Sends, BecomesDue(s) PROVE TypeOK'
  BY <1>4 DEF TypeOK, BecomesDue
<1>5. ASSUME NEW s \in Sends, ClaimAges(s) PROVE TypeOK'
  BY <1>5 DEF TypeOK, ClaimAges
<1>6. ASSUME NEW w \in Workers, TickStart(w) PROVE TypeOK'
  BY <1>6 DEF TypeOK, TickStart, Goto
<1>7. ASSUME NEW w \in Workers, Claim(w) PROVE TypeOK'
  <2>1. PICK S \in SUBSET Sends :
          /\ status' = [s \in Sends |-> IF s \in S THEN "sending" ELSE status[s]]
          /\ attempts' = [s \in Sends |-> IF s \in S THEN attempts[s] + 1 ELSE attempts[s]]
          /\ stale' = [s \in Sends |-> IF s \in S THEN FALSE ELSE stale[s]]
          /\ batch' = [batch EXCEPT ![w] = {Row(s, attempts[s] + 1) : s \in S}]
    BY <1>7, ClaimSubset DEF Claim, NextAttempt
  <2>2. batch' \in [Workers -> SUBSET RowType]
    BY <2>1 DEF TypeOK, Row
  <2>3. status' \in [Sends -> Statuses] /\ attempts' \in [Sends -> Nat]
    BY <2>1 DEF TypeOK
  <2>4. stale' \in [Sends -> BOOLEAN]
    BY <2>1, Zenon DEF TypeOK
  <2>5. QED BY <1>7, <2>2, <2>3, <2>4 DEF TypeOK, Claim, Goto
<1>8. ASSUME NEW w \in Workers, NextRow(w) PROVE TypeOK'
  BY <1>8 DEF TypeOK, NextRow, Goto
<1>9. ASSUME NEW w \in Workers, Resolve(w) PROVE TypeOK'
  BY <1>9 DEF TypeOK, Resolve, Goto
<1>10. ASSUME NEW w \in Workers, Smtp(w) PROVE TypeOK'
  BY <1>10 DEF TypeOK, Smtp, Goto
<1>11. ASSUME NEW w \in Workers, Append(w) PROVE TypeOK'
  BY <1>11 DEF TypeOK, Append, Goto
<1>12. ASSUME NEW w \in Workers, Bust(w) PROVE TypeOK'
  BY <1>12 DEF TypeOK, Bust, Goto
<1>13. ASSUME NEW w \in Workers, Record(w) PROVE TypeOK'
  <2>1. stale' \in [Sends -> BOOLEAN] /\ due' \in [Sends -> BOOLEAN]
    BY <1>13 DEF TypeOK, Record
  <2>2. status' \in [Sends -> Statuses] /\ events' \in [Sends -> SUBSET Events]
    BY <1>13 DEF TypeOK, Record, SetStatus, Emit
  <2>3. QED BY <1>13, <2>1, <2>2 DEF TypeOK, Record, Goto, Drop, DbError
<1>14. ASSUME NEW w \in Workers, Fail(w) PROVE TypeOK'
  <2>1. stale' \in [Sends -> BOOLEAN] /\ due' \in [Sends -> BOOLEAN]
    BY <1>14 DEF TypeOK, Fail
  <2>2. status' \in [Sends -> Statuses] /\ events' \in [Sends -> SUBSET Events]
    BY <1>14 DEF TypeOK, Fail, SetStatus, Emit
  <2>3. QED BY <1>14, <2>1, <2>2 DEF TypeOK, Fail, Goto, Drop
<1>15. ASSUME NEW w \in Workers, Unlock(w) PROVE TypeOK'
  BY <1>15 DEF TypeOK, Unlock, Goto, Release
<1>16. ASSUME NEW w \in Workers, TickThrows(w) PROVE TypeOK'
  BY <1>16 DEF TypeOK, TickThrows, Goto, Drop, DbError
<1>17. ASSUME NEW w \in Workers, Crash(w) PROVE TypeOK'
  BY <1>17 DEF TypeOK, Crash, Goto, Drop, Release
<1>18. ASSUME NEW w \in Workers, LockSessionLost(w) PROVE TypeOK'
  BY <1>18 DEF TypeOK, LockSessionLost
<1>19. CASE UNCHANGED vars
  BY <1>19 DEF TypeOK, vars
<1>20. QED
  BY <1>1, <1>2, <1>3, <1>4, <1>5, <1>6, <1>7, <1>8, <1>9, <1>10, <1>11, <1>12,
     <1>13, <1>14, <1>15, <1>16, <1>17, <1>18, <1>19 DEF Next, Step

LEMMA TypeInit == Init => TypeOK
BY FaultAssumption DEF Init, TypeOK, RowType, DispatchSteps, Steps, Statuses, Events

\* Every variable keeps its type: in particular a tick in a dispatch step always
\* has a row at hand, and only statuses of the CHECK constraint are written.
THEOREM TypeCorrect == Spec => []TypeOK
BY TypeInit, TypeStep, PTL DEF Spec
-----------------------------------------------------------------------------
(* The inductive invariant, for a lock that is not lost under a tick.      *)

\* Only the worker whose session holds the lock is inside a tick.
LockInv == \A w \in Workers : pc[w] # "idle" => holder = w

\* The tick's copies of the claimed rows agree with the table, and a row that is
\* still to be submitted has an attempt for it.
ClaimInv ==
  \A w \in Workers :
    /\ pc[w] \in {"idle", "claim", "unlock"} => batch[w] = {}
    /\ \A r \in batch[w] :
         /\ status[r.id] \in {"sending", "gone"}
         /\ r.attempts = attempts[r.id]
         /\ copies[r.id] < attempts[r.id]
         /\ pc[w] \in DispatchSteps => r.id # cur[w].id
    /\ pc[w] \in DispatchSteps =>
         /\ status[cur[w].id] \in {"sending", "gone"}
         /\ cur[w].attempts = attempts[cur[w].id]
         /\ pc[w] \in {"resolve", "smtp"} => copies[cur[w].id] < attempts[cur[w].id]
         /\ pc[w] \in {"append", "bust", "record"} => copies[cur[w].id] > 0
         /\ pc[w] = "append" => filed[cur[w].id] < copies[cur[w].id]

\* A row no tick is working on.
Unclaimed(s) ==
  \A w \in Workers :
    /\ \A r \in batch[w] : r.id # s
    /\ pc[w] \in DispatchSteps => cur[w].id # s

\* An open row that no tick works on still has an attempt left, counting one
\* extra attempt for each fault.
BudgetInv ==
  \A s \in Sends :
    /\ status[s] = "absent" => attempts[s] = 0
    /\ status[s] = "pending" => attempts[s] < MaxAttempts + faults
    /\ status[s] = "sending" /\ Unclaimed(s) => attempts[s] < MaxAttempts + faults

IInv ==
  /\ TypeOK /\ LockInv /\ ClaimInv /\ BudgetInv
  /\ CopiesWithinAttempts /\ FiledWithinCopies /\ SentMeansAccepted
  /\ AttemptBudget /\ FailedMeansExhausted

\* Every action keeps the inductive invariant.
LEMMA IInvStep ==
  ASSUME ~LockMayDrop, IInv, [Next]_vars
  PROVE  IInv'
<1> USE BudgetAssumption, FaultAssumption, WorkersAssumption
<1> USE DEF IInv, RowType, DispatchSteps, Steps, Statuses, Events, tickVars, rows
<1> DEFINE Counts == /\ CopiesWithinAttempts /\ FiledWithinCopies /\ SentMeansAccepted
                     /\ AttemptBudget /\ FailedMeansExhausted
<1> USE DEF Counts
<1>t. TypeOK'
  BY TypeStep
<1>1. ASSUME NEW s \in Sends, Send(s) PROVE IInv'
  <2>1. LockInv'
    BY <1>1 DEF TypeOK, LockInv, Send
  <2>2. ClaimInv'
    BY <1>1 DEF TypeOK, LockInv, ClaimInv, CopiesWithinAttempts, Send
  <2>3. BudgetInv'
    BY <1>1 DEF TypeOK, LockInv, ClaimInv, BudgetInv, AttemptBudget, Unclaimed, Send
  <2>4. Counts'
    BY <1>1 DEF TypeOK, LockInv, ClaimInv, BudgetInv, CopiesWithinAttempts, FiledWithinCopies,
       SentMeansAccepted, AttemptBudget, FailedMeansExhausted, Send
  <2>5. QED BY <1>t, <2>1, <2>2, <2>3, <2>4
<1>2. ASSUME NEW s \in Sends, Cancel(s) PROVE IInv'
  <2>1. LockInv'
    BY <1>2 DEF TypeOK, LockInv, Cancel
  <2>2. ClaimInv'
    BY <1>2 DEF TypeOK, LockInv, ClaimInv, CopiesWithinAttempts, Cancel
  <2>3. BudgetInv'
    BY <1>2 DEF TypeOK, LockInv, ClaimInv, BudgetInv, AttemptBudget, Unclaimed, Cancel
  <2>4. Counts'
    BY <1>2 DEF TypeOK, LockInv, ClaimInv, BudgetInv, CopiesWithinAttempts, FiledWithinCopies,
       SentMeansAccepted, AttemptBudget, FailedMeansExhausted, Cancel
  <2>5. QED BY <1>t, <2>1, <2>2, <2>3, <2>4
<1>3. ASSUME NEW s \in Sends, DeleteMailbox(s) PROVE IInv'
  <2>1. LockInv'
    BY <1>3 DEF TypeOK, LockInv, DeleteMailbox
  <2>2. ClaimInv'
    BY <1>3 DEF TypeOK, LockInv, ClaimInv, CopiesWithinAttempts, DeleteMailbox
  <2>3. BudgetInv'
    BY <1>3 DEF TypeOK, LockInv, ClaimInv, BudgetInv, AttemptBudget, Unclaimed, DeleteMailbox
  <2>4. Counts'
    BY <1>3 DEF TypeOK, LockInv, ClaimInv, BudgetInv, CopiesWithinAttempts, FiledWithinCopies,
       SentMeansAccepted, AttemptBudget, FailedMeansExhausted, DeleteMailbox
  <2>5. QED BY <1>t, <2>1, <2>2, <2>3, <2>4
<1>4. ASSUME NEW s \in Sends, BecomesDue(s) PROVE IInv'
  <2>1. LockInv'
    BY <1>4 DEF TypeOK, LockInv, BecomesDue
  <2>2. ClaimInv'
    BY <1>4 DEF TypeOK, LockInv, ClaimInv, CopiesWithinAttempts, BecomesDue
  <2>3. BudgetInv'
    BY <1>4 DEF TypeOK, LockInv, ClaimInv, BudgetInv, AttemptBudget, Unclaimed, BecomesDue
  <2>4. Counts'
    BY <1>4 DEF TypeOK, LockInv, ClaimInv, BudgetInv, CopiesWithinAttempts, FiledWithinCopies,
       SentMeansAccepted, AttemptBudget, FailedMeansExhausted, BecomesDue
  <2>5. QED BY <1>t, <2>1, <2>2, <2>3, <2>4
<1>5. ASSUME NEW s \in Sends, ClaimAges(s) PROVE IInv'
  <2>1. LockInv'
    BY <1>5 DEF TypeOK, LockInv, ClaimAges
  <2>2. ClaimInv'
    BY <1>5 DEF TypeOK, LockInv, ClaimInv, CopiesWithinAttempts, ClaimAges
  <2>3. BudgetInv'
    BY <1>5 DEF TypeOK, LockInv, ClaimInv, BudgetInv, AttemptBudget, Unclaimed, ClaimAges
  <2>4. Counts'
    BY <1>5 DEF TypeOK, LockInv, ClaimInv, BudgetInv, CopiesWithinAttempts, FiledWithinCopies,
       SentMeansAccepted, AttemptBudget, FailedMeansExhausted, ClaimAges
  <2>5. QED BY <1>t, <2>1, <2>2, <2>3, <2>4
<1>6. ASSUME NEW w \in Workers, TickStart(w) PROVE IInv'
  <2>1. LockInv'
    BY <1>6 DEF TypeOK, LockInv, TickStart, Goto
  <2>2. ClaimInv'
    BY <1>6 DEF TypeOK, LockInv, ClaimInv, CopiesWithinAttempts, TickStart, Goto
  <2>3. BudgetInv'
    BY <1>6 DEF TypeOK, LockInv, ClaimInv, BudgetInv, AttemptBudget, Unclaimed, TickStart, Goto
  <2>4. Counts'
    BY <1>6 DEF TypeOK, LockInv, ClaimInv, BudgetInv, CopiesWithinAttempts, FiledWithinCopies,
       SentMeansAccepted, AttemptBudget, FailedMeansExhausted, TickStart, Goto
  <2>5. QED BY <1>t, <2>1, <2>2, <2>3, <2>4
<1>7. ASSUME NEW w \in Workers, Claim(w) PROVE IInv'
  <2>1. LockInv'
    BY <1>7 DEF TypeOK, LockInv, Claim, Goto
  <2>2. PICK S \in SUBSET Sends :
          /\ \A s \in S : Claimable(s)
          /\ status' = [s \in Sends |-> IF s \in S THEN "sending" ELSE status[s]]
          /\ attempts' = [s \in Sends |-> IF s \in S THEN attempts[s] + 1 ELSE attempts[s]]
          /\ batch' = [batch EXCEPT ![w] = {Row(s, attempts[s] + 1) : s \in S}]
    BY <1>7, ClaimSubset DEF Claim, NextAttempt
  <2>3. pc[w] = "claim" /\ pc' = [pc EXCEPT ![w] = "next"] /\ UNCHANGED <<cur, copies, filed, events, faults>>
    BY <1>7 DEF Claim, Goto
  <2>4. \A v \in Workers \ {w} : pc[v] = "idle" /\ pc'[v] = "idle" /\ batch'[v] = {}
    BY <2>2, <2>3 DEF TypeOK, LockInv, ClaimInv
  <2>5. \A r \in batch'[w] : r.id \in S /\ r.attempts = attempts'[r.id]
    BY <2>2 DEF TypeOK, Row
  <2>6. \A s \in S : \E r \in batch'[w] : r.id = s
    <3>1. \A s \in S : Row(s, attempts[s] + 1) \in batch'[w]
      BY <2>2 DEF TypeOK
    <3>2. QED BY <3>1 DEF Row
  <2>7. pc'[w] = "next"
    BY <2>3 DEF TypeOK
  <2>8. ClaimInv'
    BY <2>2, <2>3, <2>4, <2>5, <2>7 DEF TypeOK, ClaimInv, CopiesWithinAttempts
  <2>9. ASSUME NEW s \in Sends, s \notin S, Unclaimed(s)' PROVE Unclaimed(s)
    BY <2>3, <2>4, <2>9 DEF Unclaimed, TypeOK, ClaimInv
  <2>10. \A s \in S : status[s] \in {"pending", "sending"} /\ attempts[s] < MaxAttempts + faults
    <3>1. \A s \in S : status[s] = "sending" => Unclaimed(s)
      BY <2>3, <2>4 DEF TypeOK, ClaimInv, LockInv, Unclaimed
    <3>2. QED BY <2>2, <3>1 DEF Claimable, BudgetInv
  <2>11. BudgetInv'
    <3>1. \A s \in Sends : Unclaimed(s)' => s \notin S
      BY <2>6 DEF Unclaimed
    <3>2. QED BY <2>2, <2>3, <2>9, <3>1 DEF TypeOK, BudgetInv
  <2>12. Counts'
    BY <2>2, <2>3, <2>10 DEF TypeOK, CopiesWithinAttempts, FiledWithinCopies,
       SentMeansAccepted, AttemptBudget, FailedMeansExhausted
  <2>13. QED BY <1>t, <2>1, <2>8, <2>11, <2>12
<1>8. ASSUME NEW w \in Workers, NextRow(w) PROVE IInv'
  <2>1. LockInv'
    BY <1>8 DEF TypeOK, LockInv, NextRow, Goto
  <2>2. ClaimInv'
    BY <1>8 DEF TypeOK, LockInv, ClaimInv, CopiesWithinAttempts, NextRow, Goto
  <2>3. BudgetInv'
    BY <1>8 DEF TypeOK, LockInv, ClaimInv, BudgetInv, AttemptBudget, Unclaimed, NextRow, Goto
  <2>4. Counts'
    BY <1>8 DEF TypeOK, LockInv, ClaimInv, BudgetInv, CopiesWithinAttempts, FiledWithinCopies,
       SentMeansAccepted, AttemptBudget, FailedMeansExhausted, NextRow, Goto
  <2>5. QED BY <1>t, <2>1, <2>2, <2>3, <2>4
<1>9. ASSUME NEW w \in Workers, Resolve(w) PROVE IInv'
  <2>1. LockInv'
    BY <1>9 DEF TypeOK, LockInv, Resolve, Goto
  <2>2. ClaimInv'
    BY <1>9 DEF TypeOK, LockInv, ClaimInv, CopiesWithinAttempts, Resolve, Goto
  <2>3. BudgetInv'
    BY <1>9 DEF TypeOK, LockInv, ClaimInv, BudgetInv, AttemptBudget, Unclaimed, Resolve, Goto
  <2>4. Counts'
    BY <1>9 DEF TypeOK, LockInv, ClaimInv, BudgetInv, CopiesWithinAttempts, FiledWithinCopies,
       SentMeansAccepted, AttemptBudget, FailedMeansExhausted, Resolve, Goto
  <2>5. QED BY <1>t, <2>1, <2>2, <2>3, <2>4
<1>10. ASSUME NEW w \in Workers, Smtp(w) PROVE IInv'
  <2>1. LockInv'
    BY <1>10 DEF TypeOK, LockInv, Smtp, Goto
  <2>2. ClaimInv'
    BY <1>10 DEF TypeOK, LockInv, ClaimInv, CopiesWithinAttempts, FiledWithinCopies, Smtp, Goto
  <2>3. BudgetInv'
    BY <1>10 DEF TypeOK, LockInv, ClaimInv, BudgetInv, AttemptBudget, Unclaimed, Smtp, Goto
  <2>4. Counts'
    BY <1>10 DEF TypeOK, LockInv, ClaimInv, BudgetInv, CopiesWithinAttempts, FiledWithinCopies,
       SentMeansAccepted, AttemptBudget, FailedMeansExhausted, Smtp, Goto
  <2>5. QED BY <1>t, <2>1, <2>2, <2>3, <2>4
<1>11. ASSUME NEW w \in Workers, Append(w) PROVE IInv'
  <2>1. LockInv'
    BY <1>11 DEF TypeOK, LockInv, Append, Goto
  <2>2. ClaimInv'
    BY <1>11 DEF TypeOK, LockInv, ClaimInv, CopiesWithinAttempts, Append, Goto
  <2>3. BudgetInv'
    BY <1>11 DEF TypeOK, LockInv, ClaimInv, BudgetInv, AttemptBudget, Unclaimed, Append, Goto
  <2>4. Counts'
    BY <1>11 DEF TypeOK, LockInv, ClaimInv, BudgetInv, CopiesWithinAttempts, FiledWithinCopies,
       SentMeansAccepted, AttemptBudget, FailedMeansExhausted, Append, Goto
  <2>5. QED BY <1>t, <2>1, <2>2, <2>3, <2>4
<1>12. ASSUME NEW w \in Workers, Bust(w) PROVE IInv'
  <2>1. LockInv'
    BY <1>12 DEF TypeOK, LockInv, Bust, Goto
  <2>2. ClaimInv'
    BY <1>12 DEF TypeOK, LockInv, ClaimInv, CopiesWithinAttempts, Bust, Goto
  <2>3. BudgetInv'
    BY <1>12 DEF TypeOK, LockInv, ClaimInv, BudgetInv, AttemptBudget, Unclaimed, Bust, Goto
  <2>4. Counts'
    BY <1>12 DEF TypeOK, LockInv, ClaimInv, BudgetInv, CopiesWithinAttempts, FiledWithinCopies,
       SentMeansAccepted, AttemptBudget, FailedMeansExhausted, Bust, Goto
  <2>5. QED BY <1>t, <2>1, <2>2, <2>3, <2>4
<1>13. ASSUME NEW w \in Workers, Record(w) PROVE IInv'
  <2>1. LockInv'
    BY <1>13 DEF TypeOK, LockInv, Record, Goto, Drop, SetStatus, Emit, DbError
  <2>2. ClaimInv'
    BY <1>13 DEF TypeOK, LockInv, ClaimInv, CopiesWithinAttempts, Record, Goto, Drop, SetStatus, Emit, DbError
  <2>3. BudgetInv'
    BY <1>13 DEF TypeOK, LockInv, ClaimInv, BudgetInv, AttemptBudget, Unclaimed, Record, Goto, Drop, SetStatus, Emit, DbError
  <2>4. Counts'
    BY <1>13 DEF TypeOK, LockInv, ClaimInv, BudgetInv, CopiesWithinAttempts, FiledWithinCopies,
       SentMeansAccepted, AttemptBudget, FailedMeansExhausted, Record, Goto, Drop, SetStatus, Emit, DbError
  <2>5. QED BY <1>t, <2>1, <2>2, <2>3, <2>4
<1>14. ASSUME NEW w \in Workers, Fail(w) PROVE IInv'
  <2>1. LockInv'
    BY <1>14 DEF TypeOK, LockInv, Fail, Goto, Drop, SetStatus, Emit, Exhausted
  <2>2. ClaimInv'
    BY <1>14 DEF TypeOK, LockInv, ClaimInv, CopiesWithinAttempts, Fail, Goto, Drop, SetStatus, Emit, Exhausted
  <2>3. BudgetInv'
    BY <1>14 DEF TypeOK, LockInv, ClaimInv, BudgetInv, AttemptBudget, Unclaimed, Fail, Goto, Drop, SetStatus, Emit, Exhausted
  <2>4. Counts'
    BY <1>14 DEF TypeOK, LockInv, ClaimInv, BudgetInv, CopiesWithinAttempts, FiledWithinCopies,
       SentMeansAccepted, AttemptBudget, FailedMeansExhausted, Fail, Goto, Drop, SetStatus, Emit, Exhausted
  <2>5. QED BY <1>t, <2>1, <2>2, <2>3, <2>4
<1>15. ASSUME NEW w \in Workers, Unlock(w) PROVE IInv'
  <2>1. LockInv'
    BY <1>15 DEF TypeOK, LockInv, Unlock, Goto, Release
  <2>2. ClaimInv'
    BY <1>15 DEF TypeOK, LockInv, ClaimInv, CopiesWithinAttempts, Unlock, Goto, Release
  <2>3. BudgetInv'
    BY <1>15 DEF TypeOK, LockInv, ClaimInv, BudgetInv, AttemptBudget, Unclaimed, Unlock, Goto, Release
  <2>4. Counts'
    BY <1>15 DEF TypeOK, LockInv, ClaimInv, BudgetInv, CopiesWithinAttempts, FiledWithinCopies,
       SentMeansAccepted, AttemptBudget, FailedMeansExhausted, Unlock, Goto, Release
  <2>5. QED BY <1>t, <2>1, <2>2, <2>3, <2>4
<1>16. ASSUME NEW w \in Workers, TickThrows(w) PROVE IInv'
  <2>1. LockInv'
    BY <1>16 DEF TypeOK, LockInv, TickThrows, Goto, Drop, DbError
  <2>2. ClaimInv'
    BY <1>16 DEF TypeOK, LockInv, ClaimInv, CopiesWithinAttempts, TickThrows, Goto, Drop, DbError
  <2>3. BudgetInv'
    BY <1>16 DEF TypeOK, LockInv, ClaimInv, BudgetInv, AttemptBudget, Unclaimed, TickThrows, Goto, Drop, DbError
  <2>4. Counts'
    BY <1>16 DEF TypeOK, LockInv, ClaimInv, BudgetInv, CopiesWithinAttempts, FiledWithinCopies,
       SentMeansAccepted, AttemptBudget, FailedMeansExhausted, TickThrows, Goto, Drop, DbError
  <2>5. QED BY <1>t, <2>1, <2>2, <2>3, <2>4
<1>17. ASSUME NEW w \in Workers, Crash(w) PROVE IInv'
  <2>1. LockInv'
    BY <1>17 DEF TypeOK, LockInv, Crash, Goto, Drop, Release
  <2>2. ClaimInv'
    BY <1>17 DEF TypeOK, LockInv, ClaimInv, CopiesWithinAttempts, Crash, Goto, Drop, Release
  <2>3. BudgetInv'
    BY <1>17 DEF TypeOK, LockInv, ClaimInv, BudgetInv, AttemptBudget, Unclaimed, Crash, Goto, Drop, Release
  <2>4. Counts'
    BY <1>17 DEF TypeOK, LockInv, ClaimInv, BudgetInv, CopiesWithinAttempts, FiledWithinCopies,
       SentMeansAccepted, AttemptBudget, FailedMeansExhausted, Crash, Goto, Drop, Release
  <2>5. QED BY <1>t, <2>1, <2>2, <2>3, <2>4
<1>18. ASSUME NEW w \in Workers, LockSessionLost(w) PROVE IInv'
  <2>1. LockInv'
    BY <1>18 DEF TypeOK, LockInv, LockSessionLost
  <2>2. ClaimInv'
    BY <1>18 DEF TypeOK, LockInv, ClaimInv, CopiesWithinAttempts, LockSessionLost
  <2>3. BudgetInv'
    BY <1>18 DEF TypeOK, LockInv, ClaimInv, BudgetInv, AttemptBudget, Unclaimed, LockSessionLost
  <2>4. Counts'
    BY <1>18 DEF TypeOK, LockInv, ClaimInv, BudgetInv, CopiesWithinAttempts, FiledWithinCopies,
       SentMeansAccepted, AttemptBudget, FailedMeansExhausted, LockSessionLost
  <2>5. QED BY <1>t, <2>1, <2>2, <2>3, <2>4
<1>19. CASE UNCHANGED vars
  BY <1>19, <1>t DEF vars, LockInv, ClaimInv, BudgetInv, Unclaimed, CopiesWithinAttempts,
     FiledWithinCopies, SentMeansAccepted, AttemptBudget, FailedMeansExhausted
<1>20. QED
  BY <1>1, <1>2, <1>3, <1>4, <1>5, <1>6, <1>7, <1>8, <1>9, <1>10, <1>11, <1>12,
     <1>13, <1>14, <1>15, <1>16, <1>17, <1>18, <1>19 DEF Next, Step

LEMMA IInvInit == Init => IInv
<1> USE BudgetAssumption, FaultAssumption
<1> SUFFICES ASSUME Init PROVE IInv
  OBVIOUS
<1>1. TypeOK
  BY TypeInit
<1>2. LockInv /\ ClaimInv /\ BudgetInv
  BY DEF Init, LockInv, ClaimInv, BudgetInv, DispatchSteps
<1>3. /\ CopiesWithinAttempts /\ FiledWithinCopies /\ SentMeansAccepted
      /\ AttemptBudget /\ FailedMeansExhausted
  BY DEF Init, CopiesWithinAttempts, FiledWithinCopies, SentMeansAccepted,
     AttemptBudget, FailedMeansExhausted
<1>4. QED BY <1>1, <1>2, <1>3 DEF IInv

\* The inductive invariant holds in every behaviour whose lock session lives as
\* long as its tick.
LEMMA IInvAlways ==
  ASSUME ~LockMayDrop
  PROVE  Spec => []IInv
<1>1. IInv /\ [Next]_vars => IInv'
  BY IInvStep
<1>2. QED BY IInvInit, <1>1, PTL DEF Spec
-----------------------------------------------------------------------------
(* The results.                                                            *)

\* processDueSends never dispatches a row twice at the same time, however many
\* worker replicas tick and wherever they crash, as long as the session that
\* holds the advisory lock lives as long as its tick.
THEOREM NoDoubleDispatch ==
  ASSUME ~LockMayDrop
  PROVE  Spec => []OneDispatcher
<1>1. IInv => OneDispatcher
  <2> SUFFICES ASSUME IInv, NEW v \in Workers, NEW w \in Workers,
                      NEW p \in Claims(v), NEW q \in Claims(w), p.id = q.id
               PROVE  v = w /\ p = q
    BY DEF OneDispatcher
  <2> USE DEF IInv, TypeOK, RowType, DispatchSteps, Claims
  <2>1. v = w
    BY DEF LockInv, ClaimInv
  <2>2. p.attempts = q.attempts
    BY DEF ClaimInv
  <2>3. p \in RowType /\ q \in RowType
    OBVIOUS
  <2>4. QED BY <2>1, <2>2, <2>3
<1>2. QED BY IInvAlways, <1>1, PTL

\* Never more copies than attempts, never more copies in Sent than submitted,
\* reports that match what happened, and attempts within the budget plus one
\* per fault.
THEOREM DispatchAccounting ==
  ASSUME ~LockMayDrop
  PROVE  Spec => []Accounting
<1>1. IInv => Accounting
  BY DEF IInv, Accounting
<1>2. QED BY IInvAlways, <1>1, PTL

\* Settled sends: what a step may do to them.
Untouched(s) ==
  status[s] \in {"sent", "failed", "cancelled"} =>
    status'[s] \in {status[s], "gone"} /\ copies'[s] = copies[s]

\* No step of a worker, a user or a fault revives a settled send or submits it
\* again.
THEOREM SettledStaysSettled ==
  ASSUME ~LockMayDrop
  PROVE  Spec => SettledIsFinal
<1>1. IInv /\ [Next]_vars => \A s \in Sends : Untouched(s)
  <2> SUFFICES ASSUME IInv, [Next]_vars, NEW s \in Sends PROVE Untouched(s)
    OBVIOUS
  <2> USE DEF IInv, TypeOK, RowType, DispatchSteps, Steps, rows, tickVars, Untouched
  <2>1. CASE \E x \in Sends : \/ Send(x) \/ Cancel(x) \/ DeleteMailbox(x)
                               \/ BecomesDue(x) \/ ClaimAges(x)
    BY <2>1 DEF Send, Cancel, DeleteMailbox, BecomesDue, ClaimAges
  <2>2. CASE \E w \in Workers : TickStart(w) \/ Unlock(w) \/ NextRow(w) \/ Resolve(w)
                                 \/ Append(w) \/ Bust(w)
    BY <2>2 DEF TickStart, Unlock, NextRow, Resolve, Append, Bust
  <2>3. CASE \E w \in Workers : TickThrows(w) \/ Crash(w) \/ LockSessionLost(w)
    BY <2>3 DEF TickThrows, Crash, LockSessionLost
  <2>4. ASSUME NEW w \in Workers, Claim(w) PROVE Untouched(s)
    <3>1. PICK S \in SUBSET Sends :
            /\ \A x \in S : Claimable(x)
            /\ status' = [x \in Sends |-> IF x \in S THEN "sending" ELSE status[x]]
      BY <2>4, ClaimSubset DEF Claim
    <3>2. copies' = copies
      BY <2>4 DEF Claim
    <3>3. QED BY <3>1, <3>2 DEF Claimable
  <2>5. ASSUME NEW w \in Workers, Smtp(w) \/ Record(w) \/ Fail(w) PROVE Untouched(s)
    BY <2>5 DEF Smtp, Record, Fail, SetStatus, ClaimInv
  <2>6. CASE UNCHANGED vars
    BY <2>6 DEF vars
  <2>7. QED BY <2>1, <2>2, <2>3, <2>4, <2>5, <2>6 DEF Next, Step
<1>2. IInv /\ [Next]_vars =>
        [\A s \in Sends :
           status[s] \in {"sent", "failed", "cancelled"} =>
             /\ status'[s] \in {status[s], "gone"}
             /\ copies'[s] = copies[s]]_vars
  BY <1>1 DEF Untouched
<1>3. QED BY IInvAlways, <1>2, PTL DEF Spec, SettledIsFinal
-----------------------------------------------------------------------------
(* Refinement.                                                             *)

\* scheduled_sends with its workers implements the lifecycle promised to the
\* user: the API's steps are Accept, Settle and Vanish, a claim is a Try, the
\* submission is HandOver, the outcome updates are Settle, and all the rest
\* (locks, retries, crashes, the passing of time) is invisible.
THEOREM ImplementsPromise ==
  ASSUME ~LockMayDrop
  PROVE  Spec => ImplementsLifecycle
<1>1. Init => Lifecycle!Init
  BY DEF Init, Lifecycle!Init, Phase
<1>2. IInv /\ [Next]_vars => [Lifecycle!Next]_(Lifecycle!vars)
  <2> SUFFICES ASSUME IInv, [Next]_vars PROVE [Lifecycle!Next]_(Lifecycle!vars)
    OBVIOUS
  <2> USE DEF IInv, TypeOK, RowType, DispatchSteps, Steps, Statuses, rows, tickVars
  <2>1. ASSUME NEW s \in Sends, Send(s) PROVE Lifecycle!Accept(s)
    BY <2>1 DEF Send, Lifecycle!Accept, Phase
  <2>2. ASSUME NEW s \in Sends, Cancel(s) PROVE Lifecycle!Settle(s, "cancelled")
    BY <2>2 DEF Cancel, Lifecycle!Settle, Phase
  <2>3. ASSUME NEW s \in Sends, DeleteMailbox(s) PROVE Lifecycle!Vanish(s)
    BY <2>3 DEF DeleteMailbox, Lifecycle!Vanish, Phase
  <2>4. ASSUME UNCHANGED <<status, attempts, copies>> PROVE UNCHANGED Lifecycle!vars
    BY <2>4 DEF Lifecycle!vars, Phase
  <2>5. ASSUME NEW w \in Workers, Claim(w) PROVE \E S \in SUBSET Sends : Lifecycle!Try(S)
    <3>1. PICK S \in SUBSET Sends :
            /\ \A s \in S : Claimable(s)
            /\ status' = [s \in Sends |-> IF s \in S THEN "sending" ELSE status[s]]
            /\ attempts' = [s \in Sends |-> IF s \in S THEN attempts[s] + 1 ELSE attempts[s]]
      BY <2>5, ClaimSubset DEF Claim, NextAttempt
    <3>2. copies' = copies
      BY <2>5 DEF Claim
    <3>3. \A s \in S : Phase(s) = "open"
      BY <3>1 DEF Claimable, Phase
    <3>4. \A s \in Sends : Phase(s)' = Phase(s)
      BY <3>1, <3>3 DEF Phase
    <3>5. Lifecycle!Try(S)
      BY <3>1, <3>2, <3>3, <3>4 DEF Lifecycle!Try
    <3>6. QED BY <3>5
  <2>6. ASSUME NEW w \in Workers, Smtp(w)
        PROVE  (\E s \in Sends : Lifecycle!HandOver(s)) \/ UNCHANGED Lifecycle!vars
    <3>1. CASE copies' = copies
      BY <2>6, <3>1, <2>4 DEF Smtp
    <3>2. CASE copies' = [copies EXCEPT ![cur[w].id] = @ + 1]
      <4>1. cur[w].id \in Sends /\ Phase(cur[w].id) \in {"open", "gone"}
        BY <2>6 DEF Smtp, ClaimInv, Phase
      <4>2. copies[cur[w].id] < attempts[cur[w].id]
        BY <2>6 DEF Smtp, ClaimInv
      <4>3. status' = status /\ attempts' = attempts
        BY <2>6 DEF Smtp
      <4>4. Lifecycle!HandOver(cur[w].id)
        BY <3>2, <4>1, <4>2, <4>3 DEF Lifecycle!HandOver, Phase
      <4>5. QED BY <4>1, <4>4
    <3>3. QED BY <2>6, <3>1, <3>2 DEF Smtp
  <2>7. ASSUME NEW w \in Workers, Record(w)
        PROVE  (\E s \in Sends : Lifecycle!Settle(s, "sent")) \/ UNCHANGED Lifecycle!vars
    <3>1. attempts' = attempts /\ copies' = copies
      BY <2>7 DEF Record
    <3>2. CASE status' = status
      BY <2>4, <3>1, <3>2
    <3>3. CASE status' # status
      <4>1. /\ cur[w].id \in Sends /\ status[cur[w].id] = "sending" /\ copies[cur[w].id] > 0
            /\ status' = [status EXCEPT ![cur[w].id] = "sent"]
        BY <2>7, <3>3 DEF Record, SetStatus, ClaimInv
      <4>2. Lifecycle!Settle(cur[w].id, "sent")
        BY <3>1, <4>1 DEF Lifecycle!Settle, Phase
      <4>3. QED BY <4>1, <4>2
    <3>4. QED BY <3>2, <3>3
  <2>8. ASSUME NEW w \in Workers, Fail(w)
        PROVE  (\E s \in Sends : Lifecycle!Settle(s, "failed")) \/ UNCHANGED Lifecycle!vars
    <3>1. attempts' = attempts /\ copies' = copies
      BY <2>8 DEF Fail
    <3>2. cur[w].id \in Sends /\ status[cur[w].id] \in {"sending", "gone"}
          /\ cur[w].attempts = attempts[cur[w].id]
      BY <2>8 DEF Fail, ClaimInv
    <3>3. CASE status[cur[w].id] = "gone" \/ ~Exhausted(cur[w])
      <4>1. \A s \in Sends : Phase(s)' = Phase(s)
        BY <2>8, <3>2, <3>3 DEF Fail, SetStatus, Phase
      <4>2. QED BY <3>1, <4>1 DEF Lifecycle!vars
    <3>4. CASE status[cur[w].id] = "sending" /\ Exhausted(cur[w])
      <4>1. status' = [status EXCEPT ![cur[w].id] = "failed"]
        BY <2>8, <3>4 DEF Fail, SetStatus
      <4>2. attempts[cur[w].id] >= MaxAttempts
        BY <3>2, <3>4 DEF Exhausted
      <4>3. Lifecycle!Settle(cur[w].id, "failed")
        BY <3>1, <3>2, <3>4, <4>1, <4>2 DEF Lifecycle!Settle, Phase
      <4>4. QED BY <3>2, <4>3
    <3>5. QED BY <3>2, <3>3, <3>4
  <2>9. ASSUME NEW s \in Sends, BecomesDue(s) \/ ClaimAges(s)
        PROVE  UNCHANGED <<status, attempts, copies>>
    BY <2>9 DEF BecomesDue, ClaimAges
  <2>10. ASSUME NEW w \in Workers,
                \/ TickStart(w) \/ NextRow(w) \/ Resolve(w) \/ Append(w) \/ Bust(w)
                \/ Unlock(w) \/ TickThrows(w) \/ Crash(w) \/ LockSessionLost(w)
         PROVE  UNCHANGED <<status, attempts, copies>>
    BY <2>10 DEF TickStart, NextRow, Resolve, Append, Bust, Unlock, TickThrows, Crash,
       LockSessionLost
  <2>11. CASE UNCHANGED vars
    BY <2>4, <2>11 DEF vars
  <2>12. QED
    BY <2>1, <2>2, <2>3, <2>4, <2>5, <2>6, <2>7, <2>8, <2>9, <2>10, <2>11
       DEF Next, Step, Lifecycle!Next, Lifecycle!Settled
<1>3. QED BY IInvAlways, <1>1, <1>2, PTL DEF Spec, ImplementsLifecycle, Lifecycle!Spec

-----------------------------------------------------------------------------
(* Copies and attempts when the lock may be lost.                          *)

\* Worker w has claimed s and may still submit it for that claim.
Owes(w, s) ==
  \/ \E r \in batch[w] : r.id = s
  \/ pc[w] \in {"resolve", "smtp"} /\ cur[w].id = s
Owing(s) == {w \in Workers : Owes(w, s)}

\* A claim gives a tick each row once.
ClaimedOnce ==
  \A w \in Workers :
    /\ pc[w] \in {"idle", "claim", "unlock"} => batch[w] = {}
    /\ \A p, q \in batch[w] : p.id = q.id => p = q
    /\ pc[w] \in {"resolve", "smtp"} => \A r \in batch[w] : r.id # cur[w].id

\* Each claim is an attempt, of which one copy can come.
CopiesOwed == \A s \in Sends : copies[s] + Cardinality(Owing(s)) <= attempts[s]

CopiesInv == TypeOK /\ ClaimedOnce /\ CopiesOwed

LEMMA OwingFinite == \A s \in Sends : IsFiniteSet(Owing(s)) /\ Cardinality(Owing(s)) \in Nat
  BY WorkersAssumption, FS_Subset, FS_CardinalityType DEF Owing

\* A step that claims nothing and submits nothing.
LEMMA OwesNoMore ==
  ASSUME TypeOK, CopiesOwed, copies' = copies, attempts' = attempts,
         \A w \in Workers, s \in Sends : Owes(w, s)' => Owes(w, s)
  PROVE  CopiesOwed'
<1> SUFFICES ASSUME NEW s \in Sends PROVE copies'[s] + Cardinality(Owing(s)') <= attempts'[s]
  BY DEF CopiesOwed
<1>1. Owing(s)' \subseteq Owing(s)
  BY DEF Owing
<1>2. Cardinality(Owing(s)') \in Nat /\ Cardinality(Owing(s)') <= Cardinality(Owing(s))
  BY <1>1, OwingFinite, FS_Subset, FS_CardinalityType
<1>3. copies[s] \in Nat /\ attempts[s] \in Nat /\ copies[s] + Cardinality(Owing(s)) <= attempts[s]
  BY DEF TypeOK, CopiesOwed
<1>4. QED BY <1>2, <1>3, OwingFinite

LEMMA ClaimedOnceStep ==
  ASSUME TypeOK, ClaimedOnce, [Next]_vars
  PROVE  ClaimedOnce'
<1> USE DEF TypeOK, DispatchSteps, Steps, RowType, rows, tickVars
<1>1. ASSUME NEW s \in Sends, Send(s) \/ Cancel(s) \/ DeleteMailbox(s) \/ BecomesDue(s) \/ ClaimAges(s)
      PROVE  ClaimedOnce'
  BY <1>1 DEF ClaimedOnce, Send, Cancel, DeleteMailbox, BecomesDue, ClaimAges
<1>2. ASSUME NEW w \in Workers, Claim(w) PROVE ClaimedOnce'
  <2>1. PICK S \in SUBSET Sends : batch' = [batch EXCEPT ![w] = {Row(s, attempts[s] + 1) : s \in S}]
    BY <1>2, ClaimSubset DEF Claim, NextAttempt
  <2>2. \A r \in batch'[w] : \E s \in S : r = Row(s, attempts[s] + 1)
    BY <2>1
  <2>3. \A p, q \in batch'[w] : p.id = q.id => p = q
    BY <2>2 DEF Row
  <2>4. /\ pc'[w] = "next" /\ \A v \in Workers \ {w} : pc'[v] = pc[v] /\ batch'[v] = batch[v]
        /\ cur' = cur
    BY <1>2, <2>1 DEF Claim, Goto
  <2>5. QED BY <2>3, <2>4 DEF ClaimedOnce
<1>3. ASSUME NEW w \in Workers, NextRow(w) PROVE ClaimedOnce'
  BY <1>3 DEF ClaimedOnce, NextRow, Goto
<1>4. ASSUME NEW w \in Workers, TickStart(w) \/ Resolve(w) \/ Smtp(w) \/ Append(w) \/ Bust(w) \/ Unlock(w)
      PROVE  ClaimedOnce'
  BY <1>4 DEF ClaimedOnce, TickStart, Resolve, Smtp, Append, Bust, Unlock, Goto
<1>5. ASSUME NEW w \in Workers, Record(w) \/ Fail(w) PROVE ClaimedOnce'
  BY <1>5 DEF ClaimedOnce, Record, Fail, Goto, Drop
<1>6. ASSUME NEW w \in Workers, TickThrows(w) \/ Crash(w) \/ LockSessionLost(w) PROVE ClaimedOnce'
  BY <1>6 DEF ClaimedOnce, TickThrows, Crash, LockSessionLost, Goto, Drop
<1>7. CASE UNCHANGED vars
  BY <1>7 DEF ClaimedOnce, vars
<1>8. QED BY <1>1, <1>2, <1>3, <1>4, <1>5, <1>6, <1>7 DEF Next, Step

LEMMA CopiesOwedStep ==
  ASSUME TypeOK, ClaimedOnce, CopiesOwed, [Next]_vars
  PROVE  CopiesOwed'
<1> USE DEF TypeOK, DispatchSteps, Steps, RowType, rows, tickVars
<1>0. \A s \in Sends : /\ copies[s] \in Nat /\ attempts[s] \in Nat /\ Cardinality(Owing(s)) \in Nat
                       /\ copies[s] + Cardinality(Owing(s)) <= attempts[s]
  BY OwingFinite DEF CopiesOwed
<1>1. ASSUME NEW s \in Sends, Send(s) \/ Cancel(s) \/ DeleteMailbox(s) \/ BecomesDue(s) \/ ClaimAges(s)
      PROVE  CopiesOwed'
  BY <1>1, OwesNoMore DEF Owes, Send, Cancel, DeleteMailbox, BecomesDue, ClaimAges
<1>2. ASSUME NEW w \in Workers, Claim(w) PROVE CopiesOwed'
  <2>1. PICK S \in SUBSET Sends :
          /\ attempts' = [s \in Sends |-> IF s \in S THEN attempts[s] + 1 ELSE attempts[s]]
          /\ batch' = [batch EXCEPT ![w] = {Row(s, attempts[s] + 1) : s \in S}]
    BY <1>2, ClaimSubset DEF Claim, NextAttempt
  <2>2. /\ pc[w] = "claim" /\ batch[w] = {} /\ pc'[w] = "next" /\ copies' = copies /\ cur' = cur
        /\ \A v \in Workers \ {w} : pc'[v] = pc[v] /\ batch'[v] = batch[v]
    BY <1>2, <2>1 DEF Claim, Goto, ClaimedOnce
  <2>3. \A r \in batch'[w] : r.id \in S
    BY <2>1 DEF Row
  <2>4. \A s \in Sends : Owing(s)' \subseteq IF s \in S THEN Owing(s) \cup {w} ELSE Owing(s)
    BY <2>2, <2>3 DEF Owing, Owes
  <2>5. \A s \in Sends : w \notin Owing(s)
    BY <2>2 DEF Owing, Owes
  <2>6. ASSUME NEW s \in Sends PROVE copies'[s] + Cardinality(Owing(s)') <= attempts'[s]
    <3>1. CASE s \in S
      <4>1. IsFiniteSet(Owing(s) \cup {w}) /\ Cardinality(Owing(s) \cup {w}) = Cardinality(Owing(s)) + 1
        BY <2>5, OwingFinite, FS_AddElement
      <4>2. Cardinality(Owing(s)') \in Nat /\ Cardinality(Owing(s)') <= Cardinality(Owing(s)) + 1
        BY <2>4, <3>1, <4>1, FS_Subset, FS_CardinalityType
      <4>3. QED BY <1>0, <2>1, <2>2, <3>1, <4>2
    <3>2. CASE s \notin S
      <4>1. Cardinality(Owing(s)') \in Nat /\ Cardinality(Owing(s)') <= Cardinality(Owing(s))
        BY <2>4, <3>2, OwingFinite, FS_Subset, FS_CardinalityType
      <4>2. QED BY <1>0, <2>1, <2>2, <3>2, <4>1
    <3>3. QED BY <3>1, <3>2
  <2>7. QED BY <2>6 DEF CopiesOwed
<1>3. ASSUME NEW w \in Workers, NextRow(w) PROVE CopiesOwed'
  BY <1>3, OwesNoMore DEF Owes, NextRow, Goto
<1>4. ASSUME NEW w \in Workers, Smtp(w) PROVE CopiesOwed'
  <2>1. PICK s \in Sends : s = cur[w].id
    BY <1>4 DEF Smtp
  <2>2. /\ pc[w] = "smtp" /\ pc'[w] \in {"append", "fail"} /\ attempts' = attempts /\ batch' = batch /\ cur' = cur
        /\ \A v \in Workers \ {w} : pc'[v] = pc[v]
        /\ copies' = copies \/ copies' = [copies EXCEPT ![s] = @ + 1]
    BY <1>4, <2>1 DEF Smtp, Goto
  <2>3. \A v \in Workers, t \in Sends : Owes(v, t)' => Owes(v, t)
    BY <2>2 DEF Owes
  <2>4. w \in Owing(s) /\ w \notin Owing(s)'
    BY <2>1, <2>2 DEF Owing, Owes, ClaimedOnce
  <2>5. CASE copies' = copies
    BY <2>2, <2>3, <2>5, OwesNoMore
  <2>6. CASE copies' = [copies EXCEPT ![s] = @ + 1]
    <3>1. \A t \in Sends : Owing(t)' \subseteq Owing(t)
      BY <2>3 DEF Owing
    <3>2. \A t \in Sends : Cardinality(Owing(t)') \in Nat /\ Cardinality(Owing(t)') <= Cardinality(Owing(t))
      BY <3>1, OwingFinite, FS_Subset, FS_CardinalityType
    <3>3. IsFiniteSet(Owing(s) \ {w}) /\ Cardinality(Owing(s) \ {w}) = Cardinality(Owing(s)) - 1
      BY <2>4, OwingFinite, FS_RemoveElement
    <3>4. Owing(s)' \subseteq Owing(s) \ {w}
      BY <2>4, <3>1
    <3>5. Cardinality(Owing(s)') <= Cardinality(Owing(s)) - 1
      BY <3>3, <3>4, FS_Subset
    <3>6. \A t \in Sends : copies'[t] + Cardinality(Owing(t)') <= attempts[t]
      BY <1>0, <2>6, <3>2, <3>5
    <3>7. QED BY <2>2, <3>6 DEF CopiesOwed
  <2>7. QED BY <2>2, <2>5, <2>6
<1>5. ASSUME NEW w \in Workers, TickStart(w) \/ Resolve(w) \/ Append(w) \/ Bust(w) \/ Unlock(w) PROVE CopiesOwed'
  BY <1>5, OwesNoMore DEF Owes, TickStart, Resolve, Append, Bust, Unlock, Goto
<1>6. ASSUME NEW w \in Workers, Record(w) \/ Fail(w) PROVE CopiesOwed'
  BY <1>6, OwesNoMore DEF Owes, Record, Fail, Goto, Drop
<1>7. ASSUME NEW w \in Workers, TickThrows(w) \/ Crash(w) \/ LockSessionLost(w) PROVE CopiesOwed'
  BY <1>7, OwesNoMore DEF Owes, TickThrows, Crash, LockSessionLost, Goto, Drop
<1>8. CASE UNCHANGED vars
  BY <1>8, OwesNoMore DEF Owes, vars
<1>9. QED BY <1>1, <1>2, <1>3, <1>4, <1>5, <1>6, <1>7, <1>8 DEF Next, Step

\* Even when the session that holds the advisory lock dies under a tick, and two ticks
\* dispatch the same row at once, every copy the submission server accepts is paid for by
\* an attempt of its own: one claim, one attempt, one copy at most.
THEOREM CopiesArePaidFor == Spec => []CopiesWithinAttempts
<1>1. Init => CopiesInv
  <2> SUFFICES ASSUME Init PROVE CopiesInv
    OBVIOUS
  <2>1. TypeOK /\ ClaimedOnce
    BY TypeInit DEF Init, ClaimedOnce
  <2>2. \A s \in Sends : Owing(s) = {} /\ copies[s] = 0 /\ attempts[s] = 0
    BY DEF Init, Owing, Owes
  <2>3. CopiesOwed
    BY <2>2, FS_EmptySet DEF CopiesOwed
  <2>4. QED BY <2>1, <2>3 DEF CopiesInv
<1>2. CopiesInv /\ [Next]_vars => CopiesInv'
  BY TypeStep, ClaimedOnceStep, CopiesOwedStep DEF CopiesInv
<1>3. CopiesInv => CopiesWithinAttempts
  BY OwingFinite DEF CopiesInv, CopiesOwed, CopiesWithinAttempts, TypeOK
<1>4. QED BY <1>1, <1>2, <1>3, PTL DEF Spec
================================================================================
