--------------------------- MODULE SendLifecycle ---------------------------
(***************************************************************************)
(* What the webmail promises about one deferred send, without workers,     *)
(* locks, claims or faults.  A send is absent, open (accepted from the     *)
(* user and not yet settled), settled as sent, failed or cancelled, or     *)
(* gone with its mailbox.  Every try hands at most one copy to the mail    *)
(* server, a send is only reported sent after a copy was handed over, only *)
(* reported failed after the retry budget was spent, and nothing leaves    *)
(* once the send is settled.                                               *)
(***************************************************************************)
EXTENDS Naturals

CONSTANTS Sends, MaxAttempts

VARIABLES phase, tries, copies

vars == <<phase, tries, copies>>

Settled == {"sent", "failed", "cancelled"}

Init ==
  /\ phase = [s \in Sends |-> "absent"]
  /\ tries = [s \in Sends |-> 0]
  /\ copies = [s \in Sends |-> 0]

\* The user's send request is accepted.
Accept(s) ==
  /\ phase[s] = "absent"
  /\ phase' = [phase EXCEPT ![s] = "open"]
  /\ UNCHANGED <<tries, copies>>

\* A worker starts one more try for some open sends.
Try(S) ==
  /\ \A s \in S : phase[s] = "open"
  /\ tries' = [s \in Sends |-> IF s \in S THEN tries[s] + 1 ELSE tries[s]]
  /\ UNCHANGED <<phase, copies>>

\* A copy reaches the mail server: at most one per try, and never after the
\* send was settled.
HandOver(s) ==
  /\ phase[s] \in {"open", "gone"}
  /\ copies[s] < tries[s]
  /\ copies' = [copies EXCEPT ![s] = @ + 1]
  /\ UNCHANGED <<phase, tries>>

Settle(s, outcome) ==
  /\ phase[s] = "open"
  /\ outcome = "sent" => copies[s] > 0
  /\ outcome = "failed" => tries[s] >= MaxAttempts
  /\ phase' = [phase EXCEPT ![s] = outcome]
  /\ UNCHANGED <<tries, copies>>

\* The mailbox is deleted and the send with it.
Vanish(s) ==
  /\ phase[s] # "absent"
  /\ phase' = [phase EXCEPT ![s] = "gone"]
  /\ UNCHANGED <<tries, copies>>

Next ==
  \/ \E S \in SUBSET Sends : Try(S)
  \/ \E s \in Sends :
       \/ Accept(s)
       \/ HandOver(s)
       \/ \E outcome \in Settled : Settle(s, outcome)
       \/ Vanish(s)

Spec == Init /\ [][Next]_vars
=============================================================================
