--------------------------- MODULE GroupExpansion ---------------------------
(***************************************************************************)
(* How an LDAP user's role is found: the breadth-first expansion of the    *)
(* groups the user is directly in through the group-of-groups graph, and   *)
(* the highest role mapped to a group found.  The graph comes from the     *)
(* directory and may hold cycles.                                          *)
(***************************************************************************)
EXTENDS Roles, Sequences, FiniteSets, SequencesExt, Relation

CONSTANTS Groups, MaxDirect   \* MaxDirect: longest list of direct groups

VARIABLES
  direct,    \* the groups the user is a direct member of, as listed
  parents,   \* parents[g]: the groups g is itself a direct member of
  queue, seen

vars == <<direct, parents, queue, seen>>

Init ==
  /\ direct \in BoundedSeq(Groups, MaxDirect)
  /\ parents \in [Groups -> SUBSET Groups]
  /\ queue = direct
  /\ seen = {}

\* Faulty variant: a group seen before is skipped without taking it off the queue.
ExpandWithoutShift ==
  LET g == Head(queue) IN
  /\ queue # <<>>
  /\ seen' = seen \cup {g}
  /\ IF g \in seen
       THEN queue' = queue
       ELSE \E order \in SetToSeqs(parents[g] \ seen') : queue' = Tail(queue) \o order
  /\ UNCHANGED <<direct, parents>>

\* One turn of the loop: a group seen before is skipped, a new one is recorded
\* and its unseen parents are queued.
Expand ==
  LET g == Head(queue) IN
  /\ queue # <<>>
  /\ seen' = seen \cup {g}
  /\ IF g \in seen
       THEN queue' = Tail(queue)
       ELSE \E order \in SetToSeqs(parents[g] \ seen') : queue' = Tail(queue) \o order
  /\ UNCHANGED <<direct, parents>>

Next == Expand
Spec == Init /\ [][Next]_vars /\ WF_vars(Next)
-----------------------------------------------------------------------------
Ancestors == TransitiveClosure([g, p \in Groups |-> p \in parents[g]], Groups)

\* The groups the user is in, directly or through nested groups.
Inherited ==
  ToSet(direct) \cup {p \in Groups : \E g \in ToSet(direct) : Ancestors[<<g, p>>]}


\* When the loop ends it has found exactly the groups the user belongs to through
\* any chain of nested groups, so every role mapping resolves as it would on them.
ExpansionIsComplete ==
  queue = <<>> => seen = Inherited

\* A cycle in the directory's groups never keeps the sync from ending.
ExpansionEnded == queue = <<>>
=============================================================================
