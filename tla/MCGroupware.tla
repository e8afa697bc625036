---------------------------- MODULE MCGroupware ----------------------------
(* Groupware with other clients that store items under names of their own. *)
EXTENDS Groupware

MCPlans ==
  {[kind |-> k, exists |-> 405, sample |-> <<"x">>, calls |-> 3, others |-> 2, failures |-> 0] :
     k \in {"calendar", "contacts"}}
=============================================================================
