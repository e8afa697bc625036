----------------------------- MODULE MCComposer -----------------------------
(* The compose panel minimised and opened again while a call may be lost.  *)
EXTENDS Composer

CONSTANT f1

MCPlans ==
  {[opens |-> 1, revs |-> 1, faults |-> 1, polls |-> 2, signature |-> FALSE, minimise |-> TRUE,
    retarget |-> FALSE, files |-> FALSE, sends |-> FALSE]}
=============================================================================
