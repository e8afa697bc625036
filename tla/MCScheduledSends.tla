-------------------------- MODULE MCScheduledSends --------------------------
(* ScheduledSends on small instances for TLC.                              *)
EXTENDS ScheduledSends, TLC

Symmetry == Permutations(Sends) \cup Permutations(Workers)
=============================================================================
