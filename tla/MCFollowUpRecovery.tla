------------------------- MODULE MCFollowUpRecovery -------------------------
(* FollowUpRecovery for TLC: callers are interchangeable, and so are the   *)
(* workers, in the runs without a liveness property.                       *)
EXTENDS FollowUpRecovery, TLC

Symmetry == Permutations(Workers) \cup Permutations(Callers)
=============================================================================
