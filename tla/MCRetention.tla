---------------------------- MODULE MCRetention ----------------------------
(* Retention of one Claim, for TLC: workers, hold requests and holds are    *)
(* interchangeable.                                                        *)
EXTENDS Retention, TLC

Symmetry == Permutations(Workers) \cup Permutations(Staff) \cup Permutations(Holds)
============================================================================
