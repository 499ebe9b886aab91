--------------------------- MODULE MCControlPlane ---------------------------
(* ControlPlane for TLC: administrators and requests are interchangeable.   *)
EXTENDS ControlPlane, TLC

Symmetry == Permutations(Admins) \cup Permutations(Requests)
=============================================================================
