-------------------------- MODULE MCClaimCreation --------------------------
(* ClaimCreation for TLC: requests are interchangeable.                    *)
EXTENDS ClaimCreation, TLC

Symmetry == Permutations(Requests)
=============================================================================
