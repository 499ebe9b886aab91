---------------------------- MODULE MCRepository ----------------------------
EXTENDS Repository, TLC

CallSymmetry == Permutations(Calls)
=============================================================================
