----------------------------- MODULE MCRealtime -----------------------------
EXTENDS Realtime, TLC

\* Publishers are interchangeable, and so are browsers of one audience.
Interchangeable ==
  Permutations(Publishers) \union Permutations(Claimants) \union Permutations(Staff)
=============================================================================
