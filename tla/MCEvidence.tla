----------------------------- MODULE MCEvidence -----------------------------
EXTENDS Evidence, TLC

\* Workers are interchangeable.
Interchangeable == Permutations(Workers)
=============================================================================
