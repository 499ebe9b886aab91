--------------------------- MODULE MCMessageTurn ---------------------------
EXTENDS MessageTurn, TLC

\* Threads and keys are interchangeable; messages are not once one of them
\* is an alarm.
Interchangeable == Permutations(Requests) \union Permutations(Keys)
============================================================================
