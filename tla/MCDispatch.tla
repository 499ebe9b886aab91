----------------------------- MODULE MCDispatch -----------------------------
EXTENDS Dispatch

\* One failure of each class: retryable, unknown, terminal.  An outage is
\* retryable as the timeout before submission is.
OneOfEachClass == [code : {"timeout"}, submitted : BOOLEAN]
    \cup {[code |-> "malformed", submitted |-> TRUE]}
=============================================================================
