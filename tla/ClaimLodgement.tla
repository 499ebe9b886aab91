--------------------------- MODULE ClaimLodgement ---------------------------
(***************************************************************************)
(* What Claim creation promises, whatever the threads, crashes and lost    *)
(* answers underneath: the claims service acts on at most one create       *)
(* request of a Working Claim, and the Working Claim records the outcome   *)
(* of that request, once, and only after the service has acted on it       *)
(* (docs/claim-creation-boundary.md, "Failure Behaviour").                 *)
(***************************************************************************)
EXTENDS Naturals

CONSTANTS
    Results,    \* creation statuses the claims service may report
    NoResult    \* the Working Claim has no external Claim result

VARIABLES
    lodged,     \* create requests the claims service has acted on
    external    \* the result recorded on the Working Claim

lodgementVars == <<lodged, external>>

Init == lodged = 0 /\ external = NoResult

\* The claims service acts on the create request.
Lodge == lodged = 0 /\ lodged' = 1 /\ UNCHANGED external

\* The Working Claim records what the service answered.
Record ==
    /\ lodged = 1
    /\ external = NoResult
    /\ external' \in Results
    /\ UNCHANGED lodged

Next == Lodge \/ Record

Spec == Init /\ [][Next]_lodgementVars
=============================================================================
