------------------------------ MODULE CaseWork ------------------------------
(***************************************************************************)
(* Who works on a Claim: its owner, the handoff a claimant's request for   *)
(* support opens, cowork and transfer requests, staff work items and the   *)
(* final decision.  Ownership is kept twice, as the Claim's assignee and   *)
(* as the staff member assigned to the active handoff, and read in two     *)
(* orders: the Workbench projection, which decides what a staff member is  *)
(* offered, asks the handoff first, the services ask the Claim first.      *)
(*                                                                         *)
(* Every operation reads the Claim at the revision the staff member's page *)
(* showed and commits, in one transaction, against that same revision.     *)
(* All the records it reads change only together with the revision, so an  *)
(* operation is one action; a stale page is refused and changes nothing.   *)
(* The exception is the external task, which moves without the Claim:      *)
(* returning a Claim to the queue checks it in a step of its own.          *)
(*                                                                         *)
(* There is one Claim.  Requests that were decided, resolved handoffs and  *)
(* messages are history no operation reads, and are left out.              *)
(***************************************************************************)
EXTENDS Naturals, FiniteSets

CONSTANTS
    Staff,        \* claims professionals, each with an online lease when it acts
    NoOne,        \* the absent staff member
    MaxPending    \* bound: collaboration requests pending at a time

ASSUME CaseWorkAssumption == Staff # {} /\ NoOne \notin Staff /\ MaxPending \in Nat

VARIABLES
    phase,        \* "intake", or "completed" once FNOL creation has succeeded
    assignee,     \* the Claim's assignee_id
    decider,      \* who recorded the Claim's decision
    handoff,      \* [status, assigned] of the active handoff, or NoHandoff
    coworkers,    \* staff with active cowork access
    requests,     \* pending [kind, by, owner, target]
    items,        \* [status, holder] of a support item and of the external review
    task,         \* the external task, as staff are concerned with it
    leaving       \* whose check for a return to the queue the revision still backs

caseVars == <<phase, assignee, decider, handoff, coworkers, requests, items, task,
              leaving>>

People == Staff \cup {NoOne}
NoHandoff == [status |-> "none", assigned |-> NoOne]
NoItem == [status |-> "none", holder |-> NoOne]
HandoffType == [status : {"none", "queued", "accepted", "in_progress"}, assigned : People]
ItemStatuses == {"open", "in_progress", "completed", "cancelled"}
ItemType == {NoItem} \cup [status : ItemStatuses, holder : Staff]
RequestType == [kind : {"cowork", "transfer"}, by : Staff, owner : Staff, target : Staff]

\* unknown: unresolved or interrupted; review: failed for good, or its report
\* is not verified.
TaskStatuses == {"absent", "prepared", "unknown", "accepted", "review"}

\* Each record has its type; a work item that exists is held by a member of
\* staff, and a request always names two different people.
CaseTypeOK ==
    /\ phase \in {"intake", "completed"}
    /\ assignee \in People
    /\ decider \in People
    /\ handoff \in HandoffType
    /\ coworkers \subseteq Staff
    /\ requests \subseteq {r \in RequestType : r.owner # r.target}
    /\ items \in [{"support", "review"} -> ItemType]
    /\ task \in TaskStatuses
    /\ leaving \in People

CaseInit ==
    /\ phase = "intake"
    /\ assignee = NoOne
    /\ decider = NoOne
    /\ handoff = NoHandoff
    /\ coworkers = {}
    /\ requests = {}
    /\ items = [k \in {"support", "review"} |-> NoItem]
    /\ task = "absent"
    /\ leaving = NoOne

-----------------------------------------------------------------------------
(* Who owns the Claim, in the two readings, and what that entitles to.      *)

HandoffFirst == IF handoff.assigned # NoOne THEN handoff.assigned ELSE assignee
ClaimFirst == IF assignee # NoOne THEN assignee ELSE handoff.assigned

\* _ownership: current_staff_access of the projection.
ShownAccess(s) ==
    IF s = HandoffFirst THEN "primary"
    ELSE IF s \in coworkers THEN "coworker" ELSE "read_only"

\* claim_staff_access.
Access(s) ==
    IF s = ClaimFirst THEN "primary"
    ELSE IF s \in coworkers THEN "coworker" ELSE "read_only"

\* _external_staff_attention: only a completed review ends the need for one.
NeedsReconciliation == task = "unknown"
NeedsReview == task = "review" /\ items["review"].status # "completed"

\* _allowed_actions offers the full list of actions; a completed Claim
\* without handoff or external attention offers the decision alone.
FullyProjected ==
    \/ phase # "completed"
    \/ handoff # NoHandoff
    \/ NeedsReconciliation
    \/ NeedsReview

Unowned == assignee = NoOne /\ handoff.assigned = NoOne
Undecided == phase = "completed" /\ decider = NoOne
OtherOwner(s) == HandoffFirst \notin {NoOne, s}

-----------------------------------------------------------------------------
(* Taking the Claim.                                                        *)

MayAcceptClaim(s) == Unowned /\ Undecided

AcceptClaim(s) ==
    /\ MayAcceptClaim(s)
    /\ assignee' = s
    /\ leaving' = NoOne
    /\ UNCHANGED <<phase, decider, handoff, coworkers, requests, items, task>>

MayAcceptHandoff(s) ==
    /\ handoff.status = "queued"
    /\ ~OtherOwner(s)
    /\ assignee \in {NoOne, s}

AcceptHandoff(s) ==
    /\ MayAcceptHandoff(s)
    /\ handoff' = [status |-> "accepted", assigned |-> s]
    /\ assignee' = s
    /\ leaving' = NoOne
    /\ UNCHANGED <<phase, decider, coworkers, requests, items, task>>

\* A review that was cancelled is not offered again.
AcceptExternalReview(s) ==
    /\ NeedsReview /\ items["review"] = NoItem
    /\ ~OtherOwner(s)
    /\ assignee \in {NoOne, s}
    /\ items' = [items EXCEPT !["review"] = [status |-> "in_progress", holder |-> s]]
    /\ assignee' = s
    /\ leaving' = NoOne
    /\ UNCHANGED <<phase, decider, handoff, coworkers, requests, task>>

\* The provider's answer settles the task; an inconclusive one changes nothing.
ReconcileExternalResponse(s) ==
    /\ NeedsReconciliation
    /\ ~OtherOwner(s)
    /\ assignee \in {NoOne, s}
    /\ task' = "accepted"
    /\ assignee' = s
    /\ leaving' = NoOne
    /\ UNCHANGED <<phase, decider, handoff, coworkers, requests, items>>

-----------------------------------------------------------------------------
(* Working on it.                                                           *)

SendStaffMessage(s) ==
    /\ handoff.status \in {"accepted", "in_progress"}
    /\ ShownAccess(s) # "read_only"
    /\ s = handoff.assigned \/ s \in coworkers
    /\ handoff' = [handoff EXCEPT !.status = "in_progress"]
    /\ leaving' = NoOne
    /\ UNCHANGED <<phase, assignee, decider, coworkers, requests, items, task>>

MayResolveHandoff(s) ==
    /\ handoff.status \in {"accepted", "in_progress"}
    /\ ShownAccess(s) = "primary"
    /\ handoff.assigned \in {NoOne, s}

ResolveHandoff(s) ==
    /\ MayResolveHandoff(s)
    /\ handoff' = NoHandoff
    /\ leaving' = NoOne
    /\ UNCHANGED <<phase, assignee, decider, coworkers, requests, items, task>>

\* A coworker creates work for itself alone.  One support item at a time.
CreateStaffAction(s, t) ==
    /\ FullyProjected
    /\ ShownAccess(s) # "read_only" /\ Access(s) # "read_only"
    /\ t = assignee \/ t \in coworkers
    /\ Access(s) = "coworker" => t = s
    /\ items["support"] = NoItem
    /\ items' = [items EXCEPT !["support"] = [status |-> "open", holder |-> t]]
    /\ leaving' = NoOne
    /\ UNCHANGED <<phase, assignee, decider, handoff, coworkers, requests, task>>

\* A closed support item is history; a closed review is read again.
Updated(kind, item, status) ==
    IF kind = "support" /\ status \in {"completed", "cancelled"}
    THEN NoItem
    ELSE [item EXCEPT !.status = status]

\* Whoever holds the item updates it, with or without access to the Claim.
UpdateStaffAction(s, kind, status) ==
    /\ FullyProjected
    /\ items[kind].holder = s
    /\ items[kind].status \in {"open", "in_progress"}
    /\ items' = [items EXCEPT ![kind] = Updated(kind, @, status)]
    /\ leaving' = NoOne
    /\ UNCHANGED <<phase, assignee, decider, handoff, coworkers, requests, task>>

MayDecideClaim(s) ==
    /\ Undecided
    /\ Access(s) = "primary" /\ ShownAccess(s) = "primary"

DecideClaim(s) ==
    /\ MayDecideClaim(s)
    /\ decider' = s
    /\ leaving' = NoOne
    /\ UNCHANGED <<phase, assignee, handoff, coworkers, requests, items, task>>

-----------------------------------------------------------------------------
(* Sharing it and handing it on.                                            *)

Pending(kind, t) == \E r \in requests : r.kind = kind /\ r.target = t

Request(kind, s, t) ==
    /\ ~Pending(kind, t)
    /\ Cardinality(requests) < MaxPending
    /\ requests' = requests \cup {[kind |-> kind, by |-> s, owner |-> ClaimFirst, target |-> t]}
    /\ leaving' = NoOne
    /\ UNCHANGED <<phase, assignee, decider, handoff, coworkers, items, task>>

\* The owner invites another; anybody else without access asks for itself.
CreateCoworkRequest(s, t) ==
    /\ FullyProjected
    /\ ClaimFirst # NoOne
    /\ IF s = ClaimFirst
          THEN ShownAccess(s) = "primary" /\ t # s
          ELSE ShownAccess(s) = "read_only" /\ HandoffFirst # NoOne /\ t = s
    /\ t \notin coworkers
    /\ Request("cowork", s, t)

CreateTransferRequest(s, t) ==
    /\ FullyProjected
    /\ ShownAccess(s) = "primary"
    /\ s = ClaimFirst /\ t # s
    /\ Request("transfer", s, t)

\* The other participant decides, as they were when the request was made.
ExpectedDecider(r) == IF r.by # r.owner THEN r.owner ELSE r.target

DecideRequest(s, r) ==
    /\ FullyProjected
    /\ r \in requests /\ s = ExpectedDecider(r)
    /\ requests' = requests \ {r}
    /\ leaving' = NoOne
    /\ UNCHANGED <<phase, decider, items, task>>

RejectRequest(s, r) ==
    /\ DecideRequest(s, r)
    /\ UNCHANGED <<assignee, handoff, coworkers>>

AcceptCowork(s, r) ==
    /\ r.kind = "cowork"
    /\ DecideRequest(s, r)
    /\ coworkers' = coworkers \cup {r.target}
    /\ UNCHANGED <<assignee, handoff>>

\* Mutant: the handoff stays behind.
AcceptTransferOfClaim(s, r) ==
    /\ r.kind = "transfer"
    /\ DecideRequest(s, r)
    /\ assignee' = r.target
    /\ coworkers' = {}
    /\ UNCHANGED handoff

\* Mutant: the former owner's coworkers stay.
AcceptTransferWithCoworkers(s, r) ==
    /\ r.kind = "transfer"
    /\ DecideRequest(s, r)
    /\ assignee' = r.target
    /\ handoff' = IF handoff = NoHandoff THEN handoff ELSE [handoff EXCEPT !.assigned = r.target]
    /\ UNCHANGED coworkers

\* A transfer takes the active handoff along, queued or not, and revokes
\* every cowork access.
AcceptTransfer(s, r) ==
    /\ r.kind = "transfer"
    /\ DecideRequest(s, r)
    /\ assignee' = r.target
    /\ handoff' = IF handoff = NoHandoff THEN handoff ELSE [handoff EXCEPT !.assigned = r.target]
    /\ coworkers' = {}

\* requeue_claim reads the work items and the external task ...
CheckRequeue(s) ==
    /\ FullyProjected
    /\ ShownAccess(s) = "primary" /\ s = ClaimFirst
    /\ \A k \in DOMAIN items : items[k].status # "in_progress"
    /\ task \notin {"prepared", "unknown"}
    /\ leaving' = s
    /\ UNCHANGED <<phase, assignee, decider, handoff, coworkers, requests, items, task>>

\* Mutant: the handoff loses its owner and keeps its status.
RequeuedAsItWas == [handoff EXCEPT !.assigned = NoOne]

\* ... and commits unless the Claim's revision has moved, resetting a handoff
\* that was accepted.
Requeued ==
    IF handoff.status \in {"accepted", "in_progress"}
    THEN [status |-> "queued", assigned |-> NoOne]
    ELSE handoff

RequeueClaim(s) ==
    /\ leaving = s
    /\ assignee' = NoOne
    /\ handoff' = Requeued
    /\ coworkers' = {}
    /\ leaving' = NoOne
    /\ UNCHANGED <<phase, decider, requests, items, task>>

-----------------------------------------------------------------------------
(* The claimant, the creation of the external Claim, the external service.  *)

\* While a handoff is active a further request at most raises its urgency.
CreateSupportRequest ==
    /\ handoff = NoHandoff
    /\ handoff' = [status |-> "queued", assigned |-> NoOne]
    /\ leaving' = NoOne
    /\ UNCHANGED <<phase, assignee, decider, coworkers, requests, items, task>>

\* Creation of the external Claim succeeds; a handoff may be open by then.
CompleteFnol ==
    /\ phase = "intake"
    /\ phase' = "completed"
    /\ leaving' = NoOne
    /\ UNCHANGED <<assignee, decider, handoff, coworkers, requests, items, task>>

\* The task is written without the Claim's revision.
TaskSteps == {<<"absent", "prepared">>, <<"prepared", "unknown">>, <<"prepared", "accepted">>,
              <<"prepared", "review">>, <<"unknown", "accepted">>, <<"accepted", "review">>}

MoveTask(to) ==
    /\ <<task, to>> \in TaskSteps
    /\ task' = to
    /\ UNCHANGED <<phase, assignee, decider, handoff, coworkers, requests, items, leaving>>

Work(s) ==
    \/ AcceptClaim(s)
    \/ AcceptHandoff(s)
    \/ AcceptExternalReview(s)
    \/ ReconcileExternalResponse(s)
    \/ SendStaffMessage(s)
    \/ ResolveHandoff(s)
    \/ DecideClaim(s)
    \/ \E t \in Staff : CreateStaffAction(s, t)
    \/ \E kind \in {"support", "review"}, status \in ItemStatuses :
           UpdateStaffAction(s, kind, status)

Collaborate(s) ==
    \/ \E t \in Staff : CreateCoworkRequest(s, t) \/ CreateTransferRequest(s, t)
    \/ \E r \in requests : RejectRequest(s, r) \/ AcceptCowork(s, r) \/ AcceptTransfer(s, r)
    \/ CheckRequeue(s)
    \/ RequeueClaim(s)

CaseNext ==
    \/ \E s \in Staff : Work(s) \/ Collaborate(s)
    \/ CreateSupportRequest
    \/ CompleteFnol
    \/ \E to \in TaskStatuses : MoveTask(to)

CaseSpec == CaseInit /\ [][CaseNext]_caseVars

-----------------------------------------------------------------------------
(* Properties.                                                              *)

\* The two readings of the owner never differ, whatever requests were left
\* over from earlier owners: what the projection offers to the owner, the
\* services do not refuse.  A handoff that was accepted belongs to the
\* Claim's assignee.
OneOwner ==
    /\ HandoffFirst = ClaimFirst
    /\ handoff.status \in {"accepted", "in_progress"} => handoff.assigned = assignee /\ assignee # NoOne

\* An active handoff can always be accepted or resolved by somebody, and a
\* completed Claim can always be taken or decided: no history of transfers
\* and returns to the queue leaves either out of everybody's reach.
NeverStranded ==
    /\ handoff # NoHandoff => \E s \in Staff : MayAcceptHandoff(s) \/ MayResolveHandoff(s)
    /\ Undecided => \E s \in Staff : MayAcceptClaim(s) \/ MayDecideClaim(s)

\* Whoever loses the Claim loses all access to it at once, together with the
\* coworkers it had: when the owner changes, nobody but the new one has access.
LosingOwnershipEndsAccess ==
    [][ClaimFirst # NoOne /\ ClaimFirst' # ClaimFirst
         => \A s \in Staff : Access(s)' # "read_only" => s = ClaimFirst']_caseVars

\* Returning a Claim to the queue releases its ownership (the API's reference
\* table says so of the requeue route).
RequeueReleases ==
    [][(\E s \in Staff : RequeueClaim(s)) => ClaimFirst' = NoOne]_caseVars
=============================================================================
