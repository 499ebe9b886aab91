--------------------------- MODULE ClaimCreation ---------------------------
(***************************************************************************)
(* Creation of one Working Claim in the external claims service.           *)
(*                                                                         *)
(* Two routes end in create_external_claim: the claimant's                 *)
(* POST /claims/{id}/creation (create_claim_from_confirmed_report) and the *)
(* integration service's POST /internal/v1/claims/create.  Handlers run on *)
(* a thread pool, so any number of requests interleave between repository  *)
(* calls; each repository method is one transaction and one step here, and *)
(* the call to the claims service is a step of its own.  A request may     *)
(* stop between any two steps (Crash).                                     *)
(*                                                                         *)
(* A request's fingerprint is the hash of its whole payload; the payload   *)
(* is represented by what distinguishes two payloads of one claim: the     *)
(* idempotency key (the decision identity is a digest of it), the claim    *)
(* revision (which fixes the form and the route) and the version of the    *)
(* evidence snapshot.                                                      *)
(***************************************************************************)
EXTENDS Naturals

CONSTANTS
    Requests,         \* handler threads
    Keys,             \* idempotency keys; decision and operation ids derive from them
    Results,          \* creation statuses the claims service reports
    RetryableCodes,   \* failure codes that may be retried when nothing was submitted
    TerminalCodes,    \* failure codes that need a review
    MaxRevision,      \* bound: other services stop changing the claim at this revision
    MaxCrashes        \* bound on requests that stop half-way

ASSUME CreationConstants ==
    /\ Keys # {}
    /\ Results \subseteq {"created", "pending", "failed"}
    /\ RetryableCodes \subseteq {"timeout", "unavailable"}
    /\ TerminalCodes \subseteq {"access_denied", "malformed", "conflicting"}
    /\ MaxRevision \in Nat \ {0}
    /\ MaxCrashes \in Nat

VARIABLES
    claim,        \* revision, external result, its fingerprint, terminal disposition
    evidence,     \* version of the claim's evidence records
    decisions,    \* key -> resulting_revision of its decision, 0 when absent
    op,           \* the claim's one ClaimCreationOperationRecord, or NoOperation
    idempotency,  \* key -> revision of the remembered response, 0 when absent
    lodged,       \* create requests the claims service acted on (external)
    req,          \* per thread: control point, payload, records read, answer received
    crashes       \* requests stopped so far

vars == <<claim, evidence, decisions, op, idempotency, lodged, req, crashes>>

-----------------------------------------------------------------------------
(* Values.                                                                 *)

NoResult == "none"
FailureCodes == RetryableCodes \cup TerminalCodes \cup {"partial"}
Deliveries == {"not_submitted", "submitted"}

Statuses == {"prepared", "settlement_pending", "accepted", "retryable_failure",
             "terminal_failure", "unknown_outcome"}

Payloads == [key : Keys, revision : Nat, evidence : Nat]

NoOperation == [status |-> "absent"]
NoFailure == "none"

Operations ==
    [payload : Payloads, status : Statuses, delivery : Deliveries,
     failure : FailureCodes \cup {NoFailure}, result : Results \cup {NoResult}]

NoFingerprint == [status |-> "absent"]
Claims ==
    [revision : Nat, external : Results \cup {NoResult},
     fingerprint : Payloads \cup {NoFingerprint},
     terminal : {"none", "completed", "closed"}]

\* What an adapter call hands back: an accepted result, a result that fails
\* validation, a classified failure, an AdapterIdempotencyConflict, or None.
Answers ==
    [kind : {"result", "invalid"}, result : Results]
        \cup [kind : {"failure"}, code : FailureCodes, delivery : Deliveries]
        \cup [kind : {"conflict", "none"}]
NoAnswer == [kind |-> "none"]

ControlPoints ==
    {"idle", "gate", "decide", "snapshot", "load", "lookup", "reconcile", "reconciled",
     "reserve", "recover", "call", "called", "reload", "settle", "remember"}

Threads ==
    [pc : ControlPoints, path : {"claimant", "integration"}, payload : Payloads,
     claim : Claims, op : Operations \cup {NoOperation}, answer : Answers]

\* Mutant: a retryable code is retried whatever is known of its delivery.
ClassifyByCode(code, delivery) ==
    IF code \in TerminalCodes THEN "terminal_failure"
    ELSE IF code \in RetryableCodes THEN "retryable_failure"
    ELSE "unknown_outcome"

\* classify_claim_creation_failure: the one failure classification.
Classify(code, delivery) ==
    IF code \in TerminalCodes THEN "terminal_failure"
    ELSE IF code \in RetryableCodes /\ delivery = "not_submitted" THEN "retryable_failure"
    ELSE "unknown_outcome"

\* The coupling of status, outcome and delivery that validate_state demands of
\* every ClaimCreationOperationRecord.
ValidOperation(o) ==
    CASE o.status = "prepared" -> o.result = NoResult /\ o.failure = NoFailure
      [] o.status \in {"settlement_pending", "accepted"} ->
           o.result # NoResult /\ o.failure = NoFailure /\ o.delivery = "submitted"
      [] OTHER ->
           o.result = NoResult /\ o.failure # NoFailure
           /\ o.status = Classify(o.failure, o.delivery)

\* Mutant: a recorded result may go back to being unknown.
LooseTransitions ==
    [s \in Statuses |->
        CASE s = "prepared" -> {"settlement_pending", "retryable_failure",
                                "terminal_failure", "unknown_outcome"}
          [] s = "retryable_failure" -> {"prepared"}
          [] s \in {"unknown_outcome", "settlement_pending"} ->
               {"settlement_pending", "unknown_outcome", "accepted"}
          [] OTHER -> {}]

\* The allowed status changes of assert_claim_creation_operation_transition.
AllowedTransitions ==
    [s \in Statuses |->
        CASE s = "prepared" -> {"settlement_pending", "retryable_failure",
                                "terminal_failure", "unknown_outcome"}
          [] s = "retryable_failure" -> {"prepared"}
          [] s = "unknown_outcome" -> {"settlement_pending", "unknown_outcome"}
          [] s = "settlement_pending" -> {"accepted"}
          [] OTHER -> {}]

\* assert_claim_creation_operation_transition.  That it revalidates the record
\* changes nothing: TypeOK has every record built here valid.
TransitionPermitted(current, updated) ==
    /\ current # NoOperation
    /\ current.payload = updated.payload
    /\ updated.status \in AllowedTransitions[current.status]

FreshOperation(payload) ==
    [payload |-> payload, status |-> "prepared", delivery |-> "not_submitted",
     failure |-> NoFailure, result |-> NoResult]

NewClaim ==
    [revision |-> 1, external |-> NoResult, fingerprint |-> NoFingerprint, terminal |-> "none"]

\* A thread without a request holds nothing.
IdleThread ==
    [pc |-> "idle", path |-> "claimant",
     payload |-> [key |-> CHOOSE k \in Keys : TRUE, revision |-> 1, evidence |-> 0],
     claim |-> NewClaim, op |-> NoOperation, answer |-> NoAnswer]

\* Thread t moved on to control point pc; a finished request is forgotten.
At(t, pc) == IF pc = "idle" THEN IdleThread ELSE [t EXCEPT !.pc = pc]

Init ==
    /\ claim = NewClaim
    /\ evidence = 0
    /\ decisions = [k \in Keys |-> 0]
    /\ op = NoOperation
    /\ idempotency = [k \in Keys |-> 0]
    /\ lodged = 0
    /\ req = [r \in Requests |-> IdleThread]
    /\ crashes = 0

-----------------------------------------------------------------------------
(* Requests.                                                               *)

Goto(r, pc) == req' = [req EXCEPT ![r] = At(@, pc)]

\* The answer leaves create_external_claim: the claimant route still has to
\* remember its response, the integration route is done.
Answered(r) == IF req[r].path = "claimant" THEN "remember" ELSE "idle"

ClaimantRequest(r) ==
    /\ req[r].pc = "idle"
    /\ \E k \in Keys, rev \in 1..claim.revision :
        req' = [req EXCEPT ![r].pc = "gate", ![r].path = "claimant",
                           ![r].payload = [key |-> k, revision |-> rev, evidence |-> 0]]
    /\ UNCHANGED <<claim, evidence, decisions, op, idempotency, lodged, crashes>>

\* The integration route replays or composes a payload for any revision and
\* evidence snapshot this claim has had.
IntegrationRequest(r, k, rev, snapshot) ==
    /\ req[r].pc = "idle"
    /\ req' = [req EXCEPT ![r].pc = "load", ![r].path = "integration",
                          ![r].payload = [key |-> k, revision |-> rev, evidence |-> snapshot]]
    /\ UNCHANGED <<claim, evidence, decisions, op, idempotency, lodged, crashes>>

\* An unchanged retry of the payload the operation was prepared with.
UnchangedRetry(r) ==
    /\ op # NoOperation
    /\ IntegrationRequest(r, op.payload.key, op.payload.revision, op.payload.evidence)

\* The claimant route finds its own decision on a claim settled for the
\* revision it names, although its response was never remembered.
RecoveredDecision(p) ==
    /\ claim.external # NoResult
    /\ claim.fingerprint.revision = p.revision
    /\ decisions[p.key] # 0

\* create_claim_from_confirmed_report up to the dispatcher's own revision
\* check: the remembered response, the recovered decision, the revision and
\* state guards.  The readiness rules (requirements, handoffs, session,
\* agreement, payout contact) may refuse any request.
Gate(r) ==
    LET p == req[r].payload
        recovered == RecoveredDecision(p)
        ready == claim.revision = p.revision /\ claim.external = NoResult
    IN
    /\ req[r].pc = "gate"
    /\ \/ idempotency[p.key] # 0 /\ Goto(r, "idle")
       \/ idempotency[p.key] = 0 /\ recovered /\ Goto(r, "remember")
       \/ idempotency[p.key] = 0 /\ ~recovered /\ Goto(r, "idle")
       \/ idempotency[p.key] = 0 /\ ~recovered /\ ready /\ Goto(r, "decide")
    /\ UNCHANGED <<claim, evidence, decisions, op, idempotency, lodged, crashes>>

\* save_agent_decision replaces any earlier decision under the same key.
Decide(r) ==
    /\ req[r].pc = "decide"
    /\ decisions' = [decisions EXCEPT ![req[r].payload.key] = req[r].payload.revision]
    /\ Goto(r, "snapshot")
    /\ UNCHANGED <<claim, evidence, op, idempotency, lodged, crashes>>

\* list_evidence fixes the snapshot the payload carries.
Snapshot(r) ==
    /\ req[r].pc = "snapshot"
    /\ req' = [req EXCEPT ![r].pc = "load", ![r].payload.evidence = evidence]
    /\ UNCHANGED <<claim, evidence, decisions, op, idempotency, lodged, crashes>>

\* create_external_claim reads the claim; a claim that already has a result
\* answers an unchanged payload with it and refuses any other.
Load(r) ==
    /\ req[r].pc = "load"
    /\ req' = [req EXCEPT ![r] =
                 At([@ EXCEPT !.claim = claim],
                    IF claim.external = NoResult THEN "lookup"
                    ELSE IF claim.fingerprint = @.payload THEN Answered(r)
                    ELSE "idle")]
    /\ UNCHANGED <<claim, evidence, decisions, op, idempotency, lodged, crashes>>

\* Mutant: a recorded result is not taken up by a retry.
RecoveryWithoutSettlement(p, o) ==
    CASE o.payload # p -> "idle"
      [] o.payload = p /\ o.status \in {"prepared", "unknown_outcome"} -> "reconcile"
      [] o.payload = p /\ o.status = "retryable_failure" -> "reserve"
      [] OTHER -> "idle"

\* _recover_claim_creation_operation: where an existing operation sends the
\* request that found it.
RecoveryPoint(p, o) ==
    CASE o.payload # p -> "idle"
      [] o.payload = p /\ o.status = "settlement_pending" -> "settle"
      [] o.payload = p /\ o.status \in {"prepared", "unknown_outcome"} -> "reconcile"
      [] o.payload = p /\ o.status = "retryable_failure" -> "reserve"
      [] OTHER -> "idle"

\* The operation, the decision and the evidence are read; the request is
\* refused, recovers the existing operation, or goes on to reserve one.
Lookup(r) ==
    LET p == req[r].payload
        c == req[r].claim
        existing == op # NoOperation /\ op.payload.key = p.key
        current == c.terminal = "none" /\ c.revision = p.revision
        point == IF existing THEN RecoveryPoint(p, op) ELSE "reserve"
    IN
    /\ req[r].pc = "lookup"
    /\ req' = [req EXCEPT ![r] =
                 At([@ EXCEPT !.op = IF existing THEN op ELSE NoOperation],
                    IF (~existing /\ ~current) \/ decisions[p.key] # p.revision THEN "idle"
                    ELSE IF point = "reserve" /\ ~(current /\ evidence = p.evidence) THEN "idle"
                    ELSE point)]
    /\ UNCHANGED <<claim, evidence, decisions, op, idempotency, lodged, crashes>>

\* reserve_claim_creation_operation.  One operation exists per claim; a
\* retryable one is prepared again only by a request that had read it, since
\* its creation time and history checks are part of its identity, and may be
\* refused to that request too, when its timestamp is older than the record's.
Reserve(r) ==
    LET p == req[r].payload
        valid == /\ claim.revision = p.revision
                 /\ claim.external = NoResult
                 /\ claim.terminal = "none"
                 /\ decisions[p.key] = p.revision
                 /\ evidence = p.evidence
        reprepared == op # NoOperation /\ op.status = "retryable_failure"
    IN
    /\ req[r].pc = "reserve"
    /\ \/ /\ valid
          /\ \/ op = NoOperation
             \/ reprepared /\ op.payload = p /\ req[r].op # NoOperation
          /\ op' = FreshOperation(p)
          /\ req' = [req EXCEPT ![r].pc = "call", ![r].op = FreshOperation(p)]
       \/ /\ valid
          /\ op # NoOperation /\ ~reprepared /\ op.payload = p
          /\ Goto(r, "recover")
          /\ UNCHANGED op
       \/ /\ \/ ~valid
             \/ op # NoOperation /\ op.payload # p
             \/ reprepared
          /\ Goto(r, "idle")
          /\ UNCHANGED op
    /\ UNCHANGED <<claim, evidence, decisions, idempotency, lodged, crashes>>

\* The loser of a reservation rereads the operation and the claim.
Recover(r) ==
    LET point == RecoveryPoint(req[r].payload, op)
    IN
    /\ req[r].pc = "recover"
    /\ req' = [req EXCEPT ![r] = At([@ EXCEPT !.op = op, !.claim = claim],
                                    IF point = "reserve" THEN "idle" ELSE point)]
    /\ UNCHANGED <<claim, evidence, decisions, op, idempotency, lodged, crashes>>

\* adapter.create_claim.  An attempt observed as not submitted had no effect;
\* any other failure may or may not have had one.
Call(r) ==
    /\ req[r].pc = "call"
    /\ \E a \in Answers \ {NoAnswer} :
        /\ req' = [req EXCEPT ![r].pc = "called", ![r].answer = a]
        /\ lodged' \in CASE a.kind \in {"result", "invalid"} -> {lodged + 1}
                         [] a.kind = "failure" /\ a.delivery = "submitted" -> {lodged, lodged + 1}
                         [] OTHER -> {lodged}
    /\ UNCHANGED <<claim, evidence, decisions, op, idempotency, crashes>>

\* adapter.reconcile_claim: never issues a create request, and returns a
\* result only for a request the service acted on.
Reconcile(r) ==
    /\ req[r].pc = "reconcile"
    /\ \E a \in Answers :
        /\ a.kind \in {"result", "invalid"} => lodged > 0
        /\ req' = [req EXCEPT ![r].pc = "reconciled", ![r].answer = a]
    /\ UNCHANGED <<claim, evidence, decisions, op, idempotency, lodged, crashes>>

\* _record_claim_creation_result builds this record from the one it read.
Recorded(o, result) ==
    [o EXCEPT !.status = "settlement_pending", !.delivery = "submitted",
              !.failure = NoFailure, !.result = result]

\* _unknown_claim_creation_operation.
Unknown(o) ==
    IF o.status = "unknown_outcome" THEN o
    ELSE [o EXCEPT !.status = "unknown_outcome", !.delivery = "submitted", !.failure = "partial"]

Failed(o, code, delivery) ==
    [o EXCEPT !.status = Classify(code, delivery), !.delivery = delivery, !.failure = code]

\* save_claim_creation_operation: the stored record is replaced when the
\* transition from what is stored now is permitted.  The record carries the
\* time at which its thread built it, and a record older than the stored one
\* is refused; that can happen once another thread has written in between,
\* an unknown outcome rewritten as it was included.
SaveOperation(r, updated, pc) ==
    \/ /\ TransitionPermitted(op, updated)
       /\ op' = updated
       /\ req' = [req EXCEPT ![r] = At([@ EXCEPT !.op = updated, !.answer = NoAnswer], pc)]
    \/ /\ \/ ~TransitionPermitted(op, updated)
          \/ op # req[r].op
          \/ op # NoOperation /\ op.status = "unknown_outcome"
       /\ UNCHANGED op
       /\ Goto(r, "idle")

\* The rest of create_external_claim after the create call.  A result is
\* recorded on the operation as reread, which differs from the reserved one
\* only in fields that Recorded replaces.
Called(r) ==
    LET a == req[r].answer
    IN
    /\ req[r].pc = "called"
    /\ \/ /\ a.kind = "result"
          /\ SaveOperation(r, Recorded(req[r].op, a.result), "settle")
       \/ /\ a.kind = "failure"
          /\ SaveOperation(r, Failed(req[r].op, a.code, a.delivery), "idle")
       \/ /\ a.kind \in {"invalid", "conflict"}
          /\ Goto(r, "idle")
          /\ UNCHANGED op
    /\ UNCHANGED <<claim, evidence, decisions, idempotency, lodged, crashes>>

\* The rest of _recover_claim_creation_operation after the reconcile call.
Reconciled(r) ==
    LET a == req[r].answer
    IN
    /\ req[r].pc = "reconciled"
    /\ \/ /\ a.kind = "result"
          /\ SaveOperation(r, Recorded(req[r].op, a.result), "reload")
       \/ /\ a.kind \in {"failure", "none"}
          /\ SaveOperation(r, Unknown(req[r].op), "idle")
       \/ /\ a.kind \in {"invalid", "conflict"}
          /\ Goto(r, "idle")
          /\ UNCHANGED op
    /\ UNCHANGED <<claim, evidence, decisions, idempotency, lodged, crashes>>

\* A recovering request settles against the latest claim.
Reload(r) ==
    /\ req[r].pc = "reload"
    /\ req' = [req EXCEPT ![r].pc = "settle", ![r].claim = claim]
    /\ UNCHANGED <<claim, evidence, decisions, op, idempotency, lodged, crashes>>

\* The preconditions of save_claim_creation_outcome, after those of
\* _settle_recorded_claim_creation on the claim the request had read.
MaySettle(r) ==
    LET o == req[r].op
    IN
    /\ req[r].claim.external = NoResult
    /\ req[r].claim.terminal = "none"
    /\ claim.revision = req[r].claim.revision
    /\ evidence = o.payload.evidence
    /\ TransitionPermitted(op, [o EXCEPT !.status = "accepted"])

\* The claim version that _settle_recorded_claim_creation builds.
SettledClaim(c, o) ==
    [c EXCEPT
       !.external = o.result,
       !.fingerprint = o.payload,
       !.terminal = IF o.result = "created" THEN "completed" ELSE "none",
       !.revision = c.revision + 1]

\* Claim, terminal disposition and operation are written in one transaction.
Settle(r) ==
    LET o == req[r].op
    IN
    /\ req[r].pc = "settle"
    /\ \/ /\ MaySettle(r)
          /\ claim' = SettledClaim(req[r].claim, o)
          /\ op' = [o EXCEPT !.status = "accepted"]
          /\ Goto(r, Answered(r))
       \/ /\ ~MaySettle(r)
          /\ Goto(r, "idle")
          /\ UNCHANGED <<claim, op>>
    /\ UNCHANGED <<evidence, decisions, idempotency, lodged, crashes>>

\* save_idempotency keeps the first response remembered under a key.
Remember(r) ==
    LET p == req[r].payload
    IN
    /\ req[r].pc = "remember"
    /\ idempotency' = IF idempotency[p.key] = 0
                      THEN [idempotency EXCEPT ![p.key] = p.revision]
                      ELSE idempotency
    /\ Goto(r, "idle")
    /\ UNCHANGED <<claim, evidence, decisions, op, lodged, crashes>>

\* The process or the connection goes away between two steps.
Crash(r) ==
    /\ req[r].pc # "idle"
    /\ crashes < MaxCrashes
    /\ crashes' = crashes + 1
    /\ Goto(r, "idle")
    /\ UNCHANGED <<claim, evidence, decisions, op, idempotency, lodged>>

-----------------------------------------------------------------------------
(* The other services that write this claim.                               *)

Advance(c) == [c EXCEPT !.revision = c.revision + 1]

\* Any mutation that advances the claim without touching its evidence.
ClaimMutation ==
    /\ claim.revision < MaxRevision
    /\ claim' = Advance(claim)
    /\ UNCHANGED <<evidence, decisions, op, idempotency, lodged, req, crashes>>

\* save_evidence_mutation advances the claim with its evidence.
EvidenceMutation ==
    /\ claim.revision < MaxRevision
    /\ claim' = Advance(claim)
    /\ evidence' = evidence + 1
    /\ UNCHANGED <<decisions, op, idempotency, lodged, req, crashes>>

\* Recovery expiry, staff abandonment or closure of a claim with no created
\* external Claim.
CloseClaim ==
    /\ claim.revision < MaxRevision
    /\ claim.terminal = "none"
    /\ claim.external # "created"
    /\ claim' = [Advance(claim) EXCEPT !.terminal = "closed"]
    /\ UNCHANGED <<evidence, decisions, op, idempotency, lodged, req, crashes>>

\* claim.reopen clears an abandoned or closed disposition.
ReopenClaim ==
    /\ claim.revision < MaxRevision
    /\ claim.terminal = "closed"
    /\ claim' = [Advance(claim) EXCEPT !.terminal = "none"]
    /\ UNCHANGED <<evidence, decisions, op, idempotency, lodged, req, crashes>>

-----------------------------------------------------------------------------
\* One step of a request already received.
Progress(r) ==
    \/ Gate(r) \/ Decide(r) \/ Snapshot(r) \/ Load(r) \/ Lookup(r)
    \/ Reserve(r) \/ Recover(r) \/ Call(r) \/ Called(r)
    \/ Reconcile(r) \/ Reconciled(r) \/ Reload(r) \/ Settle(r) \/ Remember(r)

Receive(r) ==
    \/ ClaimantRequest(r)
    \/ \E k \in Keys, rev \in 1..claim.revision, snapshot \in 0..evidence :
         IntegrationRequest(r, k, rev, snapshot)

Environment == ClaimMutation \/ EvidenceMutation \/ CloseClaim \/ ReopenClaim

Next ==
    \/ \E r \in Requests : Receive(r) \/ Progress(r) \/ Crash(r)
    \/ Environment

Spec == Init /\ [][Next]_vars

\* A received request runs to its end unless it crashes, and the operation's
\* payload is retried again and again.
Fairness ==
    /\ \A r \in Requests : WF_vars(Progress(r))
    /\ \A r \in Requests : SF_vars(UnchangedRetry(r))

FairSpec == Spec /\ Fairness
-----------------------------------------------------------------------------
(* Properties.                                                             *)

\* Every record has the shape its class declares, including the coupling of
\* status, outcome and delivery that ClaimCreationOperationRecord validates.
TypeOK ==
    /\ claim \in Claims
    /\ evidence \in Nat
    /\ decisions \in [Keys -> Nat]
    /\ op \in Operations \cup {NoOperation}
    /\ op # NoOperation => ValidOperation(op)
    /\ idempotency \in [Keys -> Nat]
    /\ lodged \in Nat
    /\ req \in [Requests -> Threads]
    /\ crashes \in Nat

Lodgement == INSTANCE ClaimLodgement WITH external <- claim.external

\* Creation implements ClaimLodgement: under every interleaving of requests,
\* retries, crashes and lost answers the service acts on at most one create
\* request, and the claim records its outcome once and only afterwards.
LodgedOnce == Lodgement!Spec

\* An operation that a retry may send again (retryable_failure) has never
\* reached the claims service, so the retry cannot duplicate a formal Claim.
RetryableIsUnsubmitted ==
    op # NoOperation /\ op.status = "retryable_failure" => lodged = 0

\* The operation is accepted exactly when the claim carries its result, with
\* the operation's fingerprint: no crash or race leaves one without the other.
AcceptedIffSettled ==
    /\ (claim.external # NoResult) <=> (op # NoOperation /\ op.status = "accepted")
    /\ claim.external # NoResult =>
         claim.fingerprint = op.payload /\ claim.external = op.result

\* A response remembered for replay under a claimant's key was given for the
\* revision the claim was settled for.
RememberedIsSettled ==
    \A k \in Keys : idempotency[k] # 0 =>
        /\ claim.external # NoResult
        /\ claim.fingerprint.revision = idempotency[k]
        /\ decisions[k] # 0

\* A provider result recorded on the operation is never replaced or dropped,
\* whatever a slower thread still writes.
ResultNeverLost ==
    [][op # NoOperation /\ op.result # NoResult =>
          op' # NoOperation /\ op'.result = op.result /\ op'.payload = op.payload]_op

\* Settlement never overwrites a claim version it has not read: the revision
\* advances by one and a closed claim never receives a result.
NoLostUpdate ==
    [][/\ claim'.revision = claim.revision + 1
       /\ claim.terminal = "closed" => claim'.external = claim.external]_claim

Pending == op # NoOperation /\ op.status = "settlement_pending"
Accepted == op # NoOperation /\ op.status = "accepted"
Closed == claim.terminal = "closed"
EvidenceMoved == op # NoOperation /\ evidence # op.payload.evidence
DecisionReplaced == op # NoOperation /\ decisions[op.payload.key] # op.payload.revision

\* A recorded result is settled by unchanged retries unless the claim was
\* closed, its evidence changed, or its decision was replaced meanwhile.
PendingSettles == Pending ~> (Accepted \/ Closed \/ EvidenceMoved \/ DecisionReplaced)

(* What docs/claim-creation-boundary.md states and the code does not do.   *)

\* "A revision conflict leaves the recorded result recoverable, so an
\* unchanged retry settles it": also when the conflicting revision is the
\* evidence's.
SettlesAfterEvidenceChange == Pending ~> (Accepted \/ Closed \/ DecisionReplaced)

\* The same sentence, when the claimant retried under the same key with the
\* refreshed revision in between.
SettlesAfterRefreshedRetry == Pending ~> (Accepted \/ Closed \/ EvidenceMoved)

\* "a definitely unsubmitted timeout or unavailable result transitions the
\* same operation to retryable_failure": the thread that received such an
\* answer leaves the operation retryable.
UnsubmittedBecomesRetryable ==
    [][\A r \in Requests :
         /\ req[r].pc = "called" /\ req'[r].pc # "called" /\ crashes' = crashes
         /\ req[r].answer.kind = "failure"
         /\ req[r].answer.code \in RetryableCodes
         /\ req[r].answer.delivery = "not_submitted"
         => op'.status = "retryable_failure"]_vars

\* "an inconclusive reconciliation remains unknown and preserves the original
\* create-call delivery and failure observations".
ObservationPreserved ==
    [][op # NoOperation /\ op.status = "unknown_outcome" /\ op'.status = "unknown_outcome"
         => op'.failure = op.failure /\ op'.delivery = op.delivery]_op
=============================================================================
