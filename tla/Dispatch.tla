------------------------------ MODULE Dispatch ------------------------------
(***************************************************************************)
(* Assessor routing: one authorised request to an outside assessor, from   *)
(* the claimant's permission to the returned report.  route_assessor       *)
(* writes the operation, the task and the request one after the other,     *)
(* reserves the request by a compare-and-set, calls the provider, records  *)
(* the send, settles operation, task and attempt in one transaction, and   *)
(* then writes the recovery work item, or the awaited material, its link   *)
(* and the routing on the Claim, each in a write of its own.  A caller may *)
(* stop between any two of them.  Staff or the integration service         *)
(* reconcile an unresolved outcome, and the report comes in by receipts.   *)
(*                                                                         *)
(* There is one Claim.  A permission is a number in the order of granting, *)
(* and it names everything derived from it: the authority, the operation,  *)
(* the task, the request, the awaited material and the result.  0 is none. *)
(***************************************************************************)
EXTENDS Integers, FiniteSets, FiniteSetsExt

CONSTANTS
    Callers,        \* concurrent requests to route (claimant or integration)
    Reconcilers,    \* concurrent reconciliations
    Receivers,      \* concurrent receipts of a report
    NConsents,      \* bound: permissions the claimant grants
    Failures,       \* the failures an adapter reports, [code, submitted]
    MaxAttempts,    \* bound: settled attempts before no caller asks afresh
    MaxRevision,    \* bound: Claim revision up to which others change it
    MaxTroubles     \* bound: interrupted processes and failed writes

ASSUME DispatchAssumption ==
    /\ NConsents \in Nat \ {0}
    /\ MaxAttempts \in Nat \ {0}
    /\ MaxRevision \in Nat
    /\ MaxTroubles \in Nat
    /\ Failures \subseteq [code : {"timeout", "unavailable", "malformed"},
                           submitted : BOOLEAN]

VARIABLES
    claim,        \* [revision, routing, bound] of the Claim
    consents,     \* the claimant's permissions
    withdrawal,   \* the permission a checked withdrawal is about to save, or 0
    operation,    \* [status, revision] per permission
    task,         \* [status, submitted, updated]: delivery, order of updated_at
    request,      \* [stored, reserved, named, sent]
    material,     \* [status, receipt, linked] the awaited report
    result,       \* the ingested report's verification
    item,         \* [status, revision] the unknown outcome's work item
    provider,     \* what the assessor service holds of the request
    returned,     \* the receipt the service returned its report to
    caller, reconciler, receiver,
    troubles

vars == <<claim, consents, withdrawal, operation, task, request, material,
          result, item, provider, returned, caller, reconciler, receiver,
          troubles>>
records == <<operation, task, request, material, result, item>>
world == <<provider, returned>>

Consents == 1 .. NConsents
Revisions == 0 .. MaxRevision + 2 * Cardinality(Callers)
Routed == {"assigned", "queued"}
NoReceipt == -1

Statuses == {"none", "prepared", "accepted", "retryable", "terminal", "unknown"}
OperationType == [status : Statuses, revision : Revisions, result : Routed \cup {"none"}]
TaskType == [status : Statuses,
             submitted : BOOLEAN,
             updated : 0 .. MaxAttempts + Cardinality(Callers)]
RequestType == [stored : BOOLEAN, reserved : BOOLEAN, named : BOOLEAN, sent : BOOLEAN]
NoTask == [status |-> "none", submitted |-> FALSE, updated |-> 0]

Answers == Failures \cup [code : Routed \cup {"none", "replay"}, submitted : {TRUE}]
NoAnswer == [code |-> "none", submitted |-> TRUE]
Replay == [code |-> "replay", submitted |-> TRUE]

IdleCaller == [pc |-> "idle", consent |-> 0, revision |-> 0, task |-> NoTask,
               sent |-> FALSE, answer |-> NoAnswer]
IdleReconciler == [pc |-> "idle", consent |-> 0, revision |-> 0]
IdleReceiver == [pc |-> "idle", consent |-> 0, receipt |-> 0, revision |-> 0,
                 bound |-> FALSE, ready |-> FALSE]
Holding(step, k, r) == [IdleReceiver EXCEPT !.pc = step, !.consent = k, !.receipt = r]

TypeOK ==
    /\ claim \in [revision : Revisions, routing : Consents \cup {0},
                  bound : BOOLEAN]
    /\ consents \in [Consents -> {"none", "granted", "withdrawn"}]
    /\ withdrawal \in Consents \cup {0}
    /\ operation \in [Consents -> OperationType]
    /\ task \in [Consents -> TaskType]
    /\ request \in [Consents -> RequestType]
    /\ material \in [Consents -> [status : {"none", "pending", "ready"},
                                  receipt : Revisions \cup {NoReceipt},
                                  linked : BOOLEAN]]
    /\ result \in [Consents -> {"none", "unverified", "verified"}]
    /\ item \in [Consents -> [status : {"none", "open", "completed"},
                              revision : Revisions]]
    /\ provider \in [Consents -> Routed \cup {"none", "refused"}]
    /\ returned \in [Consents -> Revisions \cup {NoReceipt}]
    /\ caller \in [Callers ->
          [pc : {"idle", "prepare", "task", "request", "reserve", "call",
                 "send", "settle", "item", "release", "material", "evidence",
                 "link", "free", "save"},
           consent : Consents \cup {0}, revision : Revisions, task : TaskType,
           sent : BOOLEAN, answer : Answers]]
    /\ reconciler \in [Reconcilers ->
          [pc : {"idle", "ask", "settle", "complete"},
           consent : Consents \cup {0}, revision : Revisions]]
    /\ receiver \in [Receivers ->
          [pc : {"idle", "ask", "arrive", "bind", "result", "verify"},
           consent : Consents \cup {0}, receipt : Revisions,
           revision : Revisions, bound : BOOLEAN, ready : BOOLEAN]]
    /\ troubles \in 0 .. MaxTroubles

Init ==
    /\ claim = [revision |-> 0, routing |-> 0, bound |-> FALSE]
    /\ consents = [k \in Consents |-> "none"]
    /\ withdrawal = 0
    /\ operation = [k \in Consents |->
                      [status |-> "none", revision |-> 0, result |-> "none"]]
    /\ task = [k \in Consents |-> NoTask]
    /\ request = [k \in Consents |-> [stored |-> FALSE, reserved |-> FALSE,
                                      named |-> FALSE, sent |-> FALSE]]
    /\ material = [k \in Consents |-> [status |-> "none",
                                       receipt |-> NoReceipt, linked |-> FALSE]]
    /\ result = [k \in Consents |-> "none"]
    /\ item = [k \in Consents |-> [status |-> "none", revision |-> 0]]
    /\ provider = [k \in Consents |-> "none"]
    /\ returned = [k \in Consents |-> NoReceipt]
    /\ caller = [c \in Callers |-> IdleCaller]
    /\ reconciler = [q \in Reconcilers |-> IdleReconciler]
    /\ receiver = [p \in Receivers |-> IdleReceiver]
    /\ troubles = 0

(***************************************************************************)
(* The claimant's permission.  Other writers move the Claim's revision.    *)
(***************************************************************************)

\* _active_assessor_consent: the latest granted permission.
Active == LET granted == {k \in Consents : consents[k] = "granted"}
          IN  IF granted = {} THEN 0 ELSE Max(granted)

\* The bound on the Claim's changes does not count the routing itself.
OthersMayMove == claim.revision < MaxRevision + (IF claim.routing = 0 THEN 0 ELSE 1)

\* A Claim that moved refuses a withdrawal that waits to be saved.
CheckedAnew ==
    withdrawal' = IF claim'.revision = claim.revision THEN withdrawal ELSE 0

\* grant_assessor_consent, and the grant of an offer: each offer of a later
\* message may be granted, whatever permission is already active.
Grant(k) ==
    /\ OthersMayMove
    /\ consents[k] = "none" /\ \A j \in 1 .. k - 1 : consents[j] # "none"
    /\ consents' = [consents EXCEPT ![k] = "granted"]
    /\ claim' = [claim EXCEPT !.revision = @ + 1]
    /\ CheckedAnew
    /\ UNCHANGED <<records, world, caller, reconciler, receiver, troubles>>

\* decide_external_service_offer, withdraw: refused once the permission has a
\* request, and then saved on the Claim's revision, which preparing a request
\* does not move.
CheckWithdrawal(k) ==
    /\ OthersMayMove
    /\ withdrawal = 0
    /\ consents[k] = "granted" /\ ~request[k].stored
    /\ withdrawal' = k
    /\ UNCHANGED <<claim, consents, records, world, caller, reconciler, receiver, troubles>>

Withdraw ==
    /\ withdrawal # 0
    /\ withdrawal' = 0
    /\ consents' = [consents EXCEPT ![withdrawal] = "withdrawn"]
    /\ claim' = [claim EXCEPT !.revision = @ + 1]
    /\ UNCHANGED <<records, world, caller, reconciler, receiver, troubles>>

\* Any other mutation of the Claim.
ChangeClaim ==
    /\ OthersMayMove
    /\ claim' = [claim EXCEPT !.revision = @ + 1]
    /\ CheckedAnew
    /\ UNCHANGED <<consents, records, world, caller, reconciler, receiver, troubles>>

(***************************************************************************)
(* Asking for the routing.                                                 *)
(***************************************************************************)

\* unreconciled_assessor_task: any task of the Claim, not one operation's.
Unresolved == {k \in Consents : task[k].status = "unknown"}

\* external_task_requires_reconciliation for a task that is still prepared.
Interrupted(k) ==
    /\ task[k].status = "prepared"
    /\ request[k].reserved /\ request[k].named /\ ~request[k].sent

\* claimant_assessor_action: the latest failed task decides whether the
\* claimant may send; an interrupted one is let through to be refused later.
MayAsk ==
    LET failed == {k \in Consents : task[k].status \in {"retryable", "terminal", "unknown"}}
    IN  \/ \E k \in Consents : Interrupted(k)
        \/ \A k \in failed :
              \/ task[k].status = "retryable"
              \/ \E j \in failed : task[j].updated > task[k].updated

\* _persist_external_recovery_work_item.  The item names the Claim revision,
\* so another revision's item under the same identity is refused.
WithItem(k, revision) ==
    IF item[k].status = "none"
      THEN [item EXCEPT ![k] = [status |-> "open", revision |-> revision]]
      ELSE item

\* Where the rest of a run depends on its permission alone.
At(step, k) == [IdleCaller EXCEPT !.pc = step, !.consent = k]
Go(c, step) == caller' = [caller EXCEPT ![c].pc = step]
Stop(c) == caller' = [caller EXCEPT ![c] = IdleCaller]

\* route_assessor up to its first write, for the operation of permission k.
\* An accepted operation is replayed from its material on, a terminal one and
\* an unresolved outcome are refused after their work item is made sure of,
\* and only a permission and an authority that are current go on.
Route(c, k) ==
    LET start == [IdleCaller EXCEPT !.consent = k, !.revision = claim.revision]
        status == operation[k].status
    IN  /\ caller[c].pc = "idle" /\ claim.routing = 0
        /\ \/ /\ status = "accepted"
              /\ caller' = [caller EXCEPT ![c] = [At("material", k) EXCEPT !.answer = Replay]]
              /\ UNCHANGED item
           \/ /\ status = "terminal"
              /\ item' = WithItem(k, claim.revision)
              /\ UNCHANGED caller
           \/ /\ status \notin {"accepted", "terminal"}
              /\ \E j \in Unresolved :
                    item' = IF request[j].named THEN WithItem(j, claim.revision) ELSE item
              /\ UNCHANGED caller
           \/ /\ status \notin {"accepted", "terminal"} /\ Unresolved = {}
              /\ Max({task[j].updated : j \in Consents}) < MaxAttempts
              /\ consents[k] = "granted"
              /\ \/ /\ status = "none"
                    /\ caller' = [caller EXCEPT ![c] = [start EXCEPT !.pc = "prepare"]]
                 \/ /\ status # "none" /\ operation[k].revision = claim.revision
                    /\ caller' = [caller EXCEPT ![c] = [start EXCEPT !.pc = "task"]]
              /\ UNCHANGED item
        /\ UNCHANGED <<claim, consents, withdrawal, operation, task, request, material,
                       result, world, reconciler, receiver, troubles>>

\* request_assessor_routing: the operation is the active permission's.  The
\* page may show an older revision only to restore an accepted operation.
Ask(c) ==
    /\ Active # 0
    /\ \/ Unresolved = {} /\ MayAsk
       \/ operation[Active].status = "accepted" /\ operation[Active].revision # claim.revision
    /\ Route(c, Active)

\* The integration service's route names a stored authority.
RouteStored(c, k) == operation[k].status # "none" /\ Route(c, k)

(***************************************************************************)
(* The dispatch, one write at a time.                                      *)
(***************************************************************************)

\* save_assessor_routing_preparation: authority and operation together, once.
Prepare(c) ==
    LET k == caller[c].consent
    IN  /\ caller[c].pc = "prepare"
        /\ IF operation[k].status = "none" /\ claim.revision = caller[c].revision
             THEN /\ operation' = [operation EXCEPT ![k] =
                        [status |-> "prepared", revision |-> claim.revision, result |-> "none"]]
                  /\ Go(c, "task")
             ELSE UNCHANGED operation /\ Stop(c)
        /\ UNCHANGED <<claim, consents, withdrawal, task, request, material, result, item,
                       world, reconciler, receiver, troubles>>

\* _prepare_external_request: a retry continues the task it already has.
PrepareTask(c) ==
    LET k == caller[c].consent
        held == IF task[k].status = "none" THEN [task[k] EXCEPT !.status = "prepared"]
                                           ELSE task[k]
    IN  /\ caller[c].pc = "task"
        /\ task' = [task EXCEPT ![k] = held]
        /\ caller' = [caller EXCEPT ![c].pc = "request", ![c].task = held]
        /\ UNCHANGED <<claim, consents, withdrawal, operation, request, material, result,
                       item, world, reconciler, receiver, troubles>>

\* save_external_task_request reads the permission again.
PrepareRequest(c) ==
    LET k == caller[c].consent
    IN  /\ caller[c].pc = "request"
        /\ IF request[k].stored \/ consents[k] = "granted"
             THEN request' = [request EXCEPT ![k].stored = TRUE] /\ Go(c, "reserve")
             ELSE UNCHANGED request /\ Stop(c)
        /\ UNCHANGED <<claim, consents, withdrawal, operation, task, material, result, item,
                       world, reconciler, receiver, troubles>>

\* reserve_external_dispatch: a compare-and-set on the absent reservation.
Reserve(c) ==
    LET k == caller[c].consent
    IN  /\ caller[c].pc = "reserve"
        /\ IF ~request[k].reserved
             THEN /\ request' = [request EXCEPT ![k].reserved = TRUE, ![k].named = TRUE]
                  /\ caller' = [caller EXCEPT ![c].pc = "call", ![c].sent = request[k].sent]
             ELSE UNCHANGED request /\ Stop(c)
        /\ UNCHANGED <<claim, consents, withdrawal, operation, task, material, result, item,
                       world, reconciler, receiver, troubles>>

\* The provider, external.  It answers a request it knows as before; a failure
\* that was submitted may or may not have left an assignment behind.
Provides(k, answer) ==
    CASE answer.code \in Routed -> provider[k] \in {"none", answer.code}
                                   /\ provider' = [provider EXCEPT ![k] = answer.code]
      [] answer.code = "timeout" /\ answer.submitted ->
            \E left \in IF provider[k] = "none" THEN {"none"} \cup Routed ELSE {provider[k]} :
                provider' = [provider EXCEPT ![k] = left]
      [] answer.code = "malformed" /\ answer.submitted ->
            provider' = [provider EXCEPT ![k] = IF @ = "none" THEN "refused" ELSE @]
      [] OTHER -> UNCHANGED provider

Call(c) ==
    /\ caller[c].pc = "call"
    /\ \E answer \in Answers \ {NoAnswer, Replay} :
          /\ Provides(caller[c].consent, answer)
          /\ caller' = [caller EXCEPT ![c].pc = "send", ![c].answer = answer]
    /\ UNCHANGED <<claim, consents, withdrawal, records, returned, reconciler, receiver,
                   troubles>>

\* _record_external_send: the first send replaces the whole stored request by
\* the caller's copy; a send recorded meanwhile, or a permission no longer
\* granted, refuses it and leaves the reservation.
RecordSend(c) ==
    LET k == caller[c].consent
    IN  /\ caller[c].pc = "send"
        /\ IF caller[c].sent
             THEN UNCHANGED request /\ Go(c, "settle")
             ELSE IF ~request[k].sent /\ consents[k] = "granted"
                    THEN /\ request' = [request EXCEPT ![k].sent = TRUE, ![k].reserved = TRUE]
                         /\ Go(c, "settle")
                    ELSE UNCHANGED request /\ Stop(c)
        /\ UNCHANGED <<claim, consents, withdrawal, operation, task, material, result, item,
                       world, reconciler, receiver, troubles>>

\* classify_external_task_failure, with the delivery the task already has.
Classified(held, answer) ==
    CASE answer.code = "malformed" -> "terminal"
      [] answer.code = "timeout" /\ (held.submitted \/ answer.submitted) -> "unknown"
      [] OTHER -> "retryable"

\* assert_task_transition_is_permitted and assert_persisted_operation_transition.
Permitted(held, status) ==
    CASE held.status = "prepared" -> TRUE
      [] held.status = "retryable" -> status \in {"accepted", "retryable", "unknown"}
      [] held.status = "unknown" -> status \in {"accepted", "unknown", "terminal"}
      [] OTHER -> status = held.status

\* save_assessor_routing_settlement: operation, task and attempt together,
\* unless the operation is accepted or terminal already.
Settled(k) == operation[k].status \in {"accepted", "terminal"}

Settlement(k, status, submitted, routing) ==
    /\ operation' = [operation EXCEPT ![k].status = status, ![k].result = routing]
    /\ task' = [task EXCEPT ![k] =
          [status |-> status, submitted |-> submitted,
           updated |-> 1 + Max({task[j].updated : j \in Consents})]]

SettleFailure(c) ==
    LET k == caller[c].consent
        held == caller[c].task
        status == Classified(held, caller[c].answer)
    IN  /\ caller[c].pc = "settle" /\ caller[c].answer \in Failures
        /\ IF Permitted(held, status) /\ ~Settled(k)
             THEN /\ Settlement(k, status, held.submitted \/ caller[c].answer.submitted, "none")
                  /\ IF status = "retryable" THEN caller' = [caller EXCEPT ![c] = At("release", k)]
                                             ELSE Go(c, "item")
             ELSE UNCHANGED <<operation, task>> /\ Stop(c)
        /\ UNCHANGED <<claim, consents, withdrawal, request, material, result, item, world,
                       reconciler, receiver, troubles>>

\* An answer that is known but cannot be recorded gives the reservation back,
\* whether a settled operation or a failing store refused it.
SettleAcceptance(c) ==
    LET k == caller[c].consent
    IN  /\ caller[c].pc = "settle" /\ caller[c].answer.code \in Routed
        /\ \/ /\ Permitted(caller[c].task, "accepted") /\ ~Settled(k)
              /\ Settlement(k, "accepted", TRUE, caller[c].answer.code)
              /\ caller' = [caller EXCEPT ![c] = At("material", k)]
              /\ UNCHANGED <<request, troubles>>
           \/ /\ Permitted(caller[c].task, "accepted")
              /\ \/ Settled(k) /\ UNCHANGED troubles
                 \/ troubles < MaxTroubles /\ troubles' = troubles + 1
              /\ request' = [request EXCEPT ![k].reserved = FALSE]
              /\ Stop(c) /\ UNCHANGED <<operation, task>>
           \/ /\ ~Permitted(caller[c].task, "accepted")
              /\ Stop(c) /\ UNCHANGED <<operation, task, request, troubles>>
        /\ UNCHANGED <<claim, consents, withdrawal, material, result, item, world,
                       reconciler, receiver>>

\* Mutant: every settled failure gives the reservation back.
SaveItemAndRelease(c) ==
    LET k == caller[c].consent
    IN  /\ caller[c].pc = "item"
        /\ item' = WithItem(k, caller[c].revision)
        /\ caller' = [caller EXCEPT ![c] = At("release", k)]
        /\ UNCHANGED <<claim, consents, withdrawal, operation, task, request, material,
                       result, world, reconciler, receiver, troubles>>

\* The work item of a settled failure; an unknown outcome keeps the hold.
SaveItem(c) ==
    LET k == caller[c].consent
        kept == item[k].status = "none" \/ item[k].revision = caller[c].revision
    IN  /\ caller[c].pc = "item"
        /\ item' = WithItem(k, caller[c].revision)
        /\ IF kept /\ Classified(caller[c].task, caller[c].answer) # "unknown"
             THEN caller' = [caller EXCEPT ![c] = At("release", k)] ELSE Stop(c)
        /\ UNCHANGED <<claim, consents, withdrawal, operation, task, request, material,
                       result, world, reconciler, receiver, troubles>>

\* release_external_dispatch, unconditional.
Release(c) ==
    /\ caller[c].pc \in {"release", "free"}
    /\ request' = [request EXCEPT ![caller[c].consent].reserved = FALSE]
    /\ IF caller[c].pc = "free" THEN Go(c, "save") ELSE Stop(c)
    /\ UNCHANGED <<claim, consents, withdrawal, operation, task, material, result, item,
                   world, reconciler, receiver, troubles>>

\* _record_awaited_material: what is missing when it looks, is written.
AfterMaterial(c) == IF caller[c].answer = Replay THEN "save" ELSE "free"

\* Mutants: the record alone counts as complete; a record without its link is
\* taken for another run's and refused.
ReadEvidenceAlone(c) ==
    /\ caller[c].pc = "material"
    /\ Go(c, IF material[caller[c].consent].status = "none" THEN "evidence"
                                                           ELSE AfterMaterial(c))
    /\ UNCHANGED <<claim, consents, withdrawal, records, world, reconciler, receiver, troubles>>

ReadMaterialOnce(c) ==
    LET held == material[caller[c].consent]
    IN  /\ caller[c].pc = "material"
        /\ IF held.status # "none" /\ ~held.linked THEN Stop(c)
             ELSE Go(c, IF held.status = "none" THEN "evidence" ELSE AfterMaterial(c))
        /\ UNCHANGED <<claim, consents, withdrawal, records, world, reconciler, receiver,
                       troubles>>

ReadMaterial(c) ==
    LET held == material[caller[c].consent]
    IN  /\ caller[c].pc = "material"
        /\ Go(c, CASE held.status = "none" -> "evidence"
                   [] held.status # "none" /\ ~held.linked -> "link"
                   [] OTHER -> AfterMaterial(c))
        /\ UNCHANGED <<claim, consents, withdrawal, records, world, reconciler, receiver,
                       troubles>>

SaveEvidence(c) ==
    /\ caller[c].pc = "evidence"
    /\ material' = [material EXCEPT ![caller[c].consent].status = "pending",
                                    ![caller[c].consent].receipt = NoReceipt]
    /\ Go(c, "link")
    /\ UNCHANGED <<claim, consents, withdrawal, operation, task, request, result, item,
                   world, reconciler, receiver, troubles>>

SaveLink(c) ==
    /\ caller[c].pc = "link"
    /\ material' = [material EXCEPT ![caller[c].consent].linked = TRUE]
    /\ Go(c, AfterMaterial(c))
    /\ UNCHANGED <<claim, consents, withdrawal, operation, task, request, result, item,
                   world, reconciler, receiver, troubles>>

\* _save_assessor_result: the Claim read again carries the routing, once.
SaveRouting(c) ==
    /\ caller[c].pc = "save"
    /\ claim' = IF claim.routing = 0
                  THEN [claim EXCEPT !.routing = caller[c].consent, !.revision = @ + 1]
                  ELSE claim
    /\ Stop(c)
    /\ CheckedAnew
    /\ UNCHANGED <<consents, records, world, reconciler, receiver, troubles>>

(***************************************************************************)
(* Reconciling an unresolved outcome with the provider's own record.       *)
(***************************************************************************)

SettledUnknown(k) == task[k].status = "unknown" /\ operation[k].status = "unknown"

ReservedUnsettled(k) == Interrupted(k) /\ operation[k].status = "prepared"

\* reconcile_assessor_routing up to the status check.  The work item of an
\* interrupted dispatch is written first.
Reconcile(q, k) ==
    /\ reconciler[q].pc = "idle" /\ claim.routing = 0
    /\ \/ SettledUnknown(k) /\ UNCHANGED item
       \/ /\ ReservedUnsettled(k)
          /\ item[k].status = "none" \/ item[k].revision = claim.revision
          /\ item' = WithItem(k, claim.revision)
    /\ reconciler' = [reconciler EXCEPT ![q] =
                        [pc |-> "ask", consent |-> k, revision |-> claim.revision]]
    /\ UNCHANGED <<claim, consents, withdrawal, operation, task, request, material, result,
                   world, caller, receiver, troubles>>

\* The status check, external: only an acceptance concludes anything.
CheckStatus(q) ==
    /\ reconciler[q].pc = "ask"
    /\ \/ /\ provider[reconciler[q].consent] \in Routed
          /\ reconciler' = [reconciler EXCEPT ![q].pc = "settle"]
       \/ reconciler' = [reconciler EXCEPT ![q] = IdleReconciler]
    /\ UNCHANGED <<claim, consents, withdrawal, records, world, caller, receiver, troubles>>

\* save_assessor_reconciliation: Claim, task, operation, request, awaited
\* material and link in one transaction on the Claim's revision.
SettleReconciliation(q) ==
    LET k == reconciler[q].consent
    IN  /\ reconciler[q].pc = "settle"
        /\ IF /\ claim.revision = reconciler[q].revision
              /\ operation[k].status \in {"unknown", "prepared"}
              /\ Permitted(task[k], "accepted")
              /\ material[k].status = "none"
             THEN /\ claim' = [claim EXCEPT !.routing = k, !.revision = @ + 1]
                  /\ operation' = [operation EXCEPT ![k].status = "accepted",
                                                    ![k].result = provider[k]]
                  /\ task' = [task EXCEPT ![k].status = "accepted", ![k].submitted = TRUE]
                  /\ request' = [request EXCEPT ![k].sent = TRUE, ![k].reserved = FALSE]
                  /\ material' = [material EXCEPT ![k].status = "pending", ![k].linked = TRUE]
                  /\ reconciler' = [reconciler EXCEPT ![q] =
                                      [IdleReconciler EXCEPT !.pc = "complete", !.consent = k]]
             ELSE /\ reconciler' = [reconciler EXCEPT ![q] = IdleReconciler]
                  /\ UNCHANGED <<claim, operation, task, request, material>>
        /\ CheckedAnew
        /\ UNCHANGED <<consents, result, item, world, caller, receiver, troubles>>

\* _complete_external_recovery_work_item, after the settlement or by a replay
\* of a settled reconciliation whose material has not arrived yet.
Completed(k) ==
    item' = IF item[k].status = "open" THEN [item EXCEPT ![k].status = "completed"] ELSE item

CompleteItem(q) ==
    /\ reconciler[q].pc = "complete"
    /\ Completed(reconciler[q].consent)
    /\ reconciler' = [reconciler EXCEPT ![q] = IdleReconciler]
    /\ UNCHANGED <<claim, consents, withdrawal, operation, task, request, material, result,
                   world, caller, receiver, troubles>>

ReplayReconciliation(q, k) ==
    /\ reconciler[q].pc = "idle"
    /\ task[k].status = "accepted" /\ operation[k].status = "accepted" /\ claim.routing = k
    /\ material[k].status = "pending" /\ material[k].linked
    /\ item[k].status = "open" /\ Completed(k)
    /\ UNCHANGED <<claim, consents, withdrawal, operation, task, request, material, result,
                   world, caller, reconciler, receiver, troubles>>

(***************************************************************************)
(* Receiving the report.  A receipt is its expected Claim revision.        *)
(***************************************************************************)

\* Mutant: the accepted task is enough, whatever the Claim shows.
ReceiveForTask(p, r) ==
    \E k \in Consents :
        /\ receiver[p].pc = "idle" /\ task[k].status = "accepted" /\ claim.revision = r
        /\ receiver' = [receiver EXCEPT ![p] =
              [Holding("ask", k, r) EXCEPT !.revision = r, !.bound = claim.bound]]
        /\ UNCHANGED <<claim, consents, withdrawal, records, world, caller, reconciler, troubles>>

\* receive_assessor_result: an existing result is only checked; a receipt
\* whose material has arrived is resumed whatever the revision is now.
Receive(p, r) ==
    LET k == claim.routing
        begin == [Holding("ask", k, r) EXCEPT !.revision = claim.revision, !.bound = claim.bound]
    IN  /\ receiver[p].pc = "idle"
        /\ k # 0 /\ task[k].status = "accepted" /\ operation[k].result = "assigned"
        /\ \/ /\ result[k] = "unverified"
              /\ material[k].receipt = r
              /\ receiver' = [receiver EXCEPT ![p] = Holding("verify", k, r)]
           \/ /\ result[k] = "none"
              /\ IF material[k].status = "ready" THEN material[k].receipt = r
                                                 ELSE claim.revision = r
              /\ receiver' = [receiver EXCEPT ![p] = begin]
    /\ UNCHANGED <<claim, consents, withdrawal, records, world, caller, reconciler, troubles>>

\* The adapter, external, gives its report to one receipt of a task for good.
\* The awaited material is read again once the report is there.
AskReport(p) ==
    LET k == receiver[p].consent
    IN  /\ receiver[p].pc = "ask"
        /\ IF returned[k] \in {NoReceipt, receiver[p].receipt}
             THEN /\ returned' = [returned EXCEPT ![k] = receiver[p].receipt]
                  /\ receiver' = [receiver EXCEPT ![p].pc = "arrive",
                                                  ![p].ready = material[k].status = "ready"]
             ELSE /\ receiver' = [receiver EXCEPT ![p] = IdleReceiver]
                  /\ UNCHANGED returned
        /\ UNCHANGED <<claim, consents, withdrawal, records, provider, caller, reconciler,
                       troubles>>

Arrive(p) ==
    LET k == receiver[p].consent
    IN  /\ receiver[p].pc = "arrive"
        /\ material' = IF receiver[p].ready THEN material
                       ELSE [material EXCEPT ![k].status = "ready",
                                             ![k].receipt = receiver[p].receipt]
        /\ receiver' = [receiver EXCEPT ![p].pc = "bind", ![p].ready = FALSE]
        /\ UNCHANGED <<claim, consents, withdrawal, operation, task, request, result, item,
                       world, caller, reconciler, troubles>>

\* _bind_returned_evidence_to_claim, unless the Claim as it was read already
\* shows the material as it is now.
Bind(p) ==
    LET k == receiver[p].consent
        receipt == receiver[p].receipt
        ready == material[k].status = "ready"
    IN  /\ receiver[p].pc = "bind"
        /\ IF receiver[p].bound = ready
             THEN UNCHANGED claim /\ receiver' = [receiver EXCEPT ![p] = Holding("result", k, receipt)]
             ELSE IF claim.revision = receiver[p].revision
                    THEN /\ claim' = [claim EXCEPT !.bound = ready, !.revision = @ + 1]
                         /\ receiver' = [receiver EXCEPT ![p] = Holding("result", k, receipt)]
                    ELSE UNCHANGED claim /\ receiver' = [receiver EXCEPT ![p] = IdleReceiver]
        /\ CheckedAnew
        /\ UNCHANGED <<consents, records, world, caller, reconciler, troubles>>

\* save_external_task_result: one result of a task, unverified at first.
SaveResult(p) ==
    LET k == receiver[p].consent
    IN  /\ receiver[p].pc = "result"
        /\ IF result[k] = "verified" \/ ~material[k].linked
             THEN UNCHANGED result /\ receiver' = [receiver EXCEPT ![p] = IdleReceiver]
             ELSE /\ result' = [result EXCEPT ![k] = "unverified"]
                  /\ receiver' = [receiver EXCEPT ![p].pc = "verify"]
        /\ UNCHANGED <<claim, consents, withdrawal, operation, task, request, material, item,
                       world, caller, reconciler, troubles>>

\* _checked_external_result: the material must carry this receipt.
Verify(p) ==
    LET k == receiver[p].consent
    IN  /\ receiver[p].pc = "verify"
        /\ result' = IF material[k].receipt = receiver[p].receipt
                       THEN [result EXCEPT ![k] = "verified"] ELSE result
        /\ receiver' = [receiver EXCEPT ![p] = IdleReceiver]
        /\ UNCHANGED <<claim, consents, withdrawal, operation, task, request, material, item,
                       world, caller, reconciler, troubles>>

(***************************************************************************)
(* A process that stops loses only what it has not written.                *)
(***************************************************************************)
Interrupt ==
    /\ troubles < MaxTroubles /\ troubles' = troubles + 1
    /\ \/ /\ \E c \in Callers : caller[c].pc # "idle" /\ Stop(c)
          /\ UNCHANGED <<reconciler, receiver>>
       \/ /\ \E q \in Reconcilers :
                /\ reconciler[q].pc # "idle"
                /\ reconciler' = [reconciler EXCEPT ![q] = IdleReconciler]
          /\ UNCHANGED <<caller, receiver>>
       \/ /\ \E p \in Receivers :
                /\ receiver[p].pc # "idle"
                /\ receiver' = [receiver EXCEPT ![p] = IdleReceiver]
          /\ UNCHANGED <<caller, reconciler>>
    /\ UNCHANGED <<claim, consents, withdrawal, records, world>>

CallerStep(c) ==
    \/ Prepare(c) \/ PrepareTask(c) \/ PrepareRequest(c) \/ Reserve(c) \/ Call(c)
    \/ RecordSend(c) \/ SettleFailure(c) \/ SettleAcceptance(c) \/ SaveItem(c) \/ Release(c)
    \/ ReadMaterial(c) \/ SaveEvidence(c) \/ SaveLink(c) \/ SaveRouting(c)

Next ==
    \/ \E k \in Consents : Grant(k) \/ CheckWithdrawal(k)
    \/ Withdraw \/ ChangeClaim \/ Interrupt
    \/ \E c \in Callers : Ask(c) \/ CallerStep(c) \/ \E k \in Consents : RouteStored(c, k)
    \/ \E q \in Reconcilers :
          \/ CheckStatus(q) \/ SettleReconciliation(q) \/ CompleteItem(q)
          \/ \E k \in Consents : Reconcile(q, k) \/ ReplayReconciliation(q, k)
    \/ \E p \in Receivers :
          \/ AskReport(p) \/ Arrive(p) \/ Bind(p) \/ SaveResult(p) \/ Verify(p)
          \/ \E r \in Revisions : Receive(p, r)

Spec == Init /\ [][Next]_vars

\* A request that runs goes on, and the claimant's next turn, or the page's
\* retry, asks again for a permission that is granted and not yet routed.
FairSpec == Spec /\ \A c \in Callers : WF_vars(Ask(c) \/ CallerStep(c))

(***************************************************************************)
(* Properties                                                              *)
(***************************************************************************)

\* A Claim that shows a routing rests on a request the provider holds, that
\* is recorded as sent, on an accepted operation and task, and on awaited
\* material that is traced to that task, whoever wrote them and in whichever
\* interrupted run (route_assessor's replay, _record_awaited_material).
RoutingBacked ==
    LET k == claim.routing
    IN  k # 0 => /\ operation[k].status = "accepted" /\ task[k].status = "accepted"
                 /\ operation[k].result = provider[k]
                 /\ request[k].sent
                 /\ material[k].status # "none" /\ material[k].linked

\* A result is on record only for the routed task, over linked material, and
\* from the one receipt the provider answered; material that has arrived names
\* no other (receive_assessor_result).  A late write of the awaited record may
\* still put the material back, which SaveEvidence shows.
ResultTraced ==
    \A k \in Consents : result[k] # "none" =>
        /\ claim.routing = k
        /\ material[k].linked
        /\ returned[k] # NoReceipt
        /\ material[k].receipt \in {NoReceipt, returned[k]}

\* A request whose outcome is unknown is never handed to the provider again:
\* the reservation outlives the attempt (route_assessor, the kept hold).
UnknownNotResent ==
    [][\A c \in Callers : Call(c) => task[caller[c].consent].status # "unknown"]_vars

\* An acceptance that is on record reaches the Claim, whatever was interrupted
\* after the settlement, unless another permission took over or the claimant
\* is refused for another task's sake.
AcceptedReachesClaim ==
    \A k \in Consents :
        operation[k].status = "accepted" ~>
            \/ claim.routing # 0 \/ Active # k
            \/ \E j \in Consents \ {k} : task[j].status \in {"unknown", "terminal"}

\* A dispatch that nobody runs any more and that holds its reservation without
\* an outcome is one that reconciliation admits.
HeldIsReconcilable ==
    \A k \in Consents :
        request[k].reserved /\ ~Settled(k) /\ (\A c \in Callers : caller[c].consent # k)
            => SettledUnknown(k) \/ ReservedUnsettled(k)
=============================================================================
