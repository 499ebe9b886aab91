----------------------------- MODULE Retention -----------------------------
(***************************************************************************)
(* Destructive retention cleanup of one terminal Claim.                    *)
(*                                                                         *)
(* The recovery worker reserves a RetentionOperation for the terminal      *)
(* Claim, freezes the inventory of object bytes and database records,      *)
(* deletes the bytes through the object store, one durable authorization   *)
(* at a time, and then removes the records, the Claim last.  Staff may     *)
(* place and release holds, resolve a handoff or reopen the Claim at any   *)
(* moment; a worker may stop between any two steps, and a second one (an   *)
(* operator's --once run) may work on the same operation.                  *)
(*                                                                         *)
(* A repository method is one MongoDB transaction: it reads a snapshot,    *)
(* and its commit is refused, and the method run again, only when another  *)
(* transaction has since written a document that it writes too.  So a      *)
(* method whose decision rests on documents it does not write (the holds,  *)
(* the Claim, the open responsibilities) has a step for the snapshot and   *)
(* one for the commit; one that reads only what it writes is one step.     *)
(*                                                                         *)
(* The Claim's open responsibilities (handoff, staff work item, unknown    *)
(* external outcome, unfinished recovery operation) are one flag, work.    *)
(* Step evidence keeps its latest status and its count; hold references,   *)
(* tombstone contents, audit events and times are left out.                *)
(***************************************************************************)
EXTENDS Naturals, FiniteSets

CONSTANTS
    Workers,        \* recovery worker processes
    Staff,          \* Workbench requests on holds in progress at a time
    Objects,        \* evidence objects with a storage key
    Deleted,        \* records whose classification is delete (messages)
    Anonymised,     \* records replaced by a tombstone; the WorkingClaim is one
    Retained,       \* records that stay and are only verified
    Links,          \* retained external_task_evidence_link records
    ClaimRecord,    \* the WorkingClaim itself
    Holds,          \* hold identities; a hold identity is a digest of its request key
    TargetLimit,    \* most targets an operation may freeze (500)
    EvidenceLimit,  \* most step evidence, and most authorizations, it may carry (2000)
    MaxRevision,    \* bound: the Claim is not changed beyond this revision
    MaxFaults,      \* bound on failures of the object store and of a commit
    MaxCrashes      \* bound on workers stopped half-way

Records == Deleted \cup Anonymised \cup Retained \cup Links
Targets == Objects \cup Records

ASSUME RetentionConstants ==
    /\ ClaimRecord \in Anonymised
    /\ Objects \cap Records = {}
    /\ (Deleted \cup Anonymised) \cap (Retained \cup Links) = {}
    /\ {TargetLimit, EvidenceLimit, MaxRevision, MaxFaults, MaxCrashes} \subseteq Nat

VARIABLES
    claim,      \* revision, and the revision its terminal disposition was recorded at (0: none)
    work,       \* an open responsibility of staff, external party or recovery
    op,         \* the Claim's one RetentionOperation, or NoOperation
    holds,      \* hold -> "absent", "active" or "released"
    bytes,      \* objects still in the object store (external)
    records,    \* records still in the database
    worker,     \* per worker: control point and local values
    reopening,  \* Claim revision in the snapshot of a reopening transaction (0: none)
    staff,      \* per hold request: control point, hold and transaction snapshot
    faults,     \* failures so far
    crashes,    \* workers stopped so far
    leeway      \* history: a transaction open when the active holds were placed may
                \* still authorize a deletion or destroy a record

vars ==
    <<claim, work, op, holds, bytes, records, reopening, worker, staff, faults, crashes, leeway>>

\* Everything but the workers.
shared == <<claim, work, op, holds, bytes, records, reopening, staff, faults, crashes, leeway>>

-----------------------------------------------------------------------------
(* Values.                                                                 *)

Statuses == {"reserved", "held", "reconciliation_required", "completed"}
StepStatuses == {"pending", "satisfied", "failed", "unknown", "missing"}

\* An authorization's identity is a digest of its target and attempt.
Authorizations == [target : Objects, attempt : Nat]
NoAuthorization == [target |-> "none", attempt |-> 0]

NoOperation == [status |-> "absent"]
Operations ==
    [source : Nat, revision : Nat, status : Statuses, frozen : BOOLEAN,
     targets : SUBSET Targets, step : [Targets -> StepStatuses],
     attempts : [Targets -> Nat], steps : Nat, authorized : Nat,
     active : Authorizations \cup {NoAuthorization}]

\* Mutant: a target that was tried counts as done.
Untried(o, S) == {t \in o.targets \cap S : o.step[t] = "pending"}

\* "missing" is the unknown outcome of a record step that found no source.
Unsatisfied(o, S) == {t \in o.targets \cap S : o.step[t] # "satisfied"}
NeedsReconciliation(o) == \E t \in o.targets : o.step[t] \in {"failed", "unknown", "missing"}
AllSatisfied(o) == o.frozen /\ o.targets # {} /\ Unsatisfied(o, Targets) = {}

\* RetentionOperation.validate_operation.
ValidOperation(o) ==
    /\ o.status = "completed" => AllSatisfied(o)
    /\ o.status = "reconciliation_required" => NeedsReconciliation(o)
    /\ o.active # NoAuthorization => o.active.target \in o.targets \cap Objects
    /\ \A t \in Targets : o.attempts[t] > 0 => t \in o.targets
    /\ Cardinality(o.targets) <= TargetLimit
    /\ o.steps <= EvidenceLimit /\ o.authorized <= EvidenceLimit

ActiveHolds == {h \in Holds : holds[h] = "active"}

WorkerPoints ==
    {"idle", "reserve", "freeze", "freezing", "load", "objects", "refresh", "save_held",
     "authorize", "authorizing", "delete", "settle", "settling", "records", "apply",
     "applying", "uncertain", "failure"}
Outcomes == {"none", "satisfied", "failed", "unknown"}
WorkerStates ==
    [pc : WorkerPoints, op : Operations \cup {NoOperation}, target : Targets \cup {"none"},
     authorization : Authorizations \cup {NoAuthorization}, outcome : Outcomes,
     held : BOOLEAN, seen : Nat]    \* holds and Claim revision in a transaction's snapshot
IdleWorker ==
    [pc |-> "idle", op |-> NoOperation, target |-> "none",
     authorization |-> NoAuthorization, outcome |-> "none", held |-> FALSE, seen |-> 0]

StaffStates ==
    [pc : {"idle", "offered", "commit"}, action : {"apply", "release"},
     hold : Holds \cup {"none"}, revision : Nat, op : Operations \cup {NoOperation},
     others : BOOLEAN]
IdleStaff ==
    [pc |-> "idle", action |-> "apply", hold |-> "none", revision |-> 0,
     op |-> NoOperation, others |-> FALSE]

-----------------------------------------------------------------------------
(* Operations on the RetentionOperation.                                   *)

\* validate_retention_source_authority: the terminal disposition is the one the
\* operation was reserved from, and nothing changed the Claim since.
SourceAuthority(o) ==
    /\ ClaimRecord \in records
    /\ claim.terminal # 0
    /\ o.source = claim.revision
    /\ claim.terminal = claim.revision

\* reserve_retention_from_terminal: the initial operation, held when its
\* transaction saw an active hold.
Reservation ==
    [source |-> claim.terminal, revision |-> 1,
     status |-> IF ActiveHolds = {} THEN "reserved" ELSE "held",
     frozen |-> FALSE, targets |-> {}, step |-> [t \in Targets |-> "pending"],
     attempts |-> [t \in Targets |-> 0], steps |-> 0, authorized |-> 0,
     active |-> NoAuthorization]

\* retention_candidate_after_step: append evidence and derive the status.
AfterStep(o, t, s) ==
    LET next == [o EXCEPT !.revision = @ + 1, !.step[t] = s, !.attempts[t] = @ + 1,
                          !.steps = @ + 1]
    IN  [next EXCEPT !.status = IF s # "satisfied" THEN "reconciliation_required"
                                ELSE IF AllSatisfied(next) THEN "completed"
                                ELSE "reserved"]

\* A held operation resumes when its last hold is released.
Resumed(o) ==
    [o EXCEPT !.revision = @ + 1,
              !.status = IF AllSatisfied(o) THEN "completed"
                         ELSE IF NeedsReconciliation(o) THEN "reconciliation_required"
                         ELSE "reserved"]

Held(o) == [o EXCEPT !.revision = @ + 1, !.status = "held"]

-----------------------------------------------------------------------------
(* The worker: handoff and freeze.                                         *)

Goto(w, state) == worker' = [worker EXCEPT ![w] = state]
Stop(w) == Goto(w, IdleWorker)
At(w, pc) == worker[w].pc = pc
Local(w) == worker[w].op
\* The worker goes on with operation o at control point pc.
Proceed(w, pc, o) == Goto(w, [IdleWorker EXCEPT !.pc = pc, !.op = o])
\* The worker goes to control point pc, where it reads the operation afresh.
Reread(w, pc) == Goto(w, [IdleWorker EXCEPT !.pc = pc])
\* The worker's transaction, refused at its commit, runs again from control point pc.
Rerun(w, pc) == Goto(w, [worker[w] EXCEPT !.pc = pc, !.held = FALSE, !.seen = 0])

\* _atomic: nobody wrote the operation since the snapshot of the open transaction.
Unconflicted(w) == op.revision = Local(w).revision

\* What the reservation transaction demands: an eligible terminal Claim, no
\* operation yet, and no open responsibility.
ReservationPermitted ==
    op = NoOperation /\ SourceAuthority(Reservation) /\ ~work

\* Handoff discovery finds the terminal Claim; the reservation transaction
\* takes its snapshot.
StartReservation(w) ==
    /\ At(w, "idle")
    /\ ReservationPermitted
    /\ Proceed(w, "reserve", Reservation)
    /\ UNCHANGED shared

\* The insert is refused when another reservation came first.
CommitReservation(w) ==
    /\ At(w, "reserve")
    /\ op' = IF op = NoOperation THEN Local(w) ELSE op
    /\ Stop(w)
    /\ UNCHANGED <<claim, work, holds, bytes, records, reopening, staff, faults, crashes, leeway>>

\* Mutant: an operation that needs reconciliation is not listed.
PendingReserved ==
    /\ op # NoOperation
    /\ op.status = "reserved"

\* Pending discovery: a held operation is listed only for its open authorization.
Pending ==
    /\ op # NoOperation
    /\ op.status # "completed"
    /\ op.status = "held" => op.active # NoAuthorization

DiscoverPending(w) ==
    /\ At(w, "idle")
    /\ Pending
    /\ IF op.frozen THEN Reread(w, "load") ELSE Proceed(w, "freeze", op)
    /\ UNCHANGED shared

\* The checks of freeze_retention_targets, on the operation read before it.
FreezePermitted(o) ==
    /\ op.revision = o.revision
    /\ ~op.frozen
    /\ SourceAuthority(op)
    /\ op.status \in {"reserved", "held"}
    /\ ActiveHolds = {}
    /\ ~work
    /\ Cardinality(bytes \cup records) <= TargetLimit

StartFreeze(w) ==
    /\ At(w, "freeze")
    /\ IF FreezePermitted(Local(w)) THEN Proceed(w, "freezing", op) ELSE Stop(w)
    /\ UNCHANGED shared

\* It writes the operation only: holds and Claim may have changed since the snapshot.
CommitFreeze(w) ==
    /\ At(w, "freezing")
    /\ IF Unconflicted(w)
       THEN /\ op' = [op EXCEPT !.revision = @ + 1, !.status = "reserved", !.frozen = TRUE,
                                !.targets = bytes \cup records]
            /\ Reread(w, "load")
       ELSE op' = op /\ Rerun(w, "freeze")
    /\ UNCHANGED <<claim, work, holds, bytes, records, reopening, staff, faults, crashes, leeway>>

\* execute_retention_cleanup reads the operation afresh.
LoadOperation(w) ==
    /\ At(w, "load")
    /\ IF op.status = "completed" THEN Stop(w) ELSE Proceed(w, "objects", op)
    /\ UNCHANGED shared

-----------------------------------------------------------------------------
(* The worker: holds met on the way.                                       *)

\* An unsettled authorization is settled whatever the holds are.
CheckHoldsForObjects(w) ==
    /\ At(w, "objects")
    /\ IF ActiveHolds # {} /\ Local(w).active = NoAuthorization
       THEN Reread(w, "refresh")
       ELSE Proceed(w, "authorize", Local(w))
    /\ UNCHANGED shared

\* A hold was seen: the operation is read again and made held unless it is.
RefreshForHold(w) ==
    /\ At(w, "refresh")
    /\ IF op.status = "held" THEN Stop(w) ELSE Proceed(w, "save_held", op)
    /\ UNCHANGED shared

SaveHeld(w) ==
    /\ At(w, "save_held")
    /\ op' = IF op.revision = Local(w).revision /\ op.status # "completed"
             THEN Held(op) ELSE op
    /\ Stop(w)
    /\ UNCHANGED <<claim, work, holds, bytes, records, reopening, staff, faults, crashes, leeway>>

-----------------------------------------------------------------------------
(* The worker: object bytes.                                               *)

\* Mutant: a hold does not stop an authorization.
AuthorizationUnderHold(o, t) ==
    /\ op.revision = o.revision
    /\ op.status # "completed"
    /\ op.step[t] # "satisfied"
    /\ op.authorized < EvidenceLimit

\* The checks of authorize_retention_object_target when none is open.
AuthorizationPermitted(o, t) ==
    /\ op.revision = o.revision
    /\ op.status # "completed"
    /\ ActiveHolds = {}
    /\ op.step[t] # "satisfied"
    /\ op.authorized < EvidenceLimit

\* An open authorization of the same target is used again, by any worker; one of
\* another target is a conflict.
Delete(w, a) ==
    Goto(w, [IdleWorker EXCEPT !.pc = "delete", !.target = a.target, !.authorization = a])

\* Targets are taken in a fixed order of their digests (here any order); a
\* transaction that runs again is still for its target.
StartAuthorization(w) ==
    /\ At(w, "authorize")
    /\ \E t \in Unsatisfied(Local(w), Objects) :
         /\ worker[w].target \in {"none", t}
         /\ IF op.active # NoAuthorization
            THEN IF op.active.target = t THEN Delete(w, op.active) ELSE Stop(w)
            ELSE IF AuthorizationPermitted(Local(w), t)
                 THEN Goto(w, [worker[w] EXCEPT !.pc = "authorizing", !.target = t])
                 ELSE Stop(w)
    /\ UNCHANGED shared

\* It writes the operation only: a hold placed since the snapshot is not seen.
CommitAuthorization(w) ==
    LET t == worker[w].target
        granted == [target |-> t, attempt |-> op.attempts[t] + 1]
    IN  /\ At(w, "authorizing")
        /\ IF Unconflicted(w)
           THEN /\ op' = [op EXCEPT !.revision = @ + 1, !.active = granted, !.authorized = @ + 1]
                /\ leeway' = FALSE
                /\ Delete(w, granted)
           ELSE UNCHANGED <<op, leeway>> /\ Rerun(w, "authorize")
        /\ UNCHANGED <<claim, work, holds, bytes, records, reopening, staff, faults, crashes>>

\* delete_upload.  It verifies what it reports: only a fault makes it report
\* failure (nothing deleted) or an unknown outcome (deleted or not).
DeleteObject(w) ==
    /\ At(w, "delete")
    /\ \E outcome \in {"satisfied", "failed", "unknown"} :
         /\ bytes' \in {bytes, bytes \ {worker[w].target}}
         /\ outcome = "satisfied" => worker[w].target \notin bytes'
         /\ outcome = "failed" => bytes' = bytes
         /\ IF outcome = "satisfied" THEN UNCHANGED faults
            ELSE faults < MaxFaults /\ faults' = faults + 1
         /\ Goto(w, [worker[w] EXCEPT !.pc = "settle", !.outcome = outcome])
    /\ UNCHANGED <<claim, work, op, holds, records, reopening, staff, crashes, leeway>>

\* record_retention_object_result: the one result of the open authorization.
ResultAwaited(a) == op.attempts[a.target] < a.attempt /\ op.active = a /\ op.steps < EvidenceLimit

\* The operation is held when the snapshot had an active hold.
Settled(t, s, held) ==
    LET next == [AfterStep(op, t, s) EXCEPT !.active = NoAuthorization]
    IN  IF held THEN [next EXCEPT !.status = "held"] ELSE next

\* The worker goes on with the next object only after a satisfied one.
AfterResult(w, o, known) ==
    IF known /\ o.status # "held" /\ o.step[worker[w].target] = "satisfied"
    THEN Proceed(w, "authorize", o) ELSE Stop(w)

\* A result that is not awaited was recorded by another worker, or is refused.
StartObjectResult(w) ==
    LET a == worker[w].authorization
    IN  /\ At(w, "settle")
        /\ IF ResultAwaited(a)
           THEN Goto(w, [worker[w] EXCEPT !.pc = "settling", !.op = op,
                                          !.held = ActiveHolds # {}])
           ELSE AfterResult(w, op, op.attempts[a.target] >= a.attempt)
        /\ UNCHANGED shared

CommitObjectResult(w) ==
    /\ At(w, "settling")
    /\ IF Unconflicted(w)
       THEN /\ op' = Settled(worker[w].target, worker[w].outcome, worker[w].held)
            /\ AfterResult(w, op', TRUE)
       ELSE op' = op /\ Rerun(w, "settle")
    /\ UNCHANGED <<claim, work, holds, bytes, records, reopening, staff, faults, crashes, leeway>>

\* Only when every object is satisfied do the records follow.
FinishObjects(w) ==
    /\ At(w, "authorize")
    /\ Unsatisfied(Local(w), Objects) = {}
    /\ IF Local(w).status \in {"held", "completed"} THEN Stop(w)
       ELSE Proceed(w, "records", Local(w))
    /\ UNCHANGED shared

-----------------------------------------------------------------------------
(* The worker: database records.                                           *)

\* _RETENTION_DATABASE_ORDER: the Claim is the last of the unfinished records.
NextRecords(o) ==
    LET left == Unsatisfied(o, Records)
    IN  IF left = {ClaimRecord} THEN left ELSE left \ {ClaimRecord}

\* The holds are read again before every record.
CheckHoldsForRecord(w) ==
    /\ At(w, "records")
    /\ IF NextRecords(Local(w)) = {} THEN Stop(w)
       ELSE IF ActiveHolds # {} THEN Reread(w, "refresh")
       ELSE \E t \in NextRecords(Local(w)) :
              Goto(w, [IdleWorker EXCEPT !.pc = "apply", !.op = Local(w), !.target = t])
    /\ UNCHANGED shared

\* The checks of apply_retention_record_target.
RecordStepPermitted(o, t) ==
    /\ op.revision = o.revision
    /\ op.status # "completed"
    /\ ActiveHolds = {}
    /\ op.step[t] # "satisfied"
    /\ Unsatisfied(op, Objects) = {}
    /\ ~work
    /\ op.steps < EvidenceLimit

\* source_query has no identity field for external_task_evidence_link.
Located(t) == t \in records \ Links

\* One record is destroyed or verified, with its evidence, in one transaction.
RecordStep(t) ==
    /\ op' = AfterStep(op, t, IF Located(t) THEN "satisfied" ELSE "missing")
    /\ records' = IF Located(t) THEN records \ ({t} \cap (Deleted \cup Anonymised)) ELSE records

StartRecordStep(w) ==
    /\ At(w, "apply")
    /\ IF RecordStepPermitted(Local(w), worker[w].target)
       THEN Goto(w, [worker[w] EXCEPT !.pc = "applying", !.seen = claim.revision])
       ELSE Stop(w)
    /\ UNCHANGED shared

\* It writes the operation and the target: a hold placed since the snapshot is
\* not seen, a reopening of the Claim is a conflict where the Claim is the target.
RecordStepUnconflicted(w) ==
    /\ Unconflicted(w)
    /\ worker[w].target = ClaimRecord => claim.revision = worker[w].seen

CommitRecordStep(w) ==
    /\ At(w, "applying")
    /\ IF RecordStepUnconflicted(w)
       THEN /\ RecordStep(worker[w].target)
            /\ leeway' = FALSE
            /\ IF op'.status = "reserved" THEN Proceed(w, "records", op') ELSE Stop(w)
       ELSE UNCHANGED <<op, records, leeway>> /\ Rerun(w, "apply")
    /\ UNCHANGED <<claim, work, holds, bytes, reopening, staff, faults, crashes>>

\* RetentionDatabaseStepError: the driver does not know whether the commit was done.
RecordStepUncertain(w) ==
    /\ At(w, "apply") \/ At(w, "applying")
    /\ faults < MaxFaults
    /\ faults' = faults + 1
    /\ \/ /\ At(w, "applying") /\ RecordStepUnconflicted(w)
          /\ RecordStep(worker[w].target)
          /\ leeway' = FALSE
       \/ UNCHANGED <<op, records, leeway>>
    /\ Goto(w, [IdleWorker EXCEPT !.pc = "uncertain", !.target = worker[w].target])
    /\ UNCHANGED <<claim, work, holds, bytes, reopening, staff, crashes>>

\* The operation is read again; a step that was committed is not repeated.
ReloadUncertain(w) ==
    /\ At(w, "uncertain")
    /\ IF op.step[worker[w].target] # "satisfied"
       THEN Goto(w, [worker[w] EXCEPT !.pc = "failure", !.op = op])
       ELSE IF op.status = "completed" THEN Stop(w) ELSE Proceed(w, "records", op)
    /\ UNCHANGED shared

\* Mutant: the failure is recorded on whatever the operation is now.
FailureUnchecked(o, t) == op.steps < EvidenceLimit

\* record_retention_step_failure; it does not look at holds.
FailureRecorded(o, t) ==
    /\ op.revision = o.revision
    /\ op.step[t] # "satisfied"
    /\ op.steps < EvidenceLimit

RecordFailure(w) ==
    /\ At(w, "failure")
    /\ op' = IF FailureRecorded(Local(w), worker[w].target)
             THEN AfterStep(op, worker[w].target, "unknown") ELSE op
    /\ Stop(w)
    /\ UNCHANGED <<claim, work, holds, bytes, records, reopening, staff, faults, crashes, leeway>>

CrashWorker(w) ==
    /\ ~At(w, "idle")
    /\ crashes < MaxCrashes
    /\ crashes' = crashes + 1
    /\ Stop(w)
    /\ UNCHANGED <<claim, work, op, holds, bytes, records, reopening, staff, faults, leeway>>

-----------------------------------------------------------------------------
(* Staff: hold actions.                                                    *)

Request(s, state) == staff' = [staff EXCEPT ![s] = state]

\* _retention_hold_actions on a terminal Claim whose cleanup has not completed:
\* apply while no hold is active, else release.
HoldActionOffered(action, h) ==
    /\ claim.terminal # 0
    /\ op.status # "completed"
    /\ \/ action = "apply" /\ ActiveHolds = {} /\ holds[h] = "absent"
       \/ action = "release" /\ holds[h] = "active"

OfferHoldAction(s, action, h) ==
    /\ staff[s].pc = "idle"
    /\ HoldActionOffered(action, h)
    /\ Request(s, [IdleStaff EXCEPT !.pc = "offered", !.action = action, !.hold = h,
                                    !.revision = claim.revision])
    /\ UNCHANGED <<claim, work, op, holds, bytes, records, reopening, worker, faults, crashes, leeway>>

\* commit_retention_hold_action begins: the Claim is there at the expected
\* revision, and the hold can still make its transition.
HoldUnmoved(s) == holds[staff[s].hold] = IF staff[s].action = "apply" THEN "absent" ELSE "active"

HoldTransitionPermitted(s) ==
    /\ ClaimRecord \in records
    /\ claim.revision = staff[s].revision
    /\ HoldUnmoved(s)

SnapshotHoldAction(s) ==
    /\ staff[s].pc = "offered"
    /\ IF HoldTransitionPermitted(s)
       THEN Request(s, [staff[s] EXCEPT !.pc = "commit", !.op = op,
                                        !.others = ActiveHolds \ {staff[s].hold} # {}])
       ELSE Request(s, IdleStaff)
    /\ UNCHANGED <<claim, work, op, holds, bytes, records, reopening, worker, faults, crashes, leeway>>

\* The transaction writes the operation too: a new hold on an unfinished one,
\* the release of the last hold on a held one.
WritesOperation(s) ==
    /\ staff[s].op # NoOperation
    /\ IF staff[s].action = "apply" THEN staff[s].op.status # "completed"
       ELSE staff[s].op.status = "held" /\ ~staff[s].others

\* Transactions that would destroy something were they to commit now.
InFlight == {w \in Workers : (At(w, "authorizing") \/ At(w, "applying")) /\ Unconflicted(w)}

\* A document written by another transaction since the snapshot is a conflict
\* and the transaction starts again; a document it only read is not.
CommitHoldAction(s) ==
    LET apply == staff[s].action = "apply"
        conflict == ~HoldUnmoved(s) \/ (WritesOperation(s) /\ op # staff[s].op)
    IN  /\ staff[s].pc = "commit"
        /\ IF conflict
           THEN UNCHANGED <<op, holds, leeway>> /\ Request(s, [staff[s] EXCEPT !.pc = "offered"])
           ELSE /\ holds' = [holds EXCEPT ![staff[s].hold] = IF apply THEN "active" ELSE "released"]
                /\ op' = CASE ~WritesOperation(s) -> op
                           [] WritesOperation(s) /\ apply -> Held(op)
                           [] OTHER -> Resumed(op)
                /\ leeway' = IF apply THEN ~WritesOperation(s) /\ InFlight # {}
                             ELSE leeway /\ ActiveHolds \ {staff[s].hold} # {}
                /\ Request(s, IdleStaff)
        /\ UNCHANGED <<claim, work, bytes, records, reopening, worker, faults, crashes>>

-----------------------------------------------------------------------------
(* The Claim.                                                              *)

\* A Claim mutation needs open access: no retention operation in its snapshot.
AccessOpen == op = NoOperation /\ ClaimRecord \in records /\ claim.revision < MaxRevision

\* Expiry and staff abandonment record a retention-eligible terminal disposition
\* at the revision they create.
Terminate ==
    /\ claim.terminal = 0
    /\ AccessOpen
    /\ claim' = [revision |-> claim.revision + 1, terminal |-> claim.revision + 1]
    /\ UNCHANGED <<work, op, holds, bytes, records, reopening, worker, staff, faults, crashes, leeway>>

\* reopen_claim: its transaction only reads that there is no operation, and a
\* reservation only reads the Claim, so neither conflicts with the other.
StartReopen ==
    /\ reopening = 0
    /\ claim.terminal # 0
    /\ AccessOpen
    /\ reopening' = claim.revision
    /\ UNCHANGED <<claim, work, op, holds, bytes, records, worker, staff, faults, crashes, leeway>>

CommitReopen ==
    /\ reopening # 0
    /\ claim' = IF claim.revision = reopening /\ ClaimRecord \in records
                THEN [revision |-> claim.revision + 1, terminal |-> 0] ELSE claim
    /\ reopening' = 0
    /\ UNCHANGED <<work, op, holds, bytes, records, worker, staff, faults, crashes, leeway>>

\* resolve_handoff is offered on a terminal Claim too and advances its revision.
ResolveHandoff ==
    /\ work
    /\ AccessOpen
    /\ work' = FALSE
    /\ claim' = [claim EXCEPT !.revision = @ + 1]
    /\ UNCHANGED <<op, holds, bytes, records, reopening, worker, staff, faults, crashes, leeway>>

-----------------------------------------------------------------------------

Init ==
    /\ claim = [revision |-> 1, terminal |-> 0]
    /\ work \in BOOLEAN
    /\ op = NoOperation
    /\ holds = [h \in Holds |-> "absent"]
    /\ bytes = Objects
    /\ records = Records
    /\ reopening = 0
    /\ worker = [w \in Workers |-> IdleWorker]
    /\ staff = [s \in Staff |-> IdleStaff]
    /\ faults = 0
    /\ crashes = 0
    /\ leeway = FALSE

\* One worker's cycle.
Work(w) ==
    \/ StartReservation(w) \/ CommitReservation(w)
    \/ DiscoverPending(w) \/ StartFreeze(w) \/ CommitFreeze(w) \/ LoadOperation(w)
    \/ CheckHoldsForObjects(w) \/ RefreshForHold(w) \/ SaveHeld(w)
    \/ StartAuthorization(w) \/ CommitAuthorization(w) \/ DeleteObject(w)
    \/ StartObjectResult(w) \/ CommitObjectResult(w) \/ FinishObjects(w)
    \/ CheckHoldsForRecord(w) \/ StartRecordStep(w) \/ CommitRecordStep(w)
    \/ RecordStepUncertain(w) \/ ReloadUncertain(w) \/ RecordFailure(w)

HoldRequest(s) ==
    \/ \E action \in {"apply", "release"}, h \in Holds : OfferHoldAction(s, action, h)
    \/ SnapshotHoldAction(s)
    \/ CommitHoldAction(s)

Next ==
    \/ \E w \in Workers : Work(w) \/ CrashWorker(w)
    \/ \E s \in Staff : HoldRequest(s)
    \/ Terminate \/ StartReopen \/ CommitReopen \/ ResolveHandoff

Spec == Init /\ [][Next]_vars

\* The worker runs cycle after cycle, and MongoDB and the object store answer;
\* nobody is obliged to place, release, resolve or reopen anything, but a hold
\* request, once sent, is answered.  (Every such step moves its worker or request.)
FairSpec ==
    /\ Spec
    /\ \A w \in Workers : WF_worker(Work(w))
    /\ \A s \in Staff : WF_staff(SnapshotHoldAction(s) \/ CommitHoldAction(s))

-----------------------------------------------------------------------------
(* Properties.                                                             *)

\* Every stored operation satisfies the record's own validation
\* (RetentionOperation.validate_operation), and every local copy is an operation.
TypeOK ==
    /\ claim \in [revision : Nat, terminal : Nat]
    /\ work \in BOOLEAN
    /\ op \in Operations \cup {NoOperation}
    /\ op # NoOperation => ValidOperation(op)
    /\ holds \in [Holds -> {"absent", "active", "released"}]
    /\ bytes \subseteq Objects
    /\ records \subseteq Records
    /\ reopening \in Nat
    /\ worker \in [Workers -> WorkerStates]
    /\ staff \in [Staff -> StaffStates]
    /\ faults \in Nat /\ crashes \in Nat
    /\ leeway \in BOOLEAN

\* What the operation says is done is done: bytes of a satisfied object are gone,
\* a satisfied record of a destroyed class is gone, and nothing that was to be
\* kept is missing (record_retention_object_result, apply_retention_record_target).
EvidenceTruthful ==
    op # NoOperation =>
        /\ \A t \in Objects : op.step[t] = "satisfied" => t \notin bytes
        /\ \A t \in Deleted \cup Anonymised : op.step[t] = "satisfied" <=> t \notin records
        /\ Retained \cup Links \subseteq records

\* Cross-store order: no record is destroyed while bytes of a frozen object are
\* left, so no bytes ever lose the record that names them.
BytesBeforeRecords == records # Records => op.targets \cap bytes = {}

\* A hold stops cleanup.  While one is active no record is destroyed and no
\* further deletion is authorized, with one exception: the transaction that placed
\* the hold found no operation, so it wrote none (_persist_retention_hold), and a
\* transaction open at its commit (authorize_retention_object_target,
\* apply_retention_record_target) did not see the hold.  Then one such transaction,
\* whichever worker's, still commits, and everything after it is stopped; a hold
\* that wrote the operation lets none through.
HoldStopsCleanup ==
    [][ActiveHolds # {} =>
          \/ leeway
          \/ /\ records' = records
             /\ op # NoOperation => op'.authorized = op.authorized]_vars

\* With one worker, at most the one deletion authorized before the hold still
\* reaches the object store while the hold is active.
OneDeletionInFlight ==
    [][ActiveHolds # {} /\ bytes' # bytes =>
          op.active # NoAuthorization /\ bytes \ bytes' = {op.active.target}]_vars

Eligible == claim.terminal # 0 /\ claim.terminal = claim.revision /\ ~work
\* The cleanup of an eligible terminal Claim comes to completion, through
\* failures and worker crashes, unless the Claim is reopened or a hold stops
\* it (what a release then does is ReleaseResumes, below).
CleanupCompletes ==
    Eligible ~> (op.status \in {"completed", "held"} \/ ~Eligible \/ ActiveHolds # {})

\* docs/api.md: "release lets the same RetentionOperation resume".
ReleaseResumes ==
    (op.status = "held" /\ ActiveHolds = {}) ~> (op.status # "held" \/ ActiveHolds # {})

\* docs/api.md: "while any hold is active, retention cleanup stays `held`".
HeldWhileHoldActive ==
    op # NoOperation /\ op.status # "completed" /\ ActiveHolds # {} => op.status = "held"

\* docs/persistence-schema.md: a hold "prevents later object or database targets".
HoldBlocksDestruction ==
    [][ActiveHolds # {} =>
          /\ records' = records
          /\ op # NoOperation => op'.authorized = op.authorized]_vars

\* docs/persistence-schema.md: "Retention cleanup locates each frozen database
\* target by its own identity field scoped to the Claim."
TargetsLocated ==
    op # NoOperation => \A t \in records : op.step[t] # "missing"

\* reopen_claim: "Clear an authorised abandoned/closed disposition and restore
\* active projection."
ReopenedKept == [][claim.terminal = 0 => bytes' = bytes /\ records' = records]_vars

\* domain/retention.py: "so every eligible terminal reaches retention".
TerminalReachesRetention ==
    claim.terminal # 0 ~> (op # NoOperation \/ claim.terminal = 0 \/ work)

=============================================================================
