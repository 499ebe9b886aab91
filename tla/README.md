# Northwind FNOL agent: TLA+ models, checks and proofs

This directory holds a formal model of the parts of the Northwind
first-notice-of-loss service in which several requests, worker processes and
external services act on the same stored records. The models are TLA+ modules;
TLC checks them on small instances, and TLAPS checks proofs that hold for every
value of their constants. `PROJECT.json` lists the parts of the system, the
runs, the lines of code every definition stands for, the hazards, and the
theorems.

Contents: [1 The system](#1-the-system) ·
[2 Inventory](#2-inventory) ·
[3 Modules](#3-modules-and-their-correspondence-to-the-code) ·
[4 Runs](#4-runs) ·
[5 Proofs](#5-proofs) ·
[6 Disagreements](#6-where-code-and-documents-disagree) ·
[7 Not modelled](#7-what-is-not-modelled) ·
[8 Plan](#8-plan) ·
[9 Running](#9-running-the-tools)

## 1 The system

`backend/` is a FastAPI application over MongoDB. Its handlers are synchronous
functions that the framework runs on a thread pool, so any number of requests
are in progress in one process, and several processes may serve the same
database. Beside it runs a recovery worker (`services/recovery_worker.py`), a
loop that contacts claimants, ends overdue recoveries, and destroys the data of
terminal Claims. The claims service, the assessor service, the language model
and the object store are external.

Three facts about the code decide how everything is modelled:

* **Most repository methods are one transaction.** `MongoDBRepository._atomic`
  (`repositories/mongodb.py`) runs them in a transaction with snapshot
  isolation; `Repository` says which ones, for this backend and for the
  in-memory one (`repositories/fixture.py`). Two transactions that write one document are ordered:
  one of them is retried or refused. Two that only read what the other writes
  both commit (write skew). A service function is a sequence of repository
  calls and external calls, and anything may happen between two of them.
* **The Claim is guarded by compare-and-swap.** Each write of a Working Claim
  names the `revision` it was computed from and is refused when the stored one
  differs. Records beside the Claim (operations, Follow-ups, idempotency
  records, retention operations) have rules of their own, and the interesting
  errors are between the two.
* **Requests are repeated.** Every mutating route takes an `Idempotency-Key`; a
  client that saw no answer sends the request again, under the same key or a
  new one, while the first may still be running.

## 2 Inventory

| Component | State | Operations | Hard part | Correct when |
|---|---|---|---|---|
| **External Claim creation** (`services/claim_creation.py`, `services/integrations.py`, `domain/claim_creation.py`) | Working Claim, confirmed decisions, one creation operation per Claim, remembered responses | claimant's creation route, integration route, reconciliation, settlement | lost answers of the claims service, two routes at once, a crash between recording and settling | at most one formal Claim is created and its result is recorded once |
| **Incomplete-claim recovery** (`domain/follow_up_execution.py`, `services/follow_up_recovery.py`, `incomplete_claims.py`, `terminal_claims.py`) | Claim, Sessions, Follow-ups, contact operations, the clock | pause, resume, due contact, expiry, withdrawal, staff abandonment, reopening, backfill of old records | worker against claimant against staff around a deadline | one obligation at a time, contacted only with authority, ended once, as the deadline says |
| **Retention** (`services/retention.py`, `retention_holds.py`, `domain/retention.py`) | Claim, retention operation with frozen targets and step evidence, holds, bytes, records | reserve, freeze, authorize, delete, record result, destroy records, place and release a hold | two stores without a common transaction; holds racing the worker | nothing destroyed out of order, under a hold, or recorded as destroyed when it is not; cleanup completes |
| **Claimant message turns** (`services/messages.py`) | Claim revision, messages, idempotency records, Agent decisions, handoffs | submit, accept, safety handoff, ask the model, recover, commit, freeze the response, alias and replay | seconds pass in the model call while the client retries | a message is answered once, a key has one outcome, nothing is left hanging |
| **Assessor routing and dispatch** (`services/integrations.py`, `external_service_offers.py`) | assessor tasks, dispatch holds, external operations | permit, route, dispatch, receive a report, reconcile | unknown outcomes over six records written one after the other | the Claim's routing rests on complete records; an unknown outcome is not sent again |
| **Ownership, handoffs, staff actions** (`services/ownership.py`, `handoffs.py`, `claim_acceptance.py`, `staff_actions.py`, `workbench.py`) | assignee, active handoff, cowork and transfer requests, work items, decision | accept, message, share, transfer, requeue, resolve, decide | the owner is kept twice and read in two orders | the two agree; nothing is out of everybody's reach; losing the Claim ends access |
| **Evidence and PDF processing** (`services/evidence.py`, `pdf_processing.py`) | evidence, attempts with a lease, fact decisions | upload, complete, reserve, attempt, defer, remove | an attempt that outlives its lease | facts come from the file the item has; only the holder of the latest reservation settles it; processing ends |
| **Realtime** (`services/realtime.py`, `api/realtime.py`, the clients' stream handling) | durable events, dispatcher cursor, subscriber queues | publish, poll, replay, deliver, resynchronise | bounded queues, replay beside live delivery | no event lost without a resynchronisation; every event reaches an open browser |
| **Configuration and release sets** (`services/configuration.py`, `release_sets.py`, `repositories/`) | revisions of configurations, approvals, release sets | draft, review, approve, publish, withdraw, roll back | publications that overlap | the runtime always has a release set it can resolve; history does not fork; high impact is approved by another person |
| **Repositories** (`repositories/protocols.py`, `fixture.py`, `mongodb.py`) | every record of a Claim | 73 mutating methods, each in two backends | no transactions in memory; write conflicts, repeated bodies and write skew in MongoDB | a call takes effect as a whole or not at all, on the revision it was given |
| Recovery worker sweeps (`services/recovery_worker.py`) | pages of candidates | expire, contact, retain | candidates that fail every cycle | every candidate is reached |
| Account data and payout selection | selections with revisions | select, replace | - | - |
| The rest (Agent reasoning, staff assistant, tags, projections, identity, model gateway, knowledge, storage adapters, demo data, web clients, automation) | see `PROJECT.json` | | | |

How they interact: all of them write the Working Claim and meet at its
`revision`; pausing a Session creates the recovery obligation; an expired,
abandoned or completed Claim becomes a candidate of retention, which closes
access to it; a message turn opens a handoff, after which a person and not the
Agent has the conversation; claim creation reads the evidence and the confirmed
decision; a dispatched assessor's unknown outcome becomes a work item of the
staff who own the Claim; published release sets are what every turn runs with;
every durable change appends an event that realtime delivers.

The hazards of the components are in
`PROJECT.json`, each at the line where it bites, with the properties that would
catch it.

## 3 Modules and their correspondence to the code

Every state change, guard, early return and error path of a modelled handler is
in its action; texts, formatting, logging, audit events and read-side
projections are left out. A payload is represented by what tells two of them
apart. `PROJECT.json` maps each definition to the lines it stands for.

### ClaimCreation, ClaimLodgement

`ClaimCreation` models one Working Claim and any number of handler threads.
`claim`, `evidence`, `decisions`, `op` and `idempotency` are stored records,
`lodged` counts the create requests the claims service acted on (external), and
`req[r]` is a thread: its control point, its payload, and the records it has
read and will use later.

| Actions | Code |
|---|---|
| `ClaimantRequest`, `Gate`, `Decide`, `Snapshot`, `Remember` | `create_claim_from_confirmed_report`: replay of a remembered response, the confirmed decision, the evidence snapshot, remembering the response |
| `IntegrationRequest`, `Load`, `Lookup` | the integration route and the checks of `create_external_claim` up to its reservation |
| `Reconcile`, `Reconciled` | an operation of unknown outcome: ask the service what it has |
| `Reserve`, `Recover`, `Call`, `Called` | reserve the operation, decide how a reserved one is recovered, call the service, record its answer |
| `Reload`, `Settle` | read the Claim again and write result and operation in one transaction |
| `ClaimMutation`, `EvidenceMutation`, `CloseClaim`, `ReopenClaim` | other writers |
| `Crash` | a thread stops between two steps |

`ClaimLodgement` is the abstract specification: the service acts on at most one
create request of a Claim, and the Claim records its outcome once, and only
afterwards. `LodgedOnce` is the refinement: `lodged` is itself, and the abstract
`external` is the Claim's recorded result.

Abstractions: the readiness rules before authorisation are a refusal that may
hit any request; the several reads of `Lookup` are one step because `Reserve`
checks again what they found; a payload is its key, its Claim revision (which
fixes form and route) and its evidence version.

### FollowUpRecovery

One Claim, its Sessions, and the Follow-up each paused Session is the source
of; workers and callers are threads. Each handler takes a timestamp, reads,
computes a transition and commits; the repository reads again, recomputes the
transition and writes only when both agree. So a handler is a reading and a
committing step, after a step of its own for a timestamp taken earlier:
`StartCycle`, `CommitExpiry`, `ReadDue`, `CommitDue` (the worker),
`StartResume`/`ReadResume`/`CommitResume`, `StartPause`/`CommitPause`,
`ReadAbandon`/`CommitAbandon`, `ReadWithdraw`/`CommitWithdraw`, and the single
transactions `Reopen`, `AgentTurn`, `ClaimCreated`, `Backfill`. `Tick` is the
clock.

Abstractions: reading one record at a time could only add commits that are
refused, so the reads of a handler are one step; a Session is paused at most
once, so a Follow-up is named by its Session; retention closing access to the
Claim is left to `Retention`.

### Retention

One terminal Claim, its one retention operation, its holds, the bytes in the
object store (external) and the records in the database. `worker[w]` follows
`execute_retention_cleanup`: `StartReservation`/`CommitReservation`,
`StartFreeze`/`CommitFreeze`, `LoadOperation`, `CheckHoldsForObjects`,
`RefreshForHold`, `SaveHeld`, `StartAuthorization`/`CommitAuthorization`,
`DeleteObject`, `StartObjectResult`/`CommitObjectResult`, `FinishObjects`,
`CheckHoldsForRecord`, `StartRecordStep`/`CommitRecordStep`,
`RecordStepUncertain`, `ReloadUncertain`, `RecordFailure`, `DiscoverPending`.
Staff requests are
`OfferHoldAction`, `SnapshotHoldAction`, `CommitHoldAction`; other writers are
`Terminate`, `StartReopen`/`CommitReopen`, `ResolveHandoff`.

A method is one step where all it reads is in the documents it writes. It has a
snapshot (`Start...`, `Snapshot...`) and a commit where its decision rests on
documents it does not write: reservation, freeze, reopening and hold actions;
and authorization, result and record step, which read the holds and write the
operation. The commit is refused, and the method run again, when another
transaction has written the operation since (`Unconflicted`); for the record step
also when the Claim it destroys has been written. That is what lets write skew
happen: a hold placed by a transaction that found no operation
(`_persist_retention_hold`, `repositories/mongodb.py:2623-2641`) writes none, and
an authorization or record step that was open at its commit goes through. The
history variable `leeway` says that there is such a transaction: a hold commit
that wrote no operation sets it when one is in flight (`InFlight`), and the first
authorization or destruction clears it. No action reads it.

Abstractions: the open responsibilities that block cleanup are one flag,
`work`; objects are deleted in any order; step evidence is its latest status
and its count; a failed record step always reports an unknown outcome;
tombstone contents, audit events and the retirement of idempotency records are
left out.

### MessageTurn

One conversation. `log` tells who wrote each Claim revision; `record[k]` is the
idempotency record of a key, `message[m]` the stored message, `decisions` the
committed Agent answers, `told[k]` the successful responses sent under a key.
A thread goes through `FindKey`, `Classify`, `Alias`, `Load`, `Handover`,
`AcceptNew` or `AcceptRetry`, `Safety`, `Propose`, `Recover`, `Commit`,
`Freeze`; an API error goes through the decorator `_settle_accepted_error`
(`Settle`, `SettleError`). `OtherMutation` is every other writer of the Claim
or its handoffs, `Crash` a thread that dies.

Abstractions: every request that names a client message carries the same
payload; what the model answers, whether it fails, and whether its proposal is
valid are free choices of `Propose` and `Commit`; that a failure trace exists is
implied by the absence of a decision; retired keys and retention's closure are
left out; offers write as `OtherMutation`.

### Realtime

`counter` and `txn[p]` are the event counter and the transactions that hold a
number of it, `events` the committed events; `dstate`, `page`, `processed`,
`offering` the dispatcher thread; `sub[c]` and `client[c]` the two ends of a
stream. An event is its number. The page being drained and a replayed backlog
are sets of numbers taken oldest first (`First`): both are replies to one query
in ascending order. A queue is a sequence, since its order is what the code has
to get right.

| Actions | Code |
|---|---|
| `TakeSequence`, `Commit`, `Abort` | publication inside the mutation's own transaction |
| `ReadPage`, `Publish`, `Offer`, `Advance`, `FinishDrain` | `RealtimeDispatcher`: read a page, offer each event to the subscriptions, advance the cursor |
| `StoreFails`, `RequireResync`, `Restart`, `SourceFails`, `SourceReady` | a failed read and its recovery, a restart, the change stream that only wakes the dispatcher |
| `Connect`, `Replay`, delivery | `subscribe` before `replay`, the bounded queue, the overflow that clears it and leaves one resynchronisation signal |
| browser steps | cursor, snapshot and reconnection of both web clients |

Left out: events of the first release without a number, a demo reset that
deletes events under a cursor, and which projections an event names.

### Evidence

One evidence item of one Claim, its staged and final bytes, the field it
proposes, the reservation of the current attempt and the workers. A revision is
not counted: an actor keeps `current`, true until anybody commits. The claimant
registers, requests, uploads, completes, retries, decides and removes; a worker
sweeps, reserves, attempts, defers, settles, crashes or outlives its lease; the
integration service reports results; images are put right.

Left out: links that reuse an item in another Claim, staff corrections of a
reading, and the two halves of the copy between staging and final objects.

### Dispatch

One permission (`k`) names everything derived from it: authority, operation,
task, request, awaited material, result. `route_assessor` is a thread that
writes them one at a time (`Ask`, `CallerStep`); `Reconcile`, `CheckStatus`,
`SettleReconciliation`, `CompleteItem` are the reconciliation, `AskReport`,
`Arrive`, `Bind`, `SaveResult`, `Verify`, `Receive` the report's way back, and
`Interrupt` stops a caller between any two writes.

Left out: generic service offers other than the assessor's, retention of a
declined offer, and the task views staff read.

### CaseWork

One Claim. Each staff operation commits at the revision the page showed, so it
is one action; a stale page is refused. The exception is the external task,
which moves without the Claim, so `CheckRequeue` and `RequeueClaim` are two
steps. `HandoffFirst` and `ClaimFirst` are the two readings of the owner; each
action has the guard of the projection that offers it *and* the guard of the
service that executes it.

Left out: presence leases, signal decisions, direct messages, questions to the
claimant, and the queues staff read.

### ControlPlane

A configuration is a sequence of immutable revisions; its last one says where it
stands. A release set names revisions. A publication reads its own record, then
the active one, and then writes (`StartPublish`, read, write); a rollback reads
a target its write does not compare. Single transactions (`CreateConfiguration`,
`PatchConfiguration`, `ValidateConfiguration`, approval, withdrawal, drafting a
release set) are one action.

Left out: what values a domain accepts, knowledge and integration references of
a release set, the installer's release set, idempotency records, the audit log.

### Repository, MemoryMethods, MongoMethods, PersistenceContract

The other modules take a repository method as one step. `Repository` justifies
that, and says where it is not justified. `PersistenceContract` has a row per
mutating method of the protocols: the records its parameters carry, which are
in effect when it has returned, and the records it is told the state of.
`MemoryMethods` and `MongoMethods` have the row of its implementation: how it is
protected (a lock, a lock and a copy of the dictionaries that is put back, a
transaction, a comparing write, nothing), what it tests, and what it writes, in
that order. `Repository` runs calls of any two methods write by write, on either
backend.

| Actions | Code |
|---|---|
| `Call` | a service that has read the records a method compares |
| `TestAccessFirst`, `Enter` | tests before the lock; the lock and the copy, or the snapshot |
| `Pass`, `Raise`, `ReturnUnchanged` | the tests succeed; one of them fails, at the latest place it may; nothing is to be done |
| `Assign`, `Return` | one assignment to a dictionary, or one plain write |
| `WriteInTransaction`, `RunAgain`, `Commit` | one write of a transaction, a write conflict and the body run again, the commit (MongoDB's part is external) |

`search` is the Claim's `staff_search` projection: the writes of evidence and
handoffs it was made from, or `Absent`, or `Partial`. `ProjectionAfter` says what
a transaction makes of it. `_put` and `_replace_claim_revision` project the
transaction's snapshot and its own writes; `save_session_mutation`, the staff
abandonment and the recovery expiry replace the Claim without it (`bare_claims`);
`_promote_claim_owner` moves the documents to another customer
(`moved_claims`, `moved_evidence`, `moved_handoffs`) and sets only
`staff_search.customer_reference`, so a complete projection stays complete (no
other field of it depends on the customer) and a missing one becomes a fragment.

The store is the set of writes in effect, named by the call that made them, so a
revision of a record is the set of calls that wrote it. MongoDB is taken to give
each transaction a snapshot, to refuse a write of a document that another
transaction has open or has committed since, and to run the body again
(`with_transaction`).

Left out: reads and paging, codecs and indexes, the backfills at start (that of
`staff_search` reads the records and writes the Claim outside a transaction,
guarded by the Claim's revision only, so one that another process runs during
traffic could put back an older projection), and the
tests a method makes of its arguments against each other, which may refuse any
call.

### Proof and MC modules

The `*Proofs` modules hold the theorems (section 5), each beside the module it
is named after. `ClaimFileProofs` is about three modules, `Repository`,
`CaseWork` and `Evidence`; so that it can extend them all, the customary names of
a specification have a prefix in `CaseWork` (`CaseInit`, `CaseNext`, `CaseSpec`,
`caseVars`) and in `Repository` (`RepositoryInit`, ...). `MC*` modules add only the symmetry sets TLC uses.

## 4 Runs

All runs hold but `recovery_late_cycle`, which shows a disagreement (section 6).

| Run | Module, configuration | What it shows |
|---|---|---|
| `creation` | `MCClaimCreation`, `ClaimCreation.cfg` | two threads on both routes, lost, partial, refused and terminal answers, a crash, and other writers that change, close and reopen the Claim: the operation implements `ClaimLodgement` (`LodgedOnce`); a recorded result is not lost (`ResultNeverLost`) |
| `creation_settles` | `ClaimCreationLiveness.cfg` | a recorded result is settled by unchanged retries, after a crash too, unless Claim, evidence or decision moved (`PendingSettles`) |
| `recovery` | `MCFollowUpRecovery`, `FollowUpRecovery.cfg` | a worker against a claimant or staff request: one obligation (`OneObligation`), attempts counted and limited (`AttemptsAccounted`), on schedule and before the deadline (`ContactWithinPolicy`), ended once and as the deadline says (`ResolutionFinal`, `DeadlineDecides`), every bound obligation ends, blocked ones too (`ExpiryHappens`) |
| `recovery_late_cycle` | `FollowUpRecoveryLate.cfg` | expected to fail: two workers and two overdue attempts leave operations that cannot be read (`OperationsReadable`) |
| `retention` | `MCRetention`, `Retention.cfg` | two workers, a failing store, an uncertain commit, a crash, a hold at any moment: evidence is true (`EvidenceTruthful`), bytes go before records (`BytesBeforeRecords`), under a hold nothing is authorized or destroyed but by one transaction that was open when a hold that found no operation was placed (`HoldStopsCleanup`), and cleanup of an eligible Claim completes, is held, or the Claim stops being eligible (`CleanupCompletes`) |
| `turns` | `MCMessageTurn`, `MessageTurn.cfg` | two messages, one that asks for a person, sent three times under up to three keys on two threads: answered once (`AnsweredOnce`), one response per key (`OneTurnPerKey`), never left hanging (`NeverLeftHanging`), the Agent does not speak into a person's conversation (`AgentStaysOut`), no stale confirmation counts (`ConfirmationNotRevived`) |
| `realtime` | `MCRealtime`, `Realtime.cfg` | two publishers, the dispatcher, a browser, an outage or restart and a broken connection anywhere: an open, loaded browser misses nothing (`NothingMissed`), its cursor claims no more than it knows (`CursorHonest`), every event reaches it (`EventuallyKnown`) |
| `evidence` | `MCEvidence`, `Evidence.cfg` | two workers, two generations and contents, a retry, two troubles: facts are of the present file (`FactsFromCurrentMaterial`), only the holder settles (`SettledByHolder`), processing ends (`ProcessingSettles`) |
| `dispatch` | `MCDispatch`, `Dispatch.cfg` | two callers, a reconciler, a receiver, one failure of each class, an interruption anywhere: `RoutingBacked`, `ResultTraced`, `UnknownNotResent`, and an acceptance on record reaches the Claim (`AcceptedReachesClaim`) |
| `casework` | `MCCaseWork`, `CaseWork.cfg` | three members of staff on one Claim: `OneOwner`, `NeverStranded`, `LosingOwnershipEndsAccess` |
| `control_plane` | `MCControlPlane`, `ControlPlane.cfg` | two administrators with two publications or rollbacks in service: `RuntimeAvailable`, `LinearHistory`, `ApprovedContent` |
| `repository` | `MCRepository`, `Repository.cfg` | any two of the 73 mutating methods at once, on each backend, with every refusal, roll-back and repetition: a call that raised has left nothing and one that returned has written what the protocol promises (`AsPromised`), one of two calls with the same revision or key wins (`OneWinner`), events are numbered without gaps (`EventsNumbered`), staff search never goes by an outdated projection (`SearchNeverStale`) |

Each property has a mutant in `PROJECT.json`: a definition of
the code with a plausible error in it (a dropped guard, a stale read, a swapped
order), for which TLC finds the property violated. The mutated definitions are
next to the originals in the modules, marked `Mutant`. The type invariants of
Retention, Realtime, Evidence, Dispatch, ControlPlane and Repository hold too;
they are in the modules (`TypeOK`) and not in the runs.

### Bounds

All bounds are constants, and all of them appear in guards.

* *ClaimCreation*: two threads are enough for every race of the caller with a
  second caller or reconciler, since the operation is one record and both
  threads may be on either route; the theorems of section 5 cover any number.
  `MaxRevision = 3` lets the Claim be closed and reopened under a thread, and
  `MaxCrashes = 1` lets a thread stop after any step. One retryable and one
  terminal code stand for all, since `Classify` treats them alike. The liveness
  run has a single result, one Claim change and a crash.
* *FollowUpRecovery*: `RecoveryDeadline = 3`, `RetryInterval = 1` and
  `MaxAutoRetry = 2` keep the ratios of 7 days, 24 hours and 3 attempts: the
  last attempt is scheduled before the deadline and the clock reaches it. Two
  Sessions let a Claim be resumed, paused again, ended and reopened. `recovery`
  has one worker, because `ExpiryHappens` is false of two (section 6); two of
  them are in `recovery_late_cycle`, and any number in the theorems of section 5.
* *Retention*: the Claim is terminated and reopened once (`MaxRevision = 3`);
  one target of each class, since no action relates two targets of
  a class except that the Claim comes last; one hold, placed and released at any
  moment, also before the reservation's commit is visible to it; one fault and one crash, so a retry meets a half-done step.
  `EvidenceLimit` is large enough for the steps of two attempts.
* *MessageTurn*: three requests on two threads are the owner of a key, its
  repetition and a retry under a new key; one other writer; one crash.
* *Realtime*: a queue of two overflows with the third event, so that a stream
  can read one event between the dropping of the other two (a torn browser); a
  replay window of one is exceeded by two; a recovery puts its signal before
  events that are still to come.
* *Evidence*: two generations and two contents, so that a late attempt can meet
  a replaced file; two troubles, so that a crash can be followed by a lost race.
* *Dispatch*: one failure of each class (known unsent, known sent, unknown), two
  attempts, and one interruption, which may fall between any two writes.
* *CaseWork*: three members of staff are an owner, a former owner and a new one;
  two pending requests leave a stale one behind.
* *Repository*: two calls, which is what a race takes: a roll-back, a conflict or
  a stale snapshot concerns one call and one that wrote meanwhile. Every pair of
  methods is tried, with the same key and with different ones. That a third call
  changes nothing is not left to the bound: it is proved (section 5).
* *ControlPlane*: two configurations, so that one supersedes the other, and four
  beginnings (drafts, edits and requests), two of them in service at a time.

Deadlock checking is on for ClaimCreation and FollowUpRecovery. It is off for
the others, which end when their bounded work is done.

### Fairness

* *ClaimCreation*: weak fairness of each received request's steps (the framework
  runs a handler to its end), and strong fairness of the unchanged retry. The
  retry is the client's, not the server's: the documented promise is about what
  a retry achieves, so the property is stated for a client that keeps retrying.
* *FollowUpRecovery*: weak fairness of the clock and of each worker
  (`recovery_worker_main.py` loops for ever, and a failed candidate does not end
  the cycle). Nobody is assumed to resume, withdraw or abandon.
* *Retention*: weak fairness of each worker, and of a hold request once it is
  sent. Nobody is assumed to place or release a hold, to resolve or to reopen.
* *Realtime*: the dispatcher thread loops for ever, and a browser reconnects
  until its page is closed. No mutation is assumed.
* *Evidence*: weak fairness of each worker's sweep and attempt (the provider's
  call has a time limit), of the lease's end and of the image sweep. Nothing is
  assumed of the claimant.
* *Dispatch*: weak fairness of each caller: a request that runs goes on, and the
  claimant's next turn asks again for a permission that is not yet routed.

MessageTurn, CaseWork, ControlPlane and Repository are checked for safety only.

## 5 Proofs

The theorems hold for any number of threads, workers, keys, messages, results,
targets and failure codes, and for all bounds. They use only the assumptions
named in the modules: `CallsAssumption` (the marker for what was there before is
not a call); `CreationConstants`; `MessageTurnAssumption` with
`NoRecordAssumption` (the marker for an absent record is not a record);
`RecoveryConstants` (a policy the reducers accept); `RetentionConstants`
(the inventory's classes are disjoint); `ControlPlaneAssumption` and
`DispatchAssumption` (types of the bounds); of `Realtime` `ClientsAssumption`
(no browser is of both kinds), `KindsAssumption` and `BoundsAssumption` (a
queue and a replay window hold at least one event); `CaseWorkAssumption` (there is
somebody on the staff); and of `Evidence` the types of its constants.

**`ClaimCreationProofs`** proves `TypeCorrect`, `RetryIsSafe`,
`AcceptedExactlyWhenSettled`, `RememberedResponsesSettled`,
`RecordedResultSurvives`, `SettlementLosesNoUpdate` and the refinement
`LodgesOnce`. The inductive invariant `SafeInv` has five parts:

* `TypeInv`: types, and that the operation a thread holds is a valid record that
  fits its control point (`ThreadOK`). Without the latter the writes of `Called`
  and `Reconciled` could not be shown valid.
* `LodgeInv`: at most one thread is calling the service, nobody is while the
  operation is open to a new attempt, and an open operation was never lodged.
  "At most one create takes effect" is not inductive by itself: a retry is safe
  because the record it starts from says `not_submitted` *and* no other thread
  has a call out that could still arrive.
* `AcceptedIffSettled`, which the settlement and the recovery of a settled Claim
  preserve together.
* `VersionInv`: a thread that holds the present revision holds the present
  Claim. That turns the compare-and-swap of `Settle` into "no unread change is
  overwritten".
* `ResponseInv`: a thread past authorisation has a decision, and one that is
  about to remember answers for the revision the Claim was settled for.

The refinement theorem maps each step to a step of `ClaimLodgement` or a
stutter: `Call` to `Lodge`, `Settle` to `Record`.

**`MessageTurnProofs`** proves `TypeCorrect`, `KeyTellsOneTurn`,
`OutcomesFinal`, `MessageAnsweredOnce`, `AgentKeepsOut`, `ConfirmationStaysDead`
and `NobodyIsLeftHanging`. Each action has a lemma that states its effect on
records and threads; four inductive invariants are built on these, each one
resting on those before it.

* `RecordInv`: types; a thread past acceptance has a record under its key
  (`Holding`); whatever was told under a key is what its record says
  (`ToldAsRecorded`). The last is needed because responses are sent from three
  places (commit, replay, alias), at different times.
* `TurnInv`: `AnsweredOnce`; decisions are on stored messages and no later than
  the Claim (`DecisionsStored`); and, for each thread, the revision it carries
  precedes every decision on its message (`ThreadInv`). This is the reason why
  the second compare-and-swap answers a message once: when one of two retries
  commits, the revision the other one holds is no longer the present one, and
  it cannot obtain a newer one without passing `Classify` or `Load` again.
* `PlaceInv`: every inbound checkpoint says truly where in the Claim's history
  its message is (`PlacedAt`), and a thread that has judged the Claim and still
  holds its revision may go by what it judged (`PlaceOfThread`): nobody has
  taken the conversation, and a confirmation has seen nothing but its own
  message since. Any commit of anybody else makes the premise false
  (`PlaceMoves`), so it need not be known what the commit was. A retry knows
  that its message is the next thing in the history after what was shown only
  because it has its place from the checkpoint; that is why the records are in
  the invariant and not the threads alone.
* `HangInv`: a stored message is resolved (answered, or open to a retry), handed
  over, or carried by a thread whose key's checkpoint is open (`MessageOK`), and
  whoever closes that checkpoint, the thread or another one with its key,
  resolves the message (`Progress`). The weak point is the error that is
  settled with an old copy of the message and takes its recovery rule away
  (`RetryActionKept` in section 6): `ThreadOK` says that a failed checkpoint is
  then left in its place. `OneCheckpoint`, that a message's inbound checkpoints
  are copies of one, is what makes the checkpoint `Classify` reads the failed
  one, or one as good.

**`ClaimFileProofs`**, of Repository, proves `PromisesKept`, `OneReturns`,
`SequenceIsGapless`, `SearchIsNeverStale` and `RepositoryTyped`, for any number of
calls of any of the 73 methods and for either backend. What the proof needs of a
method is stated once for its row of the table and proved of every row
(`MemoryRows`, `MongoRows`): who may write the events and destroy, that a method
that may raise after its first write has a copy to put back (one, with messages,
has not), and that a row keeps the promise of its method (`Honours`): it writes
the records promised, and tests what it is told the state of if it writes it.
Given that, the invariant is one of calls and not of methods. Its layers rest
each on those before:

* `Effects`: what is in the store, or in a copy that may be put back, was written
  by a call that counts, up to where that call is. With it a call that has raised
  has left nothing.
* `Stays`: what a protected call has written is in effect, or destroyed. For this
  the copy of a call inside the lock must agree with the store about everybody
  else who is protected (`CopyCurrent`); about those without the lock it need not,
  which is the divergence `UnlockedKept` of section 6.
* `Isolated`, of transactions: what a transaction has written nobody else has
  open (`Apart`), and whoever has written it in the store is in the transaction's
  snapshot (`Latest`). A commit preserves it because the others' documents were
  held, and a plain write because it waits for them.
* `Decided`: of two calls that can no longer be refused and that test and write
  the same record, one has the other's write in what it was given. In memory the
  later one finds it under the lock; in MongoDB `Latest` puts it in the snapshot
  that was tested.
* `Counted`: the events of the store are numbered 1 to the sequence, those of each
  open snapshot 1 to its sequence, and a call inside the lock has the next number.
  A commit that adds an event has a snapshot with the same events, hence the same
  sequence (`NumberedOnce`).

Two things came out of these proofs. `OneWinner` had to say "until retention
destroys the record": a record that is destroyed between two calls leaves the
second nothing to compare. And the projection a commit leaves (`search`) was
written with two alternatives that overlap, which says nothing definite; the
Claim without its projection now comes first, as in the code.

Of CaseWork it proves `OwnershipTyped`, `OwnerIsOne`,
`NothingStranded` and `OwnershipEndsAccess`, for any number of staff and of pending requests. The
inductive invariant `CaseInv` adds `Assigned` to the types: without a handoff
nobody is assigned to one; an assigned handoff has the Claim's assignee or the
Claim has none; an accepted one has the assignee. "Both readings agree" alone
is not inductive: a return to the queue clears the assignee only, when the
handoff was queued and never accepted, and the readings agree after it only
because such a handoff has nobody assigned.

Of Evidence it proves `EvidenceTyped`, `FactsAreOfTheFile` and `HolderSettles`,
for any number of workers, contents and generations. Neither property is
inductive: a late answer is kept out by what its attempt still is when it
commits. `EvidenceInv` says so (`WorkerOK`): an attempt whose read is `current`
has the latest reservation, of an item in processing, of the generation and the
content it reads. Every commit by another actor ends that (`AllOutdated`,
`OthersOutdated`), and what changes without a commit, bytes written, the end of
a lease, an answer of the provider, disturbs none of it. `ItemInv` adds that a
content that is bound, or about to be, has been finalised, and that an upload
in completion still awaits its file, so that it withdraws no proposal.

**`FollowUpRecoveryProofs`** proves `TypeCorrect`, `ObligationIsOne`,
`AttemptsCounted`, `ContactKept`, `DeadlineHolds` and `ResolutionStays`, for any
number of workers, callers and Sessions. An obligation is three values, the
Session, its Follow-up and its operations; `Obligation` says what holds of any
three, and each reducer (contact, attempt, expiry, abandonment, withdrawal,
resume, backfill) is shown to keep it, whatever it is applied to. What the
stored records add is in `Ordered(n)`: n is the last Session, and only its
obligation can be open. `HeldOK` says of a thread's reading only that its
revision is not of the future and that a resume read a Claim that had not ended:
the commits recompute their transition from the stored records, and that is why
no more is needed.

**`RetentionProofs`** proves `TypeCorrect`, `EvidenceIsTruthful`,
`BytesGoFirst` and `HoldsStopCleanup`, for any workers, inventory, holds and
limits. `Agrees` relates the stored operation to the two stores: satisfied bytes
are gone, satisfied records are gone, nothing else is, and a record is gone only
when the frozen objects are satisfied. `WorkerOK` says what a worker's control
point implies of the stored operation, which other workers change meanwhile:
targets stay targets, and a deletion that a worker reports has happened. Two
workers may hold one authorization; an open authorization is of a target that is
not satisfied, so a late failure never undoes a recorded success. `HoldInv` is the
argument of `HoldsStopCleanup`: while a hold is active, a transaction that would
still commit an authorization or a record step (it read no hold, and nobody has
written the operation since) implies `leeway`. Such a transaction was open when
the hold was placed, so the hold's commit did not write the operation; and the
first of them to commit writes the operation, which refuses the others and
clears `leeway`.

**`ControlPlaneProofs`** proves `TypeCorrect`, `RuntimeStays`,
`HistoryIsLinear` and `ContentIsReviewed`, for any administrators and number of
requests in service. `Chain` says of any records with a state and a predecessor
that the superseded ones, and no others, have exactly one successor;
configurations and release sets are both chains, and publication and rollback
extend both in the same way (`ChainKept` and the lemmas after it). Histories
only grow (`Grown`), so what a request read of a configuration is still written
when it uses it; of a release set a request knows its state only while the
revision is the one it read (`ReleaseRead`), which is what the compare-and-swap
checks.

**`DispatchProofs`** proves `TypeCorrect`, `RoutingIsBacked`, `ResultIsTraced`
and `UnknownIsNotResent`, for any callers, reconcilers, receivers and
permissions. The inductive invariant has three parts beside the types:

* `StoreInv`: an accepted operation is backed by its task, the provider's answer
  and a recorded send, and an unknown outcome by its reservation; a routing on
  the Claim is of an accepted operation with linked material.
* `ReportInv`: all that names a receipt names the one the provider answered, and
  a receiver that goes on has bound the Claim to it.
* `ThreadsInv`: what a control point implies. `OneHolder` is the part that makes
  a second send impossible: until an operation is accepted one caller at most is
  between reserving and releasing. It must not say more, since a reconciliation
  may give back the reservation of a running attempt, but only as it accepts.

The order of settlements is the maximum over all tasks plus one. That it is a
number at all is proved too: `GreatestMember`, by induction over the subsets of
a finite set, from the library's theorem that strict inclusion is well founded.

**`RealtimeProofs`** proves `TypeCorrect`, `NothingIsMissed` and
`CursorIsHonest`, for any publishers, browsers, queue capacity and replay
window. "An event is known, on its way, or covered by a signal" is not inductive:
what a delivery does to the cursor depends on what the backlog and the queue
leave out below it. The invariant has, beside the types:

* `NumberingInv`: one transaction at a time has a number, the last one taken, and
  the durable numbers are all those before it. A cursor that stands for a set of
  events rests on this and on nothing else in the store.
* `DispatcherInv`: the page is what is durable next, without a gap; the
  dispatcher owes something to open subscriptions only, and only while it offers
  or recovers.
* `StreamOK`, of the two ends of each stream: a queue ascends and holds what
  concerns the browser, a subscription that was open when the store failed is
  still to be told or has been, and the last number accepted is that of an event
  already offered.
* `BrowserOK`: below what is replayed or queued nothing is left out
  (`BacklogOK`, `QueueOK`) unless a signal comes first; with it the cursor is
  honest (`HonestOK`) and everything is covered (`CoveredOK`). It is assumed of
  browsers that are not torn only: for the others it is false, which is the
  divergence `NoUnobservedWindow` of section 6.

`StreamMoves` and `DispatcherMoves` reduce each step to what it does to one
stream, or to the dispatcher. `ReplayedInterval` and `WindowHoldsAll` are the
facts about a page that the proofs need: it is an interval of the durable
numbers, and a window that was not exceeded holds all there is.

Proved and not in a run, because the theorem says more: the type invariants of
these modules, `RetryableIsUnsubmitted`, `AcceptedIffSettled`,
`RememberedIsSettled`, `NoLostUpdate` and `OutcomeFinal`.

Only model-checked: the liveness properties (`PendingSettles`, `ExpiryHappens`,
`CleanupCompletes`, `EventuallyKnown`, `ProcessingSettles`,
`AcceptedReachesClaim`), because the prover does not treat fairness and
`ENABLED`.

## 6 Where code and documents disagree

Each of these is a property at the end of its module. `OperationsReadable` has
a run of its own; no run lists the others. To reproduce one, put its name under `PROPERTY` (or `INVARIANT`) in the
configuration given; TLC prints the shortest history it finds.

| Module, configuration | Property | Document | What the code does |
|---|---|---|---|
| ClaimCreation, `ClaimCreationLiveness.cfg` | `SettlesAfterEvidenceChange` | `docs/claim-creation-boundary.md:125`: a conflict leaves the result recoverable by an unchanged retry | when the conflicting change is to the evidence, every later settlement is refused (`repositories/mongodb.py:7244`) |
| the same | `SettlesAfterRefreshedRetry` | the same | a claimant's retry with the refreshed revision replaces the decision, and the recorded result can no longer be settled |
| ClaimCreation, `ClaimCreation.cfg` | `UnsubmittedBecomesRetryable` | the same, `:119` | a reconciliation concurrent with the call makes the operation unknown, and the caller's own observation is refused |
| the same | `ObservationPreserved` | the same, on inconclusive reconciliation | delivery and failure of the create call are replaced |
| FollowUpRecovery, `FollowUpRecoveryLate.cfg` | `OperationsReadable` | `domain/models.py:1512`: a settlement requires a prior commit | a worker whose cycle began earlier settles the attempt that one with a later cycle committed, at its own earlier time (`domain/follow_up_execution.py:205`); from then on every read of the operations raises, and the Claim is neither contacted, resumed, abandoned nor expired. `ExpiryHappens` is therefore checked with one worker |
| FollowUpRecovery, `FollowUpRecovery.cfg` | `AttemptsApart` | `recovery-policy-registry.md`, "24 hours apart" | due times count from the interruption, so missed attempts are delivered one after the other |
| the same | `QuarantineKept` | `api.md`, "resume does not clear an unresolved authority error" | resuming resolves any open obligation |
| Retention, `Retention.cfg` | `ReleaseResumes` | `docs/api.md:5009`: release lets the operation resume | the worker reads the holds, reads the operation again and saves it held in separate transactions (`services/retention.py:107`); a release in between finds nothing to resume |
| the same | `HoldBlocksDestruction` | `docs/persistence-schema.md:1735-1738`: "Hold creation and deletion authorization therefore share one persistence ordering boundary: hold-before-authorization blocks the target"; `services/retention.py:93` | a hold transaction whose snapshot precedes the reservation finds no operation and writes only the hold (`repositories/mongodb.py:2623-2641`); an authorization reads the holds (`:1807`) and writes the operation (`:1868`), a record step likewise (`:2061`, `:2485`), so neither conflicts with it and the deletion is authorized, or the record destroyed, after the hold became active (`Terminate`, `StartReservation`, `OfferHoldAction`, `SnapshotHoldAction`, `CommitReservation`, freeze, ..., `StartAuthorization`, `CommitHoldAction`, `CommitAuthorization`; 14 states). `HoldStopsCleanup` is what remains |
| the same | `ReopenedKept` | - | a reopening whose snapshot precedes the reservation commits after the freeze (`repositories/mongodb.py:4285`), and the reopened Claim is destroyed |
| the same | `OneDeletionInFlight` | - | holds with one worker; a second one that shares an authorization may still delete after the first has recorded its result and a hold was placed |
| the same | `HeldWhileHoldActive` | `docs/api.md:5009` | the operation becomes held only when the worker comes to it |
| Retention, with `Links = {"link"}` | `TargetsLocated` | `docs/persistence-schema.md` | `external_task_evidence_link` has no identity field in the query and is not found |
| Retention, `Retention.cfg` | `TerminalReachesRetention` | `domain/retention.py` | a handoff resolved on the terminal Claim advances its revision beyond that of the disposition, and the Claim is never eligible again |
| MessageTurn, `MessageTurn.cfg` | `OwnerFinishesItsTurn` | `services/messages.py:1826`: another request cannot finish the owner of a key | the exclusion tests an error code nothing raises, so a repetition of a key in progress settles the owner's record with its own 404 |
| the same | `SavedStaysActionable` | `docs/api.md:2056` | a message whose turn ended in an API error, or whose thread died, has no recovery |
| the same | `RetryActionKept` | `docs/api.md:2049` | the decorator writes back the message it read earlier and erases a recovery stored in between |
| the same | `RevisionIsOwn` | `docs/api.md:2000` | a failure's response carries the revision another writer made |
| the same | `StaleIsRefused` | `docs/api.md:144` | on a session a person has, a stale `If-Match` is found by the repository only, whose `KeyError` becomes a 500 |
| Realtime, `Realtime.cfg` | `NoUnobservedWindow` | `docs/api.md:2192` | the overflow clears the queue and signals in separate steps (`services/realtime.py:84`) |
| Evidence, `Evidence.cfg` | `ActiveLeaseOnce` | `docs/persistence-schema.md:855` | an attempt takes back a reservation that is another's (`services/pdf_processing.py:318`) |
| Dispatch, `Dispatch.cfg` | `HeldIsReconcilable` | `docs/api.md:2466`, comment at `services/integrations.py:1478` | a caller interrupted after its reservation leaves a hold that nothing reconciles (`:1484`) |
| CaseWork, `CaseWork.cfg` | `RequeueReleases` | `docs/api.md:2883` | a queued handoff keeps its assigned member of staff, who is the owner again (`services/ownership.py:550`) |
| ControlPlane, `ControlPlane.cfg` | `OneActiveRelease` | `docs/api.md:499-501` | two publications that read the scope before either wrote both stay published (`services/release_sets.py:131`) |
| Repository, `Repository.cfg` | `UnlockedKept` | `repositories/fixture.py:7440`: "complete rollback on failure" | the copy that is put back also undoes what methods without the lock (`save_session`, `save_staff_presence`, `append_audit_event`) wrote in between |
| the same | `SearchKept` | `docs/persistence-schema.md:774`: "Claim, Evidence, and handoff writes refresh the projection in the same transaction or write boundary" | `save_session_mutation` (`repositories/mongodb.py:11562`) and the recovery commits (`:5389`, `:5818`) replace the Claim without its `staff_search`; it is not found by staff search until the next write that refreshes it |
| the same | `SearchReadable` | `docs/persistence-schema.md:774-776`: "repository initialisation backfills pre-contract Claim documents before serving searches" | after such a write `promote_claim_owner` sets `staff_search.customer_reference` of a projection that is not there (`repositories/mongodb.py:4726-4735`). The fragment fails `model_validate` (`:4645`), so the whole search that meets the Claim raises; the backfill passes it over, because the field exists (`:3698`); only the next write of the Claim, its evidence or a handoff repairs it |
| the same, without `SYMMETRY` | `DecidedOnCurrent` | - | several MongoDB transactions (`commit_retention_hold_action`, contact withdrawal, `save_runtime_turn`) read the Claim's revision and write other documents: a Claim write committed meanwhile conflicts with nothing |
| the same | `ClosedMeansClosed` | - | a transaction that found the access open commits after a retention reservation closed it, since the two write no common document |

Observed while modelling, without a property:

* *CaseWork*: pending transfer and cowork requests survive requeue and transfer,
  so a stale transfer can take the Claim from a later owner; work items stay
  with staff who lost access; a completed Claim without a handoff cannot update
  its open items; a cancelled external review leaves attention with no action
  offered (`workbench.py:1083-1121`).
* *Evidence*: a terminally failed PDF is retried under the same operation
  identity, and its second result conflicts for ever; two workers can take
  reservations back from each other without end; `EvidenceStatus.INVALID` is
  set by demo data only.
* *Dispatch*: two concurrent callers can both reach the assessor
  (`api.md:2456`); a retryable failure is not retryable after another change of
  the Claim (`api.md:2451`); a late write of the awaited material overwrites an
  arrived report (`integrations.py:448`, `api.md:4633`); reconciling an unknown
  outcome whose work item was never written raises; a withdrawal is checked and
  saved in two steps (`external_service_offers.py:506`).
* *ControlPlane*: an edit keeps `author`, so an editor who is not the author may
  approve his own edit (`configuration.py:145-205`, `api.md:446`); publishing a
  knowledge source is two saves (`admin_knowledge.py:565-590`); the audit event
  of a plain save is a separate transaction.
* `claims.py:1187` turns a race with a due attempt into a 500;
  `mongodb.py:1575` refuses a Claim with more than 500 retention targets at
  every freeze while its access is already closed.

## 7 What is not modelled

* *Agent reasoning and turn reduction*: pure rules over many fields. Their
  verdict is a free choice in `MessageTurn`, so no property depends on them.
* *Single-document components* (assets, identity, accounts, staff assistant
  drafts): one compare-and-swap per operation, without a protocol of several
  steps.
* *Projections, tags, triage*: recomputed from the Claim; no state.
* *External services* (claims service, object store, model): modelled from how
  the code uses them, by every answer, failure and delay the adapters admit.
* *Recovery worker sweeps*: a cycle's work on one obligation is modelled; the
  paging over many candidates is not. A sweep reads its first page only
  (`recovery_worker.py:76`), so a page of candidates that always fail hides the
  rest.
* *Web clients, demo data, automation, scripts*: what clients send is the free
  choice of requests in every module.

## 8 Plan

Done: `ClaimCreation` with `ClaimLodgement`, `MessageTurn`, `CaseWork`,
`FollowUpRecovery`, `Retention`, `ControlPlane`, `Dispatch`, `Realtime` and
`Evidence`, and `Repository`, each with proofs of all its safety properties.

Next, models: the worker's sweeps over several pages; knowledge administration
(drafts, approval, publication in two saves); payout contact verification;
generic service offers.

## 9 Running the tools

In this directory:

    tlc -workers 2 -config ClaimCreation.cfg MCClaimCreation
    tlapm ClaimCreationProofs.tla

The longest run takes about three and a half minutes with two workers, and each proof
module a few minutes (`ClaimFileProofs` about ten).
