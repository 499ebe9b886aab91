------------------------------ MODULE Evidence ------------------------------
(***************************************************************************)
(* One evidence item of one Claim, from the claimant's upload to the facts *)
(* its file proposes for the Claim's form (services/evidence.py), and the  *)
(* workers that read uploaded PDFs with a model and put images right       *)
(* (services/pdf_processing.py, services/image_recovery.py).               *)
(*                                                                         *)
(* Every mutation of the item is one compare-and-set on the Claim's        *)
(* revision that commits the item, the form and an idempotency record      *)
(* together.  Revisions are not counted: an actor that read the Claim      *)
(* keeps `current', true until anybody commits.  A file is its content,    *)
(* which is also its checksum.                                             *)
(***************************************************************************)
EXTENDS Integers, FiniteSets

CONSTANTS
  Workers,      \* evidence workers, one per backend process
  Nobody,       \* no reservation, no content
  Contents,     \* what a claimant may upload
  Readable,     \* the contents that are a valid image or a PDF envelope
  Media,        \* media types used, of: pdf, image
  MaxVersions,  \* bound on material generations
  MaxRetries,   \* bound on retry results of the integration service
  MaxTroubles   \* bound on crashes, overruns, outages and other mutations

ASSUME ContentsAssumption == Readable \subseteq Contents /\ Nobody \notin Workers \union Contents

ASSUME MediaAssumption == Media \subseteq {"pdf", "image"}

ASSUME BoundsAssumption ==
  MaxVersions \in Nat \ {0} /\ MaxRetries \in Nat /\ MaxTroubles \in Nat

VARIABLES
  ev,          \* the EvidenceRecord
  form,        \* the one form field the file may propose a value for
  staging,     \* the staged object, writable while an upload address is live
  final,       \* the finalised objects, by checksum
  completing,  \* the claimant's completion request between storage and commit
  answered,    \* operation identities with a completion idempotency record
  holder,      \* the worker of the latest reservation
  worker,      \* each worker's attempt
  retries, troubles

vars == <<ev, form, staging, final, completing, answered, holder, worker, retries, troubles>>

Checksums == Contents \union {Nobody}
Versions == 1..MaxVersions

\* file_status and material_version of the record, and its provenance:
\* upload_checksum, processing_state, whether the lease has run out and
\* extraction_state.  `removed' is the claimant's history state.
Record ==
  [file : {"absent", "not_available", "awaiting_upload", "processing", "ready", "failed"},
   media : {"pdf", "image"}, ver : Versions, sum : Checksums,
   state : {"none", "queued", "running", "completed", "failed"}, expired : BOOLEAN,
   extraction : {"none", "no_facts", "proposed", "decided"}, removed : BOOLEAN]

\* The field: who filled it, and the generation a document's proposal is from.
Field ==
  [state : {"empty", "claimant", "proposed", "decided"}, ver : Versions, sum : Checksums]

\* An attempt: what it swept and reserved, whether the Claim is as it read it,
\* and whether its five minutes are over.
Attempt ==
  [pc : {"idle", "swept", "called", "facts", "no_facts", "defer", "fail", "requeue"},
   ver : Versions, sum : Checksums, current : BOOLEAN, overrun : BOOLEAN]

Idle == [pc |-> "idle", ver |-> 1, sum |-> Nobody, current |-> FALSE, overrun |-> FALSE]
EmptyField == [state |-> "empty", ver |-> 1, sum |-> Nobody]
NotCompleting == [sum |-> Nobody, current |-> FALSE]

InFlight(w) == worker[w].pc \notin {"idle", "swept"}

TypeOK ==
  /\ ev \in Record
  /\ form \in Field
  /\ staging \in Checksums
  /\ final \subseteq Contents
  /\ completing \in [sum : Checksums, current : BOOLEAN]
  /\ answered \subseteq Versions \X Contents
  /\ holder \in Workers \union {Nobody}
  /\ (holder # Nobody) => ev.state = "running"
  /\ worker \in [Workers -> Attempt]
  /\ \A w \in Workers : InFlight(w) => worker[w].sum \in final
  /\ retries \in 0..MaxRetries
  /\ troubles \in 0..MaxTroubles

Init ==
  /\ ev = [file |-> "absent", media |-> "pdf", ver |-> 1, sum |-> Nobody, state |-> "none",
           expired |-> FALSE, extraction |-> "none", removed |-> FALSE]
  /\ form = EmptyField
  /\ staging = Nobody
  /\ final = {}
  /\ completing = NotCompleting
  /\ answered = {}
  /\ holder = Nobody
  /\ worker = [w \in Workers |-> Idle]
  /\ retries = 0
  /\ troubles = 0

-----------------------------------------------------------------------------
(* The commit every operation ends in (_updated_claim, _persist): the next *)
(* revision, so that nobody else's read of the Claim is current any more.  *)

Outdated(w) == [worker[w] EXCEPT !.current = FALSE]

OutdateOthers(attempt, w) == [v \in Workers |-> IF v = w THEN attempt ELSE Outdated(v)]

OutdateWorkers == worker' = [w \in Workers |-> Outdated(w)]

OutdateCompletion == completing' = [completing EXCEPT !.current = FALSE]

\* A commit by somebody other than the workers and the completion request.
Committed == OutdateWorkers /\ OutdateCompletion

Trouble == troubles < MaxTroubles /\ troubles' = troubles + 1

\* The item leaves processing, or goes back to the queue: nobody's reservation.
Released == holder' = Nobody

\* _processing_operation_id: one identity per generation and checksum.
OperationId(ver, sum) == <<ver, sum>>

-----------------------------------------------------------------------------
(* The claimant.                                                           *)

\* register_evidence: a requirement without a file.
Register ==
  /\ ev.file = "absent"
  /\ ev' = [ev EXCEPT !.file = "not_available"]
  /\ Committed
  /\ UNCHANGED <<form, staging, final, answered, holder, retries, troubles>>

\* _existing_upload_requirement: nothing yet, no file yet, or a file that failed.
\* (The code also accepts a ready file marked invalid; only demonstration data
\* carries that mark.)
Replaceable == ev.file \in {"absent", "not_available", "failed"}

\* _has_material_generation, for the items that are replaceable.
HasMaterial == ev.file = "failed"

\* _material_proposed_fields: replacing a file withdraws what it proposed.
WithoutProposals == IF form.state = "proposed" /\ form.ver = ev.ver THEN EmptyField ELSE form

\* request_upload: a new item, a registered one, or the replacement of a failed
\* file, whose generation is archived.
RequestUpload(media) ==
  /\ Replaceable
  /\ HasMaterial => ev.ver < MaxVersions
  /\ ev' = [ev EXCEPT !.file = "awaiting_upload", !.media = media,
                      !.ver = IF HasMaterial THEN @ + 1 ELSE @,
                      !.sum = Nobody, !.state = "none", !.expired = FALSE]
  /\ form' = IF HasMaterial THEN WithoutProposals ELSE form
  /\ Committed
  /\ UNCHANGED <<staging, final, answered, holder, retries, troubles>>

\* The claimant's browser writes to the upload address, which outlives the
\* completion of the upload.
PutBytes(content) ==
  /\ ev.file \notin {"absent", "not_available"}
  /\ staging # content
  /\ staging' = content
  /\ UNCHANGED <<ev, form, final, completing, answered, holder, worker, retries, troubles>>

\* complete_upload up to its storage call: the final object of that checksum is
\* taken if a previous try left it, and copied from the staged object if not.
StartComplete(content) ==
  /\ completing = NotCompleting
  /\ ev.file = "awaiting_upload"
  /\ content \in final \/ staging = content
  /\ final' = final \union {content}
  /\ staging' = IF content \in final THEN staging ELSE Nobody
  /\ completing' = [sum |-> content, current |-> TRUE]
  /\ UNCHANGED <<ev, form, answered, holder, worker, retries, troubles>>

\* _settle_image with what _validated_image found.
SettledImage(record) ==
  IF record.sum \in Readable
    THEN [record EXCEPT !.file = "ready", !.state = "completed"]
    ELSE [record EXCEPT !.file = "failed", !.state = "failed"]

\* The rest of complete_upload: a PDF waits for a worker, an image is settled now.
CommitComplete ==
  /\ completing # NotCompleting
  /\ IF completing.current
       THEN LET received == [ev EXCEPT !.file = "processing", !.sum = completing.sum,
                                       !.state = "queued"]
            IN /\ ev' = IF ev.media = "image" THEN SettledImage(received) ELSE received
               /\ OutdateWorkers
       ELSE UNCHANGED <<ev, worker>>   \* REVISION_CONFLICT
  /\ completing' = NotCompleting
  /\ UNCHANGED <<form, staging, final, answered, holder, retries, troubles>>

\* decide_evidence_facts: the claimant confirms or rejects what the file proposed.
Decide ==
  /\ ev.file = "ready"
  /\ form.state = "proposed" /\ form.ver = ev.ver
  /\ form' = [form EXCEPT !.state = "decided"]
  /\ ev' = [ev EXCEPT !.extraction = "decided"]
  /\ Committed
  /\ UNCHANGED <<staging, final, answered, holder, retries, troubles>>

\* EvidenceActionService.execute, remove: the item leaves the claimant's history.
Remove ==
  /\ ev.file = "ready"
  /\ ~ev.removed
  /\ ev' = [ev EXCEPT !.removed = TRUE]
  /\ Committed
  /\ UNCHANGED <<form, staging, final, answered, holder, retries, troubles>>

\* Any other mutation of the Claim; it may fill the field.
OtherMutation ==
  /\ Trouble
  /\ form' \in {form} \union
        (IF form.state = "empty" THEN {[EmptyField EXCEPT !.state = "claimant"]} ELSE {})
  /\ Committed
  /\ UNCHANGED <<ev, staging, final, answered, holder, retries>>

-----------------------------------------------------------------------------
(* The PDF worker.                                                         *)

\* Mutant: a lease that ran out is not recovered.
AwaitsFirstAttempt ==
  ev.file = "processing" /\ ev.media = "pdf" /\ ~ev.removed /\ ev.extraction = "none"
    /\ ev.state = "queued"

\* _eligible_pdf, and the checks reserve_evidence_processing repeats.
AwaitsAttempt ==
  /\ ev.file = "processing"
  /\ ev.media = "pdf"
  /\ ~ev.removed
  /\ ev.extraction = "none"
  /\ ev.state = "queued" \/ (ev.state = "running" /\ ev.expired)

\* run_once reads a page of records and takes the eligible ones in turn.
Sweep(w) ==
  /\ worker[w].pc = "idle"
  /\ AwaitsAttempt
  /\ worker' = [worker EXCEPT ![w] = [Idle EXCEPT !.pc = "swept", !.ver = ev.ver, !.sum = ev.sum]]
  /\ UNCHANGED <<ev, form, staging, final, completing, answered, holder, retries, troubles>>

\* Mutant: the attempt reads the record it swept, of whatever generation.
ReserveSwept(w) ==
  /\ worker[w].pc = "swept"
  /\ IF AwaitsAttempt
       THEN /\ ev' = [ev EXCEPT !.state = "running", !.expired = FALSE]
            /\ holder' = w
            /\ worker' = OutdateOthers([worker[w] EXCEPT !.pc = "called", !.current = TRUE], w)
            /\ OutdateCompletion
       ELSE /\ worker' = [worker EXCEPT ![w] = Idle]
            /\ UNCHANGED <<ev, holder, completing>>
  /\ UNCHANGED <<form, staging, final, answered, retries, troubles>>

\* reserve_evidence_processing: reads the Claim and the record again, and takes
\* the attempt if the record still awaits one of the generation that was swept.
Reserve(w) ==
  /\ worker[w].pc = "swept"
  /\ IF AwaitsAttempt /\ ev.ver = worker[w].ver
       THEN /\ ev' = [ev EXCEPT !.state = "running", !.expired = FALSE]
            /\ holder' = w
            /\ worker' = OutdateOthers([Idle EXCEPT !.pc = "called", !.ver = ev.ver,
                                                    !.sum = ev.sum, !.current = TRUE], w)
            /\ OutdateCompletion
       ELSE /\ worker' = [worker EXCEPT ![w] = Idle]
            /\ UNCHANGED <<ev, holder, completing>>
  /\ UNCHANGED <<form, staging, final, answered, retries, troubles>>

\* What the object and the provider allow of an attempt: invalid bytes fail it,
\* the provider is asked only for a field the reserved Claim did not hold, and a
\* retryable error is a trouble.
Outcomes(w) ==
  IF worker[w].sum \notin Readable THEN {"fail"}
  ELSE {"no_facts", "fail"}
       \union (IF worker[w].current /\ form.state # "empty" THEN {} ELSE {"facts"})

\* PdfEvidenceProcessor.process up to the end of the provider's call.
ProviderAnswers(w) ==
  /\ worker[w].pc = "called"
  /\ \/ \E outcome \in Outcomes(w) :
          worker' = [worker EXCEPT ![w].pc = outcome] /\ UNCHANGED troubles
     \/ Trouble /\ worker' = [worker EXCEPT ![w].pc = "defer"]
  /\ UNCHANGED <<ev, form, staging, final, completing, answered, holder, retries>>

\* The record complete_evidence_processing writes with a ready result.
Completed(extraction) ==
  [ev EXCEPT !.file = "ready", !.state = "completed", !.expired = FALSE,
             !.extraction = extraction]

Failed == [ev EXCEPT !.file = "failed", !.state = "failed", !.expired = FALSE]

\* Mutant: a result is committed whatever became of the Claim since.
CommitReadyUnconditionally(w) ==
  LET operation == OperationId(worker[w].ver, worker[w].sum)
  IN /\ worker[w].pc \in {"facts", "no_facts"}
     /\ operation \notin answered
     /\ ev' = Completed("no_facts")
     /\ answered' = answered \union {operation}
     /\ worker' = OutdateOthers(Idle, w)
     /\ Released
     /\ OutdateCompletion
     /\ UNCHANGED <<form, staging, final, retries, troubles>>

\* complete_evidence_processing under the operation identity: another result was
\* recorded under it (IDEMPOTENCY_CONFLICT), or the Claim moved
\* (REVISION_CONFLICT), or the result is committed.
CommitReady(w) ==
  LET operation == OperationId(worker[w].ver, worker[w].sum)
      proposes == worker[w].pc = "facts"
  IN /\ worker[w].pc \in {"facts", "no_facts"}
     /\ \/ /\ operation \in answered
           /\ worker' = [worker EXCEPT ![w] = Idle]
           /\ UNCHANGED <<ev, form, answered, holder, completing>>
        \/ /\ operation \notin answered
           /\ ~worker[w].current
           /\ worker' = [worker EXCEPT ![w].pc = "requeue"]
           /\ UNCHANGED <<ev, form, answered, holder, completing>>
        \/ /\ operation \notin answered
           /\ worker[w].current
           /\ ev' = Completed(IF proposes THEN "proposed" ELSE "no_facts")
           /\ form' = IF proposes
                        THEN [state |-> "proposed", ver |-> worker[w].ver, sum |-> worker[w].sum]
                        ELSE form
           /\ answered' = answered \union {operation}
           /\ worker' = OutdateOthers(Idle, w)
           /\ Released
           /\ OutdateCompletion
     /\ UNCHANGED <<staging, final, retries, troubles>>

\* What defer_evidence_processing requires of the record.
Deferrable(w) == ev.media = "pdf" /\ ev.ver = worker[w].ver /\ ev.state = "running"

Queued == [ev EXCEPT !.state = "queued", !.expired = FALSE]

\* _requeue_after_revision_conflict: defers under the Claim's present revision,
\* whoever's reservation the record now carries; three lost races give up.
Requeue(w) ==
  /\ worker[w].pc = "requeue"
  /\ \/ /\ Deferrable(w)
        /\ ev' = Queued
        /\ worker' = OutdateOthers(Idle, w)
        /\ Released
        /\ OutdateCompletion
        /\ UNCHANGED troubles
     \/ /\ ~Deferrable(w)
        /\ worker' = [worker EXCEPT ![w] = Idle]
        /\ UNCHANGED <<ev, holder, completing, troubles>>
     \/ /\ Trouble
        /\ worker' = [worker EXCEPT ![w] = Idle]
        /\ UNCHANGED <<ev, holder, completing>>
  /\ UNCHANGED <<form, staging, final, answered, retries>>

\* A retryable error gives the reservation back under the revision it made; when
\* the Claim has moved the record stays running until its lease is over.
Defer(w) ==
  /\ worker[w].pc = "defer"
  /\ IF worker[w].current
       THEN ev' = Queued /\ Released /\ OutdateCompletion
       ELSE UNCHANGED <<ev, holder, completing>>
  /\ worker' = IF worker[w].current THEN OutdateOthers(Idle, w) ELSE [worker EXCEPT ![w] = Idle]
  /\ UNCHANGED <<form, staging, final, answered, retries, troubles>>

\* _settle_terminal, under the operation identity and that revision too.
Fail(w) ==
  LET operation == OperationId(worker[w].ver, worker[w].sum)
      accepted == operation \notin answered /\ worker[w].current
  IN /\ worker[w].pc = "fail"
     /\ IF accepted
          THEN ev' = Failed /\ answered' = answered \union {operation}
               /\ Released /\ OutdateCompletion
          ELSE UNCHANGED <<ev, answered, holder, completing>>
     /\ worker' = IF accepted THEN OutdateOthers(Idle, w) ELSE [worker EXCEPT ![w] = Idle]
     /\ UNCHANGED <<form, staging, final, retries, troubles>>

\* The process dies with the attempt in flight.
Crash(w) ==
  /\ InFlight(w)
  /\ Trouble
  /\ worker' = [worker EXCEPT ![w] = Idle]
  /\ UNCHANGED <<ev, form, staging, final, completing, answered, holder, retries>>

\* Five minutes after the latest reservation; the leases of the attempts before
\* it are over too.
ExpireLease ==
  /\ ev.state = "running"
  /\ ~ev.expired
  /\ ev' = [ev EXCEPT !.expired = TRUE]
  /\ worker' = [w \in Workers |-> [worker[w] EXCEPT !.overrun = InFlight(w)]]
  /\ UNCHANGED <<form, staging, final, completing, answered, holder, retries>>

HolderWorks == holder \in Workers /\ InFlight(holder)

\* Nobody works under the lease any more: the holder died, or could not commit.
LeaseExpires == ~HolderWorks /\ ExpireLease /\ UNCHANGED troubles

\* The attempt outlasts its lease.
Overrun == HolderWorks /\ Trouble /\ ExpireLease

-----------------------------------------------------------------------------
(* Image recovery and the integration service.                             *)

\* repair_processing_image, of an image that a retry put back to processing.
RepairImage ==
  /\ ev.file = "processing"
  /\ ev.media = "image"
  /\ ev.state = "queued"
  /\ ev.extraction = "none"
  /\ ~ev.removed
  /\ ev' = SettledImage(ev)
  /\ Committed
  /\ UNCHANGED <<form, staging, final, answered, holder, retries, troubles>>

\* complete_evidence_processing for the integration service, under a key of its
\* own: a ready result, for an image that validation made ready too.
IntegrationReady ==
  /\ ev.file = "processing"
       \/ (ev.file = "ready" /\ ev.media = "image" /\ ev.extraction = "none")
  /\ Trouble
  /\ \/ ev' = Completed("no_facts") /\ UNCHANGED form
     \/ /\ form.state = "empty"
        /\ ev' = Completed("proposed")
        /\ form' = [state |-> "proposed", ver |-> ev.ver, sum |-> ev.sum]
  /\ Released
  /\ Committed
  /\ UNCHANGED <<staging, final, answered, retries>>

\* A failed result.
IntegrationFailed ==
  /\ ev.file = "processing"
  /\ Trouble
  /\ ev' = Failed
  /\ Released
  /\ Committed
  /\ UNCHANGED <<form, staging, final, answered, retries>>

\* A retry of a failed file: the same generation, and the same operation identity.
IntegrationRetry ==
  /\ ev.file = "failed"
  /\ retries < MaxRetries
  /\ retries' = retries + 1
  /\ ev' = [ev EXCEPT !.file = "processing", !.state = "queued"]
  /\ Committed
  /\ UNCHANGED <<form, staging, final, answered, holder, troubles>>

-----------------------------------------------------------------------------
ClaimantStep ==
  \/ Register
  \/ \E media \in Media : RequestUpload(media)
  \/ \E content \in Contents : PutBytes(content) \/ StartComplete(content)
  \/ CommitComplete
  \/ Decide
  \/ Remove
  \/ OtherMutation

AttemptStep(w) ==
  \/ Reserve(w)
  \/ ProviderAnswers(w)
  \/ CommitReady(w)
  \/ Requeue(w)
  \/ Defer(w)
  \/ Fail(w)

IntegrationStep == IntegrationReady \/ IntegrationFailed \/ IntegrationRetry

Next ==
  \/ ClaimantStep
  \/ \E w \in Workers : Sweep(w) \/ AttemptStep(w) \/ Crash(w)
  \/ LeaseExpires
  \/ Overrun
  \/ RepairImage
  \/ IntegrationStep

Spec == Init /\ [][Next]_vars

\* A worker goes on sweeping, an attempt goes on (the provider's call has a
\* timeout), a dead attempt's lease runs out, and images are swept as well.
Fairness ==
  /\ \A w \in Workers : WF_vars(Sweep(w)) /\ WF_vars(AttemptStep(w))
  /\ WF_vars(LeaseExpires)
  /\ WF_vars(RepairImage)

FairSpec == Spec /\ Fairness

-----------------------------------------------------------------------------
(* Properties.                                                             *)

\* What a file proposes is of the file the item now has: however late an
\* attempt answers, and whatever replaced the file it read, a proposed field
\* names the current generation and the content bound to it, of a ready item.
FactsFromCurrentMaterial ==
  form.state = "proposed" =>
    ev.file = "ready" /\ form.ver = ev.ver /\ form.sum = ev.sum

\* A worker's result settles the item only while the latest reservation is its
\* own: an attempt whose lease ran out, whose record was taken back or settled
\* by somebody else, changes neither the file nor the form.
SettledByHolder ==
  [][\A w \in Workers :
       (InFlight(w) /\ worker'[w].pc = "idle" /\ ev'.file # ev.file) => holder = w]_vars

\* An attempt takes back a reservation that is not its own.
TakesBack == \E w \in Workers : Requeue(w) /\ ev.state = "running" /\ ev'.state = "queued" /\ holder # w

\* An item in processing leaves it, whatever crashes, outages and conflicts it
\* meets, unless attempts go on taking each other's reservations back, or the
\* operation identity of its generation already carries a result that failed.
ProcessingSettles ==
  \/ []<><<TakesBack>>_vars
  \/ ev.file = "processing"
       ~> \/ ev.file # "processing"
          \/ ev.media = "pdf" /\ OperationId(ev.ver, ev.sum) \in answered

\* No PDF whose lease is active is given to a second worker: two attempts at one
\* generation are never both within their five minutes.
ActiveLeaseOnce ==
  \A w, v \in Workers :
    (w # v /\ InFlight(w) /\ InFlight(v) /\ worker[w].ver = worker[v].ver)
      => worker[w].overrun \/ worker[v].overrun

=============================================================================
