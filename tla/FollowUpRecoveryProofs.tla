----------------------- MODULE FollowUpRecoveryProofs -----------------------
(***************************************************************************)
(* Proofs about FollowUpRecovery, for every number of workers, callers and *)
(* Sessions and every policy that satisfies RecoveryConstants.             *)
(*                                                                         *)
(* The obligation of a Session is three values: the Session, its Follow-up *)
(* and the operations.  What is said of them is said once, of any three    *)
(* values; every reducer is shown to keep it, and every step to write what *)
(* a reducer computed from the stored values.                              *)
(***************************************************************************)
EXTENDS FollowUpRecovery, SequenceTheorems, FiniteSetTheorems, TLAPS

\* The numbers of the policy, without the product that relates them.
LEMMA PolicyNumbers ==
  /\ RetryInterval \in Nat \ {0} /\ RecoveryDeadline \in Nat \ {0}
  /\ MaxAutoRetry \in Nat \ {0} /\ MaxSessions \in Nat \ {0}
BY RecoveryConstants

USE PolicyNumbers

-----------------------------------------------------------------------------
(* What holds of one obligation.                                           *)

\* A Follow-up is bound to the published policy exactly when it has a
\* deadline, which counts from the interruption; before, it has no attempts.
BoundRecord(session, f) ==
    /\ f.policy = "published" <=> f.deadline # None
    /\ f.deadline # None =>
         /\ session.interrupted # None
         /\ f.deadline = session.interrupted + RecoveryDeadline
    /\ f.policy # "published" => f.attempts = 0 /\ f.activeOperation = 0

AccountedRecord(f, ops) ==
    /\ f.attempts = Len(ops)
    /\ f.attempts <= MaxAutoRetry
    /\ OpenOperations(ops) = IF f.activeOperation = 0 THEN {} ELSE {f.activeOperation}
    /\ OpenOperations(ops) \subseteq {Len(ops)}
    /\ ~f.authorised \/ f.status = "resolved" => OpenOperations(ops) = {}

WithinRecord(session, f, ops) ==
    \A k \in DOMAIN ops :
      /\ ops[k].committedAt >= session.interrupted + RetryInterval * (k - 1)
      /\ ops[k].committedAt < f.deadline

DecidedRecord(f) ==
    f.status = "resolved" /\ f.deadline # None =>
      (f.reason = "recovery_expired" <=> f.updated >= f.deadline)

Obligation(session, f, ops) ==
    /\ f \in FollowUpRecords
    /\ ops \in Seq(OperationRecords)
    /\ session.status = "paused"
    /\ ValidFollowUp(f)
    /\ BoundRecord(session, f)
    /\ AccountedRecord(f, ops)
    /\ WithinRecord(session, f, ops)
    /\ DecidedRecord(f)

ObligationOrNone(session, f, ops) ==
    IF f = NoFollowUp THEN ops = <<>> ELSE Obligation(session, f, ops)

-----------------------------------------------------------------------------
(* The reducers keep it.                                                   *)

Results == {"in_app_committed", "no_response", "authority_lost", "superseded_by_resume"}

LEMMA TimesProduct == \A n \in Nat : RetryInterval * n \in Nat
OBVIOUS

\* Settling keeps the number of operations and their times.
LEMMA ReconciledOperations ==
  ASSUME NEW ops \in Seq(OperationRecords), NEW result \in Results
  PROVE  LET settled == Reconciled(ops, result)
         IN /\ settled \in Seq(OperationRecords)
            /\ Len(settled) = Len(ops)
            /\ DOMAIN settled = DOMAIN ops
            /\ OpenOperations(settled) = {}
            /\ \A k \in DOMAIN ops : settled[k].committedAt = ops[k].committedAt
<1> DEFINE settled == Reconciled(ops, result)
<1>1. Len(ops) \in Nat /\ DOMAIN ops = 1..Len(ops) /\ \A k \in DOMAIN ops : ops[k] \in OperationRecords
  BY LenProperties, ElementOfSeq
<1>2. \A k \in DOMAIN ops : /\ settled[k] \in OperationRecords
                            /\ settled[k].status = "settled"
                            /\ settled[k].committedAt = ops[k].committedAt
  BY <1>1 DEF Reconciled, OperationRecords, Results
<1>3. settled \in [1..Len(ops) -> OperationRecords]
  BY <1>1, <1>2 DEF Reconciled
<1>4. settled \in Seq(OperationRecords)
  BY <1>1, <1>3, SeqDef
<1>5. Len(settled) = Len(ops) /\ DOMAIN settled = DOMAIN ops
  BY <1>1, <1>3, <1>4, LenProperties
<1>6. OpenOperations(settled) = {}
  BY <1>2, <1>5 DEF OpenOperations
<1>7. QED
  BY <1>2, <1>4, <1>5, <1>6

\* A further attempt leaves it the only operation that awaits settlement.
LEMMA AttemptedOperations ==
  ASSUME NEW ops \in Seq(OperationRecords), NEW at \in Nat
  PROVE  LET grown == Attempted(ops, at)
         IN /\ grown \in Seq(OperationRecords)
            /\ Len(grown) = Len(ops) + 1
            /\ DOMAIN grown = 1..(Len(ops) + 1)
            /\ OpenOperations(grown) = {Len(ops) + 1}
            /\ \A k \in 1..Len(ops) : grown[k].committedAt = ops[k].committedAt
            /\ grown[Len(ops) + 1].committedAt = at
<1> DEFINE settled == Reconciled(ops, "no_response")
<1> DEFINE last == [status |-> "committed", result |-> "in_app_committed", committedAt |-> at]
<1> DEFINE grown == Attempted(ops, at)
<1>1. /\ settled \in Seq(OperationRecords)
      /\ Len(settled) = Len(ops) /\ DOMAIN settled = DOMAIN ops
      /\ OpenOperations(settled) = {}
      /\ \A k \in DOMAIN ops : settled[k].committedAt = ops[k].committedAt
  BY ReconciledOperations DEF Results
<1>2. last \in OperationRecords
  BY DEF OperationRecords
<1>3. grown = Append(settled, last)
  BY DEF Attempted
<1>4. Len(ops) \in Nat /\ DOMAIN ops = 1..Len(ops)
  BY LenProperties
<1> HIDE DEF settled, last, grown
<1>5. /\ grown \in Seq(OperationRecords)
      /\ Len(grown) = Len(ops) + 1
      /\ \A k \in 1..Len(ops) : grown[k] = settled[k]
      /\ grown[Len(ops) + 1] = last
  BY <1>1, <1>2, <1>3, <1>4
<1>6. DOMAIN grown = 1..(Len(ops) + 1)
  BY <1>5, LenProperties
<1>7. OpenOperations(grown) = {Len(ops) + 1}
  <2>1. \A k \in 1..Len(ops) : grown[k].status # "committed"
    BY <1>1, <1>4, <1>5 DEF OpenOperations
  <2>2. grown[Len(ops) + 1].status = "committed"
    BY <1>5 DEF last
  <2>3. QED
    BY <1>4, <1>6, <2>1, <2>2 DEF OpenOperations
<1>8. QED
  BY <1>1, <1>4, <1>5, <1>6, <1>7 DEF last, grown

\* What an attempt writes of the Follow-up.
LEMMA ChangedFollowUp ==
  ASSUME NEW f \in FollowUpRecords, NEW attempts \in Nat, NEW operation \in Nat,
         NEW status \in {"pending", "blocked"},
         NEW reason \in {"none", "attempt_limit_reached"}, NEW due \in Times, NEW at \in Nat
  PROVE  [f EXCEPT !.attempts = attempts, !.activeOperation = operation, !.status = status,
                   !.reason = reason, !.due = due, !.updated = at] \in FollowUpRecords
BY DEF FollowUpRecords, BlockedReasons

LEMMA ContactedObligation ==
  ASSUME NEW session \in SessionRecords, NEW f, NEW ops, NEW c, NEW at \in Nat,
         Obligation(session, f, ops), DuePermitted(c, session, f, ops, at)
  PROVE  Obligation(session, Contacted(session, f, ops, at), Attempted(ops, at))
<1> DEFINE g == Contacted(session, f, ops, at)
<1> DEFINE grown == Attempted(ops, at)
<1>1. /\ f \in FollowUpRecords /\ ops \in Seq(OperationRecords) /\ Len(ops) \in Nat
      /\ DOMAIN ops = 1..Len(ops)
  BY LenProperties DEF Obligation
<1>2. session.interrupted \in Nat
  BY DEF DuePermitted, BoundCheckpoint, SessionRecords, Times, None
<1>3. RetryInterval * (f.attempts + 1) \in Nat /\ RetryInterval * f.attempts \in Nat
  BY <1>1, TimesProduct DEF FollowUpRecords
<1>4. g \in FollowUpRecords
  <2> DEFINE next == session.interrupted + RetryInterval * (f.attempts + 1)
  <2> DEFINE due == IF f.attempts + 1 >= MaxAutoRetry THEN None ELSE next
  <2> DEFINE status == IF f.attempts + 1 >= MaxAutoRetry THEN "blocked" ELSE "pending"
  <2> DEFINE reason == IF f.attempts + 1 >= MaxAutoRetry THEN "attempt_limit_reached" ELSE "none"
  <2>1. next \in Nat
    BY <1>2, <1>3
  <2>2. g = [f EXCEPT !.attempts = f.attempts + 1, !.activeOperation = Len(ops) + 1,
                      !.status = status, !.reason = reason, !.due = due, !.updated = at]
    BY DEF Contacted
  <2> HIDE DEF next
  <2>3. due \in Times /\ status \in {"pending", "blocked"}
        /\ reason \in {"none", "attempt_limit_reached"}
    BY <2>1 DEF Times
  <2> HIDE DEF due, status, reason, g
  <2>4. QED
    <3>1. f.attempts + 1 \in Nat /\ Len(ops) + 1 \in Nat
      BY <1>1 DEF FollowUpRecords
    <3>2. QED
      BY <1>1, <2>2, <2>3, <3>1, ChangedFollowUp
<1>5. /\ grown \in Seq(OperationRecords)
      /\ Len(grown) = Len(ops) + 1
      /\ DOMAIN grown = 1..(Len(ops) + 1)
      /\ OpenOperations(grown) = {Len(ops) + 1}
      /\ \A k \in 1..Len(ops) : grown[k].committedAt = ops[k].committedAt
      /\ grown[Len(ops) + 1].committedAt = at
  BY <1>1, AttemptedOperations
<1>6. /\ g.policy = f.policy /\ g.deadline = f.deadline /\ g.authorised = f.authorised
      /\ g.attempts = f.attempts + 1 /\ g.activeOperation = Len(ops) + 1
      /\ g.status # "resolved"
  BY <1>1 DEF Contacted, FollowUpRecords
<1>7. ValidFollowUp(g)
  <2>1. CASE f.attempts + 1 >= MaxAutoRetry
    BY <1>1, <2>1 DEF Contacted, FollowUpRecords, ValidFollowUp, DuePermitted, BoundCheckpoint, BlockedReasons
  <2>2. CASE ~(f.attempts + 1 >= MaxAutoRetry)
    <3>1. session.interrupted + RetryInterval * (f.attempts + 1) < f.deadline
      BY <1>1, <2>2 DEF DuePermitted, FollowUpRecords
    <3>2. session.interrupted + RetryInterval * (f.attempts + 1) # None
      BY <1>2, <1>3 DEF None
    <3>3. /\ g.status = "pending" /\ g.reason = "none"
          /\ g.due = session.interrupted + RetryInterval * (f.attempts + 1)
      BY <1>1, <2>2 DEF Contacted, FollowUpRecords
    <3>4. QED
      BY <1>6, <3>1, <3>2, <3>3 DEF ValidFollowUp, DuePermitted, BoundCheckpoint
  <2>3. QED
    BY <2>1, <2>2
<1>8. BoundRecord(session, g)
  BY <1>6 DEF BoundRecord, Obligation, DuePermitted, BoundCheckpoint
<1>9. AccountedRecord(g, grown)
  BY <1>1, <1>5, <1>6 DEF AccountedRecord, Obligation, DuePermitted, FollowUpRecords
<1>10. WithinRecord(session, g, grown)
  <2>1. ASSUME NEW k \in 1..(Len(ops) + 1)
        PROVE  /\ grown[k].committedAt >= session.interrupted + RetryInterval * (k - 1)
               /\ grown[k].committedAt < f.deadline
    <3>1. CASE k \in 1..Len(ops)
      BY <1>1, <1>5, <3>1 DEF Obligation, WithinRecord
    <3>2. CASE k = Len(ops) + 1
      BY <1>1, <1>2, <1>3, <1>5, <3>2 DEF DuePermitted, FollowUpRecords
    <3>3. QED
      BY <1>1, <3>1, <3>2
  <2>2. QED
    BY <1>5, <1>6, <2>1 DEF WithinRecord
<1>11. DecidedRecord(g)
  BY <1>6 DEF DecidedRecord
<1>12. QED
  BY <1>4, <1>5, <1>7, <1>8, <1>9, <1>10, <1>11 DEF Obligation

\* Resolution by expiry, abandonment or resume.
LEMMA ResolvedObligation ==
  ASSUME NEW session \in SessionRecords, NEW f, NEW ops, NEW at \in Nat,
         Obligation(session, f, ops), NEW resolution \in Resolutions, NEW result \in Results,
         f.deadline # None => (resolution = "recovery_expired" <=> at >= f.deadline)
  PROVE  Obligation(session, Resolved(f, resolution, at), Reconciled(ops, result))
<1> DEFINE g == Resolved(f, resolution, at)
<1> DEFINE settled == Reconciled(ops, result)
<1>1. f \in FollowUpRecords /\ ops \in Seq(OperationRecords)
  BY DEF Obligation
<1>2. g \in FollowUpRecords
  BY <1>1 DEF Resolved, FollowUpRecords, Times
<1>3. /\ settled \in Seq(OperationRecords)
      /\ Len(settled) = Len(ops) /\ DOMAIN settled = DOMAIN ops
      /\ OpenOperations(settled) = {}
      /\ \A k \in DOMAIN ops : settled[k].committedAt = ops[k].committedAt
  BY <1>1, ReconciledOperations
<1>4. /\ g.policy = f.policy /\ g.deadline = f.deadline /\ g.attempts = f.attempts
      /\ g.activeOperation = 0 /\ g.status = "resolved" /\ g.reason = resolution
      /\ g.due = None /\ g.updated = at
  BY <1>1 DEF Resolved, FollowUpRecords
<1>5. ValidFollowUp(g)
  BY <1>4 DEF ValidFollowUp, Obligation
<1>6. BoundRecord(session, g) /\ AccountedRecord(g, settled)
  BY <1>3, <1>4 DEF Obligation, BoundRecord, AccountedRecord
<1>7. WithinRecord(session, g, settled)
  BY <1>3, <1>4 DEF Obligation, WithinRecord
<1>8. DecidedRecord(g)
  BY <1>4 DEF DecidedRecord
<1>9. QED
  BY <1>2, <1>3, <1>5, <1>6, <1>7, <1>8 DEF Obligation

LEMMA WithdrawnObligation ==
  ASSUME NEW session \in SessionRecords, NEW f, NEW ops, NEW at \in Nat,
         Obligation(session, f, ops)
  PROVE  Obligation(session, Withdrawn(f, at), Reconciled(ops, "authority_lost"))
<1> DEFINE g == Withdrawn(f, at)
<1> DEFINE settled == Reconciled(ops, "authority_lost")
<1>1. f \in FollowUpRecords /\ ops \in Seq(OperationRecords)
  BY DEF Obligation
<1>2. g \in FollowUpRecords
  BY <1>1 DEF Withdrawn, FollowUpRecords, Times, BlockedReasons
<1>3. /\ settled \in Seq(OperationRecords)
      /\ Len(settled) = Len(ops) /\ DOMAIN settled = DOMAIN ops
      /\ OpenOperations(settled) = {}
      /\ \A k \in DOMAIN ops : settled[k].committedAt = ops[k].committedAt
  BY <1>1, ReconciledOperations DEF Results
<1>4. /\ g.policy = f.policy /\ g.deadline = f.deadline /\ g.attempts = f.attempts
      /\ g.activeOperation = 0 /\ g.status = "blocked" /\ ~g.authorised
      /\ g.reason = "contact_not_authorised"
  BY <1>1 DEF Withdrawn, FollowUpRecords
<1>5. ValidFollowUp(g)
  BY <1>4 DEF ValidFollowUp, Obligation, BlockedReasons
<1>6. BoundRecord(session, g) /\ AccountedRecord(g, settled)
  BY <1>3, <1>4 DEF Obligation, BoundRecord, AccountedRecord
<1>7. WithinRecord(session, g, settled) /\ DecidedRecord(g)
  BY <1>3, <1>4 DEF Obligation, WithinRecord, DecidedRecord
<1>8. QED
  BY <1>2, <1>3, <1>5, <1>6, <1>7 DEF Obligation

\* A checkpoint that has just been saved.
LEMMA NewObligation ==
  ASSUME NEW at \in Nat, NEW authenticated \in BOOLEAN
  PROVE  Obligation([status |-> "paused", interrupted |-> at],
                    NewFollowUp(at, authenticated), <<>>)
<1> DEFINE g == NewFollowUp(at, authenticated)
<1>1. at # None /\ at + RecoveryDeadline # None /\ at < at + RecoveryDeadline
  BY DEF None
<1>2. g \in FollowUpRecords
  BY DEF NewFollowUp, FollowUpRecords, Times, BlockedReasons
<1>3. <<>> \in Seq(OperationRecords) /\ OpenOperations(<<>>) = {} /\ Len(<<>>) = 0
      /\ DOMAIN <<>> = {}
  BY DEF OpenOperations
<1>4. ValidFollowUp(g)
  BY <1>1 DEF NewFollowUp, ValidFollowUp, BlockedReasons
<1>5. AccountedRecord(g, <<>>)
  BY <1>3 DEF NewFollowUp, AccountedRecord
<1>6. QED
  BY <1>1, <1>2, <1>3, <1>4, <1>5
     DEF Obligation, NewFollowUp, BoundRecord, WithinRecord, DecidedRecord

\* The migration binds a Follow-up or fails it closed.
LEMMA BackfilledObligation ==
  ASSUME NEW session \in SessionRecords, NEW f, NEW ops,
         Obligation(session, f, ops), IsOpen(f), f.policy # "published" \/ f.deadline = None
  PROVE  Obligation(session, Backfilled(session, f), ops)
<1> DEFINE g == Backfilled(session, f)
<1>1. /\ f \in FollowUpRecords /\ ops \in Seq(OperationRecords)
      /\ f.policy # "published" /\ f.deadline = None /\ f.attempts = 0 /\ f.activeOperation = 0
  BY DEF Obligation, BoundRecord
<1>2. Len(ops) = 0 /\ ops = <<>> /\ DOMAIN ops = {}
  <2>1. Len(ops) = 0
    BY <1>1 DEF Obligation, AccountedRecord
  <2>2. QED
    BY <1>1, <2>1, EmptySeq, LenProperties
<1>3. CASE g = [f EXCEPT !.status = "blocked",
                         !.reason = IF f.policy = "foreign" THEN "policy_binding_invalid"
                                    ELSE "source_state_inconsistent"]
  <2>1. g \in FollowUpRecords
    BY <1>1, <1>3 DEF FollowUpRecords, BlockedReasons
  <2>2. /\ g.status = "blocked" /\ g.policy = f.policy /\ g.deadline = None
        /\ g.reason \in {"policy_binding_invalid", "source_state_inconsistent"}
        /\ g.attempts = 0 /\ g.activeOperation = 0 /\ g.authorised = f.authorised
    BY <1>1, <1>3 DEF FollowUpRecords
  <2>3. ValidFollowUp(g) /\ BoundRecord(session, g) /\ DecidedRecord(g)
    BY <1>1, <2>2 DEF ValidFollowUp, BoundRecord, DecidedRecord, BlockedReasons
  <2>4. AccountedRecord(g, ops) /\ WithinRecord(session, g, ops)
    BY <1>1, <1>2, <2>2 DEF Obligation, AccountedRecord, WithinRecord
  <2>5. QED
    BY <1>1, <2>1, <2>3, <2>4 DEF Obligation
<1>4. CASE /\ g = [f EXCEPT !.policy = "published",
                            !.deadline = session.interrupted + RecoveryDeadline,
                            !.reason = IF f.status = "blocked" /\ f.reason = "none"
                                       THEN "contact_not_authorised" ELSE f.reason]
           /\ session.interrupted # None
           /\ f.status = "pending" => ~(f.due >= session.interrupted + RecoveryDeadline)
  <2>1. /\ session.interrupted \in Nat
        /\ session.interrupted + RecoveryDeadline \in Nat
        /\ session.interrupted + RecoveryDeadline # None
    BY <1>4 DEF SessionRecords, Times, None
  <2>2. g \in FollowUpRecords
    BY <1>1, <1>4, <2>1 DEF FollowUpRecords, BlockedReasons, Times
  <2>3. /\ g.status = f.status /\ g.due = f.due /\ g.authorised = f.authorised
        /\ g.policy = "published" /\ g.deadline = session.interrupted + RecoveryDeadline
        /\ g.attempts = 0 /\ g.activeOperation = 0
        /\ g.reason = IF f.status = "blocked" /\ f.reason = "none"
                      THEN "contact_not_authorised" ELSE f.reason
    BY <1>1, <1>4 DEF FollowUpRecords
  <2>4. ValidFollowUp(g)
    <3>1. f.due \in Int
      BY <1>1 DEF FollowUpRecords, Times, None
    <3>2. QED
      BY <1>4, <2>1, <2>3, <3>1 DEF ValidFollowUp, Obligation, BlockedReasons
  <2>5. AccountedRecord(g, ops)
    BY <1>1, <2>3 DEF AccountedRecord, Obligation
  <2>6. BoundRecord(session, g) /\ WithinRecord(session, g, ops)
    BY <1>2, <1>4, <2>1, <2>3 DEF BoundRecord, WithinRecord
  <2>7. DecidedRecord(g)
    BY <2>3 DEF DecidedRecord, IsOpen
  <2>8. QED
    BY <1>1, <2>2, <2>4, <2>5, <2>6, <2>7 DEF Obligation
<1>5. QED
  BY <1>3, <1>4 DEF Backfilled
-----------------------------------------------------------------------------
(* The invariant: what is stored, and what the handlers hold of it.        *)

\* Sessions 1 to n have been created; at most the last is active or has an
\* open obligation, which a Claim that expired or was abandoned has not.
Ordered(n) ==
    /\ \A s \in SessionIds : sessions[s].status = "unused" <=> s > n
    /\ \A s \in SessionIds : sessions[s].status = "active" <=> claim.active = s
    /\ claim.active \in {NoSession, n}
    /\ \A s \in OpenSessions : s = n /\ claim.active = NoSession
    /\ claim.terminal = "expired" =>
         /\ claim.active = NoSession
         /\ followUps[n].status = "resolved" /\ followUps[n].reason = "recovery_expired"
    /\ claim.terminal = "abandoned" =>
         /\ claim.active = NoSession
         /\ followUps[n].status = "resolved" /\ followUps[n].reason = "staff_abandoned"

StoreInv ==
    /\ now \in Nat
    /\ claim \in Claims
    /\ sessions \in [SessionIds -> SessionRecords]
    /\ followUps \in [SessionIds -> FollowUpRecords \cup {NoFollowUp}]
    /\ operations \in [SessionIds -> Seq(OperationRecords)]
    /\ \A s \in SessionIds : ObligationOrNone(sessions[s], followUps[s], operations[s])
    /\ \E n \in SessionIds : Ordered(n)

\* A handler that commits an obligation has read one, and the Claim it read
\* for resuming was not ended at that revision.
HeldOK(held, c) ==
    /\ held.pc \in {"expiring", "contacting"} => held.session # NoSession
    /\ held.pc = "commit" /\ held.kind \in {"abandon", "withdraw"} => held.session # NoSession
    /\ held.revision <= c.revision
    /\ held.pc \in {"start", "commit"} /\ held.kind = "resume" /\ held.revision = c.revision =>
         c.terminal = "none"

ThreadInv ==
    /\ thread \in [Threads -> ThreadRecords]
    /\ \A t \in Threads : HeldOK(thread[t], claim)

IInv == StoreInv /\ ThreadInv

\* What ResolutionFinal says of one step.
HistoryKept ==
    \A s \in SessionIds :
      /\ followUps[s].status = "resolved" =>
           followUps'[s] = followUps[s] /\ operations'[s] = operations[s]
      /\ Len(operations'[s]) >= Len(operations[s])

LEMMA NoFollowUpIsNone ==
  /\ NoFollowUp \notin FollowUpRecords
  /\ NoFollowUp.status = "absent"
  /\ ~IsOpen(NoFollowUp)
BY DEF NoFollowUp, FollowUpRecords, IsOpen

\* The last Session is the one that Latest finds.
LEMMA LastSession ==
  ASSUME NEW n \in SessionIds, NEW stored,
         \A s \in SessionIds : stored[s].status = "unused" <=> s > n
  PROVE  LastUsed(stored) = n
<1> DEFINE IsLast(s) == /\ stored[s].status # "unused"
                        /\ \A u \in SessionIds : u > s => stored[u].status = "unused"
<1>1. 1 \in SessionIds /\ stored[1].status # "unused"
  BY DEF SessionIds
<1>2. IsLast(n)
  BY DEF SessionIds
<1>3. ASSUME NEW s \in SessionIds, IsLast(s)  PROVE s = n
  BY <1>3 DEF SessionIds
<1>4. LastUsed(stored) = CHOOSE s \in SessionIds : IsLast(s)
  BY <1>1 DEF LastUsed
<1> HIDE DEF IsLast
<1>5. QED
  BY <1>2, <1>3, <1>4

\* An open obligation is read from the stored records.
LEMMA OpenObligation ==
  ASSUME StoreInv, NEW s \in SessionIds, IsOpen(followUps[s])
  PROVE  /\ Obligation(sessions[s], followUps[s], operations[s])
         /\ sessions[s] \in SessionRecords /\ followUps[s] \in FollowUpRecords
         /\ operations[s] \in Seq(OperationRecords)
         /\ claim.active = NoSession
         /\ followUps[s].status # "resolved"
BY NoFollowUpIsNone DEF StoreInv, ObligationOrNone, Ordered, OpenSessions, IsOpen

\* A transaction writes the outcome of an open obligation, and ends the Claim
\* if it does so accordingly.
LEMMA WrittenObligation ==
  ASSUME StoreInv, NEW s \in SessionIds, IsOpen(followUps[s]),
         NEW g, NEW ops, Obligation(sessions[s], g, ops), Len(ops) >= Len(operations[s]),
         now' = now, sessions' = sessions, claim' \in Claims, claim'.active = claim.active,
         followUps' = [followUps EXCEPT ![s] = g],
         operations' = [operations EXCEPT ![s] = ops],
         \/ claim'.terminal = claim.terminal
         \/ claim'.terminal = "expired" /\ g.status = "resolved" /\ g.reason = "recovery_expired"
         \/ claim'.terminal = "abandoned" /\ g.status = "resolved" /\ g.reason = "staff_abandoned"
  PROVE  StoreInv' /\ HistoryKept
<1>1. g \in FollowUpRecords /\ ops \in Seq(OperationRecords)
  BY DEF Obligation
<1>2. /\ followUps' \in [SessionIds -> FollowUpRecords \cup {NoFollowUp}]
      /\ operations' \in [SessionIds -> Seq(OperationRecords)]
      /\ followUps'[s] = g /\ operations'[s] = ops
      /\ \A u \in SessionIds \ {s} : followUps'[u] = followUps[u] /\ operations'[u] = operations[u]
  BY <1>1 DEF StoreInv
<1>3. \A u \in SessionIds : ObligationOrNone(sessions'[u], followUps'[u], operations'[u])
  BY <1>1, <1>2, NoFollowUpIsNone DEF StoreInv, ObligationOrNone
<1>4. PICK n \in SessionIds : Ordered(n)
  BY DEF StoreInv
<1>5. s = n /\ claim.active = NoSession /\ claim.terminal \notin {"expired", "abandoned"}
  BY <1>4, OpenObligation DEF Ordered, OpenSessions
<1>6. Ordered(n)'
  BY <1>2, <1>4, <1>5 DEF Ordered, OpenSessions
<1>7. HistoryKept
  <2>1. \A u \in SessionIds : Len(operations[u]) \in Nat
    BY LenProperties DEF StoreInv
  <2>2. followUps[s].status # "resolved"
    BY OpenObligation
  <2>3. QED
    BY <1>2, <2>1, <2>2 DEF HistoryKept
<1>8. QED
  BY <1>2, <1>3, <1>6, <1>7 DEF StoreInv

\* A step that leaves the records of the Sessions alone.
LEMMA UnchangedObligations ==
  ASSUME StoreInv, now' \in Nat, claim' = claim, UNCHANGED <<sessions, followUps, operations>>
  PROVE  StoreInv' /\ HistoryKept
<1>1. StoreInv'
  BY DEF StoreInv, Ordered, OpenSessions
<1>2. \A u \in SessionIds : Len(operations[u]) \in Nat
  BY LenProperties DEF StoreInv
<1>3. QED
  BY <1>1, <1>2 DEF HistoryKept

\* A further revision of the Claim invalidates what the handlers hold of it.
LEMMA NewRevision ==
  ASSUME claim \in Claims, claim' \in Claims, claim'.revision = claim.revision + 1,
         NEW held \in ThreadRecords, HeldOK(held, claim)
  PROVE  HeldOK(held, claim')
BY DEF HeldOK, Claims, ThreadRecords

LEMMA IdleHeld ==
  ASSUME NEW c \in Claims
  PROVE  IdleThread \in ThreadRecords /\ HeldOK(IdleThread, c)
BY EmptySeq DEF IdleThread, ThreadRecords, HeldOK, Claims, NoSession

\* Thread t changes what it holds; the Claim is left or gets a revision.
LEMMA ThreadStep ==
  ASSUME ThreadInv, claim \in Claims, claim' \in Claims,
         claim' = claim \/ claim'.revision = claim.revision + 1,
         NEW t \in Threads, NEW h \in ThreadRecords, HeldOK(h, claim'),
         thread' = [thread EXCEPT ![t] = h]
  PROVE  ThreadInv'
<1>1. thread' \in [Threads -> ThreadRecords]
  BY DEF ThreadInv
<1>2. ASSUME NEW u \in Threads PROVE HeldOK(thread'[u], claim')
  <2>1. CASE u = t
    BY <2>1 DEF ThreadInv
  <2>2. CASE u # t
    <3>1. thread'[u] = thread[u] /\ thread[u] \in ThreadRecords /\ HeldOK(thread[u], claim)
      BY <2>2 DEF ThreadInv
    <3>2. QED
      BY <3>1, NewRevision
  <2>3. QED
    BY <2>1, <2>2
<1>3. QED
  BY <1>1, <1>2 DEF ThreadInv

LEMMA FinishedThread ==
  ASSUME ThreadInv, claim \in Claims, claim' \in Claims,
         claim' = claim \/ claim'.revision = claim.revision + 1,
         NEW t \in Threads, Finish(t)
  PROVE  ThreadInv'
BY IdleHeld, ThreadStep DEF Finish
-----------------------------------------------------------------------------
(* The steps that commit.                                                  *)

LEMMA AdvancedClaim ==
  ASSUME NEW c \in Claims
  PROVE  /\ Advanced(c) \in Claims /\ Advanced(c).revision = c.revision + 1
         /\ Advanced(c).active = c.active /\ Advanced(c).terminal = c.terminal
BY DEF Advanced, Claims

LEMMA CommitExpiryKeeps ==
  ASSUME IInv, NEW w \in Threads, CommitExpiry(w)
  PROVE  IInv' /\ HistoryKept
<1> DEFINE s == thread[w].session
<1> DEFINE at == thread[w].at
<1> DEFINE h == [IdleThread EXCEPT !.pc = "due", !.at = at]
<1>1. /\ thread[w] \in ThreadRecords /\ HeldOK(thread[w], claim) /\ claim \in Claims
      /\ at \in Nat /\ s \in SessionIds
  BY DEF IInv, ThreadInv, StoreInv, HeldOK, ThreadRecords, CommitExpiry
<1>2. h \in ThreadRecords /\ \A c \in Claims : HeldOK(h, c)
  BY <1>1, IdleHeld DEF IdleThread, ThreadRecords, HeldOK, Claims
<1>3. thread' = [thread EXCEPT ![w] = h]
  BY DEF CommitExpiry
<1>4. CASE UNCHANGED <<claim, followUps, operations>>
  <2>1. StoreInv' /\ HistoryKept
    BY <1>4, UnchangedObligations DEF IInv, StoreInv, CommitExpiry
  <2>2. QED
    BY <1>1, <1>2, <1>3, <1>4, <2>1, ThreadStep DEF IInv
<1>5. CASE /\ ExpiryPermitted(claim, sessions[s], followUps[s], operations[s], at)
           /\ claim' = [Advanced(claim) EXCEPT !.terminal = "expired", !.canResume = FALSE]
           /\ followUps' = [followUps EXCEPT ![s] = Resolved(@, "recovery_expired", at)]
           /\ operations' = [operations EXCEPT ![s] = Reconciled(@, "no_response")]
  <2> DEFINE g == Resolved(followUps[s], "recovery_expired", at)
  <2> DEFINE ops == Reconciled(operations[s], "no_response")
  <2>1. /\ claim' \in Claims /\ claim'.revision = claim.revision + 1
        /\ claim'.active = claim.active /\ claim'.terminal = "expired"
    BY <1>1, <1>5, AdvancedClaim DEF Claims, Terminals
  <2>2. IsOpen(followUps[s]) /\ at >= followUps[s].deadline
    BY <1>5 DEF ExpiryPermitted
  <2>3. /\ Obligation(sessions[s], followUps[s], operations[s])
        /\ sessions[s] \in SessionRecords /\ followUps[s] \in FollowUpRecords
        /\ operations[s] \in Seq(OperationRecords)
    BY <1>1, <2>2, OpenObligation DEF IInv
  <2>4. Obligation(sessions[s], g, ops)
    BY <1>1, <2>2, <2>3, ResolvedObligation DEF Resolutions, Results
  <2>5. Len(ops) >= Len(operations[s])
    BY <2>3, ReconciledOperations, LenProperties DEF Results
  <2>6. g.status = "resolved" /\ g.reason = "recovery_expired"
    BY <2>3 DEF Resolved, FollowUpRecords
  <2>7. StoreInv' /\ HistoryKept
    <3> HIDE DEF g, ops, s, at
    <3>1. followUps' = [followUps EXCEPT ![s] = g] /\ operations' = [operations EXCEPT ![s] = ops]
      BY <1>5 DEF g, ops
    <3>2. now' = now /\ sessions' = sessions
      BY DEF CommitExpiry
    <3>3. QED
      BY <1>1, <2>1, <2>2, <2>4, <2>5, <2>6, <3>1, <3>2, WrittenObligation DEF IInv
  <2>8. QED
    BY <1>1, <1>2, <1>3, <2>1, <2>7, ThreadStep DEF IInv
<1>6. QED
  BY <1>4, <1>5 DEF CommitExpiry

LEMMA CommitDueKeeps ==
  ASSUME IInv, NEW w \in Threads, CommitDue(w)
  PROVE  IInv' /\ HistoryKept
<1> DEFINE s == thread[w].session
<1> DEFINE at == thread[w].at
<1>1. /\ thread[w] \in ThreadRecords /\ claim \in Claims
      /\ at \in Nat /\ s \in SessionIds
  BY DEF IInv, ThreadInv, StoreInv, HeldOK, ThreadRecords, CommitDue
<1>2. Finish(w) /\ claim' = claim /\ now' = now /\ sessions' = sessions
  BY DEF CommitDue
<1>3. ThreadInv'
  BY <1>1, <1>2, FinishedThread DEF IInv
<1>4. CASE UNCHANGED <<followUps, operations>>
  BY <1>2, <1>3, <1>4, UnchangedObligations DEF IInv, StoreInv
<1>5. CASE /\ DuePermitted(claim, sessions[s], followUps[s], operations[s], at)
           /\ followUps' = [followUps EXCEPT
                ![s] = Contacted(sessions[s], followUps[s], operations[s], at)]
           /\ operations' = [operations EXCEPT ![s] = Attempted(operations[s], at)]
  <2> DEFINE g == Contacted(sessions[s], followUps[s], operations[s], at)
  <2> DEFINE ops == Attempted(operations[s], at)
  <2>1. IsOpen(followUps[s])
    BY <1>5 DEF DuePermitted, IsOpen
  <2>2. /\ Obligation(sessions[s], followUps[s], operations[s])
        /\ sessions[s] \in SessionRecords
        /\ operations[s] \in Seq(OperationRecords)
    BY <1>1, <2>1, OpenObligation DEF IInv
  <2>3. Obligation(sessions[s], g, ops)
    BY <1>1, <1>5, <2>2, ContactedObligation
  <2>4. Len(ops) >= Len(operations[s])
    BY <1>1, <2>2, AttemptedOperations, LenProperties
  <2>5. StoreInv' /\ HistoryKept
    <3> HIDE DEF g, ops, s
    <3>1. followUps' = [followUps EXCEPT ![s] = g] /\ operations' = [operations EXCEPT ![s] = ops]
      BY <1>5 DEF g, ops
    <3>2. QED
      BY <1>1, <1>2, <2>1, <2>3, <2>4, <3>1, WrittenObligation DEF IInv
  <2>6. QED
    BY <1>3, <2>5 DEF IInv
<1>6. QED
  BY <1>4, <1>5 DEF CommitDue, ContactStillPermitted, Current

LEMMA CommitAbandonKeeps ==
  ASSUME IInv, NEW c \in Threads, CommitAbandon(c)
  PROVE  IInv' /\ HistoryKept
<1> DEFINE s == thread[c].session
<1> DEFINE at == thread[c].at
<1>1. /\ thread[c] \in ThreadRecords /\ claim \in Claims
      /\ at \in Nat /\ s \in SessionIds
  BY DEF IInv, ThreadInv, StoreInv, HeldOK, ThreadRecords, CommitAbandon
<1>2. Finish(c) /\ now' = now /\ sessions' = sessions
  BY DEF CommitAbandon
<1>3. CASE UNCHANGED <<claim, followUps, operations>>
  <2>1. StoreInv' /\ HistoryKept
    BY <1>2, <1>3, UnchangedObligations DEF IInv, StoreInv
  <2>2. QED
    BY <1>1, <1>2, <1>3, <2>1, FinishedThread DEF IInv
<1>4. CASE /\ AbandonmentPermitted(claim, sessions[s], followUps[s], operations[s], at)
           /\ claim' = [Advanced(claim) EXCEPT !.terminal = "abandoned"]
           /\ followUps' = [followUps EXCEPT ![s] = Resolved(@, "staff_abandoned", at)]
           /\ operations' = [operations EXCEPT ![s] = Reconciled(@, "authority_lost")]
  <2> DEFINE g == Resolved(followUps[s], "staff_abandoned", at)
  <2> DEFINE ops == Reconciled(operations[s], "authority_lost")
  <2>1. /\ claim' \in Claims /\ claim'.revision = claim.revision + 1
        /\ claim'.active = claim.active /\ claim'.terminal = "abandoned"
    BY <1>1, <1>4, AdvancedClaim DEF Claims, Terminals
  <2>2. /\ IsOpen(followUps[s]) /\ at < followUps[s].deadline
        /\ followUps[s].deadline = sessions[s].interrupted + RecoveryDeadline
    BY <1>4 DEF AbandonmentPermitted, BoundCheckpoint
  <2>3. /\ Obligation(sessions[s], followUps[s], operations[s])
        /\ sessions[s] \in SessionRecords /\ followUps[s] \in FollowUpRecords
        /\ operations[s] \in Seq(OperationRecords)
    BY <1>1, <2>2, OpenObligation DEF IInv
  <2>4. ~(at >= followUps[s].deadline)
    BY <1>1, <2>2, <2>3 DEF FollowUpRecords, Times, None
  <2>5. Obligation(sessions[s], g, ops)
    BY <1>1, <2>3, <2>4, ResolvedObligation DEF Resolutions, Results
  <2>6. Len(ops) >= Len(operations[s])
    BY <2>3, ReconciledOperations, LenProperties DEF Results
  <2>7. g.status = "resolved" /\ g.reason = "staff_abandoned"
    BY <2>3 DEF Resolved, FollowUpRecords
  <2>8. StoreInv' /\ HistoryKept
    <3> HIDE DEF g, ops, s, at
    <3>1. followUps' = [followUps EXCEPT ![s] = g] /\ operations' = [operations EXCEPT ![s] = ops]
      BY <1>4 DEF g, ops
    <3>2. QED
      BY <1>1, <1>2, <2>1, <2>2, <2>5, <2>6, <2>7, <3>1, WrittenObligation DEF IInv
  <2>9. QED
    BY <1>1, <1>2, <2>1, <2>8, FinishedThread DEF IInv
<1>5. QED
  BY <1>3, <1>4 DEF CommitAbandon

LEMMA CommitWithdrawKeeps ==
  ASSUME IInv, NEW c \in Threads, CommitWithdraw(c)
  PROVE  IInv' /\ HistoryKept
<1> DEFINE s == thread[c].session
<1> DEFINE at == thread[c].at
<1>1. /\ thread[c] \in ThreadRecords /\ claim \in Claims
      /\ at \in Nat /\ s \in SessionIds
  BY DEF IInv, ThreadInv, StoreInv, HeldOK, ThreadRecords, CommitWithdraw
<1>2. Finish(c) /\ now' = now /\ claim' = claim /\ sessions' = sessions
  BY DEF CommitWithdraw
<1>3. ThreadInv'
  BY <1>1, <1>2, FinishedThread DEF IInv
<1>4. CASE UNCHANGED <<followUps, operations>>
  BY <1>2, <1>3, <1>4, UnchangedObligations DEF IInv, StoreInv
<1>5. CASE /\ WithdrawalPermitted(claim, sessions[s], followUps[s], operations[s], at)
           /\ followUps' = [followUps EXCEPT ![s] = Withdrawn(@, at)]
           /\ operations' = [operations EXCEPT ![s] = Reconciled(@, "authority_lost")]
  <2> DEFINE g == Withdrawn(followUps[s], at)
  <2> DEFINE ops == Reconciled(operations[s], "authority_lost")
  <2>1. IsOpen(followUps[s])
    BY <1>5 DEF WithdrawalPermitted
  <2>2. /\ Obligation(sessions[s], followUps[s], operations[s])
        /\ sessions[s] \in SessionRecords
        /\ operations[s] \in Seq(OperationRecords)
    BY <1>1, <2>1, OpenObligation DEF IInv
  <2>3. Obligation(sessions[s], g, ops)
    BY <1>1, <2>2, WithdrawnObligation
  <2>4. Len(ops) >= Len(operations[s])
    BY <2>2, ReconciledOperations, LenProperties DEF Results
  <2>5. StoreInv' /\ HistoryKept
    <3> HIDE DEF g, ops, s
    <3>1. followUps' = [followUps EXCEPT ![s] = g] /\ operations' = [operations EXCEPT ![s] = ops]
      BY <1>5 DEF g, ops
    <3>2. QED
      BY <1>1, <1>2, <2>1, <2>3, <2>4, <3>1, WrittenObligation DEF IInv
  <2>6. QED
    BY <1>3, <2>5 DEF IInv
<1>6. QED
  BY <1>4, <1>5 DEF CommitWithdraw

LEMMA BackfillKeeps ==
  ASSUME IInv, NEW s \in SessionIds, Backfill(s)
  PROVE  IInv' /\ HistoryKept
<1> DEFINE g == Backfilled(sessions[s], followUps[s])
<1>1. /\ followUps' = [followUps EXCEPT ![s] = g] /\ IsOpen(followUps[s])
      /\ followUps[s].policy # "published" \/ followUps[s].deadline = None
      /\ UNCHANGED <<now, claim, sessions, operations, thread>>
  BY DEF Backfill
<1>2. /\ Obligation(sessions[s], followUps[s], operations[s])
      /\ sessions[s] \in SessionRecords
  BY <1>1, OpenObligation DEF IInv
<1>3. Obligation(sessions[s], g, operations[s])
  BY <1>1, <1>2, BackfilledObligation
<1>4. Len(operations[s]) \in Nat
  BY LenProperties DEF IInv, StoreInv
<1>5. operations' = [operations EXCEPT ![s] = operations[s]]
  BY <1>1 DEF IInv, StoreInv
<1> HIDE DEF g
<1>6. StoreInv' /\ HistoryKept
  <2>1. /\ now' = now /\ sessions' = sessions /\ claim' = claim /\ claim \in Claims
        /\ Len(operations[s]) >= Len(operations[s])
    BY <1>1, <1>4 DEF IInv, StoreInv
  <2>2. QED
    BY <1>1, <1>3, <1>5, <2>1, WrittenObligation DEF IInv
<1>7. ThreadInv'
  BY <1>1 DEF IInv, ThreadInv
<1>8. QED
  BY <1>6, <1>7 DEF IInv
-----------------------------------------------------------------------------
(* The claimant resumes or pauses.                                         *)

\* A Session that is not paused has no Follow-up.
LEMMA PausedOnly ==
  ASSUME StoreInv, NEW s \in SessionIds, sessions[s].status # "paused"
  PROVE  followUps[s] = NoFollowUp /\ operations[s] = <<>>
BY DEF StoreInv, ObligationOrNone, Obligation

LEMMA CommitResumeKeeps ==
  ASSUME IInv, NEW c \in Threads, CommitResume(c)
  PROVE  IInv' /\ HistoryKept
<1> DEFINE held == thread[c]
<1> DEFINE new == Latest + 1
<1> DEFINE g == Resolved(followUps[held.session], "claimant_resumed", held.at)
<1> DEFINE ops == Reconciled(operations[held.session], "superseded_by_resume")
<1>1. /\ held \in ThreadRecords /\ HeldOK(held, claim) /\ claim \in Claims
      /\ held.at \in Nat /\ held.session \in SessionIds \cup {NoSession}
  BY DEF IInv, ThreadInv, StoreInv, ThreadRecords
<1>2. Finish(c) /\ now' = now /\ held.pc = "commit" /\ held.kind = "resume"
  BY DEF CommitResume
<1>3. CASE UNCHANGED <<claim, sessions, followUps, operations>>
  <2>1. StoreInv' /\ HistoryKept
    BY <1>2, <1>3, UnchangedObligations DEF IInv, StoreInv
  <2>2. QED
    BY <1>1, <1>2, <1>3, <2>1, FinishedThread DEF IInv
<1>4. ASSUME ResumePermitted(held), new \in SessionIds,
             claim' = [Advanced(claim) EXCEPT !.active = new],
             sessions' = [s \in SessionIds |->
                            IF s = new THEN [status |-> "active", interrupted |-> None]
                            ELSE IF s = claim.active
                            THEN [sessions[s] EXCEPT !.status = "closed"]
                            ELSE sessions[s]],
             followUps' = IF held.session # NoSession
                          THEN [followUps EXCEPT ![held.session] = g] ELSE followUps,
             operations' = IF held.session # NoSession
                           THEN [operations EXCEPT ![held.session] = ops] ELSE operations
      PROVE  IInv' /\ HistoryKept
  <2>1. PICK n \in SessionIds : Ordered(n)
    BY DEF IInv, StoreInv
  <2>2. new = n + 1 /\ n + 1 \in SessionIds
    BY <1>4, <2>1, LastSession DEF Latest, Ordered
  <2>3. /\ claim' \in Claims /\ claim'.revision = claim.revision + 1
        /\ claim'.active = n + 1 /\ claim'.terminal = "none"
    <3>1. claim.terminal = "none"
      BY <1>1, <1>2, <1>4 DEF HeldOK, ResumePermitted
    <3>2. QED
      BY <1>1, <1>4, <2>2, <3>1, AdvancedClaim DEF Claims
  <2>4. ThreadInv'
    BY <1>1, <1>2, <2>3, FinishedThread DEF IInv
  <2>5. \A s \in SessionIds : sessions[s] \in SessionRecords /\ followUps[s] \in FollowUpRecords \cup {NoFollowUp}
                              /\ operations[s] \in Seq(OperationRecords) /\ Len(operations[s]) \in Nat
    BY LenProperties DEF IInv, StoreInv
  <2>6. /\ sessions' \in [SessionIds -> SessionRecords]
        /\ sessions'[n + 1].status = "active"
        /\ \A s \in SessionIds \ {n + 1} :
             IF s = claim.active THEN sessions'[s].status = "closed" ELSE sessions'[s] = sessions[s]
    <3> HIDE DEF new, g, ops, held
    <3>1. \A s \in SessionIds : [sessions[s] EXCEPT !.status = "closed"] \in SessionRecords
      BY <2>5 DEF SessionRecords
    <3>2. [status |-> "active", interrupted |-> None] \in SessionRecords
      BY DEF SessionRecords, Times
    <3>3. \A s \in SessionIds : [sessions[s] EXCEPT !.status = "closed"].status = "closed"
      BY <2>5 DEF SessionRecords
    <3>4. QED
      BY <1>4, <2>2, <2>5, <3>1, <3>2, <3>3
  \* The obligation that is resolved, if there is one.
  <2>7. ASSUME held.session # NoSession
        PROVE  /\ held.session = n /\ claim.active = NoSession
               /\ OpenSessions = {n}
               /\ Obligation(sessions[n], g, ops)
               /\ Len(ops) >= Len(operations[n])
               /\ followUps[n].status # "resolved"
    <3>1. /\ OpenSessions = {held.session}
          /\ followUps[held.session].deadline # None =>
               held.at < followUps[held.session].deadline
      BY <1>4, <2>7 DEF ResumePermitted, ResolvesOpen
    <3>2. held.session \in SessionIds /\ IsOpen(followUps[held.session])
      BY <3>1 DEF OpenSessions
    <3>3. held.session = n /\ claim.active = NoSession
      BY <2>1, <3>1 DEF Ordered
    <3>4. /\ Obligation(sessions[n], followUps[n], operations[n])
          /\ sessions[n] \in SessionRecords /\ followUps[n] \in FollowUpRecords
          /\ followUps[n].status # "resolved"
      BY <3>2, <3>3, OpenObligation DEF IInv
    <3>5. followUps[n].deadline # None => ~(held.at >= followUps[n].deadline)
      BY <1>1, <3>1, <3>3, <3>4 DEF FollowUpRecords, Times, None
    <3>6. Obligation(sessions[n], g, ops)
      BY <1>1, <3>3, <3>4, <3>5, ResolvedObligation DEF Resolutions, Results
    <3>7. Len(ops) >= Len(operations[n])
      BY <2>5, <3>3, ReconciledOperations DEF Results
    <3>8. QED
      BY <3>1, <3>3, <3>4, <3>6, <3>7
  <2>8. g.status = "resolved"
    <3>1. CASE held.session # NoSession
      BY <2>5, <2>7, <3>1, OpenObligation, NoFollowUpIsNone DEF IInv, OpenSessions, Resolved, FollowUpRecords
    <3>2. QED
      BY DEF Resolved
  <2> HIDE DEF g, ops, held, new
  <2>9. followUps[n + 1] = NoFollowUp /\ operations[n + 1] = <<>>
    BY <2>1, <2>2, PausedOnly DEF Ordered, IInv, SessionIds
  <2>10. /\ followUps' \in [SessionIds -> FollowUpRecords \cup {NoFollowUp}]
         /\ operations' \in [SessionIds -> Seq(OperationRecords)]
    BY <1>4, <2>7 DEF IInv, StoreInv, Obligation
  <2>11. \A s \in SessionIds : ObligationOrNone(sessions'[s], followUps'[s], operations'[s])
    <3> SUFFICES ASSUME NEW s \in SessionIds
                 PROVE  ObligationOrNone(sessions'[s], followUps'[s], operations'[s])
      OBVIOUS
    <3>1. CASE held.session # NoSession /\ s = n
      <4>1. sessions'[s] = sessions[s] /\ followUps'[s] = g /\ operations'[s] = ops
        BY <1>4, <2>6, <2>7, <3>1 DEF IInv, StoreInv, SessionIds, NoSession
      <4>2. QED
        BY <2>7, <3>1, <4>1, NoFollowUpIsNone DEF ObligationOrNone, Obligation
    <3>2. CASE ~(held.session # NoSession /\ s = n)
      <4>1. followUps'[s] = followUps[s] /\ operations'[s] = operations[s]
        BY <1>4, <2>7, <3>2 DEF IInv, StoreInv
      <4>2. CASE s = n + 1
        BY <2>9, <4>1, <4>2 DEF ObligationOrNone
      <4>3. CASE s = claim.active
        BY <2>1, <4>1, <4>3, PausedOnly DEF Ordered, IInv, ObligationOrNone
      <4>4. CASE s # n + 1 /\ s # claim.active
        BY <2>6, <4>1, <4>4 DEF IInv, StoreInv
      <4>5. QED
        BY <4>2, <4>3, <4>4
    <3>3. QED
      BY <3>1, <3>2
  <2>12. OpenSessions' = {}
    <3>1. ASSUME NEW s \in SessionIds PROVE ~IsOpen(followUps'[s])
      <4>1. CASE held.session # NoSession
        BY <1>4, <2>7, <2>8, <4>1 DEF OpenSessions, IsOpen, IInv, StoreInv
      <4>2. CASE held.session = NoSession
        BY <1>4, <4>2 DEF OpenSessions, ResumePermitted, ResolvesOpen
      <4>3. QED
        BY <4>1, <4>2
    <3>2. QED
      BY <3>1 DEF OpenSessions
  <2>13. Ordered(n + 1)'
    <3>1. \A s \in SessionIds : sessions'[s].status = "unused" <=> s > n + 1
      BY <2>1, <2>2, <2>6 DEF Ordered, SessionIds
    <3>2. \A s \in SessionIds : sessions'[s].status = "active" <=> claim'.active = s
      BY <2>1, <2>2, <2>3, <2>6 DEF Ordered, SessionIds
    <3>3. QED
      BY <2>3, <2>12, <3>1, <3>2 DEF Ordered
  <2>14. StoreInv'
    BY <1>2, <2>2, <2>3, <2>6, <2>10, <2>11, <2>13 DEF IInv, StoreInv
  <2>15. HistoryKept
    <3>1. ASSUME NEW s \in SessionIds, held.session # NoSession, s = n
          PROVE  /\ followUps[s].status # "resolved"
                 /\ Len(operations'[s]) >= Len(operations[s])
      BY <1>4, <2>7, <3>1 DEF IInv, StoreInv
    <3>2. ASSUME NEW s \in SessionIds, ~(held.session # NoSession /\ s = n)
          PROVE  followUps'[s] = followUps[s] /\ operations'[s] = operations[s]
      BY <1>4, <2>7, <3>2 DEF IInv, StoreInv
    <3>3. QED
      BY <2>5, <3>1, <3>2 DEF HistoryKept
  <2>16. QED
    BY <2>4, <2>14, <2>15 DEF IInv
<1>5. QED
  BY <1>3, <1>4 DEF CommitResume

LEMMA CommitPauseKeeps ==
  ASSUME IInv, NEW c \in Threads, CommitPause(c)
  PROVE  IInv' /\ HistoryKept
<1> DEFINE held == thread[c]
<1> DEFINE s == claim.active
<1> DEFINE paused == [status |-> "paused", interrupted |-> held.at]
<1>1. claim \in Claims /\ held.at \in Nat
  BY DEF IInv, ThreadInv, StoreInv, ThreadRecords
<1>2. Finish(c) /\ now' = now /\ operations' = operations
  BY DEF CommitPause
<1>3. CASE UNCHANGED <<claim, sessions, followUps>>
  <2>1. StoreInv' /\ HistoryKept
    BY <1>2, <1>3, UnchangedObligations DEF IInv, StoreInv
  <2>2. QED
    BY <1>1, <1>2, <1>3, <2>1, FinishedThread DEF IInv
<1>4. ASSUME NEW authenticated \in BOOLEAN, CheckpointPermitted(held),
             claim' = [Advanced(claim) EXCEPT !.active = NoSession],
             sessions' = [sessions EXCEPT ![s] = paused],
             followUps' = [followUps EXCEPT ![s] = NewFollowUp(held.at, authenticated)]
      PROVE  IInv' /\ HistoryKept
  <2> DEFINE g == NewFollowUp(held.at, authenticated)
  <2>1. PICK n \in SessionIds : Ordered(n)
    BY DEF IInv, StoreInv
  <2>2. s = n /\ OpenSessions = {} /\ claim.terminal \notin {"expired", "abandoned"}
    BY <1>4, <2>1 DEF CheckpointPermitted, Ordered
  <2>3. /\ claim' \in Claims /\ claim'.revision = claim.revision + 1
        /\ claim'.active = NoSession /\ claim'.terminal = claim.terminal
    BY <1>1, <1>4, AdvancedClaim DEF Claims
  <2>4. ThreadInv'
    BY <1>1, <1>2, <2>3, FinishedThread DEF IInv
  <2>5. followUps[n] = NoFollowUp /\ operations[n] = <<>>
    BY <1>4, <2>2, PausedOnly DEF IInv, CheckpointPermitted
  <2>6. paused \in SessionRecords
    BY <1>1 DEF SessionRecords, Times
  <2>7. Obligation(paused, g, <<>>)
    BY <1>1, NewObligation
  <2>8. g \in FollowUpRecords
    BY <2>7 DEF Obligation
  <2> HIDE DEF g, held
  <2>9. /\ sessions' \in [SessionIds -> SessionRecords]
        /\ followUps' \in [SessionIds -> FollowUpRecords \cup {NoFollowUp}]
        /\ sessions'[n] = paused /\ followUps'[n] = g
        /\ \A u \in SessionIds \ {n} : sessions'[u] = sessions[u] /\ followUps'[u] = followUps[u]
    BY <1>4, <2>2, <2>6, <2>8 DEF IInv, StoreInv, g
  <2>10. \A u \in SessionIds : ObligationOrNone(sessions'[u], followUps'[u], operations'[u])
    <3>1. ObligationOrNone(sessions'[n], followUps'[n], operations'[n])
      BY <1>2, <2>5, <2>7, <2>8, <2>9, NoFollowUpIsNone DEF ObligationOrNone
    <3>2. QED
      BY <1>2, <2>9, <3>1 DEF IInv, StoreInv
  <2>11. Ordered(n)'
    BY <2>1, <2>2, <2>3, <2>9 DEF Ordered, OpenSessions, SessionIds, NoSession
  <2>12. StoreInv'
    BY <1>2, <2>3, <2>9, <2>10, <2>11 DEF IInv, StoreInv
  <2>13. HistoryKept
    <3>1. \A u \in SessionIds : Len(operations[u]) \in Nat
      BY LenProperties DEF IInv, StoreInv
    <3>2. followUps[n].status # "resolved"
      BY <2>5, NoFollowUpIsNone
    <3>3. QED
      BY <1>2, <2>9, <3>1, <3>2 DEF HistoryKept
  <2>14. QED
    BY <2>4, <2>12, <2>13 DEF IInv
<1>5. QED
  BY <1>3, <1>4 DEF CommitPause
-----------------------------------------------------------------------------
(* The steps that read, and those of the other services.                   *)

\* A step that changes no record of the Claim but what a handler holds.
LEMMA ReadKeeps ==
  ASSUME IInv, UNCHANGED <<now, claim, sessions, followUps, operations>>,
         NEW t \in Threads, NEW h \in ThreadRecords, HeldOK(h, claim),
         thread' = [thread EXCEPT ![t] = h]
  PROVE  IInv' /\ HistoryKept
<1>1. StoreInv' /\ HistoryKept
  BY UnchangedObligations DEF IInv, StoreInv
<1>2. ThreadInv'
  BY ThreadStep DEF IInv, StoreInv
<1>3. QED
  BY <1>1, <1>2 DEF IInv

LEMMA FinishKeeps ==
  ASSUME IInv, UNCHANGED <<now, claim, sessions, followUps, operations>>,
         NEW t \in Threads, Finish(t)
  PROVE  IInv' /\ HistoryKept
BY IdleHeld, ReadKeeps DEF Finish, IInv, StoreInv

LEMMA SnapshotKeeps ==
  ASSUME IInv, UNCHANGED <<now, claim, sessions, followUps, operations>>,
         NEW t \in Threads, NEW s \in OpenSessions, NEW at \in Nat,
         NEW pc \in {"expiring", "contacting", "commit"},
         NEW kind \in {"worker", "abandon", "withdraw"},
         HoldSnapshot(t, pc, kind, at, s)
  PROVE  IInv' /\ HistoryKept
<1> DEFINE h == [pc |-> pc, kind |-> kind, at |-> at, revision |-> claim.revision,
                 session |-> s, followUp |-> followUps[s], operations |-> operations[s]]
<1>1. s \in SessionIds /\ s # NoSession
  BY DEF OpenSessions, SessionIds, NoSession
<1>2. claim \in Claims /\ claim.revision \in Nat
  BY DEF IInv, StoreInv, Claims
<1>3. followUps[s] \in FollowUpRecords \cup {NoFollowUp} /\ operations[s] \in Seq(OperationRecords)
  BY <1>1 DEF IInv, StoreInv
<1>4. h \in ThreadRecords
  BY <1>1, <1>2, <1>3 DEF ThreadRecords
<1>5. HeldOK(h, claim)
  BY <1>1, <1>2 DEF HeldOK
<1>6. QED
  BY <1>4, <1>5, ReadKeeps DEF HoldSnapshot

LEMMA StartCallKeeps ==
  ASSUME IInv, NEW c \in Threads, NEW kind \in {"resume", "pause"}, StartCall(c, kind),
         kind = "resume" => claim.terminal = "none"
  PROVE  IInv' /\ HistoryKept
<1> DEFINE h == [thread[c] EXCEPT !.pc = "start", !.kind = kind, !.at = now,
                                  !.revision = claim.revision]
<1>1. thread[c] \in ThreadRecords /\ now \in Nat /\ claim.revision \in Nat
  BY DEF IInv, ThreadInv, StoreInv, Claims
<1>2. thread' = [thread EXCEPT ![c] = h]
  BY DEF StartCall, IInv, ThreadInv
<1>3. h \in ThreadRecords
  BY <1>1 DEF ThreadRecords
<1>4. HeldOK(h, claim)
  BY <1>1 DEF HeldOK, ThreadRecords
<1>5. UNCHANGED <<now, claim, sessions, followUps, operations>>
  BY DEF StartCall
<1> HIDE DEF h
<1>6. QED
  BY <1>2, <1>3, <1>4, <1>5, ReadKeeps

LEMMA ReadResumeKeeps ==
  ASSUME IInv, NEW c \in Threads, ReadResume(c)
  PROVE  IInv' /\ HistoryKept
<1>1. /\ thread[c] \in ThreadRecords /\ HeldOK(thread[c], claim)
      /\ thread[c].pc = "start" /\ thread[c].kind = "resume"
      /\ UNCHANGED <<now, claim, sessions, followUps, operations>>
  BY DEF IInv, ThreadInv, ReadResume
<1>2. CASE /\ Latest # NoSession
           /\ thread' = [thread EXCEPT ![c].pc = "commit", ![c].session = Latest,
                           ![c].followUp = followUps[Latest], ![c].operations = operations[Latest]]
  <2> DEFINE h == [thread[c] EXCEPT !.pc = "commit", !.session = Latest,
                     !.followUp = followUps[Latest], !.operations = operations[Latest]]
  <2>1. Latest \in SessionIds
    BY LastSession DEF IInv, StoreInv, Ordered, Latest
  <2>2. /\ followUps[Latest] \in FollowUpRecords \cup {NoFollowUp}
        /\ operations[Latest] \in Seq(OperationRecords)
    BY <2>1 DEF IInv, StoreInv
  <2>3. h \in ThreadRecords
    BY <1>1, <2>1, <2>2 DEF ThreadRecords
  <2>4. HeldOK(h, claim)
    BY <1>1 DEF HeldOK, ThreadRecords
  <2>5. thread' = [thread EXCEPT ![c] = h]
    BY <1>2 DEF IInv, ThreadInv
  <2> HIDE DEF h
  <2>6. QED
    BY <1>1, <2>3, <2>4, <2>5, ReadKeeps
<1>3. CASE Finish(c)
  BY <1>1, <1>3, FinishKeeps
<1>4. CASE thread' = [thread EXCEPT ![c].pc = "commit"]
  <2> DEFINE h == [thread[c] EXCEPT !.pc = "commit"]
  <2>1. h \in ThreadRecords /\ HeldOK(h, claim)
    BY <1>1 DEF HeldOK, ThreadRecords
  <2>2. thread' = [thread EXCEPT ![c] = h]
    BY <1>4 DEF IInv, ThreadInv
  <2>3. QED
    BY <1>1, <2>1, <2>2, ReadKeeps
<1>5. QED
  BY <1>2, <1>3, <1>4 DEF ReadResume

LEMMA StartCycleKeeps ==
  ASSUME IInv, NEW w \in Threads, StartCycle(w)
  PROVE  IInv' /\ HistoryKept
<1>1. /\ thread[w] \in ThreadRecords /\ now \in Nat
      /\ UNCHANGED <<now, claim, sessions, followUps, operations>>
  BY DEF IInv, ThreadInv, StoreInv, StartCycle
<1>2. CASE \E s \in OpenSessions : HoldSnapshot(w, "expiring", "worker", now, s)
  BY <1>1, <1>2, SnapshotKeeps
<1>3. CASE thread' = [thread EXCEPT ![w].pc = "due", ![w].at = now]
  <2> DEFINE h == [thread[w] EXCEPT !.pc = "due", !.at = now]
  <2>1. h \in ThreadRecords
    BY <1>1 DEF ThreadRecords
  <2>2. HeldOK(h, claim)
    BY <1>1 DEF IInv, ThreadInv, HeldOK, ThreadRecords
  <2>3. thread' = [thread EXCEPT ![w] = h]
    BY <1>3 DEF IInv, ThreadInv
  <2> HIDE DEF h
  <2>4. QED
    BY <1>1, <2>1, <2>2, <2>3, ReadKeeps
<1>4. QED
  BY <1>2, <1>3 DEF StartCycle

LEMMA ReadDueKeeps ==
  ASSUME IInv, NEW w \in Threads, ReadDue(w)
  PROVE  IInv' /\ HistoryKept
<1>1. /\ thread[w].at \in Nat
      /\ UNCHANGED <<now, claim, sessions, followUps, operations>>
  BY DEF IInv, ThreadInv, ThreadRecords, ReadDue
<1>2. CASE \E s \in OpenSessions : HoldSnapshot(w, "contacting", "worker", thread[w].at, s)
  BY <1>1, <1>2, SnapshotKeeps
<1>3. CASE Finish(w)
  BY <1>1, <1>3, FinishKeeps
<1>4. QED
  BY <1>2, <1>3 DEF ReadDue

\* The Claim alone changes, and is not ended by it as expired or abandoned.
LEMMA ClaimKeeps ==
  ASSUME IInv, UNCHANGED <<now, sessions, followUps, operations, thread>>,
         claim' \in Claims, claim'.revision = claim.revision + 1,
         claim'.active = claim.active,
         claim'.terminal \in {claim.terminal, "none", "completed"}
  PROVE  IInv' /\ HistoryKept
<1>1. StoreInv'
  <2>1. PICK n \in SessionIds : Ordered(n)
    BY DEF IInv, StoreInv
  <2>2. Ordered(n)'
    BY <2>1 DEF Ordered, OpenSessions
  <2>3. QED
    BY <2>2 DEF IInv, StoreInv
<1>2. ThreadInv'
  BY NewRevision DEF IInv, StoreInv, ThreadInv
<1>3. \A u \in SessionIds : Len(operations[u]) \in Nat
  BY LenProperties DEF IInv, StoreInv
<1>4. QED
  BY <1>1, <1>2, <1>3 DEF IInv, HistoryKept

LEMMA OtherServicesKeep ==
  ASSUME IInv, Reopen \/ AgentTurn \/ ClaimCreated
  PROVE  IInv' /\ HistoryKept
<1>1. claim \in Claims
  BY DEF IInv, StoreInv
<1>2. CASE Reopen
  <2>1. /\ claim' \in Claims /\ claim'.revision = claim.revision + 1
        /\ claim'.active = claim.active /\ claim'.terminal = "none"
    BY <1>1, <1>2, AdvancedClaim DEF Reopen, Claims, Terminals
  <2>2. QED
    BY <1>2, <2>1, ClaimKeeps DEF Reopen
<1>3. CASE AgentTurn
  <2>1. /\ claim' \in Claims /\ claim'.revision = claim.revision + 1
        /\ claim'.active = claim.active /\ claim'.terminal = claim.terminal
    BY <1>1, <1>3, AdvancedClaim DEF AgentTurn, Claims
  <2>2. QED
    BY <1>3, <2>1, ClaimKeeps DEF AgentTurn
<1>4. CASE ClaimCreated
  <2>1. /\ claim' \in Claims /\ claim'.revision = claim.revision + 1
        /\ claim'.active = claim.active /\ claim'.terminal = "completed"
    BY <1>1, <1>4, AdvancedClaim DEF ClaimCreated, Claims, Terminals
  <2>2. QED
    BY <1>4, <2>1, ClaimKeeps DEF ClaimCreated
<1>5. QED
  BY <1>2, <1>3, <1>4

LEMMA TickKeeps ==
  ASSUME IInv, Tick
  PROVE  IInv' /\ HistoryKept
<1>1. StoreInv' /\ HistoryKept
  BY UnchangedObligations DEF IInv, StoreInv, Tick
<1>2. ThreadInv'
  BY DEF IInv, ThreadInv, Tick
<1>3. QED
  BY <1>1, <1>2 DEF IInv
-----------------------------------------------------------------------------
(* The invariant holds.                                                    *)

LEMMA EmptyHistory == <<>> \in Seq(OperationRecords) /\ Len(<<>>) = 0 /\ DOMAIN <<>> = {}
                      /\ OpenOperations(<<>>) = {}
BY EmptySeq DEF OpenOperations

LEMMA LegacyObligation ==
  ASSUME NEW f \in LegacyFollowUps, NEW t \in {0, None}
  PROVE  Obligation([status |-> "paused", interrupted |-> t], f, <<>>)
<1>1. LegacyPolicies \subseteq {"absent", "foreign"}
  BY RecoveryConstants
<1>2. /\ f.status \in {"pending", "blocked"} /\ f.reason = "none" /\ f.authorised \in BOOLEAN
      /\ f.attempts = 0 /\ f.activeOperation = 0 /\ f.policy \in {"absent", "foreign"}
      /\ f.deadline = None
      /\ IF f.status = "pending" THEN f.authorised /\ f.due # None ELSE ~f.authorised
  BY <1>1 DEF LegacyFollowUps
<1>3. f \in FollowUpRecords
  <2>1. {None, 0, RetryInterval, RecoveryDeadline} \subseteq Times /\ None \in Times
    BY DEF Times
  <2>2. f \in [status : {"pending", "blocked"}, reason : {"none"}, authorised : BOOLEAN,
               attempts : {0}, activeOperation : {0}, policy : {"absent", "foreign"},
               due : Times, deadline : Times, updated : {0}]
    BY <1>1, <2>1 DEF LegacyFollowUps
  <2>3. QED
    BY <2>2 DEF FollowUpRecords
<1>4. ValidFollowUp(f) /\ DecidedRecord(f)
  BY <1>2 DEF ValidFollowUp, DecidedRecord
<1>5. BoundRecord([status |-> "paused", interrupted |-> t], f)
  BY <1>2 DEF BoundRecord
<1>6. AccountedRecord(f, <<>>)
  BY <1>2, EmptyHistory DEF AccountedRecord
<1>7. WithinRecord([status |-> "paused", interrupted |-> t], f, <<>>)
  BY EmptyHistory DEF WithinRecord
<1>8. QED
  BY <1>3, <1>4, <1>5, <1>6, <1>7, EmptyHistory DEF Obligation

LEMMA InitInv == Init => IInv
<1> SUFFICES ASSUME Init PROVE IInv
  OBVIOUS
<1>1. /\ now = 0 /\ operations = [s \in SessionIds |-> <<>>]
      /\ thread = [t \in Threads |-> IdleThread]
  BY DEF Init
<1>2. 1 \in SessionIds
  BY DEF SessionIds
<1>3. /\ NewClaim \in Claims /\ [NewClaim EXCEPT !.active = NoSession] \in Claims
      /\ NewClaim.active = 1 /\ [NewClaim EXCEPT !.active = NoSession].active = NoSession
      /\ NewClaim.terminal = "none" /\ [NewClaim EXCEPT !.active = NoSession].terminal = "none"
  BY <1>2 DEF NewClaim, Claims, Terminals
<1>4. Unused \in SessionRecords /\ Unused.status = "unused"
  BY DEF Unused, SessionRecords, Times
<1>5. CASE Fresh
  <2>1. /\ sessions \in [SessionIds -> SessionRecords]
        /\ sessions[1].status = "active"
        /\ \A s \in SessionIds \ {1} : sessions[s].status = "unused"
    <3>1. [status |-> "active", interrupted |-> None] \in SessionRecords
      BY DEF SessionRecords, Times
    <3>2. QED
      BY <1>2, <1>4, <1>5, <3>1 DEF Fresh
  <2>2. /\ followUps \in [SessionIds -> FollowUpRecords \cup {NoFollowUp}]
        /\ \A s \in SessionIds : followUps[s] = NoFollowUp
    BY <1>5 DEF Fresh
  <2>3. \A s \in SessionIds : ObligationOrNone(sessions[s], followUps[s], operations[s])
    BY <1>1, <2>2 DEF ObligationOrNone
  <2>4. claim \in Claims /\ claim.active = 1 /\ claim.terminal = "none"
    BY <1>3, <1>5 DEF Fresh
  <2>5. Ordered(1)
    BY <1>2, <2>1, <2>2, <2>4, NoFollowUpIsNone DEF Ordered, OpenSessions, SessionIds, NoSession
  <2>6. StoreInv
    BY <1>1, <1>2, <2>1, <2>2, <2>3, <2>4, <2>5, EmptyHistory DEF StoreInv
  <2>7. ThreadInv
    BY <1>1, <2>4, IdleHeld DEF ThreadInv
  <2>8. QED
    BY <2>6, <2>7 DEF IInv
<1>6. CASE Legacy
  <2>1. PICK t \in {0, None} :
          sessions = [s \in SessionIds |->
                        IF s = 1 THEN [status |-> "paused", interrupted |-> t] ELSE Unused]
    BY <1>6 DEF Legacy
  <2>2. PICK f \in LegacyFollowUps :
          followUps = [s \in SessionIds |-> IF s = 1 THEN f ELSE NoFollowUp]
    BY <1>6 DEF Legacy
  <2> DEFINE paused == [status |-> "paused", interrupted |-> t]
  <2>3. paused \in SessionRecords /\ paused.status = "paused"
    BY DEF SessionRecords, Times
  <2>4. Obligation(paused, f, <<>>) /\ f \in FollowUpRecords
    BY LegacyObligation DEF Obligation
  <2> HIDE DEF paused
  <2>5. /\ sessions \in [SessionIds -> SessionRecords]
        /\ sessions[1] = paused
        /\ \A s \in SessionIds \ {1} : sessions[s].status = "unused"
    BY <1>2, <1>4, <2>1, <2>3 DEF paused
  <2>6. /\ followUps \in [SessionIds -> FollowUpRecords \cup {NoFollowUp}]
        /\ followUps[1] = f
        /\ \A s \in SessionIds \ {1} : followUps[s] = NoFollowUp
    BY <1>2, <2>2, <2>4
  <2>7. \A s \in SessionIds : ObligationOrNone(sessions[s], followUps[s], operations[s])
    BY <1>1, <2>4, <2>5, <2>6, NoFollowUpIsNone DEF ObligationOrNone
  <2>8. claim \in Claims /\ claim.active = NoSession /\ claim.terminal = "none"
    BY <1>3, <1>6 DEF Legacy
  <2>9. Ordered(1)
    BY <1>2, <2>3, <2>5, <2>6, <2>8, NoFollowUpIsNone DEF Ordered, OpenSessions, SessionIds, NoSession
  <2>10. StoreInv
    BY <1>1, <1>2, <2>5, <2>6, <2>7, <2>8, <2>9, EmptyHistory DEF StoreInv
  <2>11. ThreadInv
    BY <1>1, <2>8, IdleHeld DEF ThreadInv
  <2>12. QED
    BY <2>10, <2>11 DEF IInv
<1>7. QED
  BY <1>5, <1>6 DEF Init

LEMMA StepInv == IInv /\ [Next]_vars => IInv' /\ HistoryKept
<1> SUFFICES ASSUME IInv, [Next]_vars PROVE IInv' /\ HistoryKept
  OBVIOUS
<1>1. ASSUME NEW w \in Workers, Work(w) PROVE IInv' /\ HistoryKept
  BY <1>1, StartCycleKeeps, CommitExpiryKeeps, ReadDueKeeps, CommitDueKeeps DEF Work, Threads
<1>2. ASSUME NEW c \in Callers, Serve(c) PROVE IInv' /\ HistoryKept
  <2>1. c \in Threads
    BY DEF Threads
  <2>2. CASE StartResume(c) \/ StartPause(c)
    BY <2>1, <2>2, StartCallKeeps DEF StartResume, StartPause
  <2>3. CASE ReadAbandon(c) \/ ReadWithdraw(c)
    <3>1. /\ now \in Nat
          /\ UNCHANGED <<now, claim, sessions, followUps, operations>>
      BY <2>3 DEF IInv, StoreInv, ReadAbandon, ReadWithdraw
    <3>2. PICK s \in OpenSessions, kind \in {"abandon", "withdraw"} :
            HoldSnapshot(c, "commit", kind, now, s)
      BY <2>3 DEF ReadAbandon, ReadWithdraw
    <3>3. QED
      BY <2>1, <3>1, <3>2, SnapshotKeeps
  <2>4. QED
    BY <1>2, <2>1, <2>2, <2>3, ReadResumeKeeps, CommitResumeKeeps, CommitPauseKeeps,
       CommitAbandonKeeps, CommitWithdrawKeeps DEF Serve
<1>3. CASE UNCHANGED vars
  <2>1. StoreInv' /\ HistoryKept
    BY <1>3, UnchangedObligations DEF vars, IInv, StoreInv
  <2>2. ThreadInv'
    BY <1>3 DEF vars, IInv, ThreadInv
  <2>3. QED
    BY <2>1, <2>2 DEF IInv
<1>4. QED
  BY <1>1, <1>2, <1>3, OtherServicesKeep, TickKeeps, BackfillKeeps DEF Next

LEMMA Invariance == Spec => []IInv
<1>1. IInv /\ [Next]_vars => IInv'
  BY StepInv
<1>2. QED
  BY <1>1, InitInv, PTL DEF Spec

-----------------------------------------------------------------------------
(* The properties.                                                         *)

\* The type invariant: whatever the handlers write is of its declared type, and
\* every stored Follow-up passes validate_recovery_follow_up.
THEOREM TypeCorrect == Spec => []TypeOK
<1>1. IInv => TypeOK
  <2> SUFFICES ASSUME IInv PROVE TypeOK
    OBVIOUS
  <2>1. \A s \in SessionIds : followUps[s] # NoFollowUp => ValidFollowUp(followUps[s])
    BY DEF IInv, StoreInv, ObligationOrNone, Obligation
  <2>2. QED
    BY <2>1 DEF IInv, StoreInv, ThreadInv, TypeOK
<1>2. QED
  BY <1>1, Invariance, PTL

\* A Claim has at most one open obligation, of a paused checkpoint and never
\* beside an active Session: Claim, Session and Follow-up are written together.
THEOREM ObligationIsOne == Spec => []OneObligation
<1>1. IInv => OneObligation
  <2> SUFFICES ASSUME IInv PROVE OneObligation
    OBVIOUS
  <2>1. PICK n \in SessionIds : Ordered(n)
    BY DEF IInv, StoreInv
  <2>2. \A s \in OpenSessions : s = n /\ claim.active = NoSession /\ sessions[s].status = "paused"
    BY <2>1, OpenObligation DEF IInv, Ordered, OpenSessions, Obligation
  <2>3. claim.terminal \in {"expired", "abandoned"} => OpenSessions = {} /\ claim.active = NoSession
    BY <2>1, <2>2 DEF Ordered, OpenSessions, IsOpen
  <2>4. \A s \in SessionIds : sessions[s].status = "active" <=> claim.active = s
    BY <2>1 DEF Ordered
  <2>5. QED
    BY <2>2, <2>3, <2>4 DEF OneObligation
<1>2. QED
  BY <1>1, Invariance, PTL

\* The attempt count is the number of committed operations, within the limit,
\* and at most the newest awaits its settlement.
THEOREM AttemptsCounted == Spec => []AttemptsAccounted
<1>1. IInv => AttemptsAccounted
  BY DEF IInv, StoreInv, ObligationOrNone, Obligation, AccountedRecord, AttemptsAccounted
<1>2. QED
  BY <1>1, Invariance, PTL

\* No attempt is committed before its scheduled time or at or after the
\* deadline, whichever worker makes it and however late it commits.
THEOREM ContactKept == Spec => []ContactWithinPolicy
<1>1. IInv => ContactWithinPolicy
  <2> SUFFICES ASSUME IInv, NEW s \in SessionIds, NEW k \in DOMAIN operations[s]
               PROVE  LET at == operations[s][k].committedAt
                      IN /\ at >= sessions[s].interrupted + RetryInterval * (k - 1)
                         /\ at < followUps[s].deadline
    BY DEF ContactWithinPolicy
  <2>1. operations[s] # <<>>
    BY EmptyHistory
  <2>2. WithinRecord(sessions[s], followUps[s], operations[s])
    BY <2>1 DEF IInv, StoreInv, ObligationOrNone, Obligation
  <2>3. QED
    BY <2>2 DEF WithinRecord
<1>2. QED
  BY <1>1, Invariance, PTL

\* The deadline decides whether an obligation ends as expired, and an expired
\* or abandoned Claim has a last obligation that ended that way.
THEOREM DeadlineHolds == Spec => []DeadlineDecides
<1>1. IInv => DeadlineDecides
  <2> SUFFICES ASSUME IInv PROVE DeadlineDecides
    OBVIOUS
  <2>1. PICK n \in SessionIds : Ordered(n)
    BY DEF IInv, StoreInv
  <2>2. Latest = n
    BY <2>1, LastSession DEF Ordered, Latest
  <2>3. \A s \in SessionIds : followUps[s].status = "resolved" => DecidedRecord(followUps[s])
    BY NoFollowUpIsNone DEF IInv, StoreInv, ObligationOrNone, Obligation
  <2>4. QED
    BY <2>1, <2>2, <2>3 DEF Ordered, DecidedRecord, DeadlineDecides
<1>2. QED
  BY <1>1, Invariance, PTL

\* No step touches an obligation once it is resolved, or loses an attempt.
THEOREM ResolutionStays == Spec => ResolutionFinal
<1>1. IInv /\ [Next]_vars => [HistoryKept]_vars
  BY StepInv
<1>2. [HistoryKept]_vars =>
        [\A s \in SessionIds :
           /\ followUps[s].status = "resolved" =>
                followUps'[s] = followUps[s] /\ operations'[s] = operations[s]
           /\ Len(operations'[s]) >= Len(operations[s])]_vars
  BY DEF HistoryKept
<1>3. QED
  BY <1>1, <1>2, Invariance, PTL DEF Spec, ResolutionFinal
=============================================================================
