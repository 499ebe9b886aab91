-------------------------- MODULE FollowUpRecovery --------------------------
(***************************************************************************)
(* Recovery of one incomplete Working Claim (P17).                         *)
(*                                                                         *)
(* Pausing a claimant Session stores a checkpoint and one Follow-up, the   *)
(* recovery obligation.  The recovery worker contacts the claimant in the  *)
(* app at most MaxAutoRetry times and ends the obligation at its deadline; *)
(* the claimant ends it by resuming, staff by abandoning the Claim, and    *)
(* contact authority may be withdrawn.                                     *)
(*                                                                         *)
(* Every one of these handlers takes its timestamp, reads the records,     *)
(* computes the transition and hands it to one repository transaction,     *)
(* which reads the records again, recomputes the transition and writes it  *)
(* only when both agree.  So a handler is a step that reads and a step     *)
(* that commits, after a step of its own for a timestamp that is taken     *)
(* before the Follow-up is read (the worker's cycle and start_session).    *)
(* Reading one record at a time could only add commits that are refused.   *)
(* A handler that stops half-way never takes its commit step.              *)
(*                                                                         *)
(* Each Session is paused at most once, so a Follow-up is named by its     *)
(* source Session; Sessions are numbered in the order of their creation.   *)
(* No service stores an operation in status reserved: it is built and      *)
(* committed within one transaction.                                       *)
(***************************************************************************)
EXTENDS Integers, Sequences, FiniteSets

CONSTANTS
    Workers,           \* recovery worker processes
    Callers,           \* threads that serve claimant and staff requests
    RetryInterval,     \* ticks between two scheduled attempts (24 hours)
    RecoveryDeadline,  \* ticks from the interruption to the deadline (7 days)
    MaxAutoRetry,      \* automatic attempts of one obligation (3)
    LegacyPolicies,    \* policy bindings a record of the first release may have
    MaxTime,           \* bound on the clock
    MaxSessions,       \* bound on the Sessions of the Claim
    MaxRevision        \* bound: other services stop changing the Claim here

ASSUME RecoveryConstants ==
    /\ RetryInterval \in Nat \ {0}
    /\ RecoveryDeadline \in Nat \ {0}
    /\ MaxAutoRetry \in Nat \ {0}
    /\ RetryInterval * (MaxAutoRetry - 1) < RecoveryDeadline
    /\ LegacyPolicies \subseteq {"absent", "foreign"}
    /\ MaxTime \in Nat
    /\ MaxSessions \in Nat \ {0}
    /\ MaxRevision \in Nat
    /\ Workers \cap Callers = {}

VARIABLES
    now,         \* the clock
    claim,       \* revision, active Session, terminal disposition, can_resume
    sessions,    \* Session -> status and interruption time
    followUps,   \* Session -> the Follow-up it is the source of
    operations,  \* Session -> the operations of that Follow-up, by sequence
    thread       \* handler -> what it is doing and what it has read

vars == <<now, claim, sessions, followUps, operations, thread>>

-----------------------------------------------------------------------------
(* Records.                                                                *)

SessionIds == 1..MaxSessions
NoSession == 0
None == -1      \* an absent timestamp
Times == Nat \cup {None}

Terminals == {"none", "completed", "expired", "abandoned"}
Claims == [revision : Nat, active : SessionIds \cup {NoSession},
           terminal : Terminals, canResume : BOOLEAN]

SessionRecords == [status : {"unused", "active", "paused", "closed"}, interrupted : Times]
Unused == [status |-> "unused", interrupted |-> None]

BlockedReasons == {"contact_not_authorised", "attempt_limit_reached",
                   "policy_binding_invalid", "source_state_inconsistent"}
Resolutions == {"claimant_resumed", "recovery_expired", "staff_abandoned"}

FollowUpRecords ==
    [status : {"pending", "blocked", "resolved"},
     reason : BlockedReasons \cup Resolutions \cup {"none"},
     authorised : BOOLEAN, attempts : Nat, activeOperation : Nat,
     policy : {"published", "absent", "foreign"},
     due : Times, deadline : Times, updated : Nat]
NoFollowUp == [status |-> "absent"]

OperationRecords ==
    [status : {"committed", "settled"},
     result : {"in_app_committed", "no_response", "authority_lost", "superseded_by_resume"},
     committedAt : Nat]

IsOpen(f) == f.status \in {"pending", "blocked"}
Threads == Workers \cup Callers

ThreadRecords ==
    [pc : {"idle", "expiring", "due", "contacting", "start", "commit"},
     kind : {"worker", "resume", "pause", "abandon", "withdraw"},
     at : Nat, revision : Nat, session : SessionIds \cup {NoSession},
     followUp : FollowUpRecords \cup {NoFollowUp}, operations : Seq(OperationRecords)]

NewClaim == [revision |-> 1, active |-> 1, terminal |-> "none", canResume |-> TRUE]

IdleThread ==
    [pc |-> "idle", kind |-> "worker", at |-> 0, revision |-> 0, session |-> NoSession,
     followUp |-> NoFollowUp, operations |-> <<>>]

\* The Session and Follow-up an open obligation of the Claim consists of.
OpenSessions == {s \in SessionIds : IsOpen(followUps[s])}

\* The last Session created, which start_session resumes from.
LastUsed(stored) ==
    IF stored[1].status = "unused" THEN NoSession
    ELSE CHOOSE s \in SessionIds :
           /\ stored[s].status # "unused"
           /\ \A u \in SessionIds : u > s => stored[u].status = "unused"
Latest == LastUsed(sessions)

-----------------------------------------------------------------------------
(* The reducers of follow_up_execution.                                    *)

OpenOperations(ops) == {i \in DOMAIN ops : ops[i].status = "committed"}

\* The operation awaiting settlement is settled with the given result.
Reconciled(ops, result) ==
    [i \in DOMAIN ops |->
        IF ops[i].status = "committed"
        THEN [ops[i] EXCEPT !.status = "settled", !.result = result]
        ELSE ops[i]]

\* The operations can be read: settling one records the time of the settlement,
\* and none validates whose settlement precedes its commit.  Only the next
\* attempt, made with the time of its worker's cycle, can settle one too early.
Readable(ops) ==
    \A k \in DOMAIN ops : k > 1 => ops[k - 1].committedAt <= ops[k].committedAt

\* The Follow-up is bound to the published policy and its source Session is
\* the paused checkpoint, as every reducer demands.
BoundCheckpoint(session, f) ==
    /\ session.status = "paused"
    /\ session.interrupted # None
    /\ f.policy = "published"
    /\ f.deadline = session.interrupted + RecoveryDeadline

\* Mutant: contact goes on when the deadline is reached.
DueWithoutDeadline(c, session, f, ops, at) ==
    /\ c.terminal = "none"
    /\ c.active = NoSession
    /\ f.status = "pending"
    /\ f.authorised
    /\ BoundCheckpoint(session, f)
    /\ f.due # None /\ f.due <= at
    /\ f.attempts = Len(ops)
    /\ f.attempts < MaxAutoRetry
    /\ f.due = session.interrupted + RetryInterval * f.attempts

\* reduce_due_follow_up: the snapshot permits one in-app attempt.
DuePermitted(c, session, f, ops, at) ==
    /\ c.terminal = "none"
    /\ c.active = NoSession
    /\ f.status = "pending"
    /\ f.authorised
    /\ BoundCheckpoint(session, f)
    /\ f.due # None /\ f.due <= at
    /\ at < f.deadline
    /\ f.attempts = Len(ops)
    /\ f.attempts < MaxAutoRetry
    /\ f.due = session.interrupted + RetryInterval * f.attempts
    /\ OpenOperations(ops) \subseteq {Len(ops)}
    /\ f.attempts + 1 < MaxAutoRetry =>
         session.interrupted + RetryInterval * (f.attempts + 1) < f.deadline
    /\ Readable(ops)

\* Mutant: the exhausted obligation keeps a due time.
ContactedStillDue(session, f, ops, at) ==
    LET attempts == f.attempts + 1
        exhausted == attempts >= MaxAutoRetry
    IN [f EXCEPT
          !.attempts = attempts,
          !.activeOperation = Len(ops) + 1,
          !.status = IF exhausted THEN "blocked" ELSE "pending",
          !.reason = IF exhausted THEN "attempt_limit_reached" ELSE "none",
          !.due = session.interrupted + RetryInterval * attempts,
          !.updated = at]

\* reduce_due_follow_up: what the attempt makes of the Follow-up.
Contacted(session, f, ops, at) ==
    LET attempts == f.attempts + 1
        exhausted == attempts >= MaxAutoRetry
    IN [f EXCEPT
          !.attempts = attempts,
          !.activeOperation = Len(ops) + 1,
          !.status = IF exhausted THEN "blocked" ELSE "pending",
          !.reason = IF exhausted THEN "attempt_limit_reached" ELSE "none",
          !.due = IF exhausted THEN None ELSE session.interrupted + RetryInterval * attempts,
          !.updated = at]

\* Mutant: the attempt before is left awaiting its settlement.
AttemptedOnly(ops, at) ==
    Append(ops, [status |-> "committed", result |-> "in_app_committed", committedAt |-> at])

\* reduce_due_follow_up: the previous attempt is settled and the new one added.
Attempted(ops, at) ==
    Append(Reconciled(ops, "no_response"),
           [status |-> "committed", result |-> "in_app_committed", committedAt |-> at])

\* What expiry, abandonment and withdrawal demand of the history alike.
HistoryConsistent(f, ops) ==
    /\ f.attempts = Len(ops)
    /\ Cardinality(OpenOperations(ops)) <= 1
    /\ Readable(ops)

\* Mutant: a blocked obligation does not expire.
ExpiryOfPending(c, session, f, ops, at) ==
    /\ c.terminal = "none"
    /\ c.active = NoSession
    /\ f.status = "pending"
    /\ BoundCheckpoint(session, f)
    /\ at >= f.deadline
    /\ HistoryConsistent(f, ops)

\* reduce_expired_follow_up.
ExpiryPermitted(c, session, f, ops, at) ==
    /\ c.terminal = "none"
    /\ c.active = NoSession
    /\ IsOpen(f)
    /\ BoundCheckpoint(session, f)
    /\ at >= f.deadline
    /\ HistoryConsistent(f, ops)

\* Mutant: staff abandon an obligation that is past its deadline.
AbandonmentAnyTime(c, session, f, ops, at) ==
    /\ c.terminal = "none"
    /\ c.active = NoSession
    /\ IsOpen(f)
    /\ BoundCheckpoint(session, f)
    /\ HistoryConsistent(f, ops)

\* reduce_follow_up_staff_abandonment: before the deadline only.
AbandonmentPermitted(c, session, f, ops, at) ==
    /\ c.terminal = "none"
    /\ c.active = NoSession
    /\ IsOpen(f)
    /\ BoundCheckpoint(session, f)
    /\ at < f.deadline
    /\ HistoryConsistent(f, ops)

\* reduce_follow_up_contact_withdrawal.
WithdrawalPermitted(c, session, f, ops, at) ==
    /\ c.terminal = "none"
    /\ IsOpen(f)
    /\ BoundCheckpoint(session, f)
    /\ at < f.deadline
    /\ f.authorised
    /\ HistoryConsistent(f, ops)

Resolved(f, resolution, at) ==
    [f EXCEPT !.status = "resolved", !.reason = resolution, !.activeOperation = 0,
              !.due = None, !.updated = at]

Withdrawn(f, at) ==
    [f EXCEPT !.status = "blocked", !.reason = "contact_not_authorised", !.authorised = FALSE,
              !.activeOperation = 0, !.due = None, !.updated = at]

-----------------------------------------------------------------------------
(* Initial states: a Claim in its first Session, or one that was paused    *)
(* before obligations were bound to a policy.                              *)

\* An open Follow-up as the first release stored it, without a deadline.
LegacyFollowUps ==
    {f \in [status : {"pending", "blocked"}, reason : {"none"}, authorised : BOOLEAN,
            attempts : {0}, activeOperation : {0}, policy : LegacyPolicies,
            due : {None, 0, RetryInterval, RecoveryDeadline}, deadline : {None}, updated : {0}] :
        IF f.status = "pending" THEN f.authorised /\ f.due # None ELSE ~f.authorised}

Fresh ==
    /\ claim = NewClaim
    /\ sessions = [s \in SessionIds |->
                     IF s = 1 THEN [status |-> "active", interrupted |-> None] ELSE Unused]
    /\ followUps = [s \in SessionIds |-> NoFollowUp]

Legacy ==
    /\ claim = [NewClaim EXCEPT !.active = NoSession]
    /\ \E t \in {0, None} :
         sessions = [s \in SessionIds |->
                       IF s = 1 THEN [status |-> "paused", interrupted |-> t] ELSE Unused]
    /\ \E f \in LegacyFollowUps :
         followUps = [s \in SessionIds |-> IF s = 1 THEN f ELSE NoFollowUp]

Init ==
    /\ now = 0
    /\ Fresh \/ Legacy
    /\ operations = [s \in SessionIds |-> <<>>]
    /\ thread = [t \in Threads |-> IdleThread]

-----------------------------------------------------------------------------
(* Steps shared by the handlers.                                           *)

Finish(t) == thread' = [thread EXCEPT ![t] = IdleThread]

\* Thread t, with time at, goes to control point pc holding what it has read
\* of the obligation of session s.
HoldSnapshot(t, pc, kind, at, s) ==
    thread' = [thread EXCEPT
                 ![t] = [pc |-> pc, kind |-> kind, at |-> at,
                         revision |-> claim.revision, session |-> s,
                         followUp |-> followUps[s], operations |-> operations[s]]]

\* The Claim, the Follow-up and its operations are still what thread t read.
Current(t) ==
    LET held == thread[t]
    IN /\ claim.revision = held.revision
       /\ followUps[held.session] = held.followUp
       /\ operations[held.session] = held.operations

Advanced(c) == [c EXCEPT !.revision = c.revision + 1]

-----------------------------------------------------------------------------
(* The recovery worker: one cycle has one time, and expiry comes before    *)
(* contact.  Discovery reads are hints; the records are reloaded.          *)

\* The cycle takes its time, and process_expiring_follow_up reads what
\* list_expiring_follow_ups finds.  An obligation that is past its deadline
\* is not contacted or withdrawn, so reading later reads the same.
StartCycle(w) ==
    /\ thread[w].pc = "idle"
    /\ \/ \E s \in OpenSessions :
            /\ ExpiryPermitted(claim, sessions[s], followUps[s], operations[s], now)
            /\ HoldSnapshot(w, "expiring", "worker", now, s)
       \/ /\ \A s \in OpenSessions :
               ~ExpiryPermitted(claim, sessions[s], followUps[s], operations[s], now)
          /\ thread' = [thread EXCEPT ![w].pc = "due", ![w].at = now]
    /\ UNCHANGED <<now, claim, sessions, followUps, operations>>

\* commit_recovery_expiry.
CommitExpiry(w) ==
    LET s == thread[w].session
        at == thread[w].at
    IN
    /\ thread[w].pc = "expiring"
    /\ \/ /\ Current(w)
          /\ ExpiryPermitted(claim, sessions[s], followUps[s], operations[s], at)
          /\ claim' = [Advanced(claim) EXCEPT !.terminal = "expired", !.canResume = FALSE]
          /\ followUps' = [followUps EXCEPT ![s] = Resolved(@, "recovery_expired", at)]
          /\ operations' = [operations EXCEPT ![s] = Reconciled(@, "no_response")]
       \/ /\ ~(/\ Current(w)
               /\ ExpiryPermitted(claim, sessions[s], followUps[s], operations[s], at))
          /\ UNCHANGED <<claim, followUps, operations>>
    /\ thread' = [thread EXCEPT ![w] = [IdleThread EXCEPT !.pc = "due", !.at = at]]
    /\ UNCHANGED <<now, sessions>>

\* list_due_follow_ups and the reads of process_due_follow_up.
ReadDue(w) ==
    /\ thread[w].pc = "due"
    /\ \/ \E s \in OpenSessions :
            /\ DuePermitted(claim, sessions[s], followUps[s], operations[s], thread[w].at)
            /\ HoldSnapshot(w, "contacting", "worker", thread[w].at, s)
       \/ /\ \A s \in OpenSessions :
               ~DuePermitted(claim, sessions[s], followUps[s], operations[s], thread[w].at)
          /\ Finish(w)
    /\ UNCHANGED <<now, claim, sessions, followUps, operations>>

\* Mutant: the attempt is written without looking at the records again.
ContactAsRead(w) == TRUE

\* The revalidation of commit_due_follow_up_attempt.
ContactStillPermitted(w) ==
    LET s == thread[w].session
    IN /\ Current(w)
       /\ DuePermitted(claim, sessions[s], followUps[s], operations[s], thread[w].at)

\* commit_due_follow_up_attempt: operation, Follow-up and message at once.
CommitDue(w) ==
    LET s == thread[w].session
        at == thread[w].at
    IN
    /\ thread[w].pc = "contacting"
    /\ \/ /\ ContactStillPermitted(w)
          /\ followUps' = [followUps EXCEPT
                             ![s] = Contacted(sessions[s], thread[w].followUp, thread[w].operations, at)]
          /\ operations' = [operations EXCEPT ![s] = Attempted(thread[w].operations, at)]
       \/ /\ ~ContactStillPermitted(w)
          /\ UNCHANGED <<followUps, operations>>
    /\ Finish(w)
    /\ UNCHANGED <<now, claim, sessions>>

-----------------------------------------------------------------------------
(* The claimant: start_session and pause_session.                          *)

\* A handler takes its timestamp and reads the Claim.
StartCall(c, kind) ==
    /\ thread[c].pc = "idle"
    /\ thread' = [thread EXCEPT ![c].pc = "start", ![c].kind = kind, ![c].at = now,
                                ![c].revision = claim.revision]
    /\ UNCHANGED <<now, claim, sessions, followUps, operations>>

StartResume(c) == claim.terminal = "none" /\ StartCall(c, "resume")

\* start_session: the open Follow-up of the latest Session, when that is
\* paused, is read to be resolved; after its deadline resuming is refused, and
\* it fails when the operations cannot be read.
ReadResume(c) ==
    LET s == Latest
        paused == s # NoSession /\ sessions[s].status = "paused" /\ IsOpen(followUps[s])
    IN
    /\ thread[c].pc = "start" /\ thread[c].kind = "resume"
    /\ \/ /\ paused
          /\ followUps[s].deadline # None => thread[c].at < followUps[s].deadline
          /\ Readable(operations[s])
          /\ thread' = [thread EXCEPT ![c].pc = "commit", ![c].session = s,
                           ![c].followUp = followUps[s], ![c].operations = operations[s]]
       \/ /\ paused
          /\ \/ followUps[s].deadline # None /\ thread[c].at >= followUps[s].deadline
             \/ ~Readable(operations[s])
          /\ Finish(c)
       \/ /\ ~paused
          /\ thread' = [thread EXCEPT ![c].pc = "commit"]
    /\ UNCHANGED <<now, claim, sessions, followUps, operations>>

\* _save_session_mutation: the stored open Follow-up, if any, is the one the
\* handler resolves, unchanged in the fields that resolution keeps.
ResolvesOpen(held) ==
    /\ held.session = NoSession => OpenSessions = {}
    /\ held.session # NoSession =>
         LET f == followUps[held.session]
         IN /\ OpenSessions = {held.session}
            /\ Resolved(f, "claimant_resumed", held.at)
                 = Resolved(held.followUp, "claimant_resumed", held.at)
            /\ held.at >= f.updated
            /\ f.deadline # None => held.at < f.deadline
            /\ OpenOperations(operations[held.session]) = OpenOperations(held.operations)

\* Mutant: the activation is written without looking at the records again.
ResumeAsRead(held) == TRUE

\* The preconditions of save_session_mutation.
ResumePermitted(held) ==
    /\ claim.revision = held.revision
    /\ ResolvesOpen(held)

\* save_session_mutation: a new active Session, the one it replaces closed,
\* and the obligation resolved with its operation, in one transaction.
CommitResume(c) ==
    LET held == thread[c]
        new == Latest + 1
        resolves == held.session # NoSession
    IN
    /\ held.pc = "commit" /\ held.kind = "resume"
    /\ \/ /\ ResumePermitted(held)
          /\ new \in SessionIds
          /\ claim' = [Advanced(claim) EXCEPT !.active = new]
          /\ sessions' = [s \in SessionIds |->
                            IF s = new THEN [status |-> "active", interrupted |-> None]
                            ELSE IF s = claim.active
                            THEN [sessions[s] EXCEPT !.status = "closed"]
                            ELSE sessions[s]]
          /\ followUps' = IF resolves
                          THEN [followUps EXCEPT ![held.session] =
                                  Resolved(@, "claimant_resumed", held.at)]
                          ELSE followUps
          /\ operations' = IF resolves
                           THEN [operations EXCEPT ![held.session] =
                                   Reconciled(@, "superseded_by_resume")]
                           ELSE operations
       \/ /\ ~ResumePermitted(held) \/ new \notin SessionIds
          /\ UNCHANGED <<claim, sessions, followUps, operations>>
    /\ Finish(c)
    /\ UNCHANGED now

\* recovery_checkpoint_allowed, and the Claim has an active Session.
StartPause(c) ==
    /\ claim.terminal # "completed"
    /\ claim.canResume
    /\ claim.active # NoSession
    /\ StartCall(c, "pause")

\* The preconditions of save_incomplete_checkpoint.
CheckpointPermitted(held) ==
    /\ claim.revision = held.revision
    /\ claim.active # NoSession
    /\ sessions[claim.active].status = "active"
    /\ OpenSessions = {}

\* The Follow-up of a new checkpoint; only an authenticated claimant may be
\* contacted.
NewFollowUp(at, authenticated) ==
    [status |-> IF authenticated THEN "pending" ELSE "blocked",
     reason |-> IF authenticated THEN "none" ELSE "contact_not_authorised",
     authorised |-> authenticated, attempts |-> 0, activeOperation |-> 0,
     policy |-> "published", due |-> IF authenticated THEN at ELSE None,
     deadline |-> at + RecoveryDeadline, updated |-> at]

CommitPause(c) ==
    LET held == thread[c]
        s == claim.active
    IN
    /\ held.pc = "start" /\ held.kind = "pause"
    /\ \/ /\ CheckpointPermitted(held)
          /\ claim' = [Advanced(claim) EXCEPT !.active = NoSession]
          /\ sessions' = [sessions EXCEPT ![s] =
                            [status |-> "paused", interrupted |-> held.at]]
          /\ \E authenticated \in BOOLEAN :
               followUps' = [followUps EXCEPT ![s] = NewFollowUp(held.at, authenticated)]
       \/ /\ ~CheckpointPermitted(held)
          /\ UNCHANGED <<claim, sessions, followUps>>
    /\ Finish(c)
    /\ UNCHANGED <<now, operations>>

-----------------------------------------------------------------------------
(* Staff and contact authority.                                            *)

\* claim.abandon: find_incomplete_recovery needs a resumable Claim.
ReadAbandon(c) ==
    /\ thread[c].pc = "idle"
    /\ claim.canResume
    /\ \E s \in OpenSessions :
         /\ AbandonmentPermitted(claim, sessions[s], followUps[s], operations[s], now)
         /\ HoldSnapshot(c, "commit", "abandon", now, s)
    /\ UNCHANGED <<now, claim, sessions, followUps, operations>>

\* commit_recovery_staff_abandonment.
CommitAbandon(c) ==
    LET s == thread[c].session
        at == thread[c].at
        permitted ==
            /\ Current(c)
            /\ AbandonmentPermitted(claim, sessions[s], followUps[s], operations[s], at)
    IN
    /\ thread[c].pc = "commit" /\ thread[c].kind = "abandon"
    /\ \/ /\ permitted
          /\ claim' = [Advanced(claim) EXCEPT !.terminal = "abandoned"]
          /\ followUps' = [followUps EXCEPT ![s] = Resolved(@, "staff_abandoned", at)]
          /\ operations' = [operations EXCEPT ![s] = Reconciled(@, "authority_lost")]
       \/ /\ ~permitted
          /\ UNCHANGED <<claim, followUps, operations>>
    /\ Finish(c)
    /\ UNCHANGED <<now, sessions>>

\* The reads of process_follow_up_contact_withdrawal.
ReadWithdraw(c) ==
    /\ thread[c].pc = "idle"
    /\ \E s \in OpenSessions :
         /\ WithdrawalPermitted(claim, sessions[s], followUps[s], operations[s], now)
         /\ HoldSnapshot(c, "commit", "withdraw", now, s)
    /\ UNCHANGED <<now, claim, sessions, followUps, operations>>

\* commit_follow_up_contact_withdrawal: the Claim itself is left alone.
CommitWithdraw(c) ==
    LET s == thread[c].session
        at == thread[c].at
        permitted ==
            /\ Current(c)
            /\ WithdrawalPermitted(claim, sessions[s], followUps[s], operations[s], at)
    IN
    /\ thread[c].pc = "commit" /\ thread[c].kind = "withdraw"
    /\ \/ /\ permitted
          /\ followUps' = [followUps EXCEPT ![s] = Withdrawn(@, at)]
          /\ operations' = [operations EXCEPT ![s] = Reconciled(@, "authority_lost")]
       \/ /\ ~permitted
          /\ UNCHANGED <<followUps, operations>>
    /\ Finish(c)
    /\ UNCHANGED <<now, claim, sessions>>

\* claim.reopen clears the disposition and nothing else.  It reads and
\* writes the Claim alone, so the revision check makes it one step.
Reopen ==
    /\ claim.terminal \in {"expired", "abandoned"}
    /\ claim.revision < MaxRevision
    /\ claim' = [Advanced(claim) EXCEPT !.terminal = "none"]
    /\ UNCHANGED <<now, sessions, followUps, operations, thread>>

-----------------------------------------------------------------------------
(* The migration of legacy records, the other services, and the clock.     *)

\* backfill_legacy_follow_up_record: bound from the Session's interruption,
\* or failed closed.
Backfilled(session, f) ==
    LET expected == session.interrupted + RecoveryDeadline
        consistent == session.interrupted # None
        scheduleConflict == f.status = "pending" /\ (~consistent \/ f.due >= expected)
        shapeInvalid == f.status = "blocked" /\ f.reason = "none" /\ f.due # None
    IN IF ~consistent \/ f.policy = "foreign" \/ scheduleConflict \/ shapeInvalid
       THEN [f EXCEPT !.status = "blocked",
                      !.reason = IF f.policy = "foreign" THEN "policy_binding_invalid"
                                 ELSE "source_state_inconsistent"]
       ELSE [f EXCEPT !.policy = "published", !.deadline = expected,
                      !.reason = IF f.status = "blocked" /\ f.reason = "none"
                                 THEN "contact_not_authorised" ELSE f.reason]

\* backfill_incomplete_claim_recovery: one record, against the exact
\* documents it was decided on.  A record that failed closed stays unbound and
\* is decided again by the next run, from its blocked state.
Backfill(s) ==
    LET f == followUps[s]
    IN
    /\ IsOpen(f)
    /\ f.policy # "published" \/ f.deadline = None
    /\ followUps' = [followUps EXCEPT ![s] = Backfilled(sessions[s], f)]
    /\ UNCHANGED <<now, claim, sessions, operations, thread>>

\* An Agent turn in the active Session: the next step it stores is one the
\* claimant can resume.
AgentTurn ==
    /\ claim.active # NoSession
    /\ claim.terminal = "none"
    /\ claim.revision < MaxRevision
    /\ claim' = [Advanced(claim) EXCEPT !.canResume = TRUE]
    /\ UNCHANGED <<now, sessions, followUps, operations, thread>>

\* The external Claim is created: see ClaimCreation, which settles on the
\* latest revision whatever Session is active.
ClaimCreated ==
    /\ claim.terminal = "none"
    /\ claim.revision < MaxRevision
    /\ claim' = [Advanced(claim) EXCEPT !.terminal = "completed"]
    /\ UNCHANGED <<now, sessions, followUps, operations, thread>>

Tick ==
    /\ now < MaxTime
    /\ now' = now + 1
    /\ UNCHANGED <<claim, sessions, followUps, operations, thread>>

-----------------------------------------------------------------------------
Work(w) ==
    StartCycle(w) \/ CommitExpiry(w) \/ ReadDue(w) \/ CommitDue(w)

Serve(c) ==
    \/ StartResume(c) \/ ReadResume(c) \/ CommitResume(c)
    \/ StartPause(c) \/ CommitPause(c)
    \/ ReadAbandon(c) \/ CommitAbandon(c)
    \/ ReadWithdraw(c) \/ CommitWithdraw(c)

Next ==
    \/ \E w \in Workers : Work(w)
    \/ \E c \in Callers : Serve(c)
    \/ Reopen \/ AgentTurn \/ ClaimCreated \/ Tick
    \/ \E s \in SessionIds : Backfill(s)

Spec == Init /\ [][Next]_vars

\* The worker runs cycle after cycle and time passes.
FairSpec == Spec /\ WF_vars(Tick) /\ \A w \in Workers : WF_vars(Work(w))

-----------------------------------------------------------------------------
(* Properties.                                                             *)

\* The stored records have the shapes of models.py, and every Follow-up
\* satisfies validate_recovery_follow_up.
ValidFollowUp(f) ==
    /\ f.status = "pending" =>
         /\ f.authorised /\ f.due # None /\ f.reason = "none"
         /\ f.deadline # None => f.due < f.deadline
    /\ f.status = "blocked" =>
         /\ f.reason \in BlockedReasons \cup {"none"}
         /\ f.reason \in {"none", "contact_not_authorised"} => ~f.authorised
         /\ f.reason = "attempt_limit_reached" => f.authorised /\ f.due = None
    /\ f.status = "resolved" =>
         f.reason \in Resolutions /\ f.activeOperation = 0 /\ f.due = None
    /\ f.deadline # None => f.policy = "published"

\* Type invariant: the Claim, Sessions, Follow-ups and operations are of
\* their declared types, and each Follow-up passes its validator.
TypeOK ==
    /\ now \in Nat
    /\ claim \in Claims
    /\ sessions \in [SessionIds -> SessionRecords]
    /\ followUps \in [SessionIds -> FollowUpRecords \cup {NoFollowUp}]
    /\ operations \in [SessionIds -> Seq(OperationRecords)]
    /\ thread \in [Threads -> ThreadRecords]
    /\ \A s \in SessionIds : followUps[s] # NoFollowUp => ValidFollowUp(followUps[s])

\* At most one obligation of the Claim is open.  An open one belongs to a
\* paused checkpoint of a Claim without active Session, and a Claim that
\* expired or was abandoned has neither: resume, expiry and abandonment write
\* Claim, Session and Follow-up together (_save_session_mutation,
\* _commit_recovery_expiry, _commit_recovery_staff_abandonment).
OneObligation ==
    /\ \A s, u \in OpenSessions : s = u
    /\ \A s \in OpenSessions : sessions[s].status = "paused" /\ claim.active = NoSession
    /\ claim.terminal \in {"expired", "abandoned"} =>
         OpenSessions = {} /\ claim.active = NoSession
    /\ \A s \in SessionIds : sessions[s].status = "active" <=> claim.active = s

\* The attempt count is the number of committed operations and never exceeds
\* the policy's limit; only the newest operation may await settlement, the
\* Follow-up names it, and none does once the obligation is resolved or its
\* contact authority is gone (reduce_due_follow_up and its repository commit).
AttemptsAccounted ==
    \A s \in SessionIds :
      LET f == followUps[s]
          open == OpenOperations(operations[s])
      IN IF f = NoFollowUp
         THEN operations[s] = <<>>
         ELSE /\ f.attempts = Len(operations[s])
              /\ f.attempts <= MaxAutoRetry
              /\ open = IF f.activeOperation = 0 THEN {} ELSE {f.activeOperation}
              /\ open \subseteq {Len(operations[s])}
              /\ ~f.authorised \/ f.status = "resolved" => open = {}

\* The k-th attempt is committed at or after its scheduled time, which counts
\* from the interruption, and before the deadline (reduce_due_follow_up:
\* "Deadline always wins a tie").
ContactWithinPolicy ==
    \A s \in SessionIds : \A k \in DOMAIN operations[s] :
      LET at == operations[s][k].committedAt
      IN /\ at >= sessions[s].interrupted + RetryInterval * (k - 1)
         /\ at < followUps[s].deadline

\* A resolved obligation and its operations are history: a late worker,
\* withdrawal or backfill never touches them, and none loses an attempt.
ResolutionFinal ==
    [][\A s \in SessionIds :
         /\ followUps[s].status = "resolved" =>
              followUps'[s] = followUps[s] /\ operations'[s] = operations[s]
         /\ Len(operations'[s]) >= Len(operations[s])]_vars

\* The deadline decides the race between claimant, staff and worker: an
\* obligation ends as expired exactly when it ended at or after its deadline,
\* and an expired or abandoned Claim has an obligation that ended that way.
DeadlineDecides ==
    /\ \A s \in SessionIds :
         followUps[s].status = "resolved" /\ followUps[s].deadline # None =>
           (followUps[s].reason = "recovery_expired"
              <=> followUps[s].updated >= followUps[s].deadline)
    /\ claim.terminal = "expired" =>
         followUps[Latest].status = "resolved" /\ followUps[Latest].reason = "recovery_expired"
    /\ claim.terminal = "abandoned" =>
         followUps[Latest].status = "resolved" /\ followUps[Latest].reason = "staff_abandoned"

\* Liveness: an obligation bound to a deadline the clock reaches is ended,
\* by the worker if by nobody else, unless the Claim was completed meanwhile.
\* It is a property of one worker: two of them may leave operations that no
\* later cycle can read (OperationsReadable below).
ExpiryHappens ==
    \A s \in SessionIds :
      (IsOpen(followUps[s]) /\ followUps[s].deadline # None /\ followUps[s].deadline <= MaxTime)
        ~> (followUps[s].status = "resolved" \/ claim.terminal = "completed")

-----------------------------------------------------------------------------
(* What documents say of the program, and the code does otherwise.         *)

\* models.py, of every stored operation: "Follow-up operation settlement
\* requires a prior commit."  A worker whose cycle began earlier settles what
\* one with a later cycle has committed; the Claim is then neither contacted,
\* resumed, abandoned nor expired, for its operations cannot be read.
OperationsReadable == \A s \in SessionIds : Readable(operations[s])

\* recovery-policy-registry.md: "at most three committed in-app attempts, 24
\* hours apart".  Due times count from the interruption, so a worker that
\* was down delivers the attempts it missed one after the other.
AttemptsApart ==
    \A s \in SessionIds : \A k \in DOMAIN operations[s] :
      k > 1 => operations[s][k].committedAt >= operations[s][k - 1].committedAt + RetryInterval

\* api.md: "resume does not clear an unresolved authority error".
\* start_session resolves any open obligation of the paused Session.
QuarantineKept ==
    [][\A s \in SessionIds :
         /\ followUps[s].status = "blocked"
         /\ followUps[s].reason \in {"policy_binding_invalid", "source_state_inconsistent"}
         => followUps'[s].status = "blocked"]_vars
=============================================================================
