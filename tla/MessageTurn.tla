---------------------------- MODULE MessageTurn ----------------------------
(***************************************************************************)
(* One claimant conversation of one Claim: POST .../messages, served by    *)
(* submit_message (backend/services/messages.py) on the threads of the     *)
(* application over the Mongo repository.  A turn is a sequence of         *)
(* transactions: look the idempotency key up, classify the request as new, *)
(* retry or repetition, read the Claim, accept the message (first          *)
(* compare-and-swap of the Claim's revision), commit a safety handoff, ask *)
(* the model, commit the Agent's answer (second compare-and-swap), freeze  *)
(* the response.  A model failure is recovered onto the message and the    *)
(* key; any other API error is settled onto the key by the decorator       *)
(* _settle_accepted_error.  Between two transactions every other request,  *)
(* of the same key or the same message, and every other writer of the      *)
(* Claim may run.                                                          *)
(*                                                                         *)
(* A message stands for a client_message_id with its content: every        *)
(* request that names it carries the same payload.                         *)
(***************************************************************************)
EXTENDS Naturals, Sequences, FiniteSets

CONSTANTS
  Requests,     \* the threads that serve submit_message
  Keys,         \* idempotency keys of the claimant
  Messages,     \* client messages of the session
  Alarms,       \* the messages in which detect_safety_interrupt finds a need
  Rules,        \* the recovery rules classify_recovery gives a model failure
  NoRule, NoRecord, Other,
  MaxOthers,    \* bound on the Claim's revisions by other writers
  MaxRequests,  \* bound on the requests the claimant sends
  MaxCrashes    \* bound on threads that die between two transactions

ASSUME MessageTurnAssumption ==
  /\ Alarms \subseteq Messages
  /\ NoRule \notin Rules
  /\ Other \notin Messages
  /\ MaxOthers \in Nat /\ MaxRequests \in Nat /\ MaxCrashes \in Nat

VARIABLES
  log,          \* log[i] wrote revision i + 1: a message of this session, or Other
  conversation, \* who has the session: the Agent, a person, or nobody (closed)
  message,      \* the stored claimant messages
  notified,     \* the messages whose safety handoff is committed
  record,       \* the idempotency records of the route, by key
  decisions,    \* the committed Agent decisions
  req,          \* the state of each thread
  told,         \* the successful responses sent under each key
  sent, crashes

vars == <<log, conversation, message, notified, record, decisions, req, told,
          sent, crashes>>

Revision == Len(log) + 1

(***************************************************************************)
(* IdempotencyRecord.  "open": neither payload nor decision; "error": the  *)
(* envelope of an API error; "recovery" and "saved": a message-only        *)
(* response; "answer": a decision, whose payload is there once frozen.     *)
(***************************************************************************)
Results == {"open", "error", "recovery", "saved", "answer"}

IdempotencyRecord ==
  [message : Messages, result : Results, revision : Nat,
   frozen : BOOLEAN, before : Nat, confirm : BOOLEAN,
   inbound : BOOLEAN]

ASSUME NoRecordAssumption == NoRecord \notin IdempotencyRecord

Checkpoint(m, before, confirm, inbound) ==
  [message |-> m, result |-> "open", revision |-> 0, frozen |-> FALSE,
   before |-> before, confirm |-> confirm, inbound |-> inbound]

MessageRecord == [saved : BOOLEAN, recovery : Rules \union {NoRule}]

Response == [result : {"recovery", "saved", "answer"}, revision : Nat]

Stages == {"find", "classify", "alias", "load", "handover", "accept", "safety",
           "model", "recover", "commit", "freeze", "settle", "settling"}

Request ==
  [at : Stages, key : Keys, message : Messages,
   expected : Nat, retry : BOOLEAN, rule : Rules \union {NoRule},
   before : Nat, confirm : BOOLEAN, revision : Nat]

\* A thread without a request.
Idle == [at |-> "idle"]

----------------------------------------------------------------------------
At(w, stage) == req[w].at = stage

GoTo(w, stage) == req' = [req EXCEPT ![w].at = stage]

\* An ApiError leaves submit_message and reaches the decorator.
Refuse(w) == GoTo(w, "settle")

\* The request ends: its response is sent, or an exception that is no
\* ApiError becomes a 500 without passing through the decorator.
End(w) == req' = [req EXCEPT ![w] = Idle]

Respond(w, result, revision) ==
  /\ told' = [told EXCEPT ![req[w].key] =
                @ \union {[result |-> result, revision |-> revision]}]
  /\ End(w)

\* _replay_persisted_response: the stored outcome again.  An open record has
\* no committed revision and is answered 404.
Replay(w, r) ==
  CASE r.result = "open"  -> Refuse(w) /\ UNCHANGED told
    [] r.result = "error" -> End(w) /\ UNCHANGED told
    [] OTHER              -> Respond(w, r.result, r.revision)

----------------------------------------------------------------------------
KeysOf(m) == {k \in Keys : record[k] # NoRecord /\ record[k].message = m}

Decided(m) == \E d \in decisions : d.message = m

\* message_turn_result_priority: a committed turn over any other response
\* over an open checkpoint, then the later turn revision.
Rank(r) == CASE r.result = "answer" -> 2 [] r.result = "open" -> 0 [] OTHER -> 1

Before(a, b) ==
  \/ Rank(a) < Rank(b)
  \/ Rank(a) = Rank(b) /\ a.revision < b.revision

Best(m) == {k \in KeysOf(m) : \A j \in KeysOf(m) : ~Before(record[k], record[j])}

\* find_message_checkpoint: an inbound checkpoint of the lowest revision; the
\* sort says nothing of ties.
Checkpoints(m) ==
  LET inbound == {k \in KeysOf(m) : record[k].inbound}
  IN {k \in inbound : \A j \in inbound : record[k].before <= record[j].before}

\* retrying_saved_message, given the checkpoint the query returned.
Retryable(m, c) ==
  /\ \A k \in Best(m) : record[k].result # "answer"
  /\ message[m].recovery # NoRule \/ record[c].result = "error"
  /\ ~Decided(m)

\* Mutant: only a decision closes the record.
UndecidedOnly(k) == record[k].result # "answer"

\* save_message_recovery and save_agent_turn refuse a record that has a
\* response or a decision.
Unsettled(k) == record[k].result = "open"

\* _save_child_mutation of a new message: key, revision and client id.
KeyFree(w) == record[req[w].key] = NoRecord
RevisionHeld(w) == Revision = req[w].expected
Fresh(w) == ~message[req[w].message].saved

----------------------------------------------------------------------------
Init ==
  /\ log = <<>>
  /\ conversation = "agent"
  /\ message = [m \in Messages |-> [saved |-> FALSE, recovery |-> NoRule]]
  /\ notified = {}
  /\ record = [k \in Keys |-> NoRecord]
  /\ decisions = {}
  /\ req = [w \in Requests |-> Idle]
  /\ told = [k \in Keys |-> {}]
  /\ sent = 0
  /\ crashes = 0

\* The claimant's page sends a message, for the first time or again, under a
\* key of its choice and with the revision of some Claim it has been shown.
Submit(w) ==
  /\ At(w, "idle")
  /\ sent < MaxRequests
  /\ \E k \in Keys, m \in Messages, e \in 1..Revision :
       req' = [req EXCEPT ![w] =
                 [at |-> "find", key |-> k, message |-> m, expected |-> e,
                  retry |-> FALSE, rule |-> NoRule, before |-> 0,
                  confirm |-> FALSE, revision |-> 0]]
  /\ sent' = sent + 1
  /\ UNCHANGED <<log, conversation, message, notified, record, decisions, told,
                 crashes>>

\* find_idempotency: replay a known key, refuse one of another request.
FindKey(w) ==
  LET r == record[req[w].key]
  IN /\ At(w, "find")
     /\ \/ /\ r = NoRecord
           /\ GoTo(w, "classify")
           /\ UNCHANGED told
        \/ /\ r # NoRecord
           /\ r.message = req[w].message
           /\ Replay(w, r)
        \/ /\ r # NoRecord
           /\ r.message # req[w].message
           /\ Refuse(w)
           /\ UNCHANGED told
     /\ UNCHANGED <<log, conversation, message, notified, record, decisions,
                    sent, crashes>>

\* find_message_by_client_id and the reads that tell a retry of an accepted
\* but unanswered message from a repetition of a finished one.
Classify(w) ==
  LET m == req[w].message
  IN /\ At(w, "classify")
     /\ \/ /\ ~message[m].saved
           /\ GoTo(w, "load")
        \/ /\ message[m].saved
           /\ \E c \in Checkpoints(m) :
                /\ Retryable(m, c)
                /\ req' = [req EXCEPT ![w].at = "load", ![w].retry = TRUE,
                             ![w].rule = message[m].recovery,
                             ![w].before = record[c].before,
                             ![w].confirm = record[c].confirm]
        \/ /\ message[m].saved
           /\ \/ Checkpoints(m) = {}
              \/ \E c \in Checkpoints(m) : ~Retryable(m, c)
           /\ GoTo(w, "alias")
     /\ UNCHANGED <<log, conversation, message, notified, record, decisions,
                    told, sent, crashes>>

\* A key can stand for the turn of o unless it already stands for another.
MayAlias(k, o) == record[k] \in {NoRecord, record[o]}

\* reserve_message_turn_idempotency_alias, then a replay of the alias.
Alias(w) ==
  LET k == req[w].key
      Aliased(o) == /\ record' = [record EXCEPT ![k] = record[o]]
                    /\ Replay(w, record[o])
      Taken == /\ Refuse(w)
               /\ UNCHANGED <<record, told>>
  IN /\ At(w, "alias")
     /\ \E o \in Best(req[w].message) :
          IF MayAlias(k, o) THEN Aliased(o) ELSE Taken
     /\ UNCHANGED <<log, conversation, message, notified, decisions, sent,
                    crashes>>

\* Mutant: a retry keeps the confirmation of its checkpoint.
ConfirmationOfCheckpoint(w) == req[w].confirm

\* A retry takes the confirmation of its checkpoint over unless the Claim has
\* moved since the message was accepted.
ConfirmationKept(w) == req[w].confirm /\ Revision = req[w].before + 1

\* The Claim, the Session and the handoffs are read and judged.  A person's
\* conversation takes a new message without the Agent; save_message_mutation
\* raises KeyError, which is no ApiError, when the revision read is not the
\* one the request expects.  Invalid Evidence references are refused here.
Load(w) ==
  LET human == conversation = "human" /\ ~req[w].retry
      stale == ~RevisionHeld(w)
      q == req[w]
  IN /\ At(w, "load")
     /\ \/ conversation = "closed" /\ Refuse(w)
        \/ human /\ stale /\ End(w)
        \/ human /\ ~stale /\ GoTo(w, "handover")
        \/ conversation # "closed" /\ ~human /\ Refuse(w)
        \/ /\ conversation # "closed" /\ ~human /\ ~stale
           /\ \E shown \in BOOLEAN :
                LET before == IF q.retry THEN q.before ELSE Revision
                    confirm == IF q.retry THEN ConfirmationKept(w) ELSE shown
                IN /\ q.retry => shown
                   /\ req' = [req EXCEPT ![w].at = "accept",
                                ![w].before = before, ![w].confirm = confirm]
     /\ UNCHANGED <<log, conversation, message, notified, record, decisions,
                    told, sent, crashes>>

----------------------------------------------------------------------------
\* save_message_mutation: the message, the key's record and the next revision
\* of the Claim in one transaction.
SaveMessage(w, r) ==
  /\ log' = Append(log, req[w].message)
  /\ message' = [message EXCEPT ![req[w].message].saved = TRUE]
  /\ record' = [record EXCEPT ![req[w].key] = r]

\* A person has the conversation: the message is stored with its response.
Handover(w) ==
  /\ At(w, "handover")
  /\ \/ /\ KeyFree(w) /\ RevisionHeld(w) /\ Fresh(w)
        /\ SaveMessage(w, [Checkpoint(req[w].message, 0, FALSE, FALSE)
                             EXCEPT !.result = "saved",
                                    !.revision = Revision + 1])
        /\ Respond(w, "saved", Revision + 1)
     \/ /\ KeyFree(w) /\ ~RevisionHeld(w)
        /\ Refuse(w)
        /\ UNCHANGED <<log, message, record, told>>
     \/ /\ ~KeyFree(w) \/ (RevisionHeld(w) /\ ~Fresh(w))
        /\ End(w)
        /\ UNCHANGED <<log, message, record, told>>
  /\ UNCHANGED <<conversation, notified, decisions, sent, crashes>>

\* The first compare-and-swap: the inbound message is durable before the model
\* is asked.
AcceptNew(w) ==
  /\ At(w, "accept") /\ ~req[w].retry
  /\ \/ /\ KeyFree(w) /\ RevisionHeld(w) /\ Fresh(w)
        /\ SaveMessage(w, Checkpoint(req[w].message, req[w].before,
                                     req[w].confirm, TRUE))
        /\ req' = [req EXCEPT ![w].at = "safety",
                              ![w].expected = Revision + 1]
     \/ /\ ~(KeyFree(w) /\ RevisionHeld(w) /\ Fresh(w))
        /\ Refuse(w)
        /\ UNCHANGED <<log, message, record>>
  /\ UNCHANGED <<conversation, notified, decisions, told, sent, crashes>>

\* A retry only reserves its key: save_idempotency is content with a record of
\* the same request that is already there.
AcceptRetry(w) ==
  LET k == req[w].key
  IN /\ At(w, "accept") /\ req[w].retry
     /\ \/ /\ record[k] = NoRecord
           /\ record' = [record EXCEPT ![k] =
                           Checkpoint(req[w].message, req[w].before,
                                      req[w].confirm, FALSE)]
           /\ GoTo(w, "safety")
        \/ /\ record[k] # NoRecord
           /\ record[k].message = req[w].message
           /\ GoTo(w, "safety")
           /\ UNCHANGED record
        \/ /\ record[k] # NoRecord
           /\ record[k].message # req[w].message
           /\ End(w)
           /\ UNCHANGED record
     /\ UNCHANGED <<log, conversation, message, notified, decisions, told,
                    sent, crashes>>

\* detect_safety_interrupt.
Interrupts(m) == m \in Alarms

\* commit_detected_handoff: support is durable before the model is asked.  An
\* active handoff that already covers the need is left as it is.
Safety(w) ==
  LET m == req[w].message
  IN /\ At(w, "safety")
     /\ \/ /\ \/ ~Interrupts(m)
              \/ m \in notified
              \/ conversation # "agent"
           /\ GoTo(w, "model")
           /\ UNCHANGED <<log, conversation, notified>>
        \/ /\ Interrupts(m) /\ m \notin notified
           /\ RevisionHeld(w)
           /\ log' = Append(log, m)
           /\ conversation' = "human"
           /\ notified' = notified \union {m}
           /\ req' = [req EXCEPT ![w].at = "model",
                                 ![w].expected = Revision + 1]
        \/ /\ Interrupts(m) /\ m \notin notified
           /\ ~RevisionHeld(w)
           /\ Refuse(w)
           /\ UNCHANGED <<log, conversation, notified>>
     /\ UNCHANGED <<message, record, decisions, told, sent, crashes>>

\* The provider answers, fails (recover_model_failure reads the Claim again),
\* or its proposal, or the configuration it needs, is refused.
Propose(w) ==
  /\ At(w, "model")
  /\ \/ GoTo(w, "commit")
     \/ \E r \in Rules :
          req' = [req EXCEPT ![w].at = "recover", ![w].rule = r,
                             ![w].revision = Revision]
     \/ Refuse(w)
  /\ UNCHANGED <<log, conversation, message, notified, record, decisions, told,
                 sent, crashes>>

\* save_message_recovery of a model failure.
Recover(w) ==
  LET k == req[w].key
  IN /\ At(w, "recover")
     /\ \/ /\ Unsettled(k)
           /\ message' = [message EXCEPT ![req[w].message].recovery = req[w].rule]
           /\ record' = [record EXCEPT ![k].result = "recovery",
                                       ![k].revision = req[w].revision]
           /\ Respond(w, "recovery", req[w].revision)
        \/ /\ ~Unsettled(k)
           /\ End(w)
           /\ UNCHANGED <<message, record, told>>
     /\ UNCHANGED <<log, conversation, notified, decisions, sent, crashes>>

\* Mutant: the answer is saved on whatever revision the Claim has.
CommitOnAnyRevision(w) ==
  /\ Unsettled(req[w].key)
  /\ message[req[w].message].recovery = req[w].rule

\* The second compare-and-swap, save_agent_turn(checkpointed): the key must
\* still be open, the Claim unmoved and the stored message the one this
\* request holds.
MayCommit(w) ==
  /\ Unsettled(req[w].key)
  /\ RevisionHeld(w)
  /\ message[req[w].message].recovery = req[w].rule

\* The answer may hand the conversation to a person.
Commit(w) ==
  LET k == req[w].key
  IN /\ At(w, "commit")
     /\ \/ /\ MayCommit(w)
           /\ log' = Append(log, req[w].message)
           /\ decisions' = decisions \union
                {[message |-> req[w].message, key |-> k,
                  revision |-> Revision + 1]}
           /\ record' = [record EXCEPT ![k].result = "answer",
                                       ![k].revision = Revision + 1]
           /\ conversation' \in {conversation, "human"}
           /\ GoTo(w, "freeze")
        \/ /\ ~MayCommit(w)
           /\ Refuse(w)
           /\ UNCHANGED <<log, decisions, record, conversation>>
     /\ UNCHANGED <<message, notified, told, sent, crashes>>

\* freeze_message_response, after the granted service offers have been
\* continued (their writes are OtherMutation's).
Freeze(w) ==
  LET k == req[w].key
  IN /\ At(w, "freeze")
     /\ record' = [record EXCEPT ![k].frozen = TRUE]
     /\ Respond(w, "answer", record[k].revision)
     /\ UNCHANGED <<log, conversation, message, notified, decisions, sent,
                    crashes>>

\* Mutant: errors are not recorded.
NothingToSettle(w) == FALSE /\ At(w, "settle")

\* The key's record is an open one of this very request.
ToSettle(w) ==
  LET r == record[req[w].key]
  IN r # NoRecord /\ r.message = req[w].message /\ r.result = "open"

\* _settle_accepted_error: read the key's record and its message ...
Settle(w) ==
  /\ At(w, "settle")
  /\ \/ /\ ToSettle(w)
        /\ req' = [req EXCEPT ![w].at = "settling",
                              ![w].rule = message[req[w].message].recovery]
     \/ ~ToSettle(w) /\ End(w)
  /\ UNCHANGED <<log, conversation, message, notified, record, decisions, told,
                 sent, crashes>>

\* ... and save_message_recovery of the error's envelope, which writes the
\* message back as it was read.
SettleError(w) ==
  LET k == req[w].key
  IN /\ At(w, "settling")
     /\ \/ /\ Unsettled(k)
           /\ record' = [record EXCEPT ![k].result = "error"]
           /\ message' = [message EXCEPT ![req[w].message].recovery = req[w].rule]
        \/ /\ ~Unsettled(k)
           /\ UNCHANGED <<record, message>>
     /\ End(w)
     /\ UNCHANGED <<log, conversation, notified, decisions, told, sent, crashes>>

\* The thread dies with its process.
Crash(w) ==
  /\ ~At(w, "idle")
  /\ crashes < MaxCrashes
  /\ crashes' = crashes + 1
  /\ End(w)
  /\ UNCHANGED <<log, conversation, message, notified, record, decisions, told,
                 sent>>

\* Any other writer of the Claim: staff, Evidence, workers, service offers.
\* It may bring a person in, return the conversation or end the Session.
OtherMutation ==
  /\ Cardinality({i \in DOMAIN log : log[i] = Other}) < MaxOthers
  /\ log' = Append(log, Other)
  /\ conversation' \in IF conversation = "closed" THEN {"closed"}
                       ELSE {"agent", "human", "closed"}
  /\ UNCHANGED <<message, notified, record, decisions, req, told, sent, crashes>>

----------------------------------------------------------------------------
\* What a thread does between receiving a request and ending it.
Step(w) ==
  \/ FindKey(w) \/ Classify(w) \/ Alias(w) \/ Load(w) \/ Handover(w)
  \/ AcceptNew(w) \/ AcceptRetry(w) \/ Safety(w) \/ Propose(w) \/ Recover(w)
  \/ Commit(w) \/ Freeze(w) \/ Settle(w) \/ SettleError(w)

Next ==
  \/ \E w \in Requests : Submit(w) \/ Step(w) \/ Crash(w)
  \/ OtherMutation

Spec == Init /\ [][Next]_vars

\* The server runs a received request to its end.
FairSpec == Spec /\ \A w \in Requests : WF_vars(Step(w))

----------------------------------------------------------------------------
\* Types of the stored records and of the threads; only a message that asks
\* for a person has a safety handoff.
TypeOK ==
  /\ log \in Seq(Messages \union {Other})
  /\ conversation \in {"agent", "human", "closed"}
  /\ message \in [Messages -> MessageRecord]
  /\ notified \subseteq Alarms
  /\ record \in [Keys -> IdempotencyRecord \union {NoRecord}]
  /\ decisions \subseteq [message : Messages, key : Keys, revision : Nat]
  /\ req \in [Requests -> Request \union {Idle}]
  /\ told \in [Keys -> SUBSET Response]
  /\ sent \in 0..MaxRequests
  /\ crashes \in 0..MaxCrashes

\* A claimant message gets at most one Agent decision, however many requests
\* carry it, under however many keys, while others fail, retry or crash
\* (messages.py, the second compare-and-swap).
AnsweredOnce ==
  \A d, e \in decisions : d.message = e.message => d = e

\* Every successful response sent under one idempotency key is the same
\* historical turn: result and committed revision (docs/api.md, "Reuse with
\* the same request returns the first result", for successful results).
OneTurnPerKey ==
  \A k \in Keys : \A r, s \in told[k] : r = s

\* The outcome of a key is final: once its record has a response or a
\* decision, no later step of any request replaces it, except that the
\* answer's response is frozen (save_message_recovery, save_agent_turn).
OutcomeFinal ==
  [][\A k \in Keys :
       record[k] # NoRecord /\ record[k].result # "open" =>
         \/ record'[k] = record[k]
         \/ /\ record[k].result = "answer"
            /\ record'[k] = [record[k] EXCEPT !.frozen = TRUE]]_vars

Answering(w) == At(w, "commit") /\ req'[w].at = "freeze"

\* The Agent answers a new message only while no person has the conversation,
\* also when the handoff was opened after this turn looked for one.  A retry
\* and the turn of a safety interrupt may answer (messages.py:2299-2308).
AgentStaysOut ==
  [][\A w \in Requests :
       Answering(w) /\ ~req[w].retry /\ req[w].message \notin Alarms =>
         conversation = "agent"]_vars

\* A confirmation counts only if, since it was shown, the Claim moved for
\* this very message alone: a retry cannot revive it after another request
\* changed the Claim (messages.py:2266-2269).
ConfirmationNotRevived ==
  [][\A w \in Requests :
       Answering(w) /\ req[w].confirm =>
         \A i \in req[w].before..Len(log) : log[i] = req[w].message]_vars

\* A turn that answers m, or the handover of m to a person, or the possibility
\* of a retry.
Concluded(m) ==
  \/ Decided(m)
  \/ \E k \in KeysOf(m) : record[k].result = "saved"
  \/ \E c \in Checkpoints(m) : Retryable(m, c)

\* An accepted message is never left hanging: when no thread died and none is
\* at work on it, it was answered, handed to a person, or is open to a retry,
\* however the threads that carried it failed and overtook each other.
NeverLeftHanging ==
  \A m \in Messages :
    message[m].saved /\ crashes = 0 /\ (\A w \in Requests : At(w, "idle") \/ req[w].message # m)
      => Concluded(m)

----------------------------------------------------------------------------
(***************************************************************************)
(* What the documentation says and the code does not do.                   *)
(***************************************************************************)
Owns(w, k) ==
  /\ req[w].at \in {"safety", "model", "recover", "commit"}
  /\ req[w].key = k

\* messages.py:1826: in-flight replay is excluded from settling an error, so
\* another request cannot finish the owner of a key.
OwnerFinishesItsTurn ==
  [][\A w, v \in Requests :
       /\ w # v
       /\ At(w, "settling") /\ record'[req[w].key] # record[req[w].key]
       => ~Owns(v, req[w].key)]_vars

\* docs/api.md:2056: a saved but unanswered message carries its recovery, so
\* that it stays actionable after the history is reloaded.
SavedStaysActionable ==
  \A m \in Messages :
    /\ message[m].saved
    /\ ~Decided(m)
    /\ \A k \in KeysOf(m) : record[k].result # "saved"
    /\ \A w \in Requests : At(w, "idle") \/ req[w].message # m
    => message[m].recovery # NoRule

\* docs/api.md:2049: only a subsequent Agent reply takes the Retry action of a
\* recovered message away.
RetryActionKept ==
  [][\A m \in Messages :
       message[m].recovery # NoRule /\ ~Decided(m) =>
         message'[m].recovery # NoRule]_vars

\* docs/api.md:2000: claim_revision is the revision this message turn
\* committed.
RevisionIsOwn ==
  \A k \in Keys : \A r \in told[k] :
    log[r.revision - 1] = record[k].message

\* docs/api.md:144: a stale If-Match is refused as an API error (409).
StaleIsRefused ==
  [][\A w \in Requests :
       At(w, "load") /\ ~RevisionHeld(w) =>
         req'[w].at \in {"load", "settle"}]_vars
=============================================================================
