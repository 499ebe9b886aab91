-------------------------- MODULE ClaimFileProofs --------------------------
(***************************************************************************)
(* Proofs about the three components that share the file of one Claim: the *)
(* repository that keeps it under concurrent calls (Repository), the staff *)
(* who work on it (CaseWork), and its evidence item with the workers that  *)
(* read it (Evidence).  The three are proved about one after the other,    *)
(* each for itself.                                                        *)
(***************************************************************************)
EXTENDS CaseWork, Evidence, Repository, TLAPS

-----------------------------------------------------------------------------
(* The repository.  Each layer of the invariant rests on those before it:   *)
(* what is in store has been written by a call that counts (Effects); what  *)
(* a call that counts has written stays (Stays); a transaction has the      *)
(* latest of what it writes (Isolated); so one of two calls that test and   *)
(* write the same finds the other (Decided), and the numbers of the events  *)
(* follow each other (Counted).                                             *)

\* The names of dictionaries, and what the store can hold.
Names == {"retention_index", "claims", "evidence", "handoffs"} \cup {Memory!Table[m].writes[i] : m \in Methods, i \in Nat}
                                       \cup {Mongo!Table[m].writes[i] : m \in Methods, i \in Nat}
Pairs == (Calls \cup {Earlier}) \X Names
CallRecords ==
    [pc : {"idle", "called", "admitted", "entered", "writing", "left", "returned"}, method : Methods,
     seen : SUBSET Pairs, next : Nat \ {0}, number : Nat, target : Memory!Destroyable,
     copy : [store : SUBSET Pairs, sequence : Nat]]

Typed ==
    /\ backend \in {"memory", "mongo"} /\ retry \in BOOLEAN
    /\ store \in SUBSET Pairs
    /\ sequence \in Nat
    /\ lock \in Calls \cup {Earlier}
    /\ destroyed \in SUBSET Memory!Destroyable
    /\ call \in [Calls -> CallRecords]

\* What a row says whatever the method, b the backend the row is of.
Variants == {"bare_claims", "moved_claims", "moved_evidence", "moved_handoffs"}
List(w) == DOMAIN w = 1 .. Len(w) /\ Len(w) \in Nat
Has(w, d) == \E i \in DOMAIN w : RecordOf(w[i]) = d
Keeps(w, names) == \A i \in DOMAIN w : w[i] \notin names
RowOfMemory(m, r) ==
    /\ List(r.writes) /\ r.late \in Nat
    /\ r.guard \in {"lock", "serial", "restore", "none"}
    /\ Keeps(r.writes, Variants)
    /\ r.guard = "none" => Keeps(r.writes, {"realtime_events", "destroyed"})
    /\ r.guard \in {"serial", "restore"} => Keeps(r.writes, {"destroyed"})
    /\ r.late > 0 => r.guard \in {"serial", "restore"} \/ m = "save_message_recovery"
RowOfMongo(r) ==
    /\ List(r.writes) /\ r.late = 0
    /\ r.guard \in {"transaction", "compare", "none"}
    /\ r.guard # "transaction" =>
         Keeps(r.writes, {"realtime_events", "destroyed", "evidence", "handoffs"} \cup Variants)
    /\ r.guard = "compare" => Len(r.writes) = 1
    /\ "key" \in r.checks => r.guard = "transaction"
\* What it says beside the promise p of its method.
Honours(r, p) ==
    /\ \A d \in p.records : Has(r.writes, d)
    /\ \A d \in p.compares : d \in r.expects \/ ~Has(r.writes, d)
    /\ "key" \in r.checks => Has(r.writes, "idempotency")
    /\ p.compares \subseteq SharedRecords

\* Of the calls, which have something in effect, and which are undone by nobody.
Effective(t) ==
    \/ call[t].pc = "writing" /\ ~Transaction(t)
    \/ call[t].pc = "returned"
    \/ call[t].pc = "left" /\ backend = "memory" /\ call[t].method = "save_message_recovery"
Inside(t) == call[t].pc \in {"entered", "writing"}
Explained(p) ==
    IF p[1] = Earlier THEN p[2] = "retention_index"
    ELSE /\ Effective(p[1])
         /\ \E i \in 1 .. call[p[1]].next - 1 : p[2] = RecordOf(Of(p[1]).writes[i])

\* Where a call is, and what that says of its record.
Placed(t) ==
    /\ call[t].pc \in {"idle", "called", "admitted", "entered"} => call[t].next = 1
    /\ call[t].next - 1 <= Len(Of(t).writes)
    /\ call[t].pc = "returned" => call[t].next = Len(Of(t).writes) + 1
    /\ call[t].pc = "entered" => Locks(t) \/ Transaction(t)
    /\ call[t].pc = "idle" => call[t].seen = {}
    /\ \A p \in call[t].seen : p[1] # t
    /\ Locks(t) /\ Inside(t) => lock = t
    /\ ~(Copies(t) /\ Inside(t)) => call[t].copy = NoCopy
    /\ \A p \in call[t].copy.store : Explained(p) /\ p[1] # t
Effects ==
    /\ \A p \in store : Explained(p)
    /\ \A t \in Calls : Placed(t)

\* What is written stays, in the store and in the copies that may be put back.
InEffect(t, d) == <<t, d>> \in store \/ d \in destroyed
Done(t, d) == \E i \in 1 .. call[t].next - 1 : RecordOf(Of(t).writes[i]) = d
Lasting(t) ==
    /\ backend = "mongo" \/ Protected(t)
    /\ (call[t].pc = "writing" /\ ~Transaction(t)) \/ call[t].pc = "returned"
CopyCurrent(t) ==
    \A u \in Calls \ {t} : Protected(u) => \A d \in Names : <<u, d>> \in store <=> <<u, d>> \in call[t].copy.store
Stays ==
    /\ \A t \in Calls : Lasting(t) => \A d \in Names : Done(t, d) => InEffect(t, d)
    /\ \A t \in Calls : Locks(t) /\ Copies(t) /\ Inside(t) => CopyCurrent(t)

\* A transaction's snapshot is of what is in effect; one that writes has been
\* tested, has the latest of the documents it has written, and for itself.
Fresh(t) == \A p \in call[t].copy.store : p \in store \/ p[2] \in destroyed
Tested(t) ==
    /\ In(Of(t).expects, call[t].copy.store) = call[t].seen
    /\ "key" \in Of(t).checks => ~KeyUsed(t)
Latest(t, u) ==
    \A i \in DOMAIN Of(u).writes : \A d \in Documents(Of(u).writes[i]) :
        d \in Written(t) /\ Shared(t, u, d) /\ <<u, RecordOf(Of(u).writes[i])>> \in store
            => <<u, RecordOf(Of(u).writes[i])>> \in call[t].copy.store
Apart(t, u) == \A d \in Written(t) : Holds(u, d) => ~Shared(t, u, d)
Alone(t) ==
    /\ Fresh(t)
    /\ call[t].pc = "writing" => Tested(t) /\ \A u \in Calls \ {t} : Latest(t, u) /\ Apart(t, u)
Isolated == \A t \in Calls : Transaction(t) => Alone(t)

\* A call whose tests cannot fail any more.
Staked(t) ==
    /\ Protected(t)
    /\ \/ call[t].pc = "returned"
       \/ call[t].pc = "writing" /\ ~Transaction(t) /\ (Locks(t) \/ call[t].next > 1)
Decided ==
    \A t, u \in Calls : t # u /\ Staked(t) /\ Staked(u) =>
        /\ \A d \in (SharedRecords \cap Of(t).expects \cap Of(u).expects \cap WritesOf(t) \cap WritesOf(u)) \ destroyed :
             <<t, d>> \in call[u].seen \/ <<u, d>> \in call[t].seen
        /\ ~(SameKey(t, u) /\ "key" \in Of(t).checks)

\* The events of the store s are numbered 1 .. n.
Event(t) == <<t, "realtime_events">>
Numbered(s, n, c) ==
    /\ \A t \in Calls : Event(t) \in s => c[t].number \in 1 .. n
    /\ \A k \in 1 .. n : \E t \in Calls : Event(t) \in s /\ c[t].number = k
    /\ \A t, u \in Calls : Event(t) \in s /\ Event(u) \in s /\ c[t].number = c[u].number => t = u

\* The next number is what a call inside the lock has taken, and what its copy
\* leads to; a transaction's is the next of its snapshot.
Locked(t) ==
    /\ Locks(t) /\ call[t].pc = "writing" =>
         call[t].number = (IF Event(t) \in store THEN sequence ELSE sequence + 1)
    /\ Locks(t) /\ Copies(t) /\ Inside(t) =>
         sequence = (IF Event(t) \in store THEN call[t].copy.sequence + 1 ELSE call[t].copy.sequence)
Snapshot(t) ==
    Transaction(t) /\ Inside(t) =>
        /\ Numbered(call[t].copy.store, call[t].copy.sequence, call)
        /\ call[t].pc = "writing" => call[t].number = call[t].copy.sequence + 1
Counted ==
    /\ Numbered(store, sequence, call)
    /\ \A t \in Calls : Locked(t) /\ Snapshot(t)

MemoryRow(m, r, p) == RowOfMemory(m, r) /\ Honours(r, p)
MongoRow(r, p) == RowOfMongo(r) /\ Honours(r, p)

-----------------------------------------------------------------------------
(* What the rows say.                                                       *)

\* The lists rows are made of.
LEMMA Lists ==
  /\ \A a : List(<<a>>) /\ \A d \in {a} : Has(<<a>>, RecordOf(d))
  /\ \A a, b : List(<<a, b>>) /\ \A d \in {a, b} : Has(<<a, b>>, RecordOf(d))
  /\ \A a, b, c : List(<<a, b, c>>) /\ \A d \in {a, b, c} : Has(<<a, b, c>>, RecordOf(d))
  /\ \A a, b, c, e : List(<<a, b, c, e>>) /\ \A d \in {a, b, c, e} : Has(<<a, b, c, e>>, RecordOf(d))
  /\ \A a, b, c, e, f : List(<<a, b, c, e, f>>) /\ \A d \in {a, b, c, e, f} : Has(<<a, b, c, e, f>>, RecordOf(d))
  /\ \A a, b, c, e, f, g : List(<<a, b, c, e, f, g>>) /\ \A d \in {a, b, c, e, f, g} : Has(<<a, b, c, e, f, g>>, RecordOf(d))
  /\ \A a, b, c, e, f, g, h : List(<<a, b, c, e, f, g, h>>) /\ \A d \in {a, b, c, e, f, g, h} : Has(<<a, b, c, e, f, g, h>>, RecordOf(d))
  /\ \A a, b, c, e, f, g, h, i : List(<<a, b, c, e, f, g, h, i>>) /\ \A d \in {a, b, c, e, f, g, h, i} : Has(<<a, b, c, e, f, g, h, i>>, RecordOf(d))
  /\ \A a, b, c, e, f, g, h, i, j : List(<<a, b, c, e, f, g, h, i, j>>) /\ \A d \in {a, b, c, e, f, g, h, i, j} : Has(<<a, b, c, e, f, g, h, i, j>>, RecordOf(d))
  /\ \A a, b, c, e, f, g, h, i, j, k : List(<<a, b, c, e, f, g, h, i, j, k>>) /\ \A d \in {a, b, c, e, f, g, h, i, j, k} : Has(<<a, b, c, e, f, g, h, i, j, k>>, RecordOf(d))
  /\ \A a, b, c, e, f, g, h, i, j, k, l : List(<<a, b, c, e, f, g, h, i, j, k, l>>) /\ \A d \in {a, b, c, e, f, g, h, i, j, k, l} : Has(<<a, b, c, e, f, g, h, i, j, k, l>>, RecordOf(d))
BY DEF List, Has

LEMMA Joined ==
  ASSUME NEW s, NEW w, List(s), List(w)
  PROVE  List(s \o w) /\ \A d : Has(s, d) \/ Has(w, d) => Has(s \o w, d)
<1>1. List(s \o w)
  BY DEF List
<1>2. ASSUME NEW d, NEW i \in 1 .. Len(s), RecordOf(s[i]) = d
      PROVE  Has(s \o w, d)
  <2>1. i \in DOMAIN (s \o w) /\ (s \o w)[i] = s[i]
    BY DEF List
  <2> QED
    BY <1>2, <2>1 DEF Has
<1>3. ASSUME NEW d, NEW i \in 1 .. Len(w), RecordOf(w[i]) = d
      PROVE  Has(s \o w, d)
  <2>1. Len(s) + i \in DOMAIN (s \o w) /\ (s \o w)[Len(s) + i] = w[i]
    BY DEF List
  <2> QED
    BY <1>3, <2>1 DEF Has
<1> QED
  BY <1>1, <1>2, <1>3 DEF List, Has

LEMMA MethodsOf ==
  /\ Methods = DOMAIN Memory!Table /\ Methods = DOMAIN Mongo!Table
  /\ Methods = {"create_claim", "promote_claim_owner", "save_claim", "save_claim_mutation",
                  "save_claim_mutation_with_audit", "save_session", "save_incomplete_checkpoint",
                  "save_session_mutation", "save_message", "save_message_mutation",
                  "save_message_recovery", "freeze_message_response",
                  "reserve_message_turn_idempotency_alias", "save_idempotency",
                  "save_conversation_summary", "save_agent_decision", "save_branch_evaluation",
                  "save_agent_turn", "save_runtime_turn", "save_runtime_work_item",
                  "save_retrieval_bundle", "backfill_incomplete_claim_recovery",
                  "commit_recovery_staff_abandonment", "commit_follow_up_contact_withdrawal",
                  "commit_recovery_expiry", "commit_due_follow_up_attempt", "save_follow_up_operation",
                  "reserve_claim_creation_operation", "save_claim_creation_operation",
                  "save_claim_creation_outcome", "save_assessor_routing_operation",
                  "save_assessor_routing_preparation", "save_assessor_routing_settlement",
                  "save_assessor_reconciliation", "save_external_task", "save_external_task_attempt",
                  "save_external_task_settlement", "reserve_external_dispatch",
                  "release_external_dispatch", "save_external_task_request",
                  "save_external_task_evidence_link", "save_external_task_result", "save_evidence",
                  "save_evidence_mutation", "save_evidence_action_mutation",
                  "save_motor_other_driver_mutation", "save_contents_item_evidence_association_mutation",
                  "save_ownership_mutation", "save_staff_mutation", "save_handoff",
                  "save_handoff_mutation", "save_staff_presence", "save_staff_agent_session",
                  "save_staff_agent_turn", "append_audit_event", "create_account_record",
                  "update_account_record", "save_policy_selection", "save_payout_contact_selection",
                  "create_asset", "update_asset", "save_asset_selection", "append_realtime_publication",
                  "reserve_eligible_retention_operation", "reserve_retention_operation",
                  "freeze_retention_targets", "record_retention_step_failure",
                  "authorize_retention_object_target", "record_retention_object_result",
                  "apply_retention_record_target", "save_retention_operation", "save_retention_hold",
                  "commit_retention_hold_action"}
BY DEF Methods, Contract!Table, Memory!Table, Mongo!Table

LEMMA PromiseOf ==
  /\ Contract!Table["create_claim"] = Contract!create_claim
  /\ Contract!Table["promote_claim_owner"] = Contract!promote_claim_owner
  /\ Contract!Table["save_claim"] = Contract!save_claim
  /\ Contract!Table["save_claim_mutation"] = Contract!save_claim_mutation
  /\ Contract!Table["save_claim_mutation_with_audit"] = Contract!save_claim_mutation_with_audit
  /\ Contract!Table["save_session"] = Contract!save_session
  /\ Contract!Table["save_incomplete_checkpoint"] = Contract!save_incomplete_checkpoint
  /\ Contract!Table["save_session_mutation"] = Contract!save_session_mutation
  /\ Contract!Table["save_message"] = Contract!save_message
  /\ Contract!Table["save_message_mutation"] = Contract!save_message_mutation
  /\ Contract!Table["save_message_recovery"] = Contract!save_message_recovery
  /\ Contract!Table["freeze_message_response"] = Contract!freeze_message_response
  /\ Contract!Table["reserve_message_turn_idempotency_alias"] = Contract!reserve_message_turn_idempotency_alias
  /\ Contract!Table["save_idempotency"] = Contract!save_idempotency
  /\ Contract!Table["save_conversation_summary"] = Contract!save_conversation_summary
  /\ Contract!Table["save_agent_decision"] = Contract!save_agent_decision
  /\ Contract!Table["save_branch_evaluation"] = Contract!save_branch_evaluation
  /\ Contract!Table["save_agent_turn"] = Contract!save_agent_turn
  /\ Contract!Table["save_runtime_turn"] = Contract!save_runtime_turn
  /\ Contract!Table["save_runtime_work_item"] = Contract!save_runtime_work_item
  /\ Contract!Table["save_retrieval_bundle"] = Contract!save_retrieval_bundle
  /\ Contract!Table["backfill_incomplete_claim_recovery"] = Contract!backfill_incomplete_claim_recovery
  /\ Contract!Table["commit_recovery_staff_abandonment"] = Contract!commit_recovery_staff_abandonment
  /\ Contract!Table["commit_follow_up_contact_withdrawal"] = Contract!commit_follow_up_contact_withdrawal
  /\ Contract!Table["commit_recovery_expiry"] = Contract!commit_recovery_expiry
  /\ Contract!Table["commit_due_follow_up_attempt"] = Contract!commit_due_follow_up_attempt
  /\ Contract!Table["save_follow_up_operation"] = Contract!save_follow_up_operation
  /\ Contract!Table["reserve_claim_creation_operation"] = Contract!reserve_claim_creation_operation
  /\ Contract!Table["save_claim_creation_operation"] = Contract!save_claim_creation_operation
  /\ Contract!Table["save_claim_creation_outcome"] = Contract!save_claim_creation_outcome
  /\ Contract!Table["save_assessor_routing_operation"] = Contract!save_assessor_routing_operation
  /\ Contract!Table["save_assessor_routing_preparation"] = Contract!save_assessor_routing_preparation
  /\ Contract!Table["save_assessor_routing_settlement"] = Contract!save_assessor_routing_settlement
  /\ Contract!Table["save_assessor_reconciliation"] = Contract!save_assessor_reconciliation
  /\ Contract!Table["save_external_task"] = Contract!save_external_task
  /\ Contract!Table["save_external_task_attempt"] = Contract!save_external_task_attempt
  /\ Contract!Table["save_external_task_settlement"] = Contract!save_external_task_settlement
  /\ Contract!Table["reserve_external_dispatch"] = Contract!reserve_external_dispatch
  /\ Contract!Table["release_external_dispatch"] = Contract!release_external_dispatch
  /\ Contract!Table["save_external_task_request"] = Contract!save_external_task_request
  /\ Contract!Table["save_external_task_evidence_link"] = Contract!save_external_task_evidence_link
  /\ Contract!Table["save_external_task_result"] = Contract!save_external_task_result
  /\ Contract!Table["save_evidence"] = Contract!save_evidence
  /\ Contract!Table["save_evidence_mutation"] = Contract!save_evidence_mutation
  /\ Contract!Table["save_evidence_action_mutation"] = Contract!save_evidence_action_mutation
  /\ Contract!Table["save_motor_other_driver_mutation"] = Contract!save_motor_other_driver_mutation
  /\ Contract!Table["save_contents_item_evidence_association_mutation"] = Contract!save_contents_item_evidence_association_mutation
  /\ Contract!Table["save_ownership_mutation"] = Contract!save_ownership_mutation
  /\ Contract!Table["save_staff_mutation"] = Contract!save_staff_mutation
  /\ Contract!Table["save_handoff"] = Contract!save_handoff
  /\ Contract!Table["save_handoff_mutation"] = Contract!save_handoff_mutation
  /\ Contract!Table["save_staff_presence"] = Contract!save_staff_presence
  /\ Contract!Table["save_staff_agent_session"] = Contract!save_staff_agent_session
  /\ Contract!Table["save_staff_agent_turn"] = Contract!save_staff_agent_turn
  /\ Contract!Table["append_audit_event"] = Contract!append_audit_event
  /\ Contract!Table["create_account_record"] = Contract!create_account_record
  /\ Contract!Table["update_account_record"] = Contract!update_account_record
  /\ Contract!Table["save_policy_selection"] = Contract!save_policy_selection
  /\ Contract!Table["save_payout_contact_selection"] = Contract!save_payout_contact_selection
  /\ Contract!Table["create_asset"] = Contract!create_asset
  /\ Contract!Table["update_asset"] = Contract!update_asset
  /\ Contract!Table["save_asset_selection"] = Contract!save_asset_selection
  /\ Contract!Table["append_realtime_publication"] = Contract!append_realtime_publication
  /\ Contract!Table["reserve_eligible_retention_operation"] = Contract!reserve_eligible_retention_operation
  /\ Contract!Table["reserve_retention_operation"] = Contract!reserve_retention_operation
  /\ Contract!Table["freeze_retention_targets"] = Contract!freeze_retention_targets
  /\ Contract!Table["record_retention_step_failure"] = Contract!record_retention_step_failure
  /\ Contract!Table["authorize_retention_object_target"] = Contract!authorize_retention_object_target
  /\ Contract!Table["record_retention_object_result"] = Contract!record_retention_object_result
  /\ Contract!Table["apply_retention_record_target"] = Contract!apply_retention_record_target
  /\ Contract!Table["save_retention_operation"] = Contract!save_retention_operation
  /\ Contract!Table["save_retention_hold"] = Contract!save_retention_hold
  /\ Contract!Table["commit_retention_hold_action"] = Contract!commit_retention_hold_action
BY DEF Contract!Table

LEMMA MemoryOf ==
  /\ Memory!Table["create_claim"] = Memory!create_claim
  /\ Memory!Table["promote_claim_owner"] = Memory!promote_claim_owner
  /\ Memory!Table["save_claim"] = Memory!save_claim
  /\ Memory!Table["save_claim_mutation"] = Memory!save_claim_mutation
  /\ Memory!Table["save_claim_mutation_with_audit"] = Memory!save_claim_mutation_with_audit
  /\ Memory!Table["save_session"] = Memory!save_session
  /\ Memory!Table["save_incomplete_checkpoint"] = Memory!save_incomplete_checkpoint
  /\ Memory!Table["save_session_mutation"] = Memory!save_session_mutation
  /\ Memory!Table["save_message"] = Memory!save_message
  /\ Memory!Table["save_message_mutation"] = Memory!save_message_mutation
  /\ Memory!Table["save_message_recovery"] = Memory!save_message_recovery
  /\ Memory!Table["freeze_message_response"] = Memory!freeze_message_response
  /\ Memory!Table["reserve_message_turn_idempotency_alias"] = Memory!reserve_message_turn_idempotency_alias
  /\ Memory!Table["save_idempotency"] = Memory!save_idempotency
  /\ Memory!Table["save_conversation_summary"] = Memory!save_conversation_summary
  /\ Memory!Table["save_agent_decision"] = Memory!save_agent_decision
  /\ Memory!Table["save_branch_evaluation"] = Memory!save_branch_evaluation
  /\ Memory!Table["save_agent_turn"] = Memory!save_agent_turn
  /\ Memory!Table["save_runtime_turn"] = Memory!save_runtime_turn
  /\ Memory!Table["save_runtime_work_item"] = Memory!save_runtime_work_item
  /\ Memory!Table["save_retrieval_bundle"] = Memory!save_retrieval_bundle
  /\ Memory!Table["backfill_incomplete_claim_recovery"] = Memory!backfill_incomplete_claim_recovery
  /\ Memory!Table["commit_recovery_staff_abandonment"] = Memory!commit_recovery_staff_abandonment
  /\ Memory!Table["commit_follow_up_contact_withdrawal"] = Memory!commit_follow_up_contact_withdrawal
  /\ Memory!Table["commit_recovery_expiry"] = Memory!commit_recovery_expiry
  /\ Memory!Table["commit_due_follow_up_attempt"] = Memory!commit_due_follow_up_attempt
  /\ Memory!Table["save_follow_up_operation"] = Memory!save_follow_up_operation
  /\ Memory!Table["reserve_claim_creation_operation"] = Memory!reserve_claim_creation_operation
  /\ Memory!Table["save_claim_creation_operation"] = Memory!save_claim_creation_operation
  /\ Memory!Table["save_claim_creation_outcome"] = Memory!save_claim_creation_outcome
  /\ Memory!Table["save_assessor_routing_operation"] = Memory!save_assessor_routing_operation
  /\ Memory!Table["save_assessor_routing_preparation"] = Memory!save_assessor_routing_preparation
  /\ Memory!Table["save_assessor_routing_settlement"] = Memory!save_assessor_routing_settlement
  /\ Memory!Table["save_assessor_reconciliation"] = Memory!save_assessor_reconciliation
  /\ Memory!Table["save_external_task"] = Memory!save_external_task
  /\ Memory!Table["save_external_task_attempt"] = Memory!save_external_task_attempt
  /\ Memory!Table["save_external_task_settlement"] = Memory!save_external_task_settlement
  /\ Memory!Table["reserve_external_dispatch"] = Memory!reserve_external_dispatch
  /\ Memory!Table["release_external_dispatch"] = Memory!release_external_dispatch
  /\ Memory!Table["save_external_task_request"] = Memory!save_external_task_request
  /\ Memory!Table["save_external_task_evidence_link"] = Memory!save_external_task_evidence_link
  /\ Memory!Table["save_external_task_result"] = Memory!save_external_task_result
  /\ Memory!Table["save_evidence"] = Memory!save_evidence
  /\ Memory!Table["save_evidence_mutation"] = Memory!save_evidence_mutation
  /\ Memory!Table["save_evidence_action_mutation"] = Memory!save_evidence_action_mutation
  /\ Memory!Table["save_motor_other_driver_mutation"] = Memory!save_motor_other_driver_mutation
  /\ Memory!Table["save_contents_item_evidence_association_mutation"] = Memory!save_contents_item_evidence_association_mutation
  /\ Memory!Table["save_ownership_mutation"] = Memory!save_ownership_mutation
  /\ Memory!Table["save_staff_mutation"] = Memory!save_staff_mutation
  /\ Memory!Table["save_handoff"] = Memory!save_handoff
  /\ Memory!Table["save_handoff_mutation"] = Memory!save_handoff_mutation
  /\ Memory!Table["save_staff_presence"] = Memory!save_staff_presence
  /\ Memory!Table["save_staff_agent_session"] = Memory!save_staff_agent_session
  /\ Memory!Table["save_staff_agent_turn"] = Memory!save_staff_agent_turn
  /\ Memory!Table["append_audit_event"] = Memory!append_audit_event
  /\ Memory!Table["create_account_record"] = Memory!create_account_record
  /\ Memory!Table["update_account_record"] = Memory!update_account_record
  /\ Memory!Table["save_policy_selection"] = Memory!save_policy_selection
  /\ Memory!Table["save_payout_contact_selection"] = Memory!save_payout_contact_selection
  /\ Memory!Table["create_asset"] = Memory!create_asset
  /\ Memory!Table["update_asset"] = Memory!update_asset
  /\ Memory!Table["save_asset_selection"] = Memory!save_asset_selection
  /\ Memory!Table["append_realtime_publication"] = Memory!append_realtime_publication
  /\ Memory!Table["reserve_eligible_retention_operation"] = Memory!reserve_eligible_retention_operation
  /\ Memory!Table["reserve_retention_operation"] = Memory!reserve_retention_operation
  /\ Memory!Table["freeze_retention_targets"] = Memory!freeze_retention_targets
  /\ Memory!Table["record_retention_step_failure"] = Memory!record_retention_step_failure
  /\ Memory!Table["authorize_retention_object_target"] = Memory!authorize_retention_object_target
  /\ Memory!Table["record_retention_object_result"] = Memory!record_retention_object_result
  /\ Memory!Table["apply_retention_record_target"] = Memory!apply_retention_record_target
  /\ Memory!Table["save_retention_operation"] = Memory!save_retention_operation
  /\ Memory!Table["save_retention_hold"] = Memory!save_retention_hold
  /\ Memory!Table["commit_retention_hold_action"] = Memory!commit_retention_hold_action
BY DEF Memory!Table

LEMMA MongoOf ==
  /\ Mongo!Table["create_claim"] = Mongo!create_claim
  /\ Mongo!Table["promote_claim_owner"] = Mongo!promote_claim_owner
  /\ Mongo!Table["save_claim"] = Mongo!save_claim
  /\ Mongo!Table["save_claim_mutation"] = Mongo!save_claim_mutation
  /\ Mongo!Table["save_claim_mutation_with_audit"] = Mongo!save_claim_mutation_with_audit
  /\ Mongo!Table["save_session"] = Mongo!save_session
  /\ Mongo!Table["save_incomplete_checkpoint"] = Mongo!save_incomplete_checkpoint
  /\ Mongo!Table["save_session_mutation"] = Mongo!save_session_mutation
  /\ Mongo!Table["save_message"] = Mongo!save_message
  /\ Mongo!Table["save_message_mutation"] = Mongo!save_message_mutation
  /\ Mongo!Table["save_message_recovery"] = Mongo!save_message_recovery
  /\ Mongo!Table["freeze_message_response"] = Mongo!freeze_message_response
  /\ Mongo!Table["reserve_message_turn_idempotency_alias"] = Mongo!reserve_message_turn_idempotency_alias
  /\ Mongo!Table["save_idempotency"] = Mongo!save_idempotency
  /\ Mongo!Table["save_conversation_summary"] = Mongo!save_conversation_summary
  /\ Mongo!Table["save_agent_decision"] = Mongo!save_agent_decision
  /\ Mongo!Table["save_branch_evaluation"] = Mongo!save_branch_evaluation
  /\ Mongo!Table["save_agent_turn"] = Mongo!save_agent_turn
  /\ Mongo!Table["save_runtime_turn"] = Mongo!save_runtime_turn
  /\ Mongo!Table["save_runtime_work_item"] = Mongo!save_runtime_work_item
  /\ Mongo!Table["save_retrieval_bundle"] = Mongo!save_retrieval_bundle
  /\ Mongo!Table["backfill_incomplete_claim_recovery"] = Mongo!backfill_incomplete_claim_recovery
  /\ Mongo!Table["commit_recovery_staff_abandonment"] = Mongo!commit_recovery_staff_abandonment
  /\ Mongo!Table["commit_follow_up_contact_withdrawal"] = Mongo!commit_follow_up_contact_withdrawal
  /\ Mongo!Table["commit_recovery_expiry"] = Mongo!commit_recovery_expiry
  /\ Mongo!Table["commit_due_follow_up_attempt"] = Mongo!commit_due_follow_up_attempt
  /\ Mongo!Table["save_follow_up_operation"] = Mongo!save_follow_up_operation
  /\ Mongo!Table["reserve_claim_creation_operation"] = Mongo!reserve_claim_creation_operation
  /\ Mongo!Table["save_claim_creation_operation"] = Mongo!save_claim_creation_operation
  /\ Mongo!Table["save_claim_creation_outcome"] = Mongo!save_claim_creation_outcome
  /\ Mongo!Table["save_assessor_routing_operation"] = Mongo!save_assessor_routing_operation
  /\ Mongo!Table["save_assessor_routing_preparation"] = Mongo!save_assessor_routing_preparation
  /\ Mongo!Table["save_assessor_routing_settlement"] = Mongo!save_assessor_routing_settlement
  /\ Mongo!Table["save_assessor_reconciliation"] = Mongo!save_assessor_reconciliation
  /\ Mongo!Table["save_external_task"] = Mongo!save_external_task
  /\ Mongo!Table["save_external_task_attempt"] = Mongo!save_external_task_attempt
  /\ Mongo!Table["save_external_task_settlement"] = Mongo!save_external_task_settlement
  /\ Mongo!Table["reserve_external_dispatch"] = Mongo!reserve_external_dispatch
  /\ Mongo!Table["release_external_dispatch"] = Mongo!release_external_dispatch
  /\ Mongo!Table["save_external_task_request"] = Mongo!save_external_task_request
  /\ Mongo!Table["save_external_task_evidence_link"] = Mongo!save_external_task_evidence_link
  /\ Mongo!Table["save_external_task_result"] = Mongo!save_external_task_result
  /\ Mongo!Table["save_evidence"] = Mongo!save_evidence
  /\ Mongo!Table["save_evidence_mutation"] = Mongo!save_evidence_mutation
  /\ Mongo!Table["save_evidence_action_mutation"] = Mongo!save_evidence_action_mutation
  /\ Mongo!Table["save_motor_other_driver_mutation"] = Mongo!save_motor_other_driver_mutation
  /\ Mongo!Table["save_contents_item_evidence_association_mutation"] = Mongo!save_contents_item_evidence_association_mutation
  /\ Mongo!Table["save_ownership_mutation"] = Mongo!save_ownership_mutation
  /\ Mongo!Table["save_staff_mutation"] = Mongo!save_staff_mutation
  /\ Mongo!Table["save_handoff"] = Mongo!save_handoff
  /\ Mongo!Table["save_handoff_mutation"] = Mongo!save_handoff_mutation
  /\ Mongo!Table["save_staff_presence"] = Mongo!save_staff_presence
  /\ Mongo!Table["save_staff_agent_session"] = Mongo!save_staff_agent_session
  /\ Mongo!Table["save_staff_agent_turn"] = Mongo!save_staff_agent_turn
  /\ Mongo!Table["append_audit_event"] = Mongo!append_audit_event
  /\ Mongo!Table["create_account_record"] = Mongo!create_account_record
  /\ Mongo!Table["update_account_record"] = Mongo!update_account_record
  /\ Mongo!Table["save_policy_selection"] = Mongo!save_policy_selection
  /\ Mongo!Table["save_payout_contact_selection"] = Mongo!save_payout_contact_selection
  /\ Mongo!Table["create_asset"] = Mongo!create_asset
  /\ Mongo!Table["update_asset"] = Mongo!update_asset
  /\ Mongo!Table["save_asset_selection"] = Mongo!save_asset_selection
  /\ Mongo!Table["append_realtime_publication"] = Mongo!append_realtime_publication
  /\ Mongo!Table["reserve_eligible_retention_operation"] = Mongo!reserve_eligible_retention_operation
  /\ Mongo!Table["reserve_retention_operation"] = Mongo!reserve_retention_operation
  /\ Mongo!Table["freeze_retention_targets"] = Mongo!freeze_retention_targets
  /\ Mongo!Table["record_retention_step_failure"] = Mongo!record_retention_step_failure
  /\ Mongo!Table["authorize_retention_object_target"] = Mongo!authorize_retention_object_target
  /\ Mongo!Table["record_retention_object_result"] = Mongo!record_retention_object_result
  /\ Mongo!Table["apply_retention_record_target"] = Mongo!apply_retention_record_target
  /\ Mongo!Table["save_retention_operation"] = Mongo!save_retention_operation
  /\ Mongo!Table["save_retention_hold"] = Mongo!save_retention_hold
  /\ Mongo!Table["commit_retention_hold_action"] = Mongo!commit_retention_hold_action
BY DEF Mongo!Table

LEMMA MemoryRows == \A m \in Methods : MemoryRow(m, Memory!Table[m], Contract!Table[m])
<1> USE DEF Memory!Row, Memory!ValidateClaimMutation, Memory!create_claim, Memory!promote_claim_owner,
    Memory!save_claim, Memory!save_claim_mutation, Memory!save_claim_mutation_with_audit, Memory!save_session,
    Memory!save_incomplete_checkpoint, Memory!save_session_mutation, Memory!save_message,
    Memory!save_message_mutation, Memory!save_message_recovery, Memory!freeze_message_response,
    Memory!reserve_message_turn_idempotency_alias, Memory!save_idempotency, Memory!save_conversation_summary,
    Memory!save_agent_decision, Memory!save_branch_evaluation, Memory!save_agent_turn,
    Memory!save_runtime_turn, Memory!save_runtime_work_item, Memory!save_retrieval_bundle,
    Memory!backfill_incomplete_claim_recovery, Memory!commit_recovery_staff_abandonment,
    Memory!commit_follow_up_contact_withdrawal, Memory!commit_recovery_expiry,
    Memory!commit_due_follow_up_attempt, Memory!save_follow_up_operation,
    Memory!reserve_claim_creation_operation, Memory!save_claim_creation_operation,
    Memory!save_claim_creation_outcome, Memory!save_assessor_routing_operation,
    Memory!save_assessor_routing_preparation, Memory!save_assessor_routing_settlement,
    Memory!save_assessor_reconciliation, Memory!save_external_task, Memory!save_external_task_attempt,
    Memory!save_external_task_settlement, Memory!reserve_external_dispatch, Memory!release_external_dispatch,
    Memory!save_external_task_request, Memory!save_external_task_evidence_link,
    Memory!save_external_task_result, Memory!save_evidence, Memory!save_evidence_mutation,
    Memory!save_evidence_action_mutation, Memory!save_motor_other_driver_mutation,
    Memory!save_contents_item_evidence_association_mutation, Memory!save_ownership_mutation,
    Memory!save_staff_mutation, Memory!save_handoff, Memory!save_handoff_mutation, Memory!save_staff_presence,
    Memory!save_staff_agent_session, Memory!save_staff_agent_turn, Memory!append_audit_event,
    Memory!create_account_record, Memory!update_account_record, Memory!save_policy_selection,
    Memory!save_payout_contact_selection, Memory!create_asset, Memory!update_asset,
    Memory!save_asset_selection, Memory!append_realtime_publication,
    Memory!reserve_eligible_retention_operation, Memory!reserve_retention_operation,
    Memory!freeze_retention_targets, Memory!record_retention_step_failure,
    Memory!authorize_retention_object_target, Memory!record_retention_object_result,
    Memory!apply_retention_record_target, Memory!save_retention_operation, Memory!save_retention_hold,
    Memory!commit_retention_hold_action, Contract!Promise, Contract!KeyedRevision, Contract!create_claim,
    Contract!promote_claim_owner, Contract!save_claim, Contract!save_claim_mutation,
    Contract!save_claim_mutation_with_audit, Contract!save_session, Contract!save_incomplete_checkpoint,
    Contract!save_session_mutation, Contract!save_message, Contract!save_message_mutation,
    Contract!save_message_recovery, Contract!freeze_message_response,
    Contract!reserve_message_turn_idempotency_alias, Contract!save_idempotency,
    Contract!save_conversation_summary, Contract!save_agent_decision, Contract!save_branch_evaluation,
    Contract!save_agent_turn, Contract!save_runtime_turn, Contract!save_runtime_work_item,
    Contract!save_retrieval_bundle, Contract!backfill_incomplete_claim_recovery,
    Contract!commit_recovery_staff_abandonment, Contract!commit_follow_up_contact_withdrawal,
    Contract!commit_recovery_expiry, Contract!commit_due_follow_up_attempt, Contract!save_follow_up_operation,
    Contract!reserve_claim_creation_operation, Contract!save_claim_creation_operation,
    Contract!save_claim_creation_outcome, Contract!save_assessor_routing_operation,
    Contract!save_assessor_routing_preparation, Contract!save_assessor_routing_settlement,
    Contract!save_assessor_reconciliation, Contract!save_external_task, Contract!save_external_task_attempt,
    Contract!save_external_task_settlement, Contract!reserve_external_dispatch,
    Contract!release_external_dispatch, Contract!save_external_task_request,
    Contract!save_external_task_evidence_link, Contract!save_external_task_result, Contract!save_evidence,
    Contract!save_evidence_mutation, Contract!save_evidence_action_mutation,
    Contract!save_motor_other_driver_mutation, Contract!save_contents_item_evidence_association_mutation,
    Contract!save_ownership_mutation, Contract!save_staff_mutation, Contract!save_handoff,
    Contract!save_handoff_mutation, Contract!save_staff_presence, Contract!save_staff_agent_session,
    Contract!save_staff_agent_turn, Contract!append_audit_event, Contract!create_account_record,
    Contract!update_account_record, Contract!save_policy_selection, Contract!save_payout_contact_selection,
    Contract!create_asset, Contract!update_asset, Contract!save_asset_selection,
    Contract!append_realtime_publication, Contract!reserve_eligible_retention_operation,
    Contract!reserve_retention_operation, Contract!freeze_retention_targets,
    Contract!record_retention_step_failure, Contract!authorize_retention_object_target,
    Contract!record_retention_object_result, Contract!apply_retention_record_target,
    Contract!save_retention_operation, Contract!save_retention_hold, Contract!commit_retention_hold_action
<1>1. /\ MemoryRow("save_claim", Memory!save_claim, Contract!save_claim)
      /\ MemoryRow("save_claim_mutation", Memory!save_claim_mutation, Contract!save_claim_mutation)
      /\ MemoryRow("save_claim_mutation_with_audit", Memory!save_claim_mutation_with_audit, Contract!save_claim_mutation_with_audit)
      /\ MemoryRow("save_incomplete_checkpoint", Memory!save_incomplete_checkpoint, Contract!save_incomplete_checkpoint)
      /\ MemoryRow("save_session_mutation", Memory!save_session_mutation, Contract!save_session_mutation)
      /\ MemoryRow("save_message_mutation", Memory!save_message_mutation, Contract!save_message_mutation)
  BY SMTT(60), Lists, Joined DEF MemoryRow, RowOfMemory, Honours, Keeps, Variants, RecordOf, SharedRecords
<1>2. /\ MemoryRow("save_agent_turn", Memory!save_agent_turn, Contract!save_agent_turn)
      /\ MemoryRow("save_claim_creation_outcome", Memory!save_claim_creation_outcome, Contract!save_claim_creation_outcome)
      /\ MemoryRow("save_evidence_mutation", Memory!save_evidence_mutation, Contract!save_evidence_mutation)
      /\ MemoryRow("save_evidence_action_mutation", Memory!save_evidence_action_mutation, Contract!save_evidence_action_mutation)
      /\ MemoryRow("save_motor_other_driver_mutation", Memory!save_motor_other_driver_mutation, Contract!save_motor_other_driver_mutation)
      /\ MemoryRow("save_contents_item_evidence_association_mutation", Memory!save_contents_item_evidence_association_mutation, Contract!save_contents_item_evidence_association_mutation)
  BY SMTT(60), Lists, Joined DEF MemoryRow, RowOfMemory, Honours, Keeps, Variants, RecordOf, SharedRecords
<1>3. /\ MemoryRow("save_ownership_mutation", Memory!save_ownership_mutation, Contract!save_ownership_mutation)
      /\ MemoryRow("save_handoff_mutation", Memory!save_handoff_mutation, Contract!save_handoff_mutation)
      /\ MemoryRow("save_policy_selection", Memory!save_policy_selection, Contract!save_policy_selection)
      /\ MemoryRow("save_payout_contact_selection", Memory!save_payout_contact_selection, Contract!save_payout_contact_selection)
      /\ MemoryRow("save_asset_selection", Memory!save_asset_selection, Contract!save_asset_selection)
  BY SMTT(60), Lists, Joined DEF MemoryRow, RowOfMemory, Honours, Keeps, Variants, RecordOf, SharedRecords
<1>4. /\ MemoryRow("create_claim", Memory!create_claim, Contract!create_claim)
      /\ MemoryRow("promote_claim_owner", Memory!promote_claim_owner, Contract!promote_claim_owner)
      /\ MemoryRow("save_session", Memory!save_session, Contract!save_session)
      /\ MemoryRow("save_message", Memory!save_message, Contract!save_message)
      /\ MemoryRow("save_message_recovery", Memory!save_message_recovery, Contract!save_message_recovery)
      /\ MemoryRow("freeze_message_response", Memory!freeze_message_response, Contract!freeze_message_response)
      /\ MemoryRow("reserve_message_turn_idempotency_alias", Memory!reserve_message_turn_idempotency_alias, Contract!reserve_message_turn_idempotency_alias)
      /\ MemoryRow("save_idempotency", Memory!save_idempotency, Contract!save_idempotency)
      /\ MemoryRow("save_conversation_summary", Memory!save_conversation_summary, Contract!save_conversation_summary)
      /\ MemoryRow("save_agent_decision", Memory!save_agent_decision, Contract!save_agent_decision)
  BY DEF MemoryRow, RowOfMemory, Honours, Keeps, Variants, RecordOf, SharedRecords, Has, List
<1>5. /\ MemoryRow("save_branch_evaluation", Memory!save_branch_evaluation, Contract!save_branch_evaluation)
      /\ MemoryRow("save_runtime_turn", Memory!save_runtime_turn, Contract!save_runtime_turn)
      /\ MemoryRow("save_runtime_work_item", Memory!save_runtime_work_item, Contract!save_runtime_work_item)
      /\ MemoryRow("save_retrieval_bundle", Memory!save_retrieval_bundle, Contract!save_retrieval_bundle)
      /\ MemoryRow("backfill_incomplete_claim_recovery", Memory!backfill_incomplete_claim_recovery, Contract!backfill_incomplete_claim_recovery)
      /\ MemoryRow("commit_recovery_staff_abandonment", Memory!commit_recovery_staff_abandonment, Contract!commit_recovery_staff_abandonment)
      /\ MemoryRow("commit_follow_up_contact_withdrawal", Memory!commit_follow_up_contact_withdrawal, Contract!commit_follow_up_contact_withdrawal)
      /\ MemoryRow("commit_recovery_expiry", Memory!commit_recovery_expiry, Contract!commit_recovery_expiry)
      /\ MemoryRow("commit_due_follow_up_attempt", Memory!commit_due_follow_up_attempt, Contract!commit_due_follow_up_attempt)
      /\ MemoryRow("save_follow_up_operation", Memory!save_follow_up_operation, Contract!save_follow_up_operation)
  BY DEF MemoryRow, RowOfMemory, Honours, Keeps, Variants, RecordOf, SharedRecords, Has, List
<1>6. /\ MemoryRow("reserve_claim_creation_operation", Memory!reserve_claim_creation_operation, Contract!reserve_claim_creation_operation)
      /\ MemoryRow("save_claim_creation_operation", Memory!save_claim_creation_operation, Contract!save_claim_creation_operation)
      /\ MemoryRow("save_assessor_routing_operation", Memory!save_assessor_routing_operation, Contract!save_assessor_routing_operation)
      /\ MemoryRow("save_assessor_routing_preparation", Memory!save_assessor_routing_preparation, Contract!save_assessor_routing_preparation)
      /\ MemoryRow("save_assessor_routing_settlement", Memory!save_assessor_routing_settlement, Contract!save_assessor_routing_settlement)
      /\ MemoryRow("save_assessor_reconciliation", Memory!save_assessor_reconciliation, Contract!save_assessor_reconciliation)
      /\ MemoryRow("save_external_task", Memory!save_external_task, Contract!save_external_task)
      /\ MemoryRow("save_external_task_attempt", Memory!save_external_task_attempt, Contract!save_external_task_attempt)
      /\ MemoryRow("save_external_task_settlement", Memory!save_external_task_settlement, Contract!save_external_task_settlement)
      /\ MemoryRow("reserve_external_dispatch", Memory!reserve_external_dispatch, Contract!reserve_external_dispatch)
  BY DEF MemoryRow, RowOfMemory, Honours, Keeps, Variants, RecordOf, SharedRecords, Has, List
<1>7. /\ MemoryRow("release_external_dispatch", Memory!release_external_dispatch, Contract!release_external_dispatch)
      /\ MemoryRow("save_external_task_request", Memory!save_external_task_request, Contract!save_external_task_request)
      /\ MemoryRow("save_external_task_evidence_link", Memory!save_external_task_evidence_link, Contract!save_external_task_evidence_link)
      /\ MemoryRow("save_external_task_result", Memory!save_external_task_result, Contract!save_external_task_result)
      /\ MemoryRow("save_evidence", Memory!save_evidence, Contract!save_evidence)
      /\ MemoryRow("save_staff_mutation", Memory!save_staff_mutation, Contract!save_staff_mutation)
      /\ MemoryRow("save_handoff", Memory!save_handoff, Contract!save_handoff)
      /\ MemoryRow("save_staff_presence", Memory!save_staff_presence, Contract!save_staff_presence)
      /\ MemoryRow("save_staff_agent_session", Memory!save_staff_agent_session, Contract!save_staff_agent_session)
      /\ MemoryRow("save_staff_agent_turn", Memory!save_staff_agent_turn, Contract!save_staff_agent_turn)
  BY DEF MemoryRow, RowOfMemory, Honours, Keeps, Variants, RecordOf, SharedRecords, Has, List
<1>8. /\ MemoryRow("append_audit_event", Memory!append_audit_event, Contract!append_audit_event)
      /\ MemoryRow("create_account_record", Memory!create_account_record, Contract!create_account_record)
      /\ MemoryRow("update_account_record", Memory!update_account_record, Contract!update_account_record)
      /\ MemoryRow("create_asset", Memory!create_asset, Contract!create_asset)
      /\ MemoryRow("update_asset", Memory!update_asset, Contract!update_asset)
      /\ MemoryRow("append_realtime_publication", Memory!append_realtime_publication, Contract!append_realtime_publication)
      /\ MemoryRow("reserve_eligible_retention_operation", Memory!reserve_eligible_retention_operation, Contract!reserve_eligible_retention_operation)
      /\ MemoryRow("reserve_retention_operation", Memory!reserve_retention_operation, Contract!reserve_retention_operation)
      /\ MemoryRow("freeze_retention_targets", Memory!freeze_retention_targets, Contract!freeze_retention_targets)
      /\ MemoryRow("record_retention_step_failure", Memory!record_retention_step_failure, Contract!record_retention_step_failure)
  BY DEF MemoryRow, RowOfMemory, Honours, Keeps, Variants, RecordOf, SharedRecords, Has, List
<1>9. /\ MemoryRow("authorize_retention_object_target", Memory!authorize_retention_object_target, Contract!authorize_retention_object_target)
      /\ MemoryRow("record_retention_object_result", Memory!record_retention_object_result, Contract!record_retention_object_result)
      /\ MemoryRow("apply_retention_record_target", Memory!apply_retention_record_target, Contract!apply_retention_record_target)
      /\ MemoryRow("save_retention_operation", Memory!save_retention_operation, Contract!save_retention_operation)
      /\ MemoryRow("save_retention_hold", Memory!save_retention_hold, Contract!save_retention_hold)
      /\ MemoryRow("commit_retention_hold_action", Memory!commit_retention_hold_action, Contract!commit_retention_hold_action)
  BY DEF MemoryRow, RowOfMemory, Honours, Keeps, Variants, RecordOf, SharedRecords, Has, List
<1> HIDE DEF Memory!Row, Memory!ValidateClaimMutation, Memory!create_claim, Memory!promote_claim_owner,
    Memory!save_claim, Memory!save_claim_mutation, Memory!save_claim_mutation_with_audit, Memory!save_session,
    Memory!save_incomplete_checkpoint, Memory!save_session_mutation, Memory!save_message,
    Memory!save_message_mutation, Memory!save_message_recovery, Memory!freeze_message_response,
    Memory!reserve_message_turn_idempotency_alias, Memory!save_idempotency, Memory!save_conversation_summary,
    Memory!save_agent_decision, Memory!save_branch_evaluation, Memory!save_agent_turn,
    Memory!save_runtime_turn, Memory!save_runtime_work_item, Memory!save_retrieval_bundle,
    Memory!backfill_incomplete_claim_recovery, Memory!commit_recovery_staff_abandonment,
    Memory!commit_follow_up_contact_withdrawal, Memory!commit_recovery_expiry,
    Memory!commit_due_follow_up_attempt, Memory!save_follow_up_operation,
    Memory!reserve_claim_creation_operation, Memory!save_claim_creation_operation,
    Memory!save_claim_creation_outcome, Memory!save_assessor_routing_operation,
    Memory!save_assessor_routing_preparation, Memory!save_assessor_routing_settlement,
    Memory!save_assessor_reconciliation, Memory!save_external_task, Memory!save_external_task_attempt,
    Memory!save_external_task_settlement, Memory!reserve_external_dispatch, Memory!release_external_dispatch,
    Memory!save_external_task_request, Memory!save_external_task_evidence_link,
    Memory!save_external_task_result, Memory!save_evidence, Memory!save_evidence_mutation,
    Memory!save_evidence_action_mutation, Memory!save_motor_other_driver_mutation,
    Memory!save_contents_item_evidence_association_mutation, Memory!save_ownership_mutation,
    Memory!save_staff_mutation, Memory!save_handoff, Memory!save_handoff_mutation, Memory!save_staff_presence,
    Memory!save_staff_agent_session, Memory!save_staff_agent_turn, Memory!append_audit_event,
    Memory!create_account_record, Memory!update_account_record, Memory!save_policy_selection,
    Memory!save_payout_contact_selection, Memory!create_asset, Memory!update_asset,
    Memory!save_asset_selection, Memory!append_realtime_publication,
    Memory!reserve_eligible_retention_operation, Memory!reserve_retention_operation,
    Memory!freeze_retention_targets, Memory!record_retention_step_failure,
    Memory!authorize_retention_object_target, Memory!record_retention_object_result,
    Memory!apply_retention_record_target, Memory!save_retention_operation, Memory!save_retention_hold,
    Memory!commit_retention_hold_action, Contract!Promise, Contract!KeyedRevision, Contract!create_claim,
    Contract!promote_claim_owner, Contract!save_claim, Contract!save_claim_mutation,
    Contract!save_claim_mutation_with_audit, Contract!save_session, Contract!save_incomplete_checkpoint,
    Contract!save_session_mutation, Contract!save_message, Contract!save_message_mutation,
    Contract!save_message_recovery, Contract!freeze_message_response,
    Contract!reserve_message_turn_idempotency_alias, Contract!save_idempotency,
    Contract!save_conversation_summary, Contract!save_agent_decision, Contract!save_branch_evaluation,
    Contract!save_agent_turn, Contract!save_runtime_turn, Contract!save_runtime_work_item,
    Contract!save_retrieval_bundle, Contract!backfill_incomplete_claim_recovery,
    Contract!commit_recovery_staff_abandonment, Contract!commit_follow_up_contact_withdrawal,
    Contract!commit_recovery_expiry, Contract!commit_due_follow_up_attempt, Contract!save_follow_up_operation,
    Contract!reserve_claim_creation_operation, Contract!save_claim_creation_operation,
    Contract!save_claim_creation_outcome, Contract!save_assessor_routing_operation,
    Contract!save_assessor_routing_preparation, Contract!save_assessor_routing_settlement,
    Contract!save_assessor_reconciliation, Contract!save_external_task, Contract!save_external_task_attempt,
    Contract!save_external_task_settlement, Contract!reserve_external_dispatch,
    Contract!release_external_dispatch, Contract!save_external_task_request,
    Contract!save_external_task_evidence_link, Contract!save_external_task_result, Contract!save_evidence,
    Contract!save_evidence_mutation, Contract!save_evidence_action_mutation,
    Contract!save_motor_other_driver_mutation, Contract!save_contents_item_evidence_association_mutation,
    Contract!save_ownership_mutation, Contract!save_staff_mutation, Contract!save_handoff,
    Contract!save_handoff_mutation, Contract!save_staff_presence, Contract!save_staff_agent_session,
    Contract!save_staff_agent_turn, Contract!append_audit_event, Contract!create_account_record,
    Contract!update_account_record, Contract!save_policy_selection, Contract!save_payout_contact_selection,
    Contract!create_asset, Contract!update_asset, Contract!save_asset_selection,
    Contract!append_realtime_publication, Contract!reserve_eligible_retention_operation,
    Contract!reserve_retention_operation, Contract!freeze_retention_targets,
    Contract!record_retention_step_failure, Contract!authorize_retention_object_target,
    Contract!record_retention_object_result, Contract!apply_retention_record_target,
    Contract!save_retention_operation, Contract!save_retention_hold, Contract!commit_retention_hold_action
<1>10. ASSUME NEW m \in DOMAIN Memory!Table
      PROVE  MemoryRow(m, Memory!Table[m], Contract!Table[m])
  BY SMTT(60), MethodsOf, <1>1, <1>2, <1>3, <1>4, <1>5, <1>6, <1>7, <1>8, <1>9, MemoryOf, PromiseOf
<1> QED
  BY <1>10, MethodsOf

LEMMA MongoRows == \A m \in Methods : MongoRow(Mongo!Table[m], Contract!Table[m])
<1> USE DEF Mongo!Row, Mongo!Atomic, Mongo!ClaimRevision, Mongo!ChildMutation, Mongo!AuditedMutation,
    Mongo!create_claim, Mongo!promote_claim_owner, Mongo!save_claim, Mongo!save_claim_mutation,
    Mongo!save_claim_mutation_with_audit, Mongo!save_session, Mongo!save_incomplete_checkpoint,
    Mongo!save_session_mutation, Mongo!save_message, Mongo!save_message_mutation, Mongo!save_message_recovery,
    Mongo!freeze_message_response, Mongo!reserve_message_turn_idempotency_alias, Mongo!save_idempotency,
    Mongo!save_conversation_summary, Mongo!save_agent_decision, Mongo!save_branch_evaluation,
    Mongo!save_agent_turn, Mongo!save_runtime_turn, Mongo!save_runtime_work_item, Mongo!save_retrieval_bundle,
    Mongo!backfill_incomplete_claim_recovery, Mongo!commit_recovery_staff_abandonment,
    Mongo!commit_follow_up_contact_withdrawal, Mongo!commit_recovery_expiry,
    Mongo!commit_due_follow_up_attempt, Mongo!save_follow_up_operation, Mongo!reserve_claim_creation_operation,
    Mongo!save_claim_creation_operation, Mongo!save_claim_creation_outcome,
    Mongo!save_assessor_routing_operation, Mongo!save_assessor_routing_preparation,
    Mongo!save_assessor_routing_settlement, Mongo!save_assessor_reconciliation, Mongo!save_external_task,
    Mongo!save_external_task_attempt, Mongo!save_external_task_settlement, Mongo!reserve_external_dispatch,
    Mongo!release_external_dispatch, Mongo!save_external_task_request, Mongo!save_external_task_evidence_link,
    Mongo!save_external_task_result, Mongo!save_evidence, Mongo!save_evidence_mutation,
    Mongo!save_evidence_action_mutation, Mongo!save_motor_other_driver_mutation,
    Mongo!save_contents_item_evidence_association_mutation, Mongo!save_ownership_mutation,
    Mongo!save_staff_mutation, Mongo!save_handoff, Mongo!save_handoff_mutation, Mongo!save_staff_presence,
    Mongo!save_staff_agent_session, Mongo!save_staff_agent_turn, Mongo!append_audit_event,
    Mongo!create_account_record, Mongo!update_account_record, Mongo!save_policy_selection,
    Mongo!save_payout_contact_selection, Mongo!create_asset, Mongo!update_asset, Mongo!save_asset_selection,
    Mongo!append_realtime_publication, Mongo!reserve_eligible_retention_operation,
    Mongo!reserve_retention_operation, Mongo!freeze_retention_targets, Mongo!record_retention_step_failure,
    Mongo!authorize_retention_object_target, Mongo!record_retention_object_result,
    Mongo!apply_retention_record_target, Mongo!save_retention_operation, Mongo!save_retention_hold,
    Mongo!commit_retention_hold_action, Contract!Promise, Contract!KeyedRevision, Contract!create_claim,
    Contract!promote_claim_owner, Contract!save_claim, Contract!save_claim_mutation,
    Contract!save_claim_mutation_with_audit, Contract!save_session, Contract!save_incomplete_checkpoint,
    Contract!save_session_mutation, Contract!save_message, Contract!save_message_mutation,
    Contract!save_message_recovery, Contract!freeze_message_response,
    Contract!reserve_message_turn_idempotency_alias, Contract!save_idempotency,
    Contract!save_conversation_summary, Contract!save_agent_decision, Contract!save_branch_evaluation,
    Contract!save_agent_turn, Contract!save_runtime_turn, Contract!save_runtime_work_item,
    Contract!save_retrieval_bundle, Contract!backfill_incomplete_claim_recovery,
    Contract!commit_recovery_staff_abandonment, Contract!commit_follow_up_contact_withdrawal,
    Contract!commit_recovery_expiry, Contract!commit_due_follow_up_attempt, Contract!save_follow_up_operation,
    Contract!reserve_claim_creation_operation, Contract!save_claim_creation_operation,
    Contract!save_claim_creation_outcome, Contract!save_assessor_routing_operation,
    Contract!save_assessor_routing_preparation, Contract!save_assessor_routing_settlement,
    Contract!save_assessor_reconciliation, Contract!save_external_task, Contract!save_external_task_attempt,
    Contract!save_external_task_settlement, Contract!reserve_external_dispatch,
    Contract!release_external_dispatch, Contract!save_external_task_request,
    Contract!save_external_task_evidence_link, Contract!save_external_task_result, Contract!save_evidence,
    Contract!save_evidence_mutation, Contract!save_evidence_action_mutation,
    Contract!save_motor_other_driver_mutation, Contract!save_contents_item_evidence_association_mutation,
    Contract!save_ownership_mutation, Contract!save_staff_mutation, Contract!save_handoff,
    Contract!save_handoff_mutation, Contract!save_staff_presence, Contract!save_staff_agent_session,
    Contract!save_staff_agent_turn, Contract!append_audit_event, Contract!create_account_record,
    Contract!update_account_record, Contract!save_policy_selection, Contract!save_payout_contact_selection,
    Contract!create_asset, Contract!update_asset, Contract!save_asset_selection,
    Contract!append_realtime_publication, Contract!reserve_eligible_retention_operation,
    Contract!reserve_retention_operation, Contract!freeze_retention_targets,
    Contract!record_retention_step_failure, Contract!authorize_retention_object_target,
    Contract!record_retention_object_result, Contract!apply_retention_record_target,
    Contract!save_retention_operation, Contract!save_retention_hold, Contract!commit_retention_hold_action
<1>1. /\ MongoRow(Mongo!save_claim, Contract!save_claim)
      /\ MongoRow(Mongo!save_claim_mutation, Contract!save_claim_mutation)
      /\ MongoRow(Mongo!save_claim_mutation_with_audit, Contract!save_claim_mutation_with_audit)
      /\ MongoRow(Mongo!save_incomplete_checkpoint, Contract!save_incomplete_checkpoint)
      /\ MongoRow(Mongo!save_message_mutation, Contract!save_message_mutation)
      /\ MongoRow(Mongo!save_agent_turn, Contract!save_agent_turn)
  BY SMTT(60), Lists, Joined DEF MongoRow, RowOfMongo, Honours, Keeps, Variants, RecordOf, SharedRecords
<1>2. /\ MongoRow(Mongo!save_claim_creation_outcome, Contract!save_claim_creation_outcome)
      /\ MongoRow(Mongo!save_evidence_mutation, Contract!save_evidence_mutation)
      /\ MongoRow(Mongo!save_evidence_action_mutation, Contract!save_evidence_action_mutation)
      /\ MongoRow(Mongo!save_motor_other_driver_mutation, Contract!save_motor_other_driver_mutation)
      /\ MongoRow(Mongo!save_contents_item_evidence_association_mutation, Contract!save_contents_item_evidence_association_mutation)
      /\ MongoRow(Mongo!save_ownership_mutation, Contract!save_ownership_mutation)
  BY SMTT(60), Lists, Joined DEF MongoRow, RowOfMongo, Honours, Keeps, Variants, RecordOf, SharedRecords
<1>3. /\ MongoRow(Mongo!save_handoff_mutation, Contract!save_handoff_mutation)
      /\ MongoRow(Mongo!save_policy_selection, Contract!save_policy_selection)
      /\ MongoRow(Mongo!save_payout_contact_selection, Contract!save_payout_contact_selection)
      /\ MongoRow(Mongo!save_asset_selection, Contract!save_asset_selection)
  BY SMTT(60), Lists, Joined DEF MongoRow, RowOfMongo, Honours, Keeps, Variants, RecordOf, SharedRecords
<1>4. /\ MongoRow(Mongo!create_claim, Contract!create_claim)
      /\ MongoRow(Mongo!promote_claim_owner, Contract!promote_claim_owner)
      /\ MongoRow(Mongo!save_session, Contract!save_session)
      /\ MongoRow(Mongo!save_session_mutation, Contract!save_session_mutation)
      /\ MongoRow(Mongo!save_message, Contract!save_message)
      /\ MongoRow(Mongo!save_message_recovery, Contract!save_message_recovery)
      /\ MongoRow(Mongo!freeze_message_response, Contract!freeze_message_response)
      /\ MongoRow(Mongo!reserve_message_turn_idempotency_alias, Contract!reserve_message_turn_idempotency_alias)
      /\ MongoRow(Mongo!save_idempotency, Contract!save_idempotency)
      /\ MongoRow(Mongo!save_conversation_summary, Contract!save_conversation_summary)
  BY DEF MongoRow, RowOfMongo, Honours, Keeps, Variants, RecordOf, SharedRecords, Has, List
<1>5. /\ MongoRow(Mongo!save_agent_decision, Contract!save_agent_decision)
      /\ MongoRow(Mongo!save_branch_evaluation, Contract!save_branch_evaluation)
      /\ MongoRow(Mongo!save_runtime_turn, Contract!save_runtime_turn)
      /\ MongoRow(Mongo!save_runtime_work_item, Contract!save_runtime_work_item)
      /\ MongoRow(Mongo!save_retrieval_bundle, Contract!save_retrieval_bundle)
      /\ MongoRow(Mongo!backfill_incomplete_claim_recovery, Contract!backfill_incomplete_claim_recovery)
      /\ MongoRow(Mongo!commit_recovery_staff_abandonment, Contract!commit_recovery_staff_abandonment)
      /\ MongoRow(Mongo!commit_follow_up_contact_withdrawal, Contract!commit_follow_up_contact_withdrawal)
      /\ MongoRow(Mongo!commit_recovery_expiry, Contract!commit_recovery_expiry)
      /\ MongoRow(Mongo!commit_due_follow_up_attempt, Contract!commit_due_follow_up_attempt)
  BY DEF MongoRow, RowOfMongo, Honours, Keeps, Variants, RecordOf, SharedRecords, Has, List
<1>6. /\ MongoRow(Mongo!save_follow_up_operation, Contract!save_follow_up_operation)
      /\ MongoRow(Mongo!reserve_claim_creation_operation, Contract!reserve_claim_creation_operation)
      /\ MongoRow(Mongo!save_claim_creation_operation, Contract!save_claim_creation_operation)
      /\ MongoRow(Mongo!save_assessor_routing_operation, Contract!save_assessor_routing_operation)
      /\ MongoRow(Mongo!save_assessor_routing_preparation, Contract!save_assessor_routing_preparation)
      /\ MongoRow(Mongo!save_assessor_routing_settlement, Contract!save_assessor_routing_settlement)
      /\ MongoRow(Mongo!save_assessor_reconciliation, Contract!save_assessor_reconciliation)
      /\ MongoRow(Mongo!save_external_task, Contract!save_external_task)
      /\ MongoRow(Mongo!save_external_task_attempt, Contract!save_external_task_attempt)
      /\ MongoRow(Mongo!save_external_task_settlement, Contract!save_external_task_settlement)
  BY DEF MongoRow, RowOfMongo, Honours, Keeps, Variants, RecordOf, SharedRecords, Has, List
<1>7. /\ MongoRow(Mongo!reserve_external_dispatch, Contract!reserve_external_dispatch)
      /\ MongoRow(Mongo!release_external_dispatch, Contract!release_external_dispatch)
      /\ MongoRow(Mongo!save_external_task_request, Contract!save_external_task_request)
      /\ MongoRow(Mongo!save_external_task_evidence_link, Contract!save_external_task_evidence_link)
      /\ MongoRow(Mongo!save_external_task_result, Contract!save_external_task_result)
      /\ MongoRow(Mongo!save_evidence, Contract!save_evidence)
      /\ MongoRow(Mongo!save_staff_mutation, Contract!save_staff_mutation)
      /\ MongoRow(Mongo!save_handoff, Contract!save_handoff)
      /\ MongoRow(Mongo!save_staff_presence, Contract!save_staff_presence)
      /\ MongoRow(Mongo!save_staff_agent_session, Contract!save_staff_agent_session)
  BY DEF MongoRow, RowOfMongo, Honours, Keeps, Variants, RecordOf, SharedRecords, Has, List
<1>8. /\ MongoRow(Mongo!save_staff_agent_turn, Contract!save_staff_agent_turn)
      /\ MongoRow(Mongo!append_audit_event, Contract!append_audit_event)
      /\ MongoRow(Mongo!create_account_record, Contract!create_account_record)
      /\ MongoRow(Mongo!update_account_record, Contract!update_account_record)
      /\ MongoRow(Mongo!create_asset, Contract!create_asset)
      /\ MongoRow(Mongo!update_asset, Contract!update_asset)
      /\ MongoRow(Mongo!append_realtime_publication, Contract!append_realtime_publication)
      /\ MongoRow(Mongo!reserve_eligible_retention_operation, Contract!reserve_eligible_retention_operation)
      /\ MongoRow(Mongo!reserve_retention_operation, Contract!reserve_retention_operation)
      /\ MongoRow(Mongo!freeze_retention_targets, Contract!freeze_retention_targets)
  BY DEF MongoRow, RowOfMongo, Honours, Keeps, Variants, RecordOf, SharedRecords, Has, List
<1>9. /\ MongoRow(Mongo!record_retention_step_failure, Contract!record_retention_step_failure)
      /\ MongoRow(Mongo!authorize_retention_object_target, Contract!authorize_retention_object_target)
      /\ MongoRow(Mongo!record_retention_object_result, Contract!record_retention_object_result)
      /\ MongoRow(Mongo!apply_retention_record_target, Contract!apply_retention_record_target)
      /\ MongoRow(Mongo!save_retention_operation, Contract!save_retention_operation)
      /\ MongoRow(Mongo!save_retention_hold, Contract!save_retention_hold)
      /\ MongoRow(Mongo!commit_retention_hold_action, Contract!commit_retention_hold_action)
  BY DEF MongoRow, RowOfMongo, Honours, Keeps, Variants, RecordOf, SharedRecords, Has, List
<1> HIDE DEF Mongo!Row, Mongo!Atomic, Mongo!ClaimRevision, Mongo!ChildMutation, Mongo!AuditedMutation,
    Mongo!create_claim, Mongo!promote_claim_owner, Mongo!save_claim, Mongo!save_claim_mutation,
    Mongo!save_claim_mutation_with_audit, Mongo!save_session, Mongo!save_incomplete_checkpoint,
    Mongo!save_session_mutation, Mongo!save_message, Mongo!save_message_mutation, Mongo!save_message_recovery,
    Mongo!freeze_message_response, Mongo!reserve_message_turn_idempotency_alias, Mongo!save_idempotency,
    Mongo!save_conversation_summary, Mongo!save_agent_decision, Mongo!save_branch_evaluation,
    Mongo!save_agent_turn, Mongo!save_runtime_turn, Mongo!save_runtime_work_item, Mongo!save_retrieval_bundle,
    Mongo!backfill_incomplete_claim_recovery, Mongo!commit_recovery_staff_abandonment,
    Mongo!commit_follow_up_contact_withdrawal, Mongo!commit_recovery_expiry,
    Mongo!commit_due_follow_up_attempt, Mongo!save_follow_up_operation, Mongo!reserve_claim_creation_operation,
    Mongo!save_claim_creation_operation, Mongo!save_claim_creation_outcome,
    Mongo!save_assessor_routing_operation, Mongo!save_assessor_routing_preparation,
    Mongo!save_assessor_routing_settlement, Mongo!save_assessor_reconciliation, Mongo!save_external_task,
    Mongo!save_external_task_attempt, Mongo!save_external_task_settlement, Mongo!reserve_external_dispatch,
    Mongo!release_external_dispatch, Mongo!save_external_task_request, Mongo!save_external_task_evidence_link,
    Mongo!save_external_task_result, Mongo!save_evidence, Mongo!save_evidence_mutation,
    Mongo!save_evidence_action_mutation, Mongo!save_motor_other_driver_mutation,
    Mongo!save_contents_item_evidence_association_mutation, Mongo!save_ownership_mutation,
    Mongo!save_staff_mutation, Mongo!save_handoff, Mongo!save_handoff_mutation, Mongo!save_staff_presence,
    Mongo!save_staff_agent_session, Mongo!save_staff_agent_turn, Mongo!append_audit_event,
    Mongo!create_account_record, Mongo!update_account_record, Mongo!save_policy_selection,
    Mongo!save_payout_contact_selection, Mongo!create_asset, Mongo!update_asset, Mongo!save_asset_selection,
    Mongo!append_realtime_publication, Mongo!reserve_eligible_retention_operation,
    Mongo!reserve_retention_operation, Mongo!freeze_retention_targets, Mongo!record_retention_step_failure,
    Mongo!authorize_retention_object_target, Mongo!record_retention_object_result,
    Mongo!apply_retention_record_target, Mongo!save_retention_operation, Mongo!save_retention_hold,
    Mongo!commit_retention_hold_action, Contract!Promise, Contract!KeyedRevision, Contract!create_claim,
    Contract!promote_claim_owner, Contract!save_claim, Contract!save_claim_mutation,
    Contract!save_claim_mutation_with_audit, Contract!save_session, Contract!save_incomplete_checkpoint,
    Contract!save_session_mutation, Contract!save_message, Contract!save_message_mutation,
    Contract!save_message_recovery, Contract!freeze_message_response,
    Contract!reserve_message_turn_idempotency_alias, Contract!save_idempotency,
    Contract!save_conversation_summary, Contract!save_agent_decision, Contract!save_branch_evaluation,
    Contract!save_agent_turn, Contract!save_runtime_turn, Contract!save_runtime_work_item,
    Contract!save_retrieval_bundle, Contract!backfill_incomplete_claim_recovery,
    Contract!commit_recovery_staff_abandonment, Contract!commit_follow_up_contact_withdrawal,
    Contract!commit_recovery_expiry, Contract!commit_due_follow_up_attempt, Contract!save_follow_up_operation,
    Contract!reserve_claim_creation_operation, Contract!save_claim_creation_operation,
    Contract!save_claim_creation_outcome, Contract!save_assessor_routing_operation,
    Contract!save_assessor_routing_preparation, Contract!save_assessor_routing_settlement,
    Contract!save_assessor_reconciliation, Contract!save_external_task, Contract!save_external_task_attempt,
    Contract!save_external_task_settlement, Contract!reserve_external_dispatch,
    Contract!release_external_dispatch, Contract!save_external_task_request,
    Contract!save_external_task_evidence_link, Contract!save_external_task_result, Contract!save_evidence,
    Contract!save_evidence_mutation, Contract!save_evidence_action_mutation,
    Contract!save_motor_other_driver_mutation, Contract!save_contents_item_evidence_association_mutation,
    Contract!save_ownership_mutation, Contract!save_staff_mutation, Contract!save_handoff,
    Contract!save_handoff_mutation, Contract!save_staff_presence, Contract!save_staff_agent_session,
    Contract!save_staff_agent_turn, Contract!append_audit_event, Contract!create_account_record,
    Contract!update_account_record, Contract!save_policy_selection, Contract!save_payout_contact_selection,
    Contract!create_asset, Contract!update_asset, Contract!save_asset_selection,
    Contract!append_realtime_publication, Contract!reserve_eligible_retention_operation,
    Contract!reserve_retention_operation, Contract!freeze_retention_targets,
    Contract!record_retention_step_failure, Contract!authorize_retention_object_target,
    Contract!record_retention_object_result, Contract!apply_retention_record_target,
    Contract!save_retention_operation, Contract!save_retention_hold, Contract!commit_retention_hold_action
<1>10. ASSUME NEW m \in DOMAIN Mongo!Table
      PROVE  MongoRow(Mongo!Table[m], Contract!Table[m])
  BY SMTT(60), MethodsOf, <1>1, <1>2, <1>3, <1>4, <1>5, <1>6, <1>7, <1>8, <1>9, MongoOf, PromiseOf
<1> QED
  BY <1>10, MethodsOf

\* What they say of the row of a call.
LEMMA OfCall ==
  ASSUME Typed, NEW t \in Calls
  PROVE  /\ List(Of(t).writes) /\ Of(t).late \in Nat
         /\ backend = "memory" => Of(t).guard \in {"lock", "serial", "restore", "none"} /\ Keeps(Of(t).writes, Variants)
         /\ backend = "mongo" => Of(t).guard \in {"transaction", "compare", "none"} /\ Of(t).late = 0
         /\ Of(t).guard \in {"none", "compare"} => Keeps(Of(t).writes, {"realtime_events", "destroyed"} \cup Variants)
         /\ backend = "mongo" /\ Of(t).guard # "transaction" => Keeps(Of(t).writes, {"evidence", "handoffs"})
         /\ Of(t).guard \in {"serial", "restore"} => Keeps(Of(t).writes, {"destroyed"})
         /\ Of(t).late > 0 => Of(t).guard \in {"serial", "restore"} \/ (backend = "memory" /\ call[t].method = "save_message_recovery")
         /\ Of(t).guard = "compare" => Len(Of(t).writes) = 1
         /\ backend = "mongo" /\ "key" \in Of(t).checks => Of(t).guard = "transaction"
         /\ Honours(Of(t), Promised(t))
<1> DEFINE m == call[t].method
<1>1. m \in Methods /\ backend \in {"memory", "mongo"}
  BY DEF Typed, CallRecords
<1>2. CASE backend = "memory"
  <2>1. Of(t) = Memory!Table[m] /\ Promised(t) = Contract!Table[m]
    BY <1>2 DEF Of, Row, Promised
  <2>2. RowOfMemory(m, Of(t)) /\ Honours(Of(t), Promised(t))
    BY <1>1, <2>1, MemoryRows DEF MemoryRow
  <2> QED
    BY <1>2, <2>2 DEF RowOfMemory, Keeps
<1>3. CASE backend = "mongo"
  <2>1. Of(t) = Mongo!Table[m] /\ Promised(t) = Contract!Table[m]
    BY <1>3 DEF Of, Row, Promised
  <2>2. RowOfMongo(Of(t)) /\ Honours(Of(t), Promised(t))
    BY <1>1, <2>1, MongoRows DEF MongoRow
  <2>3. /\ List(Of(t).writes) /\ Of(t).late = 0
        /\ Of(t).guard \in {"transaction", "compare", "none"}
    BY <2>2 DEF RowOfMongo
  <2>4. Of(t).guard # "transaction" =>
          Keeps(Of(t).writes, {"realtime_events", "destroyed"} \cup Variants) /\ Keeps(Of(t).writes, {"evidence", "handoffs"})
    BY <2>2 DEF RowOfMongo, Keeps
  <2>6. Of(t).guard \notin {"serial", "restore"} /\ ~(Of(t).late > 0) /\ Of(t).late \in Nat
    BY <2>3
  <2>7. Of(t).guard \in {"none", "compare"} => Of(t).guard # "transaction"
    OBVIOUS
  <2>5. (Of(t).guard = "compare" => Len(Of(t).writes) = 1) /\ ("key" \in Of(t).checks => Of(t).guard = "transaction")
    BY <2>2 DEF RowOfMongo
  <2> QED
    BY <1>3, <2>2, <2>3, <2>4, <2>5, <2>6, <2>7
<1> QED
  BY <1>1, <1>2, <1>3

\* Who locks is in memory, who has a transaction in MongoDB.
LEMMA Guarded ==
  ASSUME Typed, NEW t \in Calls
  PROVE  /\ Locks(t) => backend = "memory"
         /\ Transaction(t) => backend = "mongo"
         /\ Protected(t) => Locks(t) \/ Transaction(t) \/ Of(t).guard = "compare"
         /\ Copies(t) => Locks(t) \/ Transaction(t)
         /\ ~(Locks(t) /\ Transaction(t))
BY OfCall DEF Locks, Transaction, Protected, Copies, Typed

LEMMA NameOf ==
  ASSUME Typed, NEW t \in Calls, NEW i \in Nat
  PROVE  Of(t).writes[i] \in Names /\ RecordOf(Of(t).writes[i]) \in Names
<1> DEFINE d == Of(t).writes[i]
<1>1. call[t].method \in Methods
  BY DEF Typed, CallRecords
<1>2. d \in Names
  BY <1>1 DEF Of, Row, Names
<1>3. RecordOf(d) \in {d, "claims", "evidence", "handoffs"}
  BY DEF RecordOf
<1>4. {"claims", "evidence", "handoffs"} \subseteq Names
  BY DEF Names
<1> HIDE DEF d
<1>5. RecordOf(d) \in Names
  BY <1>2, <1>3, <1>4
<1> QED
  BY <1>2, <1>5 DEF d

\* Only transactions write variants.
LEMMA Plain ==
  ASSUME Typed, NEW t \in Calls, ~Transaction(t), NEW i \in DOMAIN Of(t).writes
  PROVE  RecordOf(Of(t).writes[i]) = Of(t).writes[i]
BY OfCall DEF Typed, Transaction, Keeps, Variants, RecordOf

LEMMA WritesAre ==
  ASSUME Typed, NEW t \in Calls
  PROVE  /\ \A i \in 1 .. Len(Of(t).writes) : RecordOf(Of(t).writes[i]) \in WritesOf(t)
         /\ \A d \in WritesOf(t) : d \in Names /\ \E i \in 1 .. Len(Of(t).writes) : RecordOf(Of(t).writes[i]) = d
         /\ \A d : Has(Of(t).writes, d) <=> d \in WritesOf(t)
<1>1. DOMAIN Of(t).writes = 1 .. Len(Of(t).writes) /\ Len(Of(t).writes) \in Nat
  BY OfCall DEF List
<1> QED
  BY <1>1, NameOf DEF WritesOf, Has

-----------------------------------------------------------------------------
(* Types.                                                                   *)

LEMMA TypedInit == RepositoryInit => Typed
<1> SUFFICES ASSUME RepositoryInit PROVE Typed
  OBVIOUS
<1>1. IdleCall \in CallRecords
  BY DEF IdleCall, CallRecords, NoCopy, Methods, Contract!Table, Memory!Destroyable
<1>2. <<Earlier, "retention_index">> \in Pairs
  BY DEF Pairs, Names
<1> QED
  BY <1>1, <1>2 DEF RepositoryInit, Typed

LEMMA TypedStep == Typed /\ [RepositoryNext]_repositoryVars => Typed'
<1> SUFFICES ASSUME Typed, [RepositoryNext]_repositoryVars PROVE Typed'
  OBVIOUS
<1> DEFINE Copy == [store : SUBSET Pairs, sequence : Nat]
<1>0. /\ NoCopy \in Copy /\ IdleCall \in CallRecords
      /\ \A t \in Calls : call[t] \in CallRecords
  BY DEF IdleCall, CallRecords, NoCopy, Methods, Contract!Table, Memory!Destroyable, Typed
<1>1. CASE UNCHANGED repositoryVars
  BY <1>1 DEF repositoryVars, Typed
<1>2. ASSUME NEW t \in Calls, NEW m \in Methods, Call(t, m) PROVE Typed'
  <2>1. In(Row(m).expects, store) \in SUBSET Pairs
    BY DEF In, Typed
  <2>2. [IdleCall EXCEPT !.pc = "called", !.method = m, !.seen = In(Row(m).expects, store)] \in CallRecords
    BY <1>0, <2>1 DEF CallRecords
  <2> QED
    BY <1>2, <2>2 DEF Call, Typed
<1>3. ASSUME NEW t \in Calls, NEW d \in Memory!Destroyable, Pass(t, d) PROVE Typed'
  <2> DEFINE n == (IF Transaction(t) THEN call[t].copy.sequence ELSE sequence) + 1
  <2>1. n \in Nat
    BY <1>0 DEF Typed, CallRecords
  <2>2. ASSUME NEW k \in Nat PROVE [call[t] EXCEPT !.pc = "writing", !.target = d, !.number = k] \in CallRecords
    BY <1>0 DEF CallRecords
  <2>3. call' = [call EXCEPT ![t] = [call[t] EXCEPT !.pc = "writing", !.target = d, !.number = n]]
    BY <1>3 DEF Pass
  <2>4. [call[t] EXCEPT !.pc = "writing", !.target = d, !.number = n] \in CallRecords
    BY <2>1, <2>2
  <2> HIDE DEF n
  <2> QED
    BY <1>3, <2>3, <2>4 DEF Pass, Typed
<1>4. ASSUME NEW t \in Calls, TestAccessFirst(t) PROVE Typed'
  BY <1>4 DEF TestAccessFirst, Typed, CallRecords
<1>5. ASSUME NEW t \in Calls, Enter(t) PROVE Typed'
  <2> DEFINE x == IF Copies(t) THEN [store |-> store, sequence |-> sequence] ELSE NoCopy
  <2>1. x \in Copy
    BY <1>0 DEF Typed
  <2>2. ASSUME NEW y \in Copy PROVE [call[t] EXCEPT !.pc = "entered", !.copy = y] \in CallRecords
    BY <1>0 DEF CallRecords
  <2>3. call' = [call EXCEPT ![t] = [call[t] EXCEPT !.pc = "entered", !.copy = x]]
    BY <1>5 DEF Enter
  <2>4. [call[t] EXCEPT !.pc = "entered", !.copy = x] \in CallRecords
    BY <2>1, <2>2
  <2> HIDE DEF x
  <2> QED
    BY <1>5, <2>3, <2>4 DEF Enter, Typed
<1>100. ASSUME NEW t \in Calls, NEW pc \in {"left", "returned"} PROVE [call[t] EXCEPT !.pc = pc, !.copy = NoCopy] \in CallRecords
  BY <1>0 DEF CallRecords
<1>6. ASSUME NEW t \in Calls, ReturnUnchanged(t) PROVE Typed'
  <2>1. call' = [call EXCEPT ![t] = [call[t] EXCEPT !.pc = "left", !.copy = NoCopy]]
    BY <1>6 DEF ReturnUnchanged
  <2> QED
    BY <1>6, <1>100, <2>1 DEF ReturnUnchanged, LockAfter, Typed
<1>7. ASSUME NEW t \in Calls, Raise(t) PROVE Typed'
  <2>1. PutBack(t) \in SUBSET Pairs /\ PutBackSequence(t) \in Nat
    BY DEF PutBack, PutBackSequence, In, Typed, CallRecords
  <2>2. call' = [call EXCEPT ![t] = [call[t] EXCEPT !.pc = "left", !.copy = NoCopy]]
    BY <1>7 DEF Raise
  <2> QED
    <3>1. lock' \in Calls \cup {Earlier} /\ UNCHANGED <<backend, destroyed, retry>> /\ store' = PutBack(t) /\ sequence' = PutBackSequence(t)
      BY <1>7 DEF Raise, LockAfter, Typed
    <3>2. call' \in [Calls -> CallRecords]
      BY <1>100, <2>2 DEF Typed
    <3> QED
      BY <2>1, <3>1, <3>2 DEF Typed
<1>101. ASSUME NEW t \in Calls PROVE [call[t] EXCEPT !.next = @ + 1] \in CallRecords
  BY <1>0 DEF CallRecords
<1>8. ASSUME NEW t \in Calls, Assign(t) PROVE Typed'
  <2>1. <<t, Of(t).writes[call[t].next]>> \in Pairs
    BY NameOf DEF Pairs, Typed, CallRecords
  <2>2. store' \in SUBSET Pairs
    BY <1>8, <2>1 DEF Assign, In, Typed
  <2>3. sequence' \in Nat /\ destroyed' \in SUBSET Memory!Destroyable
    BY <1>8 DEF Assign, Typed, CallRecords
  <2>4. call' = [call EXCEPT ![t] = [call[t] EXCEPT !.next = @ + 1]]
    BY <1>8 DEF Assign
  <2> QED
    BY <1>8, <1>101, <2>2, <2>3, <2>4 DEF Assign, Typed
<1>9. ASSUME NEW t \in Calls, Return(t) PROVE Typed'
  <2>1. call' = [call EXCEPT ![t] = [call[t] EXCEPT !.pc = "returned", !.copy = NoCopy]]
    BY <1>9 DEF Return
  <2> QED
    BY <1>9, <1>100, <2>1 DEF Return, LockAfter, Typed
<1>10. ASSUME NEW t \in Calls, WriteInTransaction(t) PROVE Typed'
  <2>1. call' = [call EXCEPT ![t] = [call[t] EXCEPT !.next = @ + 1]]
    BY <1>10 DEF WriteInTransaction
  <2> QED
    BY <1>10, <1>101, <2>1 DEF WriteInTransaction, Typed
<1>11. ASSUME NEW t \in Calls, RunAgain(t) PROVE Typed'
  <2>1. [call[t] EXCEPT !.pc = "called", !.next = 1, !.number = 0, !.target = IdleCall.target, !.copy = NoCopy] \in CallRecords
    <3>1. IdleCall.target \in Memory!Destroyable
      BY <1>0 DEF CallRecords
    <3>2. call[t] \in CallRecords /\ 1 \in Nat \ {0} /\ 0 \in Nat
      BY <1>0
    <3> QED
      BY <1>0, <3>1, <3>2 DEF CallRecords
  <2>2. call' = [call EXCEPT ![t] = [call[t] EXCEPT !.pc = "called", !.next = 1, !.number = 0,
                                                    !.target = IdleCall.target, !.copy = NoCopy]]
    BY <1>11 DEF RunAgain
  <2> QED
    BY <1>11, <2>1, <2>2 DEF RunAgain, Typed
<1>12. ASSUME NEW t \in Calls, Commit(t) PROVE Typed'
  <2>1. \A i \in 1 .. Len(Of(t).writes) : <<t, RecordOf(Of(t).writes[i])>> \in Pairs
    BY NameOf, OfCall DEF Pairs, List
  <2>2. store' \in SUBSET Pairs
    BY <1>12, <2>1 DEF Commit, After, In, Typed
  <2>3. sequence' \in Nat /\ destroyed' \in SUBSET Memory!Destroyable
    BY <1>12 DEF Commit, Typed, CallRecords
  <2>4. call' = [call EXCEPT ![t] = [call[t] EXCEPT !.pc = "returned", !.copy = NoCopy]]
    BY <1>12 DEF Commit
  <2> QED
    BY <1>12, <1>100, <2>2, <2>3, <2>4 DEF Commit, Typed
<1> QED
  BY <1>1, <1>2, <1>3, <1>4, <1>5, <1>6, <1>7, <1>8, <1>9, <1>10, <1>11, <1>12 DEF RepositoryNext

-----------------------------------------------------------------------------
(* How the calls move.                                                      *)

\* Nothing of the other calls changes.
Frame(t) ==
    /\ backend' = backend /\ retry' = retry
    /\ \A u \in Calls \ {t} : call'[u] = call[u]
SameCall(t) == call'[t].method = call[t].method /\ call'[t].seen = call[t].seen
Moved(t, pc, next, copy) == call'[t].pc = pc /\ call'[t].next = next /\ call'[t].copy = copy
SameNumber(t) == call'[t].number = call[t].number

LEMMA MovesOf ==
  ASSUME Typed, NEW t \in Calls
  PROVE  /\ \A m \in Methods : Call(t, m) =>
              /\ Frame(t) /\ Moved(t, "called", 1, NoCopy)
              /\ call'[t].method = m /\ call'[t].seen = In(Row(m).expects, store)
         /\ \A d \in Memory!Destroyable : Pass(t, d) =>
              /\ Frame(t) /\ SameCall(t) /\ Moved(t, "writing", call[t].next, call[t].copy)
              /\ call'[t].number = (IF Transaction(t) THEN call[t].copy.sequence ELSE sequence) + 1
         /\ TestAccessFirst(t) =>
              /\ Frame(t) /\ SameCall(t) /\ SameNumber(t)
              /\ Moved(t, IF AccessOpen(t) THEN "admitted" ELSE "left", call[t].next, call[t].copy)
         /\ Enter(t) =>
              /\ Frame(t) /\ SameCall(t) /\ SameNumber(t)
              /\ Moved(t, "entered", call[t].next,
                       IF Copies(t) THEN [store |-> store, sequence |-> sequence] ELSE NoCopy)
         /\ ReturnUnchanged(t) => Frame(t) /\ SameCall(t) /\ SameNumber(t) /\ Moved(t, "left", call[t].next, NoCopy)
         /\ Raise(t) => Frame(t) /\ SameCall(t) /\ SameNumber(t) /\ Moved(t, "left", call[t].next, NoCopy)
         /\ Assign(t) => Frame(t) /\ SameCall(t) /\ SameNumber(t) /\ Moved(t, "writing", call[t].next + 1, call[t].copy)
         /\ Return(t) => Frame(t) /\ SameCall(t) /\ SameNumber(t) /\ Moved(t, "returned", call[t].next, NoCopy)
         /\ WriteInTransaction(t) =>
              Frame(t) /\ SameCall(t) /\ SameNumber(t) /\ Moved(t, "writing", call[t].next + 1, call[t].copy)
         /\ RunAgain(t) => Frame(t) /\ SameCall(t) /\ Moved(t, "called", 1, NoCopy)
         /\ Commit(t) => Frame(t) /\ SameCall(t) /\ SameNumber(t) /\ Moved(t, "returned", call[t].next, NoCopy)
<1> USE DEF Frame, SameCall, Moved, SameNumber, CallRecords, Typed
<1>1. \A m \in Methods : Call(t, m) =>
         /\ Frame(t) /\ Moved(t, "called", 1, NoCopy)
         /\ call'[t].method = m /\ call'[t].seen = In(Row(m).expects, store)
  BY DEF Call, IdleCall
<1>2. \A d \in Memory!Destroyable : Pass(t, d) =>
         /\ Frame(t) /\ SameCall(t) /\ Moved(t, "writing", call[t].next, call[t].copy)
         /\ call'[t].number = (IF Transaction(t) THEN call[t].copy.sequence ELSE sequence) + 1
  BY DEF Pass
<1>3. TestAccessFirst(t) =>
         /\ Frame(t) /\ SameCall(t) /\ SameNumber(t)
         /\ Moved(t, IF AccessOpen(t) THEN "admitted" ELSE "left", call[t].next, call[t].copy)
  BY DEF TestAccessFirst
<1>4. Enter(t) =>
         /\ Frame(t) /\ SameCall(t) /\ SameNumber(t)
         /\ Moved(t, "entered", call[t].next, IF Copies(t) THEN [store |-> store, sequence |-> sequence] ELSE NoCopy)
  BY DEF Enter
<1>5. ReturnUnchanged(t) => Frame(t) /\ SameCall(t) /\ SameNumber(t) /\ Moved(t, "left", call[t].next, NoCopy)
  BY DEF ReturnUnchanged
<1>6. Raise(t) => Frame(t) /\ SameCall(t) /\ SameNumber(t) /\ Moved(t, "left", call[t].next, NoCopy)
  BY DEF Raise
<1>7. Assign(t) => Frame(t) /\ SameCall(t) /\ SameNumber(t) /\ Moved(t, "writing", call[t].next + 1, call[t].copy)
  BY DEF Assign
<1>8. Return(t) => Frame(t) /\ SameCall(t) /\ SameNumber(t) /\ Moved(t, "returned", call[t].next, NoCopy)
  BY DEF Return
<1>9. WriteInTransaction(t) =>
         Frame(t) /\ SameCall(t) /\ SameNumber(t) /\ Moved(t, "writing", call[t].next + 1, call[t].copy)
  BY DEF WriteInTransaction
<1>10. RunAgain(t) => Frame(t) /\ SameCall(t) /\ Moved(t, "called", 1, NoCopy)
  BY DEF RunAgain
<1>11. Commit(t) => Frame(t) /\ SameCall(t) /\ SameNumber(t) /\ Moved(t, "returned", call[t].next, NoCopy)
  BY DEF Commit
<1> HIDE DEF Frame, SameCall, Moved, SameNumber
<1> QED
  BY <1>1, <1>2, <1>3, <1>4, <1>5, <1>6, <1>7, <1>8, <1>9, <1>10, <1>11

\* The row of a call is what its method says.
LEMMA RowStays ==
  ASSUME NEW u \in Calls, backend' = backend, call'[u].method = call[u].method
  PROVE  /\ Of(u)' = Of(u) /\ Promised(u)' = Promised(u) /\ WritesOf(u)' = WritesOf(u)
         /\ Locks(u)' = Locks(u) /\ Copies(u)' = Copies(u)
         /\ Transaction(u)' = Transaction(u) /\ Protected(u)' = Protected(u)
BY DEF Of, Row, Promised, WritesOf, Locks, Copies, Transaction, Protected

LEMMA OthersStay ==
  ASSUME NEW t \in Calls, Frame(t), NEW u \in Calls \ {t}
  PROVE  /\ Of(u)' = Of(u) /\ Promised(u)' = Promised(u) /\ WritesOf(u)' = WritesOf(u)
         /\ Locks(u)' = Locks(u) /\ Copies(u)' = Copies(u)
         /\ Transaction(u)' = Transaction(u) /\ Protected(u)' = Protected(u)
         /\ Inside(u)' = Inside(u) /\ Effective(u)' = Effective(u)
<1>1. backend' = backend /\ call'[u] = call[u]
  BY DEF Frame
<1> QED
  BY <1>1, RowStays DEF Inside, Effective

\* What is in effect of the others stays explained.
LEMMA ExplainedStays ==
  ASSUME NEW t \in Calls, Frame(t), NEW p \in Pairs, p[1] # t, Explained(p)
  PROVE  Explained(p)'
<1>1. CASE p[1] = Earlier
  BY <1>1 DEF Explained
<1>2. CASE p[1] # Earlier
  <2>1. p[1] \in Calls \ {t}
    BY <1>2 DEF Pairs
  <2>2. call'[p[1]] = call[p[1]] /\ Of(p[1])' = Of(p[1]) /\ Effective(p[1])' = Effective(p[1])
    BY <2>1, OthersStay DEF Frame
  <2> QED
    BY <1>2, <2>2 DEF Explained
<1> QED
  BY <1>1, <1>2

\* A call that has not begun to write has nothing in effect.
LEMMA NothingYet ==
  ASSUME Typed, Effects, NEW t \in Calls, call[t].next = 1 \/ ~Effective(t)
  PROVE  /\ \A p \in store : p[1] # t
         /\ \A u \in Calls : \A p \in call[u].copy.store : p[1] # t
BY CallsAssumption DEF Effects, Placed, Explained

LEMMA PlacedStays ==
  ASSUME Typed, NEW t \in Calls, Frame(t), NEW u \in Calls \ {t}, Placed(u),
         Locks(u) /\ Inside(u) => lock' = u,
         \A p \in call[u].copy.store : p[1] = t => Explained(p)'
  PROVE  Placed(u)'
<1>1. call'[u] = call[u]
  BY DEF Frame
<1>2. call[u].copy.store \subseteq Pairs
  BY DEF Typed, CallRecords
<1>3. \A p \in call[u].copy.store : Explained(p)'
  BY <1>2, ExplainedStays DEF Placed
<1> QED
  BY <1>1, <1>3, OthersStay DEF Placed

-----------------------------------------------------------------------------
(* What is in effect.                                                       *)

LEMMA EffectsInit == RepositoryInit => Effects
<1> SUFFICES ASSUME RepositoryInit PROVE Effects
  OBVIOUS
<1>1. Typed
  BY TypedInit
<1>2. ASSUME NEW t \in Calls PROVE Placed(t)
  <2>1. Len(Of(t).writes) \in Nat
    BY <1>1, OfCall DEF List
  <2>2. /\ call[t].pc = "idle" /\ call[t].next = 1 /\ call[t].seen = {} /\ call[t].copy = NoCopy
        /\ NoCopy.store = {}
    BY DEF RepositoryInit, IdleCall, NoCopy
  <2> QED
    BY <2>1, <2>2 DEF Placed, Inside
<1>3. \A p \in store : Explained(p)
  BY DEF RepositoryInit, Explained
<1> QED
  BY <1>2, <1>3 DEF Effects

\* One lock, one holder.
LEMMA OneHolder ==
  ASSUME Effects, NEW t \in Calls, NEW u \in Calls, Locks(t), Inside(t), Locks(u), Inside(u)
  PROVE  t = u
BY DEF Effects, Placed

\* Steps by which nothing of t is in effect, neither before nor after.
LEMMA QuietStep ==
  ASSUME Typed, Typed', Effects, NEW t \in Calls, Frame(t), store' = store, Placed(t)',
         call[t].next = 1 \/ ~Effective(t),
         \A u \in Calls \ {t} : Locks(u) /\ Inside(u) => lock' = u
  PROVE  Effects'
<1>1. \A p \in store' : Explained(p)'
  BY NothingYet, ExplainedStays DEF Effects, Typed
<1>2. ASSUME NEW u \in Calls \ {t} PROVE Placed(u)'
  BY NothingYet, PlacedStays DEF Effects
<1> QED
  BY <1>1, <1>2 DEF Effects

\* Steps that leave what t has in effect as it is.
LEMMA SameStep ==
  ASSUME Typed, Typed', Effects, NEW t \in Calls, Frame(t), store' \subseteq store, Placed(t)',
         \A p \in Pairs : p[1] = t /\ Explained(p) => Explained(p)',
         \A u \in Calls \ {t} : Locks(u) /\ Inside(u) => lock' = u
  PROVE  Effects'
<1>1. \A p \in Pairs : Explained(p) => Explained(p)'
  BY ExplainedStays
<1>2. \A u \in Calls : call[u].copy.store \subseteq Pairs
  BY DEF Typed, CallRecords
<1>3. ASSUME NEW u \in Calls \ {t} PROVE Placed(u)'
  BY <1>1, <1>2, PlacedStays DEF Effects, Placed
<1> QED
  BY <1>1, <1>3 DEF Effects, Typed

LEMMA CallEffects == ASSUME Typed, Typed', Effects, NEW t \in Calls, NEW m \in Methods, Call(t, m) PROVE Effects'
<1>1. Frame(t) /\ Moved(t, "called", 1, NoCopy) /\ call'[t].seen = In(Row(m).expects, store)
  BY MovesOf
<1>2. call[t].pc = "idle" /\ store' = store /\ lock' = lock /\ call[t].next = 1
  BY DEF Call, Effects, Placed
<1>3. \A p \in store : p[1] # t
  BY <1>2, NothingYet
<1>4. Len(Of(t).writes)' \in Nat
  BY MemoryRows, MongoRows DEF MemoryRow, MongoRow, RowOfMemory, RowOfMongo, List, Of, Row, Typed, CallRecords
<1>5. Placed(t)'
  BY <1>1, <1>3, <1>4 DEF Placed, Moved, NoCopy, Inside, In
<1> QED
  BY <1>1, <1>2, <1>5, QuietStep DEF Effects, Placed

LEMMA PassEffects == ASSUME Typed, Typed', Effects, NEW t \in Calls, NEW d \in Memory!Destroyable, Pass(t, d) PROVE Effects'
<1>1. Frame(t) /\ SameCall(t) /\ Moved(t, "writing", call[t].next, call[t].copy)
  BY MovesOf
<1>2. call[t].pc \in {"called", "entered"} /\ store' = store /\ lock' = lock /\ call[t].next = 1
  BY DEF Pass, Entered, Effects, Placed
<1>3. Locks(t) \/ Transaction(t) => call[t].pc = "entered"
  BY DEF Pass, Entered
<1>4. Copies(t) => Locks(t) \/ Transaction(t)
  BY Guarded
<1>5. Placed(t) /\ \A p \in call[t].copy.store : p \in Pairs /\ p[1] # t
  BY DEF Effects, Placed, Typed, CallRecords
<1>6. \A p \in call[t].copy.store : Explained(p)'
  BY <1>1, <1>5, ExplainedStays DEF Placed
<1>7. Placed(t)'
  BY <1>1, <1>2, <1>3, <1>4, <1>5, <1>6, RowStays DEF Placed, Moved, SameCall, Inside, Frame
<1> QED
  BY <1>1, <1>2, <1>7, QuietStep DEF Effects, Placed

LEMMA TestEffects == ASSUME Typed, Typed', Effects, NEW t \in Calls, TestAccessFirst(t) PROVE Effects'
<1>1. /\ Frame(t) /\ SameCall(t)
      /\ Moved(t, IF AccessOpen(t) THEN "admitted" ELSE "left", call[t].next, call[t].copy)
  BY MovesOf
<1>2. call[t].pc = "called" /\ store' = store /\ lock' = lock /\ call[t].next = 1
  BY DEF TestAccessFirst, Effects, Placed
<1>3. call'[t].copy = NoCopy
  BY <1>1, <1>2 DEF Effects, Placed, Inside, Moved
<1>4. Placed(t)'
  BY <1>1, <1>2, <1>3, RowStays DEF Effects, Placed, Moved, SameCall, Inside, Frame, NoCopy
<1> QED
  BY <1>1, <1>2, <1>4, QuietStep DEF Effects, Placed

LEMMA EnterEffects == ASSUME Typed, Typed', Effects, NEW t \in Calls, Enter(t) PROVE Effects'
<1>1. /\ Frame(t) /\ SameCall(t)
      /\ Moved(t, "entered", call[t].next, IF Copies(t) THEN [store |-> store, sequence |-> sequence] ELSE NoCopy)
  BY MovesOf
<1>2. /\ call[t].pc \in {"called", "admitted"} /\ store' = store /\ call[t].next = 1
      /\ Locks(t) \/ Transaction(t)
      /\ Locks(t) => lock = Earlier /\ lock' = t
      /\ ~Locks(t) => lock' = lock
  BY DEF Enter, Effects, Placed
<1>3. \A p \in store : p \in Pairs /\ p[1] # t /\ Explained(p)
  BY <1>2, NothingYet DEF Effects, Typed
<1>4. \A p \in store : Explained(p)'
  BY <1>1, <1>3, ExplainedStays
<1>5. call'[t].copy = NoCopy \/ (Copies(t) /\ call'[t].copy.store = store)
  BY <1>1 DEF Moved
<1>6. Placed(t)'
  BY <1>1, <1>2, <1>3, <1>4, <1>5, RowStays DEF Effects, Placed, Moved, SameCall, Inside, Frame, NoCopy
<1>7. \A u \in Calls \ {t} : Locks(u) /\ Inside(u) => lock' = u
  BY <1>2, CallsAssumption DEF Effects, Placed
<1> QED
  BY <1>1, <1>2, <1>6, <1>7, QuietStep

\* A call that is in and leaves gives up its lock, and no other's.
LEMMA LockGiven ==
  ASSUME Effects, NEW t \in Calls, Locks(t) => Inside(t), lock' = LockAfter(t), NEW u \in Calls \ {t}, Locks(u), Inside(u)
  PROVE  lock' = u
BY OneHolder DEF Effects, Placed, LockAfter

LEMMA UnchangedEffects == ASSUME Typed, Typed', Effects, NEW t \in Calls, ReturnUnchanged(t) PROVE Effects'
<1>1. Frame(t) /\ SameCall(t) /\ Moved(t, "left", call[t].next, NoCopy)
  BY MovesOf
<1>2. /\ call[t].pc \in {"called", "entered"} /\ store' = store /\ call[t].next = 1 /\ lock' = LockAfter(t)
      /\ Locks(t) => Inside(t)
  BY DEF ReturnUnchanged, Entered, Effects, Placed, Inside
<1>3. Placed(t)'
  BY <1>1, <1>2, RowStays DEF Effects, Placed, Moved, SameCall, Inside, Frame, NoCopy
<1> QED
  BY <1>1, <1>2, <1>3, LockGiven, QuietStep

LEMMA AgainEffects == ASSUME Typed, Typed', Effects, NEW t \in Calls, RunAgain(t) PROVE Effects'
<1>1. Frame(t) /\ SameCall(t) /\ Moved(t, "called", 1, NoCopy)
  BY MovesOf
<1>2. call[t].pc = "writing" /\ Transaction(t) /\ store' = store /\ lock' = lock
  BY DEF RunAgain
<1>3. Len(Of(t).writes) \in Nat
  BY OfCall DEF List
<1>4. Placed(t)'
  BY <1>1, <1>2, <1>3, RowStays DEF Effects, Placed, Moved, SameCall, Inside, Frame, NoCopy
<1> QED
  BY <1>1, <1>2, <1>4, QuietStep DEF Effects, Placed, Effective

LEMMA WriteEffects == ASSUME Typed, Typed', Effects, NEW t \in Calls, WriteInTransaction(t) PROVE Effects'
<1>1. Frame(t) /\ SameCall(t) /\ Moved(t, "writing", call[t].next + 1, call[t].copy)
  BY MovesOf
<1>2. /\ call[t].pc = "writing" /\ Transaction(t) /\ store' = store /\ lock' = lock
      /\ call[t].next <= Len(Of(t).writes) /\ call[t].next \in Nat
  BY DEF WriteInTransaction, Typed, CallRecords
<1>3. Len(Of(t).writes) \in Nat
  BY OfCall DEF List
<1>4. Placed(t) /\ \A p \in call[t].copy.store : p \in Pairs /\ p[1] # t
  BY DEF Effects, Placed, Typed, CallRecords
<1>5. \A p \in call[t].copy.store : Explained(p)'
  BY <1>1, <1>4, ExplainedStays DEF Placed
<1>6. Placed(t)'
  BY <1>1, <1>2, <1>3, <1>4, <1>5, RowStays DEF Placed, Moved, SameCall, Inside, Frame
<1> QED
  BY <1>1, <1>2, <1>6, QuietStep DEF Effects, Placed, Effective

LEMMA ReturnEffects == ASSUME Typed, Typed', Effects, NEW t \in Calls, Return(t) PROVE Effects'
<1>1. Frame(t) /\ SameCall(t) /\ Moved(t, "returned", call[t].next, NoCopy)
  BY MovesOf
<1>2. /\ call[t].pc = "writing" /\ ~Transaction(t) /\ store' = store /\ lock' = LockAfter(t)
      /\ call[t].next > Len(Of(t).writes) /\ call[t].next \in Nat
  BY DEF Return, Typed, CallRecords
<1>3. Len(Of(t).writes) \in Nat
  BY OfCall DEF List
<1>4. Placed(t)'
  BY <1>1, <1>2, <1>3, RowStays DEF Effects, Placed, Moved, SameCall, Inside, Frame, NoCopy
<1>5. ASSUME NEW p \in Pairs, p[1] = t, Explained(p) PROVE Explained(p)'
  BY <1>1, <1>2, <1>5, RowStays DEF Explained, Effective, Moved, SameCall, Frame
<1> QED
  BY <1>1, <1>2, <1>4, <1>5, LockGiven, SameStep DEF Inside

\* Steps by which t brings something into effect.
LEMMA Widened ==
  ASSUME Typed, Typed', Effects, NEW t \in Calls, Frame(t), Placed(t)', lock' = lock,
         \A p \in store' : p \in store \/ (p[1] = t /\ Explained(p)'),
         \A p \in Pairs : p[1] = t /\ Explained(p) => Explained(p)'
  PROVE  Effects'
<1>1. \A p \in Pairs : Explained(p) => Explained(p)'
  BY ExplainedStays
<1>2. \A u \in Calls : call[u].copy.store \subseteq Pairs
  BY DEF Typed, CallRecords
<1>3. ASSUME NEW u \in Calls \ {t} PROVE Placed(u)'
  BY <1>1, <1>2, PlacedStays DEF Effects, Placed
<1> QED
  BY <1>1, <1>3 DEF Effects, Typed

LEMMA AssignEffects == ASSUME Typed, Typed', Effects, NEW t \in Calls, Assign(t) PROVE Effects'
<1>1. Frame(t) /\ SameCall(t) /\ Moved(t, "writing", call[t].next + 1, call[t].copy)
  BY MovesOf
<1>2. /\ call[t].pc = "writing" /\ ~Transaction(t) /\ lock' = lock
      /\ call[t].next <= Len(Of(t).writes) /\ call[t].next \in Nat \ {0}
  BY DEF Assign, Typed, CallRecords
<1>3. Len(Of(t).writes) \in Nat /\ DOMAIN Of(t).writes = 1 .. Len(Of(t).writes)
  BY OfCall DEF List
<1>4. Of(t)' = Of(t) /\ Transaction(t)' = Transaction(t) /\ Locks(t)' = Locks(t) /\ Copies(t)' = Copies(t)
  BY <1>1, RowStays DEF Frame, SameCall
<1>5. Placed(t) /\ \A p \in call[t].copy.store : p \in Pairs /\ p[1] # t
  BY DEF Effects, Placed, Typed, CallRecords
<1>6. \A p \in call[t].copy.store : Explained(p)'
  BY <1>1, <1>5, ExplainedStays DEF Placed
<1>7. Placed(t)'
  BY <1>1, <1>2, <1>3, <1>4, <1>5, <1>6 DEF Placed, Moved, SameCall, Inside
<1>8. ASSUME NEW p \in Pairs, p[1] = t, Explained(p) PROVE Explained(p)'
  BY <1>1, <1>2, <1>4, <1>8 DEF Explained, Effective, Moved
<1> DEFINE d == Of(t).writes[call[t].next]
<1>9. RecordOf(d) = d
  BY <1>2, <1>3, Plain
<1>10. ASSUME NEW p \in Pairs, p[1] = t, p[2] = d PROVE Explained(p)'
  <2>1. Effective(t)' /\ t # Earlier
    BY <1>1, <1>4, <1>2, CallsAssumption DEF Effective, Moved
  <2>2. call[t].next \in 1 .. call'[t].next - 1
    BY <1>1, <1>2 DEF Moved
  <2> QED
    BY <2>1, <2>2, <1>4, <1>9, <1>10 DEF Explained
<1>11. \A p \in store' : p \in Pairs /\ (p \in store \/ (p[1] = t /\ p[2] = d))
  BY DEF Assign, Typed
<1> QED
  BY <1>1, <1>2, <1>7, <1>8, <1>10, <1>11, Widened

LEMMA CommitEffects == ASSUME Typed, Typed', Effects, NEW t \in Calls, Commit(t) PROVE Effects'
<1>1. Frame(t) /\ SameCall(t) /\ Moved(t, "returned", call[t].next, NoCopy)
  BY MovesOf
<1>2. /\ call[t].pc = "writing" /\ Transaction(t) /\ lock' = lock
      /\ call[t].next > Len(Of(t).writes) /\ call[t].next \in Nat
  BY DEF Commit, Typed, CallRecords
<1>3. Len(Of(t).writes) \in Nat
  BY OfCall DEF List
<1>4. Of(t)' = Of(t) /\ Transaction(t)' = Transaction(t) /\ Locks(t)' = Locks(t) /\ Copies(t)' = Copies(t)
  BY <1>1, RowStays DEF Frame, SameCall
<1>5. Placed(t)'
  BY <1>1, <1>2, <1>3, <1>4 DEF Effects, Placed, Moved, SameCall, Inside, NoCopy
<1>6. Effective(t)' /\ t # Earlier /\ ~Effective(t)
  BY <1>1, <1>2, CallsAssumption DEF Effective, Moved
<1>7. ASSUME NEW p \in Pairs, p[1] = t, Explained(p) PROVE FALSE
  BY <1>6, <1>7 DEF Explained
<1>8. ASSUME NEW p \in Pairs, p[1] = t, NEW i \in 1 .. Len(Of(t).writes), p[2] = RecordOf(Of(t).writes[i])
      PROVE  Explained(p)'
  BY <1>1, <1>2, <1>3, <1>4, <1>6, <1>8 DEF Explained, Moved
<1>9. \A p \in store' : /\ p \in Pairs
                        /\ \/ p \in store
                           \/ p[1] = t /\ \E i \in 1 .. Len(Of(t).writes) : p[2] = RecordOf(Of(t).writes[i])
  BY DEF Commit, After, In, Typed
<1> QED
  BY <1>1, <1>2, <1>5, <1>7, <1>8, <1>9, Widened

\* What a call that raises has written is put back, or was nothing (or is the
\* message save_message_recovery leaves).
LEMMA PutBackOf ==
  ASSUME Typed, Effects, NEW t \in Calls, Raise(t)
  PROVE  \/ /\ Locks(t) /\ Copies(t) /\ Inside(t)
            /\ \A p \in PutBack(t) : p[1] # t /\ (p \in store \/ p \in call[t].copy.store)
         \/ /\ PutBack(t) = store
            /\ \/ call[t].next = 1 \/ ~Effective(t)
               \/ backend = "memory" /\ call[t].method = "save_message_recovery" /\ call[t].pc = "writing"
<1>1. call[t].next \in Nat \ {0} /\ Len(Of(t).writes) \in Nat /\ DOMAIN Of(t).writes = 1 .. Len(Of(t).writes)
  BY OfCall DEF Typed, CallRecords, List
<1>2. CASE Of(t).guard \in {"serial", "restore"}
  <2>1. Locks(t) /\ Copies(t) /\ Inside(t)
    BY <1>2 DEF Raise, Locks, Copies, Inside, Entered
  <2>2. \A p \in call[t].copy.store : p[1] # t
    BY DEF Effects, Placed
  <2>3. \A p \in store : p[1] = t => p[2] \in WritesOf(t)
    <3> SUFFICES ASSUME NEW p \in store, p[1] = t PROVE p[2] \in WritesOf(t)
      OBVIOUS
    <3>1. \E i \in 1 .. call[t].next - 1 : p[2] = RecordOf(Of(t).writes[i])
      BY CallsAssumption DEF Effects, Explained
    <3>2. call[t].next - 1 <= Len(Of(t).writes)
      BY DEF Effects, Placed
    <3> QED
      BY <1>1, <3>1, <3>2, WritesAre
  <2> QED
    BY <1>2, <2>1, <2>2, <2>3 DEF PutBack, In
<1>3. CASE Of(t).guard \notin {"serial", "restore"}
  <2>1. PutBack(t) = store
    BY <1>3 DEF PutBack
  <2>2. CASE Entered(t)
    BY <2>1, <2>2 DEF Entered, Effects, Placed
  <2>3. CASE call[t].pc = "writing" /\ call[t].next - 1 \in 1 .. Of(t).late
    BY <1>1, <1>3, <2>1, <2>3, OfCall
  <2>4. CASE call[t].pc = "writing" /\ Transaction(t)
    BY <2>1, <2>4 DEF Effective
  <2> QED
    BY <2>1, <2>2, <2>3, <2>4 DEF Raise
<1> QED
  BY <1>2, <1>3

LEMMA RaiseEffects == ASSUME Typed, Typed', Effects, NEW t \in Calls, Raise(t) PROVE Effects'
<1>1. Frame(t) /\ SameCall(t) /\ Moved(t, "left", call[t].next, NoCopy)
  BY MovesOf
<1>2. store' = PutBack(t) /\ lock' = LockAfter(t) /\ call[t].pc \in {"called", "entered", "writing"}
  BY DEF Raise, Entered
<1>3. Locks(t) => Inside(t)
  BY DEF Raise, Entered, Inside
<1>4. Placed(t)'
  BY <1>1, <1>2, RowStays DEF Effects, Placed, Moved, SameCall, Inside, Frame, NoCopy
<1>5. CASE /\ Locks(t) /\ Copies(t) /\ Inside(t)
           /\ \A p \in PutBack(t) : p[1] # t /\ (p \in store \/ p \in call[t].copy.store)
  <2>1. \A p \in store' : Explained(p) /\ p[1] # t
    BY <1>2, <1>5 DEF Effects, Placed
  <2>2. ASSUME NEW u \in Calls \ {t}, NEW p \in call[u].copy.store PROVE FALSE
    <3>1. Copies(u) /\ Inside(u)
      BY <2>2 DEF Effects, Placed, NoCopy
    <3>2. Locks(u)
      BY <1>5, <3>1, Guarded
    <3> QED
      BY <1>5, <3>1, <3>2, OneHolder
  <2>3. ASSUME NEW u \in Calls \ {t} PROVE Placed(u)'
    BY <1>1, <1>2, <1>3, <2>2, PlacedStays, LockGiven DEF Effects
  <2> QED
    BY <1>1, <1>4, <2>1, <2>3, ExplainedStays DEF Effects, Typed
<1>6. CASE PutBack(t) = store /\ (call[t].next = 1 \/ ~Effective(t))
  BY <1>1, <1>2, <1>3, <1>4, <1>6, LockGiven, QuietStep
<1>7. CASE /\ PutBack(t) = store
           /\ backend = "memory" /\ call[t].method = "save_message_recovery" /\ call[t].pc = "writing"
  <2>1. ASSUME NEW p \in Pairs, p[1] = t, Explained(p) PROVE Explained(p)'
    BY <1>1, <1>7, <2>1, RowStays DEF Explained, Effective, Moved, SameCall, Frame
  <2> QED
    BY <1>1, <1>2, <1>3, <1>4, <1>7, <2>1, LockGiven, SameStep
<1> QED
  BY <1>5, <1>6, <1>7, PutBackOf

LEMMA EffectsStep == Typed /\ Typed' /\ Effects /\ [RepositoryNext]_repositoryVars => Effects'
<1> SUFFICES ASSUME Typed, Typed', Effects, [RepositoryNext]_repositoryVars PROVE Effects'
  OBVIOUS
<1>1. CASE UNCHANGED repositoryVars
  BY <1>1 DEF repositoryVars, Effects, Explained, Placed, Effective, Inside, Of, Row, Locks, Copies, Transaction
<1> QED
  BY <1>1, CallEffects, PassEffects, TestEffects, EnterEffects, UnchangedEffects, RaiseEffects, AssignEffects,
     ReturnEffects, WriteEffects, AgainEffects, CommitEffects DEF RepositoryNext

-----------------------------------------------------------------------------
(* What is written stays.                                                   *)

LEMMA StaysInit == RepositoryInit => Stays
BY DEF RepositoryInit, Stays, Lasting, Inside, IdleCall

LEMMA DoneStays ==
  ASSUME NEW t \in Calls, Frame(t), NEW u \in Calls \ {t}
  PROVE  /\ Lasting(u)' = Lasting(u)
         /\ \A d : Done(u, d)' = Done(u, d)
BY OthersStay DEF Frame, Lasting, Done

\* Steps that leave the store as it is.
LEMMA StoreSame ==
  ASSUME Stays, NEW t \in Calls, Frame(t), store' = store, destroyed' = destroyed,
         Lasting(t)' => \A d \in Names : Done(t, d)' => InEffect(t, d),
         (Locks(t) /\ Copies(t) /\ Inside(t))' => CopyCurrent(t)',
         \/ Protected(t)' = Protected(t)
         \/ /\ \A p \in store : p[1] # t
            /\ \A u \in Calls : \A p \in call[u].copy.store : p[1] # t
  PROVE  Stays'
<1>1. \A u \in Calls : \A d \in Names : InEffect(u, d)' = InEffect(u, d)
  BY DEF InEffect
<1>2. ASSUME NEW u \in Calls \ {t}, (Locks(u) /\ Copies(u) /\ Inside(u))' PROVE CopyCurrent(u)'
  <2>1. CopyCurrent(u) /\ call'[u] = call[u]
    BY <1>2, OthersStay DEF Stays, Frame
  <2>2. \A v \in Calls \ {t} : Protected(v)' = Protected(v)
    BY OthersStay
  <2> QED
    BY <2>1, <2>2 DEF CopyCurrent
<1> QED
  BY <1>1, <1>2, DoneStays DEF Stays

LEMMA QuietStays ==
  ASSUME Typed, Effects, Stays, NEW t \in Calls,
         \/ \E m \in Methods : Call(t, m)
         \/ \E d \in Memory!Destroyable : Pass(t, d)
         \/ TestAccessFirst(t) \/ Enter(t) \/ ReturnUnchanged(t) \/ Return(t)
         \/ WriteInTransaction(t) \/ RunAgain(t)
  PROVE  Stays'
<1>1. ASSUME NEW m \in Methods, Call(t, m) PROVE Stays'
  <2>1. Frame(t) /\ Moved(t, "called", 1, NoCopy)
    BY <1>1, MovesOf
  <2>2. store' = store /\ destroyed' = destroyed /\ call[t].next = 1
    BY <1>1 DEF Call, Effects, Placed
  <2> QED
    BY <2>1, <2>2, NothingYet, StoreSame DEF Moved, Lasting, Inside
<1>2. ASSUME NEW d \in Memory!Destroyable, Pass(t, d) PROVE Stays'
  <2>1. Frame(t) /\ SameCall(t) /\ Moved(t, "writing", call[t].next, call[t].copy)
    BY <1>2, MovesOf
  <2>2. store' = store /\ destroyed' = destroyed /\ call[t].next = 1
    BY <1>2 DEF Pass, Entered, Effects, Placed
  <2>3. Locks(t) => Inside(t)
    BY <1>2 DEF Pass, Entered, Inside
  <2>4. /\ Locks(t)' = Locks(t) /\ Copies(t)' = Copies(t) /\ Protected(t)' = Protected(t)
        /\ \A u \in Calls \ {t} : Protected(u)' = Protected(u)
    BY <2>1, RowStays, OthersStay DEF Frame, SameCall
  <2>5. (Locks(t) /\ Copies(t) /\ Inside(t))' => CopyCurrent(t)'
    BY <2>1, <2>2, <2>3, <2>4 DEF Stays, CopyCurrent, Moved
  <2> QED
    BY <2>1, <2>2, <2>4, <2>5, StoreSame DEF Moved, Done
<1>3. ASSUME Enter(t) PROVE Stays'
  <2>1. /\ Frame(t) /\ SameCall(t)
        /\ Moved(t, "entered", call[t].next, IF Copies(t) THEN [store |-> store, sequence |-> sequence] ELSE NoCopy)
    BY <1>3, MovesOf
  <2>2. store' = store /\ destroyed' = destroyed
    BY <1>3 DEF Enter
  <2>3. Copies(t)' = Copies(t) /\ Protected(t)' = Protected(t)
    BY <2>1, RowStays DEF Frame, SameCall
  <2>4. Copies(t) => CopyCurrent(t)'
    BY <2>1, <2>2 DEF CopyCurrent, Moved
  <2> QED
    BY <2>1, <2>2, <2>3, <2>4, StoreSame DEF Moved, Lasting
<1>4. ASSUME Return(t) PROVE Stays'
  <2>1. Frame(t) /\ SameCall(t) /\ Moved(t, "returned", call[t].next, NoCopy)
    BY <1>4, MovesOf
  <2>2. store' = store /\ destroyed' = destroyed /\ call[t].pc = "writing" /\ ~Transaction(t)
    BY <1>4 DEF Return
  <2>3. Of(t)' = Of(t) /\ Protected(t)' = Protected(t) /\ backend' = backend
    BY <2>1, RowStays DEF Frame, SameCall
  <2>4. (Lasting(t)' => Lasting(t)) /\ \A d : Done(t, d)' = Done(t, d)
    BY <2>1, <2>2, <2>3 DEF Lasting, Done, Moved
  <2> QED
    BY <2>1, <2>2, <2>3, <2>4, StoreSame DEF Moved, Inside, Stays
<1>5. ASSUME WriteInTransaction(t) PROVE Stays'
  <2>1. Frame(t) /\ SameCall(t) /\ Moved(t, "writing", call[t].next + 1, call[t].copy)
    BY <1>5, MovesOf
  <2>2. store' = store /\ destroyed' = destroyed /\ Transaction(t)
    BY <1>5 DEF WriteInTransaction
  <2>3. Transaction(t)' = Transaction(t) /\ Locks(t)' = Locks(t) /\ Protected(t)' = Protected(t)
    BY <2>1, RowStays DEF Frame, SameCall
  <2> QED
    BY <2>1, <2>2, <2>3, Guarded, StoreSame DEF Moved, Lasting
<1>6. ASSUME TestAccessFirst(t) \/ ReturnUnchanged(t) \/ RunAgain(t) PROVE Stays'
  <2>1. /\ Frame(t) /\ SameCall(t) /\ call'[t].pc \in {"admitted", "left", "called"}
        /\ store' = store /\ destroyed' = destroyed
    BY <1>6, MovesOf DEF TestAccessFirst, ReturnUnchanged, RunAgain, Moved
  <2>2. Protected(t)' = Protected(t)
    BY <2>1, RowStays DEF Frame, SameCall
  <2> QED
    BY <2>1, <2>2, StoreSame DEF Lasting, Inside
<1> QED
  BY <1>1, <1>2, <1>3, <1>4, <1>5, <1>6

\* What is destroyed is destroyed by name.
LEMMA InEffectStays ==
  ASSUME NEW u \in Calls, NEW d, InEffect(u, d), destroyed \subseteq destroyed',
         \A p \in store : p \in store' \/ p[2] \in destroyed'
  PROVE  InEffect(u, d)'
BY DEF InEffect

LEMMA AssignStays == ASSUME Typed, Effects, Stays, NEW t \in Calls, Assign(t) PROVE Stays'
<1>1. Frame(t) /\ SameCall(t) /\ Moved(t, "writing", call[t].next + 1, call[t].copy)
  BY MovesOf
<1> DEFINE d == Of(t).writes[call[t].next]
<1>2. /\ call[t].pc = "writing" /\ ~Transaction(t)
      /\ call[t].next <= Len(Of(t).writes) /\ call[t].next \in Nat \ {0}
      /\ DOMAIN Of(t).writes = 1 .. Len(Of(t).writes) /\ Len(Of(t).writes) \in Nat
  BY OfCall DEF Assign, Typed, CallRecords, List
<1>3. RecordOf(d) = d /\ call[t].next \in DOMAIN Of(t).writes
  BY <1>2, Plain
<1>4. /\ Of(t)' = Of(t) /\ Locks(t)' = Locks(t) /\ Copies(t)' = Copies(t) /\ Protected(t)' = Protected(t)
      /\ Transaction(t)' = Transaction(t) /\ backend' = backend
  BY <1>1, RowStays DEF Frame, SameCall
<1>5. /\ <<t, d>> \in store'
      /\ destroyed \subseteq destroyed'
      /\ \A p \in store : p \in store' \/ p[2] \in destroyed'
      /\ \A p \in store' : p \in store \/ p = <<t, d>>
      /\ d # "destroyed" => store \subseteq store'
  BY DEF Assign, In
<1>6. ASSUME NEW u \in Calls, Lasting(u)', NEW e \in Names, Done(u, e)' PROVE InEffect(u, e)'
  <2>1. CASE u # t
    BY <1>1, <1>5, <1>6, <2>1, DoneStays, InEffectStays DEF Stays
  <2>2. CASE u = t
    <3>1. Lasting(t)
      BY <1>1, <1>2, <1>4, <1>6, <2>2 DEF Lasting, Moved
    <3>2. Done(t, e) \/ e = d
      BY <1>1, <1>2, <1>3, <1>4, <1>6, <2>2 DEF Done, Moved
    <3> QED
      BY <1>5, <2>2, <3>1, <3>2, InEffectStays DEF Stays, InEffect
  <2> QED
    BY <2>1, <2>2
<1>7. ASSUME NEW v \in Calls, (Locks(v) /\ Copies(v) /\ Inside(v))' PROVE CopyCurrent(v)'
  <2>1. Locks(v) /\ Copies(v) /\ Inside(v) /\ call'[v].copy = call[v].copy
    <3>1. CASE v = t
      BY <1>1, <1>2, <1>4, <1>7, <3>1 DEF Inside, Moved
    <3>2. CASE v # t
      BY <1>1, <1>7, <3>2, OthersStay DEF Frame
    <3> QED
      BY <3>1, <3>2
  <2>2. CopyCurrent(v)
    BY <2>1 DEF Stays
  <2>3. t = v \/ ~Protected(t)
    <3>1. Protected(t) => Locks(t)
      BY <1>2, <2>1, Guarded, OfCall DEF Protected, Typed, Transaction
    <3> QED
      BY <1>2, <2>1, <3>1, OneHolder DEF Inside
  <2>4. d # "destroyed"
    <3>1. Of(t).guard \in {"serial", "restore", "none"}
      BY <2>1, <2>3, Guarded DEF Copies, Protected, Locks
    <3> QED
      BY <1>3, <3>1, OfCall DEF Keeps
  <2>5. \A u \in Calls : Protected(u)' = Protected(u)
    BY <1>1, <1>4, OthersStay
  <2> QED
    BY <1>5, <2>1, <2>2, <2>3, <2>4, <2>5 DEF CopyCurrent
<1> QED
  BY <1>6, <1>7 DEF Stays

LEMMA CommitStays == ASSUME Typed, Effects, Stays, NEW t \in Calls, Commit(t) PROVE Stays'
<1>1. Frame(t) /\ SameCall(t) /\ Moved(t, "returned", call[t].next, NoCopy)
  BY MovesOf
<1>2. /\ Transaction(t) /\ backend = "mongo" /\ call[t].next \in Nat /\ Len(Of(t).writes) \in Nat
      /\ DOMAIN Of(t).writes = 1 .. Len(Of(t).writes)
      /\ call[t].next - 1 <= Len(Of(t).writes)
  BY Guarded, OfCall DEF Commit, Typed, CallRecords, List, Effects, Placed
<1>3. Of(t)' = Of(t) /\ backend' = backend
  BY <1>1, RowStays DEF Frame, SameCall
<1>4. /\ \A i \in 1 .. Len(Of(t).writes) : <<t, RecordOf(Of(t).writes[i])>> \in store'
      /\ destroyed \subseteq destroyed'
  BY DEF Commit, After
<1>5. \A p \in store : p \in store' \/ p[2] \in destroyed'
  <2>1. "destroyed" \in {RecordOf(Of(t).writes[i]) : i \in 1 .. Len(Of(t).writes)} => "destroyed" \in WritesOf(t)
    BY <1>2 DEF WritesOf
  <2> QED
    BY <2>1 DEF Commit, After, In
<1>6. ASSUME NEW u \in Calls, Lasting(u)', NEW e \in Names, Done(u, e)' PROVE InEffect(u, e)'
  <2>1. CASE u # t
    BY <1>1, <1>4, <1>5, <1>6, <2>1, DoneStays, InEffectStays DEF Stays
  <2>2. CASE u = t
    <3>1. PICK i \in 1 .. call'[t].next - 1 : RecordOf(Of(t)'.writes[i]) = e
      BY <1>6, <2>2 DEF Done
    <3>2. i \in 1 .. Len(Of(t).writes) /\ RecordOf(Of(t).writes[i]) = e
      BY <1>1, <1>2, <1>3, <3>1 DEF Moved
    <3> QED
      BY <1>4, <2>2, <3>2 DEF InEffect
  <2> QED
    BY <2>1, <2>2
<1>7. \A v \in Calls : ~Locks(v)'
  <2>1. \A v \in Calls : ~Locks(v)
    BY <1>2, Guarded
  <2>2. Locks(t)' = Locks(t)
    BY <1>1, RowStays DEF Frame, SameCall
  <2> QED
    BY <1>1, <2>1, <2>2, OthersStay
<1> QED
  BY <1>6, <1>7 DEF Stays

LEMMA RaiseStays == ASSUME Typed, Effects, Stays, NEW t \in Calls, Raise(t) PROVE Stays'
<1>1. Frame(t) /\ SameCall(t) /\ Moved(t, "left", call[t].next, NoCopy)
  BY MovesOf
<1>2. store' = PutBack(t) /\ destroyed' = destroyed
  BY DEF Raise
<1>3. Protected(t)' = Protected(t)
  BY <1>1, RowStays DEF Frame, SameCall
<1>4. ~Lasting(t)' /\ ~Inside(t)'
  BY <1>1 DEF Moved, Lasting, Inside
<1>5. CASE Locks(t) /\ Copies(t) /\ Inside(t)
  <2>1. backend = "memory" /\ CopyCurrent(t)
    BY <1>5, Guarded DEF Stays
  <2>2. Of(t).guard \in {"serial", "restore"}
    BY <1>5 DEF Locks, Copies
  <2>3. ASSUME NEW u \in Calls \ {t}, Protected(u), NEW d \in Names, <<u, d>> \in store
        PROVE  <<u, d>> \in store'
    BY <1>2, <2>1, <2>2, <2>3 DEF CopyCurrent, PutBack, In
  <2>4. ASSUME NEW u \in Calls, Lasting(u)', NEW d \in Names, Done(u, d)' PROVE InEffect(u, d)'
    <3>1. u # t /\ Lasting(u) /\ Done(u, d)
      BY <1>1, <1>4, <2>4, DoneStays
    <3>2. Protected(u) /\ InEffect(u, d)
      BY <2>1, <3>1 DEF Lasting, Stays
    <3> QED
      BY <1>2, <2>3, <3>1, <3>2 DEF InEffect
  <2>5. ASSUME NEW v \in Calls, (Locks(v) /\ Inside(v))' PROVE FALSE
    BY <1>1, <1>4, <1>5, <2>5, OthersStay, OneHolder
  <2> QED
    BY <2>4, <2>5 DEF Stays
<1>6. CASE PutBack(t) = store
  BY <1>1, <1>2, <1>3, <1>4, <1>6, StoreSame
<1> QED
  BY <1>5, <1>6, PutBackOf

LEMMA StaysStep == Typed /\ Effects /\ Stays /\ [RepositoryNext]_repositoryVars => Stays'
<1> SUFFICES ASSUME Typed, Effects, Stays, [RepositoryNext]_repositoryVars PROVE Stays'
  OBVIOUS
<1>1. CASE UNCHANGED repositoryVars
  BY <1>1 DEF repositoryVars, Stays, Lasting, Done, InEffect, CopyCurrent, Inside, Of, Row, Locks, Copies, Transaction,
              Protected
<1> QED
  BY <1>1, QuietStays, RaiseStays, AssignStays, CommitStays DEF RepositoryNext

-----------------------------------------------------------------------------
(* Transactions.                                                            *)

LEMMA IsolatedInit == RepositoryInit => Isolated
BY DEF RepositoryInit, Isolated, Alone, Fresh, IdleCall, NoCopy

LEMMA SharedSame ==
  ASSUME NEW t \in Calls, NEW u \in Calls
  PROVE  /\ \A d : Shared(t, u, d) <=> Shared(u, t, d)
         /\ retry' = retry /\ call'[t].method = call[t].method /\ call'[u].method = call[u].method
              => /\ \A d : Shared(t, u, d)' = Shared(t, u, d)
                 /\ SameKey(t, u)' = SameKey(t, u)
BY DEF Shared, SameKey

LEMMA NoTransactions ==
  ASSUME Typed', backend' = "memory"
  PROVE  \A t \in Calls : ~Transaction(t)'
BY MemoryRows DEF MemoryRow, RowOfMemory, Typed, CallRecords, Transaction, Of, Row

\* What t does is nothing to the other transactions.
LEMMA QuietOthers ==
  ASSUME Typed, Effects, Isolated, NEW t \in Calls, Frame(t), store' = store, destroyed' = destroyed,
         \/ SameCall(t) /\ \A d : Holds(t, d)' => Holds(t, d)
         \/ /\ \A p \in store : p[1] # t
            /\ \A u \in Calls : \A p \in call[u].copy.store : p[1] # t
            /\ \A d : ~Holds(t, d)',
         NEW v \in Calls \ {t}, Transaction(v)
  PROVE  Alone(v)'
<1>1. call'[v] = call[v] /\ Of(v)' = Of(v) /\ Transaction(v)' /\ Alone(v) /\ retry' = retry
  BY OthersStay DEF Frame, Isolated
<1>2. Fresh(v)'
  BY <1>1 DEF Alone, Fresh
<1>3. View(v) = call[v].copy.store /\ View(v)' = call[v].copy.store
  BY <1>1 DEF View
<1>4. Written(v)' = Written(v)
  BY <1>1 DEF Written
<1>5. ASSUME call[v].pc = "writing" PROVE Tested(v)'
  <2>1. Tested(v)
    BY <1>1, <1>5 DEF Alone
  <2>2. ASSUME NEW u \in Calls \ {v}, SameKey(v, u)', <<u, "idempotency">> \in View(v)' PROVE KeyUsed(v)
    <3>1. CASE u # t
      BY <1>1, <1>3, <2>2, <3>1, SharedSame DEF Frame, KeyUsed
    <3>2. CASE u = t
      BY <1>1, <1>3, <2>2, <3>2, SharedSame DEF SameCall, KeyUsed
    <3> QED
      BY <3>1, <3>2
  <2>3. KeyUsed(v)' => KeyUsed(v)
    BY <2>2 DEF KeyUsed
  <2> QED
    BY <1>1, <2>1, <2>3 DEF Tested, In
<1>6. ASSUME call[v].pc = "writing", NEW u \in Calls \ {v} PROVE Latest(v, u)' /\ Apart(v, u)'
  <2>1. Latest(v, u) /\ Apart(v, u)
    BY <1>1, <1>6 DEF Alone
  <2>2. CASE u # t
    <3>1. call'[u] = call[u] /\ Of(u)' = Of(u)
      BY <2>2, OthersStay DEF Frame
    <3>2. \A d : Shared(v, u, d)' = Shared(v, u, d)
      BY <1>1, <3>1, SharedSame
    <3>3. \A d : Holds(u, d)' = Holds(u, d)
      BY <3>1 DEF Holds, Transaction, Written
    <3>4. Latest(v, u)'
      BY <1>1, <1>4, <2>1, <3>1, <3>2 DEF Latest
    <3>5. Apart(v, u)'
      BY <1>4, <2>1, <3>2, <3>3 DEF Apart
    <3> QED
      BY <3>4, <3>5
  <2>3. CASE u = t /\ SameCall(t) /\ \A d : Holds(t, d)' => Holds(t, d)
    <3>1. Of(u)' = Of(u)
      BY <2>3, RowStays DEF Frame, SameCall
    <3>2. \A d : Shared(v, u, d)' = Shared(v, u, d)
      BY <1>1, <2>3, SharedSame DEF SameCall
    <3>3. Latest(v, u)'
      BY <1>1, <1>4, <2>1, <3>1, <3>2 DEF Latest
    <3>4. Apart(v, u)'
      BY <1>4, <2>1, <2>3, <3>2 DEF Apart
    <3> QED
      BY <3>3, <3>4
  <2>4. CASE u = t /\ (\A p \in store : p[1] # t) /\ (\A d : ~Holds(t, d)')
    BY <2>4 DEF Latest, Apart
  <2> QED
    BY <2>2, <2>3, <2>4
<1> QED
  BY <1>1, <1>2, <1>5, <1>6 DEF Alone

LEMMA QuietIsolated ==
  ASSUME Typed, Typed', Effects, Isolated, NEW t \in Calls,
         \/ \E m \in Methods : Call(t, m)
         \/ \E d \in Memory!Destroyable : Pass(t, d)
         \/ TestAccessFirst(t) \/ Enter(t) \/ ReturnUnchanged(t) \/ Raise(t) \/ Return(t) \/ RunAgain(t)
  PROVE  Isolated'
<1>0. SUFFICES ASSUME backend = "mongo" PROVE Isolated'
  <2>1. backend' = backend /\ backend \in {"memory", "mongo"}
    BY MovesOf DEF Frame, Typed
  <2> QED
    BY <2>1, NoTransactions DEF Isolated
<1>1. ASSUME NEW m \in Methods, Call(t, m) PROVE Isolated'
  <2>1. Frame(t) /\ Moved(t, "called", 1, NoCopy)
    BY <1>1, MovesOf
  <2>2. store' = store /\ destroyed' = destroyed /\ call[t].next = 1
    BY <1>1 DEF Call, Effects, Placed
  <2>3. Alone(t)' /\ \A d : ~Holds(t, d)'
    BY <2>1 DEF Alone, Fresh, NoCopy, Moved, Holds
  <2>4. \A v \in Calls \ {t} : Transaction(v) => Alone(v)'
    BY <2>1, <2>2, <2>3, NothingYet, QuietOthers
  <2> QED
    BY <2>1, <2>3, <2>4, OthersStay DEF Isolated
<1>2. ASSUME NEW e \in Memory!Destroyable, Pass(t, e) PROVE Isolated'
  <2>1. Frame(t) /\ SameCall(t) /\ Moved(t, "writing", call[t].next, call[t].copy)
    BY <1>2, MovesOf
  <2>2. store' = store /\ destroyed' = destroyed /\ call[t].next = 1 /\ Admissible(t)
    BY <1>2 DEF Pass, Entered, Effects, Placed
  <2>3. Of(t)' = Of(t) /\ Transaction(t)' = Transaction(t)
    BY <2>1, RowStays DEF Frame, SameCall
  <2>4. Written(t)' = {} /\ \A d : ~Holds(t, d)'
    BY <2>1, <2>2 DEF Written, Moved, Holds
  <2>5. ASSUME Transaction(t) PROVE Alone(t)'
    <3>1. Fresh(t)'
      BY <2>1, <2>2, <2>5 DEF Isolated, Alone, Fresh, Moved
    <3>2. View(t) = call[t].copy.store /\ View(t)' = call[t].copy.store
      BY <2>1, <2>3, <2>5 DEF View, Moved
    <3>3. \A u \in Calls \ {t} : SameKey(t, u)' = SameKey(t, u)
      BY <2>1, SharedSame DEF Frame, SameCall
    <3>4. KeyUsed(t)' => KeyUsed(t)
      BY <3>2, <3>3 DEF KeyUsed
    <3>5. Tested(t)'
      BY <2>1, <2>2, <2>3, <3>2, <3>4 DEF Tested, Admissible, SameCall, Moved, In
    <3> QED
      BY <2>4, <3>1, <3>5 DEF Alone, Latest, Apart
  <2>6. \A v \in Calls \ {t} : Transaction(v) => Alone(v)'
    BY <2>1, <2>2, <2>4, QuietOthers
  <2> QED
    BY <2>1, <2>3, <2>5, <2>6, OthersStay DEF Isolated
<1>3. ASSUME TestAccessFirst(t) \/ Enter(t) \/ ReturnUnchanged(t) \/ Raise(t) \/ RunAgain(t) \/ Return(t)
      PROVE  Isolated'
  <2>1. Frame(t) /\ SameCall(t) /\ call'[t].pc # "writing" /\ destroyed' = destroyed
    BY <1>3, MovesOf DEF TestAccessFirst, Enter, ReturnUnchanged, Raise, Return, RunAgain, Moved
  <2>2. store' = store
    BY <1>0, <1>3, PutBackOf, Guarded DEF TestAccessFirst, Enter, ReturnUnchanged, Raise, Return, RunAgain
  <2>3. \A d : ~Holds(t, d)'
    BY <2>1 DEF Holds
  <2>4. call'[t].copy = NoCopy \/ call'[t].copy.store = store
    <3>1. CASE TestAccessFirst(t)
      BY <3>1, MovesOf DEF TestAccessFirst, Effects, Placed, Inside, Moved
    <3>2. CASE ~TestAccessFirst(t)
      BY <1>3, <3>2, MovesOf DEF Moved
    <3> QED
      BY <3>1, <3>2
  <2>5. Alone(t)'
    BY <2>1, <2>2, <2>4 DEF Alone, Fresh, NoCopy
  <2>6. \A v \in Calls \ {t} : Transaction(v) => Alone(v)'
    BY <2>1, <2>2, <2>3, QuietOthers
  <2> QED
    BY <2>1, <2>5, <2>6, OthersStay DEF Isolated
<1> QED
  BY <1>1, <1>2, <1>3

\* What t has written grows by the document it writes.
LEMMA WriteIsolated == ASSUME Typed, Effects, Isolated, NEW t \in Calls, WriteInTransaction(t) PROVE Isolated'
<1>1. Frame(t) /\ SameCall(t) /\ Moved(t, "writing", call[t].next + 1, call[t].copy)
  BY MovesOf
<1>2. /\ store' = store /\ destroyed' = destroyed /\ call[t].pc = "writing" /\ Transaction(t)
      /\ \A d \in Documents(Of(t).writes[call[t].next]) : ~WriteConflict(t, d)
      /\ call[t].next \in Nat \ {0}
  BY DEF WriteInTransaction, Typed, CallRecords
<1>3. /\ Of(t)' = Of(t) /\ Transaction(t)' /\ retry' = retry /\ Alone(t)
      /\ \A u \in Calls \ {t} : call'[u] = call[u] /\ Of(u)' = Of(u) /\ Written(u)' = Written(u) /\ Transaction(u)' = Transaction(u)
  BY <1>1, <1>2, RowStays, OthersStay DEF Frame, SameCall, Isolated, Written
<1>4. \A d : d \in Written(t)' => d \in Written(t) \/ ~WriteConflict(t, d)
  <2>1. ASSUME NEW i \in 1 .. call'[t].next - 1 PROVE i \in 1 .. call[t].next - 1 \/ i = call[t].next
    BY <1>1, <1>2 DEF Moved
  <2> QED
    BY <1>2, <1>3, <2>1 DEF Written
<1>5. \A u, v \in Calls : \A d : Shared(u, v, d)' = Shared(u, v, d)
  <2>1. \A u \in Calls : call'[u].method = call[u].method
    BY <1>1, <1>3 DEF SameCall
  <2> QED
    BY <1>3, <2>1, SharedSame
<1>6. \A u, v \in Calls : SameKey(u, v)' = SameKey(u, v)
  <2>1. \A u \in Calls : call'[u].method = call[u].method
    BY <1>1, <1>3 DEF SameCall
  <2> QED
    BY <1>3, <2>1, SharedSame
<1>7. ASSUME NEW v \in Calls, Transaction(v)', call'[v].pc = "writing" PROVE Fresh(v)' /\ Tested(v)'
  <2>1. call'[v].copy = call[v].copy /\ call'[v].seen = call[v].seen /\ Of(v)' = Of(v) /\ Transaction(v) /\ Alone(v)
        /\ call[v].pc = "writing"
    BY <1>1, <1>2, <1>3, <1>7 DEF Moved, SameCall, Isolated
  <2>2. View(v)' = View(v)
    BY <1>7, <2>1 DEF View
  <2>3. KeyUsed(v)' = KeyUsed(v)
    BY <1>6, <2>2 DEF KeyUsed
  <2> QED
    BY <1>2, <2>1, <2>3 DEF Alone, Fresh, Tested, In
<1>8. ASSUME NEW u \in Calls \ {t} PROVE Latest(t, u)' /\ Apart(t, u)'
  <2>1. Latest(t, u) /\ Apart(t, u)
    BY <1>2, <1>3 DEF Alone
  <2>2. \A d : Holds(u, d)' = Holds(u, d)
    BY <1>3 DEF Holds
  <2>3. Apart(t, u)'
    BY <1>4, <1>5, <2>1, <2>2 DEF Apart, WriteConflict
  <2>4. ASSUME NEW i \in DOMAIN Of(u).writes, NEW d \in Documents(Of(u).writes[i]), d \in Written(t)',
               Shared(t, u, d), <<u, RecordOf(Of(u).writes[i])>> \in store
        PROVE  <<u, RecordOf(Of(u).writes[i])>> \in call[t].copy.store
    BY <1>4, <2>1, <2>4 DEF Latest, WriteConflict
  <2>5. Latest(t, u)'
    BY <1>1, <1>2, <1>3, <1>5, <2>4 DEF Latest, Moved
  <2> QED
    BY <2>3, <2>5
<1>9. ASSUME NEW v \in Calls \ {t}, Transaction(v), call[v].pc = "writing", NEW u \in Calls \ {v}
      PROVE  Latest(v, u)' /\ Apart(v, u)'
  <2>1. Latest(v, u) /\ Apart(v, u)
    BY <1>9 DEF Isolated, Alone
  <2>2. Of(u)' = Of(u)
    BY <1>3
  <2>3. Latest(v, u)'
    BY <1>2, <1>3, <1>5, <2>1, <2>2 DEF Latest
  <2>4. ASSUME NEW d \in Written(v), Holds(u, d)' PROVE ~Shared(v, u, d)
    <3>1. CASE Holds(u, d)
      BY <2>1, <2>4, <3>1 DEF Apart
    <3>2. CASE ~Holds(u, d)
      <4>1. u = t /\ d \in Written(t)' /\ d \notin Written(t)
        BY <1>2, <1>3, <2>4, <3>2 DEF Holds
      <4>2. ~WriteConflict(t, d) /\ Holds(v, d)
        BY <1>4, <1>9, <2>4, <4>1 DEF Holds
      <4> QED
        BY <4>1, <4>2, SharedSame DEF WriteConflict
    <3> QED
      BY <3>1, <3>2
  <2>5. Apart(v, u)'
    BY <1>3, <1>5, <2>4 DEF Apart
  <2> QED
    BY <2>3, <2>5
<1>10. ASSUME NEW v \in Calls, Transaction(v)', call'[v].pc # "writing" PROVE Fresh(v)'
  BY <1>1, <1>2, <1>3, <1>10 DEF Moved, Isolated, Alone, Fresh
<1> QED
  BY <1>3, <1>7, <1>8, <1>9, <1>10 DEF Isolated, Alone

\* What takes effect at once, or at last, is not among what others have written.
LEMMA VisibleIsolated ==
  ASSUME Typed, Effects, Isolated, NEW t \in Calls, Frame(t), SameCall(t),
         \A p \in store : p \in store' \/ p[2] \in destroyed', destroyed \subseteq destroyed',
         \A p \in store' : p \in store \/ p[1] = t,
         \A d : ~Holds(t, d)',
         NEW v \in Calls \ {t}, Transaction(v),
         \A i \in DOMAIN Of(t).writes : \A d \in Documents(Of(t).writes[i]) :
            <<t, RecordOf(Of(t).writes[i])>> \in store' \ store /\ Holds(v, d) => ~Shared(v, t, d)
  PROVE  Alone(v)'
<1>1. /\ call'[v] = call[v] /\ Of(v)' = Of(v) /\ Transaction(v)' /\ Alone(v) /\ Written(v)' = Written(v)
      /\ retry' = retry /\ backend' = backend
  BY OthersStay DEF Frame, Isolated, Written
<1>2. \A u \in Calls : call'[u].method = call[u].method
  BY DEF Frame, SameCall
<1>3. \A u \in Calls : SameKey(v, u)' = SameKey(v, u) /\ \A d : Shared(v, u, d)' = Shared(v, u, d)
  BY <1>1, <1>2, SharedSame
<1>4. Fresh(v)'
  BY <1>1 DEF Alone, Fresh
<1>5. ASSUME call[v].pc = "writing" PROVE Tested(v)'
  <2>1. View(v)' = View(v)
    BY <1>1 DEF View
  <2>2. KeyUsed(v)' = KeyUsed(v)
    BY <1>3, <2>1 DEF KeyUsed
  <2> QED
    BY <1>1, <1>5, <2>2 DEF Alone, Tested, In
<1>6. ASSUME call[v].pc = "writing", NEW u \in Calls \ {v} PROVE Latest(v, u)' /\ Apart(v, u)'
  <2>1. Latest(v, u) /\ Apart(v, u)
    BY <1>1, <1>6 DEF Alone
  <2>2. Of(u)' = Of(u)
    BY <1>1, <1>2, RowStays
  <2>3. ASSUME NEW i \in DOMAIN Of(u).writes, NEW d \in Documents(Of(u).writes[i]),
               d \in Written(v), Shared(v, u, d), <<u, RecordOf(Of(u).writes[i])>> \in store'
        PROVE  <<u, RecordOf(Of(u).writes[i])>> \in call[v].copy.store
    <3>1. CASE <<u, RecordOf(Of(u).writes[i])>> \in store
      BY <2>1, <2>3, <3>1 DEF Latest
    <3>2. CASE <<u, RecordOf(Of(u).writes[i])>> \notin store
      <4>1. u = t
        BY <2>3, <3>2
      <4>2. Holds(v, d)
        BY <1>6, <2>3 DEF Holds
      <4> QED
        BY <2>3, <3>2, <4>1, <4>2
    <3> QED
      BY <3>1, <3>2
  <2>4. Latest(v, u)'
    BY <1>1, <1>3, <2>2, <2>3 DEF Latest
  <2>5. \A d : Holds(u, d)' => Holds(u, d)
    <3>1. CASE u = t
      BY <3>1
    <3>2. CASE u # t
      BY <3>2 DEF Frame, Holds, Transaction, Of, Row, Written
    <3> QED
      BY <3>1, <3>2
  <2>6. Apart(v, u)'
    BY <1>1, <1>3, <2>1, <2>5 DEF Apart
  <2> QED
    BY <2>4, <2>6
<1> QED
  BY <1>1, <1>4, <1>5, <1>6 DEF Alone

LEMMA AssignIsolated == ASSUME Typed, Typed', Effects, Isolated, NEW t \in Calls, Assign(t) PROVE Isolated'
<1>1. Frame(t) /\ SameCall(t) /\ Moved(t, "writing", call[t].next + 1, call[t].copy)
  BY MovesOf
<1> DEFINE d == Of(t).writes[call[t].next]
<1>2. /\ ~Transaction(t) /\ ~Transaction(t)'
      /\ call[t].next <= Len(Of(t).writes) /\ call[t].next \in Nat \ {0}
      /\ DOMAIN Of(t).writes = 1 .. Len(Of(t).writes) /\ Len(Of(t).writes) \in Nat
  BY <1>1, OfCall, RowStays DEF Assign, Typed, CallRecords, List, Frame, SameCall
<1>3. SUFFICES ASSUME backend = "mongo" PROVE Isolated'
  <2>1. backend' = backend /\ backend \in {"memory", "mongo"}
    BY <1>1 DEF Frame, Typed
  <2> QED
    BY <2>1, NoTransactions DEF Isolated
<1>4. /\ store' = store \cup {<<t, d>>} /\ destroyed' = destroyed
      /\ \A u \in Calls \ {t} : ~Holds(u, d)
  <2>1. d # "destroyed"
    BY <1>2, <1>3, OfCall DEF Keeps, Transaction
  <2> QED
    BY <2>1 DEF Assign
<1>5. ASSUME NEW v \in Calls \ {t}, Transaction(v), NEW i \in DOMAIN Of(t).writes, NEW e \in Documents(Of(t).writes[i]),
             <<t, RecordOf(Of(t).writes[i])>> \in store' \ store, Holds(v, e)
      PROVE  FALSE
  <2>1. RecordOf(Of(t).writes[i]) = Of(t).writes[i] /\ Of(t).writes[i] = d
    BY <1>2, <1>4, <1>5, Plain
  <2>2. Of(t).writes[i] \notin Refreshing
    BY <1>2, <1>3, OfCall DEF Keeps, Transaction, Refreshing
  <2>3. e = d
    BY <1>5, <2>1, <2>2 DEF Documents
  <2> QED
    BY <1>4, <1>5, <2>3
<1>6. \A e : ~Holds(t, e)'
  BY <1>2 DEF Holds
<1>7. \A v \in Calls \ {t} : Transaction(v) => Alone(v)'
  BY <1>1, <1>4, <1>5, <1>6, VisibleIsolated
<1> QED
  BY <1>1, <1>2, <1>7, OthersStay DEF Isolated

LEMMA CommitIsolated == ASSUME Typed, Effects, Isolated, NEW t \in Calls, Commit(t) PROVE Isolated'
<1>1. Frame(t) /\ SameCall(t) /\ Moved(t, "returned", call[t].next, NoCopy)
  BY MovesOf
<1>2. /\ Transaction(t) /\ call[t].pc = "writing" /\ call[t].next \in Nat /\ Len(Of(t).writes) \in Nat
      /\ DOMAIN Of(t).writes = 1 .. Len(Of(t).writes)
      /\ call[t].next > Len(Of(t).writes)
  BY OfCall DEF Commit, Typed, CallRecords, List
<1>3. destroyed \subseteq destroyed'
  BY DEF Commit
<1>4. \A p \in store : p \in store' \/ p[2] \in destroyed'
  <2>1. "destroyed" \in {RecordOf(Of(t).writes[i]) : i \in 1 .. Len(Of(t).writes)} => "destroyed" \in WritesOf(t)
    BY <1>2 DEF WritesOf
  <2> QED
    BY <2>1 DEF Commit, After, In
<1>5. \A p \in store' : p \in store \/ p[1] = t
  BY DEF Commit, After, In
<1>6. \A d : ~Holds(t, d)'
  BY <1>1 DEF Holds, Moved
<1>7. ASSUME NEW v \in Calls \ {t}, Transaction(v), NEW i \in DOMAIN Of(t).writes, NEW d \in Documents(Of(t).writes[i]),
             Holds(v, d)
      PROVE  ~Shared(v, t, d)
  <2>1. i \in 1 .. call[t].next - 1
    BY <1>2
  <2>2. Holds(t, d)
    BY <1>2, <2>1 DEF Holds, Written
  <2>3. Apart(v, t) /\ d \in Written(v)
    BY <1>7 DEF Isolated, Alone, Holds
  <2> QED
    BY <2>2, <2>3 DEF Apart
<1>8. \A v \in Calls \ {t} : Transaction(v) => Alone(v)'
  BY <1>1, <1>3, <1>4, <1>5, <1>6, <1>7, VisibleIsolated
<1>9. Alone(t)'
  BY <1>1 DEF Alone, Fresh, NoCopy, Moved
<1> QED
  BY <1>1, <1>8, <1>9, OthersStay DEF Isolated

LEMMA IsolatedStep == Typed /\ Typed' /\ Effects /\ Isolated /\ [RepositoryNext]_repositoryVars => Isolated'
<1> SUFFICES ASSUME Typed, Typed', Effects, Isolated, [RepositoryNext]_repositoryVars PROVE Isolated'
  OBVIOUS
<1>1. CASE UNCHANGED repositoryVars
  <2>1. backend' = backend /\ store' = store /\ call' = call /\ destroyed' = destroyed /\ retry' = retry
    BY <1>1 DEF repositoryVars
  <2>2. ASSUME NEW t \in Calls PROVE Of(t)' = Of(t) /\ Transaction(t)' = Transaction(t) /\ Written(t)' = Written(t)
    BY <2>1 DEF Of, Row, Transaction, Written
  <2>3. \A t, u \in Calls : \A d : Holds(u, d)' = Holds(u, d) /\ Shared(t, u, d)' = Shared(t, u, d)
    BY <2>1, <2>2 DEF Holds, Shared, SameKey
  <2>4. \A t, u \in Calls : Latest(t, u)' = Latest(t, u) /\ Apart(t, u)' = Apart(t, u)
    BY <2>1, <2>2, <2>3 DEF Latest, Apart
  <2>5. \A t \in Calls : Fresh(t)' = Fresh(t) /\ Tested(t)' = Tested(t)
    BY <2>1, <2>2 DEF Fresh, Tested, In, KeyUsed, View, SameKey
  <2> QED
    BY <2>1, <2>2, <2>4, <2>5 DEF Isolated, Alone
<1> QED
  BY <1>1, QuietIsolated, WriteIsolated, AssignIsolated, CommitIsolated DEF RepositoryNext

-----------------------------------------------------------------------------
(* Who wins.                                                                *)

LEMMA DecidedInit == RepositoryInit => Decided
BY DEF RepositoryInit, Decided, Staked, IdleCall

\* What a call whose tests cannot fail any more has written, once it is out.
LEMMA StakedWrote ==
  ASSUME Typed, Effects, Stays, NEW u \in Calls, Staked(u), ~(Locks(u) /\ Inside(u)), NEW d \in WritesOf(u)
  PROVE  <<u, d>> \in store \/ d \in destroyed
<1>1. PICK i \in 1 .. Len(Of(u).writes) : RecordOf(Of(u).writes[i]) = d
  BY WritesAre
<1>2. /\ Len(Of(u).writes) \in Nat /\ call[u].next \in Nat \ {0} /\ call[u].next - 1 <= Len(Of(u).writes)
      /\ call[u].pc = "returned" => call[u].next = Len(Of(u).writes) + 1
  BY OfCall DEF Typed, CallRecords, List, Effects, Placed
<1>3. call[u].next = Len(Of(u).writes) + 1
  <2>1. CASE call[u].pc = "returned"
    BY <1>2, <2>1
  <2>2. CASE call[u].pc = "writing" /\ ~Transaction(u) /\ call[u].next > 1 /\ ~Locks(u)
    <3>1. Len(Of(u).writes) = 1
      BY <2>2, Guarded, OfCall DEF Staked
    <3> QED
      BY <1>2, <2>2, <3>1
  <2> QED
    BY <2>1, <2>2 DEF Staked, Inside
<1>4. d \in Names /\ Done(u, d)
  BY <1>1, <1>2, <1>3, WritesAre DEF Done
<1>5. Lasting(u)
  BY DEF Lasting, Staked
<1> QED
  BY <1>4, <1>5 DEF Stays, InEffect

\* Calls of one method have one row.
LEMMA OneRow ==
  ASSUME NEW t \in Calls, NEW u \in Calls, SameKey(t, u)
  PROVE  Of(u) = Of(t) /\ SameKey(u, t)
BY DEF SameKey, Of

LEMMA KeyWritten ==
  ASSUME Typed, NEW t \in Calls, "key" \in Of(t).checks
  PROVE  "idempotency" \in WritesOf(t)
BY OfCall, WritesAre DEF Honours

\* Steps by which no call comes to be decided.
LEMMA KeptDecided ==
  ASSUME Decided, NEW t \in Calls, Frame(t), destroyed \subseteq destroyed',
         Staked(t)' => SameCall(t) /\ Staked(t)
  PROVE  Decided'
<1>1. \A u \in Calls : Staked(u)' => /\ Staked(u) /\ Of(u)' = Of(u) /\ WritesOf(u)' = WritesOf(u)
                                     /\ call'[u].seen = call[u].seen /\ call'[u].method = call[u].method
  <2>1. ASSUME NEW u \in Calls \ {t} PROVE Staked(u)' = Staked(u) /\ Of(u)' = Of(u) /\ WritesOf(u)' = WritesOf(u) /\ call'[u] = call[u]
    BY OthersStay DEF Staked, Frame
  <2>2. SameCall(t) => Of(t)' = Of(t) /\ WritesOf(t)' = WritesOf(t)
    BY RowStays DEF SameCall, Frame
  <2> QED
    BY <2>1, <2>2 DEF SameCall
<1>2. retry' = retry
  BY DEF Frame
<1>3. ASSUME NEW u \in Calls, NEW v \in Calls, u # v, Staked(u)', Staked(v)'
      PROVE  /\ \A d \in ((SharedRecords \cap Of(u).expects \cap Of(v).expects \cap WritesOf(u) \cap WritesOf(v)) \ destroyed)' :
                   <<u, d>> \in call'[v].seen \/ <<v, d>> \in call'[u].seen
             /\ ~(SameKey(u, v) /\ "key" \in Of(u).checks)'
  BY <1>1, <1>2, <1>3 DEF Decided, SameKey
<1> QED
  BY <1>3 DEF Decided

\* Steps by which t does.
LEMMA NewDecided ==
  ASSUME Decided, NEW t \in Calls, Frame(t), SameCall(t), destroyed \subseteq destroyed',
         \A u \in Calls \ {t} : Staked(u) =>
            /\ \A d \in (SharedRecords \cap Of(t).expects \cap WritesOf(t) \cap WritesOf(u)) \ destroyed : <<u, d>> \in call[t].seen
            /\ ~(SameKey(t, u) /\ "key" \in Of(t).checks)
  PROVE  Decided'
<1>1. \A u \in Calls : /\ Of(u)' = Of(u) /\ WritesOf(u)' = WritesOf(u)
                       /\ call'[u].seen = call[u].seen /\ call'[u].method = call[u].method
  BY OthersStay, RowStays DEF Frame, SameCall
<1>2. \A u \in Calls \ {t} : Staked(u)' = Staked(u)
  BY OthersStay DEF Frame, Staked
<1>3. retry' = retry
  BY DEF Frame
<1>4. \A u \in Calls \ {t} : Staked(u) => ~(SameKey(u, t) /\ "key" \in Of(u).checks)
  BY OneRow
<1>5. ASSUME NEW u \in Calls, NEW v \in Calls, u # v, Staked(u)', Staked(v)'
      PROVE  /\ \A d \in ((SharedRecords \cap Of(u).expects \cap Of(v).expects \cap WritesOf(u) \cap WritesOf(v)) \ destroyed)' :
                   <<u, d>> \in call'[v].seen \/ <<v, d>> \in call'[u].seen
             /\ ~(SameKey(u, v) /\ "key" \in Of(u).checks)'
  <2>1. SameKey(u, v)' = SameKey(u, v)
    BY <1>1, <1>3 DEF SameKey
  <2>2. CASE u = t
    BY <1>1, <1>2, <1>5, <2>1, <2>2
  <2>3. CASE v = t
    BY <1>1, <1>2, <1>4, <1>5, <2>1, <2>3
  <2>4. CASE u # t /\ v # t
    BY <1>1, <1>2, <1>5, <2>1, <2>4 DEF Decided
  <2> QED
    BY <2>2, <2>3, <2>4
<1> QED
  BY <1>5 DEF Decided

\* What a test of the store finds, of those that are out.
LEMMA TestFinds ==
  ASSUME Typed, Effects, Stays, NEW t \in Calls, Admissible(t), ~Transaction(t), Protected(t),
         NEW u \in Calls \ {t}, Staked(u), ~(Locks(u) /\ Inside(u))
  PROVE  /\ \A d \in (SharedRecords \cap Of(t).expects \cap WritesOf(t) \cap WritesOf(u)) \ destroyed : <<u, d>> \in call[t].seen
         /\ ~(SameKey(t, u) /\ "key" \in Of(t).checks)
<1>1. View(t) = store
  BY DEF View
<1>2. ASSUME NEW d \in WritesOf(u), d \in Of(t).expects, d \notin destroyed PROVE <<u, d>> \in call[t].seen
  BY <1>1, <1>2, StakedWrote DEF Admissible, In
<1>3. ASSUME SameKey(t, u), "key" \in Of(t).checks PROVE FALSE
  <2>1. "idempotency" \in WritesOf(u)
    BY <1>3, OneRow, KeyWritten
  <2>2. "idempotency" \notin destroyed
    BY DEF Typed, Memory!Destroyable
  <2>3. KeyUsed(t)
    BY <1>1, <1>3, <2>1, <2>2, StakedWrote DEF KeyUsed
  <2> QED
    BY <1>3, <2>3 DEF Admissible
<1> QED
  BY <1>2, <1>3

LEMMA CommitFinds ==
  ASSUME Typed, Effects, Stays, Isolated, NEW t \in Calls, Commit(t), NEW u \in Calls \ {t}, Staked(u)
  PROVE  /\ \A d \in (SharedRecords \cap Of(t).expects \cap WritesOf(t) \cap WritesOf(u)) \ destroyed : <<u, d>> \in call[t].seen
         /\ ~(SameKey(t, u) /\ "key" \in Of(t).checks)
<1>1. Transaction(t) /\ call[t].pc = "writing" /\ Alone(t) /\ Tested(t) /\ Latest(t, u)
  BY DEF Commit, Isolated, Alone
<1>2. /\ call[t].next > Len(Of(t).writes) /\ call[t].next \in Nat /\ Len(Of(t).writes) \in Nat
      /\ DOMAIN Of(u).writes = 1 .. Len(Of(u).writes) /\ Len(Of(u).writes) \in Nat
  BY OfCall DEF Commit, Typed, CallRecords, List
<1>3. ~Locks(u)
  BY <1>1, Guarded
<1>4. ASSUME NEW d \in WritesOf(u), d \in WritesOf(t), Shared(t, u, d), d \notin destroyed
      PROVE  <<u, d>> \in call[t].copy.store
  <2>1. <<u, d>> \in store
    BY <1>3, <1>4, StakedWrote
  <2>2. PICK i \in 1 .. Len(Of(u).writes) : RecordOf(Of(u).writes[i]) = d
    BY WritesAre
  <2>3. PICK j \in 1 .. Len(Of(t).writes) : RecordOf(Of(t).writes[j]) = d
    BY <1>4, WritesAre
  <2>4. j \in 1 .. call[t].next - 1
    BY <1>2
  <2>5. d \in Written(t)
    BY <2>3, <2>4 DEF Written, Documents
  <2>6. d \in Documents(Of(u).writes[i]) /\ i \in DOMAIN Of(u).writes
    BY <1>2, <2>2 DEF Documents
  <2> QED
    BY <1>1, <1>4, <2>1, <2>2, <2>5, <2>6 DEF Latest
<1>5. ASSUME NEW d \in WritesOf(u), d \in WritesOf(t), d \in SharedRecords, d \in Of(t).expects, d \notin destroyed
      PROVE  <<u, d>> \in call[t].seen
  <2>1. <<u, d>> \in call[t].copy.store
    BY <1>4, <1>5 DEF Shared
  <2> QED
    BY <1>1, <1>5, <2>1 DEF Tested, In
<1>6. ASSUME SameKey(t, u), "key" \in Of(t).checks PROVE FALSE
  <2>1. "idempotency" \in WritesOf(u) /\ "idempotency" \in WritesOf(t)
    BY <1>6, OneRow, KeyWritten
  <2>2. "idempotency" \notin destroyed /\ Shared(t, u, "idempotency")
    BY <1>6 DEF Typed, Memory!Destroyable, Shared
  <2>3. <<u, "idempotency">> \in View(t)
    BY <1>1, <1>4, <2>1, <2>2 DEF View
  <2> QED
    BY <1>1, <1>6, <2>3 DEF Tested, KeyUsed
<1> QED
  BY <1>5, <1>6

LEMMA DecidedStep == Typed /\ Effects /\ Stays /\ Isolated /\ Decided /\ [RepositoryNext]_repositoryVars => Decided'
<1> SUFFICES ASSUME Typed, Effects, Stays, Isolated, Decided, [RepositoryNext]_repositoryVars PROVE Decided'
  OBVIOUS
<1>1. CASE UNCHANGED repositoryVars
  <2>1. backend' = backend /\ call' = call /\ destroyed' = destroyed /\ retry' = retry
    BY <1>1 DEF repositoryVars
  <2>2. \A t \in Calls : Of(t)' = Of(t) /\ WritesOf(t)' = WritesOf(t) /\ Staked(t)' = Staked(t)
    BY <2>1, RowStays DEF Staked
  <2>3. \A t, u \in Calls : SameKey(t, u)' = SameKey(t, u)
    BY <2>1 DEF SameKey
  <2> QED
    BY <2>1, <2>2, <2>3 DEF Decided
<1>2. ASSUME NEW t \in Calls, NEW m \in Methods, Call(t, m) PROVE Decided'
  BY <1>2, MovesOf, KeptDecided DEF Call, Staked, Moved
<1>3. ASSUME NEW t \in Calls, NEW e \in Memory!Destroyable, Pass(t, e) PROVE Decided'
  <2>1. Frame(t) /\ SameCall(t) /\ Moved(t, "writing", call[t].next, call[t].copy) /\ destroyed' = destroyed
    BY <1>3, MovesOf DEF Pass
  <2>2. Locks(t)' = Locks(t) /\ call[t].next = 1
    BY <1>3, <2>1, RowStays DEF Frame, SameCall, Effects, Placed, Pass, Entered
  <2>3. CASE Locks(t)
    <3>1. Admissible(t) /\ ~Transaction(t) /\ Protected(t) /\ Inside(t)
      BY <1>3, <2>3, Guarded DEF Pass, Entered, Inside, Protected, Locks
    <3>2. \A u \in Calls \ {t} : ~(Locks(u) /\ Inside(u))
      BY <2>3, <3>1, OneHolder
    <3> QED
      BY <2>1, <3>1, <3>2, TestFinds, NewDecided
  <2>4. CASE ~Locks(t)
    BY <2>1, <2>2, <2>4, KeptDecided DEF Staked, Moved
  <2> QED
    BY <2>3, <2>4
<1>4. ASSUME NEW t \in Calls, Assign(t) PROVE Decided'
  <2>1. /\ Frame(t) /\ SameCall(t) /\ Moved(t, "writing", call[t].next + 1, call[t].copy)
        /\ destroyed \subseteq destroyed'
    BY <1>4, MovesOf DEF Assign
  <2>2. Protected(t)' = Protected(t) /\ Locks(t)' = Locks(t) /\ call[t].pc = "writing" /\ ~Transaction(t)
    BY <1>4, <2>1, RowStays DEF Frame, SameCall, Assign
  <2>3. CASE Of(t).guard = "compare"
    <3>1. Admissible(t) /\ Protected(t) /\ backend = "mongo"
      BY <1>4, <2>3, OfCall DEF Assign, Protected, Typed
    <3>2. \A u \in Calls \ {t} : ~Locks(u)
      BY <3>1, Guarded
    <3> QED
      BY <2>1, <2>2, <3>1, <3>2, TestFinds, NewDecided
  <2>4. CASE Of(t).guard # "compare"
    BY <2>1, <2>2, <2>4, Guarded, KeptDecided DEF Staked
  <2> QED
    BY <2>3, <2>4
<1>5. ASSUME NEW t \in Calls, Commit(t) PROVE Decided'
  BY <1>5, MovesOf, CommitFinds, NewDecided DEF Commit
<1>6. ASSUME NEW t \in Calls, Return(t) PROVE Decided'
  <2>1. Frame(t) /\ SameCall(t) /\ destroyed' = destroyed
    BY <1>6, MovesOf DEF Return
  <2>2. Protected(t)' = Protected(t)
    BY <2>1, RowStays DEF Frame, SameCall
  <2>3. Protected(t) => Staked(t)
    BY <1>6, Guarded, OfCall DEF Return, Staked, Typed, CallRecords
  <2> QED
    BY <2>1, <2>2, <2>3, KeptDecided DEF Staked
<1>7. ASSUME NEW t \in Calls,
             TestAccessFirst(t) \/ Enter(t) \/ ReturnUnchanged(t) \/ Raise(t) \/ WriteInTransaction(t) \/ RunAgain(t)
      PROVE  Decided'
  <2>1. Frame(t) /\ SameCall(t) /\ destroyed' = destroyed /\ call'[t].pc # "returned"
    BY <1>7, MovesOf DEF Moved, TestAccessFirst, Enter, ReturnUnchanged, Raise, WriteInTransaction, RunAgain
  <2>2. Transaction(t)' = Transaction(t)
    BY <2>1, RowStays DEF Frame, SameCall
  <2>3. ~Staked(t)'
    BY <1>7, <2>1, <2>2, MovesOf DEF Staked, Moved, WriteInTransaction
  <2> QED
    BY <2>1, <2>3, KeptDecided
<1> QED
  BY <1>1, <1>2, <1>3, <1>4, <1>5, <1>6, <1>7 DEF RepositoryNext

-----------------------------------------------------------------------------
(* How the events are numbered.                                             *)

LEMMA NumberedSame ==
  ASSUME NEW s1, NEW s2, NEW n, NEW c1, NEW c2, Numbered(s1, n, c1),
         \A u \in Calls : Event(u) \in s2 <=> Event(u) \in s1,
         \A u \in Calls : Event(u) \in s1 => c2[u].number = c1[u].number
  PROVE  Numbered(s2, n, c2)
<1> HIDE DEF Event
<1>1. \A u \in Calls : Event(u) \in s2 => c2[u].number \in 1 .. n
  BY DEF Numbered
<1>2. \A k \in 1 .. n : \E u \in Calls : Event(u) \in s2 /\ c2[u].number = k
  BY DEF Numbered
<1>3. \A u, v \in Calls : Event(u) \in s2 /\ Event(v) \in s2 /\ c2[u].number = c2[v].number => u = v
  BY DEF Numbered
<1> QED
  BY <1>1, <1>2, <1>3 DEF Numbered

LEMMA NumberedMore ==
  ASSUME NEW s1, NEW s2, NEW n \in Nat, NEW c1, NEW c2, NEW t \in Calls, Numbered(s1, n, c1), Event(t) \notin s1,
         \A u \in Calls : Event(u) \in s2 <=> u = t \/ Event(u) \in s1,
         \A u \in Calls : Event(u) \in s1 => c2[u].number = c1[u].number,
         c2[t].number = n + 1
  PROVE  Numbered(s2, n + 1, c2)
<1> HIDE DEF Event
<1>1. \A u \in Calls : Event(u) \in s2 => c2[u].number \in 1 .. n + 1
  BY DEF Numbered
<1>2. ASSUME NEW k \in 1 .. n + 1 PROVE \E u \in Calls : Event(u) \in s2 /\ c2[u].number = k
  <2>1. CASE k = n + 1
    BY <2>1
  <2>2. CASE k # n + 1
    <3>1. k \in 1 .. n
      BY <2>2
    <3> QED
      BY <3>1 DEF Numbered
  <2> QED
    BY <2>1, <2>2
<1>3. ASSUME NEW u \in Calls, NEW v \in Calls, Event(u) \in s2, Event(v) \in s2, c2[u].number = c2[v].number PROVE u = v
  <2>1. \A w \in Calls : Event(w) \in s1 => c2[w].number # n + 1
    BY DEF Numbered
  <2> QED
    BY <1>3, <2>1 DEF Numbered
<1> QED
  BY <1>1, <1>2, <1>3 DEF Numbered

LEMMA NumberedLess ==
  ASSUME NEW s1, NEW s2, NEW n \in Nat, NEW c1, NEW c2, NEW t \in Calls, Numbered(s1, n + 1, c1), Event(t) \in s1,
         \A u \in Calls : Event(u) \in s2 <=> u # t /\ Event(u) \in s1,
         \A u \in Calls : Event(u) \in s1 => c2[u].number = c1[u].number,
         c1[t].number = n + 1
  PROVE  Numbered(s2, n, c2)
<1> HIDE DEF Event
<1>1. ASSUME NEW u \in Calls, Event(u) \in s2 PROVE c2[u].number \in 1 .. n
  <2>1. c1[u].number \in 1 .. n + 1 /\ c1[u].number # n + 1 /\ c2[u].number = c1[u].number
    BY <1>1 DEF Numbered
  <2> QED
    BY <2>1
<1>2. ASSUME NEW k \in 1 .. n PROVE \E u \in Calls : Event(u) \in s2 /\ c2[u].number = k
  <2>1. k \in 1 .. n + 1 /\ k # n + 1
    OBVIOUS
  <2>2. PICK u \in Calls : Event(u) \in s1 /\ c1[u].number = k
    BY <2>1 DEF Numbered
  <2> QED
    BY <2>1, <2>2
<1>3. \A u, v \in Calls : Event(u) \in s2 /\ Event(v) \in s2 /\ c2[u].number = c2[v].number => u = v
  BY DEF Numbered
<1> QED
  BY <1>1, <1>2, <1>3 DEF Numbered

LEMMA NumberedOnce ==
  ASSUME NEW s1, NEW s2, NEW m \in Nat, NEW n \in Nat, NEW c, Numbered(s1, m, c), Numbered(s2, n, c),
         \A u \in Calls : Event(u) \in s2 <=> Event(u) \in s1
  PROVE  m = n
<1> HIDE DEF Event
<1>1. CASE m < n
  <2>1. n \in 1 .. n
    BY <1>1
  <2>2. PICK u \in Calls : Event(u) \in s2 /\ c[u].number = n
    BY <2>1 DEF Numbered
  <2>3. n \in 1 .. m
    BY <2>2 DEF Numbered
  <2> QED
    BY <1>1, <2>3
<1>2. CASE n < m
  <2>1. m \in 1 .. m
    BY <1>2
  <2>2. PICK u \in Calls : Event(u) \in s1 /\ c[u].number = m
    BY <2>1 DEF Numbered
  <2>3. m \in 1 .. n
    BY <2>2 DEF Numbered
  <2> QED
    BY <1>2, <2>3
<1> QED
  BY <1>1, <1>2

LEMMA CountedInit == RepositoryInit => Counted
BY DEF RepositoryInit, Counted, Numbered, Event, Locked, Snapshot, IdleCall, Inside

\* Whose events are in effect, or in a copy.
LEMMA PublisherOf ==
  ASSUME Typed, Effects, NEW u \in Calls, NEW v \in Calls, Event(u) \in store \/ Event(u) \in call[v].copy.store
  PROVE  /\ Protected(u) /\ Effective(u) /\ call[u].next > 1
         /\ \E i \in DOMAIN Of(u).writes : RecordOf(Of(u).writes[i]) = "realtime_events"
<1>1. Explained(Event(u))
  BY DEF Effects, Placed
<1>2. Effective(u)
  BY <1>1, CallsAssumption DEF Explained, Event
<1>3. PICK i \in 1 .. call[u].next - 1 : RecordOf(Of(u).writes[i]) = "realtime_events"
  BY <1>1, CallsAssumption DEF Explained, Event
<1>4. /\ DOMAIN Of(u).writes = 1 .. Len(Of(u).writes) /\ Len(Of(u).writes) \in Nat /\ call[u].next \in Nat
      /\ call[u].next - 1 <= Len(Of(u).writes)
  BY OfCall DEF List, Typed, CallRecords, Effects, Placed
<1>5. i \in DOMAIN Of(u).writes /\ call[u].next > 1
  BY <1>3, <1>4
<1>6. Of(u).writes[i] = "realtime_events"
  BY <1>3 DEF RecordOf
<1>7. Protected(u)
  BY <1>5, <1>6, OfCall DEF Keeps, Protected
<1> QED
  BY <1>2, <1>3, <1>5, <1>7

\* Steps by which no event comes or goes.
LEMMA KeptCounted ==
  ASSUME Typed, Effects, Counted, NEW t \in Calls, Frame(t), sequence' = sequence,
         \A u \in Calls : Event(u) \in store' <=> Event(u) \in store,
         SameNumber(t) \/ call[t].next = 1 \/ ~Effective(t),
         Locked(t)', Snapshot(t)'
  PROVE  Counted'
<1>1. ASSUME NEW u \in Calls, Event(u) \in store \/ \E v \in Calls : Event(u) \in call[v].copy.store
      PROVE  call'[u].number = call[u].number
  <2>1. CASE u = t
    BY <1>1, <2>1, NothingYet DEF SameNumber, Event
  <2>2. CASE u # t
    BY <2>2 DEF Frame
  <2> QED
    BY <2>1, <2>2
<1>2. Numbered(store', sequence', call')
  BY <1>1, NumberedSame DEF Counted
<1>3. ASSUME NEW v \in Calls \ {t} PROVE Locked(v)' /\ Snapshot(v)'
  <2>1. /\ call'[v] = call[v] /\ Locks(v)' = Locks(v) /\ Copies(v)' = Copies(v) /\ Inside(v)' = Inside(v)
        /\ Transaction(v)' = Transaction(v)
    BY OthersStay DEF Frame
  <2>2. Locked(v)'
    BY <2>1 DEF Counted, Locked
  <2>3. ASSUME Transaction(v), Inside(v) PROVE Numbered(call'[v].copy.store, call'[v].copy.sequence, call')
    BY <1>1, <2>1, <2>3, NumberedSame DEF Counted, Snapshot
  <2> QED
    BY <2>1, <2>2, <2>3 DEF Counted, Snapshot
<1> QED
  BY <1>2, <1>3 DEF Counted

LEMMA QuietCounted ==
  ASSUME Typed, Effects, Counted, NEW t \in Calls,
         \/ \E m \in Methods : Call(t, m)
         \/ \E d \in Memory!Destroyable : Pass(t, d)
         \/ TestAccessFirst(t) \/ Enter(t) \/ ReturnUnchanged(t) \/ Return(t)
         \/ WriteInTransaction(t) \/ RunAgain(t)
  PROVE  Counted'
<1>1. ASSUME NEW m \in Methods, Call(t, m) PROVE Counted'
  <2>1. /\ Frame(t) /\ call'[t].pc = "called" /\ store' = store /\ sequence' = sequence
        /\ call[t].next = 1
    BY <1>1, MovesOf DEF Moved, Call, Effects, Placed
  <2>2. Locked(t)' /\ Snapshot(t)'
    BY <2>1 DEF Locked, Snapshot, Inside
  <2> QED
    BY <2>1, <2>2, KeptCounted
<1>2. ASSUME NEW d \in Memory!Destroyable, Pass(t, d) PROVE Counted'
  <2>1. /\ Frame(t) /\ SameCall(t) /\ Moved(t, "writing", call[t].next, call[t].copy)
        /\ call'[t].number = (IF Transaction(t) THEN call[t].copy.sequence ELSE sequence) + 1
    BY <1>2, MovesOf
  <2>2. store' = store /\ sequence' = sequence /\ call[t].next = 1
    BY <1>2 DEF Pass, Entered, Effects, Placed
  <2>3. Locks(t)' = Locks(t) /\ Copies(t)' = Copies(t) /\ Transaction(t)' = Transaction(t)
    BY <2>1, RowStays DEF Frame, SameCall
  <2>4. Locks(t) \/ Transaction(t) => Inside(t)
    BY <1>2 DEF Pass, Entered, Inside
  <2>5. /\ Event(t) \notin store
        /\ \A u \in Calls : Event(u) \in call[t].copy.store => u # t
    BY <2>2, NothingYet DEF Event
  <2>6. Locked(t)'
    BY <2>1, <2>2, <2>3, <2>4, <2>5, Guarded DEF Locked, Counted, Moved, Event
  <2>7. Transaction(t) => Numbered(call'[t].copy.store, call'[t].copy.sequence, call')
    <3> SUFFICES ASSUME Transaction(t) PROVE Numbered(call'[t].copy.store, call'[t].copy.sequence, call')
      OBVIOUS
    <3>1. Numbered(call[t].copy.store, call[t].copy.sequence, call)
      BY <2>4 DEF Counted, Snapshot
    <3>2. \A u \in Calls : Event(u) \in call[t].copy.store => call'[u].number = call[u].number
      BY <2>1, <2>5 DEF Frame
    <3> QED
      BY <2>1, <3>1, <3>2, NumberedSame DEF Moved
  <2>8. Snapshot(t)'
    BY <2>1, <2>3, <2>7 DEF Snapshot, Moved
  <2> QED
    BY <2>1, <2>2, <2>6, <2>8, KeptCounted
<1>3. ASSUME Enter(t) PROVE Counted'
  <2>1. /\ Frame(t) /\ SameCall(t) /\ SameNumber(t)
        /\ Moved(t, "entered", call[t].next, IF Copies(t) THEN [store |-> store, sequence |-> sequence] ELSE NoCopy)
    BY <1>3, MovesOf
  <2>2. store' = store /\ sequence' = sequence /\ call[t].next = 1
    BY <1>3 DEF Enter, Effects, Placed
  <2>3. /\ Locks(t)' = Locks(t) /\ Copies(t)' = Copies(t) /\ Transaction(t)' = Transaction(t)
        /\ Transaction(t) => Copies(t)
    BY <2>1, RowStays DEF Frame, SameCall, Transaction, Copies
  <2>4. Event(t) \notin store
    BY <2>2, NothingYet DEF Event
  <2>5. Locked(t)'
    BY <2>1, <2>2, <2>3, <2>4 DEF Locked, Moved, Event
  <2>6. Numbered(store, sequence, call')
    <3>1. \A u \in Calls : call'[u].number = call[u].number
      BY <2>1 DEF Frame, SameNumber
    <3> QED
      BY <3>1, NumberedSame DEF Counted
  <2>7. Snapshot(t)'
    BY <2>1, <2>3, <2>6 DEF Snapshot, Moved
  <2> QED
    BY <2>1, <2>2, <2>5, <2>7, KeptCounted
<1>4. ASSUME WriteInTransaction(t) PROVE Counted'
  <2>1. Frame(t) /\ SameCall(t) /\ SameNumber(t) /\ Moved(t, "writing", call[t].next + 1, call[t].copy)
    BY <1>4, MovesOf
  <2>2. store' = store /\ sequence' = sequence /\ Transaction(t) /\ call[t].pc = "writing"
    BY <1>4 DEF WriteInTransaction
  <2>3. Locks(t)' = Locks(t) /\ ~Locks(t)
    BY <2>1, <2>2, RowStays, Guarded DEF Frame, SameCall
  <2>4. \A u \in Calls : call'[u].number = call[u].number
    BY <2>1 DEF Frame, SameNumber
  <2>5. Numbered(call[t].copy.store, call[t].copy.sequence, call) /\ call[t].number = call[t].copy.sequence + 1
    BY <2>2 DEF Counted, Snapshot, Inside
  <2>6. Numbered(call'[t].copy.store, call'[t].copy.sequence, call')
    BY <2>1, <2>4, <2>5, NumberedSame DEF Moved
  <2>7. Locked(t)' /\ Snapshot(t)'
    BY <2>1, <2>3, <2>4, <2>5, <2>6 DEF Locked, Snapshot, Moved
  <2> QED
    BY <2>1, <2>2, <2>7, KeptCounted
<1>5. ASSUME TestAccessFirst(t) \/ ReturnUnchanged(t) \/ Return(t) \/ RunAgain(t) PROVE Counted'
  <2>1. /\ Frame(t) /\ call'[t].pc \notin {"entered", "writing"} /\ store' = store /\ sequence' = sequence
        /\ SameNumber(t) \/ RunAgain(t)
    BY <1>5, MovesOf DEF Moved, TestAccessFirst, ReturnUnchanged, Return, RunAgain
  <2>2. Locked(t)' /\ Snapshot(t)'
    BY <2>1 DEF Locked, Snapshot, Inside
  <2>3. RunAgain(t) => ~Effective(t)
    BY DEF RunAgain, Effective
  <2> QED
    BY <2>1, <2>2, <2>3, KeptCounted
<1> QED
  BY <1>1, <1>2, <1>3, <1>4, <1>5

\* Steps by which the events change: nobody else is inside the lock, or
\* has numbers of its own.
LEMMA ChangedCounted ==
  ASSUME Typed, Effects, Counted, NEW t \in Calls, Frame(t), SameNumber(t),
         Numbered(store', sequence', call'),
         Locked(t)', Snapshot(t)',
         \A u \in Calls \ {t} : ~(Locks(u) /\ Inside(u))
  PROVE  Counted'
<1>1. \A u \in Calls : call'[u].number = call[u].number
  BY DEF Frame, SameNumber
<1>2. ASSUME NEW v \in Calls \ {t} PROVE Locked(v)' /\ Snapshot(v)'
  <2>1. /\ call'[v] = call[v] /\ Locks(v)' = Locks(v) /\ Inside(v)' = Inside(v) /\ Transaction(v)' = Transaction(v)
    BY OthersStay DEF Frame
  <2>2. Locked(v)'
    BY <2>1 DEF Locked, Inside
  <2>3. ASSUME Transaction(v), Inside(v) PROVE Numbered(call'[v].copy.store, call'[v].copy.sequence, call')
    BY <1>1, <2>1, <2>3, NumberedSame DEF Counted, Snapshot
  <2> QED
    BY <2>1, <2>2, <2>3 DEF Counted, Snapshot
<1> QED
  BY <1>2 DEF Counted

LEMMA AssignCounted == ASSUME Typed, Effects, Counted, NEW t \in Calls, Assign(t) PROVE Counted'
<1>1. Frame(t) /\ SameCall(t) /\ SameNumber(t) /\ Moved(t, "writing", call[t].next + 1, call[t].copy)
  BY MovesOf
<1> DEFINE d == Of(t).writes[call[t].next]
<1>2. /\ ~Transaction(t) /\ call[t].pc = "writing"
      /\ call[t].next <= Len(Of(t).writes) /\ call[t].next \in Nat \ {0}
      /\ DOMAIN Of(t).writes = 1 .. Len(Of(t).writes) /\ Len(Of(t).writes) \in Nat
      /\ sequence \in Nat
  BY OfCall DEF Assign, Typed, CallRecords, List
<1>3. /\ Locks(t)' = Locks(t) /\ Copies(t)' = Copies(t) /\ Transaction(t)' = Transaction(t) /\ Inside(t) /\ Inside(t)'
      /\ call'[t].number = call[t].number /\ call'[t].copy = call[t].copy
  BY <1>1, <1>2, RowStays DEF Frame, SameCall, SameNumber, Moved, Inside
<1>4. "realtime_events" \notin Memory!Destroyable
  BY DEF Memory!Destroyable
<1>5. \A u \in Calls : Event(u) \in store' <=> Event(u) \in store \/ (u = t /\ d = "realtime_events")
  <2>1. call[t].target # "realtime_events"
    BY <1>4 DEF Typed, CallRecords
  <2> QED
    BY <2>1 DEF Assign, In, Event
<1>6. CASE d # "realtime_events"
  <2>1. sequence' = sequence
    BY <1>6 DEF Assign
  <2>2. Locked(t)'
    BY <1>2, <1>3, <1>5, <1>6, <2>1 DEF Counted, Locked, Event
  <2>3. Snapshot(t)'
    BY <1>2, <1>3 DEF Snapshot
  <2> QED
    BY <1>1, <1>5, <1>6, <2>1, <2>2, <2>3, KeptCounted
<1>7. CASE d = "realtime_events"
  <2>1. Locks(t)
    <3>1. Of(t).guard \notin {"none", "compare"}
      BY <1>2, <1>7, OfCall DEF Keeps
    <3> QED
      BY <1>2, <3>1, Guarded DEF Protected
  <2>2. \A u \in Calls \ {t} : ~(Locks(u) /\ Inside(u))
    BY <1>3, <2>1, OneHolder
  <2>3. sequence' = call[t].number
    BY <1>7 DEF Assign
  <2>4. \A u \in Calls : call'[u].number = call[u].number
    BY <1>1 DEF Frame, SameNumber
  <2>5. CASE Event(t) \in store
    <3>1. sequence' = sequence
      BY <1>2, <2>1, <2>3, <2>5 DEF Counted, Locked
    <3>2. Numbered(store', sequence', call')
      BY <1>5, <2>4, <2>5, <3>1, NumberedSame DEF Counted
    <3>3. Event(t) \in store' /\ Event(t)' = Event(t)
      BY <1>5, <2>5 DEF Event
    <3>4. Locked(t)'
      BY <1>2, <1>3, <2>1, <2>3, <2>5, <3>1, <3>3 DEF Counted, Locked
    <3>5. Snapshot(t)'
      BY <1>2, <1>3 DEF Snapshot
    <3> QED
      BY <1>1, <2>2, <3>2, <3>4, <3>5, ChangedCounted
  <2>6. CASE Event(t) \notin store
    <3>1. sequence' = sequence + 1 /\ call'[t].number = sequence + 1
      BY <1>2, <1>3, <2>1, <2>3, <2>6 DEF Counted, Locked
    <3>2. Numbered(store', sequence', call')
      BY <1>2, <1>5, <1>7, <2>4, <2>6, <3>1, NumberedMore DEF Counted
    <3>3. Event(t) \in store' /\ Event(t)' = Event(t)
      BY <1>5, <1>7 DEF Event
    <3>4. Locks(t) /\ Copies(t) => sequence' = call'[t].copy.sequence + 1
      BY <1>3, <2>6, <3>1 DEF Counted, Locked
    <3>5. Locked(t)'
      BY <1>3, <2>3, <3>3, <3>4 DEF Locked
    <3>6. Snapshot(t)'
      BY <1>2, <1>3 DEF Snapshot
    <3> QED
      BY <1>1, <2>2, <3>2, <3>5, <3>6, ChangedCounted
  <2> QED
    BY <2>5, <2>6
<1> QED
  BY <1>6, <1>7

LEMMA CommitCounted == ASSUME Typed, Effects, Isolated, Counted, NEW t \in Calls, Commit(t) PROVE Counted'
<1>1. Frame(t) /\ SameCall(t) /\ SameNumber(t) /\ Moved(t, "returned", call[t].next, NoCopy)
  BY MovesOf
<1>2. /\ Transaction(t) /\ call[t].pc = "writing" /\ Inside(t)
      /\ call[t].next > Len(Of(t).writes) /\ call[t].next \in Nat
      /\ DOMAIN Of(t).writes = 1 .. Len(Of(t).writes) /\ Len(Of(t).writes) \in Nat
      /\ sequence \in Nat /\ call[t].copy.sequence \in Nat
  BY OfCall DEF Commit, Typed, CallRecords, List, Inside
<1>3. Locked(t)' /\ Snapshot(t)'
  BY <1>1 DEF Locked, Snapshot, Moved, Inside
<1>4. "realtime_events" \notin Memory!Destroyable
  BY DEF Memory!Destroyable
<1>5. \A u \in Calls : Event(u) \in store' <=> Event(u) \in store \/ (u = t /\ "realtime_events" \in WritesOf(t))
  <2>1. call[t].target # "realtime_events"
    BY <1>4 DEF Typed, CallRecords
  <2>2. "realtime_events" \in WritesOf(t) <=> "realtime_events" \in {RecordOf(Of(t).writes[i]) : i \in 1 .. Len(Of(t).writes)}
    BY <1>2 DEF WritesOf
  <2> QED
    BY <2>1, <2>2 DEF Commit, After, In, Event
<1>6. CASE "realtime_events" \notin WritesOf(t)
  <2>1. sequence' = sequence
    BY <1>6 DEF Commit
  <2> QED
    BY <1>1, <1>3, <1>5, <1>6, <2>1, KeptCounted
<1>7. CASE "realtime_events" \in WritesOf(t)
  <2>1. Event(t) \notin store /\ Event(t) \notin call[t].copy.store
    BY <1>2, NothingYet DEF Effective, Event
  <2>2. "realtime_events" \in Written(t)
    <3>1. PICK i \in 1 .. Len(Of(t).writes) : RecordOf(Of(t).writes[i]) = "realtime_events"
      BY <1>7, WritesAre
    <3>2. i \in 1 .. call[t].next - 1
      BY <1>2
    <3> QED
      BY <3>1, <3>2 DEF Written, Documents
  <2>3. ASSUME NEW u \in Calls \ {t}, Event(u) \in store PROVE Event(u) \in call[t].copy.store
    <3>1. PICK i \in DOMAIN Of(u).writes : RecordOf(Of(u).writes[i]) = "realtime_events"
      BY <2>3, PublisherOf
    <3>2. "realtime_events" \in Documents(Of(u).writes[i]) /\ Shared(t, u, "realtime_events")
      BY <3>1 DEF Documents, Shared, SharedRecords
    <3>3. Latest(t, u)
      BY <1>2 DEF Isolated, Alone
    <3>4. <<u, RecordOf(Of(u).writes[i])>> = Event(u)
      BY <3>1 DEF Event
    <3> QED
      BY <2>2, <2>3, <3>2, <3>3, <3>4 DEF Latest
  <2>4. ASSUME NEW u \in Calls \ {t}, Event(u) \in call[t].copy.store PROVE Event(u) \in store
    <3>1. Event(u)[2] \notin destroyed
      BY <1>4 DEF Event, Typed
    <3>2. Fresh(t)
      BY <1>2 DEF Isolated, Alone
    <3> QED
      BY <2>4, <3>1, <3>2 DEF Fresh
  <2>5. call[t].copy.sequence = sequence /\ call[t].number = sequence + 1
    <3>1. Numbered(call[t].copy.store, call[t].copy.sequence, call) /\ call[t].number = call[t].copy.sequence + 1
      BY <1>2 DEF Counted, Snapshot
    <3>2. \A u \in Calls : Event(u) \in store <=> Event(u) \in call[t].copy.store
      BY <2>1, <2>3, <2>4
    <3>3. Numbered(store, sequence, call)
      BY DEF Counted
    <3>4. call[t].copy.sequence = sequence
      BY <1>2, <3>1, <3>2, <3>3, NumberedOnce
    <3> QED
      BY <3>1, <3>4
  <2>6. sequence' = sequence + 1
    BY <1>7, <2>5 DEF Commit
  <2>7. \A u \in Calls : call'[u].number = call[u].number
    BY <1>1 DEF Frame, SameNumber
  <2>8. Numbered(store', sequence', call')
    BY <1>2, <1>5, <1>7, <2>1, <2>5, <2>6, <2>7, NumberedMore DEF Counted
  <2>9. \A u \in Calls \ {t} : ~(Locks(u) /\ Inside(u))
    BY <1>2, Guarded
  <2> QED
    BY <1>1, <1>3, <2>8, <2>9, ChangedCounted
<1> QED
  BY <1>6, <1>7

LEMMA RaiseCounted == ASSUME Typed, Effects, Stays, Counted, NEW t \in Calls, Raise(t) PROVE Counted'
<1>1. Frame(t) /\ SameCall(t) /\ SameNumber(t) /\ Moved(t, "left", call[t].next, NoCopy)
  BY MovesOf
<1>2. store' = PutBack(t) /\ sequence' = PutBackSequence(t) /\ call[t].pc \in {"called", "entered", "writing"}
  BY DEF Raise, Entered
<1>3. Locked(t)' /\ Snapshot(t)'
  BY <1>1 DEF Locked, Snapshot, Moved, Inside
<1>4. CASE Of(t).guard \notin {"serial", "restore"}
  <2>1. store' = store /\ sequence' = sequence
    BY <1>2, <1>4 DEF PutBack, PutBackSequence
  <2> QED
    BY <1>1, <1>3, <2>1, KeptCounted
<1>5. CASE Of(t).guard \in {"serial", "restore"}
  <2>1. Locks(t) /\ Copies(t) /\ Inside(t)
    BY <1>5 DEF Raise, Locks, Copies, Inside, Entered
  <2>2. \A u \in Calls \ {t} : ~(Locks(u) /\ Inside(u))
    BY <2>1, OneHolder
  <2>3. Event(t) \notin call[t].copy.store /\ (Event(t) \in store => "realtime_events" \in WritesOf(t))
    <3>1. \A p \in call[t].copy.store : p[1] # t
      BY DEF Effects, Placed
    <3> QED
      BY <3>1, PublisherOf DEF Event, WritesOf
  <2>4. ASSUME NEW u \in Calls \ {t} PROVE Event(u) \in store <=> Event(u) \in call[t].copy.store
    <3>1. CopyCurrent(t)
      BY <2>1 DEF Stays
    <3>2. ASSUME Event(u) \in store \/ Event(u) \in call[t].copy.store PROVE Protected(u) /\ "realtime_events" \in Names
      <4>1. PICK i \in DOMAIN Of(u).writes : RecordOf(Of(u).writes[i]) = "realtime_events"
        BY <3>2, PublisherOf
      <4>2. i \in Nat
        BY <4>1, OfCall DEF List
      <4> QED
        BY <3>2, <4>1, <4>2, PublisherOf, NameOf
    <3> QED
      BY <3>1, <3>2 DEF CopyCurrent, Event
  <2>5. \A u \in Calls : Event(u) \in store' <=> u # t /\ Event(u) \in store
    <3>1. CASE Of(t).guard = "serial"
      BY <1>2, <2>3, <2>4, <3>1 DEF PutBack
    <3>2. CASE Of(t).guard = "restore"
      <4>1. store' = (store \ In(WritesOf(t), store)) \cup In(WritesOf(t), call[t].copy.store)
        BY <1>2, <3>2 DEF PutBack
      <4>2. \A u \in Calls : Event(u) \in store' <=> IF "realtime_events" \in WritesOf(t) THEN Event(u) \in call[t].copy.store
                                                                                       ELSE Event(u) \in store
        BY <4>1 DEF In, Event
      <4> QED
        BY <2>3, <2>4, <4>2
    <3> QED
      BY <1>5, <3>1, <3>2
  <2>6. sequence' = call[t].copy.sequence /\ call[t].copy.sequence \in Nat
    BY <1>2, <1>5 DEF PutBackSequence, Typed, CallRecords
  <2>7. \A u \in Calls : call'[u].number = call[u].number
    BY <1>1 DEF Frame, SameNumber
  <2>8. CASE Event(t) \notin store
    <3>1. sequence' = sequence
      BY <2>1, <2>6, <2>8 DEF Counted, Locked
    <3> QED
      BY <1>1, <1>3, <2>5, <2>8, <3>1, KeptCounted
  <2>9. CASE Event(t) \in store
    <3>1. call[t].pc = "writing"
      BY <1>2, <2>9, PublisherOf DEF Effective
    <3>2. sequence = sequence' + 1 /\ call[t].number = sequence
      BY <2>1, <2>6, <2>9, <3>1 DEF Counted, Locked
    <3>3. Numbered(store', sequence', call')
      BY <2>5, <2>6, <2>7, <2>9, <3>2, NumberedLess DEF Counted
    <3> QED
      BY <1>1, <1>3, <2>2, <3>3, ChangedCounted
  <2> QED
    BY <2>8, <2>9
<1> QED
  BY <1>4, <1>5

LEMMA CountedStep == Typed /\ Effects /\ Stays /\ Isolated /\ Counted /\ [RepositoryNext]_repositoryVars => Counted'
<1> SUFFICES ASSUME Typed, Effects, Stays, Isolated, Counted, [RepositoryNext]_repositoryVars PROVE Counted'
  OBVIOUS
<1>1. CASE UNCHANGED repositoryVars
  <2>1. store' = store /\ sequence' = sequence /\ call' = call /\ backend' = backend
    BY <1>1 DEF repositoryVars
  <2>2. \A t \in Calls : /\ Locks(t)' = Locks(t) /\ Copies(t)' = Copies(t) /\ Transaction(t)' = Transaction(t)
                         /\ Inside(t)' = Inside(t)
    BY <2>1, RowStays DEF Inside
  <2> QED
    BY <2>1, <2>2 DEF Counted, Locked, Snapshot, Event
<1> QED
  BY <1>1, QuietCounted, AssignCounted, CommitCounted, RaiseCounted DEF RepositoryNext

-----------------------------------------------------------------------------
(* What the search projection follows.                                      *)

\* A transaction that writes the Claim has all evidence and handoffs there are.
LEMMA ProjectionLatest ==
  ASSUME Typed, Effects, Isolated, NEW t \in Calls, Commit(t), "claims" \in Written(t), destroyed = {}
  PROVE  In(Refreshing, call[t].copy.store) = In(Refreshing, store)
<1>1. Transaction(t) /\ call[t].pc = "writing" /\ Fresh(t) /\ \A u \in Calls \ {t} : Latest(t, u)
  BY DEF Commit, Isolated, Alone
<1>2. call[t].copy.store \subseteq store
  BY <1>1 DEF Fresh
<1>3. ASSUME NEW p \in store, p[2] \in Refreshing PROVE p \in call[t].copy.store
  <2>1. p[1] \in Calls \ {t} /\ Explained(p)
    <3>1. p \in Pairs /\ Explained(p)
      BY DEF Typed, Effects
    <3>2. p[1] # t
      BY <1>1, NothingYet DEF Effective
    <3>3. p[1] # Earlier
      BY <1>3, <3>1 DEF Explained, Refreshing
    <3> QED
      BY <3>1, <3>2, <3>3 DEF Pairs
  <2>2. PICK i \in 1 .. call[p[1]].next - 1 : p[2] = RecordOf(Of(p[1]).writes[i])
    BY <2>1, CallsAssumption DEF Explained
  <2>3. i \in DOMAIN Of(p[1]).writes
    BY <2>1, <2>2, OfCall DEF List, Typed, CallRecords, Effects, Placed
  <2>5. "claims" \in Documents(Of(p[1]).writes[i]) /\ Shared(t, p[1], "claims")
    BY <1>3, <2>2 DEF Documents, Shared, SharedRecords
  <2>6. p = <<p[1], RecordOf(Of(p[1]).writes[i])>>
    BY <2>2 DEF Typed, Pairs
  <2> QED
    BY <1>1, <2>1, <2>3, <2>5, <2>6 DEF Latest
<1> QED
  BY <1>2, <1>3 DEF In

\* A Claim left without a complete projection, by a call that has returned.
Incomplete == search \in {Absent, Partial} /\ \E t \in Calls : Returned(t) /\ Includes(t, "bare_claims")

LEMMA NotMarked == \A s : In(Refreshing, s) \notin {Absent, Partial}
<1> SUFFICES ASSUME NEW s, In(Refreshing, s) \in {Absent, Partial} PROVE FALSE
  OBVIOUS
<1>1. \A p \in In(Refreshing, s) : p[2] \in Refreshing
  BY DEF In
<1>2. <<Earlier, "staff_search">>[2] \notin Refreshing /\ <<Earlier, "customer_reference">>[2] \notin Refreshing
  BY DEF Refreshing
<1>3. <<Earlier, "staff_search">> \in Absent /\ <<Earlier, "customer_reference">> \in Partial
  BY DEF Absent, Partial
<1> QED
  BY <1>1, <1>2, <1>3

LEMMA ReturnedStays ==
  ASSUME Typed, NEW t \in Calls, Frame(t), call[t].pc # "returned", search' \in {Absent, Partial}
  PROVE  Incomplete => Incomplete'
<1> SUFFICES ASSUME NEW u \in Calls, Returned(u), Includes(u, "bare_claims") PROVE Incomplete'
  BY DEF Incomplete
<1>1. u \in Calls \ {t} /\ call'[u] = call[u]
  BY DEF Returned, Frame
<1>2. Of(u)' = Of(u)
  BY <1>1, OthersStay
<1>3. Returned(u)' /\ Includes(u, "bare_claims")'
  BY <1>1, <1>2 DEF Returned, Includes
<1> QED
  BY <1>3 DEF Incomplete

LEMMA SearchStep ==
  Typed /\ Effects /\ Isolated /\ SearchNeverStale /\ [RepositoryNext]_repositoryVars => SearchNeverStale'
<1> SUFFICES ASSUME Typed, Effects, Isolated, SearchNeverStale, [RepositoryNext]_repositoryVars,
                    backend' = "mongo", destroyed' = {}
             PROVE  search' = In(Refreshing, store') \/ Incomplete'
  BY DEF SearchNeverStale, Refreshing, Incomplete
<1>1. backend = "mongo" /\ destroyed = {} => search = In(Refreshing, store) \/ Incomplete
  BY DEF SearchNeverStale, Refreshing, Incomplete
<1>2. CASE UNCHANGED repositoryVars
  <2>1. Incomplete => Incomplete'
    BY <1>2 DEF repositoryVars, Incomplete, Returned, Includes, Of, Row
  <2> QED
    BY <1>1, <1>2, <2>1 DEF repositoryVars
<1>3. ASSUME NEW t \in Calls, Frame(t), call[t].pc # "returned", backend = "mongo", search' = search,
             destroyed' = destroyed, In(Refreshing, store') = In(Refreshing, store)
      PROVE  search' = In(Refreshing, store') \/ Incomplete'
  <2>1. CASE search = In(Refreshing, store)
    BY <1>3, <2>1
  <2>2. CASE Incomplete
    BY <1>3, <2>2, ReturnedStays DEF Incomplete
  <2> QED
    BY <1>1, <1>3, <2>1, <2>2
<1>4. ASSUME NEW t \in Calls,
             \/ \E m \in Methods : Call(t, m)
             \/ \E d \in Memory!Destroyable : Pass(t, d)
             \/ TestAccessFirst(t) \/ Enter(t) \/ ReturnUnchanged(t) \/ Return(t) \/ WriteInTransaction(t) \/ RunAgain(t)
      PROVE  search' = In(Refreshing, store') \/ Incomplete'
  <2>1. Frame(t)
    BY <1>4, MovesOf
  <2>2. call[t].pc # "returned" /\ backend' = backend /\ search' = search /\ destroyed' = destroyed /\ store' = store
    BY <1>4 DEF Call, Pass, TestAccessFirst, Enter, Entered, ReturnUnchanged, Return, WriteInTransaction, RunAgain
  <2> QED
    BY <1>3, <2>1, <2>2
<1>5. ASSUME NEW t \in Calls, Raise(t) PROVE search' = In(Refreshing, store') \/ Incomplete'
  <2>1. /\ Frame(t) /\ call[t].pc # "returned"
        /\ backend = "mongo" /\ search' = search /\ destroyed' = destroyed /\ store' = PutBack(t)
    BY <1>5, MovesOf DEF Raise, Entered
  <2>2. PutBack(t) = store
    BY <1>5, <2>1, PutBackOf, Guarded
  <2> QED
    BY <1>3, <2>1, <2>2
<1>6. ASSUME NEW t \in Calls, Assign(t) PROVE search' = In(Refreshing, store') \/ Incomplete'
  <2> DEFINE d == Of(t).writes[call[t].next]
  <2>1. /\ Frame(t) /\ call[t].pc # "returned"
        /\ backend = "mongo" /\ search' = search /\ Of(t).guard # "transaction"
        /\ call[t].next \in DOMAIN Of(t).writes
    <3>1. Frame(t) /\ call[t].pc # "returned"
      BY <1>6, MovesOf DEF Assign
    <3>2. search' = search /\ backend' = backend /\ ~Transaction(t)
      BY <1>6 DEF Assign
    <3>3. backend = "mongo" /\ Of(t).guard # "transaction"
      BY <3>2 DEF Transaction
    <3>4. call[t].next \in Nat \ {0} /\ call[t].next <= Len(Of(t).writes)
      BY <1>6 DEF Assign, Typed, CallRecords
    <3>5. call[t].next \in DOMAIN Of(t).writes
      BY <3>4, OfCall DEF List
    <3> QED
      BY <3>1, <3>2, <3>3, <3>5
  <2>2. d \notin Refreshing /\ d # "destroyed"
    BY <2>1, OfCall DEF Keeps, Refreshing
  <2>3. store' = store \cup {<<t, d>>} /\ destroyed' = destroyed
    BY <1>6, <2>2 DEF Assign
  <2>4. In(Refreshing, store') = In(Refreshing, store)
    BY <2>2, <2>3 DEF In
  <2> QED
    BY <1>3, <2>1, <2>3, <2>4
<1>7. ASSUME NEW t \in Calls, Commit(t) PROVE search' = In(Refreshing, store') \/ Incomplete'
  <2> DEFINE n == Len(Of(t).writes)
  <2> DEFINE own == {<<t, RecordOf(Of(t).writes[i])>> : i \in 1 .. n}
  <2>1. /\ backend = "mongo" /\ destroyed = {} /\ "destroyed" \notin WritesOf(t)
        /\ DOMAIN Of(t).writes = 1 .. n /\ n \in Nat /\ call[t].next > n /\ call[t].next \in Nat
        /\ call[t].pc # "returned" /\ Frame(t) /\ SameCall(t) /\ call'[t].pc = "returned"
    BY <1>7, OfCall, MovesOf DEF Commit, List, Typed, CallRecords, Moved
  <2>2. \A s : After(t, n, s) = s \cup own
    BY <2>1 DEF After, WritesOf
  <2>3. store' = store \cup own /\ search' = ProjectionAfter(t)
    BY <1>7, <2>2 DEF Commit
  <2>4. CASE Includes(t, "bare_claims")
    <3>1. search' = Absent
      BY <2>3, <2>4 DEF ProjectionAfter
    <3>2. Of(t)' = Of(t)
      BY <2>1, RowStays DEF Frame, SameCall
    <3>3. Returned(t)' /\ Includes(t, "bare_claims")'
      BY <2>1, <2>4, <3>2 DEF Returned, Includes
    <3> QED
      BY <3>1, <3>3 DEF Incomplete
  <2>5. CASE ~Includes(t, "bare_claims") /\ Includes(t, "moved_claims")
    <3>1. CASE Incomplete
      <4>1. search' = Partial
        BY <2>3, <2>5, <3>1 DEF ProjectionAfter, Incomplete
      <4> QED
        BY <2>1, <3>1, <4>1, ReturnedStays
    <3>2. CASE search = In(Refreshing, store)
      <4>1. search' = In(Refreshing, search \cup own)
        BY <2>2, <2>3, <2>5, <3>2, NotMarked DEF ProjectionAfter
      <4> QED
        BY <2>3, <3>2, <4>1 DEF In
    <3> QED
      BY <1>1, <2>1, <3>1, <3>2
  <2>6. CASE ~Includes(t, "bare_claims") /\ ~Includes(t, "moved_claims") /\ "claims" \in Written(t)
    <3>1. search' = In(Refreshing, call[t].copy.store \cup own)
      BY <2>2, <2>3, <2>6 DEF ProjectionAfter
    <3>2. In(Refreshing, call[t].copy.store) = In(Refreshing, store)
      BY <1>7, <2>1, <2>6, ProjectionLatest
    <3> QED
      BY <2>3, <3>1, <3>2 DEF In
  <2>7. CASE ~Includes(t, "bare_claims") /\ ~Includes(t, "moved_claims") /\ "claims" \notin Written(t)
    <3>1. search' = search
      BY <2>3, <2>7 DEF ProjectionAfter
    <3>2. ASSUME NEW i \in 1 .. n PROVE RecordOf(Of(t).writes[i]) \notin Refreshing
      <4>1. i \in 1 .. call[t].next - 1
        BY <2>1
      <4> QED
        BY <2>7, <4>1 DEF Written, Documents
    <3>3. In(Refreshing, store') = In(Refreshing, store)
      BY <2>3, <3>2 DEF In
    <3>4. destroyed' = destroyed
      BY <2>1
    <3> QED
      BY <1>3, <2>1, <3>1, <3>3, <3>4
  <2> QED
    BY <2>4, <2>5, <2>6, <2>7
<1> QED
  BY <1>2, <1>4, <1>5, <1>6, <1>7 DEF RepositoryNext

-----------------------------------------------------------------------------
(* The theorems.                                                            *)

RepositoryInvariant == Typed /\ Effects /\ Stays /\ Isolated /\ Decided /\ Counted /\ SearchNeverStale

LEMMA RepositoryInductive == RepositorySpec => []RepositoryInvariant
<1>1. RepositoryInit => RepositoryInvariant
  <2> SUFFICES ASSUME RepositoryInit PROVE RepositoryInvariant
    OBVIOUS
  <2>1. SearchNeverStale
    BY DEF RepositoryInit, SearchNeverStale, In
  <2> QED
    BY <2>1, TypedInit, EffectsInit, StaysInit, IsolatedInit, DecidedInit, CountedInit DEF RepositoryInvariant
<1>2. RepositoryInvariant /\ [RepositoryNext]_repositoryVars => RepositoryInvariant'
  <2> SUFFICES ASSUME RepositoryInvariant, [RepositoryNext]_repositoryVars PROVE RepositoryInvariant'
    OBVIOUS
  <2>1. Typed /\ Effects /\ Stays /\ Isolated /\ Decided /\ Counted /\ SearchNeverStale
    BY DEF RepositoryInvariant
  <2>2. Typed'
    BY <2>1, TypedStep
  <2>3. Effects' /\ Stays' /\ Isolated' /\ Decided' /\ Counted' /\ SearchNeverStale'
    BY <2>1, <2>2, EffectsStep, StaysStep, IsolatedStep, DecidedStep, CountedStep, SearchStep
  <2> QED
    BY <2>2, <2>3 DEF RepositoryInvariant
<1> QED
  BY <1>1, <1>2, PTL DEF RepositorySpec

\* Calls, lock and store are what __init__ and the methods make of them, and a
\* call never writes past its last record.
THEOREM RepositoryTyped == RepositorySpec => []RepositoryTypeOK
<1>1. RepositoryInvariant => RepositoryTypeOK
  <2> SUFFICES ASSUME Typed, Effects PROVE RepositoryTypeOK
    BY DEF RepositoryInvariant
  <2>1. ASSUME NEW t \in Calls
        PROVE  /\ call[t].pc \in {"idle", "called", "admitted", "entered", "writing", "left", "returned"}
               /\ call[t].method \in Methods
               /\ call[t].next \in 1 .. Len(Of(t).writes) + 1
    BY OfCall DEF Typed, CallRecords, Effects, Placed, List
  <2> QED
    BY <2>1 DEF RepositoryTypeOK, Typed, Pairs
<1> QED
  BY <1>1, RepositoryInductive, PTL

\* What a promise names has been written when the call has returned, and
\* nothing has when it has raised: save_claim, put_evidence and the others,
\* with either backend and under any interleaving of any number of calls.
THEOREM PromisesKept == RepositorySpec => []AsPromised
<1>1. RepositoryInvariant => AsPromised
  <2> SUFFICES ASSUME Typed, Effects, Stays, NEW t \in Calls
               PROVE  /\ call[t].pc = "left" /\ ~(backend = "memory" /\ call[t].method = "save_message_recovery")
                           => \A p \in store : p[1] # t
                      /\ Returned(t) /\ (backend = "mongo" \/ Protected(t))
                           => \A d \in Promised(t).records : <<t, d>> \in store \/ d \in destroyed
    BY DEF RepositoryInvariant, AsPromised
  <2>1. ASSUME call[t].pc = "left", ~(backend = "memory" /\ call[t].method = "save_message_recovery")
        PROVE  \A p \in store : p[1] # t
    BY <2>1, NothingYet DEF Effective
  <2>2. ASSUME Returned(t), backend = "mongo" \/ Protected(t), NEW d \in Promised(t).records
        PROVE  <<t, d>> \in store \/ d \in destroyed
    <3>1. d \in WritesOf(t)
      BY <2>2, OfCall, WritesAre DEF Honours
    <3>2. PICK i \in 1 .. Len(Of(t).writes) : RecordOf(Of(t).writes[i]) = d
      BY <3>1, WritesAre
    <3>3. call[t].next = Len(Of(t).writes) + 1 /\ Len(Of(t).writes) \in Nat
      BY <2>2, OfCall DEF Returned, Effects, Placed, List
    <3>4. Done(t, d) /\ d \in Names
      BY <3>1, <3>2, <3>3, WritesAre DEF Done
    <3>5. Lasting(t)
      BY <2>2 DEF Lasting, Returned
    <3> QED
      BY <3>4, <3>5 DEF Stays, InEffect
  <2> QED
    BY <2>1, <2>2
<1> QED
  BY <1>1, RepositoryInductive, PTL

\* Of two calls of methods that compare one record, or of two saves with one
\* idempotency key, one finds the other's write, in memory under
\* _claim_mutation_lock and in MongoDB by the write conflict.
THEOREM OneReturns == RepositorySpec => []OneWinner
<1>1. RepositoryInvariant => OneWinner
  <2> SUFFICES ASSUME Typed, Effects, Decided, NEW t \in Calls, NEW u \in Calls, t # u,
                      Returned(t), Returned(u), Protected(t), Protected(u)
               PROVE  /\ \A d \in (Promised(t).compares \cap Promised(u).compares \cap WritesOf(t) \cap WritesOf(u)) \ destroyed :
                            In({d}, call[t].seen) # In({d}, call[u].seen)
                      /\ ~(SameKey(t, u) /\ "key" \in Of(t).checks)
    BY DEF RepositoryInvariant, OneWinner
  <2>1. Staked(t) /\ Staked(u)
    BY DEF Staked, Returned
  <2>2. ASSUME NEW d \in (Promised(t).compares \cap Promised(u).compares \cap WritesOf(t) \cap WritesOf(u)) \ destroyed
        PROVE  In({d}, call[t].seen) # In({d}, call[u].seen)
    <3>1. d \in SharedRecords /\ d \in Of(t).expects /\ d \in Of(u).expects
      BY OfCall, WritesAre DEF Honours
    <3>2. <<t, d>> \in call[u].seen \/ <<u, d>> \in call[t].seen
      BY <2>1, <3>1 DEF Decided
    <3>3. <<t, d>> \notin call[t].seen /\ <<u, d>> \notin call[u].seen
      BY DEF Effects, Placed
    <3> QED
      BY <3>2, <3>3 DEF In
  <2> QED
    BY <2>1, <2>2 DEF Decided
<1> QED
  BY <1>1, RepositoryInductive, PTL

\* _commit_realtime_event and the realtime_sequence document give each event
\* the next number, whatever is put back or run again.
THEOREM SequenceIsGapless == RepositorySpec => []EventsNumbered
<1>1. RepositoryInvariant => EventsNumbered
  <2> SUFFICES ASSUME Numbered(store, sequence, call) PROVE EventsNumbered
    BY DEF RepositoryInvariant, Counted
  <2> DEFINE publishers == {t \in Calls : <<t, "realtime_events">> \in store}
  <2>1. \A t \in Calls : t \in publishers <=> Event(t) \in store
    BY DEF Event
  <2>2. \A t \in publishers : call[t].number \in 1 .. sequence
    BY <2>1 DEF Numbered
  <2>3. \A k \in 1 .. sequence : \E t \in publishers : call[t].number = k
    BY <2>1 DEF Numbered
  <2>4. \A t, u \in publishers : call[t].number = call[u].number => t = u
    BY <2>1 DEF Numbered
  <2>5. {call[t].number : t \in publishers} = 1 .. sequence
    BY <2>2, <2>3
  <2> HIDE DEF publishers
  <2>6. (lock = Earlier => {call[t].number : t \in publishers} = 1 .. sequence) /\ \A t, u \in publishers : call[t].number = call[u].number => t = u
    BY <2>4, <2>5
  <2> QED
    BY <2>6 DEF EventsNumbered, publishers
<1> QED
  BY <1>1, RepositoryInductive, PTL

\* Staff search goes by the evidence and handoffs there are, or by no complete
\* projection, and that only after save_session_mutation, a staff abandonment or
\* a recovery expiry: _put and _replace_claim_revision project a snapshot, and the
\* write conflict on the Claim makes it the latest (promote_claim_owner projects
\* nothing, and does not outdate a projection).
THEOREM SearchIsNeverStale == RepositorySpec => []SearchNeverStale
BY RepositoryInductive, PTL DEF RepositoryInvariant

-----------------------------------------------------------------------------
(* Who works on the Claim: the invariant.                                   *)

USE CaseWorkAssumption

\* What makes the two readings of the owner agree.  A return to the queue
\* can leave a handoff assigned that nobody has accepted, over a Claim
\* without assignee; there is never a third possibility.
Assigned ==
    /\ handoff.status = "none" => handoff.assigned = NoOne
    /\ handoff.assigned # NoOne => assignee \in {NoOne, handoff.assigned}
    /\ handoff.status \in {"accepted", "in_progress"}
         => assignee # NoOne /\ handoff.assigned = assignee

CaseInv == CaseTypeOK /\ Assigned

\* A step that changes the owner leaves access to nobody but the new one.
Handover ==
    ClaimFirst # NoOne /\ ClaimFirst' # ClaimFirst
      => \A s \in Staff : Access(s)' # "read_only" => s = ClaimFirst'

-----------------------------------------------------------------------------
(* Type correctness.                                                        *)

\* Work items keep their types when their holder updates them.
LEMMA UpdatedItem ==
  ASSUME NEW kind \in {"support", "review"}, NEW status \in ItemStatuses,
         NEW item \in [status : ItemStatuses, holder : Staff]
  PROVE  Updated(kind, item, status) \in ItemType
BY DEF Updated, ItemType, ItemStatuses

\* The steps of one member of staff that works on the Claim.
LEMMA TypeOfWork ==
  ASSUME CaseTypeOK, NEW s \in Staff, Work(s)
  PROVE  CaseTypeOK'
<1>1. CASE AcceptClaim(s)
  BY <1>1 DEF CaseTypeOK, AcceptClaim, People
<1>2. CASE AcceptHandoff(s)
  BY <1>2 DEF CaseTypeOK, AcceptHandoff, People, HandoffType
<1>3. CASE AcceptExternalReview(s)
  <2>1. [status |-> "in_progress", holder |-> s] \in ItemType
    BY DEF ItemType, ItemStatuses
  <2>2. items' \in [{"support", "review"} -> ItemType]
    BY <1>3, <2>1 DEF CaseTypeOK, AcceptExternalReview
  <2>3. QED
    BY <1>3, <2>2 DEF CaseTypeOK, AcceptExternalReview, People
<1>4. CASE ReconcileExternalResponse(s)
  BY <1>4 DEF CaseTypeOK, ReconcileExternalResponse, People, TaskStatuses
<1>5. CASE SendStaffMessage(s)
  BY <1>5 DEF CaseTypeOK, SendStaffMessage, People, HandoffType
<1>6. CASE ResolveHandoff(s)
  BY <1>6 DEF CaseTypeOK, ResolveHandoff, People, HandoffType, NoHandoff
<1>7. CASE DecideClaim(s)
  BY <1>7 DEF CaseTypeOK, DecideClaim, People
<1>8. ASSUME NEW t \in Staff, CreateStaffAction(s, t)
      PROVE  CaseTypeOK'
  <2>1. [status |-> "open", holder |-> t] \in ItemType
    BY DEF ItemType, ItemStatuses
  <2>2. items' \in [{"support", "review"} -> ItemType]
    BY <1>8, <2>1 DEF CaseTypeOK, CreateStaffAction
  <2>3. QED
    BY <1>8, <2>2 DEF CaseTypeOK, CreateStaffAction, People
<1>9. ASSUME NEW kind \in {"support", "review"}, NEW status \in ItemStatuses,
             UpdateStaffAction(s, kind, status)
      PROVE  CaseTypeOK'
  <2>1. items[kind] \in [status : ItemStatuses, holder : Staff]
    BY <1>9 DEF CaseTypeOK, UpdateStaffAction, ItemType, NoItem
  <2>2. items' \in [{"support", "review"} -> ItemType]
    BY <1>9, <2>1, UpdatedItem DEF CaseTypeOK, UpdateStaffAction
  <2>3. QED
    BY <1>9, <2>2 DEF CaseTypeOK, UpdateStaffAction, People
<1>10. QED
  BY <1>1, <1>2, <1>3, <1>4, <1>5, <1>6, <1>7, <1>8, <1>9 DEF Work

\* A new request names an owner other than the one it is for.
LEMMA TypeOfRequest ==
  ASSUME CaseTypeOK, NEW kind \in {"cowork", "transfer"}, NEW s \in Staff, NEW t \in Staff,
         Request(kind, s, t), ClaimFirst \in Staff, ClaimFirst # t
  PROVE  CaseTypeOK'
<1>1. [kind |-> kind, by |-> s, owner |-> ClaimFirst, target |-> t]
        \in {r \in RequestType : r.owner # r.target}
  BY DEF RequestType
<1>2. requests' \subseteq {r \in RequestType : r.owner # r.target}
  BY <1>1 DEF CaseTypeOK, Request
<1>3. QED
  BY <1>2 DEF CaseTypeOK, Request, People

\* The steps by which staff share the Claim and hand it on.
LEMMA TypeOfCollaboration ==
  ASSUME CaseTypeOK, NEW s \in Staff, Collaborate(s)
  PROVE  CaseTypeOK'
<1>1. ASSUME NEW t \in Staff, CreateCoworkRequest(s, t)
      PROVE  CaseTypeOK'
  <2>1. ClaimFirst \in Staff
    BY <1>1 DEF CaseTypeOK, CreateCoworkRequest, ClaimFirst, People, HandoffType
  <2>2. ClaimFirst # t
    BY <1>1 DEF CreateCoworkRequest
  <2>3. QED
    BY <1>1, <2>1, <2>2, TypeOfRequest DEF CreateCoworkRequest
<1>2. ASSUME NEW t \in Staff, CreateTransferRequest(s, t)
      PROVE  CaseTypeOK'
  BY <1>2, TypeOfRequest DEF CreateTransferRequest
<1>3. ASSUME NEW r \in requests, RejectRequest(s, r)
      PROVE  CaseTypeOK'
  BY <1>3 DEF CaseTypeOK, RejectRequest, DecideRequest, People
<1>4. ASSUME NEW r \in requests, AcceptCowork(s, r)
      PROVE  CaseTypeOK'
  BY <1>4 DEF CaseTypeOK, AcceptCowork, DecideRequest, People, RequestType
<1>5. ASSUME NEW r \in requests, AcceptTransfer(s, r)
      PROVE  CaseTypeOK'
  <2>1. r.target \in Staff
    BY DEF CaseTypeOK, RequestType
  <2>2. handoff' \in HandoffType
    BY <1>5, <2>1 DEF CaseTypeOK, AcceptTransfer, HandoffType, People
  <2>3. QED
    BY <1>5, <2>1, <2>2 DEF CaseTypeOK, AcceptTransfer, DecideRequest, People
<1>6. CASE CheckRequeue(s)
  BY <1>6 DEF CaseTypeOK, CheckRequeue, People
<1>7. CASE RequeueClaim(s)
  BY <1>7 DEF CaseTypeOK, RequeueClaim, Requeued, People, HandoffType
<1>8. QED
  BY <1>1, <1>2, <1>3, <1>4, <1>5, <1>6, <1>7 DEF Collaborate

\* The steps of the claimant, of the creation and of the external service.
LEMMA TypeOfEnvironment ==
  ASSUME CaseTypeOK,
         CreateSupportRequest \/ CompleteFnol \/ \E to \in TaskStatuses : MoveTask(to)
  PROVE  CaseTypeOK'
<1>1. CASE CreateSupportRequest
  BY <1>1 DEF CaseTypeOK, CreateSupportRequest, People, HandoffType
<1>2. CASE CompleteFnol
  BY <1>2 DEF CaseTypeOK, CompleteFnol, People
<1>3. ASSUME NEW to \in TaskStatuses, MoveTask(to)
      PROVE  CaseTypeOK'
  BY <1>3 DEF CaseTypeOK, MoveTask
<1>4. QED
  BY <1>1, <1>2, <1>3

LEMMA TypeStep ==
  ASSUME CaseTypeOK, [CaseNext]_caseVars
  PROVE  CaseTypeOK'
<1>1. CASE CaseNext
  BY <1>1, TypeOfWork, TypeOfCollaboration, TypeOfEnvironment DEF CaseNext
<1>2. CASE UNCHANGED caseVars
  BY <1>2 DEF CaseTypeOK, caseVars
<1>3. QED
  BY <1>1, <1>2

LEMMA TypeInit ==
  ASSUME CaseInit
  PROVE  CaseTypeOK
BY DEF CaseInit, CaseTypeOK, People, HandoffType, NoHandoff, ItemType, NoItem, TaskStatuses

\* All records keep their types, and a request always names two people
\* (RequestType of services/ownership.py: the owner never asks itself).
THEOREM OwnershipTyped == CaseSpec => []CaseTypeOK
<1>1. CaseInit => CaseTypeOK
  BY TypeInit
<1>2. CaseTypeOK /\ [CaseNext]_caseVars => CaseTypeOK'
  BY TypeStep
<1>3. QED
  BY <1>1, <1>2, PTL DEF CaseSpec

-----------------------------------------------------------------------------
(* One owner.                                                               *)

\* Taking the Claim and working on it.
LEMMA AssignedByWork ==
  ASSUME CaseInv, NEW s \in Staff, Work(s)
  PROVE  Assigned'
<1> USE DEF CaseInv, CaseTypeOK, Assigned, HandoffType, People
<1>1. CASE AcceptClaim(s)
  BY <1>1 DEF AcceptClaim, MayAcceptClaim, Unowned
<1>2. CASE AcceptHandoff(s)
  BY <1>2 DEF AcceptHandoff
<1>3. CASE AcceptExternalReview(s)
  BY <1>3 DEF AcceptExternalReview, OtherOwner, HandoffFirst
<1>4. CASE ReconcileExternalResponse(s)
  BY <1>4 DEF ReconcileExternalResponse, OtherOwner, HandoffFirst
<1>5. CASE SendStaffMessage(s)
  BY <1>5 DEF SendStaffMessage
<1>6. CASE ResolveHandoff(s)
  BY <1>6 DEF ResolveHandoff, NoHandoff
<1>7. CASE UNCHANGED <<assignee, handoff>>
  BY <1>7
<1>8. QED
  BY <1>1, <1>2, <1>3, <1>4, <1>5, <1>6, <1>7
  DEF Work, DecideClaim, CreateStaffAction, UpdateStaffAction

\* Sharing it and handing it on: a transfer moves both records, a return to
\* the queue clears the assignee alone when nobody had accepted the handoff.
LEMMA AssignedByCollaboration ==
  ASSUME CaseInv, NEW s \in Staff, Collaborate(s)
  PROVE  Assigned'
<1> USE DEF CaseInv, CaseTypeOK, Assigned, HandoffType, People
<1>1. ASSUME NEW r \in requests, AcceptTransfer(s, r)
      PROVE  Assigned'
  <2>1. r.target \in Staff
    BY DEF RequestType
  <2>2. CASE handoff = NoHandoff
    BY <1>1, <2>1, <2>2 DEF AcceptTransfer, NoHandoff
  <2>3. CASE handoff # NoHandoff
    <3>1. handoff' = [handoff EXCEPT !.assigned = r.target] /\ assignee' = r.target
      BY <1>1, <2>3 DEF AcceptTransfer
    <3>2. handoff.status # "none"
      BY <2>3 DEF NoHandoff
    <3>3. QED
      BY <2>1, <3>1, <3>2
  <2>4. QED
    BY <2>2, <2>3
<1>2. CASE RequeueClaim(s)
  BY <1>2 DEF RequeueClaim, Requeued
<1>3. CASE UNCHANGED <<assignee, handoff>>
  BY <1>3
<1>4. QED
  BY <1>1, <1>2, <1>3
  DEF Collaborate, CreateCoworkRequest, CreateTransferRequest, Request, RejectRequest,
      AcceptCowork, CheckRequeue

LEMMA CaseInvStep ==
  ASSUME CaseInv, [CaseNext]_caseVars
  PROVE  CaseInv'
<1>1. CaseTypeOK'
  BY TypeStep DEF CaseInv
<1>2. CASE \E s \in Staff : Work(s) \/ Collaborate(s)
  BY <1>2, <1>1, AssignedByWork, AssignedByCollaboration DEF CaseInv
<1>3. CASE CreateSupportRequest
  BY <1>1, <1>3 DEF CaseInv, Assigned, CreateSupportRequest
<1>4. CASE UNCHANGED <<assignee, handoff>>
  BY <1>1, <1>4 DEF CaseInv, Assigned
<1>5. QED
  BY <1>2, <1>3, <1>4 DEF CaseNext, CompleteFnol, MoveTask, caseVars

LEMMA CaseInvInit ==
  ASSUME CaseInit
  PROVE  CaseInv
BY TypeInit DEF CaseInit, CaseInv, Assigned, NoHandoff

LEMMA CaseInvAlways == CaseSpec => []CaseInv
<1>1. CaseInit => CaseInv
  BY CaseInvInit
<1>2. CaseInv /\ [CaseNext]_caseVars => CaseInv'
  BY CaseInvStep
<1>3. QED
  BY <1>1, <1>2, PTL DEF CaseSpec

LEMMA OneOwnerFollows ==
  ASSUME CaseInv
  PROVE  OneOwner
BY DEF CaseInv, CaseTypeOK, Assigned, OneOwner, HandoffFirst, ClaimFirst, HandoffType, People

\* The projection of services/workbench.py and the checks of
\* services/ownership.py name the same owner in every reachable state,
\* whatever transfers, requests and returns to the queue came before.
THEOREM OwnerIsOne == CaseSpec => []OneOwner
BY CaseInvAlways, OneOwnerFollows, PTL

-----------------------------------------------------------------------------
(* Nothing is stranded.                                                     *)

\* The owner is primary in both readings.
LEMMA OwnerIsPrimary ==
  ASSUME CaseInv, ~Unowned
  PROVE  /\ ClaimFirst \in Staff
         /\ ShownAccess(ClaimFirst) = "primary" /\ Access(ClaimFirst) = "primary"
BY OneOwnerFollows
DEF CaseInv, CaseTypeOK, Unowned, OneOwner, HandoffFirst, ClaimFirst, HandoffType, People,
    ShownAccess, Access

LEMMA HandoffReachable ==
  ASSUME CaseInv, handoff # NoHandoff
  PROVE  \E s \in Staff : MayAcceptHandoff(s) \/ MayResolveHandoff(s)
<1> USE DEF CaseInv, CaseTypeOK, Assigned, HandoffType, People
<1>1. handoff.status # "none"
  BY DEF NoHandoff
<1>2. CASE handoff.status = "queued" /\ Unowned
  <2>1. PICK s \in Staff : TRUE
    OBVIOUS
  <2>2. MayAcceptHandoff(s)
    BY <1>2 DEF Unowned, MayAcceptHandoff, OtherOwner, HandoffFirst
  <2>3. QED
    BY <2>2
<1>3. CASE handoff.status = "queued" /\ ~Unowned
  <2>1. ClaimFirst \in Staff /\ HandoffFirst = ClaimFirst
    BY <1>3, OwnerIsPrimary, OneOwnerFollows DEF OneOwner
  <2>2. MayAcceptHandoff(ClaimFirst)
    BY <1>3, <2>1 DEF MayAcceptHandoff, OtherOwner, ClaimFirst
  <2>3. QED
    BY <2>1, <2>2
<1>4. CASE handoff.status \in {"accepted", "in_progress"}
  <2>1. assignee \in Staff /\ handoff.assigned = assignee /\ ~Unowned /\ ClaimFirst = assignee
    BY <1>4 DEF Unowned, ClaimFirst
  <2>2. MayResolveHandoff(assignee)
    BY <1>4, <2>1, OwnerIsPrimary DEF MayResolveHandoff
  <2>3. QED
    BY <2>1, <2>2
<1>5. QED
  BY <1>1, <1>2, <1>3, <1>4

LEMMA ClaimReachable ==
  ASSUME CaseInv, Undecided
  PROVE  \E s \in Staff : MayAcceptClaim(s) \/ MayDecideClaim(s)
<1>1. CASE Unowned
  BY <1>1 DEF MayAcceptClaim
<1>2. CASE ~Unowned
  <2>1. ClaimFirst \in Staff /\ MayDecideClaim(ClaimFirst)
    BY <1>2, OwnerIsPrimary DEF MayDecideClaim
  <2>2. QED
    BY <2>1
<1>3. QED
  BY <1>1, <1>2

\* An active handoff is always within somebody's reach, and so is a completed
\* Claim without a decision: the guards of accept, resolve and decide in
\* services/workbench.py never exclude all of the staff together.
THEOREM NothingStranded == CaseSpec => []NeverStranded
<1>1. CaseInv => NeverStranded
  BY HandoffReachable, ClaimReachable DEF NeverStranded
<1>2. QED
  BY <1>1, CaseInvAlways, PTL

-----------------------------------------------------------------------------
(* The end of an ownership.                                                 *)

\* Only a transfer and a return to the queue take a Claim from its owner, and
\* both revoke every cowork access.
LEMMA HandoverStep ==
  ASSUME CaseInv, [CaseNext]_caseVars
  PROVE  Handover
<1> USE DEF CaseInv, CaseTypeOK, Assigned, HandoffType, People
<1>1. CASE coworkers' = {}
  BY <1>1 DEF Handover, Access
<1>2. CASE UNCHANGED <<assignee, handoff>>
  BY <1>2 DEF Handover, ClaimFirst
<1>3. ASSUME NEW s \in Staff, Work(s)
      PROVE  Handover
  <2>1. CASE AcceptClaim(s)
    BY <2>1 DEF AcceptClaim, MayAcceptClaim, Unowned, Handover, ClaimFirst
  <2>2. CASE AcceptHandoff(s)
    BY <2>2 DEF AcceptHandoff, MayAcceptHandoff, OtherOwner, HandoffFirst, Handover, ClaimFirst
  <2>3. CASE AcceptExternalReview(s)
    BY <2>3 DEF AcceptExternalReview, OtherOwner, HandoffFirst, Handover, ClaimFirst
  <2>4. CASE ReconcileExternalResponse(s)
    BY <2>4 DEF ReconcileExternalResponse, OtherOwner, HandoffFirst, Handover, ClaimFirst
  <2>5. CASE SendStaffMessage(s)
    BY <2>5 DEF SendStaffMessage, Handover, ClaimFirst
  <2>6. CASE ResolveHandoff(s)
    BY <2>6 DEF ResolveHandoff, MayResolveHandoff, NoHandoff, Handover, ClaimFirst
  <2>7. QED
    BY <1>2, <1>3, <2>1, <2>2, <2>3, <2>4, <2>5, <2>6
    DEF Work, DecideClaim, CreateStaffAction, UpdateStaffAction
<1>4. ASSUME NEW s \in Staff, Collaborate(s)
      PROVE  Handover
  BY <1>1, <1>2, <1>4
  DEF Collaborate, CreateCoworkRequest, CreateTransferRequest, Request, RejectRequest,
      AcceptCowork, AcceptTransfer, CheckRequeue, RequeueClaim
<1>5. CASE CreateSupportRequest
  BY <1>5 DEF CreateSupportRequest, NoHandoff, Handover, ClaimFirst
<1>6. QED
  BY <1>2, <1>3, <1>4, <1>5 DEF CaseNext, CompleteFnol, MoveTask, caseVars

\* Whoever loses the Claim loses all access to it, and so do the coworkers of
\* the ownership that ended (services/ownership.py revokes them in the same
\* transaction).
THEOREM OwnershipEndsAccess == CaseSpec => LosingOwnershipEndsAccess
<1>1. CaseInv /\ [CaseNext]_caseVars => [Handover]_caseVars
  BY HandoverStep
<1>2. QED
  BY <1>1, CaseInvAlways, PTL DEF CaseSpec, LosingOwnershipEndsAccess, Handover

-----------------------------------------------------------------------------
(* The evidence item: the invariant.                                        *)

USE ContentsAssumption, MediaAssumption, BoundsAssumption

\* What the item's record, the form, the objects and the completion request
\* say together.
ItemInv ==
  /\ ev \in Record /\ form \in Field /\ final \subseteq Contents
  /\ completing \in [sum : Checksums, current : BOOLEAN]
  /\ holder \in Workers \union {Nobody}
  /\ holder # Nobody => ev.state = "running"
  /\ ev.state = "running" => ev.file = "processing"
  /\ ev.file \in {"processing", "ready", "failed"} => ev.sum \in final
  /\ completing # NotCompleting => completing.sum \in final
  /\ completing.current => ev.file = "awaiting_upload"
  /\ FactsFromCurrentMaterial

\* An attempt for which nobody has committed since it reserved the record.
Reserved(w) ==
  holder = w /\ ev.file = "processing" /\ worker[w].ver = ev.ver /\ worker[w].sum = ev.sum

WorkerOK(w) ==
  InFlight(w) => worker[w].sum \in final /\ (worker[w].current => Reserved(w))

WorkersInv ==
  /\ worker \in [Workers -> Attempt]
  /\ \A w \in Workers : WorkerOK(w)

RestOK ==
  /\ staging \in Checksums
  /\ answered \subseteq Versions \X Contents
  /\ retries \in 0..MaxRetries
  /\ troubles \in 0..MaxTroubles

EvidenceInv == ItemInv /\ WorkersInv /\ RestOK

-----------------------------------------------------------------------------
(* The workers.                                                            *)

LEMMA IdleTyped == Idle \in Attempt
BY DEF Idle, Attempt, Versions, Checksums

\* Nobody's read is current after a commit by somebody else.
LEMMA AllOutdated ==
  ASSUME WorkersInv, OutdateWorkers, final' = final
  PROVE  WorkersInv'
<1>1. \A w \in Workers : Outdated(w) \in Attempt /\ Outdated(w).pc = worker[w].pc
                         /\ Outdated(w).sum = worker[w].sum /\ ~Outdated(w).current
  BY DEF WorkersInv, Outdated, Attempt
<1>2. worker' \in [Workers -> Attempt] /\ \A w \in Workers : worker'[w] = Outdated(w)
  BY <1>1 DEF OutdateWorkers
<1>3. ASSUME NEW w \in Workers PROVE WorkerOK(w)'
  <2>1. worker'[w].pc = worker[w].pc /\ worker'[w].sum = worker[w].sum /\ ~worker'[w].current
    BY <1>1, <1>2
  <2>2. QED
    BY <2>1 DEF WorkersInv, WorkerOK, InFlight
<1>4. QED
  BY <1>2, <1>3 DEF WorkersInv

\* Nobody's but that of the worker that commits.
LEMMA OthersOutdated ==
  ASSUME WorkersInv, NEW w \in Workers, NEW a \in Attempt, worker' = OutdateOthers(a, w),
         final' = final, WorkerOK(w)'
  PROVE  WorkersInv'
<1>1. \A v \in Workers : Outdated(v) \in Attempt /\ Outdated(v).pc = worker[v].pc
                         /\ Outdated(v).sum = worker[v].sum /\ ~Outdated(v).current
  BY DEF WorkersInv, Outdated, Attempt
<1>2. worker' \in [Workers -> Attempt] /\ \A v \in Workers : v # w => worker'[v] = Outdated(v)
  BY <1>1 DEF OutdateOthers
<1>3. ASSUME NEW v \in Workers, v # w PROVE WorkerOK(v)'
  <2>1. worker'[v].pc = worker[v].pc /\ worker'[v].sum = worker[v].sum /\ ~worker'[v].current
    BY <1>1, <1>2, <1>3
  <2>2. QED
    BY <2>1 DEF WorkersInv, WorkerOK, InFlight
<1>4. QED
  BY <1>2, <1>3 DEF WorkersInv

\* A worker goes on by itself.
LEMMA OneWorker ==
  ASSUME WorkersInv, NEW w \in Workers, NEW a \in Attempt, worker' = [worker EXCEPT ![w] = a],
         UNCHANGED <<ev, holder, final>>, WorkerOK(w)'
  PROVE  WorkersInv'
<1>1. worker' \in [Workers -> Attempt] /\ \A v \in Workers : v # w => worker'[v] = worker[v]
  BY DEF WorkersInv
<1>2. ASSUME NEW v \in Workers, v # w PROVE WorkerOK(v)'
  BY <1>1, <1>2 DEF WorkersInv, WorkerOK, InFlight, Reserved
<1>3. QED
  BY <1>1, <1>2 DEF WorkersInv

\* A worker gives its attempt up, or has ended it.
LEMMA GivesUp ==
  ASSUME WorkersInv, NEW w \in Workers,
         \/ worker' = [worker EXCEPT ![w] = Idle] /\ UNCHANGED <<ev, holder, final>>
         \/ worker' = OutdateOthers(Idle, w) /\ final' = final
  PROVE  WorkersInv'
<1>1. worker'[w] = Idle
  BY DEF WorkersInv, OutdateOthers
<1>2. WorkerOK(w)'
  BY <1>1 DEF WorkerOK, InFlight, Idle
<1>3. QED
  BY <1>2, IdleTyped, OneWorker, OthersOutdated

\* Nothing an attempt is held against has changed.
LEMMA WorkersStay ==
  ASSUME WorkersInv, UNCHANGED <<worker, ev, holder>>, final \subseteq final'
  PROVE  WorkersInv'
BY DEF WorkersInv, WorkerOK, InFlight, Reserved

-----------------------------------------------------------------------------
(* The steps of the claimant and of the integration service.               *)

\* A completion request that somebody overtook keeps its object, and cannot commit.
LEMMA CompletionOutdated ==
  ASSUME ItemInv, OutdateCompletion
  PROVE  /\ completing' \in [sum : Checksums, current : BOOLEAN]
         /\ completing'.sum = completing.sum /\ ~completing'.current
         /\ completing' # NotCompleting => completing.sum \in final
<1>1. PICK s \in Checksums, c \in BOOLEAN : completing = [sum |-> s, current |-> c]
  BY DEF ItemInv
<1>2. completing' = [sum |-> s, current |-> FALSE]
  BY <1>1 DEF OutdateCompletion
<1>3. completing' # NotCompleting => completing # NotCompleting
  BY <1>1, <1>2 DEF NotCompleting
<1>4. QED
  BY <1>1, <1>2, <1>3 DEF ItemInv

\* A commit by another than the workers: what the item becomes decides.
LEMMA CommittedItem ==
  ASSUME EvidenceInv, Committed, UNCHANGED <<final, staging, answered>>,
         ev' \in Record, form' \in Field,
         holder' \in Workers \union {Nobody}, holder' # Nobody => ev'.state = "running",
         ev'.state = "running" => ev'.file = "processing",
         ev'.file \in {"processing", "ready", "failed"} => ev'.sum \in final,
         FactsFromCurrentMaterial', retries' \in 0..MaxRetries, troubles' \in 0..MaxTroubles
  PROVE  EvidenceInv'
<1>1. WorkersInv'
  BY AllOutdated DEF EvidenceInv, Committed
<1>2. ItemInv'
  BY CompletionOutdated DEF EvidenceInv, ItemInv, Committed, NotCompleting
<1>3. RestOK'
  BY DEF EvidenceInv, RestOK
<1>4. QED
  BY <1>1, <1>2, <1>3 DEF EvidenceInv

\* Troubles are counted up to their bound.
LEMMA Troubled ==
  ASSUME RestOK, Trouble
  PROVE  troubles' \in 0..MaxTroubles
BY DEF RestOK, Trouble

\* Registering, deciding, removing, other mutations, and a request for an upload: the
\* last finds no proposal to keep, because only a ready item has one.
LEMMA ClaimantInv ==
  ASSUME EvidenceInv,
         \/ Register \/ Decide \/ Remove \/ OtherMutation
         \/ \E media \in Media : RequestUpload(media)
  PROVE  EvidenceInv'
<1> USE DEF EvidenceInv, ItemInv
<1>1. CASE Register
  <2>1. ev' \in Record /\ ev'.file = "not_available" /\ ev'.state = ev.state
    BY <1>1 DEF Register, Record
  <2>2. FactsFromCurrentMaterial'
    BY <1>1 DEF Register, FactsFromCurrentMaterial
  <2>3. QED
    BY <1>1, <2>1, <2>2, CommittedItem DEF Register, RestOK
<1>2. CASE Decide
  <2>1. /\ ev' \in Record /\ ev'.file = ev.file /\ ev'.state = ev.state /\ ev'.sum = ev.sum
        /\ form' \in Field /\ form'.state = "decided"
    BY <1>2 DEF Decide, Record, Field
  <2>2. FactsFromCurrentMaterial'
    BY <2>1 DEF FactsFromCurrentMaterial
  <2>3. QED
    BY <1>2, <2>1, <2>2, CommittedItem DEF Decide, RestOK
<1>3. CASE Remove
  <2>1. /\ ev' \in Record /\ ev'.file = ev.file /\ ev'.state = ev.state /\ ev'.sum = ev.sum
        /\ ev'.ver = ev.ver
    BY <1>3 DEF Remove, Record
  <2>2. FactsFromCurrentMaterial'
    BY <1>3, <2>1 DEF Remove, FactsFromCurrentMaterial
  <2>3. QED
    BY <1>3, <2>1, <2>2, CommittedItem DEF Remove, RestOK
<1>4. CASE OtherMutation
  <2>1. form' \in Field /\ (form'.state = "proposed" => form' = form)
    BY <1>4 DEF OtherMutation, Field, EmptyField, Versions, Checksums
  <2>2. FactsFromCurrentMaterial'
    BY <1>4, <2>1 DEF OtherMutation, FactsFromCurrentMaterial
  <2>3. QED
    BY <1>4, <2>1, <2>2, Troubled, CommittedItem DEF OtherMutation, RestOK
<1>5. ASSUME NEW media \in Media, RequestUpload(media)
      PROVE  EvidenceInv'
  <2>1. media \in {"pdf", "image"}
    OBVIOUS
  <2>2. /\ ev' \in Record /\ ev'.file = "awaiting_upload" /\ ev'.state = "none"
    <3>1. ev.ver \in Versions /\ (HasMaterial => ev.ver < MaxVersions)
      BY <1>5 DEF RequestUpload, Record
    <3>2. HasMaterial => ev.ver + 1 \in Versions
      BY <3>1 DEF Versions
    <3>3. (IF HasMaterial THEN ev.ver + 1 ELSE ev.ver) \in Versions
      BY <3>1, <3>2
    <3>4. Nobody \in Checksums
      BY DEF Checksums
    <3>5. QED
      BY <1>5, <2>1, <3>3, <3>4 DEF RequestUpload, Record
  <2>3. ev.file # "ready" /\ ev.state # "running"
    BY <1>5 DEF RequestUpload, Replaceable
  <2>4. form.state # "proposed"
    BY <2>3 DEF FactsFromCurrentMaterial
  <2>5. form' = form
    BY <1>5, <2>4 DEF RequestUpload, WithoutProposals
  <2>6. FactsFromCurrentMaterial'
    BY <2>4, <2>5 DEF FactsFromCurrentMaterial
  <2>7. holder' = Nobody
    BY <1>5, <2>3 DEF RequestUpload
  <2>8. QED
    BY <1>5, <2>2, <2>5, <2>6, <2>7, CommittedItem DEF RequestUpload, RestOK
<1>6. QED
  BY <1>1, <1>2, <1>3, <1>4, <1>5

\* A result leaves the item ready or failed, with what it had.
LEMMA ResultTyped ==
  ASSUME EvidenceInv, NEW extraction \in {"no_facts", "proposed"}
  PROVE  /\ Completed(extraction) \in Record
         /\ Completed(extraction).file = "ready" /\ Completed(extraction).state = "completed"
         /\ Completed(extraction).ver = ev.ver /\ Completed(extraction).sum = ev.sum
         /\ Failed \in Record /\ Failed.file = "failed" /\ Failed.state = "failed"
         /\ Failed.ver = ev.ver /\ Failed.sum = ev.sum
BY DEF EvidenceInv, ItemInv, Record, Completed, Failed

\* Validation settles an image, one way or the other.
LEMMA SettledImageTyped ==
  ASSUME NEW record \in Record
  PROVE  /\ SettledImage(record) \in Record
         /\ SettledImage(record).file \in {"ready", "failed"}
         /\ SettledImage(record).state \in {"completed", "failed"}
         /\ SettledImage(record).sum = record.sum
BY DEF SettledImage, Record

\* The integration service and image recovery take any item in processing to its end.
LEMMA IntegrationInv ==
  ASSUME EvidenceInv, IntegrationStep \/ RepairImage
  PROVE  EvidenceInv'
<1> USE DEF EvidenceInv, ItemInv
<1>1. CASE IntegrationReady
  <2>1. ev.file \in {"processing", "ready"} /\ ev.sum \in final /\ holder' = Nobody
    BY <1>1 DEF IntegrationReady, Released
  <2>2. /\ ev' \in Record /\ ev'.file = "ready" /\ ev'.state = "completed"
        /\ ev'.ver = ev.ver /\ ev'.sum = ev.sum
    BY <1>1, ResultTyped DEF IntegrationReady
  <2>3. form' \in Field /\ FactsFromCurrentMaterial'
    <3>1. CASE form' = form
      BY <2>2, <3>1 DEF FactsFromCurrentMaterial
    <3>2. CASE form' = [state |-> "proposed", ver |-> ev.ver, sum |-> ev.sum]
      BY <2>2, <3>2 DEF FactsFromCurrentMaterial, Field, Record
    <3>3. QED
      BY <1>1, <3>1, <3>2 DEF IntegrationReady
  <2>4. QED
    BY <1>1, <2>1, <2>2, <2>3, Troubled, CommittedItem DEF IntegrationReady, RestOK
<1>2. CASE IntegrationFailed
  <2>1. ev.file = "processing" /\ holder' = Nobody /\ form.state # "proposed"
    BY <1>2 DEF IntegrationFailed, Released, FactsFromCurrentMaterial
  <2>2. ev' \in Record /\ ev'.file = "failed" /\ ev'.state = "failed" /\ ev'.sum = ev.sum
    BY <1>2, ResultTyped DEF IntegrationFailed
  <2>3. FactsFromCurrentMaterial'
    BY <1>2, <2>1 DEF IntegrationFailed, FactsFromCurrentMaterial
  <2>4. QED
    BY <1>2, <2>1, <2>2, <2>3, Troubled, CommittedItem DEF IntegrationFailed, RestOK
<1>3. CASE IntegrationRetry
  <2>1. ev.file = "failed" /\ holder' = Nobody /\ form.state # "proposed"
    BY <1>3 DEF IntegrationRetry, FactsFromCurrentMaterial
  <2>2. ev' \in Record /\ ev'.file = "processing" /\ ev'.state = "queued" /\ ev'.sum = ev.sum
    BY <1>3 DEF IntegrationRetry, Record
  <2>3. FactsFromCurrentMaterial' /\ retries' \in 0..MaxRetries
    BY <1>3, <2>1 DEF IntegrationRetry, FactsFromCurrentMaterial, RestOK
  <2>4. QED
    BY <1>3, <2>1, <2>2, <2>3, CommittedItem DEF IntegrationRetry, RestOK
<1>4. CASE RepairImage
  <2>1. ev.file = "processing" /\ holder' = Nobody /\ form.state # "proposed"
    BY <1>4 DEF RepairImage, FactsFromCurrentMaterial
  <2>2. /\ ev' \in Record /\ ev'.file \in {"ready", "failed"}
        /\ ev'.state \in {"completed", "failed"} /\ ev'.sum = ev.sum
    BY <1>4, SettledImageTyped DEF RepairImage
  <2>3. FactsFromCurrentMaterial'
    BY <1>4, <2>1 DEF RepairImage, FactsFromCurrentMaterial
  <2>4. QED
    BY <1>4, <2>1, <2>2, <2>3, CommittedItem DEF RepairImage, RestOK
<1>5. QED
  BY <1>1, <1>2, <1>3, <1>4 DEF IntegrationStep

-----------------------------------------------------------------------------
(* The completion of an upload.                                            *)

\* Writing, finalising and binding the object.
LEMMA UploadInv ==
  ASSUME EvidenceInv,
         \/ \E content \in Contents : PutBytes(content) \/ StartComplete(content)
         \/ CommitComplete
  PROVE  EvidenceInv'
<1> USE DEF EvidenceInv
<1>1. ASSUME NEW content \in Contents, PutBytes(content)
      PROVE  EvidenceInv'
  <2>1. UNCHANGED <<ev, form, final, completing, answered, holder, worker, retries, troubles>>
        /\ staging' \in Checksums
    BY <1>1 DEF PutBytes, Checksums
  <2>2. ItemInv'
    BY <2>1 DEF ItemInv, FactsFromCurrentMaterial
  <2>3. QED
    BY <2>1, <2>2, WorkersStay DEF RestOK
<1>2. ASSUME NEW content \in Contents, StartComplete(content)
      PROVE  EvidenceInv'
  <2>1. /\ UNCHANGED <<ev, form, answered, holder, worker, retries, troubles>>
        /\ final' = final \union {content} /\ ev.file = "awaiting_upload"
        /\ completing' = [sum |-> content, current |-> TRUE]
    BY <1>2 DEF StartComplete
  <2>2. completing' \in [sum : Checksums, current : BOOLEAN] /\ completing'.sum \in final'
    BY <2>1 DEF Checksums
  <2>3. ItemInv'
    BY <2>1, <2>2 DEF ItemInv, FactsFromCurrentMaterial
  <2>4. staging' \in Checksums
    BY <1>2 DEF StartComplete, RestOK, Checksums
  <2>5. QED
    BY <2>1, <2>3, <2>4, WorkersStay DEF RestOK
<1>3. CASE CommitComplete
  <2>1. completing' = NotCompleting /\ NotCompleting \in [sum : Checksums, current : BOOLEAN]
        /\ ~NotCompleting.current
    BY <1>3 DEF CommitComplete, NotCompleting, Checksums
  <2>2. UNCHANGED <<form, final, staging, answered, holder, retries, troubles>>
    BY <1>3 DEF CommitComplete
  <2>3. CASE completing.current
    <3>1. ev.file = "awaiting_upload" /\ ev.state # "running" /\ holder = Nobody
          /\ form.state # "proposed" /\ completing.sum \in final
      BY <1>3, <2>3 DEF CommitComplete, ItemInv, FactsFromCurrentMaterial
    <3> DEFINE received == [ev EXCEPT !.file = "processing", !.sum = completing.sum,
                                      !.state = "queued"]
    <3>2. received \in Record /\ received.file = "processing" /\ received.state = "queued"
          /\ received.sum = completing.sum
      BY DEF ItemInv, Record
    <3>3. ev' \in Record /\ ev'.file \in {"processing", "ready", "failed"}
          /\ ev'.state \in {"queued", "completed", "failed"} /\ ev'.sum = completing.sum
      <4> HIDE DEF received
      <4>1. ev' = IF ev.media = "image" THEN SettledImage(received) ELSE received
        BY <1>3, <2>3 DEF CommitComplete, received
      <4>2. QED
        BY <3>2, <4>1, SettledImageTyped
    <3>4. OutdateWorkers
      BY <1>3, <2>3 DEF CommitComplete
    <3>5. WorkersInv'
      BY <2>2, <3>4, AllOutdated
    <3>6. ItemInv'
      BY <2>1, <2>2, <3>1, <3>3 DEF ItemInv, FactsFromCurrentMaterial
    <3>7. QED
      BY <2>2, <3>5, <3>6 DEF RestOK
  <2>4. CASE ~completing.current
    <3>1. UNCHANGED <<ev, worker>>
      BY <1>3, <2>4 DEF CommitComplete
    <3>2. ItemInv'
      BY <2>1, <2>2, <3>1 DEF ItemInv, FactsFromCurrentMaterial
    <3>3. QED
      BY <2>2, <3>1, <3>2, WorkersStay DEF RestOK
  <2>5. QED
    BY <2>3, <2>4
<1>4. QED
  BY <1>1, <1>2, <1>3

-----------------------------------------------------------------------------
(* The workers' steps.                                                     *)

\* The item as it was, with or without a trouble.
LEMMA ItemStays ==
  ASSUME EvidenceInv, UNCHANGED <<ev, form, final, completing, holder>>
  PROVE  ItemInv'
BY DEF EvidenceInv, ItemInv, FactsFromCurrentMaterial

\* A worker's commit: the item's part.
LEMMA WorkerCommitsItem ==
  ASSUME EvidenceInv, OutdateCompletion, final' = final,
         ev' \in Record, form' \in Field, ev.file = "processing",
         ev'.file \in {"processing", "ready", "failed"}, ev'.sum = ev.sum,
         holder' \in Workers \union {Nobody},
         holder' # Nobody => ev'.state = "running",
         ev'.state = "running" => ev'.file = "processing",
         FactsFromCurrentMaterial'
  PROVE  ItemInv'
<1>1. ev.sum \in final
  BY DEF EvidenceInv, ItemInv
<1>2. QED
  BY <1>1, CompletionOutdated DEF EvidenceInv, ItemInv, NotCompleting

LEMMA SweepInv ==
  ASSUME EvidenceInv, NEW w \in Workers, Sweep(w)
  PROVE  EvidenceInv'
<1> DEFINE a == [Idle EXCEPT !.pc = "swept", !.ver = ev.ver, !.sum = ev.sum]
<1>1. a \in Attempt /\ a.pc = "swept"
  BY IdleTyped DEF EvidenceInv, ItemInv, Record, Attempt, Idle
<1>2. worker' = [worker EXCEPT ![w] = a]
      /\ UNCHANGED <<ev, form, staging, final, completing, answered, holder, retries, troubles>>
  BY DEF Sweep
<1>3. worker'[w] = a
  BY <1>2 DEF EvidenceInv, WorkersInv
<1>4. WorkerOK(w)'
  BY <1>1, <1>3 DEF WorkerOK, InFlight
<1> HIDE DEF a
<1>5. WorkersInv'
  BY <1>1, <1>2, <1>4, OneWorker DEF EvidenceInv
<1>6. QED
  BY <1>2, <1>5, ItemStays DEF EvidenceInv, RestOK

\* The worker's read is the Claim's latest from here on.
LEMMA ReserveInv ==
  ASSUME EvidenceInv, NEW w \in Workers, Reserve(w)
  PROVE  EvidenceInv'
<1>1. UNCHANGED <<form, staging, final, answered, retries, troubles>>
  BY DEF Reserve
<1>2. RestOK'
  BY <1>1 DEF EvidenceInv, RestOK
<1>3. CASE AwaitsAttempt /\ ev.ver = worker[w].ver
  <2> DEFINE a == [Idle EXCEPT !.pc = "called", !.ver = ev.ver, !.sum = ev.sum,
                               !.current = TRUE]
  <2>1. /\ ev' = [ev EXCEPT !.state = "running", !.expired = FALSE]
        /\ holder' = w /\ worker' = OutdateOthers(a, w) /\ OutdateCompletion
    BY <1>3 DEF Reserve
  <2>2. ev.file = "processing" /\ ev.sum \in final /\ form.state # "proposed"
    BY <1>3 DEF AwaitsAttempt, EvidenceInv, ItemInv, FactsFromCurrentMaterial
  <2>3. /\ ev' \in Record /\ ev'.file = "processing" /\ ev'.state = "running"
        /\ ev'.sum = ev.sum /\ ev'.ver = ev.ver
    BY <2>1, <2>2 DEF EvidenceInv, ItemInv, Record
  <2>4. a \in Attempt /\ a.pc = "called" /\ a.ver = ev.ver /\ a.sum = ev.sum
    BY IdleTyped DEF EvidenceInv, ItemInv, Record, Attempt, Idle
  <2>5. worker'[w] = a
    BY <2>1 DEF OutdateOthers
  <2> HIDE DEF a
  <2>6. WorkerOK(w)'
    BY <1>1, <2>1, <2>2, <2>3, <2>4, <2>5 DEF WorkerOK, Reserved
  <2>7. WorkersInv'
    BY <1>1, <2>1, <2>4, <2>6, OthersOutdated DEF EvidenceInv
  <2>8. ItemInv'
    <3>1. FactsFromCurrentMaterial'
      BY <1>1, <2>2 DEF FactsFromCurrentMaterial
    <3>2. QED
      BY <1>1, <2>1, <2>2, <2>3, <3>1, WorkerCommitsItem DEF EvidenceInv, ItemInv
  <2>9. QED
    BY <1>2, <2>7, <2>8 DEF EvidenceInv
<1>4. CASE ~(AwaitsAttempt /\ ev.ver = worker[w].ver)
  <2>1. worker' = [worker EXCEPT ![w] = Idle] /\ UNCHANGED <<ev, holder, completing>>
    BY <1>4 DEF Reserve
  <2>2. QED
    BY <1>1, <1>2, <2>1, GivesUp, ItemStays DEF EvidenceInv
<1>5. QED
  BY <1>3, <1>4

LEMMA ProviderInv ==
  ASSUME EvidenceInv, NEW w \in Workers, ProviderAnswers(w)
  PROVE  EvidenceInv'
<1>1. UNCHANGED <<ev, form, staging, final, completing, answered, holder, retries>>
      /\ worker[w].pc = "called"
  BY DEF ProviderAnswers
<1>2. PICK outcome \in {"facts", "no_facts", "fail", "defer"} :
        worker' = [worker EXCEPT ![w].pc = outcome]
  BY DEF ProviderAnswers, Outcomes
<1>3. troubles' \in 0..MaxTroubles
  BY Troubled DEF ProviderAnswers, EvidenceInv, RestOK
<1> DEFINE a == [worker[w] EXCEPT !.pc = outcome]
<1>4. worker' = [worker EXCEPT ![w] = a] /\ worker'[w] = a
  BY <1>2 DEF EvidenceInv, WorkersInv
<1>5. a \in Attempt /\ a.sum = worker[w].sum /\ a.ver = worker[w].ver
      /\ a.current = worker[w].current
  BY DEF EvidenceInv, WorkersInv, Attempt
<1> HIDE DEF a
<1>6. WorkerOK(w)'
  BY <1>1, <1>4, <1>5 DEF EvidenceInv, WorkersInv, WorkerOK, InFlight, Reserved
<1>7. WorkersInv'
  BY <1>1, <1>4, <1>5, <1>6, OneWorker DEF EvidenceInv
<1>8. QED
  BY <1>1, <1>3, <1>7, ItemStays DEF EvidenceInv, RestOK

\* The operation identity an attempt's result goes under is well formed.
LEMMA OperationTyped ==
  ASSUME WorkersInv, NEW w \in Workers, InFlight(w), final \subseteq Contents
  PROVE  OperationId(worker[w].ver, worker[w].sum) \in Versions \X Contents
<1>1. worker[w] \in Attempt /\ worker[w].sum \in final
  BY DEF WorkersInv, WorkerOK
<1>2. worker[w].ver \in Versions /\ worker[w].sum \in Contents
  BY <1>1 DEF Attempt
<1>3. QED
  BY <1>2 DEF OperationId

\* A result is refused, goes back for another try, or is of the record as reserved.
LEMMA CommitReadyInv ==
  ASSUME EvidenceInv, NEW w \in Workers, CommitReady(w)
  PROVE  EvidenceInv'
<1> DEFINE operation == OperationId(worker[w].ver, worker[w].sum)
<1>1. UNCHANGED <<staging, final, retries, troubles>> /\ InFlight(w)
  BY DEF CommitReady, InFlight
<1>2. CASE worker' = [worker EXCEPT ![w] = Idle]
           /\ UNCHANGED <<ev, form, answered, holder, completing>>
  BY <1>1, <1>2, GivesUp, ItemStays DEF EvidenceInv, RestOK
<1>3. CASE worker' = [worker EXCEPT ![w].pc = "requeue"]
           /\ UNCHANGED <<ev, form, answered, holder, completing>>
  <2> DEFINE a == [worker[w] EXCEPT !.pc = "requeue"]
  <2>1. worker' = [worker EXCEPT ![w] = a] /\ worker'[w] = a
    BY <1>3 DEF EvidenceInv, WorkersInv
  <2>2. a \in Attempt /\ a.sum = worker[w].sum /\ a.ver = worker[w].ver
        /\ a.current = worker[w].current
    BY DEF EvidenceInv, WorkersInv, Attempt
  <2> HIDE DEF a
  <2>3. WorkerOK(w)'
    BY <1>1, <1>3, <2>1, <2>2 DEF EvidenceInv, WorkersInv, WorkerOK, Reserved
  <2>4. WorkersInv'
    BY <1>1, <1>3, <2>1, <2>2, <2>3, OneWorker DEF EvidenceInv
  <2>5. QED
    BY <1>1, <1>3, <2>4, ItemStays DEF EvidenceInv, RestOK
<1>4. CASE /\ worker[w].current
           /\ ev' = Completed(IF worker[w].pc = "facts" THEN "proposed" ELSE "no_facts")
           /\ form' = IF worker[w].pc = "facts"
                        THEN [state |-> "proposed", ver |-> worker[w].ver, sum |-> worker[w].sum]
                        ELSE form
           /\ answered' = answered \union {operation}
           /\ worker' = OutdateOthers(Idle, w)
           /\ Released
           /\ OutdateCompletion
  <2>1. ev.file = "processing" /\ worker[w].ver = ev.ver /\ worker[w].sum = ev.sum
    BY <1>1, <1>4 DEF EvidenceInv, WorkersInv, WorkerOK, Reserved
  <2>2. /\ ev' \in Record /\ ev'.file = "ready" /\ ev'.state = "completed"
        /\ ev'.ver = ev.ver /\ ev'.sum = ev.sum
    BY <1>4, ResultTyped
  <2>3. form' \in Field /\ FactsFromCurrentMaterial'
    <3>1. CASE worker[w].pc = "facts"
      BY <1>4, <2>1, <2>2, <3>1 DEF FactsFromCurrentMaterial, Field, Record
    <3>2. CASE worker[w].pc # "facts"
      BY <1>4, <2>1, <2>2, <3>2 DEF EvidenceInv, ItemInv, FactsFromCurrentMaterial
    <3>3. QED
      BY <3>1, <3>2
  <2>4. ItemInv'
    BY <1>1, <1>4, <2>1, <2>2, <2>3, WorkerCommitsItem DEF Released
  <2>5. WorkersInv'
    BY <1>1, <1>4, GivesUp DEF EvidenceInv
  <2>6. operation \in Versions \X Contents
    BY <1>1, OperationTyped DEF EvidenceInv, ItemInv
  <2>7. RestOK'
    BY <1>1, <1>4, <2>6 DEF EvidenceInv, RestOK
  <2>8. QED
    BY <2>4, <2>5, <2>7 DEF EvidenceInv
<1>5. QED
  BY <1>2, <1>3, <1>4 DEF CommitReady

\* The reservation goes back to the queue.
LEMMA GivenBackInv ==
  ASSUME EvidenceInv, NEW w \in Workers, ev.file = "processing",
         ev' = Queued, worker' = OutdateOthers(Idle, w), Released, OutdateCompletion,
         UNCHANGED <<form, staging, final, answered, retries, troubles>>
  PROVE  EvidenceInv'
<1>1. /\ ev' \in Record /\ ev'.file = "processing" /\ ev'.state = "queued"
      /\ ev'.sum = ev.sum
  BY DEF EvidenceInv, ItemInv, Queued, Record
<1>2. FactsFromCurrentMaterial'
  BY DEF EvidenceInv, ItemInv, FactsFromCurrentMaterial
<1>3. ItemInv'
  BY <1>1, <1>2, WorkerCommitsItem DEF EvidenceInv, ItemInv, Released
<1>4. QED
  BY <1>3, GivesUp DEF EvidenceInv, RestOK

LEMMA RequeueInv ==
  ASSUME EvidenceInv, NEW w \in Workers, Requeue(w)
  PROVE  EvidenceInv'
<1>1. UNCHANGED <<form, staging, final, answered, retries>>
  BY DEF Requeue
<1>2. CASE /\ Deferrable(w) /\ ev' = Queued /\ worker' = OutdateOthers(Idle, w)
           /\ Released /\ OutdateCompletion /\ UNCHANGED troubles
  <2>1. ev.file = "processing"
    BY <1>2 DEF Deferrable, EvidenceInv, ItemInv
  <2>2. QED
    BY <1>1, <1>2, <2>1, GivenBackInv
<1>3. CASE /\ worker' = [worker EXCEPT ![w] = Idle] /\ UNCHANGED <<ev, holder, completing>>
           /\ (troubles' = troubles \/ Trouble)
  <2>1. troubles' \in 0..MaxTroubles
    BY <1>3, Troubled DEF EvidenceInv, RestOK
  <2>2. QED
    BY <1>1, <1>3, <2>1, GivesUp, ItemStays DEF EvidenceInv, RestOK
<1>4. QED
  BY <1>2, <1>3 DEF Requeue

LEMMA DeferInv ==
  ASSUME EvidenceInv, NEW w \in Workers, Defer(w)
  PROVE  EvidenceInv'
<1>1. UNCHANGED <<form, staging, final, answered, retries, troubles>> /\ InFlight(w)
  BY DEF Defer, InFlight
<1>2. CASE worker[w].current
  <2>1. ev.file = "processing"
    BY <1>1, <1>2 DEF EvidenceInv, WorkersInv, WorkerOK, Reserved
  <2>2. QED
    BY <1>1, <1>2, <2>1, GivenBackInv DEF Defer
<1>3. CASE ~worker[w].current
  <2>1. worker' = [worker EXCEPT ![w] = Idle] /\ UNCHANGED <<ev, holder, completing>>
    BY <1>3 DEF Defer
  <2>2. QED
    BY <1>1, <2>1, GivesUp, ItemStays DEF EvidenceInv, RestOK
<1>4. QED
  BY <1>2, <1>3

\* A failure is settled on the same terms as a result.
LEMMA FailInv ==
  ASSUME EvidenceInv, NEW w \in Workers, Fail(w)
  PROVE  EvidenceInv'
<1> DEFINE operation == OperationId(worker[w].ver, worker[w].sum)
           accepted == operation \notin answered /\ worker[w].current
<1>1. UNCHANGED <<form, staging, final, retries, troubles>> /\ InFlight(w)
  BY DEF Fail, InFlight
<1>2. CASE accepted
  <2>1. /\ ev' = Failed /\ answered' = answered \union {operation} /\ Released
        /\ OutdateCompletion /\ worker' = OutdateOthers(Idle, w)
    BY <1>2 DEF Fail
  <2>2. ev.file = "processing"
    BY <1>1, <1>2 DEF EvidenceInv, WorkersInv, WorkerOK, Reserved
  <2>3. ev' \in Record /\ ev'.file = "failed" /\ ev'.state = "failed" /\ ev'.sum = ev.sum
    BY <2>1, ResultTyped
  <2>4. FactsFromCurrentMaterial'
    BY <1>1, <2>2 DEF EvidenceInv, ItemInv, FactsFromCurrentMaterial
  <2>5. ItemInv'
    BY <1>1, <2>1, <2>2, <2>3, <2>4, WorkerCommitsItem DEF EvidenceInv, ItemInv, Released
  <2>6. operation \in Versions \X Contents
    BY <1>1, OperationTyped DEF EvidenceInv, ItemInv
  <2>7. RestOK'
    BY <1>1, <2>1, <2>6 DEF EvidenceInv, RestOK
  <2>8. QED
    BY <1>1, <2>1, <2>5, <2>7, GivesUp DEF EvidenceInv
<1>3. CASE ~accepted
  <2>1. worker' = [worker EXCEPT ![w] = Idle] /\ UNCHANGED <<ev, answered, holder, completing>>
    BY <1>3 DEF Fail
  <2>2. QED
    BY <1>1, <2>1, GivesUp, ItemStays DEF EvidenceInv, RestOK
<1>4. QED
  BY <1>2, <1>3

LEMMA CrashInv ==
  ASSUME EvidenceInv, NEW w \in Workers, Crash(w)
  PROVE  EvidenceInv'
<1>1. /\ worker' = [worker EXCEPT ![w] = Idle]
      /\ UNCHANGED <<ev, form, staging, final, completing, answered, holder, retries>>
  BY DEF Crash
<1>2. troubles' \in 0..MaxTroubles
  BY Troubled DEF Crash, EvidenceInv
<1>3. QED
  BY <1>1, <1>2, GivesUp, ItemStays DEF EvidenceInv, RestOK

\* The end of a lease changes neither the file nor what anybody has read.
LEMMA LeaseInv ==
  ASSUME EvidenceInv, LeaseExpires \/ Overrun
  PROVE  EvidenceInv'
<1>1. /\ ev.state = "running" /\ ev' = [ev EXCEPT !.expired = TRUE]
      /\ worker' = [w \in Workers |-> [worker[w] EXCEPT !.overrun = InFlight(w)]]
      /\ UNCHANGED <<form, staging, final, completing, answered, holder, retries>>
  BY DEF LeaseExpires, Overrun, ExpireLease
<1>2. troubles' \in 0..MaxTroubles
  BY Troubled DEF LeaseExpires, Overrun, EvidenceInv, RestOK
<1>3. /\ ev' \in Record /\ ev'.file = ev.file /\ ev'.state = ev.state
      /\ ev'.ver = ev.ver /\ ev'.sum = ev.sum
  BY <1>1 DEF EvidenceInv, ItemInv, Record
<1>4. ItemInv'
  BY <1>1, <1>3 DEF EvidenceInv, ItemInv, FactsFromCurrentMaterial
<1>5. \A w \in Workers : InFlight(w) \in BOOLEAN
  BY DEF InFlight
<1>6. \A w \in Workers : /\ [worker[w] EXCEPT !.overrun = InFlight(w)] \in Attempt
                         /\ worker'[w].pc = worker[w].pc /\ worker'[w].ver = worker[w].ver
                         /\ worker'[w].sum = worker[w].sum
                         /\ worker'[w].current = worker[w].current
  BY <1>1, <1>5 DEF EvidenceInv, WorkersInv, Attempt
<1>7. ASSUME NEW w \in Workers PROVE WorkerOK(w)'
  BY <1>1, <1>3, <1>6 DEF EvidenceInv, WorkersInv, WorkerOK, InFlight, Reserved
<1>8. WorkersInv'
  BY <1>1, <1>6, <1>7 DEF WorkersInv
<1>9. QED
  BY <1>1, <1>2, <1>4, <1>8 DEF EvidenceInv, RestOK

-----------------------------------------------------------------------------
(* What the proofs about the item give.                                    *)

LEMMA EvidenceInvInit ==
  ASSUME Init
  PROVE  EvidenceInv
<1>1. ev \in Record /\ form \in Field /\ completing \in [sum : Checksums, current : BOOLEAN]
  BY DEF Init, Record, Field, EmptyField, NotCompleting, Versions, Checksums
<1>2. ItemInv
  BY <1>1 DEF Init, ItemInv, EmptyField, NotCompleting, FactsFromCurrentMaterial
<1>3. WorkersInv
  BY IdleTyped DEF Init, WorkersInv, WorkerOK, InFlight, Idle
<1>4. RestOK
  BY DEF Init, RestOK, Checksums
<1>5. QED
  BY <1>2, <1>3, <1>4 DEF EvidenceInv

LEMMA EvidenceInvStep ==
  ASSUME EvidenceInv, [Next]_vars
  PROVE  EvidenceInv'
<1>1. CASE ClaimantStep
  BY <1>1, ClaimantInv, UploadInv DEF ClaimantStep
<1>2. ASSUME NEW w \in Workers, Sweep(w) \/ AttemptStep(w) \/ Crash(w)
      PROVE  EvidenceInv'
  BY <1>2, SweepInv, ReserveInv, ProviderInv, CommitReadyInv, RequeueInv, DeferInv, FailInv,
     CrashInv DEF AttemptStep
<1>3. CASE LeaseExpires \/ Overrun
  BY <1>3, LeaseInv
<1>4. CASE RepairImage \/ IntegrationStep
  BY <1>4, IntegrationInv
<1>5. CASE UNCHANGED vars
  BY <1>5, ItemStays, WorkersStay DEF vars, EvidenceInv, RestOK
<1>6. QED
  BY <1>1, <1>2, <1>3, <1>4, <1>5 DEF Next

LEMMA EvidenceInvHolds == Spec => []EvidenceInv
<1>1. Init => EvidenceInv
  BY EvidenceInvInit
<1>2. EvidenceInv /\ [Next]_vars => EvidenceInv'
  BY EvidenceInvStep
<1>3. QED
  BY <1>1, <1>2, PTL DEF Spec

\* The record, the form, the objects and the attempts keep their types; what an
\* attempt reads was finalised (services/evidence.py binds no other checksum),
\* and a reservation has a running record.
THEOREM EvidenceTyped == Spec => []TypeOK
<1>1. EvidenceInv => TypeOK
  BY DEF EvidenceInv, ItemInv, WorkersInv, WorkerOK, RestOK, TypeOK
<1>2. QED
  BY <1>1, EvidenceInvHolds, PTL

\* A field a document proposed is of the generation and the content the item has
\* now, and the item is ready: replacing a file withdraws what it proposed, and
\* the revision checks of complete_evidence_processing keep late answers out.
THEOREM FactsAreOfTheFile == Spec => []FactsFromCurrentMaterial
<1>1. EvidenceInv => FactsFromCurrentMaterial
  BY DEF EvidenceInv, ItemInv
<1>2. QED
  BY <1>1, EvidenceInvHolds, PTL

\* The step that settles the item for a worker.
SettledStep ==
  \A w \in Workers : (InFlight(w) /\ worker'[w].pc = "idle" /\ ev'.file # ev.file) => holder = w

\* What others do leaves the stage of an attempt.
LEMMA OthersKeepStage ==
  ASSUME EvidenceInv, NEW w \in Workers, NEW v \in Workers, v # w,
         Sweep(v) \/ AttemptStep(v) \/ Crash(v)
  PROVE  worker'[w].pc = worker[w].pc
<1>1. worker \in [Workers -> Attempt] /\ Outdated(w).pc = worker[w].pc
  BY DEF EvidenceInv, WorkersInv, Outdated, Attempt
<1>2. CASE \E a : worker' = OutdateOthers(a, v)
  BY <1>1, <1>2 DEF OutdateOthers
<1>3. CASE \E a : worker' = [worker EXCEPT ![v] = a]
  BY <1>1, <1>3
<1>4. CASE Sweep(v) \/ Crash(v)
  BY <1>3, <1>4 DEF Sweep, Crash
<1>5. CASE Reserve(v)
  BY <1>2, <1>3, <1>5 DEF Reserve
<1>6. CASE ProviderAnswers(v)
  BY <1>1, <1>6 DEF ProviderAnswers
<1>7. CASE CommitReady(v)
  <2>1. CASE worker' = [worker EXCEPT ![v].pc = "requeue"]
    BY <1>1, <2>1
  <2>2. QED
    BY <1>2, <1>3, <1>7, <2>1 DEF CommitReady
<1>8. CASE Requeue(v)
  BY <1>2, <1>3, <1>8 DEF Requeue
<1>9. CASE Defer(v)
  BY <1>2, <1>3, <1>9 DEF Defer
<1>10. CASE Fail(v)
  BY <1>2, <1>3, <1>10 DEF Fail
<1>11. QED
  BY <1>4, <1>5, <1>6, <1>7, <1>8, <1>9, <1>10 DEF AttemptStep

\* Only a result of the worker's own takes the record out of processing as its
\* attempt ends, and the worker's read is then still current.
LEMMA SettledByReservation ==
  ASSUME EvidenceInv, [Next]_vars
  PROVE  SettledStep
<1> SUFFICES ASSUME NEW w \in Workers, InFlight(w), worker'[w].pc = "idle", ev'.file # ev.file
             PROVE  holder = w
  BY DEF SettledStep
<1>1. worker[w] \in Attempt /\ worker \in [Workers -> Attempt]
      /\ worker[w].pc \notin {"idle", "swept"} /\ ev \in Record
  BY DEF EvidenceInv, ItemInv, WorkersInv, InFlight
<1>2. worker'[w].pc # worker[w].pc
  BY <1>1
<1>3. ~OutdateWorkers /\ worker' # worker
  BY <1>1, <1>2 DEF OutdateWorkers, Outdated, Attempt
<1>4. CASE ClaimantStep
  BY <1>3, <1>4 DEF ClaimantStep, Register, RequestUpload, PutBytes, StartComplete,
     CommitComplete, Decide, Remove, OtherMutation, Committed
<1>5. CASE RepairImage \/ IntegrationStep
  BY <1>3, <1>5 DEF RepairImage, IntegrationStep, IntegrationReady, IntegrationFailed,
     IntegrationRetry, Committed
<1>6. CASE LeaseExpires \/ Overrun
  BY <1>1, <1>6 DEF LeaseExpires, Overrun, ExpireLease, Record
<1>7. ASSUME NEW v \in Workers, Sweep(v) \/ AttemptStep(v) \/ Crash(v)
      PROVE  holder = w
  <2>1. v = w
    BY <1>2, <1>7, OthersKeepStage
  <2>2. CASE Sweep(w) \/ Reserve(w)
    BY <1>1, <2>2 DEF Sweep, Reserve
  <2>3. CASE ProviderAnswers(w) \/ Crash(w)
    BY <2>3 DEF ProviderAnswers, Crash
  <2>4. CASE Requeue(w) \/ Defer(w)
    BY <1>1, <2>4 DEF Requeue, Defer, Queued, Record
  <2>5. CASE CommitReady(w) \/ Fail(w)
    <3>1. worker[w].current
      BY <2>5 DEF CommitReady, Fail
    <3>2. QED
      BY <3>1 DEF EvidenceInv, WorkersInv, WorkerOK, Reserved
  <2>6. QED
    BY <1>7, <2>1, <2>2, <2>3, <2>4, <2>5 DEF AttemptStep
<1>8. CASE UNCHANGED vars
  BY <1>3, <1>8 DEF vars
<1>9. QED
  BY <1>4, <1>5, <1>6, <1>7, <1>8 DEF Next

\* The attempt whose result changes the file is the one that reserved the record
\* last: the revision its reservation made is the Claim's until anybody commits,
\* so that no other attempt passes the checks of services/pdf_processing.py.
THEOREM HolderSettles == Spec => SettledByHolder
<1>1. EvidenceInv /\ [Next]_vars => [SettledStep]_vars
  BY SettledByReservation
<1>2. QED
  BY <1>1, EvidenceInvHolds, PTL DEF Spec, SettledByHolder, SettledStep
=============================================================================
