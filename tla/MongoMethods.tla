---------------------------- MODULE MongoMethods ----------------------------
(***************************************************************************)
(* What each mutating method of the MongoDB repository                     *)
(* (repositories/mongodb.py) writes, in the form of MemoryMethods: one row *)
(* per method, the record types under the names of the in-memory           *)
(* dictionaries.  "realtime_events" is the event and the counter it is     *)
(* numbered from.  The Claim, evidence and handoffs are stored by _put,    *)
(* which makes the Claim's staff_search projection afresh, except          *)
(*   "bare_claims"      the Claim, replaced by a document without it;      *)
(*   "moved_claims", "moved_evidence", "moved_handoffs"                    *)
(*                      the documents of another customer, by setting      *)
(*                      customer_id (of the projection, only               *)
(*                      customer_reference is set).                        *)
(* A method that finds, on its first test, that nothing is to be done may  *)
(* return unchanged; Repository adds that and the refusals to every row.   *)
(***************************************************************************)
EXTENDS Naturals, Sequences

\* transaction  the body runs under _atomic (client.with_transaction): one
\*              snapshot, writes seen by nobody before the commit, and the
\*              body run again when another wrote one of its documents;
\* compare      one write whose filter repeats the test;
\* none         tests and writes of their own, each atomic.
Guards == {"transaction", "compare", "none"}

Row(guard, checks, expects, writes) ==
    [guard |-> guard, checks |-> checks, expects |-> expects,
     writes |-> writes, late |-> 0, early |-> FALSE]

Atomic(checks, expects, writes) == Row("transaction", checks, expects, writes)

\* _ensure_claim_revision and _replace_claim_revision.
ClaimRevision(checks, writes) == Atomic(checks \cup {"open"}, {"claims"}, <<"claims">> \o writes)

\* _save_child_mutation: an unused key (or the checkpoint of this very turn),
\* the revision, then the Claim, the records, the key and the event.
ChildMutation(records) == ClaimRevision({"key"}, records \o <<"idempotency", "realtime_events">>)

\* The same with audit events, inserted last.
AuditedMutation(records) ==
    ClaimRevision({"key"}, records \o <<"idempotency", "realtime_events", "audit_events">>)

-----------------------------------------------------------------------------
(* Claims, sessions and messages.                                           *)

create_claim == Atomic({}, {"claims"}, <<"claims", "sessions", "branch_evaluations", "realtime_events">>)

\* update_many on everything the anonymous customer has of the Claim.
promote_claim_owner ==
    Atomic({"open"}, {}, <<"moved_claims", "sessions", "follow_ups", "messages", "moved_evidence",
                           "moved_handoffs", "idempotency", "realtime_events">>)
save_claim == ClaimRevision({}, <<"branch_evaluations", "realtime_events">>)
save_claim_mutation == ChildMutation(<<"branch_evaluations">>)
save_claim_mutation_with_audit == AuditedMutation(<<"branch_evaluations">>)
save_session == Row("none", {"open"}, {}, <<"sessions">>)
save_incomplete_checkpoint ==
    ClaimRevision({"key"}, <<"sessions", "follow_ups", "idempotency", "realtime_events">>)

\* Not by _replace_claim_revision: access is not tested, and the projection
\* is left out.
save_session_mutation ==
    Atomic({"key"}, {"claims"}, <<"bare_claims", "sessions", "follow_ups", "follow_up_operations",
                                  "branch_evaluations", "idempotency", "audit_events", "realtime_events">>)
save_message == Atomic({"open"}, {}, <<"messages", "realtime_events">>)
save_message_mutation == ChildMutation(<<"sessions", "messages">>)
save_message_recovery == Atomic({"open"}, {}, <<"messages", "runtime_traces", "messages", "idempotency">>)
freeze_message_response == Atomic({"open"}, {}, <<"idempotency">>)
reserve_message_turn_idempotency_alias == Atomic({"open"}, {}, <<"idempotency">>)
save_idempotency == Row("none", {"open"}, {}, <<"idempotency">>)
save_conversation_summary == Row("none", {"open"}, {}, <<"conversation_summaries">>)

(* The Agent's turns.                                                       *)

save_agent_decision == Row("none", {"open"}, {}, <<"decisions">>)
save_branch_evaluation == Row("none", {"open"}, {"claims"}, <<"branch_evaluations">>)
save_agent_turn ==
    ChildMutation(<<"sessions", "messages", "decisions", "review_signals", "handoffs", "evidence",
                    "branch_evaluations", "runtime_traces", "runtime_turns">>)
save_runtime_turn ==
    Atomic({"open", "key"}, {"claims"}, <<"sessions", "messages", "runtime_traces", "idempotency", "realtime_events">>)
save_runtime_work_item == Atomic({}, {}, <<"work_items">>)
save_retrieval_bundle == Atomic({}, {}, <<"retrievals", "review_signals">>)

(* Incomplete-claim recovery.                                               *)

\* One transaction per Follow-up; the write of the session is the fence that
\* makes a change of its interruption source conflict.
backfill_incomplete_claim_recovery == Atomic({}, {}, <<"sessions", "follow_ups", "audit_events">>)
commit_recovery_staff_abandonment ==
    Atomic({"key"}, {"claims", "follow_ups"},
           <<"follow_up_operations", "bare_claims", "follow_ups", "idempotency", "audit_events", "realtime_events">>)
commit_follow_up_contact_withdrawal ==
    Atomic({}, {"claims", "follow_ups"}, <<"follow_up_operations", "follow_ups", "audit_events", "realtime_events">>)
commit_recovery_expiry ==
    Atomic({}, {"claims", "follow_ups"},
           <<"follow_up_operations", "bare_claims", "follow_ups", "audit_events", "realtime_events">>)
commit_due_follow_up_attempt ==
    Atomic({}, {"follow_ups"}, <<"follow_up_operations", "follow_ups", "messages", "audit_events">>)
save_follow_up_operation == Atomic({}, {}, <<"follow_up_operations">>)

-----------------------------------------------------------------------------
(* External creation, assessor routing and external tasks.                  *)

reserve_claim_creation_operation == Atomic({}, {"claims"}, <<"claim_creation_operations">>)
save_claim_creation_operation == Atomic({}, {}, <<"claim_creation_operations">>)
save_claim_creation_outcome ==
    ClaimRevision({}, <<"claim_creation_operations", "branch_evaluations", "realtime_events">>)
save_assessor_routing_operation == Atomic({}, {}, <<"assessor_routing_operations">>)

\* The Claim and the session are read before the transaction.
save_assessor_routing_preparation ==
    Atomic({}, {}, <<"decisions", "assessor_routing_operations", "audit_events">>)
save_assessor_routing_settlement ==
    Atomic({}, {}, <<"assessor_routing_operations", "external_tasks", "realtime_events", "external_task_attempts">>)

\* The presence and the event come before the Claim.
save_assessor_reconciliation ==
    Atomic({"open", "key"}, {"claims", "staff_presence"},
           <<"staff_presence", "realtime_events", "claims", "external_tasks", "assessor_routing_operations",
             "external_task_requests", "evidence", "external_task_evidence_links", "branch_evaluations",
             "staff_actions", "idempotency">>)
save_external_task == Atomic({}, {}, <<"external_tasks", "realtime_events">>)
save_external_task_attempt == Atomic({}, {}, <<"external_task_attempts">>)
save_external_task_settlement == Atomic({}, {}, <<"external_tasks", "realtime_events", "external_task_attempts">>)
reserve_external_dispatch == Row("none", {}, {}, <<"external_task_requests">>)
release_external_dispatch == Row("none", {}, {}, <<"external_task_requests">>)
save_external_task_request == Atomic({}, {}, <<"external_task_requests", "realtime_events">>)
save_external_task_evidence_link == Atomic({}, {}, <<"external_task_evidence_links", "realtime_events">>)
save_external_task_result == Atomic({}, {}, <<"external_task_results", "realtime_events">>)

(* Evidence and participants.                                               *)

save_evidence == Atomic({}, {}, <<"evidence", "realtime_events">>)
save_evidence_mutation == ChildMutation(<<"evidence", "branch_evaluations">>)
save_evidence_action_mutation == AuditedMutation(<<"evidence", "evidence_claim_links", "branch_evaluations">>)
save_motor_other_driver_mutation == ChildMutation(<<"motor_other_drivers">>)
save_contents_item_evidence_association_mutation == ChildMutation(<<"contents_associations">>)

(* Staff.                                                                   *)

save_ownership_mutation ==
    AuditedMutation(<<"collaboration_requests", "claim_coworkers", "handoffs", "executions">>)

\* The revision of the acting member's presence is raised first.
save_staff_mutation ==
    Atomic({"open", "key"}, {"claims", "staff_presence"},
           <<"staff_presence", "claims", "staff_actions", "customer_updates", "signal_decisions", "claim_decisions",
             "handoffs", "messages", "executions", "idempotency", "realtime_events", "audit_events">>)
save_handoff == Atomic({}, {}, <<"handoffs", "realtime_events">>)
save_handoff_mutation == AuditedMutation(<<"handoffs", "branch_evaluations">>)
save_staff_presence == Row("compare", {}, {"staff_presence"}, <<"staff_presence">>)
save_staff_agent_session == Row("none", {}, {}, <<"staff_agent_sessions">>)
save_staff_agent_turn == Atomic({}, {}, <<"staff_agent_sessions", "staff_agent_messages">>)
append_audit_event == Row("none", {}, {}, <<"audit_events">>)

-----------------------------------------------------------------------------
(* Account data and assets.                                                 *)

create_account_record == Atomic({"key"}, {}, <<"account_records", "idempotency", "audit_events">>)

\* The previous common payment destination is demoted first.
update_account_record ==
    Atomic({}, {"account_records"}, <<"account_records", "audit_events", "account_records", "audit_events">>)
save_policy_selection == AuditedMutation(<<"branch_evaluations">>)
save_payout_contact_selection == AuditedMutation(<<"branch_evaluations">>)
create_asset == Atomic({"key"}, {}, <<"assets", "idempotency", "audit_events">>)
update_asset == Atomic({}, {"assets"}, <<"assets", "audit_events">>)
save_asset_selection == AuditedMutation(<<"asset_snapshots", "branch_evaluations">>)

(* Realtime and retention.                                                  *)

append_realtime_publication == Atomic({}, {}, <<"realtime_events">>)

\* The operation closes the access; a unique index keeps it the Claim's only
\* one, and the customer's keys are retired.
reserve_eligible_retention_operation ==
    Atomic({"open"}, {}, <<"retention_operations", "retention_index", "idempotency">>)
reserve_retention_operation ==
    Atomic({"open"}, {}, <<"retention_operations", "retention_index", "idempotency">>)
freeze_retention_targets == Atomic({}, {"retention_operations"}, <<"retention_operations">>)
record_retention_step_failure == Atomic({}, {"retention_operations"}, <<"retention_operations">>)
authorize_retention_object_target == Atomic({}, {"retention_operations"}, <<"retention_operations">>)
record_retention_object_result == Atomic({}, {}, <<"retention_operations">>)
apply_retention_record_target ==
    Atomic({}, {"retention_operations"}, <<"idempotency", "retention_tombstones", "destroyed", "retention_operations">>)
save_retention_operation == Atomic({}, {"retention_operations"}, <<"retention_operations">>)

\* A new hold changes the operation before it is inserted; a released one
\* after it is stored.
save_retention_hold == Atomic({}, {}, <<"retention_operations", "retention_holds", "retention_operations">>)
commit_retention_hold_action ==
    Atomic({}, {"claims"}, <<"retention_operations", "retention_holds", "retention_operations", "audit_events",
                             "idempotency">>)
-----------------------------------------------------------------------------
\* The methods by name.
Table ==
    [create_claim |-> create_claim, promote_claim_owner |-> promote_claim_owner, save_claim |-> save_claim,
     save_claim_mutation |-> save_claim_mutation,
     save_claim_mutation_with_audit |-> save_claim_mutation_with_audit, save_session |-> save_session,
     save_incomplete_checkpoint |-> save_incomplete_checkpoint,
     save_session_mutation |-> save_session_mutation, save_message |-> save_message,
     save_message_mutation |-> save_message_mutation, save_message_recovery |-> save_message_recovery,
     freeze_message_response |-> freeze_message_response,
     reserve_message_turn_idempotency_alias |-> reserve_message_turn_idempotency_alias,
     save_idempotency |-> save_idempotency, save_conversation_summary |-> save_conversation_summary,
     save_agent_decision |-> save_agent_decision, save_branch_evaluation |-> save_branch_evaluation,
     save_agent_turn |-> save_agent_turn, save_runtime_turn |-> save_runtime_turn,
     save_runtime_work_item |-> save_runtime_work_item, save_retrieval_bundle |-> save_retrieval_bundle,
     backfill_incomplete_claim_recovery |-> backfill_incomplete_claim_recovery,
     commit_recovery_staff_abandonment |-> commit_recovery_staff_abandonment,
     commit_follow_up_contact_withdrawal |-> commit_follow_up_contact_withdrawal,
     commit_recovery_expiry |-> commit_recovery_expiry,
     commit_due_follow_up_attempt |-> commit_due_follow_up_attempt,
     save_follow_up_operation |-> save_follow_up_operation,
     reserve_claim_creation_operation |-> reserve_claim_creation_operation,
     save_claim_creation_operation |-> save_claim_creation_operation,
     save_claim_creation_outcome |-> save_claim_creation_outcome,
     save_assessor_routing_operation |-> save_assessor_routing_operation,
     save_assessor_routing_preparation |-> save_assessor_routing_preparation,
     save_assessor_routing_settlement |-> save_assessor_routing_settlement,
     save_assessor_reconciliation |-> save_assessor_reconciliation, save_external_task |-> save_external_task,
     save_external_task_attempt |-> save_external_task_attempt,
     save_external_task_settlement |-> save_external_task_settlement,
     reserve_external_dispatch |-> reserve_external_dispatch,
     release_external_dispatch |-> release_external_dispatch,
     save_external_task_request |-> save_external_task_request,
     save_external_task_evidence_link |-> save_external_task_evidence_link,
     save_external_task_result |-> save_external_task_result, save_evidence |-> save_evidence,
     save_evidence_mutation |-> save_evidence_mutation,
     save_evidence_action_mutation |-> save_evidence_action_mutation,
     save_motor_other_driver_mutation |-> save_motor_other_driver_mutation,
     save_contents_item_evidence_association_mutation |-> save_contents_item_evidence_association_mutation,
     save_ownership_mutation |-> save_ownership_mutation, save_staff_mutation |-> save_staff_mutation,
     save_handoff |-> save_handoff, save_handoff_mutation |-> save_handoff_mutation,
     save_staff_presence |-> save_staff_presence, save_staff_agent_session |-> save_staff_agent_session,
     save_staff_agent_turn |-> save_staff_agent_turn, append_audit_event |-> append_audit_event,
     create_account_record |-> create_account_record, update_account_record |-> update_account_record,
     save_policy_selection |-> save_policy_selection,
     save_payout_contact_selection |-> save_payout_contact_selection, create_asset |-> create_asset,
     update_asset |-> update_asset, save_asset_selection |-> save_asset_selection,
     append_realtime_publication |-> append_realtime_publication,
     reserve_eligible_retention_operation |-> reserve_eligible_retention_operation,
     reserve_retention_operation |-> reserve_retention_operation,
     freeze_retention_targets |-> freeze_retention_targets,
     record_retention_step_failure |-> record_retention_step_failure,
     authorize_retention_object_target |-> authorize_retention_object_target,
     record_retention_object_result |-> record_retention_object_result,
     apply_retention_record_target |-> apply_retention_record_target,
     save_retention_operation |-> save_retention_operation, save_retention_hold |-> save_retention_hold,
     commit_retention_hold_action |-> commit_retention_hold_action]
=============================================================================
