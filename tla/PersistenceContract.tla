------------------------- MODULE PersistenceContract -------------------------
(***************************************************************************)
(* What the repository protocols (repositories/protocols.py) let a caller  *)
(* rely on, whichever backend is configured.  Per mutating method:         *)
(*   records   the records its parameters carry: they are in effect when   *)
(*             the method has returned;                                    *)
(*   compares  the records a parameter says the state of (an expected      *)
(*             revision, or the expected record): of two callers that read *)
(*             the same one, one is refused.                               *)
(* Optional parameters are taken as given.                                 *)
(***************************************************************************)
Promise(records, compares) == [records |-> records, compares |-> compares]

\* claim, expected_revision and idempotency, and the records that go with them.
KeyedRevision(records) == Promise({"claims", "idempotency"} \cup records, {"claims"})

-----------------------------------------------------------------------------
(* ClaimRepository.                                                         *)

create_claim == Promise({"claims", "sessions", "branch_evaluations"}, {})
promote_claim_owner == Promise({"claims"}, {})
save_claim == Promise({"claims", "branch_evaluations"}, {"claims"})
save_claim_mutation == KeyedRevision({"branch_evaluations"})
save_session == Promise({"sessions"}, {})
save_session_mutation ==
    KeyedRevision({"sessions", "branch_evaluations", "follow_ups", "follow_up_operations", "audit_events"})
save_follow_up_operation == Promise({"follow_up_operations"}, {})
backfill_incomplete_claim_recovery == Promise({"follow_ups"}, {})
commit_recovery_staff_abandonment ==
    Promise({"claims", "follow_ups", "follow_up_operations", "idempotency", "audit_events"}, {"claims", "follow_ups"})
commit_follow_up_contact_withdrawal ==
    Promise({"follow_ups", "follow_up_operations", "audit_events"}, {"claims", "follow_ups"})
commit_recovery_expiry ==
    Promise({"claims", "follow_ups", "follow_up_operations", "audit_events"}, {"claims", "follow_ups"})
commit_due_follow_up_attempt ==
    Promise({"follow_ups", "follow_up_operations", "messages", "audit_events"}, {"follow_ups"})
save_incomplete_checkpoint == KeyedRevision({"sessions", "follow_ups"})
reserve_message_turn_idempotency_alias == Promise({"idempotency"}, {})
save_idempotency == Promise({"idempotency"}, {})

-----------------------------------------------------------------------------
(* PersistenceRepository.                                                   *)

reserve_eligible_retention_operation == Promise({"retention_operations"}, {})
reserve_retention_operation == Promise({"retention_operations"}, {})
freeze_retention_targets == Promise({"retention_operations"}, {"retention_operations"})
record_retention_step_failure == Promise({"retention_operations"}, {"retention_operations"})
authorize_retention_object_target == Promise({"retention_operations"}, {"retention_operations"})
record_retention_object_result == Promise({"retention_operations"}, {})
apply_retention_record_target == Promise({"retention_operations"}, {"retention_operations"})
save_retention_operation == Promise({"retention_operations"}, {"retention_operations"})
save_retention_hold == Promise({"retention_holds"}, {})
commit_retention_hold_action == Promise({"retention_holds", "audit_events", "idempotency"}, {"claims"})
append_realtime_publication == Promise({"realtime_events"}, {})
append_audit_event == Promise({"audit_events"}, {})
save_claim_mutation_with_audit == KeyedRevision({"branch_evaluations", "audit_events"})
save_message == Promise({"messages"}, {})
save_staff_agent_session == Promise({"staff_agent_sessions"}, {})
save_staff_agent_turn == Promise({"staff_agent_sessions", "staff_agent_messages"}, {})
save_message_mutation == KeyedRevision({"sessions", "messages"})
save_message_recovery == Promise({"messages", "idempotency", "runtime_traces"}, {})
freeze_message_response == Promise({"idempotency"}, {})
save_conversation_summary == Promise({"conversation_summaries"}, {})
save_agent_decision == Promise({"decisions"}, {})
save_branch_evaluation == Promise({"branch_evaluations"}, {})
reserve_claim_creation_operation == Promise({"claim_creation_operations"}, {})
save_claim_creation_operation == Promise({"claim_creation_operations"}, {})
save_claim_creation_outcome == Promise({"claims", "claim_creation_operations", "branch_evaluations"}, {"claims"})
save_assessor_routing_operation == Promise({"assessor_routing_operations"}, {})
save_assessor_routing_settlement ==
    Promise({"assessor_routing_operations", "external_tasks", "external_task_attempts"}, {})
save_assessor_reconciliation ==
    Promise({"claims", "external_tasks", "assessor_routing_operations", "external_task_requests", "evidence",
             "external_task_evidence_links", "branch_evaluations", "staff_actions", "idempotency"},
            {"claims", "staff_presence"})
save_assessor_routing_preparation == Promise({"assessor_routing_operations", "decisions", "audit_events"}, {})
save_agent_turn ==
    KeyedRevision({"sessions", "messages", "decisions", "handoffs", "evidence", "branch_evaluations",
                   "runtime_traces", "runtime_turns", "review_signals"})
save_runtime_work_item == Promise({"work_items"}, {})

\* Read-only on the Claim, whose revision it names.
save_runtime_turn == Promise({"sessions", "messages", "runtime_traces", "idempotency"}, {"claims"})
save_evidence == Promise({"evidence"}, {})
save_motor_other_driver_mutation == KeyedRevision({"motor_other_drivers"})
save_contents_item_evidence_association_mutation == KeyedRevision({"contents_associations"})
save_evidence_action_mutation ==
    KeyedRevision({"evidence", "evidence_claim_links", "audit_events", "branch_evaluations"})
save_evidence_mutation == KeyedRevision({"evidence", "branch_evaluations"})
save_external_task == Promise({"external_tasks"}, {})
save_external_task_attempt == Promise({"external_task_attempts"}, {})
save_external_task_settlement == Promise({"external_tasks", "external_task_attempts"}, {})
reserve_external_dispatch == Promise({"external_task_requests"}, {})
release_external_dispatch == Promise({"external_task_requests"}, {})
save_external_task_request == Promise({"external_task_requests"}, {})
save_external_task_evidence_link == Promise({"external_task_evidence_links"}, {})
save_external_task_result == Promise({"external_task_results"}, {})
save_retrieval_bundle == Promise({"retrievals", "review_signals"}, {})
save_staff_presence == Promise({"staff_presence"}, {"staff_presence"})
save_ownership_mutation ==
    KeyedRevision({"collaboration_requests", "claim_coworkers", "handoffs", "audit_events", "executions"})
save_staff_mutation ==
    Promise({"claims", "idempotency", "staff_actions", "customer_updates", "signal_decisions", "claim_decisions",
             "handoffs", "messages", "audit_events", "executions"}, {"claims", "staff_presence"})
save_handoff == Promise({"handoffs"}, {})
save_handoff_mutation == KeyedRevision({"handoffs", "audit_events", "branch_evaluations"})

(* Account data and assets (AccountDataRepository and AssetRepository).     *)
create_account_record == Promise({"account_records", "idempotency", "audit_events"}, {})
update_account_record == Promise({"account_records", "audit_events"}, {"account_records"})
save_policy_selection == KeyedRevision({"audit_events", "branch_evaluations"})
save_payout_contact_selection == KeyedRevision({"audit_events", "branch_evaluations"})
create_asset == Promise({"assets", "idempotency", "audit_events"}, {})
update_asset == Promise({"assets", "audit_events"}, {"assets"})
save_asset_selection == KeyedRevision({"asset_snapshots", "audit_events", "branch_evaluations"})
-----------------------------------------------------------------------------
\* The methods by name.
Table ==
    [create_claim |-> create_claim, promote_claim_owner |-> promote_claim_owner, save_claim |-> save_claim,
     save_claim_mutation |-> save_claim_mutation, save_session |-> save_session,
     save_session_mutation |-> save_session_mutation, save_follow_up_operation |-> save_follow_up_operation,
     backfill_incomplete_claim_recovery |-> backfill_incomplete_claim_recovery,
     commit_recovery_staff_abandonment |-> commit_recovery_staff_abandonment,
     commit_follow_up_contact_withdrawal |-> commit_follow_up_contact_withdrawal,
     commit_recovery_expiry |-> commit_recovery_expiry,
     commit_due_follow_up_attempt |-> commit_due_follow_up_attempt,
     save_incomplete_checkpoint |-> save_incomplete_checkpoint,
     reserve_message_turn_idempotency_alias |-> reserve_message_turn_idempotency_alias,
     save_idempotency |-> save_idempotency,
     reserve_eligible_retention_operation |-> reserve_eligible_retention_operation,
     reserve_retention_operation |-> reserve_retention_operation,
     freeze_retention_targets |-> freeze_retention_targets,
     record_retention_step_failure |-> record_retention_step_failure,
     authorize_retention_object_target |-> authorize_retention_object_target,
     record_retention_object_result |-> record_retention_object_result,
     apply_retention_record_target |-> apply_retention_record_target,
     save_retention_operation |-> save_retention_operation, save_retention_hold |-> save_retention_hold,
     commit_retention_hold_action |-> commit_retention_hold_action,
     append_realtime_publication |-> append_realtime_publication, append_audit_event |-> append_audit_event,
     save_claim_mutation_with_audit |-> save_claim_mutation_with_audit, save_message |-> save_message,
     save_staff_agent_session |-> save_staff_agent_session, save_staff_agent_turn |-> save_staff_agent_turn,
     save_message_mutation |-> save_message_mutation, save_message_recovery |-> save_message_recovery,
     freeze_message_response |-> freeze_message_response,
     save_conversation_summary |-> save_conversation_summary, save_agent_decision |-> save_agent_decision,
     save_branch_evaluation |-> save_branch_evaluation,
     reserve_claim_creation_operation |-> reserve_claim_creation_operation,
     save_claim_creation_operation |-> save_claim_creation_operation,
     save_claim_creation_outcome |-> save_claim_creation_outcome,
     save_assessor_routing_operation |-> save_assessor_routing_operation,
     save_assessor_routing_settlement |-> save_assessor_routing_settlement,
     save_assessor_reconciliation |-> save_assessor_reconciliation,
     save_assessor_routing_preparation |-> save_assessor_routing_preparation,
     save_agent_turn |-> save_agent_turn, save_runtime_work_item |-> save_runtime_work_item,
     save_runtime_turn |-> save_runtime_turn, save_evidence |-> save_evidence,
     save_motor_other_driver_mutation |-> save_motor_other_driver_mutation,
     save_contents_item_evidence_association_mutation |-> save_contents_item_evidence_association_mutation,
     save_evidence_action_mutation |-> save_evidence_action_mutation,
     save_evidence_mutation |-> save_evidence_mutation, save_external_task |-> save_external_task,
     save_external_task_attempt |-> save_external_task_attempt,
     save_external_task_settlement |-> save_external_task_settlement,
     reserve_external_dispatch |-> reserve_external_dispatch,
     release_external_dispatch |-> release_external_dispatch,
     save_external_task_request |-> save_external_task_request,
     save_external_task_evidence_link |-> save_external_task_evidence_link,
     save_external_task_result |-> save_external_task_result, save_retrieval_bundle |-> save_retrieval_bundle,
     save_staff_presence |-> save_staff_presence, save_ownership_mutation |-> save_ownership_mutation,
     save_staff_mutation |-> save_staff_mutation, save_handoff |-> save_handoff,
     save_handoff_mutation |-> save_handoff_mutation, create_account_record |-> create_account_record,
     update_account_record |-> update_account_record, save_policy_selection |-> save_policy_selection,
     save_payout_contact_selection |-> save_payout_contact_selection, create_asset |-> create_asset,
     update_asset |-> update_asset, save_asset_selection |-> save_asset_selection]
=============================================================================
