---------------------------- MODULE MemoryMethods ----------------------------
(***************************************************************************)
(* What each mutating method of the in-memory repository                   *)
(* (repositories/fixture.py) does to the dictionaries it keeps, as a row:  *)
(*   guard    how the method is protected from the others (below);         *)
(*   checks   the state it tests before it writes: "open", that retention  *)
(*            has not closed the Claim's access; "key", that its           *)
(*            idempotency key is unused;                                   *)
(*   expects  the dictionaries whose record must be as the caller read it  *)
(*            (a revision, or the expected record itself);                 *)
(*   writes   the dictionaries it assigns to, in that order, with every    *)
(*            optional record present; "realtime_events" is the event it   *)
(*            prepared before the first assignment;                        *)
(*   late     how many assignments precede the last test that may raise.   *)
(* Tests of the arguments against each other and against other records     *)
(* may refuse any call; Repository adds that refusal to every row.        *)
(***************************************************************************)
EXTENDS Naturals, Sequences

\* lock     the body runs under _claim_mutation_lock;
\* serial   it is wrapped: lock, copy of every dictionary, and the copy put
\*          back when the body raises (_serialize_material_claim_mutation);
\* restore  it takes the lock and puts back the dictionaries it writes;
\* none     it takes no lock.
Guards == {"lock", "serial", "restore", "none"}

Row(guard, checks, expects, writes, late) ==
    [guard |-> guard, checks |-> checks, expects |-> expects,
     writes |-> writes, late |-> late, early |-> FALSE]

\* _validate_claim_mutation: access is open and the revision is the expected
\* one.  What follows in the row is what the method writes beside the Claim.
ValidateClaimMutation(guard, checks, writes, late) ==
    Row(guard, checks \cup {"open"}, {"claims"}, <<"claims">> \o writes, late)

-----------------------------------------------------------------------------
(* Claims, sessions and messages.                                           *)

create_claim == Row("lock", {}, {"claims"}, <<"claims", "sessions", "branch_evaluations", "realtime_events">>, 0)
promote_claim_owner ==
    Row("serial", {"open"}, {}, <<"claims", "sessions", "follow_ups", "messages", "evidence", "handoffs",
                                  "idempotency", "realtime_events">>, 0)
save_claim == ValidateClaimMutation("lock", {}, <<"branch_evaluations", "realtime_events">>, 0)
save_claim_mutation ==
    ValidateClaimMutation("lock", {"key"}, <<"branch_evaluations", "idempotency", "realtime_events">>, 0)
save_claim_mutation_with_audit ==
    ValidateClaimMutation("serial", {"key"}, <<"branch_evaluations", "idempotency", "audit_events", "realtime_events">>, 0)
save_session == Row("none", {"open"}, {}, <<"sessions">>, 0)
save_incomplete_checkpoint ==
    ValidateClaimMutation("lock", {"key"}, <<"sessions", "follow_ups", "idempotency", "realtime_events">>, 0)
save_session_mutation ==
    ValidateClaimMutation("lock", {"key"}, <<"sessions", "follow_ups", "follow_up_operations", "branch_evaluations",
                                             "idempotency", "audit_events", "realtime_events">>, 0)
save_message == Row("lock", {}, {}, <<"messages", "realtime_events">>, 0)
save_message_mutation ==
    ValidateClaimMutation("serial", {}, <<"sessions", "messages", "idempotency", "realtime_events">>, 0)

\* The Agent's message is validated by its own _store_message, when the
\* claimant's is stored already, under the lock and without a way back.
save_message_recovery == Row("lock", {"open"}, {}, <<"messages", "messages", "runtime_traces", "idempotency">>, 1)
freeze_message_response == Row("lock", {"open"}, {}, <<"idempotency">>, 0)
reserve_message_turn_idempotency_alias == Row("lock", {"open"}, {}, <<"idempotency">>, 0)

\* Access is tested before the lock is taken.
save_idempotency == [Row("lock", {"open"}, {}, <<"idempotency">>, 0) EXCEPT !.early = TRUE]
save_conversation_summary == Row("none", {"open"}, {}, <<"conversation_summaries">>, 0)

(* The Agent's turns.                                                       *)

save_agent_decision == Row("none", {"open"}, {}, <<"decisions">>, 0)
save_branch_evaluation == Row("none", {"open"}, {"claims"}, <<"branch_evaluations">>, 0)

\* Mutant: the wrapper is left off.
UnwrappedAgentTurn ==
    ValidateClaimMutation("lock", {}, <<"sessions", "messages", "decisions", "review_signals", "handoffs", "evidence",
                                        "branch_evaluations", "runtime_traces", "runtime_turns", "idempotency",
                                        "realtime_events">>, 9)

\* Collisions of the branch evaluation and of the turn plan are found last.
save_agent_turn ==
    ValidateClaimMutation("serial", {}, <<"sessions", "messages", "decisions", "review_signals", "handoffs", "evidence",
                                          "branch_evaluations", "runtime_traces", "runtime_turns", "idempotency",
                                          "realtime_events">>, 9)
save_runtime_turn ==
    Row("serial", {"key"}, {"claims"}, <<"sessions", "messages", "runtime_traces", "idempotency", "realtime_events">>, 0)
save_runtime_work_item == Row("lock", {}, {}, <<"work_items">>, 0)
save_retrieval_bundle == Row("none", {"open"}, {}, <<"retrievals", "review_signals">>, 0)

(* Incomplete-claim recovery.                                               *)

\* One Follow-up at a time: a conflict ends the loop and keeps what is bound.
backfill_incomplete_claim_recovery == Row("lock", {}, {}, <<"follow_ups", "audit_events">>, 0)
commit_recovery_staff_abandonment ==
    Row("lock", {"key"}, {"claims", "follow_ups"},
        <<"follow_up_operations", "follow_ups", "claims", "idempotency", "audit_events", "realtime_events">>, 0)
commit_follow_up_contact_withdrawal ==
    Row("lock", {}, {"claims", "follow_ups"},
        <<"follow_up_operations", "follow_ups", "audit_events", "realtime_events">>, 0)
commit_recovery_expiry ==
    Row("lock", {}, {"claims", "follow_ups"},
        <<"follow_up_operations", "follow_ups", "claims", "audit_events", "realtime_events">>, 0)
commit_due_follow_up_attempt ==
    Row("lock", {}, {"follow_ups"}, <<"follow_up_operations", "messages", "follow_ups", "audit_events">>, 0)
save_follow_up_operation == Row("lock", {}, {}, <<"follow_up_operations">>, 0)

-----------------------------------------------------------------------------
(* External creation, assessor routing and external tasks.                  *)

reserve_claim_creation_operation == Row("lock", {}, {"claims"}, <<"claim_creation_operations">>, 0)
save_claim_creation_operation == Row("lock", {}, {}, <<"claim_creation_operations">>, 0)
save_claim_creation_outcome ==
    ValidateClaimMutation("lock", {}, <<"claim_creation_operations", "branch_evaluations", "realtime_events">>, 0)
save_assessor_routing_operation == Row("none", {}, {}, <<"assessor_routing_operations">>, 0)
save_assessor_routing_preparation ==
    Row("none", {}, {"claims"}, <<"decisions", "assessor_routing_operations", "audit_events">>, 0)

\* Composed of the three saves, each of which tests before it writes.
save_assessor_routing_settlement ==
    Row("restore", {"open"}, {}, <<"assessor_routing_operations", "external_tasks", "realtime_events",
                                   "external_task_attempts">>, 3)
save_assessor_reconciliation ==
    Row("serial", {"open", "key"}, {"claims", "staff_presence"},
        <<"claims", "external_tasks", "assessor_routing_operations", "external_task_requests", "evidence",
          "external_task_evidence_links", "branch_evaluations", "staff_actions", "idempotency", "staff_presence",
          "realtime_events">>, 0)
save_external_task == Row("serial", {"open"}, {}, <<"external_tasks", "realtime_events">>, 0)
save_external_task_attempt == Row("serial", {"open"}, {}, <<"external_task_attempts">>, 0)
save_external_task_settlement ==
    Row("restore", {"open"}, {}, <<"external_tasks", "realtime_events", "external_task_attempts">>, 2)
reserve_external_dispatch == Row("lock", {"open"}, {}, <<"external_task_requests">>, 0)
release_external_dispatch == Row("lock", {"open"}, {}, <<"external_task_requests">>, 0)
save_external_task_request == Row("serial", {"open"}, {}, <<"external_task_requests", "realtime_events">>, 0)
save_external_task_evidence_link == Row("serial", {"open"}, {}, <<"external_task_evidence_links", "realtime_events">>, 0)
save_external_task_result == Row("serial", {"open"}, {}, <<"external_task_results", "realtime_events">>, 0)

(* Evidence and participants.                                               *)

save_evidence == Row("serial", {}, {}, <<"evidence", "realtime_events">>, 0)
save_evidence_mutation ==
    ValidateClaimMutation("serial", {}, <<"evidence", "branch_evaluations", "idempotency", "realtime_events">>, 0)
save_evidence_action_mutation ==
    ValidateClaimMutation("serial", {"key"}, <<"evidence", "evidence_claim_links", "branch_evaluations", "idempotency",
                                               "audit_events", "realtime_events">>, 0)
save_motor_other_driver_mutation ==
    ValidateClaimMutation("lock", {"key"}, <<"motor_other_drivers", "idempotency", "realtime_events">>, 0)
save_contents_item_evidence_association_mutation ==
    ValidateClaimMutation("lock", {"key"}, <<"contents_associations", "idempotency", "realtime_events">>, 0)

(* Staff.                                                                   *)

save_ownership_mutation ==
    ValidateClaimMutation("serial", {"key"}, <<"collaboration_requests", "claim_coworkers", "handoffs", "executions",
                                               "idempotency", "audit_events", "realtime_events">>, 0)

\* The acting member's presence is written first.
save_staff_mutation ==
    Row("serial", {"open"}, {"claims", "staff_presence"}, <<"staff_presence", "claims", "staff_actions", "customer_updates",
        "signal_decisions", "claim_decisions", "handoffs", "messages", "executions", "idempotency", "audit_events",
        "realtime_events">>, 0)
save_handoff == Row("serial", {}, {}, <<"handoffs", "realtime_events">>, 0)
save_handoff_mutation ==
    ValidateClaimMutation("serial", {}, <<"handoffs", "branch_evaluations", "idempotency", "audit_events",
                                          "realtime_events">>, 0)
save_staff_presence == Row("none", {}, {"staff_presence"}, <<"staff_presence">>, 0)
save_staff_agent_session == Row("none", {}, {}, <<"staff_agent_sessions">>, 0)
save_staff_agent_turn == Row("none", {}, {}, <<"staff_agent_sessions", "staff_agent_messages">>, 0)
append_audit_event == Row("none", {}, {}, <<"audit_events">>, 0)

-----------------------------------------------------------------------------
(* Account data and assets.                                                 *)

create_account_record == Row("lock", {"key"}, {}, <<"account_records", "idempotency", "audit_events">>, 0)

\* The previous common payment destination is demoted first.
update_account_record ==
    Row("lock", {}, {"account_records"}, <<"account_records", "audit_events", "account_records", "audit_events">>, 0)
save_policy_selection ==
    ValidateClaimMutation("lock", {"key"}, <<"branch_evaluations", "idempotency", "audit_events", "realtime_events">>, 0)
save_payout_contact_selection ==
    ValidateClaimMutation("lock", {"key"}, <<"branch_evaluations", "idempotency", "audit_events", "realtime_events">>, 0)
create_asset == Row("lock", {"key"}, {}, <<"assets", "idempotency", "audit_events">>, 0)
update_asset == Row("lock", {}, {"assets"}, <<"assets", "audit_events">>, 0)
save_asset_selection ==
    ValidateClaimMutation("lock", {"key"}, <<"asset_snapshots", "branch_evaluations", "idempotency", "audit_events",
                                             "realtime_events">>, 0)

(* Realtime and retention.                                                  *)

append_realtime_publication == Row("lock", {}, {}, <<"realtime_events">>, 0)

\* A Claim that has an operation keeps it; a new one closes the access.
reserve_eligible_retention_operation ==
    Row("lock", {"open"}, {}, <<"retention_operations", "retention_index", "idempotency">>, 0)
reserve_retention_operation ==
    Row("lock", {"open"}, {}, <<"retention_operations", "retention_index", "idempotency">>, 0)
freeze_retention_targets == Row("lock", {}, {"retention_operations"}, <<"retention_operations">>, 0)
record_retention_step_failure == Row("lock", {}, {"retention_operations"}, <<"retention_operations">>, 0)
authorize_retention_object_target == Row("lock", {}, {"retention_operations"}, <<"retention_operations">>, 0)
record_retention_object_result == Row("lock", {}, {}, <<"retention_operations">>, 0)

\* "destroyed" is the one record that is popped, of a class among Destroyable.
apply_retention_record_target ==
    Row("lock", {}, {"retention_operations"}, <<"idempotency", "retention_tombstones", "destroyed", "retention_operations">>, 0)
save_retention_operation == Row("lock", {}, {"retention_operations"}, <<"retention_operations">>, 0)

\* The operation a release resumes is computed, and validated, after the hold
\* is stored; the computation leaves nothing to refuse.
save_retention_hold == Row("lock", {}, {}, <<"retention_holds", "retention_operations">>, 0)
commit_retention_hold_action ==
    Row("restore", {}, {"claims"}, <<"retention_holds", "retention_operations", "audit_events", "idempotency">>, 3)

Destroyable == {"messages", "claims", "sessions", "follow_ups", "handoffs", "evidence", "evidence_claim_links",
                "external_tasks", "external_task_requests", "external_task_results"}
-----------------------------------------------------------------------------
\* The methods by name.
Table ==
    [create_claim |-> create_claim, promote_claim_owner |-> promote_claim_owner, save_claim |-> save_claim,
     save_claim_mutation |-> save_claim_mutation,
     save_claim_mutation_with_audit |-> save_claim_mutation_with_audit, save_session |-> save_session,
     save_incomplete_checkpoint |-> save_incomplete_checkpoint,
     save_session_mutation |-> save_session_mutation, save_message |-> save_message,
     save_message_mutation |-> save_message_mutation, save_message_recovery |-> save_message_recovery,
     freeze_message_response |-> freeze_message_response,
     reserve_message_turn_idempotency_alias |-> reserve_message_turn_idempotency_alias,
     save_idempotency |-> save_idempotency, save_conversation_summary |-> save_conversation_summary,
     save_agent_decision |-> save_agent_decision, save_branch_evaluation |-> save_branch_evaluation,
     save_agent_turn |-> save_agent_turn, save_runtime_turn |-> save_runtime_turn,
     save_runtime_work_item |-> save_runtime_work_item, save_retrieval_bundle |-> save_retrieval_bundle,
     backfill_incomplete_claim_recovery |-> backfill_incomplete_claim_recovery,
     commit_recovery_staff_abandonment |-> commit_recovery_staff_abandonment,
     commit_follow_up_contact_withdrawal |-> commit_follow_up_contact_withdrawal,
     commit_recovery_expiry |-> commit_recovery_expiry,
     commit_due_follow_up_attempt |-> commit_due_follow_up_attempt,
     save_follow_up_operation |-> save_follow_up_operation,
     reserve_claim_creation_operation |-> reserve_claim_creation_operation,
     save_claim_creation_operation |-> save_claim_creation_operation,
     save_claim_creation_outcome |-> save_claim_creation_outcome,
     save_assessor_routing_operation |-> save_assessor_routing_operation,
     save_assessor_routing_preparation |-> save_assessor_routing_preparation,
     save_assessor_routing_settlement |-> save_assessor_routing_settlement,
     save_assessor_reconciliation |-> save_assessor_reconciliation, save_external_task |-> save_external_task,
     save_external_task_attempt |-> save_external_task_attempt,
     save_external_task_settlement |-> save_external_task_settlement,
     reserve_external_dispatch |-> reserve_external_dispatch,
     release_external_dispatch |-> release_external_dispatch,
     save_external_task_request |-> save_external_task_request,
     save_external_task_evidence_link |-> save_external_task_evidence_link,
     save_external_task_result |-> save_external_task_result, save_evidence |-> save_evidence,
     save_evidence_mutation |-> save_evidence_mutation,
     save_evidence_action_mutation |-> save_evidence_action_mutation,
     save_motor_other_driver_mutation |-> save_motor_other_driver_mutation,
     save_contents_item_evidence_association_mutation |-> save_contents_item_evidence_association_mutation,
     save_ownership_mutation |-> save_ownership_mutation, save_staff_mutation |-> save_staff_mutation,
     save_handoff |-> save_handoff, save_handoff_mutation |-> save_handoff_mutation,
     save_staff_presence |-> save_staff_presence, save_staff_agent_session |-> save_staff_agent_session,
     save_staff_agent_turn |-> save_staff_agent_turn, append_audit_event |-> append_audit_event,
     create_account_record |-> create_account_record, update_account_record |-> update_account_record,
     save_policy_selection |-> save_policy_selection,
     save_payout_contact_selection |-> save_payout_contact_selection, create_asset |-> create_asset,
     update_asset |-> update_asset, save_asset_selection |-> save_asset_selection,
     append_realtime_publication |-> append_realtime_publication,
     reserve_eligible_retention_operation |-> reserve_eligible_retention_operation,
     reserve_retention_operation |-> reserve_retention_operation,
     freeze_retention_targets |-> freeze_retention_targets,
     record_retention_step_failure |-> record_retention_step_failure,
     authorize_retention_object_target |-> authorize_retention_object_target,
     record_retention_object_result |-> record_retention_object_result,
     apply_retention_record_target |-> apply_retention_record_target,
     save_retention_operation |-> save_retention_operation, save_retention_hold |-> save_retention_hold,
     commit_retention_hold_action |-> commit_retention_hold_action]
=============================================================================
