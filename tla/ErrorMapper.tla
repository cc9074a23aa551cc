------------------------------- MODULE ErrorMapper -------------------------------
(***************************************************************************)
(* The refusals of the engine's HTTP layer, and what mapResponseError of the *)
(* client makes of them.  An answer that refuses is its status and the error *)
(* code of its body; an error is the statusCode and the errorCode the caller *)
(* reads from it.  The class of an error, its message and the other fields   *)
(* follow from the code and are left out.                                    *)
(***************************************************************************)
EXTENDS Naturals

With(status, codes) == {[status |-> status, code |-> c] : c \in codes}

-----------------------------------------------------------------------------
(* What the controllers and plugs of the engine answer                     *)

\* A flow node instance that no longer waits, rendered with its own reason.
TerminalReasons ==
    {"fni_already_finished", "fni_already_aborted", "fni_already_interrupted",
     "fni_already_fatal", "fni_not_waiting", "fni_not_active"}

ProcessRefusals ==
    With(400, {"bad_request", "parse_error"})
    \cup With(404, {"process_not_found", "no_active_version", "not_found"})
    \cup With(409, {"version_exists", "batch_conflict", "active_instances_exist"})
    \cup With(422, {"validation_failed", "linter_gate_failed", "process_disabled",
                    "ambiguous_start_event", "start_event_not_found", "no_start_event",
                    "no_executable_process", "payload_too_large", "no_matching_condition"})
    \cup With(503, {"engine_at_capacity", "engine_shutting_down"})
    \cup With(403, {"forbidden"}) \cup With(500, {"internal_error"})

\* An abort is refused with whatever reason it failed for: "abort_reason" stands
\* for those without a class.
ProcessInstanceRefusals ==
    With(404, {"not_found", "version_not_found", "flow_node_instance_not_found"})
    \cup With(409, {"active_instances_exist"})
    \cup With(422, {"process_already_terminal", "process_instance_not_retriable",
                    "root_process_instance_not_terminal", "target_version_not_cached",
                    "version_disabled", "version_migration_incompatible",
                    "retry_checkpoint_is_ebg_loser", "retry_checkpoint_is_join_gateway",
                    "retry_checkpoint_is_mi_iteration", "retry_checkpoint_is_non_retryable",
                    "retry_inside_transaction_scope", "retry_inside_adhoc_subprocess",
                    "retry_checkpoint_inside_adhoc_subprocess", "process_instance_not_terminal",
                    "abort_reason"})
    \cup With(503, {"engine_at_capacity", "engine_shutting_down", "service_unavailable"})
    \cup With(403, {"forbidden"}) \cup With(500, {"internal_error"})

DecisionRefusals ==
    With(400, {"bad_request", "dmn_parse_error"})
    \cup With(404, {"service_not_found", "decision_definition_not_found", "no_active_version",
                    "decision_not_found", "bkm_not_found", "not_found"})
    \cup With(409, {"decision_version_exists"})
    \cup With(422, {"validation_failed", "missing_service_input", "decision_definition_disabled",
                    "ambiguous_decision", "no_decisions", "dmn_evaluation_error",
                    "dmn_cycle_error", "input_value_violation"})
    \cup With(403, {"forbidden"}) \cup With(500, {"internal_error"})

UserTaskRefusals ==
    With(422, TerminalReasons \cup {"invalid_values", "invalid_action_id", "contract_violation",
                                    "fni_is_multi_instance_shell"})
    \cup With(413, {"payload_too_large"}) \cup With(404, {"not_found"})
    \cup With(403, {"forbidden"}) \cup With(500, {"internal_error"})

ManualTaskRefusals ==
    With(422, TerminalReasons \cup {"fni_is_multi_instance_shell"})
    \cup With(404, {"not_found"}) \cup With(403, {"forbidden"}) \cup With(500, {"internal_error"})

\* Messages and signals, also while the subscriptions are being resumed.
PublishRefusals ==
    With(400, {"bad_request"}) \cup With(403, {"forbidden"}) \cup With(500, {"internal_error"})
    \cup With(503, {"service_unavailable"})

AdHocRefusals ==
    With(404, {"not_found", "adhoc_activity_not_found"})
    \cup With(409, {"adhoc_already_completing", "adhoc_not_active"})
    \cup With(422, {"not_adhoc_subprocess", "adhoc_sequential_busy"})
    \cup With(500, {"dispatch_failed", "internal_error"}) \cup With(403, {"forbidden"})

TimerRefusals ==
    With(404, {"not_found"}) \cup With(409, {"conflict"}) \cup With(403, {"forbidden"})
    \cup With(422, {"not_a_timer_event"}) \cup With(500, {"internal_error"})

ScheduleRefusals ==
    With(404, {"not_found"}) \cup With(403, {"forbidden"})
    \cup With(422, {"not_applicable", "enable_failed", "disable_failed"})

EscalationRefusals ==
    With(422, {"escalation_code_blank", "escalation_code_too_long"})
    \cup With(403, {"forbidden"}) \cup With(500, {"internal_error"})

\* In front of the controllers: authentication, and the size and the rate.
AuthRefusals == With(401, {"unauthorized"}) \cup With(503, {"service_unavailable"})
LimitRefusals == With(413, {"payload_too_large"}) \cup With(429, {"rate_limited"})

\* The renderer of unhandled exceptions.  It has no code for other statuses than
\* these six: the one other an exception of the endpoint has is 408, of a body
\* that Plug.Parsers waited for too long.
ErrorJson ==
    With(404, {"not_found"}) \cup With(500, {"internal_error"}) \cup With(400, {"bad_request"})
    \cup With(406, {"not_acceptable"}) \cup With(413, {"payload_too_large"})
    \cup With(415, {"unsupported_media_type"}) \cup With(408, {"internal_error"})

-----------------------------------------------------------------------------
(* mapResponseError                                                        *)

AsValidation ==
    {"target_version_not_cached", "not_applicable", "enable_failed", "disable_failed",
     "not_adhoc_subprocess", "adhoc_already_completing", "adhoc_sequential_busy", "adhoc_not_active"}
AsNotFound ==
    {"metrics_disabled", "version_not_found", "flow_node_instance_not_found", "adhoc_activity_not_found"}

\* The codes whose class has a code of its own, which the caller reads instead.
Renamed ==
    AsValidation \cup AsNotFound
    \cup {"version_disabled", "decision_not_found", "root_process_instance_not_terminal", "batch_conflict"}

ClassCode ==
    [c \in Renamed |->
        CASE c \in AsValidation -> "validation_error"
          [] c \in AsNotFound -> "not_found"
          [] c = "version_disabled" -> "process_disabled"
          [] c = "decision_not_found" -> "decision_definition_not_found"
          [] c = "root_process_instance_not_terminal" -> "process_instance_not_terminal"
          [] c = "batch_conflict" -> "version_exists"]

\* The statusCode each class is made with, by its code.
ClassStatus ==
    With(400, {"bad_request", "parse_error", "dmn_parse_error"})
    \cup With(401, {"unauthorized"})
    \cup With(403, {"forbidden"})
    \cup With(404, {"not_found", "process_not_found", "no_active_version",
                    "decision_definition_not_found", "decision_version_not_found",
                    "bkm_not_found", "service_not_found"})
    \cup With(409, {"active_instances_exist", "version_exists", "conflict",
                    "decision_version_exists"})
    \cup With(413, {"payload_too_large"})
    \cup With(422, TerminalReasons \cup
          {"process_disabled", "ambiguous_start_event", "start_event_not_found", "no_start_event",
           "no_executable_process", "validation_error", "invalid_values", "invalid_action_id",
           "contract_violation", "process_already_terminal", "process_instance_not_terminal",
           "fni_is_multi_instance_shell", "validation_failed", "linter_gate_failed",
           "process_instance_not_retriable", "version_migration_incompatible",
           "retry_checkpoint_is_join_gateway", "retry_checkpoint_is_ebg_loser",
           "retry_checkpoint_is_mi_iteration", "retry_checkpoint_is_non_retryable",
           "retry_inside_transaction_scope", "retry_checkpoint_inside_adhoc_subprocess",
           "retry_inside_adhoc_subprocess", "not_a_timer_event", "no_matching_condition",
           "no_decisions", "decision_definition_disabled", "dmn_evaluation_error",
           "dmn_cycle_error", "decision_service_validation_error", "ambiguous_decision",
           "input_value_violation", "missing_service_input"})
    \cup With(429, {"rate_limited"})
    \cup With(500, {"internal_error", "dispatch_failed"})
    \cup With(503, {"engine_at_capacity", "service_unavailable", "engine_shutting_down"})
    \cup With(200, {"graphql_depth_limit", "graphql_complexity_limit",
                    "graphql_introspection_disabled"})

Class(code) == CHOOSE c \in ClassStatus : c.code = code

\* mapByErrorCode: the status of the answer has no part in it.  No answer is
\* mapped to UnauthorizedError or to a plain ValidationError by its code.
DomainCodes == Renamed \cup ({c.code : c \in ClassStatus} \ {"unauthorized", "validation_error"})

\* Mutant: one class for all flow node instances that no longer wait.
OneTerminalClass(code) ==
    Class(CASE code \in Renamed -> ClassCode[code]
            [] code \in TerminalReasons -> "fni_not_waiting"
            [] OTHER -> code)

MapByErrorCode(code) ==
    Class(IF code \in Renamed THEN ClassCode[code] ELSE code)

\* mapByStatusCode, and the base class where the status says nothing either.
StatusClass ==
    [s \in {400, 401, 403, 404, 409, 500, 503} |->
        CASE s = 400 -> "bad_request" [] s = 401 -> "unauthorized" [] s = 403 -> "forbidden"
          [] s = 404 -> "not_found" [] s = 409 -> "conflict" [] s = 500 -> "internal_error"
          [] s = 503 -> "engine_at_capacity"]

MapByStatusCode(status, code) ==
    IF status \in DOMAIN StatusClass THEN Class(StatusClass[status])
    ELSE [status |-> status, code |-> code]

MapResponseError(status, code) ==
    IF code \in DomainCodes THEN MapByErrorCode(code) ELSE MapByStatusCode(status, code)
=============================================================================
