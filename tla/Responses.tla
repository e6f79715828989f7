------------------------------- MODULE Responses -------------------------------
(***************************************************************************)
(* What a client is told and what is counted. A handler is the sequence of  *)
(* the checks it makes, each with the error it ends in; the first that      *)
(* fails decides about status, code and metric labels. Amounts and rates    *)
(* come from Money, whose errors are answered here; like there, one state   *)
(* is one call.                                                             *)
(***************************************************************************)
EXTENDS Money, FiniteSetsExt

(***************************************************************************)
(* AppError.                                                               *)
(***************************************************************************)
Validation(code) == [variant |-> "validation", code |-> code]
Business(code) == [variant |-> "business", code |-> code]
\* The other variants have one code each.
Plain(code) == [variant |-> code, code |-> code]
Internal == Plain("internal_error")

\* A check that ends the handler with the response that is stored under its key.
Replayed == Plain("replayed")

\* Bug: a conflict is answered as a business rule that refuses.
StatusOfConflictAsBusiness(error) ==
  CASE error.variant \in {"bad_request", "validation"} -> 400
    [] error.variant = "unauthorized" -> 401
    [] error.variant = "forbidden" -> 403
    [] error.variant \in {"not_found", "account_unavailable"} -> 404
    [] error.variant \in {"conflict", "idempotency_conflict", "business"} -> 422
    [] error.variant = "service_unavailable" -> 503
    [] error.variant = "internal_error" -> 500
    [] error.variant = "replayed" -> 201

Status(error) ==
  CASE error.variant \in {"bad_request", "validation"} -> 400
    [] error.variant = "unauthorized" -> 401
    [] error.variant = "forbidden" -> 403
    [] error.variant \in {"not_found", "account_unavailable"} -> 404
    [] error.variant \in {"conflict", "idempotency_conflict"} -> 409
    [] error.variant = "business" -> 422
    [] error.variant = "service_unavailable" -> 503
    [] error.variant = "internal_error" -> 500
    [] error.variant = "replayed" -> 201

\* The codes that have a label of their own.
LabelledCodes ==
  {"same_source_and_destination", "account_unavailable", "insufficient_funds",
   "rate_unavailable", "rate_configuration_ambiguous", "fee_rule_unavailable",
   "fee_rule_configuration_ambiguous", "destination_amount_too_small",
   "idempotency_conflict", "reversal_of_reversal", "transfer_already_reversed",
   "arithmetic_overflow", "malformed_amount", "too_many_fractional_digits",
   "non_positive_amount", "amount_overflow", "malformed_account_id",
   "malformed_transfer_id", "invalid_json"}

\* Bug: a code was added to a handler and not to the labels.
FinancialReasonForgotten(code) ==
  IF code \in LabelledCodes \ {"transfer_already_reversed"} THEN code ELSE "invalid_request"

FinancialReason(code) == IF code \in LabelledCodes THEN code ELSE "invalid_request"

FinancialMetricOutcome(error) ==
  CASE error.variant = "internal_error" ->
         [outcome |-> "internal_error", reason |-> "internal_error"]
    [] error.variant \in {"validation", "business"} ->
         [outcome |-> "rejected", reason |-> FinancialReason(error.code)]
    [] error.variant = "replayed" -> [outcome |-> "success", reason |-> "none"]
    [] OTHER -> [outcome |-> "rejected", reason |-> error.code]

StatusClass(status) ==
  CASE status \div 100 = 2 -> "2xx" [] status \div 100 = 3 -> "3xx"
    [] status \div 100 = 4 -> "4xx" [] OTHER -> "5xx"

\* What a handler makes of the errors of amounts, configuration and arithmetic.
MoneyError(status) ==
  CASE status = "malformed" -> Validation("malformed_amount")
    [] status = "too_many_fractional_digits" -> Validation(status)
    [] status = "negative" -> Validation("negative_initial_balance")
    [] status = "overflow" -> Validation("amount_overflow")

TransferMoneyError(status) ==
  IF status = "negative" THEN Validation("non_positive_amount") ELSE MoneyError(status)

TransferConfigurationError(status) == Business(status)

TransferArithmeticError(status) ==
  CASE status = "destination_too_small" -> Business("destination_amount_too_small")
    [] status = "overflow" -> Business("arithmetic_overflow")
    [] status \in {"invalid_rate", "invalid_scale", "invalid_amount"} -> Internal

(***************************************************************************)
(* The handlers.                                                           *)
(***************************************************************************)
\* Where a check is made: before there is a connection, when BEGIN fails, in a
\* transaction that nothing observes, and in one that is observed.
In(phase, errors) == [i \in DOMAIN errors |-> [phase |-> phase, error |-> errors[i]]]
Each(Answer(_), statuses) == [i \in DOMAIN statuses |-> Answer(statuses[i])]

Authentication == <<Plain("unauthorized")>>

IdempotencyKey ==
  <<Validation("missing_idempotency_key"), Validation("duplicate_idempotency_key"),
    Validation("malformed_idempotency_key")>>

\* completed_success and reserve; each statement may fail.
Reservation == <<Internal, Plain("idempotency_conflict"), Replayed>>

CreateAccount ==
  In("entry", Authentication \o IdempotencyKey
     \o <<Validation("invalid_json"), Validation("unsupported_currency")>>
     \o Each(MoneyError, <<"malformed", "too_many_fractional_digits", "overflow", "negative">>))
  \o In("unobserved", <<Internal>> \o Reservation \o <<Internal>>)

Configuration ==
  Each(TransferConfigurationError,
       <<"rate_unavailable", "rate_configuration_ambiguous",
         "fee_rule_unavailable", "fee_rule_configuration_ambiguous">>)
Conversion ==
  Each(TransferArithmeticError,
       <<"overflow", "invalid_rate", "invalid_scale", "destination_too_small", "overflow">>)

TransferEntry ==
  In("entry", Authentication \o IdempotencyKey
     \o <<Validation("invalid_json"), Validation("malformed_account_id"),
          Validation("same_source_and_destination")>>)
  \o In("unobserved", <<Internal, Plain("account_unavailable")>>)
Amount ==
  Each(TransferMoneyError, <<"malformed", "too_many_fractional_digits", "overflow", "negative">>)
Balances ==
  <<Business("insufficient_funds"), Business("arithmetic_overflow"), Internal>>

\* Bug: the rate is selected before the key is looked up.
CreateTransferConfiguredFirst(fx) ==
  TransferEntry
  \o In("observed", Amount \o (IF fx THEN Configuration ELSE <<>>) \o Reservation
        \o <<Plain("account_unavailable")>> \o (IF fx THEN Conversion ELSE <<>>) \o Balances)

CreateTransfer(fx) ==
  TransferEntry
  \o In("observed", Amount \o Reservation \o (IF fx THEN Configuration ELSE <<>>)
        \o <<Plain("account_unavailable")>> \o (IF fx THEN Conversion ELSE <<>>) \o Balances)

ReverseTransfer ==
  In("entry", Authentication \o IdempotencyKey \o <<Validation("malformed_transfer_id")>>)
  \o In("begin", <<Internal>>)
  \o In("observed", Reservation
        \o <<Plain("not_found"), Business("reversal_of_reversal"), Plain("not_found"),
             Business("transfer_already_reversed"), Plain("account_unavailable"),
             Business("arithmetic_overflow"), Internal>>)

GetBalance ==
  In("entry", Authentication \o <<Validation("malformed_account_id")>>)
  \o In("unobserved", <<Internal, Plain("not_found")>>)

GetTransfer ==
  In("entry", Authentication \o <<Validation("malformed_transfer_id")>>)
  \o In("unobserved", <<Internal, Plain("not_found")>>)

\* A parameter that is given twice is refused before any is looked at.
ParseQuery ==
  <<Validation("invalid_limit"), Validation("invalid_cursor"),
    Validation("malformed_counterparty_account_id"), Validation("invalid_limit"),
    Validation("invalid_cursor")>>

GetAccountHistory ==
  In("entry", Authentication \o <<Validation("malformed_account_id")>> \o ParseQuery)
  \o In("unobserved", <<Internal, Plain("not_found"), Internal>>)

Ready == In("unobserved", <<Plain("service_unavailable")>>)

Checks ==
  [create_account |-> CreateAccount, transfer |-> CreateTransfer(FALSE),
   fx_transfer |-> CreateTransfer(TRUE), reversal |-> ReverseTransfer,
   get_balance |-> GetBalance, get_transfer |-> GetTransfer,
   get_account_history |-> GetAccountHistory, ready |-> Ready]

\* Operations whose outcome is counted.
Financial == {"transfer", "fx_transfer", "reversal"}

(***************************************************************************)
(* One call.                                                               *)
(***************************************************************************)
Success(operation) ==
  [status |-> IF operation \in Financial \cup {"create_account"} THEN 201 ELSE 200,
   code |-> "none",
   counted |-> IF operation \in Financial THEN {[outcome |-> "success", reason |-> "none"]}
               ELSE {}]

\* The answer to a call of which the checks in faults would fail, the first of
\* them first. What happens before BEGIN, or outside an observation, is not
\* counted; the BEGIN of a reversal is.
Response(operation, faults) ==
  IF faults = {} THEN Success(operation)
  ELSE LET failed == Checks[operation][Min(faults)] IN
       [status |-> Status(failed.error),
        code |-> failed.error.code,
        counted |-> IF operation \in Financial /\ failed.phase \in {"begin", "observed"}
                    THEN {FinancialMetricOutcome(failed.error)} ELSE {}]

Respond(operation, faults) ==
  Call("respond", [operation |-> operation, faults |-> faults],
       Response(operation, faults))

\* Two checks that fail are enough to tell their order.
ResponsesNext ==
  \/ Next
  \/ /\ call = None
     /\ \E operation \in DOMAIN Checks :
          \/ Respond(operation, {})
          \/ \E i, j \in DOMAIN Checks[operation] : Respond(operation, {i, j})

ResponsesSpec == Init /\ [][ResponsesNext]_call

(***************************************************************************)
(* Properties.                                                             *)
(***************************************************************************)
Responded == Called("respond")
Operation == call.arguments.operation

\* The statuses that the OpenAPI document lists for an operation.
Documented ==
  [create_account |-> {201, 400, 401, 409, 500},
   transfer |-> {201, 400, 401, 404, 409, 422, 500},
   fx_transfer |-> {201, 400, 401, 404, 409, 422, 500},
   reversal |-> {201, 400, 401, 404, 409, 422, 500},
   get_balance |-> {200, 400, 401, 404, 500},
   get_transfer |-> {200, 400, 401, 404, 500},
   get_account_history |-> {200, 400, 401, 404, 500},
   ready |-> {200, 503}]

\* Whatever goes wrong, in whatever combination, the client gets a status that the
\* interface documents for the operation (response_parts, the utoipa responses).
OnlyDocumentedStatuses == Responded => call.result.status \in Documented[Operation]

\* The counters tell operators what clients were told: success, rejected and
\* internal_error are the classes of the status, and a rejection is counted under
\* the code that was answered, never as some invalid request
\* (financial_metric_outcome, financial_reason).
CountedAsAnswered ==
  Responded => \A label \in call.result.counted :
    /\ label.outcome = CASE StatusClass(call.result.status) = "2xx" -> "success"
                         [] StatusClass(call.result.status) = "4xx" -> "rejected"
                         [] StatusClass(call.result.status) = "5xx" -> "internal_error"
    /\ label.reason = IF call.result.status = 201 THEN "none" ELSE call.result.code

\* What can change between a request that succeeded and its retry.
Momentary(check) ==
  /\ check.phase = "observed"
  /\ check.error \in {Plain("account_unavailable"), Business("insufficient_funds"),
                      Business("transfer_already_reversed"), Business("arithmetic_overflow")}
                     \cup ToSet(Configuration) \cup (ToSet(Conversion) \ {Internal})

\* A retry of a request that has succeeded gets its answer again, even if the
\* request could not succeed any more: the money is spent, the rate gone, the
\* account inactive, the transfer reversed (the order of the checks).
RetriesAreReplayed ==
  Responded =>
    LET checks == Checks[Operation]
        stored == {i \in call.arguments.faults : checks[i].error = Replayed}
    IN  stored # {} /\ (\A i \in call.arguments.faults \ stored : Momentary(checks[i]))
          => call.result.status = 201
================================================================================
