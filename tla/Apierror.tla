------------------------------ MODULE Apierror ------------------------------
(***************************************************************************)
(* apierror/errors.go: the error a handler returns and the two bodies it   *)
(* is written as.  A text is Dev (what the developer passed), Generic (the *)
(* text of the status) or None.  A body keeps the status of its error.     *)
(***************************************************************************)
EXTENDS Integers

CONSTANTS None, Dev, Generic

AppError(code, status, details) ==
    [Code |-> code, StatusCode |-> status, Message |-> Dev, Details |-> details]

\* The typed constructors, with or without WithDetails.
Typed(details) ==
    {AppError("not_found", 404, details),
     AppError("validation_error", 422, details),
     AppError("bad_request", 400, details),
     AppError("unauthorized", 401, details),
     AppError("forbidden", 403, details),
     AppError("conflict", 409, details),
     AppError("too_many_requests", 429, details),
     AppError("internal_error", 500, details),
     AppError("service_unavailable", 503, details),
     AppError("bad_gateway", 502, details)}

codeForStatus(status) ==
    CASE status = 400 -> "bad_request"
      [] status = 401 -> "unauthorized"
      [] status = 403 -> "forbidden"
      [] status = 404 -> "not_found"
      [] status = 409 -> "conflict"
      [] status = 422 -> "validation_error"
      [] status = 429 -> "too_many_requests"
      [] status = 500 -> "internal_error"
      [] status = 502 -> "bad_gateway"
      [] status = 503 -> "service_unavailable"
      [] OTHER -> "error"

New(status, details) == AppError(codeForStatus(status), status, details)

\* The body WriteJSON writes: the error, for 5xx under a generic message.
WriteJSON(e) ==
    [type |-> "json", status |-> e.StatusCode, code |-> e.Code,
     message |-> IF e.StatusCode >= 500 THEN Generic ELSE e.Message,
     details |-> IF e.StatusCode >= 500 THEN None ELSE e.Details]

\* Fault: only the message of a 5xx is withheld.
WriteProblemKeepsDetails(e) ==
    [type |-> "problem", status |-> e.StatusCode, code |-> e.Code,
     message |-> IF e.StatusCode >= 500 THEN None ELSE e.Message,
     details |-> e.Details]

\* The body WriteProblem writes.  Its title is always the generic text.
WriteProblem(e) ==
    [type |-> "problem", status |-> e.StatusCode, code |-> e.Code,
     message |-> IF e.StatusCode >= 500 THEN None ELSE e.Message,
     details |-> IF e.StatusCode >= 500 THEN None ELSE e.Details]
=============================================================================
