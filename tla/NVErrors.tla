------------------------------ MODULE NVErrors ------------------------------
(***************************************************************************)
(* The error taxonomy of errors.py: how an answer of the controller that   *)
(* is not a success becomes an exception class, and which answers are      *)
(* worth another attempt.                                                  *)
(*                                                                         *)
(* An answer is a record [status, code]: the HTTP status and the RESTError *)
(* code of the JSON body.  NoCode stands for a body that carries no usable *)
(* code (absent, not JSON, or "code" not an integer).                      *)
(***************************************************************************)
EXTENDS Naturals

NoCode == 0

AUTH_FAILURE_CODES == {3, 47, 48}
RETRYABLE_CODES == {8, 9, 11, 19, 24, 55}

ErrorClasses == {"AuthError", "PermissionError_", "NotFoundError", "ValidationError_",
                 "ConflictError", "UpstreamError", "TooLargeError"}

\* _CODE_MAP, grouped by class.  The retryable codes are not in it.
MappedCodes == {1, 2, 3, 4, 5, 6, 7, 12, 13, 15, 16, 20, 22, 25, 30, 46, 47, 48, 53}

ClassOfCode(code) ==
    CASE code \in {1, 7}             -> "NotFoundError"
      [] code \in {3, 47, 48}        -> "AuthError"
      [] code \in {4, 20, 25, 46}    -> "PermissionError_"
      [] code \in {6, 12, 15, 30, 53} -> "ValidationError_"
      [] code \in {13, 16, 22}       -> "ConflictError"
      [] OTHER                       -> "UpstreamError"

\* _STATUS_MAP with its default; 405, 408 and 429 map to the default's class.
ClassOfStatus(status) ==
    CASE status = 400 -> "ValidationError_"
      [] status = 401 -> "AuthError"
      [] status = 403 -> "PermissionError_"
      [] status = 404 -> "NotFoundError"
      [] status = 409 -> "ConflictError"
      [] status = 413 -> "TooLargeError"
      [] OTHER        -> "UpstreamError"

\* classify(): the code decides when it is mapped, the status otherwise.
Classify(answer) ==
    IF answer.code \in MappedCodes
    THEN ClassOfCode(answer.code)
    ELSE ClassOfStatus(answer.status)

IsRetryable(answer) ==
    \/ answer.status \in {502, 503, 504}
    \/ answer.code \in RETRYABLE_CODES
=============================================================================
