------------------------------- MODULE Errors -------------------------------
(***************************************************************************)
(* The application's errors (internal/core/errors/errors.go) and the two   *)
(* forms they leave the server in.  "" stands for no error.                *)
(***************************************************************************)
EXTENDS Integers

Codes == {"invalid_argument", "not_found", "already_exists", "conflict", "forbidden",
          "unauthorized", "failed_precondition", "unavailable", "internal"}

\* An error that did not come from the application counts as internal.
CodeOf(err) == IF err \in Codes THEN err ELSE "internal"

HTTPStatus ==
    [invalid_argument |-> 400, unauthorized |-> 401, forbidden |-> 403, not_found |-> 404,
     already_exists |-> 409, conflict |-> 409, failed_precondition |-> 412,
     unavailable |-> 503, internal |-> 500]

HTTPStatusOf(err) == IF err = "" THEN 200 ELSE HTTPStatus[CodeOf(err)]

GRPCCode ==
    [invalid_argument |-> "InvalidArgument", unauthorized |-> "Unauthenticated",
     forbidden |-> "PermissionDenied", not_found |-> "NotFound",
     already_exists |-> "AlreadyExists", conflict |-> "Aborted",
     failed_precondition |-> "FailedPrecondition", unavailable |-> "Unavailable",
     internal |-> "Internal"]

GRPCStatusOf(err) == IF err = "" THEN "OK" ELSE GRPCCode[CodeOf(err)]

\* How etcd's own errors enter (infra/etcd mapEtcdError).
OfEtcd(err) ==
    CASE err = "key not found" -> "not_found"
      [] err = "compacted"     -> "failed_precondition"
      [] OTHER                 -> "unavailable"
=============================================================================
