------------------------------- MODULE Errdefs -------------------------------
(***************************************************************************)
(* pkg/errdefs: the error types the SDK returns, and how the failures of   *)
(* its two protocols, HTTP and connect, become them. An error is the name  *)
(* of its type; "none" is nil, and "Transport" and "Undecodable" stand for *)
(* errors of the HTTP stack that are passed on as they are.                *)
(***************************************************************************)
EXTENDS Integers, TLC

FromHTTP(status) ==
  CASE status = 400 -> "InvalidArgument"
    [] status = 401 -> "Authentication"
    [] status = 403 -> "Forbidden"
    [] status = 404 -> "NotFound"
    [] status = 409 -> "Conflict"
    [] status = 429 -> "RateLimit"
    [] status = 502 -> "Timeout"
    [] status = 507 -> "NotEnoughSpace"
    [] OTHER -> "Sandbox"

\* As ConnectErrors, "unavailable" left to the base type (a mutant).
ConnectErrorsWithoutUnavailable ==
  [ not_found           |-> "NotFound",
    already_exists      |-> "Conflict",
    invalid_argument    |-> "InvalidArgument",
    unauthenticated     |-> "Authentication",
    permission_denied   |-> "Forbidden",
    resource_exhausted  |-> "RateLimit",
    deadline_exceeded   |-> "Timeout" ]

ConnectErrors ==
  [ not_found           |-> "NotFound",
    already_exists      |-> "Conflict",
    invalid_argument    |-> "InvalidArgument",
    unauthenticated     |-> "Authentication",
    permission_denied   |-> "Forbidden",
    resource_exhausted  |-> "RateLimit",
    deadline_exceeded   |-> "Timeout",
    unavailable         |-> "Timeout" ]

\* "plain" is an error that did not come from connect; every code without a
\* type of its own becomes the base type.
FromConnect(code) ==
  CASE code = "ok" -> "none"
    [] code = "plain" -> "Transport"
    [] code \in DOMAIN ConnectErrors -> ConnectErrors[code]
    [] OTHER -> "Sandbox"

\* IsTimeout also believes an error of any type whose message speaks of a
\* timeout: "net" is a timeout of the network stack.
IsTimeout(err, net, mentions) == err = "Timeout" \/ net \/ mentions

-----------------------------------------------------------------------------

\* What a method of the SDK returns: an error and a value, "nil" for none.
Ok(value) == [err |-> "none", value |-> value]
Fail(err) == [err |-> err, value |-> "nil"]
=============================================================================
