------------------------------ MODULE Responses ------------------------------
(***************************************************************************)
(* internal/httpx and the chi middleware around it, as functions of what a *)
(* handler did: how an error becomes a status and an envelope, and what    *)
(* the layers of Routes add while the call returns through them.           *)
(*                                                                         *)
(* A message is "wording" (the handler's), "generic" or "cause", its text; *)
(* a body is "data" or "error" for the two envelopes, "cut" for one whose  *)
(* encoding failed, or "none".                                             *)
(***************************************************************************)
EXTENDS Naturals

Kinds == {"validation", "unauthenticated", "forbidden", "not_found", "method_not_allowed",
          "conflict", "rule_violation", "rate_limited", "internal"}

statusByKind ==
    [validation |-> 400, unauthenticated |-> 401, forbidden |-> 403, not_found |-> 404,
     method_not_allowed |-> 405, conflict |-> 409, rule_violation |-> 422,
     rate_limited |-> 429, internal |-> 500]

Status(kind) == IF kind \in Kinds THEN statusByKind[kind] ELSE 500

-----------------------------------------------------------------------------
(* Go errors: an *Error has a kind; any other has none. *)

Typed(kind) == [kind |-> kind, message |-> "wording"]

(* MUTANT: the client is told the cause. *)
InternalTold(cause) == [kind |-> "internal", message |-> cause]

Internal(cause) == [kind |-> "internal", message |-> "generic"]

AsError(err) == IF err.kind = "none" THEN Internal(err.message) ELSE err

-----------------------------------------------------------------------------
(* http.ResponseWriter: the first status is the one that is sent. *)

Nothing == [status |-> 0, body |-> "none", kind |-> "none", message |-> "none"]

WriteHeader(w, status) == IF w.status = 0 THEN [w EXCEPT !.status = status] ELSE w

encode(w, status, body, kind, message) ==
    [status |-> WriteHeader(w, status).status, body |-> body, kind |-> kind, message |-> message]

(* The status is out before the data is encoded: an error of that is only  *)
(* logged.                                                                 *)
Write(status) == {encode(Nothing, status, b, "none", "none") : b \in {"data", "cut"}}
NoContent == WriteHeader(Nothing, 204)

Fail(err) ==
    LET e == AsError(err) IN encode(Nothing, Status(e.kind), "error", e.kind, e.message)

levelFor(status) ==
    IF status >= 500 THEN "error" ELSE IF status >= 400 THEN "warn" ELSE "info"

-----------------------------------------------------------------------------
(* Deferred code, innermost first, of a call that has written w and ends   *)
(* in a return or a panic.                                                 *)

Timeout(ctx, w) == IF ctx = "deadline" THEN WriteHeader(w, 504) ELSE w

Recoverer(panics, w) == IF panics THEN WriteHeader(w, 500) ELSE w

RequestLogger(w) == [status |-> w.status, level |-> levelFor(w.status)]

(* MUTANT: the logger inside the Recoverer. *)
LoggerInside(ctx, panics, w) ==
    [resp |-> Recoverer(panics, Timeout(ctx, w)), log |-> RequestLogger(Timeout(ctx, w))]

Routes(ctx, panics, w) ==
    LET sent == Recoverer(panics, Timeout(ctx, w))
    IN [resp |-> sent, log |-> RequestLogger(sent)]
=============================================================================
