------------------------------ MODULE AppErrors ------------------------------
(***************************************************************************)
(* The error table of apperr/errors.go: how any error a handler or an      *)
(* interceptor returns is reduced to a category and a client-safe message, *)
(* carried as a gRPC status, and reduced again on the other side of the    *)
(* loopback by the HTTP gateway and the MCP bridge.                        *)
(*                                                                         *)
(* Texts are told apart only by where they come from: "safe" is the        *)
(* SafeMessage of the category, "own" what the error's author wrote for    *)
(* the caller, "" nothing.                                                 *)
(* HTTP statuses and the retryable flag are looked up by category.         *)
(***************************************************************************)
EXTENDS Functions

CONSTANT CustomCode  \* application categories and the gRPC code of each

DefaultCode ==
  [invalid_argument    |-> "InvalidArgument",
   unauthenticated     |-> "Unauthenticated",
   permission_denied   |-> "PermissionDenied",
   not_found           |-> "NotFound",
   already_exists      |-> "AlreadyExists",
   resource_exhausted  |-> "ResourceExhausted",
   failed_precondition |-> "FailedPrecondition",
   aborted             |-> "Aborted",
   deadline_exceeded   |-> "DeadlineExceeded",
   unavailable         |-> "Unavailable",
   unimplemented       |-> "Unimplemented",
   internal            |-> "Internal",
   canceled            |-> "Canceled",
   out_of_range        |-> "OutOfRange",
   data_loss           |-> "DataLoss"]

GRPCCodes == {DefaultCode[c] : c \in DOMAIN DefaultCode}

\* Register panics on a category registered before and on the codes OK and
\* Unknown, so an application's categories are new and share one of the
\* codes of the default table.
ASSUME RegistryAssumption ==
  /\ CustomCode \in [DOMAIN CustomCode -> GRPCCodes]
  /\ DOMAIN CustomCode \cap (DOMAIN DefaultCode \cup {""}) = {}

\* byCat.
Registered == DOMAIN DefaultCode \cup DOMAIN CustomCode
Code == [c \in Registered |->
           IF c \in DOMAIN DefaultCode THEN DefaultCode[c] ELSE CustomCode[c]]

\* byCode: the first category registered for a code owns it.
Owner == [k \in GRPCCodes |-> CHOOSE c \in DOMAIN DefaultCode : DefaultCode[c] = k]

\* The shapes resolve tells apart.  Each is found under any wrapping, and a
\* wrapper's text is never looked at.
AppError(cat, msg) == [kind |-> "error", cat |-> cat, msg |-> msg]
ContextError(cat) == [kind |-> "context", cat |-> cat]
StatusError(code, detail, msg) ==
  [kind |-> "status", code |-> code, detail |-> detail, msg |-> msg]
PlainError == [kind |-> "plain"]

Messages == {"", "own", "safe"}
Errors ==
  [kind : {"error"}, cat : STRING, msg : Messages]
    \cup [kind : {"context"}, cat : {"deadline_exceeded", "canceled"}]
    \cup [kind : {"status"}, code : GRPCCodes \cup {"OK", "Unknown"},
          detail : STRING, msg : Messages]
    \cup [kind : {"plain"}]

\* statusCategory: the ErrorInfo detail names the category when it agrees
\* with the code; otherwise the owner of the code.
StatusCategory(s) ==
  IF s.detail \in Registered /\ Code[s.detail] = s.code
    THEN s.detail
    ELSE Owner[s.code]

\* The category an error names, registered or not.
Named(e) ==
  CASE e.kind \in {"error", "context"} -> e.cat
    [] e.kind = "status" /\ e.code \in GRPCCodes -> StatusCategory(e)
    [] OTHER -> "internal"

Forwarded == {"invalid_argument", "unauthenticated"}

\* The text forwarded for the two categories that forward any: the *Error's
\* own message, or that of the innermost status.
Forward(e) ==
  CASE e.kind = "error" -> IF e.msg = "" THEN "safe" ELSE e.msg
    [] e.kind = "status" -> e.msg
    [] OTHER -> "safe"

Resolve(e) ==
  LET cat == Named(e) IN
  IF cat \notin Registered \/ cat = "internal"
    THEN [cat |-> "internal", msg |-> "safe"]
    ELSE [cat |-> cat, msg |-> IF cat \in Forwarded THEN Forward(e) ELSE "safe"]

\* Faulty variant: no category detail on the status.
ToGRPCStatus_NoDetail(e) ==
  LET r == Resolve(e) IN StatusError(Code[r.cat], "", r.msg)

\* A category that does not own its code is named by a detail of the status.
ToGRPCStatus(e) ==
  LET r == Resolve(e) IN
  StatusError(Code[r.cat], IF Owner[Code[r.cat]] = r.cat THEN "" ELSE r.cat, r.msg)

\* ToHTTP and ToMCP: what the client of the gateway or of the bridge is shown
\* of a status that came back over the loopback.
Rendered(s) == Resolve(s)
=============================================================================
