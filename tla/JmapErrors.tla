------------------------------ MODULE JmapErrors ------------------------------
(***************************************************************************)
(* How a failure travels up the JMAP stack: what one HTTP exchange throws   *)
(* (transport/http.ts, session.ts), how jmap/errors.ts classifies it, and   *)
(* the RemoteError it becomes (remote/jmap/error-mapper.ts), which is all   *)
(* that the executors and the Worker see.  Pure operators; messages and     *)
(* causes are left out.                                                     *)
(***************************************************************************)

\* What the client sees of one HTTP exchange: fetch rejects, a refusal, another
\* error status, a body that is no JSON or has no methodResponses, or answers.
Exchanges == {"lost", "401/403", "status", "notJson", "noMethods", "answered"}

(***************************************************************************)
(* jmap/errors.ts                                                           *)
(***************************************************************************)
Jmap(class, type) == [class |-> class, type |-> type]

NoError == Jmap("none", "none")
JmapAuthError == Jmap("auth", "none")
JmapNetworkError == Jmap("network", "none")
JmapSubmissionAmbiguousError == Jmap("ambiguous", "none")
JmapMethodError(type) == Jmap("method", type)
OtherError == Jmap("other", "none")         \* an Error or TypeError of the adapters

RETRYABLE_METHOD_ERROR_TYPES ==
    {"serverFail", "serverPartialFail", "serverUnavailable", "rateLimited",
     "networkOrServerFail"}

IsRetryable(e) == \/ e = JmapNetworkError
                  \/ e.class = "method" /\ e.type \in RETRYABLE_METHOD_ERROR_TYPES

\* throwJmapRequestError: what a call through jmap-jam throws.  A refusal is told
\* from the status or the wording; every other failure, method errors included,
\* becomes networkOrServerFail.
ThrowJmapRequestError(cause) ==
    IF cause = "401/403" THEN JmapAuthError ELSE JmapMethodError("networkOrServerFail")

(***************************************************************************)
(* transport/http.ts and session.ts                                         *)
(***************************************************************************)
CreateAuthenticatedFetch(x) ==
    CASE x = "lost" -> JmapNetworkError
      [] x = "401/403" -> JmapAuthError
      [] OTHER -> NoError

FetchJmapRaw(x) ==
    CASE x = "401/403" -> JmapAuthError
      [] x = "answered" -> NoError
      [] OTHER -> JmapNetworkError

\* What is wrong with a session object that could be read.
SessionFlaws == {"none", "empty", "noMailAccount", "accountMissing", "emptyUrl"}

\* discoverSession: the object is read only when the exchange gave one.
DiscoverSession(x, flaw) ==
    CASE CreateAuthenticatedFetch(x) # NoError -> CreateAuthenticatedFetch(x)
      [] x = "status" -> JmapMethodError("networkOrServerFail")
      [] x = "notJson" -> JmapMethodError("invalidSession")
      [] x = "answered" /\ flaw = "noMailAccount" -> JmapMethodError("missingCapability")
      [] x = "answered" /\ flaw \in {"empty", "accountMissing", "emptyUrl"} ->
             JmapMethodError("invalidSession")
      [] OTHER -> NoError

(***************************************************************************)
(* remote/errors.ts and remote/jmap/error-mapper.ts                         *)
(***************************************************************************)
RemoteError(kind, retry, session, outcome) ==
    [kind |-> kind, retry |-> retry, session |-> session, outcome |-> outcome]

MethodErrorKind(e) ==
    CASE e.type = "rateLimited" -> "rateLimited"
      [] e.type = "tooLarge" -> "tooLarge"
      [] e.type \in {"cannotCalculateChanges", "stateMismatch"} -> "stateInvalid"
      [] e.type = "serverUnavailable" -> "unavailable"
      [] OTHER -> IF IsRetryable(e) THEN "protocol" ELSE "rejected"

\* toRemoteError; `outcome` is what the caller says of an operation that failed.
ToRemoteError(e, outcome) ==
    CASE e.class = "auth" -> RemoteError("auth", "never", "expire", "knownNotApplied")
      [] e.class = "ambiguous" -> RemoteError("network", "reconcile", "keep", "unknown")
      [] e.class = "network" ->
             RemoteError("network", IF outcome = "unknown" THEN "reconcile" ELSE "safeBackoff",
                         "keep", outcome)
      [] e.class = "method" ->
             RemoteError(MethodErrorKind(e), IF IsRetryable(e) THEN "safeBackoff" ELSE "never",
                         "keep", outcome)
      [] e.class = "other" ->
             RemoteError("unexpected", IF outcome = "unknown" THEN "reconcile" ELSE "never",
                         "keep", outcome)

=============================================================================
