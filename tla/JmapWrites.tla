------------------------------ MODULE JmapWrites ------------------------------
(***************************************************************************)
(* One mutation executed over JMAP: a submission (jmap/mail/submission.ts,  *)
(* remote/jmap/jmap-submission.ts) or the change of a set-valued property   *)
(* of an Email, its keywords or its mailboxes (jmap/mail/mutations.ts).     *)
(* Each request is one HTTP exchange; what its end is taken to mean decides *)
(* in the outbox whether the mutation is tried again.                       *)
(*                                                                         *)
(* The server (external) follows RFC 8620: a SetError or a method error     *)
(* says that nothing was changed, except serverPartialFail; the exchange    *)
(* may break on either way, and a request may be served after the client    *)
(* gave up.  An update of keywords or mailboxIds replaces the property.     *)
(***************************************************************************)
EXTENDS Integers, JmapErrors

CONSTANTS
    Values,         \* the keywords or mailboxes that the property may hold
    MaxAttempts     \* bound on the attempts of the mutation

ASSUME JmapAttemptsAssumption == MaxAttempts \in Nat

SetErrors == {"rateLimited", "tooLarge", "stateMismatch"}

VARIABLES
    op,             \* "send" or "patch"
    change,         \* what a patch adds and removes
    status,         \* lifecycle status of the mutation
    attempt,        \* its attemptCount
    at,             \* the request that is awaited; "none" when no call runs
    wire,           \* requests that the server may still serve
    answer,         \* the answer on its way back, or NoAnswer
    result,         \* the RemoteError the call ended with, Resolved, or NoResult
    drafts,         \* Emails created in Drafts
    sent,           \* submissions the server made
    property,       \* the value of the property at the server
    before,         \* its value when the mutation was staged
    untold          \* history: the server answered with a method error for the set call

jmapVars == <<op, change, status, attempt, at, wire, answer, result, drafts, sent,
              property, before, untold>>
server == <<wire, drafts, sent, property>>
fixed == <<op, change, before>>

NoAnswer == [x |-> "none"]
NoResult == RemoteError("none", "none", "keep", "none")
Resolved == RemoteError("none", "none", "keep", "applied")

JmapInit == /\ op \in {"send", "patch"}
            /\ change \in [add : SUBSET Values, remove : SUBSET Values]
            /\ change.add \cap change.remove = {} /\ change.add \cup change.remove # {}
            /\ status = "pending" /\ attempt = 0
            /\ at = "none" /\ wire = 0
            /\ answer = NoAnswer /\ result = NoResult
            /\ drafts = 0 /\ sent = 0
            /\ property \in SUBSET Values
            /\ before = property
            /\ untold = FALSE

(***************************************************************************)
(* The calls.                                                               *)
(***************************************************************************)
End(r) == at' = "none" /\ result' = r

\* Claim an attempt.  JmapSubmission refuses a message without a remote Identity
\* or with an encrypted body before any request; the message is the same in
\* every attempt.
Start == /\ status \in {"pending", "retrying"} /\ attempt < MaxAttempts
         /\ status' = "inFlight"
         /\ attempt' = attempt + 1
         /\ untold' = FALSE
         /\ \/ op = "send" /\ at' = "drafts" /\ UNCHANGED <<result, wire>>
            \/ /\ op = "send" /\ attempt = 0
               /\ End(RemoteError("unsupported", "never", "keep", "knownNotApplied"))
               /\ UNCHANGED wire
            \/ op = "patch" /\ at' = "patch" /\ wire' = wire + 1 /\ UNCHANGED result
         /\ UNCHANGED <<fixed, answer, drafts, sent, property>>

\* What submitEmail throws after the search for the Drafts mailbox.
DraftsError(x, entry) ==
    LET e == FetchJmapRaw(x)
    IN  CASE e = JmapAuthError -> e
          [] e = JmapNetworkError \/ (e = NoError /\ entry = "absent") ->
                 JmapMethodError("networkOrServerFail")
          [] e = NoError /\ entry = "error" -> JmapMethodError("notFound")
          [] OTHER -> NoError

\* The search changes nothing at the server: one step from request to answer.
FindDrafts(x, entry) ==
    /\ at = "drafts"
    /\ LET e == DraftsError(x, entry)
       IN  IF e = NoError
           THEN at' = "batch" /\ wire' = wire + 1 /\ UNCHANGED result
           ELSE End(ToRemoteError(e, "knownNotApplied")) /\ UNCHANGED wire
    /\ UNCHANGED <<fixed, status, attempt, answer, drafts, sent, property, untold>>

\* Mutant of SubmitError: a lost answer is reported like that of another method.
SubmitErrorPlain(x, first, second) ==
    CASE FetchJmapRaw(x) = JmapAuthError -> JmapAuthError
      [] FetchJmapRaw(x) = JmapNetworkError -> JmapMethodError("networkOrServerFail")
      [] first \in SetErrors -> JmapMethodError(first)
      [] second \in SetErrors -> JmapMethodError(second)
      [] OTHER -> IF first = "done" /\ second = "done" THEN NoError ELSE JmapMethodError("unknown")

\* Mutant of SubmitError: only the refusals are looked for, not the created ids.
SubmitErrorNoIds(x, first, second) ==
    CASE FetchJmapRaw(x) = JmapAuthError -> JmapAuthError
      [] FetchJmapRaw(x) = JmapNetworkError -> JmapSubmissionAmbiguousError
      [] first \in SetErrors -> JmapMethodError(first)
      [] second \in SetErrors -> JmapMethodError(second)
      [] OTHER -> NoError

\* What submitEmail throws after Email/set + EmailSubmission/set.
SubmitError(x, first, second) ==
    LET e == FetchJmapRaw(x)
    IN  CASE e = JmapAuthError -> JmapAuthError
          [] e = JmapNetworkError -> JmapSubmissionAmbiguousError
          [] e = NoError /\ first \in SetErrors -> JmapMethodError(first)
          [] e = NoError /\ first \notin SetErrors /\ second \in SetErrors -> JmapMethodError(second)
          [] OTHER -> IF first = "done" /\ second = "done" THEN NoError
                      ELSE JmapMethodError("unknown")

\* What patchEmailKeywords and patchEmailMailboxes throw: every failed exchange
\* alike, and a SetError for the Email.  Nothing else is looked at.
PatchError(x, entry) ==
    CASE FetchJmapRaw(x) # NoError -> JmapMethodError("networkOrServerFail")
      [] FetchJmapRaw(x) = NoError /\ entry \in SetErrors -> JmapMethodError(entry)
      [] OTHER -> NoError

CallError(x, first, second) ==
    IF at = "batch" THEN SubmitError(x, first, second) ELSE PatchError(x, first)

\* Mutant of Outcome: the failure of a write is reported like that of a read.
OutcomeOfRead(e) == "notApplicable"

\* JmapSubmission.submit and JmapRemoteMail.apply*Change report the failure.
Outcome(e) == IF e.class \in {"network", "ambiguous"} /\ op = "send"
              THEN "unknown" ELSE "knownNotApplied"

Finish(x, first, second) ==
    LET e == CallError(x, first, second)
    IN  End(IF e = NoError THEN Resolved ELSE ToRemoteError(e, Outcome(e)))

Receive == /\ at \in {"batch", "patch"} /\ answer # NoAnswer
           /\ Finish(answer.x, answer.first, answer.second)
           /\ untold' = /\ answer.x = "answered"
                        /\ IF op = "send" THEN answer.second = "partial" ELSE answer.first = "error"
           /\ answer' = NoAnswer
           /\ UNCHANGED <<fixed, status, attempt, server>>

\* fetch rejects: the request may not have arrived, may arrive yet, or the answer is lost.
Lose == /\ at \in {"batch", "patch"}
        /\ Finish("lost", "absent", "absent")
        /\ answer' = NoAnswer
        /\ UNCHANGED <<fixed, status, attempt, server, untold>>

(***************************************************************************)
(* The server (external).                                                   *)
(***************************************************************************)
Reply(x, first, second) ==
    answer' = IF at = "none" \/ answer # NoAnswer THEN answer
              ELSE [x |-> x, first |-> first, second |-> second]

\* The draft and the submission, made together or in part.
ServeBatch(x, first, second) ==
    /\ op = "send" /\ wire > 0
    /\ wire' = wire - 1
    /\ \E d, s \in {0, 1} :
          /\ x = "401/403" => d = 0
          /\ x = "answered" => /\ (first = "done") = (d = 1)
                               /\ second = "done" => s = 1
                               /\ second \in SetErrors \cup {"error"} => s = 0
                               /\ first \notin {"partial", "absent"} /\ second # "absent"
          /\ s <= d
          /\ drafts' = drafts + d
          /\ sent' = sent + s
    /\ Reply(x, first, second)
    /\ UNCHANGED <<fixed, status, attempt, at, result, property, untold>>

\* The property takes the value given; a server may refuse entries that are false.
ServePatch(x, entry) ==
    /\ op = "patch" /\ wire > 0
    /\ wire' = wire - 1
    /\ \/ property' = change.add /\ x # "401/403" /\ (x = "answered" => entry = "done")
       \/ UNCHANGED property /\ (x = "answered" => entry \in SetErrors \cup {"error"})
    /\ Reply(x, entry, "absent")
    /\ UNCHANGED <<fixed, status, attempt, at, result, drafts, sent, untold>>

DropRequest == /\ wire > 0
               /\ wire' = wire - 1
               /\ UNCHANGED <<fixed, status, attempt, at, answer, result, drafts, sent, property, untold>>

(***************************************************************************)
(* What the outbox makes of the result (sync/outbox.ts).                    *)
(***************************************************************************)
\* Mutant of IsAmbiguousSubmissionFailure: only what says "reconcile" by its kind counts.
IsAmbiguousByKind(r) == r.kind = "stateInvalid"

IsAmbiguousSubmissionFailure(r) == r.retry = "reconcile" \/ r.outcome = "unknown"

IsRetryableRemoteFailure(r) == r.retry \in {"safeImmediate", "safeBackoff"}

SettleKnownFailure ==
    /\ result \notin {NoResult, Resolved} /\ ~IsAmbiguousSubmissionFailure(result)
    /\ status' = IF IsRetryableRemoteFailure(result) THEN "retrying" ELSE "failedTerminal"

SettleConfirmed == result = Resolved /\ status' = "confirmed"

Settle == /\ status = "inFlight"
          /\ SettleKnownFailure \/ SettleConfirmed
          /\ result' = NoResult
          /\ UNCHANGED <<fixed, attempt, at, answer, server, untold>>

JmapNext == \/ Start \/ Receive \/ Lose \/ DropRequest \/ Settle
            \/ \E x \in Exchanges, entry \in {"done", "error", "absent"} : FindDrafts(x, entry)
            \/ \E x \in Exchanges, first, second \in {"done", "error", "partial"} \cup SetErrors :
                   ServeBatch(x, first, second)
            \/ \E x \in Exchanges, entry \in {"done", "error"} \cup SetErrors : ServePatch(x, entry)

JmapSpec == JmapInit /\ [][JmapNext]_jmapVars

(***************************************************************************)
(* Properties.                                                              *)
(***************************************************************************)
\* However the exchanges of all attempts break, and whatever arrives late, the
\* message is submitted once: submitEmail tells a batch that may have been served
\* from one that was not, and only the latter is tried again.
SubmittedAtMostOnce == op = "send" => sent + wire <= 1

\* A submission reported failed was not and will not be made.  The exception is a
\* method error of the submission call: submitEmail takes the missing id for a
\* failure, also after serverPartialFail.
FailedMeansNotSubmitted ==
    op = "send" /\ status = "failedTerminal" /\ ~untold => sent = 0 /\ wire = 0

\* A mutation reported done was done: the message was submitted, and what a patch
\* adds is there and what it removes is not, unless the set call as a whole was
\* answered with an error, which the patches do not look for.
ConfirmedMeansDone ==
    status = "confirmed" => CASE op = "send" -> sent = 1 /\ drafts >= 1
                              [] op = "patch" -> \/ untold
                                                 \/ /\ change.add \subseteq property
                                                    /\ change.remove \cap property = {}

\* A confirmed patch changed exactly what it names: RemoteKeywordChange has an
\* "add" and a "remove", and the domain promises that a KeywordSet keeps the
\* keywords it does not know.
\* Does not hold (see the README).
PatchIsADelta ==
    op = "patch" /\ status = "confirmed" => property = (before \cup change.add) \ change.remove

=============================================================================
