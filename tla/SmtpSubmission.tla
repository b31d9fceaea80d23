---------------------------- MODULE SmtpSubmission ----------------------------
(***************************************************************************)
(* The native SMTP submission of one SendMutation (net/smtp.rs, submit and  *)
(* submit_gmail), the error each failure is reported as (net/errors.rs) and *)
(* what the mutation runner makes of it.  MutationOutbox assumes that an    *)
(* error claiming knownNotApplied tells the truth; this module is where the *)
(* claim is made, one reply line at a time.                                 *)
(*                                                                         *)
(* The server (external) follows RFC 5321: it takes responsibility for the  *)
(* message only after the final dot, answers 250 only if it did, and 4xx or *)
(* 5xx only if it did not.  The connection may break anywhere, and a        *)
(* message that reached the server may be accepted after the client left.   *)
(***************************************************************************)
EXTENDS Integers

CONSTANTS
    MaxRecipients,      \* recipients after removing duplicates
    MaxAttempts         \* bound on the attempts of the mutation

Steps == {"greeting", "ehlo", "auth", "challenge", "mail", "rcpt", "data", "payload"}

Replies == {"expected", "334", "4xx", "5xx", "malformed"}

ASSUME RecipientsAssumption == MaxRecipients \in Nat \ {0}
ASSUME AttemptsAssumption == MaxAttempts \in Nat

VARIABLES
    status,         \* lifecycle status of the mutation
    attempt,        \* its attemptCount
    gmail,          \* the session is a Google one: AUTH XOAUTH2
    at,             \* the step of the dialogue; "none" when no submission runs
    waiting,        \* the client has written and reads the reply
    left,           \* recipients still to be named
    result,         \* the error the last submission ended with, or "accepted"
    inbox,          \* the complete message is with the server, not yet decided
    taken,          \* the server took responsibility in this dialogue
    deliveries,     \* how often the server accepted the message
    \* history
    unreadable      \* a reply to the payload was a line without a code

smtpVars == <<status, attempt, gmail, at, waiting, left, result, inbox, taken, deliveries,
             unreadable>>
serverVars == <<inbox, taken, deliveries, unreadable>>

(***************************************************************************)
(* The dispositions of net/errors.rs that a submission can end with.        *)
(***************************************************************************)
Error(retry, outcome) == [retry |-> retry, outcome |-> outcome]

Unavailable == Error("safeBackoff", "knownNotApplied")
Transient   == Error("safeBackoff", "knownNotApplied")
Protocol    == Error("never", "knownNotApplied")
Rejected    == Error("never", "knownNotApplied")
Auth        == Error("never", "knownNotApplied")
Ambiguous   == Error("reconcile", "unknown")
Accepted    == Error("none", "applied")
NoResult    == Error("none", "none")

SmtpInit == /\ status = "pending"
            /\ attempt = 0
            /\ gmail \in BOOLEAN
            /\ at = "none"
            /\ waiting = FALSE
            /\ left = 0
            /\ result = NoResult
            /\ inbox = FALSE
            /\ taken = FALSE
            /\ deliveries = 0
            /\ unreadable = FALSE

Finish(r) == /\ result' = r
             /\ at' = "none"
             /\ waiting' = FALSE
             /\ left' = 0
             /\ UNCHANGED <<status, attempt, gmail>>

(***************************************************************************)
(* submit / submit_gmail.                                                   *)
(***************************************************************************)
\* The runner claims an attempt; the message is built and checked (sender,
\* size, addresses) before the connection is made.
Start == /\ status \in {"pending", "retrying"}
         /\ at = "none" /\ result = NoResult
         /\ attempt < MaxAttempts
         /\ status' = "inFlight"
         /\ attempt' = attempt + 1
         /\ \/ \E n \in 1..MaxRecipients :
                   /\ at' = "greeting" /\ waiting' = TRUE
                   /\ left' = n
                   /\ UNCHANGED result
            \/ /\ result' \in {Rejected, Unavailable}   \* invalid, too large, no connection
               /\ UNCHANGED <<at, waiting, left>>
         /\ taken' = FALSE
         /\ UNCHANGED <<gmail, inbox, deliveries, unreadable>>

\* command(): write the line and read the reply; a failed write is reported as
\* unavailable, since before the payload nothing can have been accepted.
WriteCommand == /\ at \notin {"none", "payload"} /\ ~waiting
                /\ \/ waiting' = TRUE /\ UNCHANGED <<status, attempt, gmail, at, left, result>>
                   \/ Finish(Unavailable)
                /\ UNCHANGED serverVars

\* Mutant of WritePayload: a failed write is reported like that of a command.
WritePayloadUnavailable == /\ at = "payload" /\ ~waiting
                           /\ \/ /\ waiting' = TRUE /\ inbox' = TRUE
                                 /\ UNCHANGED <<status, attempt, gmail, at, left, result>>
                              \/ Finish(Unavailable) /\ inbox' \in BOOLEAN
                           /\ UNCHANGED <<taken, deliveries, unreadable>>

\* The message and the final dot.  A write that fails may have delivered all of it.
WritePayload == /\ at = "payload" /\ ~waiting
                /\ \/ /\ waiting' = TRUE /\ inbox' = TRUE
                      /\ UNCHANGED <<status, attempt, gmail, at, left, result>>
                   \/ Finish(Ambiguous) /\ inbox' \in BOOLEAN
                /\ UNCHANGED <<taken, deliveries, unreadable>>

\* The step that follows an expected reply.
AfterReply(reply) ==
    CASE at = "greeting" -> "ehlo"
      [] at = "ehlo" -> "auth"
      [] at = "auth" /\ reply = "334" -> "challenge"
      [] at = "auth" /\ reply # "334" -> "mail"
      [] at = "challenge" -> "mail"
      [] at = "mail" -> "rcpt"
      [] at = "rcpt" -> IF left > 1 THEN "rcpt" ELSE "data"
      [] at = "data" -> "payload"

Understood(reply) == \/ reply = "expected"
                     \/ reply = "334" /\ at = "auth" /\ gmail

\* The error expect_code and expect_code_or_challenge report for a reply line
\* that is not the expected one; submit turns a rejected AUTH into auth().
ReplyError(reply) ==
    CASE reply = "malformed" -> Protocol
      [] reply # "malformed" /\ at = "payload" -> Ambiguous
      [] reply = "4xx" /\ at # "payload" -> Transient
      [] reply \in {"5xx", "334"} /\ at # "payload" ->
             IF at \in {"auth", "challenge"} THEN Auth ELSE Rejected

\* expect_code: one final reply line arrives (continuation lines are skipped).  A line
\* without a code is unreadable at every step, also where it answers the payload.
ReadReply(reply) ==
    /\ at # "none" /\ waiting
    /\ \/ /\ Understood(reply) /\ at # "payload"
          /\ at' = AfterReply(reply)
          /\ left' = IF at = "rcpt" THEN left - 1 ELSE left
          /\ waiting' = FALSE
          /\ UNCHANGED <<status, attempt, gmail, result>>
       \/ Understood(reply) /\ at = "payload" /\ Finish(Accepted)
       \/ ~Understood(reply) /\ Finish(ReplyError(reply))
    /\ unreadable' = (unreadable \/ (at = "payload" /\ reply = "malformed"))
    /\ UNCHANGED <<inbox, taken, deliveries>>

\* Mutant of ReadFails: a lost reply always means that nothing was applied.
ReadFailsUnavailable == /\ at # "none" /\ waiting
                        /\ Finish(Unavailable)
                        /\ UNCHANGED serverVars

\* The reply does not come: timeout, reset or end of file.
ReadFails == /\ at # "none" /\ waiting
             /\ Finish(IF at = "payload" THEN Ambiguous ELSE Unavailable)
             /\ UNCHANGED serverVars

(***************************************************************************)
(* The server (external).                                                   *)
(***************************************************************************)
ServerAccept == /\ inbox
                /\ inbox' = FALSE
                /\ deliveries' = deliveries + 1
                /\ taken' = (at = "payload")
                /\ UNCHANGED <<status, attempt, gmail, at, waiting, left, result, unreadable>>

ServerDrop == /\ inbox
              /\ inbox' = FALSE
              /\ UNCHANGED <<status, attempt, gmail, at, waiting, left, result, taken, deliveries, unreadable>>

\* The replies an honest server may give now.
Possible(reply) ==
    /\ at = "payload" /\ reply \in {"4xx", "5xx"} => ~inbox /\ ~taken
    /\ at = "payload" /\ reply = "expected" => taken
    /\ reply = "334" => at \in {"auth", "challenge"}

ServerReplies == \E reply \in Replies : Possible(reply) /\ ReadReply(reply)

(***************************************************************************)
(* settleRemoteFailure: accepted without a remote id and an unknown outcome *)
(* leave the row inFlight; known failures retry or end.                     *)
(***************************************************************************)
Settle == /\ status = "inFlight" /\ at = "none"
          /\ result \notin {NoResult, Accepted, Ambiguous}
          /\ status' = IF result.retry = "safeBackoff" THEN "retrying" ELSE "failedTerminal"
          /\ result' = NoResult
          /\ UNCHANGED <<attempt, gmail, at, waiting, left, serverVars>>

\* reconcileSend: the copy with the mutation's Message-ID is found in Sent.
Reconcile == /\ status = "inFlight" /\ at = "none"
             /\ result \in {Accepted, Ambiguous}
             /\ deliveries = 1
             /\ status' = "confirmed"
             /\ UNCHANGED <<attempt, gmail, at, waiting, left, result, serverVars>>

SmtpNext == \/ Start \/ WriteCommand \/ WritePayload \/ ServerReplies \/ ReadFails
            \/ ServerAccept \/ ServerDrop \/ Settle \/ Reconcile

SmtpSpec == SmtpInit /\ [][SmtpNext]_smtpVars

(***************************************************************************)
(* Properties.                                                              *)
(***************************************************************************)
\* However the dialogues of all attempts break, the message is accepted once.
DeliveredAtMostOnce == deliveries + (IF inbox THEN 1 ELSE 0) <= 1

\* The server has not accepted the message and holds no copy it could still accept.
NotApplied == deliveries = 0 /\ ~inbox

\* What is repeated was not applied, and an error claiming knownNotApplied is true, now
\* and later.  ADR-009 says the same of the code: "SMTP failures after DATA may have
\* reached the server are classified as reconcile / unknown, preventing blind resend".
\* The exception is an unreadable reply to the payload: it is reported as a protocol
\* error, known and final, whatever the server did; it is not repeated either.
KnownMeansNotApplied ==
    /\ result.retry = "safeBackoff" \/ status = "retrying" => NotApplied
    /\ result.outcome = "knownNotApplied" \/ status = "failedTerminal" => NotApplied \/ unreadable

=============================================================================
