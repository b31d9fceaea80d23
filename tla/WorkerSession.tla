---------------------------- MODULE WorkerSession ----------------------------
(***************************************************************************)
(* The JMAP Worker (workers/jmap-worker.ts, jmap/auth/token-manager.ts),    *)
(* its client on the main thread (app/worker-client.ts) and the bridge that *)
(* carries the Worker's persistence calls back to the main thread           *)
(* (workers/ipc-bridge.ts).  The two threads share nothing but two FIFO     *)
(* channels.  The main thread gives a request up after a timeout that the   *)
(* Worker knows nothing of; opening a session, a sync and a send continue   *)
(* after the session they were started under has gone.                      *)
(*                                                                         *)
(* All sends are for one staged mutation: a caller whose request timed out  *)
(* may ask again.  A sync is one await here (CollectionSync has its steps). *)
(***************************************************************************)
EXTENDS Integers, Sequences, JmapErrors

CONSTANTS
    MaxRequests,    \* bound on the requests of the main thread
    MaxLag          \* bound on the messages that the main thread is behind

ASSUME WorkerBoundsAssumption == MaxRequests \in Nat /\ MaxLag \in Nat \ {0}

Request == 1..MaxRequests       \* the requestIds, in the order they are posted
None == 0                       \* no session, client or token

\* An INIT_SESSION carries a token that expires, one that does not, or none.
InitKinds == {"init", "initExpiring", "initEmpty"}
Kinds == InitKinds \cup {"teardown", "sync", "send"}

VARIABLES
    \* the main thread
    kind,           \* the type of each request; "none" before it is posted
    pending,        \* requests without an answer
    settled,        \* how each request ended for its caller: "sent", or "over" otherwise
    shown,          \* the last CONNECTION_STATUS delivered
    disposed,
    calls,          \* Tauri commands that run for the Worker
    \* the channels
    toWorker, toMain,
    \* the Worker
    token,          \* the INIT whose token is held, or None
    timer,          \* the expiry timer is armed
    client,         \* the INIT whose JmapClient is current
    session,        \* the INIT whose session, coordinator and outbox are current
    generation,
    opening,        \* the generation an open() was started in; -1 when none runs
    task,           \* the syncs and sends that run
    \* outside
    row,            \* status of the mutation in the database
    deliveries,     \* submissions that the server made of it
    \* history
    last            \* the last INIT or TEARDOWN the Worker handled

mainVars == <<kind, pending, settled, shown, disposed, calls>>
sessionVars == <<token, timer, client, session, generation>>
vars == <<mainVars, toWorker, toMain, sessionVars, opening, task, row, deliveries, last>>

Idle == [at |-> "idle", client |-> None, session |-> "keep"]

Init == /\ kind = [r \in Request |-> "none"]
        /\ pending = {} /\ settled = [r \in Request |-> "no"]
        /\ shown = "anonymous" /\ disposed = FALSE /\ calls = {}
        /\ toWorker = <<>> /\ toMain = <<>>
        /\ token = None /\ timer = FALSE /\ client = None /\ session = None
        /\ generation = 0
        /\ opening = [r \in Request |-> -1]
        /\ task = [r \in Request |-> Idle]
        /\ row = "pending" /\ deliveries = 0
        /\ last = "none"

(***************************************************************************)
(* Messages (workers/protocol.ts).                                          *)
(***************************************************************************)
Msg(type, id) == [type |-> type, id |-> id]
Status(s) == [type |-> "CONNECTION_STATUS", status |-> s]
InvokeResult(id, ok, value) == [type |-> "IPC_INVOKE_RESULT", id |-> id, ok |-> ok, value |-> value]

Post(msgs) == toMain' = toMain \o msgs

(***************************************************************************)
(* The main thread: JmapWorkerClient.                                       *)
(***************************************************************************)
SendRequest(r, k) ==
    /\ ~disposed /\ kind[r] = "none"
    /\ \A q \in 1..(r - 1) : kind[q] # "none"          \* the counter
    /\ kind' = [kind EXCEPT ![r] = k]
    /\ pending' = pending \cup {r}
    /\ toWorker' = Append(toWorker, Msg("request", r))
    /\ UNCHANGED <<settled, shown, disposed, calls, toMain, sessionVars, opening, task,
                   row, deliveries, last>>

TimeOut(r) ==
    /\ r \in pending
    /\ pending' = pending \ {r}
    /\ settled' = [settled EXCEPT ![r] = "over"]
    /\ UNCHANGED <<kind, shown, disposed, calls, toWorker, toMain, sessionVars, opening, task,
                   row, deliveries, last>>

\* settle: an answer to a request that is not pending any more is dropped.
SettleRequest(r, how) ==
    IF r \in pending
    THEN settled' = [settled EXCEPT ![r] = how] /\ pending' = pending \ {r}
    ELSE UNCHANGED <<settled, pending>>

Answers == {"SESSION_READY", "SESSION_ERROR", "TEARDOWN_COMPLETE", "SYNC_SUCCESS",
            "SYNC_ERROR", "sent", "skipped", "needsReconciliation", "SEND_ERROR"}

\* handleMessage and handleIpcInvoke.
MainReceives ==
    /\ toMain # <<>> /\ ~disposed
    /\ LET msg == Head(toMain) IN
       \/ /\ msg.type \in Answers
          /\ SettleRequest(msg.id, IF msg.type = "sent" THEN "sent" ELSE "over")
          /\ UNCHANGED <<shown, calls>>
       \/ /\ msg.type = "CONNECTION_STATUS"
          /\ shown' = msg.status
          /\ UNCHANGED <<pending, settled, calls>>
       \/ /\ msg.type = "SESSION_TEARDOWN"          \* listeners are told
          /\ UNCHANGED <<pending, settled, shown, calls>>
       \/ /\ msg.type = "IPC_INVOKE"
          /\ calls' = calls \cup {msg.id}
          /\ UNCHANGED <<pending, settled, shown>>
    /\ toMain' = Tail(toMain)
    /\ UNCHANGED <<kind, disposed, toWorker, sessionVars, opening, task, row, deliveries, last>>

\* Mutant of Engine: the expected snapshot is not compared.
EngineUnchecked(t) ==
    LET Write(to) == [next |-> to, value |-> "ok"]
    IN  CASE task[t].at = "claim" -> Write("inFlight")
          [] task[t].at = "confirm" -> Write("confirmed")
          [] task[t].at \in {"retrying", "failedTerminal"} -> Write(task[t].at)

\* The persistence calls of a send: its effect on the row, and its value.  Reading
\* the row and claiming it, and confirming and removing it, are two calls each in
\* the code; MutationOutbox has what may happen between them.
Engine(t) ==
    LET Replace(from, to) == IF row \in from THEN [next |-> to, value |-> "ok"]
                             ELSE [next |-> row, value |-> "conflict"]
    IN  CASE task[t].at = "claim" -> Replace({"pending", "retrying"}, "inFlight")
          [] task[t].at = "confirm" -> Replace({"inFlight"}, "removed")
          [] task[t].at \in {"retrying", "failedTerminal"} -> Replace({"inFlight"}, task[t].at)

\* tauriInvoke returns, or rejects without having run the command.
InvokeReturns(t) ==
    /\ t \in calls /\ ~disposed
    /\ calls' = calls \ {t}
    /\ \/ /\ row' = Engine(t).next
          /\ toWorker' = Append(toWorker, InvokeResult(t, TRUE, Engine(t).value))
       \/ /\ toWorker' = Append(toWorker, InvokeResult(t, FALSE, "unavailable"))
          /\ UNCHANGED row
    /\ UNCHANGED <<kind, pending, settled, shown, disposed, toMain, sessionVars, opening, task,
                   deliveries, last>>

\* dispose: every caller is told, and the Worker is terminated where it stands.
Dispose ==
    /\ ~disposed
    /\ disposed' = TRUE
    /\ settled' = [r \in Request |-> IF r \in pending THEN "over" ELSE settled[r]]
    /\ pending' = {} /\ calls' = {}
    /\ toWorker' = <<>> /\ toMain' = <<>>
    /\ opening' = [r \in Request |-> -1]
    /\ task' = [r \in Request |-> Idle]
    /\ token' = None /\ timer' = FALSE /\ client' = None /\ session' = None
    /\ generation' = 0
    /\ UNCHANGED <<kind, shown, row, deliveries, last>>

(***************************************************************************)
(* The Worker's session.                                                    *)
(***************************************************************************)
ResetToAnonymous == /\ generation' = generation + 1
                    /\ client' = None /\ session' = None

\* tokenManager.invalidate() and its onTokenExpired listener; a TEARDOWN_SESSION
\* answers itself and announces nothing.
Invalidate(status, announce, answer) ==
    /\ token' = None /\ timer' = FALSE
    /\ ResetToAnonymous
    /\ Post(<<Status(status)>> \o (IF announce THEN <<Msg("SESSION_TEARDOWN", None)>> ELSE <<>>)
            \o answer)

\* INIT_SESSION.  An empty token cannot be stored: the handler returns before it
\* resets anything, but the token it replaced and its timer are gone.
HandleInit(i) ==
    /\ token' = i
    /\ timer' = (kind[i] = "initExpiring")
    /\ last' = "init"
    /\ IF kind[i] = "initEmpty"
       THEN /\ Post(<<Status("connecting"), Status("error"), Msg("SESSION_ERROR", i)>>)
            /\ UNCHANGED <<client, session, generation, opening>>
       ELSE /\ Post(<<Status("connecting")>>)
            /\ generation' = generation + 1
            /\ client' = i /\ session' = None
            /\ opening' = [opening EXCEPT ![i] = generation + 1]
    /\ UNCHANGED <<task, row, deliveries>>

\* Mutant of HandleTeardown: the session is left to the garbage collector.
HandleTeardownTokenOnly(r) ==
    /\ token' = None /\ timer' = FALSE
    /\ Post(<<Status("anonymous"), Msg("TEARDOWN_COMPLETE", r)>>)
    /\ last' = "teardown"
    /\ UNCHANGED <<client, session, generation, opening, task, row, deliveries>>

HandleTeardown(r) ==
    /\ Invalidate("anonymous", FALSE, <<Msg("TEARDOWN_COMPLETE", r)>>)
    /\ last' = "teardown"
    /\ UNCHANGED <<opening, task, row, deliveries>>

\* SYNC_ACCOUNT and SEND_EMAIL: refused without a session, else started under it.
HandleTask(t) ==
    /\ IF session = None
       THEN Post(<<Msg(IF kind[t] = "sync" THEN "SYNC_ERROR" ELSE "SEND_ERROR", t)>>) /\ UNCHANGED task
       ELSE /\ task' = [task EXCEPT ![t] = [Idle EXCEPT !.at = IF kind[t] = "sync" THEN "syncing" ELSE "claim",
                                                        !.client = client]]
            /\ IF kind[t] = "sync" THEN UNCHANGED toMain ELSE Post(<<Msg("IPC_INVOKE", t)>>)
    /\ UNCHANGED <<sessionVars, opening, row, deliveries, last>>

\* Mutant of OpenReturns: the continuation does not look at what became of its session.
OpenReturnsAnyway(i) ==
    /\ session' = i
    /\ Post(<<Status("authenticated"), Msg("SESSION_READY", i)>>)
    /\ UNCHANGED <<token, timer, client, generation>>

\* Mutant of OpenReturns: a session that came too late is still announced.
OpenReturnsLoud(i) ==
    IF opening[i] = generation /\ client = i /\ token # None
    THEN /\ session' = i
         /\ Post(<<Status("authenticated"), Msg("SESSION_READY", i)>>)
         /\ UNCHANGED <<token, timer, client, generation>>
    ELSE /\ Post(<<Status("authenticated")>>)
         /\ UNCHANGED sessionVars

\* The continuation of open(): a session that is not the current one is closed.
OpenReturns(i) ==
    IF opening[i] = generation /\ client = i /\ token # None
    THEN /\ session' = i
         /\ Post(<<Status("authenticated"), Msg("SESSION_READY", i)>>)
         /\ UNCHANGED <<token, timer, client, generation>>
    ELSE UNCHANGED <<toMain, sessionVars>>

\* Mutant of OpenFails: the session is reset, but the caller is not told.
OpenFailsSilent(i) ==
    IF opening[i] = generation
    THEN /\ token' = None /\ timer' = FALSE
         /\ ResetToAnonymous
         /\ Post(<<Status("error")>>)
    ELSE UNCHANGED <<toMain, sessionVars>>

\* The continuation of an open() that failed: nobody is told of one whose
\* generation has passed.
OpenFails(i) ==
    IF opening[i] = generation
    THEN /\ token' = None /\ timer' = FALSE
         /\ ResetToAnonymous
         /\ Post(<<Status("error"), Msg("SESSION_ERROR", i)>>)
    ELSE UNCHANGED <<toMain, sessionVars>>

OpenErrors == {DiscoverSession(x, flaw) : x \in Exchanges \ {"noMethods"}, flaw \in SessionFlaws}

\* JmapRemoteConnection.open: the session object is discovered and validated.
Open(i, error) ==
    /\ opening[i] # -1
    /\ opening' = [opening EXCEPT ![i] = -1]
    /\ IF error = NoError THEN OpenReturns(i) ELSE OpenFails(i)
    /\ UNCHANGED <<mainVars, toWorker, task, row, deliveries, last>>

TokenExpires ==
    /\ timer /\ ~disposed
    /\ Invalidate("expired", TRUE, <<>>)
    /\ UNCHANGED <<mainVars, toWorker, opening, task, row, deliveries, last>>

(***************************************************************************)
(* The Worker's operations.                                                 *)
(***************************************************************************)
EndTask(t) == task' = [task EXCEPT ![t] = Idle]

\* Mutant of InvalidateOnAuthError: whoever fails, the current session is ended.
InvalidateOnAnyAuthError(t, disposition, answer) ==
    IF disposition = "expire"
    THEN Invalidate("expired", TRUE, <<Msg(answer, t)>>)
    ELSE Post(<<Msg(answer, t)>>) /\ UNCHANGED sessionVars

\* The catch of an operation: only its own client's refusal ends the session.
InvalidateOnAuthError(t, disposition, answer) ==
    IF disposition = "expire" /\ client = task[t].client
    THEN Invalidate("expired", TRUE, <<Msg(answer, t)>>)
    ELSE Post(<<Msg(answer, t)>>) /\ UNCHANGED sessionVars

SyncEnds(t) ==
    /\ task[t].at = "syncing"
    /\ \/ Post(<<Msg("SYNC_SUCCESS", t)>>) /\ UNCHANGED sessionVars
       \/ \E x \in {"401/403", "other"} :
              InvalidateOnAuthError(t, ToRemoteError(ThrowJmapRequestError(x), "knownNotApplied").session,
                                    "SYNC_ERROR")
    /\ EndTask(t)
    /\ UNCHANGED <<mainVars, toWorker, opening, row, deliveries, last>>

\* invoke: the next persistence call of a send is posted to the main thread.
Invoke(t, at) == /\ task' = [task EXCEPT ![t].at = at]
                 /\ Post(<<Msg("IPC_INVOKE", t)>>)
                 /\ UNCHANGED sessionVars

Reject(t, answer) == Post(<<Msg(answer, t)>>) /\ EndTask(t) /\ UNCHANGED sessionVars

\* Mutant of Claimed: the result of the claim is not looked at.
ClaimedAnyway(value) == TRUE

\* The claim of an attempt won; a conflict is reported as skipped.
Claimed(value) == value = "ok"

\* resolveInvoke: processSendMutation goes on after a persistence call.
ResumeSend(t, ok, value) ==
    LET at == task[t].at IN
    CASE ~ok -> Reject(t, "SEND_ERROR")
      [] ok /\ at = "claim" ->
             IF Claimed(value)
             THEN task' = [task EXCEPT ![t].at = "submit"] /\ UNCHANGED <<toMain, sessionVars>>
             ELSE Reject(t, "skipped")
      [] ok /\ at = "confirm" -> Reject(t, IF value = "ok" THEN "sent" ELSE "SEND_ERROR")
      [] ok /\ at \in {"retrying", "failedTerminal"} ->
             IF value = "ok"
             THEN InvalidateOnAuthError(t, task[t].session, "SEND_ERROR") /\ EndTask(t)
             ELSE Reject(t, "SEND_ERROR")

\* Submission.submit returns: accepted, of unknown outcome, or known to have failed.
SubmitReturns(t) ==
    /\ task[t].at = "submit"
    /\ \/ Invoke(t, "confirm") /\ deliveries' = deliveries + 1
       \/ /\ Reject(t, "needsReconciliation")
          /\ deliveries' \in {deliveries, deliveries + 1}
       \/ /\ \E e \in {JmapAuthError, JmapMethodError("networkOrServerFail"), JmapMethodError("tooLarge")} :
                LET r == ToRemoteError(e, "knownNotApplied")
                IN  task' = [task EXCEPT
                        ![t].at = IF r.retry = "safeBackoff" THEN "retrying" ELSE "failedTerminal",
                        ![t].session = r.session]
          /\ Post(<<Msg("IPC_INVOKE", t)>>)
          /\ UNCHANGED <<sessionVars, deliveries>>
    /\ UNCHANGED <<mainVars, toWorker, opening, row, last>>

\* handleMessage of the Worker.
WorkerReceives ==
    /\ toWorker # <<>> /\ ~disposed
    /\ LET msg == Head(toWorker) IN
       \/ msg.type = "request" /\ kind[msg.id] \in InitKinds /\ HandleInit(msg.id)
       \/ msg.type = "request" /\ kind[msg.id] = "teardown" /\ HandleTeardown(msg.id)
       \/ msg.type = "request" /\ kind[msg.id] \in {"sync", "send"} /\ HandleTask(msg.id)
       \/ /\ msg.type = "IPC_INVOKE_RESULT"
          /\ ResumeSend(msg.id, msg.ok, msg.value)
          /\ UNCHANGED <<opening, row, deliveries, last>>
    /\ toWorker' = Tail(toWorker)
    /\ UNCHANGED mainVars

WorkerStep ==
    /\ Len(toMain) < MaxLag
    /\ \/ WorkerReceives
       \/ \E r \in Request, error \in OpenErrors : Open(r, error)
       \/ \E r \in Request : SyncEnds(r) \/ SubmitReturns(r)

MainStep == MainReceives \/ \E r \in Request : InvokeReturns(r)

Next == \/ WorkerStep \/ MainStep \/ TokenExpires \/ Dispose
        \/ \E r \in Request : TimeOut(r) \/ \E k \in Kinds : SendRequest(r, k)

\* Awaited network and IPC calls end, and both event loops run.
Spec == Init /\ [][Next]_vars /\ WF_vars(MainReceives) /\ WF_vars(WorkerReceives)
        /\ \A r \in Request : /\ WF_vars(\E error \in OpenErrors : Open(r, error))
                              /\ WF_vars(InvokeReturns(r)) /\ WF_vars(SubmitReturns(r))
                              /\ WF_vars(SyncEnds(r))

(***************************************************************************)
(* Properties.                                                              *)
(***************************************************************************)
\* The token held is the empty one: getAuthConfig refuses it, getToken does not.
EmptyToken == token # None /\ kind[token] = "initEmpty"

\* After TEARDOWN_SESSION the Worker holds no token, client or session, whatever
\* opens, refusals and operations that were under way return later.
LoggedOutStaysOut == last = "teardown" => token = None /\ client = None /\ session = None

\* A session is usable only with its own token in memory, so that the token's
\* expiry ends it.  The exception is a login with an empty token.
SessionHoldsItsToken == session # None => client = session /\ (token = session \/ EmptyToken)

\* What the main thread was told last is what the Worker is: authenticated
\* exactly when there is a session.  The exception is as above.
StatusIsTrue ==
    /\ ~disposed /\ ~EmptyToken
    /\ \A k \in 1..Len(toMain) : toMain[k].type # "CONNECTION_STATUS"
    => (shown = "authenticated") = (session # None)

\* Repeated requests for one mutation, refused or given up, submit it once, and a
\* caller is told "sent" only if it was.
SendsOnce == /\ deliveries <= 1
             /\ (\E r \in Request : settled[r] = "sent") => deliveries = 1

\* The session ends only by a login, a logout, its token's expiry, or the refusal
\* of an operation that used it: the late failure of an older session's operation
\* or open leaves it alone.
LateFailuresAreHarmless ==
    [][session # None /\ session' = None /\ ~disposed' =>
          \/ /\ toWorker # <<>> /\ toWorker' = Tail(toWorker) /\ Head(toWorker).type = "request"
             /\ kind[Head(toWorker).id] \in InitKinds \cup {"teardown"}
          \/ timer /\ UNCHANGED <<task, opening>>
          \/ \E t \in Request : task[t].client = session /\ task'[t] # task[t]]_vars

\* While r's session opens, a login, a logout, an expiry or another session's
\* refusal has moved the Worker to a later generation.
Superseded(r) == opening[r] \notin {-1, generation}

\* Every request is answered, given up or ended by dispose: the only one that may
\* stay pending is an INIT_SESSION that was superseded while it opened, whose
\* caller learns by the timeout alone.  A login that is refused, or whose own
\* open fails, is answered.
Answered == \A r \in Request : <>[](r \in pending) => <>Superseded(r)

\* "Login fallido, expiración, logout y 401/403 eliminan la credencial memory-only
\* y vuelven inutilizable el cliente previo": when a login was refused there is no
\* session left to use.
\* Does not hold (see the README).
FailedLoginEndsSession == shown = "error" /\ toMain = <<>> /\ ~disposed => session = None

=============================================================================
