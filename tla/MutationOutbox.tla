---------------------------- MODULE MutationOutbox ----------------------------
(***************************************************************************)
(* The durable mutation queue and its executors: DefaultMutationRunner      *)
(* (mutation-runner.ts) for native accounts, the legacy Outbox of the JMAP  *)
(* Worker (sync/outbox.ts), and the account refreshes that race with them.  *)
(*                                                                         *)
(* `row` is the pending_mutations table, the only state that survives a     *)
(* Crash besides the local Email projection and what the server did.  Every *)
(* await of the code is a boundary between two actions, so any number of    *)
(* executors interleave; a call to persistence is one atomic transaction.   *)
(*                                                                         *)
(* The remote side (external) is a set of requests on the wire that the     *)
(* server may apply at any time, also after the caller gave up or crashed,  *)
(* or lose.  An error that claims knownNotApplied is assumed true here; the *)
(* classification itself is the subject of SmtpSubmission.                  *)
(***************************************************************************)
EXTENDS MutationLifecycle

CONSTANTS
    Send, Keyword, Membership,  \* the mutations, by kind
    Encrypted,                  \* the sends with securityMode boxplotE2eeV1
    Want,                       \* Want[k]: the flag a keyword mutation asks for
    Runner, Worker,             \* executors: MutationRunner runs, JMAP Outbox runs
    Refresher,                  \* refreshAccount calls made by the application
    None,                       \* "no mutation": the job of a plain refresh
    MaxAttempts                 \* bound on attemptCount

Mutation == Send \cup Keyword \cup Membership
Once == Send \cup Membership    \* effects that must not be repeated
Executor == Runner \cup Worker
Actor == Executor \cup Refresher

Flag == {"on", "off", "absent"} \* one keyword of one Email; absent: no such Email

ASSUME KindsDisjoint == /\ Send \cap Keyword = {}
                        /\ Send \cap Membership = {}
                        /\ Keyword \cap Membership = {}
                        /\ None \notin Mutation
ASSUME EncryptedAssumption == Encrypted \subseteq Send
ASSUME WantAssumption == Want \in [Keyword -> {"on", "off"}]
ASSUME ActorsDisjoint == /\ Runner \cap Worker = {}
                         /\ Executor \cap Refresher = {}
ASSUME BoundAssumption == MaxAttempts \in Nat

VARIABLES
    row,        \* [Mutation -> Row]: the durable queue
    pc,         \* [Actor -> PC]: the await each actor is suspended at
    job,        \* [Actor -> Mutation \cup {None}]: the mutation it works on
    exp,        \* [Actor -> Row]: the snapshot its next CAS expects
    wire,       \* requests that the server has not processed
    effect,     \* [Mutation -> Nat]: how often the server applied it
    connected,  \* the account has a current remote capability
    server,     \* the flag on the server
    local,      \* the flag in the local projection
    cursor,     \* the Email sync cursor: the content last committed
    fetch,      \* [Actor -> Fetch]: the refresh an actor has under way
    seen        \* history: the keyword mutations k such that the server had
                \* Want[k], or no such Email, at some moment since k was staged

mailVars == <<server, local, cursor, seen>>
vars == <<row, pc, job, exp, wire, effect, connected, server, local, cursor,
          fetch, seen>>

PC == {"idle", "claim", "call", "await", "accepted", "cancelled", "confirm",
       "retry", "terminal", "remove", "findSend", "findMembership",
       "refresh", "fetch", "commit", "evidence"}

Request == [m : Mutation, n : Nat, by : Executor]

Fetch == [tries : 0..2, base : Flag, snap : Flag]

NoFetch == [tries |-> 0, base |-> "absent", snap |-> "absent"]

(***************************************************************************)
(* Bookkeeping shared by the actions.                                       *)
(***************************************************************************)
Goto(e, where) == pc' = [pc EXCEPT ![e] = where]

\* The call returns or throws: its locals are gone.
Return(e) == /\ Goto(e, "idle")
             /\ job' = [job EXCEPT ![e] = None]
             /\ exp' = [exp EXCEPT ![e] = Absent]
             /\ fetch' = [fetch EXCEPT ![e] = NoFetch]

Begin(e, m, where) == /\ pc[e] = "idle"
                      /\ Goto(e, where)
                      /\ job' = [job EXCEPT ![e] = m]
                      /\ exp' = [exp EXCEPT ![e] = row[m]]

RequestOf(e) == [m |-> job[e], n |-> exp[e].attempt, by |-> e]

\* Mutant of IsCurrent: the row is not compared with the snapshot.
IsCurrentStale(e, next) == ValidTransition(exp[e], next)

\* replace_pending_mutation_if_current: a full-snapshot compare-and-swap.
IsCurrent(e, next) == row[job[e]] = exp[e] /\ ValidTransition(exp[e], next)

ReplaceIfCurrent(e, next) == /\ IsCurrent(e, next)
                             /\ row' = [row EXCEPT ![job[e]] = next]

Conflict(e, next) == ~IsCurrent(e, next) /\ Return(e) /\ UNCHANGED row

Init ==
    /\ row = [m \in Mutation |-> Absent]
    /\ pc = [e \in Actor |-> "idle"]
    /\ job = [e \in Actor |-> None]
    /\ exp = [e \in Actor |-> Absent]
    /\ wire = {}
    /\ effect = [m \in Mutation |-> 0]
    /\ connected = FALSE
    /\ server \in {"on", "off"}
    /\ local = server
    /\ cursor = server
    /\ fetch = [e \in Actor |-> NoFetch]
    /\ seen = {}

(***************************************************************************)
(* Staging: one transaction inserts the mutation and, for a keyword, writes *)
(* the optimistic projection.  (The membership projection is not modelled:  *)
(* no executor reads it.)                                                   *)
(***************************************************************************)
Insert(m) == /\ row[m] = Absent
             /\ row' = [row EXCEPT ![m] = PendingLifecycle]
             /\ UNCHANGED <<pc, job, exp, wire, effect, connected, server,
                            cursor, fetch>>

\* The server's flag is what k asks for, or there is no Email left to flag.
Satisfies(k, value) == value \in {Want[k], "absent"}

StageSend(m) == m \in Send /\ Insert(m) /\ UNCHANGED <<local, seen>>

StageMembership(m) == m \in Membership /\ Insert(m) /\ UNCHANGED <<local, seen>>

StageKeyword(k) == /\ k \in Keyword
                   /\ local # "absent"
                   /\ Insert(k)
                   /\ local' = Want[k]
                   /\ seen' = seen \cup {j \in {k} : Satisfies(j, server)}

(***************************************************************************)
(* runMutation: read the committed row and branch on its status.  The       *)
(* outcomes that change nothing (notFound, terminal, notDue, notConnected)  *)
(* are stuttering steps; whether a retrying mutation is due is the wall     *)
(* clock's choice.                                                          *)
(***************************************************************************)
Startable(m) == /\ row[m].status \in {"pending", "retrying"}
                /\ row[m].attempt < MaxAttempts

RunClaim(e, m) == /\ e \in Runner
                  /\ Startable(m)
                  /\ connected
                  /\ Begin(e, m, "claim")
                  /\ UNCHANGED <<row, wire, effect, connected, mailVars, fetch>>

RunReconcile(e, m) ==
    /\ e \in Runner
    /\ row[m].status = "inFlight"
    /\ \/ m \in Send /\ Begin(e, m, "findSend")
       \/ m \in Membership /\ Begin(e, m, "findMembership")
       \/ m \in Keyword /\ connected /\ Begin(e, m, "refresh")
    /\ UNCHANGED <<row, wire, effect, connected, mailVars, fetch>>

RunCleanup(e, m) == /\ e \in Runner
                    /\ row[m].status = "confirmed"
                    /\ Begin(e, m, "remove")
                    /\ UNCHANGED <<row, wire, effect, connected, mailVars, fetch>>

\* Outbox.processSendMutation: sends only, no reconciliation of inFlight rows.
WorkerClaim(e, m) == /\ e \in Worker
                     /\ m \in Send
                     /\ Startable(m)
                     /\ Begin(e, m, "claim")
                     /\ UNCHANGED <<row, wire, effect, connected, mailVars, fetch>>

\* What follows a won claim.  prepareSend may have failed for an encrypted
\* intent; the Worker's plaintext converter throws on one, outside any handler.
AfterClaim(e) ==
    CASE job[e] \notin Encrypted -> {"call"}
      [] job[e] \in Encrypted /\ e \in Runner -> {"call", "retry", "terminal"}
      [] OTHER -> {"idle"}

Claim(e) ==
    LET next == StartMutationAttempt(exp[e]) IN
    /\ pc[e] = "claim"
    /\ \/ /\ ReplaceIfCurrent(e, next)
          /\ \/ /\ "idle" \in AfterClaim(e)
                /\ Return(e)
             \/ \E where \in AfterClaim(e) \ {"idle"} :
                    /\ Goto(e, where)
                    /\ exp' = [exp EXCEPT ![e] = next]
                    /\ UNCHANGED <<job, fetch>>
       \/ Conflict(e, next)
    /\ UNCHANGED <<wire, effect, connected, mailVars>>

(***************************************************************************)
(* executeSend, executeKeyword, executeMembership: issue the one request of *)
(* this attempt through the account's capability, and settle by the answer. *)
(***************************************************************************)
Call(e) ==
    /\ pc[e] = "call"
    /\ \/ /\ e \in Worker \/ connected
          /\ wire' = wire \cup {RequestOf(e)}
          /\ Goto(e, "await")
       \/ /\ e \in Runner /\ ~connected      \* notConnected: nothing was sent
          /\ Goto(e, "retry")
          /\ UNCHANGED wire
    /\ UNCHANGED <<row, job, exp, effect, connected, mailVars, fetch>>

\* The capability is replaced while runners await: their answers are discarded
\* (assertMutationCurrent throws "cancelled").
CancelAwaiting == [e \in Actor |-> IF e \in Runner /\ pc[e] \in {"await", "accepted"}
                                   THEN "cancelled" ELSE pc[e]]

\* A send answered without a remote id is left inFlight for reconciliation.
ReplyAccepted(e) ==
    /\ pc[e] = "accepted"
    /\ \/ Goto(e, "confirm") /\ UNCHANGED <<job, exp, fetch>>
       \/ job[e] \in Send /\ Return(e)
    /\ UNCHANGED <<row, wire, effect, connected, mailVars>>

\* The failure is known not to have been applied: retry or give up.  The error
\* may also expire the session, which invalidates the capability.
ReplyKnownFailure(e) ==
    /\ pc[e] = "await"
    /\ wire' = wire \ {RequestOf(e)}
    /\ \E where \in {"retry", "terminal"} :
           \/ Goto(e, where) /\ UNCHANGED connected
           \/ /\ e \in Runner
              /\ connected' = FALSE
              /\ pc' = [CancelAwaiting EXCEPT ![e] = where]
    /\ UNCHANGED <<row, job, exp, effect, mailVars, fetch>>

\* Mutants of ReplyUnknown: an ambiguous answer is settled like a known failure.
ReplyUnknownTerminal(e) ==
    /\ pc[e] \in {"await", "accepted", "cancelled"}
    /\ Goto(e, "terminal")
    /\ UNCHANGED <<row, job, exp, fetch, wire, effect, connected, mailVars>>

ReplyUnknownRetry(e) ==
    /\ pc[e] \in {"await", "accepted", "cancelled"}
    /\ Goto(e, "retry")
    /\ UNCHANGED <<row, job, exp, fetch, wire, effect, connected, mailVars>>

\* Timeout, lost connection, unknown outcome or cancelled: the row stays inFlight.
ReplyUnknown(e) ==
    /\ pc[e] \in {"await", "accepted", "cancelled"}
    /\ Return(e)
    /\ UNCHANGED <<row, wire, effect, connected, mailVars>>

(***************************************************************************)
(* Settlement: confirmAndRemove, settleRetry, settleTerminal.               *)
(***************************************************************************)
SettleConfirm(e) ==
    LET next == ConfirmMutation(exp[e]) IN
    /\ pc[e] = "confirm"
    /\ \/ ReplaceIfCurrent(e, next) /\ Goto(e, "remove") /\ UNCHANGED <<job, exp, fetch>>
       \/ Conflict(e, next)
    /\ UNCHANGED <<wire, effect, connected, mailVars>>

SettleRetry(e) ==
    LET next == ScheduleMutationRetry(exp[e]) IN
    /\ pc[e] = "retry"
    /\ \/ ReplaceIfCurrent(e, next) /\ Return(e)
       \/ Conflict(e, next)
    /\ UNCHANGED <<wire, effect, connected, mailVars>>

SettleTerminal(e) ==
    LET next == FailMutationTerminal(exp[e]) IN
    /\ pc[e] = "terminal"
    /\ \/ ReplaceIfCurrent(e, next) /\ Return(e)
       \/ Conflict(e, next)
    /\ UNCHANGED <<wire, effect, connected, mailVars>>

\* removeConfirmedMutation: conflict (already gone) is not an error.
RemoveConfirmed(e) ==
    /\ pc[e] = "remove"
    /\ row' = IF row[job[e]].status = "confirmed"
              THEN [row EXCEPT ![job[e]] = RemoveMutation(@)] ELSE row
    /\ Return(e)
    /\ UNCHANGED <<wire, effect, connected, mailVars>>

(***************************************************************************)
(* Reconciliation of an inFlight row: evidence confirms, nothing else       *)
(* settles.  A send is found by its Message-ID: exactly one copy counts.    *)
(* Membership evidence is the reconciler port's contract (the IMAP adapter  *)
(* always answers inconclusive).                                            *)
(***************************************************************************)
\* Mutant of Found: any answer of the reconciler counts as evidence.
FoundAnyAnswer(e) == pc[e] \in {"findSend", "findMembership"}

Found(e) == \/ pc[e] = "findSend" /\ effect[job[e]] = 1
            \/ pc[e] = "findMembership" /\ effect[job[e]] >= 1

Reconcile(e) ==
    /\ pc[e] \in {"findSend", "findMembership"}
    /\ \/ connected /\ Found(e) /\ Goto(e, "confirm") /\ UNCHANGED <<job, exp, fetch>>
       \/ Return(e)              \* inconclusive, not visible yet, or failed
    /\ UNCHANGED <<row, wire, effect, connected, mailVars>>

(***************************************************************************)
(* refreshAccount, for the Email collection of an IMAP account: read the    *)
(* cursor, fetch the complete snapshot, commit it if the cursor is still    *)
(* the one read; one more try on conflict.  The cursor is the content of    *)
(* the snapshot (imap-remote-mail.ts, state()).  A keyword mutation is then *)
(* settled by what the local Email shows.                                   *)
(***************************************************************************)
StartRefresh(e) == /\ e \in Refresher
                   /\ pc[e] = "idle"
                   /\ connected
                   /\ Goto(e, "refresh")
                   /\ UNCHANGED <<row, job, exp, wire, effect, connected, mailVars, fetch>>

\* Mutant of RefreshReadCursor: the attempt is not counted.
RefreshReadCursorUncounted(e) ==
    /\ pc[e] = "refresh"
    /\ Goto(e, "fetch")
    /\ fetch' = [fetch EXCEPT ![e].base = cursor]
    /\ UNCHANGED <<row, job, exp, wire, effect, connected, mailVars>>

RefreshReadCursor(e) ==
    /\ pc[e] = "refresh"
    /\ Goto(e, "fetch")
    /\ fetch' = [fetch EXCEPT ![e].tries = @ + 1, ![e].base = cursor]
    /\ UNCHANGED <<row, job, exp, wire, effect, connected, mailVars>>

RefreshFetch(e) ==
    /\ pc[e] = "fetch"
    /\ \/ /\ connected
          /\ fetch' = [fetch EXCEPT ![e].snap = server]
          /\ Goto(e, "commit")
          /\ UNCHANGED <<job, exp>>
       \/ ~connected /\ Return(e)
    /\ UNCHANGED <<row, wire, effect, connected, mailVars>>

RefreshCommit(e) ==
    /\ pc[e] = "commit"
    /\ \/ /\ cursor = fetch[e].base
          /\ cursor' = fetch[e].snap
          /\ local' = fetch[e].snap
          /\ \/ job[e] # None /\ Goto(e, "evidence") /\ UNCHANGED <<job, exp, fetch>>
             \/ job[e] = None /\ Return(e)
       \/ /\ cursor # fetch[e].base
          /\ \/ fetch[e].tries < 2 /\ Goto(e, "refresh") /\ UNCHANGED <<job, exp, fetch>>
             \/ fetch[e].tries = 2 /\ Return(e)
          /\ UNCHANGED <<cursor, local>>
    /\ UNCHANGED <<row, wire, effect, connected, server, seen>>

Evidence(e) ==
    /\ pc[e] = "evidence"
    /\ Goto(e, CASE local = "absent" -> "terminal"
                 [] local = Want[job[e]] -> "confirm"
                 [] OTHER -> "retry")
    /\ UNCHANGED <<row, job, exp, wire, effect, connected, mailVars, fetch>>

\* Persistence answers with an error other than conflict: the run throws.
StorageFails(e) ==
    /\ pc[e] \in {"claim", "confirm", "retry", "terminal", "remove", "refresh",
                  "commit", "evidence"}
    /\ Return(e)
    /\ UNCHANGED <<row, wire, effect, connected, mailVars>>

(***************************************************************************)
(* The environment: the server and other clients (external), the session,   *)
(* and the process.                                                         *)
(***************************************************************************)
Applied(m) == IF m \in Keyword /\ server # "absent" THEN Want[m] ELSE server

NoteServer(value) ==
    seen' = seen \cup {k \in Keyword : row[k] # Absent /\ Satisfies(k, value)}

ServerApply(r) ==
    /\ r \in wire
    /\ wire' = wire \ {r}
    /\ effect' = [effect EXCEPT ![r.m] = IF r.m \in Once THEN @ + 1 ELSE 1]
    /\ server' = Applied(r.m)
    /\ NoteServer(server')
    /\ pc' = [pc EXCEPT ![r.by] =
                 IF @ = "await" /\ RequestOf(r.by) = r THEN "accepted" ELSE @]
    /\ UNCHANGED <<row, job, exp, connected, local, cursor, fetch>>

ServerLose(r) == /\ r \in wire
                 /\ wire' = wire \ {r}
                 /\ UNCHANGED <<row, pc, job, exp, effect, connected, mailVars, fetch>>

\* Another client changes the flag or deletes the message.
ExternalChange(value) ==
    /\ Keyword # {}
    /\ server # "absent" /\ value # server
    /\ server' = value
    /\ NoteServer(value)
    /\ UNCHANGED <<row, pc, job, exp, wire, effect, connected, local, cursor, fetch>>

Connect == /\ ~connected
           /\ connected' = TRUE
           /\ UNCHANGED <<row, pc, job, exp, wire, effect, mailVars, fetch>>

\* Disconnect or expiry.  A refresh under way may still commit, but its caller
\* gets "cancelled" and draws no conclusion from it.
Disconnect ==
    /\ connected
    /\ connected' = FALSE
    /\ pc' = CancelAwaiting
    /\ job' = [e \in Actor |-> IF pc[e] \in {"refresh", "fetch", "commit"}
                               THEN None ELSE job[e]]
    /\ UNCHANGED <<row, exp, wire, effect, mailVars, fetch>>

\* The application stops and starts again: only the database, the wire and the
\* server keep their state.
Crash ==
    /\ pc' = [e \in Actor |-> "idle"]
    /\ job' = [e \in Actor |-> None]
    /\ exp' = [e \in Actor |-> Absent]
    /\ fetch' = [e \in Actor |-> NoFetch]
    /\ connected' = FALSE
    /\ UNCHANGED <<row, wire, effect, mailVars>>

Step(e) == \/ Claim(e) \/ Call(e)
           \/ ReplyAccepted(e) \/ ReplyKnownFailure(e) \/ ReplyUnknown(e)
           \/ SettleConfirm(e) \/ SettleRetry(e) \/ SettleTerminal(e)
           \/ RemoveConfirmed(e) \/ Reconcile(e)
           \/ RefreshReadCursor(e) \/ RefreshFetch(e) \/ RefreshCommit(e)
           \/ Evidence(e) \/ StorageFails(e)

Next == \/ \E m \in Mutation : StageSend(m) \/ StageMembership(m) \/ StageKeyword(m)
        \/ \E e \in Executor, m \in Mutation :
               RunClaim(e, m) \/ RunReconcile(e, m) \/ RunCleanup(e, m) \/ WorkerClaim(e, m)
        \/ \E e \in Refresher : StartRefresh(e)
        \/ \E e \in Actor : Step(e)
        \/ \E r \in wire : ServerApply(r) \/ ServerLose(r)
        \/ \E value \in Flag : ExternalChange(value)
        \/ Connect \/ Disconnect \/ Crash

Spec == Init /\ [][Next]_vars

\* Every await of a run resolves: persistence answers, sockets and IPC calls
\* time out.  Nothing is assumed about starting runs: no code reschedules them.
FairSpec == Spec /\ \A e \in Actor : WF_vars(Step(e))

(***************************************************************************)
(* Properties.                                                              *)
(***************************************************************************)
\* Every variable keeps its type; in particular a refresh makes at most two
\* tries, the second conflict of syncCollection being final.
TypeOK ==
    /\ row \in [Mutation -> Row]
    /\ pc \in [Actor -> PC]
    /\ job \in [Actor -> Mutation \cup {None}]
    /\ exp \in [Actor -> Row]
    /\ wire \subseteq Request
    /\ effect \in [Mutation -> Nat]
    /\ connected \in BOOLEAN
    /\ server \in Flag /\ local \in Flag /\ cursor \in Flag
    /\ fetch \in [Actor -> Fetch]
    /\ seen \subseteq Keyword

Reported(m) == row[m].status \in {"confirmed", "removed"}

\* A submission or a MOVE takes effect at most once, whatever executors race,
\* crash and retry ("an inFlight is never blindly replayed after a crash").
NoReplay == \A m \in Once : effect[m] <= 1

\* runMutation reports "confirmed" and deletes the row only for an effect that
\* happened.
ConfirmedMeansApplied == \A m \in Once : Reported(m) => effect[m] = 1

\* A mutation in failedTerminal was not applied and no request of it can still
\* reach the server, so the user may safely send it again.
TerminalMeansNotApplied ==
    \A m \in Once : row[m].status = "failedTerminal" =>
        effect[m] = 0 /\ \A r \in wire : r.m # m

\* A keyword mutation is confirmed by its reply or by reconcile() only if the
\* server really showed the requested flag (or lost the Email) after staging.
\* Does not hold (see the README).
KeywordConfirmedMeansApplied == \A k \in Keyword : Reported(k) => k \in seen

Phase(m) == CASE row[m].status = "unstaged" -> "unstaged"
              [] row[m].status = "failedTerminal" -> "failed"
              [] Reported(m) -> "done"
              [] row[m].status \in {"pending", "inFlight", "retrying"} ->
                     IF effect[m] = 0 THEN "open" ELSE "delivered"

Contract == INSTANCE DeliveryContract WITH phase <- [m \in Once |-> Phase(m)]

\* The executors, the table and the wire together implement DeliveryContract.
Delivery == Contract!Spec

\* A run that starts always returns: no executor waits for ever on a CAS
\* conflict, a lost answer or a contended refresh.
RunTerminates == \A e \in Actor : pc[e] # "idle" ~> pc[e] = "idle"

=============================================================================
