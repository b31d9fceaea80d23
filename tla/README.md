# Correo Boxplot: formal specifications

Correo Boxplot is a local-first desktop mail client: a Vue/TypeScript
application (`src/src`) inside Tauri, with a Rust engine (`src/src-tauri`) that
keeps an encrypted SQLite cache. The user reads and writes the local cache; what
the user does is staged there as a *pending mutation*, executed later against
the mail server (SMTP/IMAP natively, or JMAP in a Worker), and the server's
state flows back through account refreshes. This directory holds TLA+ models of
the parts of it whose correctness depends on the order in which things happen,
TLC configurations, and TLAPS proofs.

Paths below are relative to the repository. `PROJECT.json` maps every
definition to the lines it models, and lists the runs, the properties, the
hazards of the code and the findings.

## Inventory

| Component | State it keeps | Operations | Where it is hard |
|---|---|---|---|
| Mutation queue (`domain/pending-mutation.ts`, `persistence/engine.rs`) | one row per mutation: status, attempt count, payload | stage, compare-and-swap of the full snapshot, remove when confirmed | several executors on one row; a crash between any two writes |
| MutationRunner (`outbox/mutation-runner.ts`) | nothing but its stack | claim, prepare, one remote call, settle, reconcile | ambiguous answers; evidence that is stale when it is used |
| Legacy JMAP outbox (`sync/outbox.ts`) | same | same without reconciliation | a throw after the claim |
| SMTP dialogue (`net/smtp.rs`, `net/errors.rs`) | one connection | commands, replies, classification of each failure | the connection breaks after the payload; unreadable replies |
| Cache bootstrap and reset (`bootstrap/*.rs`, `ipc/state.rs`, `db/mod.rs`) | database file, sidecars, credential, two markers, process lock | start, create, recover, reset | crash between durable steps; two processes; credential store unreachable |
| Remote application (`app/remote/remote-application.ts`, `remote-runtime-composition.ts`, `remote-body-source.ts`) | per account: session, generation, pending connect, status, capability | connect with binding, disconnect, refresh, dispose, use of the capability | late continuations of every await |
| Sync coordinator (`sync/coordinator.ts`, `remote/imap`, `remote/jmap`) | cursor per collection | read cursor, fetch, commit under a cursor precondition, one retry | contending refreshes; pages and fetches that are not one snapshot |
| Persistence engine projections (`persistence/engine.rs`, `adapters/memory`) | Emails, mailboxes, memberships, views, bodies | optimistic writes, delta and replace commits, cascades, hints | a commit over an optimistic write; a change nobody is told of |
| Codecs and local ports (`adapters/tauri`, `ipc`, `domain`) | one call per caller | encode, invoke, decode | an answer lost after the commit; a value that does not survive the way there and back |
| Body materialization (`sync/body-materializer.ts`) | single-flight table | fetch, decrypt, cache | the Email or the session goes away meanwhile |
| JMAP adapter (`jmap`, `remote/jmap`) | nothing | submit, patch, discover, classify every failure | which failures leave the outcome open |
| JMAP Worker session (`workers/jmap-worker.ts`, `app/worker-client.ts`, `jmap/auth/token-manager.ts`) | session, token, pending requests | init, sync, send, expiry, timeouts | a timeout races a late answer |
| Mail controller, reading (`app/application.ts`, `app/stores`) | what the UI shows, generation counters | select, read, invalidate, materialize | reads that return out of order |
| Mail controller, commands (`app/application.ts`, `app/services`, forms) | form, attempt, composer, runs, statuses | connect, refresh, send, change, retry | the user acts under every await |
| Native IMAP (`net/imap.rs`, `net/runtime.rs`) | TCP sessions by id | snapshot, STORE, MOVE or COPY+EXPUNGE | a multi-command change that stops half way |
| E2EE, OAuth, parsers, sanitizer, rendering | — | data conversions, browser redirection | not ordering problems |

Interactions: the UI calls the mail controller, which stages mutations through
persistence and starts one run per staged mutation or user retry; **nothing
else starts runs**, there is no scheduler. A run uses the account's capability,
which the remote application publishes after connect and invalidates on
disconnect, expiry and dispose. A keyword reconciliation calls back into
`refreshAccount`, which runs the sync coordinator. All of them share one
database, whose calls are single transactions.

## Modules

| Module | Models | Used by |
|---|---|---|
| `MutationLifecycle` | lifecycle of one mutation as the domain computes it and the engine admits it | `MutationOutbox` |
| `DeliveryContract` | abstract: what the outbox promises for an effect that must not be repeated | refined by `MutationOutbox` |
| `MutationOutbox` | queue, both executors, wire, server, refresh of the Email collection, session, crash | `MCMutationOutbox`, `MutationOutboxProofs` |
| `MutationOutboxProofs` | TLAPS proofs for any sets of mutations, executors and refreshes | — |
| `SmtpSubmission` | the SMTP dialogue over several attempts | `NativeProofs` |
| `CacheBootstrap` | startup matrix, creation, recovery, authorized reset | `MCCacheBootstrap`, `NativeProofs` |
| `RemoteLifecycle` | connect, disconnect, refresh, dispose and the capability of one account | `MCRemoteLifecycle`, `RemoteProofs` |
| `CollectionSync` | `syncAccount` over JMAP: cursors, deltas, snapshots, commits, views, and the body cache | `MCCollectionSync`, `CollectionSyncProofs` |
| `CollectionSyncProofs` | TLAPS proofs for any number of Emails, Mailboxes, syncs, pages and changes | — |
| `NativeProofs` | TLAPS proofs about `SmtpSubmission` (any recipients and attempts) and `CacheBootstrap` (any processes and keys) | — |
| `RemoteProofs` | TLAPS proofs about `RemoteLifecycle` (any connects, refreshes and users) and `JmapWrites` (any attempts and values) | — |
| `WorkerSessionProofs` | TLAPS proofs for any number of requests and any lag | — |
| `MailCommandsProofs` | TLAPS proofs for any accounts, commands, drafts and actions of the user | — |
| `MailViewProofs` | TLAPS proofs about `DomainCodecs`, `LocalStore` and `LocalEngine` (any store, callers and requests), and about `MailView` (any clicks, commits and failures) | `MailFreshProofs` |
| `MailFreshProofs` | TLAPS proof that a quiet `MailView` shows what the store holds | — |
| `JmapErrors` | operators: what one HTTP exchange throws and the `RemoteError` it becomes | `JmapWrites`, `WorkerSession` |
| `JmapWrites` | one submission or patch over JMAP, its server, and how the outbox settles it | `MCJmapWrites`, `RemoteProofs` |
| `WorkerSession` | main thread, Worker, the two message queues, token and session | `WorkerSessionProofs` |
| `DomainCodecs` | operators: domain constructors and IPC codecs | `LocalStore` |
| `LocalStore` | operators: the store, its reads, writes and hints | `LocalEngine`, `MailView` |
| `LocalEngine` | several callers of the store through the codecs, with lost answers | `MCLocalEngine`, `MailViewProofs` |
| `MailView` | the controller's reads over a changing store | `MCMailView`, `MailViewProofs`, `MailFreshProofs` |
| `MailCommands` | the controller's commands, the forms and the statuses of mutations | `MCMailCommands`, `MailCommandsProofs` |

How they correspond to the code: every `await` (TypeScript) and every durable
write (Rust) ends an action; what runs between two of them is one action. A
persistence call is atomic, because it is one SQLite transaction. An actor's
`pc` names the await it is suspended at, and the other per-actor variables are
the locals that survive it.

The modules that share a part of the system meet there by its results.
`MutationOutbox` assumes that an error which *claims* `knownNotApplied` is right;
`SmtpSubmission` and `JmapWrites` model the code that makes the claim and check it. `connected`
in `MutationOutbox` is the capability of `RemoteLifecycle`. The refresh that a
keyword reconciliation asks for is a small copy of the commit under a cursor
precondition there; `CollectionSync` models the whole of it, and its
`RefreshIsFresh` is the ground on which the reconciliation reads the projection.

`CollectionSync` leaves Identities out: they take the same code path as Mailboxes
(one request, a replacement, their own cursor). Its server is external. A
collection's state is the number of its changes; `Email/changes` answers, page by
page in the order of the last change, the ids changed since the given state, and
may leave out an Email that was created and destroyed since (RFC 8620, 5.2).

`LocalStore` is the store as `adapters/memory`, the executable reference of the
ports, implements it: a store is a record, and each write an operator from a store
and an argument to the new store, the hints it publishes and whether it succeeded.
`DomainCodecs` lets a constructor or a decoder that throws return the empty set, and
names the sets of values that the constructors return (`SendMutations`, `Coverings`,
...): a loop over the items of a view, or over the blind recipients of a message, is
stated by the trace it leaves, not by recursion. `LocalEngine` has one action per step
of a call (sent, executed, answered or lost); its history variable `issued` holds the
mutation ids that were handed out, since `nextMutationId` gives none out twice.
`MailView` commits to the same store from outside.

`MailView` keeps an async call of the controller as a task: the read it awaits
and the functions that await it. A read may be answered long before the code goes
on. It assumes of the event loop what the language says: the microtasks of one
macrotask run before the next answer, hint or click. A generation counter is the
flag `fresh` of the task that incremented it last. `MailCommands` keeps the reads
of accounts and statuses only as started, superseded and answered, and the remote
application and the runner by their results (`RemoteLifecycle`, `MutationOutbox`).
An attempt that is joined by a second caller does not occur: the form's button is
disabled while one is active.

`WorkerSession` lets all sends be for one mutation, so that a repeated request
would show as a second delivery; a sync is a single await.

Operators whose comment begins with "Mutant" are wrong variants of the
definition below them. They are not part of any specification: each one is a
plausible mistake, and the property named for it in `PROJECT.json` fails when the
variant takes the place of the original.

## Runs

| Run | Checks | Bounds | What it shows |
|---|---|---|---|
| `outbox_once` | `NoReplay`, `ConfirmedMeansApplied`, `TerminalMeansNotApplied`, `Delivery` | an encrypted send and a MOVE, two native runs and a Worker run, two attempts | no replay and truthful reports under races between both executors, crashes, disconnects and late applications; refinement of the contract |
| `outbox_progress` | `RunTerminates` | one keyword, one run, one contending refresh, two attempts | a started run returns |
| `smtp_dialogue` | `DeliveredAtMostOnce`, `KnownMeansNotApplied` | three attempts, unreadable replies anywhere | nothing is sent twice, what is repeated was not applied, and a known failure is true unless the reply to the payload was unreadable |
| `bootstrap_crash` | `NeverLockedOut`, `CreateMarkerMeansNeverReady`, `DataLostOnlyByReset` | two processes, three keys, reset from Ready | user data survives crashes, races and credential loss |
| `remote_sessions` | `StatusMatchesSession`, `NoLeakedSession`, `ServesBoundAccount`, `CapabilityIsActiveSession`, `DisposeClosesAll` | three connects to servers with different accounts, one refresh, one user of the capability, fairness | the status is true, nothing leaks, session and capability serve the bound account, a capability that is accepted is of the registered session or of one that expired, and dispose closes also what was still opening |
| `sync_overlap` | `NoLostChange`, `RefreshIsFresh`, `CachesOwned`, `CursorNeverRegresses`, `BodiesOutliveRefresh` | two syncs, two Emails, one Mailbox, one body fetch, two changes of Emails and one of Mailboxes, batches of one, two delta pages | overlapping syncs lose no change but a delivery or move that a snapshot missed, are fresh, never move a cursor back, caches live and die with their owner, and a body is dropped only for what happened to its Email at the server |
| `jmap_classification` | `SubmittedAtMostOnce`, `FailedMeansNotSubmitted`, `ConfirmedMeansDone` | one send or one patch of a property with two values, three attempts | of all the ways an exchange breaks, only those that changed nothing are retried, and reports are true |
| `worker_sessions` | `LoggedOutStaysOut`, `SessionHoldsItsToken`, `StatusIsTrue`, `SendsOnce`, `LateFailuresAreHarmless`, `Answered` | three requests of any kind, the main thread at most four messages behind, fairness | no session comes back, the status shown is true, a repeated send is submitted once, every request ends except a login superseded while it opened |
| `local_engine` | `ReadBack`, `OneStarterPerAttempt`, `ViewsAreExact`, `HintsCoverChanges` | two callers, two writes out of every kind (valid and invalid) and two reads, lost answers | the codecs lose nothing, an attempt has one starter, a stored view is exact, every change is announced |
| `mail_view` | `ShownIsSelected`, `QuietMeansSettled`, `QuietMeansFresh` | two accounts, three Mailboxes, two Emails; one click, one commit and two failures on top of the start of the application | what is shown belongs to the selection; once nothing is under way it is settled and up to date |
| `mail_commands` | `CredentialsOwned`, `BusyMeansWorking`, `StatusIsSelected`, `ConfirmedStaysConfirmed` | up to two accounts, two commands; eight actions on accounts, five in the composer, three on mail, or a mixture | no orphaned credential but one that could not be forgotten, no spinner without work, the selected account's status, a confirmation is final |
| `composer_race` | `SentAsComposed` | the same | **violated**, see the findings |

Why the bounds are enough: a race on a row needs two executors and a replay
needs two attempts; the third and later attempts repeat the states of the
second, since the code only compares attempt counts for equality. Two processes
are the least that contend for the lock, and three keys allow creation, reset
and reset again. Three connects allow one session that ends, one that is
cancelled while it opens and one that succeeds. Two syncs are the least that
conflict on a cursor; two Emails with batches of one give a read in several
parts, and two changes a delta in several pages, an Email that appears and goes,
and one that changes while it is read. The theorems below do not depend on these
bounds. Three requests to the Worker allow a session, something that uses it and a
login or logout that ends it, or a send asked for again. Two writes and two reads
by two callers give two readers of one row who both try to replace it, and a retry
after a lost answer. In `mail_view` the start of the application alone has five
overlapping reads; a click, a commit and two failures may hit any of them, and a body
that failed to materialize can be asked for again and fail again. The scenes
of `mail_commands` bound how often the user acts: a reconnection that fails, is
tried again and is then overtaken takes up to eight actions on accounts; a draft that
is closed and replaced during its send, five in the composer.

`CHECK_DEADLOCK FALSE` stands where everything may end: `RemoteLifecycle`,
`WorkerSession`, `MailView` and `MailCommands` after `dispose` or when every allowed
action was used, `SmtpSubmission` and `JmapWrites` when the mutation is settled,
`LocalEngine` when its calls are used up.

Fairness: weak fairness on the steps of a run, a connect or a Worker request that
has already started, and on the two event loops of `WorkerSession`. The code
justifies it: a persistence call answers, sockets and IPC calls have timeouts, so
an await resolves, and messages between threads are delivered. No fairness is
assumed on starting runs, connecting, timeouts of the main thread, the server or
other clients. `RunTerminates`, `DisposeClosesAll` and `Answered` are the liveness
properties. `Answered` excepts an `INIT_SESSION` that was superseded while it
opened, which is when the Worker went on to a later generation (another login, a
logout, an expiry, a refusal of another session): the Worker never answers it, and
its caller learns by the timeout. A login that is refused, or whose own open fails,
has to be answered.

## Proofs

### The outbox

`MutationOutboxProofs` proves, for every choice of the constants that satisfies
the assumptions of `MutationOutbox` (the kinds of mutations are disjoint, the
kinds of actors are disjoint, encrypted mutations are sends, every keyword
mutation wants "on" or "off", the bound is a natural number):

* `TypeCorrect`: `Spec => []TypeOK`;
* `AtMostOnce`: `Spec => []NoReplay`;
* `HonestReports`: `Spec => []ConfirmedMeansApplied`;
* `TerminalFailuresAreTrue`: `Spec => []TerminalMeansNotApplied`;
* `ImplementsDelivery`: `Spec => Delivery`, the refinement of `DeliveryContract`.

None of these is inductive alone. That a second effect is impossible depends on
who may still send: the proof therefore carries, for each once-only mutation,
`OwnershipOK` (at most one run is between a won claim and its settlement, and a
row that may be claimed again has no effect and nothing on the wire), `WireOK`
(at most one request is on the wire, none once it took effect, and a run that is
about to settle as failed has none) and `ReportOK` (reported implies applied).
`TypeInv` adds to the types what each control state says about the run's locals
(`ControlOK`). Their conjunction `IInv` is inductive: `TypeStep` and `OnceStep` go
through the actions one by one, with `QuietStep` for those that leave a mutation
alone. The refinement follows from `IInv`: `DeliveryStep` shows that each action
changes at most one phase, and only along an edge of the contract.

### Synchronization

`CollectionSyncProofs` proves, for any sets of Emails, Mailboxes, syncs and body
fetches and any sizes and bounds (the assumptions say that `None` is none of the
other values and that sizes are positive):

* `TypeCorrect`: `Spec => []TypeOK`;
* `RefreshTheorem`: `Spec => []RefreshIsFresh`;
* `CachesTheorem`: `Spec => []CachesOwned`;
* `CursorTheorem`: `Spec => CursorNeverRegresses`;
* `BodiesTheorem`: `Spec => BodiesOutliveRefresh`;
* `NoLostChangeTheorem`: `Spec => []NoLostChange`.

`CachesTheorem`, `CursorTheorem` and the types rest on `Inv`: the history of the
server is in order (`ServerOK`), cursors name states the server had, and a sync's
locals are bounded by them: what it expects is not later than what it will commit,
which is not later than the server (`MailboxJobOK`, `EmailJobOK`). The other three
speak of the data, and need `Content` beside it. While a delta or a snapshot is being
collected, each Email that has not changed since its state is still to be read or
was read as the server has it (`Collected`); a delta knows every Email destroyed
since the expected cursor, except those created after it (`DeltaOK`); the
beginning of a snapshot has found every Email or has still to query a Mailbox it
is in (`SnapshotOK`); and what is projected was created before the cursor
(`LocalOK`), which is why `Email/changes` may omit short-lived Emails. A change on
the server preserves all this because it is later than every state a sync holds.
Commits preserve it because the cursor is still the expected one.

A snapshot has no state until its first `Email/get`, but its ids come from queries
before that, one per Mailbox (`jmap-remote-mail.ts:285`): an Email delivered or moved
to a Mailbox that was already queried is in neither the snapshot nor any later delta.
The properties name this exception instead of assuming it away. Three histories record
it: `begun`, the server's state when a snapshot was begun; `movedAt`, when an Email was
last delivered or moved; and `missed`, the Emails that the last snapshot committed did
not find although the server had them (`Missing`). `Collected` and `SnapshotOK` except
the Emails that moved after `begun`, and a commit hands them on to `missed`, where they
stay until their next change. An Email in `missed` may be absent, never out of date
(`Projected`). `BodiesOutliveRefresh` follows in the same way: a replacement deletes the
rows that its snapshot lacks, and a snapshot lacks only what the server has destroyed and
what moved while it was collected.

### SMTP

`NativeProofs` proves, for any number of recipients and attempts:

* `SentOnce`: `Spec => []DeliveredAtMostOnce`;
* `KnownFailuresAreTrue`: `Spec => []KnownMeansNotApplied`.

Replies may be unreadable anywhere. An unreadable reply to the payload (`smtp.rs:296`)
is classified as known and final whatever the server did, and the property says so:
`unreadable` records that it happened. For what is repeated there is no exception.

`OnceInv` says what makes a repetition safe: a row that may be sent again, or a
result with `safeBackoff`, means that the server neither has the message nor will
take it (`ResendOK`). Inside a dialogue this is known up to the final dot
(`BeforePayload`), and after it `taken` counts the deliveries (`AwaitOK`).

### The cache

`NativeProofs` also proves, for any number of processes and keys and a crash
between any two durable steps:

* `KeyIsKept`: `Spec => []NeverLockedOut`;
* `CreateMarkerIsHonest` and `OnlyResetLosesData`: if `ResetFrom \subseteq {"ready"}`,
  then `Spec => []CreateMarkerMeansNeverReady` and `Spec => DataLostOnlyByReset`.
  A reset from "unavailable" is the known counterexample; no production code asks for
  one.

`KeyInv` rests on the lock (`LockInv`: who works on the files holds it, so at most
one process does), on what is not on disk in which step (`VacantInv`), and on the key
in memory being that of the database and of the credential store from the moment it is
used (`CreatedInv`, `StoredInv`). `MarkerInv` adds what each marker says of the steps
taken under it.

### The remote application

`RemoteProofs` proves, for any sets of connects, refreshes and users,
whatever accounts the servers offer (finitely many each):

* `StatusIsHonest`, `SessionsAreClosed`, `BoundAccountIsServed`:
  `StatusMatchesSession`, `NoLeakedSession` and `ServesBoundAccount` are invariant;
* `BindingIsStable`: `Spec => NeverRebound`;
* `CapabilityIsOfActiveSession`: `Spec => []CapabilityIsActiveSession`: a capability
  whose answers are accepted is of the registered session, or of one that a refresh
  found expired, never of a session that was cancelled, refused or disconnected.

`SessionInv` excludes a session while a connect is pending (`PendingInv`), says what
each call still holds at its await (`CallInv`), and that only a server with one account
registers it (`RegisteringInv`). For the capability, `GenerationInv`: only a connect
whose session is registered, or has expired, can still hold the current generation.

### JMAP writes

`RemoteProofs` also proves, for any number of attempts and any values of the patched
property: `JmapSubmitsOnce` (`SubmittedAtMostOnce`), `JmapFailuresAreTrue`
(`FailedMeansNotSubmitted`) and `JmapConfirmationsAreTrue` (`ConfirmedMeansDone`).
The invariant `WriteInv` bounds submissions made and submissions under way together
(`sent + wire <= 1`), which is inductive because every state from which the outbox
starts again has neither (`Unsent`); and it says what an answer that arrives tells of
the server (`AnswerIsTrue`), before the error mapper reads it.

### The Worker

`WorkerSessionProofs` proves, for any `MaxRequests` and `MaxLag`:

* `LogoutIsFinal`, `SessionsHoldTheirToken`, `ShownStatusIsTrue`, `WorkerSendsOnce`:
  `LoggedOutStaysOut`, `SessionHoldsItsToken`, `StatusIsTrue` and `SendsOnce` are
  invariant;
* `OldSessionsDoNoHarm`: `Spec => LateFailuresAreHarmless`.

`StatusIsTrue` speaks of a main thread that has read its messages; `ToldInv` is its
inductive form: the last status in the queue, or what is shown when there is none,
agrees with the session. `ClientInv` ties session, client, token and generation
together. For sends, `LinkInv` says that the persistence call of a request is in one
place (posted, running or answered) and `OwnerInv` that at most one request owns the
claimed row, before whose submission nothing was delivered. The queues are unbounded
sequences here; the lemmas on `Append` and `Tail` say what is in them.

### The commands of the controller

`MailCommandsProofs` proves, for any finite set of accounts, any commands and drafts
and any number of actions of the user: `CredentialsAreOwned` (`CredentialsOwned`),
`SpinnersAreTrue` (`BusyMeansWorking`), `StatusIsOfSelection` (`StatusIsSelected`) and
`ConfirmationsLast` (`ConfirmedStaysConfirmed`). The assumptions say that keys are
positive numbers and that the accounts at the start have keys.

Commands on accounts and commands on mail change different variables
(`MailLeavesAccounts`, `AccountLeavesMail`), so each half has its own invariant.
Accounts: what is selected is durable and observed (`AccountInv`); a credential is an
account's, is being forgotten, is in the hands of an attempt, or could not be
forgotten (`CredentialInv`); an attempt is awaited by its form or the form went away
(`FormInv`). Mail: the composer
waits for a send that has not ended (`SendInv`); each run awaits one read of the
statuses at a time (`ReadsInv`); and no list that may still be stored was read before
a confirmation that was reported, or that is about to be (`GoneInv`), which is what the
counter in `refreshMutationStatuses` is for.

### The local store and its ports

`MailViewProofs` proves, for any initial store, any set of callers, any sets of
writes and reads they may ask for (valid or not) and any number of lost answers:

* `ReadBackHolds`: `EngineSpec => []ReadBack`, what was stored is read back as the
  very value stored, for every kind of mutation, lifecycle and view;
* `ViewsAreExactHolds`: `EngineSpec => []ViewsAreExact`;
* `HintsCoverChangesHolds`: `EngineSpec => HintsCoverChanges`, an action property;
* `OneStarterPerAttemptHolds`: `EngineSpec => []OneStarterPerAttempt`.

The assumptions: the initial store is consistent (`StoreAssumption`; the empty
database is), requests have the shape of the ports' arguments (`RequestsAssumption`),
a staged mutation has an id of its own (`UniqueIdsAssumption`, which is
`nextMutationId`), and the two literals a mutation holds are strings
(`LiteralsAssumption`: no prover here knows a literal to be in `STRING`).

The first three rest on `PortInv`: the store stays consistent (`IsStore`: every
view and every mutation stands under its own key and is a value its constructor
returns), a call carries what its encoder made (`GoodWrite`, `GoodRead`), and an answer
decodes. Its lemmas say, for each codec, that decoding what was encoded gives the value
back, and for each write of `LocalStore` that it keeps the store consistent
(`PerformKeepsStore`) and which reads it changes, of which a hint
covers each (`PerformCovers`). `OneStarterPerAttempt` needs a history: a row that was removed could be
staged anew, and its first attempt would have a second starter. `StartInv` says that
every mutation in the store or about to be staged has an id of its own, that a start,
whether acknowledged or with its answer still on the way, never counts more attempts
than the row, and that no two callers hold the same start. The proof needs the
compare-and-swap on the whole row.

### The reads of the controller

`MailViewProofs` and, for the last one, `MailFreshProofs` prove, over any such store, for
any clicks, commits from outside, failed reads and orders of answers:

* `ShownIsSelectedHolds`: `Spec => []ShownIsSelected`;
* `QuietMeansSettledHolds`: `Spec => []QuietMeansSettled`;
* `QuietMeansFreshHolds`: `Spec => []QuietMeansFresh`.

The assumptions: outside writes have the shape of the ports' arguments
(`WritesAssumption`), and `MailboxOrder` and `AccountOrder`, by which a first Mailbox
and a first account are chosen, know all Mailboxes and accounts there can be
(`MailboxOrderAssumption`, `AccountOrderAssumption`; the code sorts the rows
it has read, which places any of them).

`ViewInv` connects what the stores say with the calls that are suspended: what is shown
is of the selection (`Shown`); a list or a body that loads is awaited by a call that is
current (`WindowServed`, `BodyServed`); every attempt on a body has its task, and a
spinner has an attempt for the Email shown (`Attempted`); and a read is answered with
what its question allows (`GoodAnswer`), which is where `IsStore` is used. A handler is
a chain of updates of one state; `Running` is the invariant while one runs, when all this
holds of the other tasks only. The lemmas take it from one function of the controller to
the next until the task awaits again, returns to its caller or ends.

`QuietMeansFresh` says nothing of a state with a call under way, so `FreshInv` has to,
on top of `ViewInv`. Each part of the screen is what the store holds or has an excuse
(`Fresh`): a hint on its way, delivered or not, covers it (`Due`); it is being read
and nothing has superseded the read (`Reads`), or the call that reads it next stands in
the frames of a task (`Owed`); what is wider is read first (`Accounting`, `Widening`); a
failed read is recorded in `missed`; or an attempt on the body will look into the cache
(`Retried`). A read that was answered before it resumes is right (`Accurate`) or excused
in the same way. Before the store is subscribed to, the controller has read nothing
(`Untouched`), so a commit it does not hear of changes nothing that it shows. Like
`Running`, `Fresh` takes the set of the tasks it speaks of, all of them or those other than
the one that runs. The proof goes by actions: a handler pays for each excuse it uses up
with another (`ResumeIsFresh`, `FlushFresh` and the lemmas before them); a commit changes no
answer without a hint that covers it (`PerformSteps`, from `PerformCovers`), so what it
makes stale is excused (`StoreIsFresh`); and a read that was answered early is told the
truth of its moment (`EarlyAreTold`), which the hint of the commit then excuses.

### Only model-checked

* Liveness, which is out of the prover's reach, as is `ENABLED`: `RunTerminates`,
  `DisposeClosesAll` and `Answered`.

The type invariants of `MutationOutbox` and `CollectionSync`, and `NeverRebound` of
`RemoteLifecycle`, are proved and not part of a run; the types that the other proofs need are conjuncts of their invariants.

## Findings

`composer_race`: `executeSend` parses the recipients, awaits the identities, and
only then reads the security mode, the subject and the body from the composer. The
close button works meanwhile. A message addressed from one draft is then staged with
the content of a closed composer, mode "plain" and no text, or of the next draft,
which the final `reset()` wipes.

## Known counterexamples

These properties are stated in the modules and do not hold. None is part of a run;
add the property to the configuration named, with the constants given, to see the
counterexample.

| Property | Configuration | What happens |
|---|---|---|
| `KeywordConfirmedMeansApplied` (`MutationOutbox`) | `OutboxOnce.cfg` with `Keyword = {k1, k2}`, no sends or moves, a `Refresher`, `Runner = {r1}` | the reconciliation (`mutation-runner.ts:296`) reads the local projection after the refresh; a second mutation staged in between wrote its optimistic value there, and the first is confirmed although the server never had it (`PersonaC.md:140` asks for authoritative evidence) |
| `CreateMarkerMeansNeverReady` (`CacheBootstrap`) | `BootstrapCrash.cfg` with `ResetFrom = {"ready", "unavailable"}` | a reset after an interrupted creation (`reset.rs:103`) keeps the create marker, and the next start discards a database that was Ready; `authorized_reset` has no production caller yet |
| `ReadyMeansNoResetMarker` (`CacheBootstrap`) | `BootstrapCrash.cfg` with `LateMarkerFault = TRUE` | the directory sync of the reset marker fails, the marker exists and the engine stays Ready |
| `ConnectedMeansCapable` (`RemoteLifecycle`) | `RemoteSessions.cfg` with `Connect = {c1, c2}`, `Offers <- OffersSame`, `Expires = FALSE` | the cancelled refresh of an earlier session invalidates the generation a new connect recorded, so its capability is never published |
| `PatchIsADelta` (`JmapWrites`) | `JmapClassification.cfg` | patches replace the whole `keywords` or `mailboxIds` map, and with it what another client changed meanwhile (`domain.md:199` says unknown keywords are kept) |
| `FailedLoginEndsSession` (`WorkerSession`) | `WorkerSessions.cfg` | a login with an empty token is refused with the status "error" and leaves the previous session usable (`PersonaC.md:18` says a failed login ends it) |

The checked properties name their exceptions. Each is something the code does, and a
history variable or a state of the model says when it happened:

* `missed` in `CollectionSync`: a complete snapshot collects its ids by one query per
  Mailbox and takes the cursor's state from the `Email/get` that follows
  (`jmap-remote-mail.ts:285`). An Email delivered or moved to a Mailbox already queried
  is in neither the snapshot nor a later delta: it is absent, and its cached body is
  gone, until its next change.
* `unreadable` in `SmtpSubmission`: an unreadable reply to the payload (`smtp.rs:296`)
  is classified `knownNotApplied` although the message may have been accepted; ADR-009,
  line 56, promises `unknown` after DATA.
* sessions that are "expired" in `RemoteLifecycle`: the expired session is closed under
  an await before its capability is invalidated (`remote-application.ts:170`,
  `remote-runtime-composition.ts:91`); a reconnect that completes meanwhile makes the
  old capability current again.
* `stranded` in `MailCommands`: the credential store cannot be reached when a failed
  attempt forgets its credential (`oauth/store.rs:53-62`). The rejection is swallowed
  (`application.ts:568`, `587-589`), so the credential stays without an account.
* `untold` in `JmapWrites`: a patch does not look for a method error in its answer, and a
  submission takes any missing id for a failure, also after `serverPartialFail`.
* `EmptyToken` in `WorkerSession`: a login with an empty token leaves the previous session.
* `missed` in `MailView`: some failed reads are dropped silently, and stay in it until
  they are asked again.
* `form.orphaned` in `MailCommands`: the error screen unmounts the reconnect dialog
  while its attempt runs; the form then says "connecting" until a restart.

Seen while modelling and not stated as properties:

* `getEmailChanges` turns `cannotCalculateChanges` into a network error, so that the
  fallback to a snapshot in `jmap-remote-mail.ts` never happens for it; and a delta
  with more pages than the client reads throws on every sync. Either way the cursor is
  never advanced.
* A connection attempt whose reread of the accounts is superseded counts as failed
  and forgets the credential of an account that is connected; a failed
  re-authorization forgets the one that was there.
* `markNeedsReconciliation` is cleared only when the row disappears, so a mutation
  that goes back to "retrying" is still shown as being verified.
* After `dispose` a reread of the accounts in flight still stores them and subscribes
  to the remote status again.

## Not modelled, and the plan

In order of importance:

1. `ImapSession`: the IMAP snapshot and its Gmail truncation, STORE, MOVE and its
   COPY fallback, the session registry and the IPC error classification, composed
   with `MutationOutbox`.
2. An abstract specification of synchronization ("the projection is a state the
   server had") that `CollectionSync` refines, and one of the local store that
   `LocalEngine` refines.
3. The engine's SQL against `LocalStore`, its reference.

Left out for good: the E2EE transformations (the runner sees only their outcome,
which is chosen nondeterministically), OAuth itself (external services; its results
are part of `MailCommands`), MIME parsing and HTML sanitizing (pure conversions of
unbounded text), and what the Vue components draw.
