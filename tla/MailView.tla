------------------------------- MODULE MailView -------------------------------
(***************************************************************************)
(* The reading half of MailApplicationController: what the user sees       *)
(* (stores/mail.ts, stores/runtime.ts, the statuses of the mutations) is   *)
(* read from the local store in asynchronous calls that overlap with each  *)
(* other, with clicks and with commits.                                    *)
(*                                                                         *)
(* An async call of the controller is a task: the read it awaits and the   *)
(* frames of the functions that awaited it.  A read may be answered from   *)
(* the store long before it is resumed; between the return of an awaited   *)
(* function and the code after the await, other microtasks may run.        *)
(* A generation counter is kept as the flag `fresh` of the task that       *)
(* incremented it last.  A view is {} or {v}.  Remote status, refresh and  *)
(* the commands are not part of this module.                               *)
(***************************************************************************)
EXTENDS LocalStore

CONSTANTS Writes,         \* what others commit meanwhile, [op, arg]
          AccountOrder,   \* the accounts by key
          MailboxOrder,   \* the Mailboxes by role "inbox", sortOrder and name
          MaxClicks, MaxCommits, MaxFailures

ASSUME WritesAssumption == \A w \in Writes : IsWrite(w.op) /\ IsArgument(w.op, w.arg)

\* The order is total: it places every Mailbox that the store may come to hold.
ASSUME MailboxOrderAssumption ==
    /\ MailboxOrder \in Seq(ScopedIds)
    /\ InitialDb.mailboxes \subseteq ToSet(MailboxOrder)
    /\ \A w \in Writes :
          w.op = "applyCollectionSync" /\ w.arg.kind = "mailbox" => DOMAIN w.arg.changed \subseteq ToSet(MailboxOrder)

\* So does the order of the accounts.
ASSUME AccountOrderAssumption ==
    /\ AccountOrder \in Seq(STRING)
    /\ DOMAIN InitialDb.accounts \subseteq ToSet(AccountOrder)
    /\ \A w \in Writes : w.op = "registerAccount" => w.arg.key \in ToSet(AccountOrder)

VARIABLES wire,       \* hints published and not yet delivered
          listening,  \* a listener is registered with LocalChangeSource
          pending,    \* pendingHints of the controller
          app,        \* the stores and the suspended calls of the controller
          clicks, commits, failures

vars == <<db, wire, listening, pending, app, clicks, commits, failures>>

NoId == ScopedId(None, None)
OfAccount(a) == ScopedId(a, None)

First(order, S) == LET i == SelectInSeq(order, LAMBDA x : x \in S) IN order[i]

-----------------------------------------------------------------------------
(* The stores.  `missed` is history: the reads that failed, or were skipped *)
(* after a failure, and were not asked again since.                         *)

MailState ==
    [accounts |-> {}, account |-> None, mailbox |-> NoId, email |-> NoId, loadState |-> "idle",
     mailboxes |-> {}, view |-> {}, emails |-> Empty, body |-> NoId, bodyState |-> "idle",
     materializing |-> FALSE, bodyError |-> FALSE, statuses |-> Empty, local |-> "opening",
     subscribed |-> FALSE, disposed |-> FALSE, attempts |-> {}, tasks |-> Empty, missed |-> {}]

StoreSelectEmail(s, e) ==
    [s EXCEPT !.email = e, !.body = NoId, !.bodyState = IF e = NoId THEN "idle" ELSE "loading",
              !.materializing = FALSE, !.bodyError = FALSE]

StoreSelectMailbox(s, m) ==
    [StoreSelectEmail(s, NoId) EXCEPT !.mailbox = m, !.view = {}, !.emails = Empty, !.loadState = "idle"]

StoreSelectAccount(s, a) ==
    [StoreSelectMailbox(s, NoId) EXCEPT !.account = a, !.mailboxes = {}]

SetEmailBody(s, body, state) ==
    [s EXCEPT !.body = body, !.bodyState = state,
              !.materializing = @ /\ state # "cached", !.bodyError = @ /\ state = "error"]

SetWindow(s, view, emails, state) ==
    [s EXCEPT !.view = view, !.emails = emails, !.loadState = state]

RootViewMode(s) ==
    CASE s.local = "opening" -> "boot"
      [] s.local = "error" -> "localError"
      [] OTHER -> IF s.accounts = {} THEN "setup" ELSE "shell"

-----------------------------------------------------------------------------
(* Tasks. *)

Frame(do, key) == [do |-> do, key |-> key]

Window == <<"window", None>>

\* Which generation counter guards a read.
Generation(at, key) ==
    CASE at \in {"view", "emails"} -> Window
      [] at = "statuses" -> <<at, key.accountKey>>
      [] OTHER -> <<at, None>>

Supersede(s, generation) ==
    [s EXCEPT !.tasks = [j \in DOMAIN s.tasks |->
        IF Generation(s.tasks[j].at, s.tasks[j].key) = generation
        THEN [s.tasks[j] EXCEPT !.fresh = FALSE]
        ELSE s.tasks[j]]]

Await(s, i, at, key) ==
    [Supersede(s, Generation(at, key)) EXCEPT
        !.missed = @ \ {<<at, key.accountKey>>},
        !.tasks[i] = [@ EXCEPT !.at = at, !.key = key, !.fresh = TRUE, !.phase = "asked", !.res = None, !.view = {}]]

\* Removes a task; a finished body attempt leaves the map of attempts.
End(s, i) ==
    [s EXCEPT !.tasks = Without(@, {i}), !.attempts = {x \in @ : x[2] # i}]

\* An async function returns `value` to the frame that awaits it.
Finish(s, i, value) ==
    IF s.tasks[i].then = <<>>
    THEN End(s, i)
    ELSE [s EXCEPT !.tasks[i] = [@ EXCEPT !.at = "return", !.key = NoId, !.fresh = FALSE, !.phase = "run",
                                          !.res = value, !.view = {}]]

Push(s, i, frame) == [s EXCEPT !.tasks[i].then = <<frame>> \o @]

\* An exception unwinds every frame up to the catch of the call's owner.
Throw(s, i, read) ==
    LET t       == s.tasks[i]
        skipped == {<<"statuses", f.key.accountKey>> : f \in {g \in ToSet(t.then) : g.do = "statuses"}}
        caught  == [End(s, i) EXCEPT !.missed = @ \cup skipped \cup {<<read, t.key.accountKey>>}]
    IN  CASE t.owner = "initialize" -> [caught EXCEPT !.local = "error", !.loadState = "error"]
          [] t.owner \in {"retry", "flush"} -> [caught EXCEPT !.local = "error"]
          [] t.owner = "user" -> caught

NextTask(s) == CHOOSE i \in 1..(Cardinality(DOMAIN s.tasks) + 1) : i \notin DOMAIN s.tasks

Spawn(s, owner) ==
    [s EXCEPT !.tasks = With(@, Entry(NextTask(s),
        [owner |-> owner, at |-> "run", key |-> NoId, fresh |-> FALSE, phase |-> "run",
         res |-> None, view |-> {}, then |-> <<>>]))]

-----------------------------------------------------------------------------
(* The reads: how each starts and what it does with its answer. *)

RefreshSelectedBody(s, i) ==
    IF s.email = NoId
    THEN Finish(SetEmailBody(Supersede(s, <<"body", None>>), NoId, "idle"), i, "stale")
    ELSE Await(SetEmailBody(s, NoId, "loading"), i, "body", s.email)

BodyRead(s, i, r) ==
    LET t == s.tasks[i] IN
    CASE ~t.fresh \/ s.email # t.key -> Finish(s, i, "stale")
      [] t.fresh /\ s.email = t.key /\ r.kind = "failed" -> Finish(SetEmailBody(s, NoId, "error"), i, "failed")
      [] OTHER ->
            LET state == CASE r.kind = "present" -> "cached"
                           [] r.kind = "absent" -> "notCached"
                           [] OTHER -> "ownerAbsent"
            IN  Finish(SetEmailBody(s, IF state = "cached" THEN t.key ELSE NoId, state), i, state)

RefreshMailboxWindow(s, i) ==
    IF s.mailbox = NoId
    THEN Finish(Supersede(s, Window), i, None)
    ELSE Await([s EXCEPT !.loadState = "loading"], i, "view", s.mailbox)

\* Mutant: only the generation decides whether an answer is still wanted.
WindowIsCurrentByGeneration(s, t) == t.fresh

WindowIsCurrent(s, t) == t.fresh /\ s.mailbox = t.key

ViewRead(s, i, r) ==
    LET t == s.tasks[i] IN
    IF ~WindowIsCurrent(s, t) THEN Finish(s, i, None)
    ELSE IF r.kind = "failed" THEN Finish([s EXCEPT !.loadState = "error"], i, None)
    ELSE CASE r.kind = "ownerAbsent" -> Finish(SetWindow(s, {}, Empty, "error"), i, None)
           [] r.kind = "absent"      -> Finish(SetWindow(s, {}, Empty, "notCached"), i, None)
           [] r.kind = "present"     ->
                [s EXCEPT !.tasks[i] = [@ EXCEPT !.at = "emails", !.phase = "asked", !.res = None, !.view = {r.value}]]

\* The Emails of the view, in its order; the selection follows them.
EmailsRead(s, i, r) ==
    LET t   == s.tasks[i]
        ids == UNION {{v.items[k].emailId : k \in DOMAIN v.items} : v \in t.view}
        kept == s.email # NoId /\ s.email \in ids
        next == IF kept THEN s.email
                ELSE IF ids = {} THEN NoId ELSE (CHOOSE v \in t.view : TRUE).items[1].emailId
        shown == SetWindow(s, t.view, r.value, "ready")
    IN  IF ~WindowIsCurrent(s, t) THEN Finish(s, i, None)
        ELSE IF r.kind = "failed" \/ ids \ DOMAIN r.value # {} THEN Finish(SetWindow(s, t.view, Empty, "error"), i, None)
        ELSE IF kept THEN RefreshSelectedBody(shown, i)
        ELSE LET chosen == StoreSelectEmail(shown, next) IN
             RefreshSelectedBody(IF next = NoId THEN chosen ELSE Push(chosen, i, Frame("demand", next)), i)

RefreshMailboxes(s, i) ==
    IF s.account = None
    THEN Finish(Supersede(s, <<"mailboxes", None>>), i, None)
    ELSE Await(s, i, "mailboxes", OfAccount(s.account))

MailboxesRead(s, i, r) ==
    LET t == s.tasks[i] IN
    IF ~t.fresh \/ s.account # t.key.accountKey THEN Finish(s, i, None)
    ELSE IF r.kind = "failed" THEN Throw(s, i, "mailboxes")
    ELSE IF r.kind = "ownerAbsent"
    THEN Finish([StoreSelectMailbox(s, NoId) EXCEPT !.mailboxes = {}, !.loadState = "error"], i, None)
    ELSE LET known == [s EXCEPT !.mailboxes = r.value] IN
         IF r.value = {} THEN Finish([StoreSelectMailbox(known, NoId) EXCEPT !.loadState = "ready"], i, None)
         ELSE IF s.mailbox \in r.value THEN RefreshMailboxWindow(known, i)
         ELSE RefreshMailboxWindow(StoreSelectMailbox(known, First(MailboxOrder, r.value)), i)

RefreshMutationStatuses(s, i, a) == Await(s, i, "statuses", OfAccount(a))

StatusesRead(s, i, r) ==
    LET t == s.tasks[i]
        a == t.key.accountKey
    IN  IF s.disposed \/ ~t.fresh THEN Finish(s, i, None)
        ELSE IF r.kind = "failed" THEN Finish([s EXCEPT !.missed = @ \cup {<<"statuses", a>>}], i, None)
        ELSE IF r.kind = "ownerAbsent" THEN Finish([s EXCEPT !.statuses = Without(@, {a})], i, None)
        ELSE Finish([s EXCEPT !.statuses = With(@, Entry(a, r.value))], i, None)

RefreshAccounts(s, i) == Await(s, i, "accounts", NoId)

\* Mailboxes first, then the statuses of the account they belong to.
ShowAccount(s, i, a) == RefreshMailboxes(Push(s, i, Frame("statuses", OfAccount(a))), i)

AccountsRead(s, i, r) ==
    IF ~s.tasks[i].fresh THEN Finish(s, i, None)
    ELSE IF r.kind = "failed" THEN Throw(s, i, "accounts")
    ELSE LET known == [s EXCEPT !.accounts = r.value] IN
         IF r.value = {}
         THEN Finish([StoreSelectAccount(known, None) EXCEPT !.statuses = Empty, !.loadState = "ready"], i, None)
         ELSE IF s.account \in r.value THEN ShowAccount(known, i, s.account)
         ELSE LET a == First(AccountOrder, r.value) IN ShowAccount(StoreSelectAccount(known, a), i, a)

-----------------------------------------------------------------------------
(* Body materialization. *)

MaterializeBody(s, e) ==
    IF \E x \in s.attempts : x[1] = e
    THEN s
    ELSE LET i       == NextTask(s)
             started == Await(Spawn(s, "body"), i, "materialize", e)
         IN  [started EXCEPT !.attempts = @ \cup {<<e, i>>},
                             !.bodyError = @ /\ s.email # e,
                             !.materializing = @ \/ s.email = e]

DemandSelectedBody(s, e) ==
    IF s.email = e /\ s.bodyState = "notCached" THEN MaterializeBody(s, e) ELSE s

\* Mutant: an attempt that fails leaves the spinner on.
FinishBodyMaterializationSpinning(s, i, e, result) ==
    LET done == End(s, i) IN
    IF s.email # e \/ s.disposed \/ result \in {"ok", "cancelled"} THEN done
    ELSE [SetEmailBody(done, NoId, IF result = "emailAbsent" THEN "ownerAbsent" ELSE "notCached")
            EXCEPT !.bodyError = TRUE]

FinishBodyMaterialization(s, i, e, result) ==
    LET done    == End(s, i)
        settled == [done EXCEPT !.materializing = FALSE]
    IN  IF s.email # e \/ s.disposed THEN done
        ELSE IF result \in {"ok", "cancelled"} THEN settled
        ELSE [SetEmailBody(settled, NoId, IF result = "emailAbsent" THEN "ownerAbsent" ELSE "notCached")
                EXCEPT !.bodyError = TRUE]

Materialized(s, i, r) ==
    LET e == s.tasks[i].key IN
    IF s.disposed THEN End(s, i)
    ELSE IF r.kind = "ok" /\ s.email = e THEN RefreshSelectedBody(Push(s, i, Frame("reread", e)), i)
    ELSE FinishBodyMaterialization(s, i, e, r.kind)

-----------------------------------------------------------------------------
(* The code after an awaited call. *)

Return(s, i) ==
    LET t   == s.tasks[i]
        f   == Head(t.then)
        pop == [s EXCEPT !.tasks[i].then = Tail(@)]
    IN  CASE f.do = "statuses" -> RefreshMutationStatuses(pop, i, f.key.accountKey)
          [] f.do = "demand" -> Finish(DemandSelectedBody(pop, f.key), i, None)
          [] f.do = "ready" -> Finish([pop EXCEPT !.local = "ready"], i, None)
          [] f.do = "reread" ->
                FinishBodyMaterialization(pop, i, f.key,
                    CASE t.res \in {"failed", "notCached"} -> "local"
                      [] t.res = "ownerAbsent" -> "emailAbsent"
                      [] OTHER -> "ok")

Subscribed(s, i, r) ==
    IF r.kind = "ok"
    THEN RefreshAccounts(Push([s EXCEPT !.subscribed = TRUE], i, Frame("ready", NoId)), i)
    ELSE [End(s, i) EXCEPT !.local = "error", !.loadState = "error"]

Resume(s, i, r) ==
    LET t == s.tasks[i] IN
    CASE t.at = "accounts"    -> AccountsRead(s, i, r)
      [] t.at = "mailboxes"   -> MailboxesRead(s, i, r)
      [] t.at = "view"        -> ViewRead(s, i, r)
      [] t.at = "emails"      -> EmailsRead(s, i, r)
      [] t.at = "body"        -> BodyRead(s, i, r)
      [] t.at = "statuses"    -> StatusesRead(s, i, r)
      [] t.at = "materialize" -> Materialized(s, i, r)
      [] t.at = "subscribe"   -> Subscribed(s, i, r)

-----------------------------------------------------------------------------
(* Invalidation. *)

Hinted(hints, kinds, key) == \E h \in hints : h.kind \in kinds /\ h.key = key

\* Mutant: a change of the Emails does not refresh the window.
MustRefreshWindowByView(s, hints) == s.mailbox # NoId /\ Hinted(hints, {"mailboxView"}, s.mailbox)

MustRefreshWindow(s, hints) ==
    \/ s.mailbox # NoId /\ Hinted(hints, {"mailboxView"}, s.mailbox)
    \/ s.account # None /\ Hinted(hints, {"emails", "emailMemberships"}, s.account)

\* flushInvalidations: the widest of the rereads the hints call for, then the statuses.
Invalidate(s, hints) ==
    LET i        == NextTask(s)
        flush    == Spawn(s, "flush")
        statuses == s.account # None /\ Hinted(hints, {"pendingMutations"}, s.account)
        before   == IF statuses THEN Push(flush, i, Frame("statuses", OfAccount(s.account))) ELSE flush
    IN  IF Hinted(hints, {"accounts"}, None) THEN RefreshAccounts(before, i)
        ELSE IF s.account # None /\ Hinted(hints, {"mailboxes"}, s.account) THEN RefreshMailboxes(before, i)
        ELSE IF MustRefreshWindow(s, hints) THEN RefreshMailboxWindow(before, i)
        ELSE IF s.email # NoId /\ Hinted(hints, {"emailBody"}, s.email) THEN RefreshSelectedBody(before, i)
        ELSE IF statuses THEN RefreshMutationStatuses(flush, i, s.account)
        ELSE s

-----------------------------------------------------------------------------
(* Behaviour. *)

Init ==
    /\ db = InitialDb
    /\ wire = <<>>
    /\ listening = FALSE
    /\ pending = {}
    /\ app = Await(Spawn(MailState, "initialize"), 1, "subscribe", NoId)
    /\ clicks = 0
    /\ commits = 0
    /\ failures = 0

\* What a read finds in the store.
Found(t) ==
    CASE t.at = "accounts"  -> Read(db, Query("accounts", None))
      [] t.at = "mailboxes" -> Read(db, Query("mailboxes", t.key.accountKey))
      [] t.at = "view"      -> Read(db, Query("view", t.key))
      [] t.at = "body"      -> Read(db, Query("body", t.key))
      [] t.at = "statuses"  -> Read(db, Query("mutations", t.key.accountKey))
      [] t.at = "emails"    ->
            LET wanted == UNION {{v.items[k].emailId : k \in DOMAIN v.items} : v \in t.view}
            IN  Answer("present", [e \in wanted \cap DOMAIN db.emails |-> db.emails[e]])
      [] t.at = "subscribe" -> Answer("ok", None)

\* The store answers a read at some moment between the call and its resumption.  Only a commit
\* tells these moments apart: the reads in `early` are answered before it, from the old store.
Asked == {i \in DOMAIN app.tasks : app.tasks[i].phase = "asked" /\ app.tasks[i].at # "materialize"}

Answered(early) ==
    [app EXCEPT !.tasks = [i \in DOMAIN app.tasks |->
        IF i \in early
        THEN [app.tasks[i] EXCEPT !.phase = "answered", !.res = Found(app.tasks[i])]
        ELSE app.tasks[i]]]

\* A write that the store accepted: a subscription answered before it hears of it.
Change(o, early) ==
    /\ db' = o.db
    /\ listening' = (listening \/ \E i \in early : app.tasks[i].at = "subscribe")
    /\ wire' = IF listening' THEN Append(wire, o.hints) ELSE wire

\* Another part of the application, or the remote side, commits to the store.
Commit ==
    /\ commits < MaxCommits
    /\ commits' = commits + 1
    /\ \E w \in Writes, early \in SUBSET Asked :
          LET o == Perform(db, w.op, w.arg) IN
          /\ o.result = "ok"
          /\ Change(o, early)
          /\ app' = Answered(early)
    /\ UNCHANGED <<pending, clicks, failures>>

\* BodyMaterializer looks into the cache first: what it does next depends on what it finds there.
ReadCachedBody(i) ==
    /\ app.tasks[i].phase = "asked"
    /\ app.tasks[i].at = "materialize"
    /\ LET found == Read(db, Query("body", app.tasks[i].key)).kind IN
          app' = [app EXCEPT !.tasks[i].phase = IF found = "absent" THEN "fetching" ELSE "answered",
                             !.tasks[i].res = CASE found = "absent" -> None
                                                [] found = "present" -> Answer("ok", None)
                                                [] found = "ownerAbsent" -> Answer("emailAbsent", None)]
    /\ UNCHANGED <<db, wire, listening, pending, clicks, commits, failures>>

\* It fetches the body and caches it, if its Email is still there.
FetchBody(i) ==
    /\ app.tasks[i].phase = "fetching"
    /\ LET o == CacheEmailBody(db, app.tasks[i].key) IN
          \E early \in SUBSET Asked :
             /\ app' = [Answered(early) EXCEPT
                           !.tasks[i].phase = "answered",
                           !.tasks[i].res = Answer(IF o.result = "ok" THEN "ok" ELSE "emailAbsent", None)]
             /\ IF o.result = "ok"
                THEN Change(o, early)
                ELSE early = {} /\ UNCHANGED <<db, listening, wire>>
    /\ UNCHANGED <<pending, clicks, commits, failures>>

\* The event loop: answers, hints and clicks are dispatched once the microtasks have run,
\* which are the code after an awaited call and the flush of the hints.
Drained == \A i \in DOMAIN app.tasks : app.tasks[i].at # "return"

ResumeTask(i) ==
    /\ \/ /\ Drained /\ pending = {}
          /\ i \in Asked
          /\ app' = Resume(app, i, Found(app.tasks[i]))
       \/ /\ Drained /\ pending = {}
          /\ app.tasks[i].phase = "answered"
          /\ app' = Resume(app, i, app.tasks[i].res)
       \/ /\ app.tasks[i].at = "return"
          /\ app' = Return(app, i)
    /\ listening' = (listening \/ app.tasks[i].at = "subscribe")
    /\ UNCHANGED <<db, wire, pending, clicks, commits, failures>>

\* How a read, a subscription, or the first or the later steps of a materialization fail.
Failures(t) ==
    CASE t.phase = "fetching" -> {"emailAbsent", "remote", "cancelled"}
      [] t.phase = "asked" -> IF t.at = "materialize" THEN {"local"} ELSE {"failed"}
      [] OTHER -> {}

ResumeFails(i) ==
    /\ Drained /\ pending = {}
    /\ failures < MaxFailures
    /\ failures' = failures + 1
    /\ \E kind \in Failures(app.tasks[i]) : app' = Resume(app, i, Answer(kind, None))
    /\ UNCHANGED <<db, wire, listening, pending, clicks, commits>>

\* scheduleInvalidation, and the microtask it queues.
Deliver ==
    /\ wire # <<>>
    /\ Drained
    /\ pending' = pending \cup Head(wire)
    /\ wire' = Tail(wire)
    /\ UNCHANGED <<db, listening, app, clicks, commits, failures>>

FlushInvalidations ==
    /\ pending # {}
    /\ pending' = {}
    /\ app' = Invalidate(app, pending)
    /\ UNCHANGED <<db, wire, listening, clicks, commits, failures>>

Click(s) ==
    /\ clicks < MaxClicks
    /\ Drained /\ pending = {}
    /\ ~app.disposed
    /\ app' = s
    /\ clicks' = clicks + 1
    /\ UNCHANGED <<db, wire, listening, pending, commits, failures>>

SelectAccount(a) ==
    /\ RootViewMode(app) = "shell"
    /\ LET s == IF app.account = a THEN app ELSE StoreSelectAccount(app, a)
       IN  Click(ShowAccount(Spawn(s, "user"), NextTask(app), a))

SelectMailbox(m) ==
    /\ RootViewMode(app) = "shell"
    /\ LET s == IF app.mailbox = m THEN app ELSE StoreSelectMailbox(app, m)
       IN  Click(RefreshMailboxWindow(Spawn(s, "user"), NextTask(app)))

SelectEmail(e) ==
    /\ RootViewMode(app) = "shell"
    /\ LET i == NextTask(app)
           s == IF app.email = e THEN app ELSE StoreSelectEmail(app, e)
       IN  Click(RefreshSelectedBody(Push(Spawn(s, "user"), i, Frame("demand", e)), i))

\* The button that a body error shows.
RetryBody ==
    /\ RootViewMode(app) = "shell"
    /\ app.email # NoId
    /\ app.bodyError
    /\ ~app.materializing
    /\ Click(MaterializeBody(app, app.email))

\* The button of the error screen: reads again, or initializes again when nothing listens.
Retry ==
    /\ RootViewMode(app) = "localError"
    /\ LET i == NextTask(app)
           s == [app EXCEPT !.local = "opening"]
       IN  Click(IF app.subscribed
                 THEN RefreshAccounts(Push(Spawn(s, "retry"), i, Frame("ready", NoId)), i)
                 ELSE Await(Spawn(s, "initialize"), i, "subscribe", NoId))

Dispose ==
    /\ Click([app EXCEPT !.disposed = TRUE, !.subscribed = FALSE, !.statuses = Empty,
                         !.materializing = FALSE, !.attempts = {}])

Next ==
    \/ \E i \in DOMAIN app.tasks : ReadCachedBody(i) \/ FetchBody(i) \/ ResumeTask(i) \/ ResumeFails(i)
    \/ Commit \/ Deliver \/ FlushInvalidations
    \/ \E a \in app.accounts : SelectAccount(a)
    \/ \E m \in app.mailboxes : SelectMailbox(m)
    \/ \E e \in DOMAIN app.emails : SelectEmail(e)
    \/ RetryBody \/ Retry \/ Dispose

Spec == Init /\ [][Next]_vars

-----------------------------------------------------------------------------
(* Properties. *)

\* Nothing is on its way: every call of the controller has ended and every hint was used.
Quiet == app.tasks = Empty /\ wire = <<>> /\ pending = {} /\ ~app.disposed

\* The Mailboxes, the list and the body on the screen belong to the current selection,
\* whatever answers arrive late: none of them is left over from, or lands in, another one.
ShownIsSelected ==
    /\ \A m \in app.mailboxes : m.accountKey = app.account
    /\ app.mailbox # NoId => app.mailbox.accountKey = app.account
    /\ \A v \in app.view : v.mailboxId = app.mailbox
    /\ \A e \in DOMAIN app.emails : \E v \in app.view : \E k \in DOMAIN v.items : v.items[k].emailId = e
    /\ app.bodyState = "cached" => app.body = app.email

\* Once quiet, no part of the screen still says that it is loading.
QuietMeansSettled ==
    Quiet => app.loadState # "loading" /\ app.bodyState # "loading" /\ ~app.materializing

\* Once quiet, what is on the screen is what the store holds, however commits, hints and reads
\* overlapped, unless a failed read was swallowed (missed) or is shown as an error.
QuietMeansFresh ==
    Quiet /\ app.subscribed /\ app.missed = {} =>
        /\ app.accounts = DOMAIN db.accounts
        /\ app.account # None =>
              /\ app.mailboxes = Owned(db.mailboxes, app.account)
              /\ app.account \in DOMAIN app.statuses
              /\ app.statuses[app.account] = ValuesOf(db.mutations, app.account)
        /\ app.loadState = "notCached" /\ app.mailbox # NoId => app.mailbox \notin DOMAIN db.views
        /\ app.loadState = "ready" /\ app.mailbox # NoId =>
              /\ app.view = {db.views[m] : m \in DOMAIN db.views \cap {app.mailbox}}
              /\ \A e \in DOMAIN app.emails : e \in DOMAIN db.emails /\ app.emails[e] = db.emails[e]
              /\ app.bodyState = "cached" => app.email \in db.bodies
              /\ app.bodyState = "notCached" /\ ~app.bodyError => app.email \notin db.bodies

=============================================================================
