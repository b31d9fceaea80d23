-------------------------- MODULE MailFreshProofs ---------------------------
(***************************************************************************)
(* Proofs about MailView, for any number of accounts, Mailboxes, Emails,    *)
(* clicks, commits and failures: once quiet, what is shown is what the      *)
(* store holds.                                                             *)
(*                                                                         *)
(* FreshInv, on top of ViewInv, says of each part of the screen that it is  *)
(* what the store holds, or that a hint on its way, a read under way or a   *)
(* failed read will have it read again (Fresh), among all tasks or, while a *)
(* handler runs, among the others.                                          *)
(***************************************************************************)
EXTENDS MailViewProofs

-----------------------------------------------------------------------------
(* What is shown is fresh: once quiet, it is what the store holds.          *)
(*                                                                         *)
(* FreshInv says why a part of the screen may differ from the store: a hint *)
(* on its way makes the controller read it again, or a read that covers it  *)
(* is under way, or such a read failed.  The answers that wait to be        *)
(* resumed have the same excuses.                                           *)

\* The hints on their way.
Flying == pending \cup UNION {wire[k] : k \in DOMAIN wire}

\* One of the hints makes the controller read again what answers q.
Due(F, q) == \E h \in F : Covers(h, q)

\* The reads under way, by the tasks in S, that nothing has superseded.
Reads(tasks, S, at, key) == {tasks[j] : j \in {k \in S : tasks[k].at = at /\ tasks[k].fresh /\ tasks[k].key = key}}

\* The accounts, or the Mailboxes of the account shown, are being read, or could not be.  What is
\* narrower is read again after them.
Accounting(s, S) == Reads(s.tasks, S, "accounts", NoId) # {} \/ <<"accounts", None>> \in s.missed
Widening(s, S) ==
    \/ Accounting(s, S)
    \/ Reads(s.tasks, S, "mailboxes", OfAccount(s.account)) # {}
    \/ <<"mailboxes", s.account>> \in s.missed

\* A call will read the statuses of account a when what it awaits returns.
Owes(t, a) == \E f \in ToSet(t.then) : f.do = "statuses" /\ f.key.accountKey = a
Owed(s, a) == \E j \in DOMAIN s.tasks : Owes(s.tasks[j], a)

\* An attempt under way will read the body of e again, or report that it failed.
Retries(t, e) == t.at = "materialize" /\ t.key = e /\ t.phase # "fetching"
Retried(s, S, e) == \E j \in S : Retries(s.tasks[j], e)

ViewsOf(d, m) == {d.views[x] : x \in DOMAIN d.views \cap {m}}
EmailsOf(d, f) == \A e \in DOMAIN f : e \in DOMAIN d.emails /\ f[e] = d.emails[e]

\* Answer r tells task t what store d holds.
Accurate(d, t, r) ==
    CASE t.at = "accounts"  -> r.kind = "present" => r.value = DOMAIN d.accounts
      [] t.at = "mailboxes" -> r.kind = "present" => r.value = Owned(d.mailboxes, t.key.accountKey)
      [] t.at = "statuses"  -> r.kind = "present" => r.value = ValuesOf(d.mutations, t.key.accountKey)
      [] t.at = "view"      -> /\ r.kind = "absent" => t.key \notin DOMAIN d.views
                               /\ r.kind = "present" => {r.value} = ViewsOf(d, t.key)
      [] t.at = "emails"    -> r.kind = "present" => EmailsOf(d, r.value)
      [] t.at = "body"      -> r.kind = "absent" => t.key \notin d.bodies
      [] OTHER -> TRUE

\* The store never forgets an account or a body, so this stays true of an answer.
Sound(d, t, r) ==
    CASE t.at = "accounts" -> r.kind \in {"present", "failed"} /\ (r.kind = "present" => r.value \subseteq DOMAIN d.accounts)
      [] t.at \in {"mailboxes", "statuses"} -> r.kind \in {"present", "failed"}
      [] t.at = "body" -> r.kind = "present" => t.key \in d.bodies
      [] t.at = "materialize" -> r.kind = "cancelled" => t.phase = "fetching"
      [] OTHER -> TRUE

\* What is asked for is known to the store.
Knowable(d, at, key) ==
    CASE at = "accounts" -> key = NoId
      [] at = "mailboxes" -> \E a \in DOMAIN d.accounts \ {None} : key = OfAccount(a)
      [] at = "statuses" -> \E a \in DOMAIN d.accounts : key = OfAccount(a)
      [] at \in {"body", "materialize"} -> key # NoId
      [] OTHER -> TRUE

KnownTask(d, t) ==
    /\ Knowable(d, t.at, t.key)
    /\ t.phase = "answered" => Sound(d, t, t.res)
    /\ t.at = "subscribe" => t.then = <<>>

KnownFrame(d, f) ==
    /\ f.do = "statuses" => f.key.accountKey \in DOMAIN d.accounts
    /\ f.do = "reread" => f.key # NoId

KnownTasks(d, s, S) ==
    /\ \A j \in S : KnownTask(d, s.tasks[j])
    /\ \A j \in DOMAIN s.tasks : \A f \in ToSet(s.tasks[j].then) : KnownFrame(d, f)

KnownStores(d, s) ==
    /\ s.accounts \subseteq DOMAIN d.accounts
    /\ IF s.account = None THEN s.mailboxes = {} /\ s.mailbox = NoId ELSE s.account \in DOMAIN d.accounts
    /\ s.bodyState = "cached" => s.email \in d.bodies
    /\ s.email = NoId => s.bodyState \notin {"cached", "notCached"}

AnswersFit(d, R) == \A x \in R : x.phase = "answered" => Accurate(d, x, x.res)

AccountsFresh(d, F, s, S) ==
    \/ Due(F, Query("accounts", None))
    \/ /\ s.subscribed => Accounting(s, S) \/ s.accounts = DOMAIN d.accounts
       /\ AnswersFit(d, Reads(s.tasks, S, "accounts", NoId))

MailboxesFresh(d, F, s, S) ==
    s.account # None =>
        \/ Due(F, Query("mailboxes", s.account))
        \/ Accounting(s, S)
        \/ <<"mailboxes", s.account>> \in s.missed
        \/ LET R == Reads(s.tasks, S, "mailboxes", OfAccount(s.account)) IN
           (R # {} \/ s.mailboxes = Owned(d.mailboxes, s.account)) /\ AnswersFit(d, R)

StatusesFresh(d, F, s, S) ==
    s.account # None =>
        \/ Due(F, Query("mutations", s.account))
        \/ Accounting(s, S)
        \/ <<"statuses", s.account>> \in s.missed
        \/ Owed(s, s.account)
        \/ LET R == Reads(s.tasks, S, "statuses", OfAccount(s.account)) IN
           /\ \/ R # {}
              \/ s.account \in DOMAIN s.statuses /\ s.statuses[s.account] = ValuesOf(d.mutations, s.account)
           /\ AnswersFit(d, R)

WindowFresh(d, F, s, S) ==
    s.mailbox # NoId =>
        \/ Widening(s, S)
        \/ Due(F, Query("view", s.mailbox))
        \/ /\ s.loadState = "notCached" => s.mailbox \notin DOMAIN d.views
           /\ s.loadState = "ready" => s.view = ViewsOf(d, s.mailbox) /\ EmailsOf(d, s.emails)
           /\ AnswersFit(d, Reads(s.tasks, S, "view", s.mailbox))
           /\ AnswersFit(d, Reads(s.tasks, S, "emails", s.mailbox))
           /\ \A x \in Reads(s.tasks, S, "emails", s.mailbox) : x.view = ViewsOf(d, s.mailbox)

BodyFresh(d, F, s, S) ==
    s.mailbox # NoId /\ s.email # NoId /\ s.loadState = "ready" =>
        \/ Widening(s, S)
        \/ Due(F, Query("view", s.mailbox))
        \/ Hint("emailBody", s.email) \in F
        \/ /\ s.bodyState = "notCached" /\ ~s.bodyError => s.email \notin d.bodies \/ Retried(s, S, s.email)
           /\ AnswersFit(d, Reads(s.tasks, S, "body", s.email))

Fresh(d, F, s, S) ==
    /\ KnownStores(d, s) /\ KnownTasks(d, s, S)
    /\ AccountsFresh(d, F, s, S) /\ MailboxesFresh(d, F, s, S) /\ StatusesFresh(d, F, s, S)
    /\ WindowFresh(d, F, s, S) /\ BodyFresh(d, F, s, S)

\* Before the store tells of its changes nothing was read from it.
Untouched(s) ==
    /\ SameExcept(MailState, s, {"tasks", "local", "loadState"})
    /\ \A j \in DOMAIN s.tasks : s.tasks[j].at = "subscribe" /\ s.tasks[j].then = <<>>
Unheard == wire = <<>> /\ pending = {} /\ Untouched(app)

\* The hints the store publishes.
HintKinds == {"accounts", "mailboxes", "emails", "emailMemberships", "identities", "pendingMutations",
              "emailBody", "attachmentRefs", "mailboxView", "syncCursor"}
KnownHint(h) == h.kind \in HintKinds /\ (h.kind = "accounts" => h.key = None)

FreshInv ==
    /\ DOMAIN db.accounts \subseteq ToSet(AccountOrder)
    /\ \E T : wire \in Seq(T)
    /\ \A h \in Flying : KnownHint(h)
    /\ ~app.disposed => (listening \/ Unheard) /\ Fresh(db, Flying, app, DOMAIN app.tasks)
-----------------------------------------------------------------------------
(* How the excuses pass from one state of a handler to the next. *)

ReadAts == {"accounts", "mailboxes", "statuses", "view", "emails", "body"}

\* The records and sequences that the controller keeps.
Tidy(s) ==
    /\ Shape(s)
    /\ \A j \in DOMAIN s.tasks : DOMAIN s.tasks[j] = TaskFields /\ \E T : s.tasks[j].then \in Seq(T)

\* A good state is a tidy one.
LEMMA GoodIsTidy == \A s : GoodApp(s) => Tidy(s)
<1> SUFFICES ASSUME NEW s, GoodApp(s), NEW j \in DOMAIN s.tasks
             PROVE  Shape(s) /\ DOMAIN s.tasks[j] = TaskFields /\ \E T : s.tasks[j].then \in Seq(T)
  BY Zenon DEF Tidy, GoodApp
<1> DEFINE a == s.tasks[j]
<1>1. Shape(s) /\ GoodTask(a)
  BY Zenon DEF GoodApp
<1>2. DOMAIN a = TaskFields /\ IF a.owner = "body" THEN \E e : Carries(a, e) ELSE Frames(a.then, PlainFrames)
  BY <1>1, Zenon DEF GoodTask
<1> HIDE DEF a
<1>3. CASE a.owner = "body"
  <2>1. PICK e : a.then = <<>> \/ a.then = <<Frame("reread", e)>>
    BY <1>2, <1>3, Zenon DEF Carries
  <2>2. \A f : <<>> \in Seq({f}) /\ <<f>> \in Seq({f})
    OBVIOUS
  <2>3. a.then \in Seq({Frame("reread", e)})
    BY <2>1, <2>2, Zenon
  <2> QED
    BY <1>1, <1>2, <2>3, Zenon DEF a
<1>4. CASE a.owner # "body"
  BY <1>1, <1>2, <1>4, Zenon DEF Frames, a
<1> QED
  BY <1>3, <1>4, Zenon

SameRead(s, S, t, T, at, key) ==
    /\ Reads(t.tasks, T, at, key) = Reads(s.tasks, S, at, key)
    /\ <<at, key.accountKey>> \in s.missed => <<at, key.accountKey>> \in t.missed

KeepsOwed(s, t) == \A a : Owed(s, a) => Owed(t, a)

\* The tasks in T serve the state t as those in S served s, for the reads in ats.
Carry(d, s, S, t, T, ats) ==
    /\ \A at \in ats : \A key : SameRead(s, S, t, T, at, key)
    /\ \A e : Retried(s, S, e) => Retried(t, T, e)
    /\ KnownTasks(d, s, S) => KnownTasks(d, t, T)

\* One step after the other.
LEMMA CarryOn ==
    \A d, s, S, t, T, u, U, ats : Carry(d, s, S, t, T, ats) /\ Carry(d, t, T, u, U, ats) => Carry(d, s, S, u, U, ats)
<1> SUFFICES ASSUME NEW d, NEW s, NEW S, NEW t, NEW T, NEW u, NEW U, NEW ats,
                    Carry(d, s, S, t, T, ats), Carry(d, t, T, u, U, ats)
             PROVE  Carry(d, s, S, u, U, ats)
  OBVIOUS
<1>1. ASSUME NEW at \in ats, NEW key PROVE SameRead(s, S, u, U, at, key)
  <2>1. SameRead(s, S, t, T, at, key) /\ SameRead(t, T, u, U, at, key)
    BY Zenon DEF Carry
  <2> QED
    BY <2>1 DEF SameRead
<1>2. \A e : Retried(s, S, e) => Retried(u, U, e)
  BY Zenon DEF Carry
<1>3. KnownTasks(d, s, S) => KnownTasks(d, u, U)
  BY Zenon DEF Carry
<1> QED
  BY <1>1, <1>2, <1>3, Zenon DEF Carry

\* Fewer reads are easier to carry.
LEMMA CarryLess ==
    \A d, s, S, t, T, ats, less : Carry(d, s, S, t, T, ats) /\ less \subseteq ats => Carry(d, s, S, t, T, less)
<1> SUFFICES ASSUME NEW d, NEW s, NEW S, NEW t, NEW T, NEW ats, NEW less, Carry(d, s, S, t, T, ats), less \subseteq ats
             PROVE  Carry(d, s, S, t, T, less)
  OBVIOUS
<1>1. ASSUME NEW at \in less, NEW key PROVE SameRead(s, S, t, T, at, key)
  <2>1. at \in ats
    OBVIOUS
  <2> QED
    BY <2>1, Zenon DEF Carry
<1> QED
  BY <1>1, Zenon DEF Carry

\* The stores change and the tasks do not.
LEMMA StoresCarry ==
    \A d, s, S, t : t.tasks = s.tasks /\ t.missed = s.missed =>
        /\ Carry(d, s, S, t, S, ReadAts) /\ KeepsOwed(s, t)
        /\ Tidy(s) /\ DOMAIN t = AppFields => Tidy(t)
<1> SUFFICES ASSUME NEW d, NEW s, NEW S, NEW t, t.tasks = s.tasks, t.missed = s.missed
             PROVE  /\ Carry(d, s, S, t, S, ReadAts) /\ KeepsOwed(s, t)
                    /\ Tidy(s) /\ DOMAIN t = AppFields => Tidy(t)
  OBVIOUS
<1>1. \A at, key : SameRead(s, S, t, S, at, key)
  BY SMT DEF SameRead
<1>2. \A e : Retried(s, S, e) => Retried(t, S, e)
  BY SMT DEF Retried
<1>3. KnownTasks(d, s, S) => KnownTasks(d, t, S)
  BY SMT DEF KnownTasks
<1>4. KeepsOwed(s, t)
  BY SMT DEF KeepsOwed, Owed
<1>5. Tidy(s) /\ DOMAIN t = AppFields => Tidy(t)
  BY SMT DEF Tidy, Shape
<1>6. Carry(d, s, S, t, S, ReadAts)
  BY <1>1, <1>2, <1>3, Zenon DEF Carry
<1> QED
  BY <1>4, <1>5, <1>6, Zenon

\* Two states have the same reads when the tasks that read are the same.
LEMMA ReadsAreSame ==
    ASSUME NEW tk, NEW S, NEW uk, NEW T, NEW at, NEW key,
           \A j \in S : tk[j].at = at /\ tk[j].fresh /\ tk[j].key = key => j \in T /\ uk[j] = tk[j],
           \A j \in T : uk[j].at = at /\ uk[j].fresh /\ uk[j].key = key => j \in S /\ uk[j] = tk[j]
    PROVE  Reads(uk, T, at, key) = Reads(tk, S, at, key)
<1>1. ASSUME NEW x \in Reads(tk, S, at, key) PROVE x \in Reads(uk, T, at, key)
  BY Zenon DEF Reads
<1>2. ASSUME NEW x \in Reads(uk, T, at, key) PROVE x \in Reads(tk, S, at, key)
  BY Zenon DEF Reads
<1> QED
  BY <1>1, <1>2, Zenon

\* The accounts shown stay as fresh as they were.
LEMMA AccountsKept ==
    \A d, F, s, S, t, T :
        /\ AccountsFresh(d, F, s, S) /\ t.accounts = s.accounts /\ (t.subscribed => s.subscribed)
        /\ SameRead(s, S, t, T, "accounts", NoId)
        => AccountsFresh(d, F, t, T)
BY SMT DEF AccountsFresh, Accounting, SameRead, NoId, ScopedId

\* So do the Mailboxes.
LEMMA MailboxesKept ==
    \A d, F, s, S, t, T :
        /\ MailboxesFresh(d, F, s, S) /\ t.account = s.account /\ t.mailboxes = s.mailboxes
        /\ SameRead(s, S, t, T, "accounts", NoId) /\ SameRead(s, S, t, T, "mailboxes", OfAccount(s.account))
        => MailboxesFresh(d, F, t, T)
BY SMT DEF MailboxesFresh, Accounting, SameRead, NoId, ScopedId, OfAccount

\* So do the statuses.
LEMMA StatusesKept ==
    \A d, F, s, S, t, T :
        /\ StatusesFresh(d, F, s, S) /\ t.account = s.account /\ t.statuses = s.statuses
        /\ SameRead(s, S, t, T, "accounts", NoId) /\ SameRead(s, S, t, T, "statuses", OfAccount(s.account))
        /\ Owed(s, s.account) => Owed(t, s.account)
        => StatusesFresh(d, F, t, T)
BY SMT DEF StatusesFresh, Accounting, SameRead, NoId, ScopedId, OfAccount

\* The same wider reads are under way.
LEMMA WideningKept ==
    \A s, S, t, T :
        /\ Widening(s, S) /\ t.account = s.account
        /\ SameRead(s, S, t, T, "accounts", NoId) /\ SameRead(s, S, t, T, "mailboxes", OfAccount(s.account))
        => Widening(t, T)
BY SMT DEF Widening, Accounting, SameRead, NoId, ScopedId, OfAccount

\* So does the list.
LEMMA WindowKept ==
    \A d, F, s, S, t, T :
        /\ WindowFresh(d, F, s, S) /\ t.account = s.account /\ t.mailbox = s.mailbox /\ t.loadState = s.loadState
        /\ t.view = s.view /\ t.emails = s.emails
        /\ SameRead(s, S, t, T, "accounts", NoId) /\ SameRead(s, S, t, T, "mailboxes", OfAccount(s.account))
        /\ SameRead(s, S, t, T, "view", s.mailbox) /\ SameRead(s, S, t, T, "emails", s.mailbox)
        => WindowFresh(d, F, t, T)
BY WideningKept, SMT DEF WindowFresh, SameRead

\* So does the body.
LEMMA BodyKept ==
    \A d, F, s, S, t, T :
        /\ BodyFresh(d, F, s, S) /\ t.account = s.account /\ t.mailbox = s.mailbox /\ t.loadState = s.loadState
        /\ t.email = s.email /\ t.bodyState = s.bodyState /\ t.bodyError = s.bodyError
        /\ SameRead(s, S, t, T, "accounts", NoId) /\ SameRead(s, S, t, T, "mailboxes", OfAccount(s.account))
        /\ SameRead(s, S, t, T, "body", s.email)
        /\ Retried(s, S, s.email) => Retried(t, T, s.email)
        => BodyFresh(d, F, t, T)
BY WideningKept, SMT DEF BodyFresh, SameRead

\* The parts that a step carries.
LEMMA Carried ==
    ASSUME NEW d, NEW F, NEW s, NEW S, NEW t, NEW T, NEW ats, Carry(d, s, S, t, T, ats), "accounts" \in ats
    PROVE  /\ AccountsFresh(d, F, s, S) /\ t.accounts = s.accounts /\ (t.subscribed => s.subscribed)
              => AccountsFresh(d, F, t, T)
           /\ /\ MailboxesFresh(d, F, s, S) /\ t.account = s.account /\ t.mailboxes = s.mailboxes
              /\ "mailboxes" \in ats
              => MailboxesFresh(d, F, t, T)
           /\ /\ StatusesFresh(d, F, s, S) /\ t.account = s.account /\ t.statuses = s.statuses
              /\ "statuses" \in ats /\ KeepsOwed(s, t)
              => StatusesFresh(d, F, t, T)
           /\ /\ WindowFresh(d, F, s, S) /\ t.account = s.account /\ t.mailbox = s.mailbox /\ t.loadState = s.loadState
              /\ t.view = s.view /\ t.emails = s.emails /\ {"mailboxes", "view", "emails"} \subseteq ats
              => WindowFresh(d, F, t, T)
           /\ /\ BodyFresh(d, F, s, S) /\ t.account = s.account /\ t.mailbox = s.mailbox /\ t.loadState = s.loadState
              /\ t.email = s.email /\ t.bodyState = s.bodyState /\ t.bodyError = s.bodyError
              /\ {"mailboxes", "body"} \subseteq ats
              => BodyFresh(d, F, t, T)
<1>1. \A at \in ats : \A key : SameRead(s, S, t, T, at, key)
  BY Zenon DEF Carry
<1>2. \A e : Retried(s, S, e) => Retried(t, T, e)
  BY Zenon DEF Carry
<1>3. SameRead(s, S, t, T, "accounts", NoId)
  BY <1>1, Zenon
<1>4. "mailboxes" \in ats => SameRead(s, S, t, T, "mailboxes", OfAccount(s.account))
  BY <1>1, Zenon
<1>5. "statuses" \in ats /\ KeepsOwed(s, t) =>
         SameRead(s, S, t, T, "statuses", OfAccount(s.account)) /\ (Owed(s, s.account) => Owed(t, s.account))
  BY <1>1, Zenon DEF KeepsOwed
<1>6. {"view", "emails"} \subseteq ats =>
         SameRead(s, S, t, T, "view", s.mailbox) /\ SameRead(s, S, t, T, "emails", s.mailbox)
  <2>1. {"view", "emails"} \subseteq ats => "view" \in ats /\ "emails" \in ats
    OBVIOUS
  <2> QED
    BY <1>1, <2>1, Zenon
<1>7. "body" \in ats => SameRead(s, S, t, T, "body", s.email)
  BY <1>1, Zenon
<1>8. {"mailboxes", "view", "emails"} \subseteq ats => "mailboxes" \in ats /\ {"view", "emails"} \subseteq ats
  OBVIOUS
<1>9. {"mailboxes", "body"} \subseteq ats => "mailboxes" \in ats /\ "body" \in ats
  OBVIOUS
<1>10. AccountsFresh(d, F, s, S) /\ t.accounts = s.accounts /\ (t.subscribed => s.subscribed)
       => AccountsFresh(d, F, t, T)
  BY <1>3, AccountsKept, Zenon
<1>11. /\ MailboxesFresh(d, F, s, S) /\ t.account = s.account /\ t.mailboxes = s.mailboxes /\ "mailboxes" \in ats
       => MailboxesFresh(d, F, t, T)
  BY <1>3, <1>4, MailboxesKept, Zenon
<1>12. /\ StatusesFresh(d, F, s, S) /\ t.account = s.account /\ t.statuses = s.statuses
       /\ "statuses" \in ats /\ KeepsOwed(s, t)
       => StatusesFresh(d, F, t, T)
  BY <1>3, <1>5, StatusesKept, Zenon
<1>13. /\ WindowFresh(d, F, s, S) /\ t.account = s.account /\ t.mailbox = s.mailbox /\ t.loadState = s.loadState
       /\ t.view = s.view /\ t.emails = s.emails /\ {"mailboxes", "view", "emails"} \subseteq ats
       => WindowFresh(d, F, t, T)
  BY <1>3, <1>4, <1>6, <1>8, WindowKept, Zenon
<1>14. /\ BodyFresh(d, F, s, S) /\ t.account = s.account /\ t.mailbox = s.mailbox /\ t.loadState = s.loadState
       /\ t.email = s.email /\ t.bodyState = s.bodyState /\ t.bodyError = s.bodyError
       /\ {"mailboxes", "body"} \subseteq ats
       => BodyFresh(d, F, t, T)
  BY <1>2, <1>3, <1>4, <1>7, <1>9, BodyKept, Zenon
<1> QED
  BY <1>10, <1>11, <1>12, <1>13, <1>14, Zenon
\* Such a step, with the fields it may change: one of the controller's own updates.
Follows(d, s, S, t, T, F, ats) ==
    Tidy(t) /\ SameExcept(s, t, F) /\ Carry(d, s, S, t, T, ats) /\ KeepsOwed(s, t)

\* A step that leaves the tasks in S as they are.
LEMMA StepCarries ==
    ASSUME NEW d, NEW s, NEW S, NEW t, NEW T, S \subseteq DOMAIN s.tasks, S \subseteq T, t.missed = s.missed,
           \A j \in S : t.tasks[j] = s.tasks[j],
           \A j \in T \ S : ~t.tasks[j].fresh /\ KnownTask(d, t.tasks[j]),
           KnownTasks(d, s, S) => \A j \in DOMAIN t.tasks \ S : \A f \in ToSet(t.tasks[j].then) : KnownFrame(d, f)
    PROVE  Carry(d, s, S, t, T, ReadAts)
<1>1. ASSUME NEW at, NEW key PROVE SameRead(s, S, t, T, at, key)
  <2>1. Reads(t.tasks, T, at, key) = Reads(s.tasks, S, at, key)
    <3>1. \A j \in S : s.tasks[j].at = at /\ s.tasks[j].fresh /\ s.tasks[j].key = key => j \in T /\ t.tasks[j] = s.tasks[j]
      OBVIOUS
    <3>2. \A j \in T : t.tasks[j].at = at /\ t.tasks[j].fresh /\ t.tasks[j].key = key => j \in S /\ t.tasks[j] = s.tasks[j]
      OBVIOUS
    <3> QED
      BY <3>1, <3>2, ReadsAreSame
  <2> QED
    BY <2>1 DEF SameRead
<1>2. \A e : Retried(s, S, e) => Retried(t, T, e)
  BY DEF Retried
<1>3. ASSUME KnownTasks(d, s, S) PROVE KnownTasks(d, t, T)
  <2>1. \A j \in T : KnownTask(d, t.tasks[j])
    BY <1>3 DEF KnownTasks
  <2>2. \A j \in DOMAIN t.tasks : \A f \in ToSet(t.tasks[j].then) : KnownFrame(d, f)
    BY <1>3 DEF KnownTasks
  <2> QED
    BY <2>1, <2>2, Zenon DEF KnownTasks
<1> QED
  BY <1>1, <1>2, <1>3, Zenon DEF Carry

\* A task ends, and with it the statuses that it owes.
LEMMA EndCarries ==
    ASSUME NEW d, NEW s, Tidy(s), NEW i \in DOMAIN s.tasks
    PROVE  LET t == End(s, i) IN
           /\ Tidy(t) /\ SameExcept(s, t, {"tasks", "attempts"}) /\ Carry(d, s, Others(s, i), t, DOMAIN t.tasks, ReadAts)
           /\ \A a : Owed(s, a) /\ ~Owes(s.tasks[i], a) => Owed(t, a)
           /\ (\A a : ~Owes(s.tasks[i], a)) => Follows(d, s, Others(s, i), t, DOMAIN t.tasks, {"tasks", "attempts"}, ReadAts)
<1> DEFINE t == End(s, i)
<1>1. DOMAIN s = AppFields /\ IsFiniteSet(DOMAIN s.tasks)
  BY DEF Tidy, Shape
<1>2. SameExcept(s, t, {"tasks", "attempts"}) /\ t.tasks = Without(s.tasks, {i}) /\ DOMAIN t = AppFields
      /\ t.missed = s.missed
  BY <1>1 DEF End, AppFields, SameExcept
<1>3. DOMAIN t.tasks = Others(s, i) /\ \A j \in Others(s, i) : t.tasks[j] = s.tasks[j]
  BY <1>2 DEF Without, Others
<1> HIDE DEF t
<1>4. Tidy(t)
  <2>1. IsFiniteSet(DOMAIN t.tasks)
    BY <1>1, <1>3, FS_Subset DEF Others
  <2> QED
    BY <1>2, <1>3, <2>1 DEF Tidy, Shape, Others
<1>5. ASSUME NEW a, Owed(s, a), ~Owes(s.tasks[i], a) PROVE Owed(t, a)
  BY <1>3, <1>5 DEF Owed, Others
<1>6. Carry(d, s, Others(s, i), t, DOMAIN t.tasks, ReadAts)
  <2>1. Others(s, i) \subseteq DOMAIN s.tasks
    BY DEF Others
  <2> QED
    BY <1>2, <1>3, <2>1, StepCarries
<1>7. (\A a : ~Owes(s.tasks[i], a)) => KeepsOwed(s, t)
  BY <1>5, Zenon DEF KeepsOwed
<1> QED
  BY <1>2, <1>4, <1>5, <1>6, <1>7, Zenon DEF t, Follows

\* An async function returns.
LEMMA FinishCarries ==
    ASSUME NEW d, NEW s, Tidy(s), NEW i \in DOMAIN s.tasks, NEW value
    PROVE  LET t == Finish(s, i, value) IN
           Follows(d, s, Others(s, i), t, DOMAIN t.tasks, {"tasks", "attempts"}, ReadAts)
<1>1. CASE s.tasks[i].then = <<>>
  <2>1. Finish(s, i, value) = End(s, i)
    BY <1>1 DEF Finish
  <2>2. \A a : ~Owes(s.tasks[i], a)
    BY <1>1 DEF Owes, ToSet
  <2> QED
    BY <2>1, <2>2, EndCarries, Zenon
<1>2. CASE s.tasks[i].then # <<>>
  <2> DEFINE new == [s.tasks[i] EXCEPT !.at = "return", !.key = NoId, !.fresh = FALSE, !.phase = "run",
                                       !.res = value, !.view = {}]
             t == [s EXCEPT !.tasks[i] = new]
  <2>1. Finish(s, i, value) = t
    BY <1>2 DEF Finish
  <2>2. DOMAIN s = AppFields /\ IsFiniteSet(DOMAIN s.tasks) /\ DOMAIN s.tasks[i] = TaskFields
    BY DEF Tidy, Shape
  <2>3. /\ DOMAIN new = TaskFields /\ new.at = "return" /\ new.then = s.tasks[i].then /\ ~new.fresh /\ new.phase = "run"
    BY <2>2 DEF TaskFields
  <2> HIDE DEF new
  <2>4. /\ SameExcept(s, t, {"tasks", "attempts"}) /\ DOMAIN t.tasks = DOMAIN s.tasks /\ t.tasks[i] = new
        /\ \A j \in Others(s, i) : t.tasks[j] = s.tasks[j]
        /\ DOMAIN t = AppFields /\ t.missed = s.missed
    BY <2>2 DEF SameExcept, AppFields, Others
  <2> HIDE DEF t
  <2>5. Tidy(t)
    BY <2>2, <2>3, <2>4 DEF Tidy, Shape, Others
  <2>6. \A j \in DOMAIN s.tasks : t.tasks[j].then = s.tasks[j].then
    BY <2>3, <2>4 DEF Others
  <2>7. KeepsOwed(s, t)
    BY <2>4, <2>6 DEF KeepsOwed, Owed, Owes
  <2>8. Carry(d, s, Others(s, i), t, DOMAIN t.tasks, ReadAts)
    <3>1. Others(s, i) \subseteq DOMAIN s.tasks /\ DOMAIN t.tasks \ Others(s, i) = {i}
      BY <2>4 DEF Others
    <3>2. ~t.tasks[i].fresh /\ KnownTask(d, t.tasks[i])
      BY <2>3, <2>4 DEF KnownTask, Knowable
    <3>3. KnownTasks(d, s, Others(s, i)) => \A f \in ToSet(t.tasks[i].then) : KnownFrame(d, f)
      BY <2>3, <2>4 DEF KnownTasks
    <3> QED
      BY <2>4, <3>1, <3>2, <3>3, StepCarries
  <2> QED
    BY <2>1, <2>4, <2>5, <2>7, <2>8, Zenon DEF Follows
<1> QED
  BY <1>1, <1>2

\* The frames of the running task are replaced.
LEMMA FramesCarry ==
    ASSUME NEW d, NEW s, Tidy(s), NEW i \in DOMAIN s.tasks, NEW q, NEW X, q \in Seq(X),
           KnownTasks(d, s, Others(s, i)) => \A f \in ToSet(q) : KnownFrame(d, f)
    PROVE  LET t == [s EXCEPT !.tasks[i].then = q] IN
           /\ Tidy(t) /\ SameExcept(s, t, {"tasks"}) /\ DOMAIN t.tasks = DOMAIN s.tasks /\ Others(t, i) = Others(s, i)
           /\ Carry(d, s, Others(s, i), t, Others(s, i), ReadAts)
           /\ t.tasks[i].then = q
           /\ \A a : Owed(s, a) /\ (Owes(s.tasks[i], a) => Owes(t.tasks[i], a)) => Owed(t, a)
<1> DEFINE new == [s.tasks[i] EXCEPT !.then = q]
           t == [s EXCEPT !.tasks[i] = new]
<1>1. DOMAIN s = AppFields /\ IsFiniteSet(DOMAIN s.tasks) /\ DOMAIN s.tasks[i] = TaskFields
  BY DEF Tidy, Shape
<1>2. [s EXCEPT !.tasks[i].then = q] = t
  BY <1>1 DEF AppFields, TaskFields
<1>3. DOMAIN new = TaskFields /\ new.then = q
  BY <1>1 DEF TaskFields
<1> HIDE DEF new
<1>4. /\ SameExcept(s, t, {"tasks"}) /\ DOMAIN t.tasks = DOMAIN s.tasks /\ t.tasks[i] = new
      /\ \A j \in Others(s, i) : t.tasks[j] = s.tasks[j]
      /\ DOMAIN t = AppFields /\ t.missed = s.missed
  BY <1>1 DEF SameExcept, AppFields, Others
<1> HIDE DEF t
<1>5. Tidy(t)
  <2>1. DOMAIN t.tasks[i] = TaskFields /\ \E Y : t.tasks[i].then \in Seq(Y)
    BY <1>3, <1>4
  <2>2. \A j \in Others(s, i) : DOMAIN t.tasks[j] = TaskFields /\ \E Y : t.tasks[j].then \in Seq(Y)
    BY <1>4 DEF Others, Tidy
  <2> QED
    BY <1>1, <1>4, <2>1, <2>2 DEF Tidy, Shape, Others
<1>6. Others(t, i) = Others(s, i) /\ Others(s, i) \subseteq DOMAIN s.tasks /\ DOMAIN t.tasks \ Others(s, i) = {i}
  BY <1>4 DEF Others
<1>7. Carry(d, s, Others(s, i), t, Others(s, i), ReadAts)
  BY <1>3, <1>4, <1>6, StepCarries
<1>8. ASSUME NEW a, Owed(s, a), Owes(s.tasks[i], a) => Owes(t.tasks[i], a) PROVE Owed(t, a)
  BY <1>4, <1>8 DEF Owed, Others
<1> QED
  BY <1>2, <1>3, <1>4, <1>5, <1>6, <1>7, <1>8, Zenon

\* A frame is pushed.
LEMMA PushCarries ==
    ASSUME NEW d, NEW s, Tidy(s), NEW i \in DOMAIN s.tasks, NEW f,
           KnownTasks(d, s, Others(s, i)) => KnownFrame(d, f)
    PROVE  LET t == Push(s, i, f) IN
           /\ Follows(d, s, Others(s, i), t, Others(s, i), {"tasks"}, ReadAts)
           /\ DOMAIN t.tasks = DOMAIN s.tasks /\ Others(t, i) = Others(s, i)
           /\ f.do = "statuses" => Owed(t, f.key.accountKey)
<1> DEFINE q == <<f>> \o s.tasks[i].then
           t == [s EXCEPT !.tasks[i].then = q]
<1>1. Push(s, i, f) = t
  BY DEF Push, Tidy, Shape, AppFields, TaskFields
<1>2. PICK X : s.tasks[i].then \in Seq(X)
  BY DEF Tidy
<1>3. q \in Seq(X \cup {f}) /\ ToSet(q) = {f} \cup ToSet(s.tasks[i].then)
  <2> DEFINE p == s.tasks[i].then
  <2>1. p \in Seq(X \cup {f}) /\ <<f>> \in Seq(X \cup {f})
    BY <1>2
  <2>2. q \in Seq(X \cup {f}) /\ Len(q) = 1 + Len(p) /\ q[1] = f /\ \A k \in 1..Len(p) : q[k + 1] = p[k]
    BY <2>1
  <2> HIDE DEF p, q
  <2>3. \A k \in 1..Len(q) : k = 1 \/ (k - 1 \in 1..Len(p) /\ q[k] = p[k - 1])
    BY <2>1, <2>2
  <2>4. DOMAIN p = 1..Len(p) /\ DOMAIN q = 1..Len(q)
    BY <2>1, <2>2
  <2>5. ToSet(q) = {f} \cup ToSet(p)
    <3>1. ASSUME NEW x \in ToSet(q) PROVE x \in {f} \cup ToSet(p)
      BY <2>2, <2>3, <2>4 DEF ToSet
    <3>2. ASSUME NEW x \in ToSet(p) PROVE x \in ToSet(q)
      <4>1. PICK k \in 1..Len(p) : x = p[k]
        BY <2>4, <3>2 DEF ToSet
      <4>2. k + 1 \in 1..Len(q) /\ q[k + 1] = x
        BY <2>1, <2>2, <4>1
      <4> QED
        BY <2>4, <4>2 DEF ToSet
    <3>3. f \in ToSet(q)
      BY <2>1, <2>2, <2>4 DEF ToSet
    <3> QED
      BY <3>1, <3>2, <3>3
  <2> QED
    BY <2>2, <2>5 DEF p
<1> HIDE DEF q
<1>4. KnownTasks(d, s, Others(s, i)) => \A g \in ToSet(q) : KnownFrame(d, g)
  BY <1>3 DEF KnownTasks
<1>5. /\ Tidy(t) /\ SameExcept(s, t, {"tasks"}) /\ DOMAIN t.tasks = DOMAIN s.tasks /\ Others(t, i) = Others(s, i)
      /\ Carry(d, s, Others(s, i), t, Others(s, i), ReadAts)
      /\ t.tasks[i].then = q
      /\ \A a : Owed(s, a) /\ (Owes(s.tasks[i], a) => Owes(t.tasks[i], a)) => Owed(t, a)
  BY <1>3, <1>4, FramesCarry, Zenon
<1> HIDE DEF t
<1>6. KeepsOwed(s, t)
  BY <1>3, <1>5 DEF KeepsOwed, Owes
<1>7. f.do = "statuses" => Owed(t, f.key.accountKey)
  BY <1>3, <1>5 DEF Owed, Owes
<1> QED
  BY <1>1, <1>5, <1>6, <1>7, Zenon DEF Follows

\* The frame that continues is taken off.
LEMMA PopCarries ==
    ASSUME NEW d, NEW s, Tidy(s), NEW i \in DOMAIN s.tasks, s.tasks[i].then # <<>>
    PROVE  LET t == [s EXCEPT !.tasks[i].then = Tail(@)]
               f == Head(s.tasks[i].then)
           IN
           /\ Tidy(t) /\ SameExcept(s, t, {"tasks"}) /\ DOMAIN t.tasks = DOMAIN s.tasks /\ Others(t, i) = Others(s, i)
           /\ Carry(d, s, Others(s, i), t, Others(s, i), ReadAts)
           /\ t.tasks[i].then = Tail(s.tasks[i].then) /\ f \in ToSet(s.tasks[i].then)
           /\ f.do # "statuses" => KeepsOwed(s, t)
           /\ \A a : Owed(s, a) /\ f.key.accountKey # a => Owed(t, a)
<1> DEFINE p == s.tasks[i].then
           q == Tail(p)
           f == Head(p)
           t == [s EXCEPT !.tasks[i].then = q]
<1>1. [s EXCEPT !.tasks[i].then = Tail(@)] = t
  BY DEF Tidy, Shape, AppFields, TaskFields
<1>2. PICK X : p \in Seq(X)
  BY DEF Tidy
<1>3. q \in Seq(X) /\ ToSet(p) = {f} \cup ToSet(q)
  <2> HIDE DEF p
  <2>1. p # <<>>
    BY DEF p
  <2>2. q \in Seq(X) /\ Len(p) \in Nat \ {0} /\ Len(q) = Len(p) - 1 /\ f = p[1] /\ \A k \in 1..Len(q) : q[k] = p[k + 1]
    BY <1>2, <2>1
  <2> HIDE DEF q, f
  <2>3. DOMAIN p = 1..Len(p) /\ DOMAIN q = 1..Len(q)
    BY <1>2, <2>2
  <2>4. ASSUME NEW x \in ToSet(p) PROVE x \in {f} \cup ToSet(q)
    <3>1. PICK k \in 1..Len(p) : x = p[k]
      BY <2>3, <2>4 DEF ToSet
    <3>2. CASE k = 1
      BY <2>2, <3>1, <3>2
    <3>3. CASE k # 1
      <4>1. k - 1 \in 1..Len(q) /\ q[k - 1] = p[k]
        BY <2>2, <3>1, <3>3
      <4> QED
        BY <2>3, <3>1, <4>1 DEF ToSet
    <3> QED
      BY <3>2, <3>3
  <2>5. ASSUME NEW x \in ToSet(q) PROVE x \in ToSet(p)
    <3>1. PICK k \in 1..Len(q) : x = q[k]
      BY <2>3, <2>5 DEF ToSet
    <3>2. k + 1 \in 1..Len(p) /\ p[k + 1] = x
      BY <2>2, <3>1
    <3> QED
      BY <2>3, <3>2 DEF ToSet
  <2>6. f \in ToSet(p)
    BY <2>2, <2>3 DEF ToSet
  <2> QED
    BY <2>2, <2>4, <2>5, <2>6
<1> HIDE DEF q, f, p
<1>4. KnownTasks(d, s, Others(s, i)) => \A g \in ToSet(q) : KnownFrame(d, g)
  BY <1>3 DEF KnownTasks, p
<1>5. /\ Tidy(t) /\ SameExcept(s, t, {"tasks"}) /\ DOMAIN t.tasks = DOMAIN s.tasks /\ Others(t, i) = Others(s, i)
      /\ Carry(d, s, Others(s, i), t, Others(s, i), ReadAts)
      /\ t.tasks[i].then = q
      /\ \A a : Owed(s, a) /\ (Owes(s.tasks[i], a) => Owes(t.tasks[i], a)) => Owed(t, a)
  BY <1>3, <1>4, FramesCarry, Zenon
<1> HIDE DEF t
<1>6. \A a : (Owes(s.tasks[i], a) => Owes(t.tasks[i], a)) \/ (f.do = "statuses" /\ f.key.accountKey = a)
  BY <1>3, <1>5 DEF Owes, p
<1>7. f.do # "statuses" => KeepsOwed(s, t)
  BY <1>5, <1>6, Zenon DEF KeepsOwed
<1>8. \A a : Owed(s, a) /\ f.key.accountKey # a => Owed(t, a)
  BY <1>5, <1>6, Zenon
<1>9. f \in ToSet(s.tasks[i].then)
  BY <1>3 DEF p
<1> QED
  BY <1>1, <1>5, <1>7, <1>8, <1>9, Zenon DEF q, f, p
\* The reads that a generation counter does not guard.
Apart(g) == {at \in ReadAts : \A key : Generation(at, key) # g}

\* What the counters leave alone.
LEMMA Aparts ==
    \A key :
        /\ Apart(Window) = ReadAts \ WindowAts /\ Generation("view", key) = Window
        /\ Apart(<<"body", None>>) = ReadAts \ {"body"} /\ Generation("body", key) = <<"body", None>>
        /\ Apart(<<"mailboxes", None>>) = ReadAts \ {"mailboxes"} /\ Generation("mailboxes", key) = <<"mailboxes", None>>
        /\ Apart(<<"accounts", None>>) = ReadAts \ {"accounts"} /\ Generation("accounts", key) = <<"accounts", None>>
        /\ ReadAts \ {"statuses"} \subseteq Apart(Generation("statuses", key))
        /\ Apart(Generation("materialize", key)) = ReadAts /\ Apart(Generation("subscribe", key)) = ReadAts
<1>1. \A at, key :
         /\ at \in WindowAts => Generation(at, key) = <<"window", None>>
         /\ at = "statuses" => Generation(at, key) = <<at, key.accountKey>>
         /\ at \notin WindowAts \cup {"statuses"} => Generation(at, key) = <<at, None>>
  BY DEF Generation, Window, WindowAts
<1>2. Apart(Window) = ReadAts \ WindowAts
  BY <1>1 DEF Apart, ReadAts, WindowAts, Window
<1>3. ASSUME NEW b \in {"body", "mailboxes", "accounts"} PROVE Apart(<<b, None>>) = ReadAts \ {b}
  <2>1. ASSUME NEW at \in ReadAts \ {b}, NEW key PROVE Generation(at, key) # <<b, None>>
    BY <1>1 DEF ReadAts, WindowAts
  <2>2. \A key : Generation(b, key) = <<b, None>>
    BY <1>1 DEF WindowAts
  <2> QED
    BY <2>1, <2>2 DEF Apart
<1>4. ASSUME NEW key
      PROVE  /\ Generation("view", key) = Window /\ Generation("body", key) = <<"body", None>>
             /\ Generation("mailboxes", key) = <<"mailboxes", None>> /\ Generation("accounts", key) = <<"accounts", None>>
  BY <1>1 DEF WindowAts, Window
<1>5. ASSUME NEW key PROVE ReadAts \ {"statuses"} \subseteq Apart(Generation("statuses", key))
  BY <1>1 DEF Apart, ReadAts, WindowAts
<1>6. ASSUME NEW key
      PROVE  Apart(Generation("materialize", key)) = ReadAts /\ Apart(Generation("subscribe", key)) = ReadAts
  BY <1>1 DEF Apart, ReadAts, WindowAts
<1> QED
  BY <1>2, <1>3, <1>4, <1>5, <1>6, Zenon

\* A task that is outdated is known as it was.
LEMMA OutdatedIsKnown ==
    ASSUME NEW d, NEW a, NEW b, Outdated(a, b)
    PROVE  /\ KnownTask(d, a) => KnownTask(d, b)
           /\ b.then = a.then /\ b.at = a.at /\ b.key = a.key /\ \A e : Retries(a, e) => Retries(b, e)
           /\ DOMAIN b = TaskFields
<1>1. b.at = a.at /\ b.key = a.key /\ b.phase = a.phase /\ b.res = a.res /\ b.then = a.then
  BY DEF Outdated, TaskFields
<1>2. KnownTask(d, a) => KnownTask(d, b)
  BY <1>1, Zenon DEF KnownTask, Sound
<1> QED
  BY <1>1, <1>2, Zenon DEF Retries, Outdated

\* A generation of reads is superseded.
LEMMA SupersedeCarries ==
    ASSUME NEW d, NEW s, Tidy(s), NEW S \in SUBSET DOMAIN s.tasks, NEW g
    PROVE  LET t == Supersede(s, g) IN
           /\ Follows(d, s, S, t, S, {"tasks"}, Apart(g)) /\ DOMAIN t.tasks = DOMAIN s.tasks
           /\ \A at, key : Generation(at, key) = g => Reads(t.tasks, S, at, key) = {}
<1> DEFINE t == Supersede(s, g)
<1>1. /\ DOMAIN t = AppFields /\ DOMAIN t.tasks = DOMAIN s.tasks
      /\ \A f \in AppFields \ {"tasks"} : t[f] = s[f]
      /\ \A j \in DOMAIN s.tasks : Outdated(s.tasks[j], t.tasks[j])
      /\ \A j \in DOMAIN s.tasks : Generation(s.tasks[j].at, s.tasks[j].key) # g => t.tasks[j] = s.tasks[j]
      /\ \A j \in DOMAIN s.tasks : Generation(s.tasks[j].at, s.tasks[j].key) = g => ~t.tasks[j].fresh
  BY Superseded DEF Tidy
<1> HIDE DEF t
<1>2. \A j \in DOMAIN s.tasks :
         /\ t.tasks[j].then = s.tasks[j].then /\ t.tasks[j].at = s.tasks[j].at /\ t.tasks[j].key = s.tasks[j].key
         /\ KnownTask(d, s.tasks[j]) => KnownTask(d, t.tasks[j])
         /\ \A e : Retries(s.tasks[j], e) => Retries(t.tasks[j], e)
         /\ DOMAIN t.tasks[j] = TaskFields
  BY <1>1, OutdatedIsKnown, Zenon
<1>3. SameExcept(s, t, {"tasks"}) /\ t.missed = s.missed
  BY <1>1 DEF SameExcept, Tidy, Shape, AppFields
<1>4. Tidy(t)
  BY <1>1, <1>2 DEF Tidy, Shape
<1>5. KeepsOwed(s, t)
  BY <1>1, <1>2 DEF KeepsOwed, Owed, Owes
<1>6. ASSUME NEW at, NEW key, Generation(at, key) # g PROVE SameRead(s, S, t, S, at, key)
  <2>1. \A j \in S : s.tasks[j].at = at /\ s.tasks[j].fresh /\ s.tasks[j].key = key => j \in S /\ t.tasks[j] = s.tasks[j]
    BY <1>1, <1>6
  <2>2. \A j \in S : t.tasks[j].at = at /\ t.tasks[j].fresh /\ t.tasks[j].key = key => j \in S /\ t.tasks[j] = s.tasks[j]
    BY <1>1, <1>2, <1>6
  <2>3. Reads(t.tasks, S, at, key) = Reads(s.tasks, S, at, key)
    BY <2>1, <2>2, ReadsAreSame
  <2> QED
    BY <1>3, <2>3 DEF SameRead
<1>7. \A e : Retried(s, S, e) => Retried(t, S, e)
  BY <1>2 DEF Retried
<1>8. KnownTasks(d, s, S) => KnownTasks(d, t, S)
  BY <1>1, <1>2 DEF KnownTasks
<1>9. Carry(d, s, S, t, S, Apart(g))
  BY <1>6, <1>7, <1>8 DEF Carry, Apart
<1>10. \A at, key : Generation(at, key) = g => Reads(t.tasks, S, at, key) = {}
  BY <1>1, <1>2 DEF Reads
<1> QED
  BY <1>1, <1>3, <1>4, <1>5, <1>9, <1>10, Zenon DEF t, Follows

\* The running task may ask for it.
Askable(d, s, i, at, key) ==
    at \in ReadingAts /\ Knowable(d, at, key) /\ (at = "subscribe" => s.tasks[i].then = <<>>)

\* The task asks for it: no other read of the generation is left.
Asking(s, S, t, i, at, key) ==
    /\ SameExcept(s, t, {"tasks", "missed"})
    /\ \A b, k : Generation(b, k) # Generation(at, key) => SameRead(s, S, t, DOMAIN t.tasks, b, k)
    /\ \A b, k : Generation(b, k) = Generation(at, key) /\ <<b, k>> # <<at, key>> => Reads(t.tasks, DOMAIN t.tasks, b, k) = {}
    /\ Reads(t.tasks, DOMAIN t.tasks, at, key) = {t.tasks[i]}
    /\ t.tasks[i].phase = "asked" /\ t.tasks[i].at = at /\ t.tasks[i].key = key

\* The running task awaits a read.
LEMMA AwaitCarries ==
    ASSUME NEW d, NEW s, Tidy(s), NEW i \in DOMAIN s.tasks, NEW at, NEW key, Askable(d, s, i, at, key)
    PROVE  LET t == Await(s, i, at, key) IN
           /\ Follows(d, s, Others(s, i), t, DOMAIN t.tasks, {"tasks", "missed"}, Apart(Generation(at, key)))
           /\ DOMAIN t.tasks = DOMAIN s.tasks
           /\ Asking(s, Others(s, i), t, i, at, key)
<1> DEFINE t == Await(s, i, at, key)
           g == Generation(at, key)
<1>0. /\ Shape(s) /\ \A j \in DOMAIN s.tasks : DOMAIN s.tasks[j] = TaskFields
      /\ at \in ReadingAts /\ Knowable(d, at, key) /\ (at = "subscribe" => s.tasks[i].then = <<>>)
  BY DEF Tidy, Askable
<1>1. /\ SameExcept(s, t, {"tasks", "missed"}) /\ DOMAIN t.tasks = DOMAIN s.tasks
      /\ t.missed = s.missed \ {<<at, key.accountKey>>}
      /\ \A j \in Others(s, i) : Outdated(s.tasks[j], t.tasks[j])
      /\ \A j \in Others(s, i) : Generation(s.tasks[j].at, s.tasks[j].key) # g => t.tasks[j] = s.tasks[j]
      /\ \A j \in Others(s, i) : Generation(s.tasks[j].at, s.tasks[j].key) = g => ~t.tasks[j].fresh
      /\ t.tasks[i].at = at /\ t.tasks[i].key = key /\ t.tasks[i].fresh /\ t.tasks[i].phase = "asked"
      /\ t.tasks[i].view = {} /\ t.tasks[i].owner = s.tasks[i].owner /\ t.tasks[i].then = s.tasks[i].then
      /\ DOMAIN t.tasks[i] = TaskFields
  BY <1>0, AwaitEffects
<1> HIDE DEF t
<1>2. \A j \in Others(s, i) :
         /\ t.tasks[j].then = s.tasks[j].then /\ t.tasks[j].at = s.tasks[j].at /\ t.tasks[j].key = s.tasks[j].key
         /\ KnownTask(d, s.tasks[j]) => KnownTask(d, t.tasks[j])
         /\ \A e : Retries(s.tasks[j], e) => Retries(t.tasks[j], e)
         /\ DOMAIN t.tasks[j] = TaskFields
  <2> TAKE j \in Others(s, i)
  <2>1. Outdated(s.tasks[j], t.tasks[j])
    BY <1>1, Zenon
  <2> QED
    BY <2>1, OutdatedIsKnown, Zenon
<1>3. Others(s, i) \subseteq DOMAIN s.tasks /\ DOMAIN s.tasks \subseteq Others(s, i) \cup {i}
  BY DEF Others
<1>4. Tidy(t)
  BY <1>0, <1>1, <1>2, <1>3 DEF Tidy, Shape, SameExcept
<1>5. KeepsOwed(s, t)
  BY <1>1, <1>2, <1>3 DEF KeepsOwed, Owed, Owes
<1>6. ASSUME NEW b, NEW k, Generation(b, k) # g PROVE SameRead(s, Others(s, i), t, DOMAIN t.tasks, b, k)
  <2>1. \A j \in Others(s, i) : s.tasks[j].at = b /\ s.tasks[j].fresh /\ s.tasks[j].key = k =>
                                   j \in DOMAIN t.tasks /\ t.tasks[j] = s.tasks[j]
    BY <1>1, <1>3, <1>6
  <2>2. ASSUME NEW j \in DOMAIN t.tasks, t.tasks[j].at = b, t.tasks[j].fresh, t.tasks[j].key = k
        PROVE  j \in Others(s, i) /\ t.tasks[j] = s.tasks[j]
    <3>1. j # i
      BY <1>1, <1>6, <2>2
    <3> QED
      BY <1>1, <1>2, <1>3, <1>6, <2>2, <3>1
  <2>3. Reads(t.tasks, DOMAIN t.tasks, b, k) = Reads(s.tasks, Others(s, i), b, k)
    BY <2>1, <2>2, ReadsAreSame
  <2>4. <<b, k.accountKey>> # <<at, key.accountKey>>
    <3> SUFFICES ASSUME b = at, k.accountKey = key.accountKey PROVE FALSE
      OBVIOUS
    <3> QED
      BY <1>6 DEF Generation, g
  <2> QED
    BY <1>1, <2>3, <2>4 DEF SameRead
<1>7. \A e : Retried(s, Others(s, i), e) => Retried(t, DOMAIN t.tasks, e)
  BY <1>1, <1>2, <1>3 DEF Retried
<1>8. KnownTasks(d, s, Others(s, i)) => KnownTasks(d, t, DOMAIN t.tasks)
  <2>1. KnownTask(d, t.tasks[i])
    BY <1>0, <1>1 DEF KnownTask
  <2> QED
    BY <1>1, <1>2, <1>3, <2>1 DEF KnownTasks
<1>9. Carry(d, s, Others(s, i), t, DOMAIN t.tasks, Apart(g))
  BY <1>6, <1>7, <1>8 DEF Carry, Apart
<1>10. ASSUME NEW b, NEW k, Generation(b, k) = g PROVE Reads(t.tasks, DOMAIN t.tasks, b, k) \subseteq {t.tasks[i]}
  <2>1. \A j \in Others(s, i) : t.tasks[j].at = b /\ t.tasks[j].key = k => ~t.tasks[j].fresh
    BY <1>1, <1>2, <1>10
  <2> QED
    BY <1>1, <1>3, <2>1 DEF Reads
<1>11. Reads(t.tasks, DOMAIN t.tasks, at, key) = {t.tasks[i]}
  <2>1. t.tasks[i] \in Reads(t.tasks, DOMAIN t.tasks, at, key)
    BY <1>1 DEF Reads
  <2> QED
    BY <1>10, <2>1 DEF g
<1>12. ASSUME NEW b, NEW k, Generation(b, k) = g, <<b, k>> # <<at, key>> PROVE Reads(t.tasks, DOMAIN t.tasks, b, k) = {}
  <2>1. t.tasks[i] \notin Reads(t.tasks, DOMAIN t.tasks, b, k)
    BY <1>1, <1>12 DEF Reads
  <2> QED
    BY <1>10, <1>12, <2>1
<1> QED
  BY <1>1, <1>4, <1>5, <1>6, <1>9, <1>11, <1>12, Zenon DEF t, g, Follows, Asking

\* A call starts.
LEMMA SpawnCarries ==
    ASSUME NEW d, NEW s, Tidy(s), NEW owner
    PROVE  LET t == Spawn(s, owner)
               n == NextTask(s)
           IN
           /\ Follows(d, s, DOMAIN s.tasks, t, Others(t, n), {"tasks"}, ReadAts)
           /\ n \in DOMAIN t.tasks /\ Others(t, n) = DOMAIN s.tasks
           /\ t.tasks[n].then = <<>>
<1> DEFINE n == NextTask(s)
           new == [owner |-> owner, at |-> "run", key |-> NoId, fresh |-> FALSE, phase |-> "run",
                   res |-> None, view |-> {}, then |-> <<>>]
           tasks == With(s.tasks, Entry(n, new))
           t == [s EXCEPT !.tasks = tasks]
<1>1. Spawn(s, owner) = t
  BY DEF Spawn
<1>2. n \notin DOMAIN s.tasks
  BY NextTaskIsFree DEF Tidy
<1>3. DOMAIN new = TaskFields /\ new.then = <<>>
  BY DEF TaskFields
<1> HIDE DEF n, new
<1>4. DOMAIN tasks = DOMAIN s.tasks \cup {n} /\ tasks[n] = new /\ \A j \in DOMAIN s.tasks : tasks[j] = s.tasks[j]
  BY <1>2 DEF With, Entry
<1> HIDE DEF tasks
<1>5. DOMAIN s = AppFields /\ IsFiniteSet(DOMAIN s.tasks)
  BY DEF Tidy, Shape
<1>6. DOMAIN t = AppFields /\ t.tasks = tasks /\ SameExcept(s, t, {"tasks"}) /\ t.missed = s.missed
  BY <1>5 DEF AppFields, SameExcept
<1> HIDE DEF t
<1>7. Others(t, n) = DOMAIN s.tasks
  BY <1>2, <1>4, <1>6 DEF Others
<1>8. Tidy(t)
  <2>1. IsFiniteSet(DOMAIN s.tasks \cup {n})
    BY <1>5, FS_AddElement
  <2>2. <<>> \in Seq({})
    OBVIOUS
  <2>3. DOMAIN t.tasks[n] = TaskFields /\ \E X : t.tasks[n].then \in Seq(X)
    BY <1>3, <1>4, <1>6, <2>2
  <2>4. \A j \in DOMAIN s.tasks : DOMAIN t.tasks[j] = TaskFields /\ \E X : t.tasks[j].then \in Seq(X)
    BY <1>4, <1>6 DEF Tidy
  <2> QED
    BY <1>4, <1>6, <2>1, <2>3, <2>4 DEF Tidy, Shape
<1>9. KeepsOwed(s, t)
  BY <1>4, <1>6 DEF KeepsOwed, Owed
<1>10. Carry(d, s, DOMAIN s.tasks, t, Others(t, n), ReadAts)
  <2>1. \A f \in ToSet(t.tasks[n].then) : KnownFrame(d, f)
    BY <1>3, <1>4, <1>6 DEF ToSet
  <2> QED
    BY <1>4, <1>6, <1>7, <2>1, StepCarries
<1> QED
  BY <1>1, <1>3, <1>4, <1>6, <1>7, <1>8, <1>9, <1>10, Zenon DEF n, Follows

\* An attempt on a body starts: what it says of the body is what its own answer will say.
LEMMA MaterializeCarries ==
    ASSUME NEW d, NEW s, Tidy(s), NEW S \in SUBSET DOMAIN s.tasks, NEW e, e # NoId,
           NEW t, NEW n, Started(s, t, n, e)
    PROVE  /\ Follows(d, s, S, t, S \cup {n}, {"tasks", "attempts", "materializing", "bodyError", "missed"}, ReadAts)
           /\ DOMAIN t.tasks = DOMAIN s.tasks \cup {n} /\ n \notin DOMAIN s.tasks
           /\ \A j \in DOMAIN s.tasks : t.tasks[j].then = s.tasks[j].then
           /\ Retried(t, S \cup {n}, e)
<1>1. /\ SameExcept(s, t, {"tasks", "attempts", "materializing", "bodyError", "missed"})
      /\ n \notin DOMAIN s.tasks /\ DOMAIN t.tasks = DOMAIN s.tasks \cup {n}
      /\ \A j \in DOMAIN s.tasks : Outdated(s.tasks[j], t.tasks[j])
      /\ \A j \in DOMAIN s.tasks : s.tasks[j].at # "materialize" => t.tasks[j] = s.tasks[j]
      /\ t.missed = s.missed \ {<<"materialize", e.accountKey>>}
      /\ t.tasks[n].at = "materialize" /\ t.tasks[n].key = e /\ t.tasks[n].phase = "asked" /\ t.tasks[n].then = <<>>
      /\ DOMAIN t.tasks[n] = TaskFields
  BY DEF Started, GoodTask
<1>2. ASSUME NEW j \in DOMAIN s.tasks
      PROVE  /\ t.tasks[j].then = s.tasks[j].then /\ t.tasks[j].at = s.tasks[j].at /\ t.tasks[j].key = s.tasks[j].key
             /\ KnownTask(d, s.tasks[j]) => KnownTask(d, t.tasks[j])
             /\ \A f : Retries(s.tasks[j], f) => Retries(t.tasks[j], f)
             /\ DOMAIN t.tasks[j] = TaskFields
  <2>1. Outdated(s.tasks[j], t.tasks[j])
    BY <1>1, Zenon
  <2> QED
    BY <2>1, OutdatedIsKnown, Zenon
<1>3. Tidy(t)
  <2>1. IsFiniteSet(DOMAIN s.tasks) /\ DOMAIN s = AppFields
    BY DEF Tidy, Shape
  <2>2. IsFiniteSet(DOMAIN t.tasks)
    BY <1>1, <2>1, FS_AddElement
  <2>3. DOMAIN t = AppFields
    BY <1>1, <2>1 DEF SameExcept
  <2>4. <<>> \in Seq({})
    OBVIOUS
  <2>5. \E X : t.tasks[n].then \in Seq(X)
    BY <1>1, <2>4
  <2>6. \A j \in DOMAIN s.tasks : \E X : t.tasks[j].then \in Seq(X)
    BY <1>2 DEF Tidy
  <2> QED
    BY <1>1, <1>2, <2>2, <2>3, <2>5, <2>6 DEF Tidy, Shape
<1>4. KeepsOwed(s, t)
  BY <1>1, <1>2 DEF KeepsOwed, Owed, Owes
<1>5. ASSUME NEW at \in ReadAts, NEW key PROVE SameRead(s, S, t, S \cup {n}, at, key)
  <2>1. at # "materialize"
    BY DEF ReadAts
  <2>2. \A j \in S : s.tasks[j].at = at /\ s.tasks[j].fresh /\ s.tasks[j].key = key =>
                        j \in S \cup {n} /\ t.tasks[j] = s.tasks[j]
    BY <1>1, <2>1
  <2>3. \A j \in S \cup {n} : t.tasks[j].at = at /\ t.tasks[j].fresh /\ t.tasks[j].key = key =>
                        j \in S /\ t.tasks[j] = s.tasks[j]
    BY <1>1, <1>2, <2>1
  <2>4. Reads(t.tasks, S \cup {n}, at, key) = Reads(s.tasks, S, at, key)
    BY <2>2, <2>3, ReadsAreSame
  <2> QED
    BY <1>1, <2>1, <2>4 DEF SameRead
<1>6. \A f : Retried(s, S, f) => Retried(t, S \cup {n}, f)
  BY <1>2 DEF Retried
<1>7. KnownTasks(d, s, S) => KnownTasks(d, t, S \cup {n})
  <2>1. KnownTask(d, t.tasks[n]) /\ \A f \in ToSet(t.tasks[n].then) : KnownFrame(d, f)
    BY <1>1 DEF KnownTask, Knowable, ToSet
  <2> QED
    BY <1>1, <1>2, <2>1 DEF KnownTasks
<1>8. Carry(d, s, S, t, S \cup {n}, ReadAts)
  BY <1>5, <1>6, <1>7 DEF Carry
<1>9. Retried(t, S \cup {n}, e)
  BY <1>1 DEF Retried, Retries
<1> QED
  BY <1>1, <1>2, <1>3, <1>4, <1>8, <1>9, Zenon DEF Follows
\* One step after the other.
LEMMA FollowOn ==
    ASSUME NEW d, NEW s, NEW S, NEW t, NEW T, NEW u, NEW U, NEW F, NEW G, NEW ats, NEW bts,
           Follows(d, s, S, t, T, F, ats), Follows(d, t, T, u, U, G, bts)
    PROVE  Follows(d, s, S, u, U, F \cup G, ats \cap bts)
<1>1. Tidy(u)
  BY Zenon DEF Follows
<1>2. SameExcept(s, u, F \cup G)
  BY DEF Follows, SameExcept
<1>3. KeepsOwed(s, u)
  BY Zenon DEF Follows, KeepsOwed
<1>4. Carry(d, s, S, u, U, ats \cap bts)
  <2>1. ats \cap bts \subseteq ats /\ ats \cap bts \subseteq bts
    OBVIOUS
  <2>2. Carry(d, s, S, t, T, ats) /\ Carry(d, t, T, u, U, bts)
    BY Zenon DEF Follows
  <2>3. Carry(d, s, S, t, T, ats \cap bts) /\ Carry(d, t, T, u, U, ats \cap bts)
    BY <2>1, <2>2, CarryLess, Zenon
  <2> QED
    BY <2>3, CarryOn, Zenon
<1> QED
  BY <1>1, <1>2, <1>3, <1>4, Zenon DEF Follows

\* A setter of the stores is such a step.
LEMMA SetFollows ==
    ASSUME NEW d, NEW s, Tidy(s), NEW S, NEW t, NEW F, SameExcept(s, t, F), F \cap {"tasks", "missed"} = {}
    PROVE  /\ Follows(d, s, S, t, S, F, ReadAts)
           /\ t.tasks = s.tasks /\ \A i : Others(t, i) = Others(s, i)
<1>1. DOMAIN s = AppFields
  BY DEF Tidy, Shape
<1>2. t.tasks = s.tasks /\ t.missed = s.missed /\ DOMAIN t = AppFields
  BY <1>1 DEF SameExcept, AppFields
<1>3. Carry(d, s, S, t, S, ReadAts) /\ KeepsOwed(s, t) /\ Tidy(t)
  BY <1>2, StoresCarry, Zenon
<1> QED
  BY <1>2, <1>3 DEF Follows, Others

\* The parts of the screen that a step leaves fresh.
LEMMA FollowedParts ==
    ASSUME NEW d, NEW H, NEW s, Tidy(s), NEW S, NEW t, NEW T, NEW F, NEW ats, Follows(d, s, S, t, T, F, ats)
    PROVE  /\ /\ AccountsFresh(d, H, s, S) /\ F \cap {"accounts", "subscribed"} = {} /\ "accounts" \in ats
              => AccountsFresh(d, H, t, T)
           /\ /\ MailboxesFresh(d, H, s, S) /\ F \cap {"account", "mailboxes"} = {} /\ {"accounts", "mailboxes"} \subseteq ats
              => MailboxesFresh(d, H, t, T)
           /\ /\ StatusesFresh(d, H, s, S) /\ F \cap {"account", "statuses"} = {} /\ {"accounts", "statuses"} \subseteq ats
              => StatusesFresh(d, H, t, T)
           /\ /\ WindowFresh(d, H, s, S) /\ F \cap {"account", "mailbox", "loadState", "view", "emails"} = {}
              /\ {"accounts", "mailboxes", "view", "emails"} \subseteq ats
              => WindowFresh(d, H, t, T)
           /\ /\ BodyFresh(d, H, s, S) /\ F \cap {"account", "mailbox", "loadState", "email", "bodyState", "bodyError"} = {}
              /\ {"accounts", "mailboxes", "body"} \subseteq ats
              => BodyFresh(d, H, t, T)
           /\ KnownTasks(d, s, S) => KnownTasks(d, t, T)
           /\ /\ KnownStores(d, s) /\ F \cap {"accounts", "account", "mailboxes", "mailbox", "email", "bodyState"} = {}
              => KnownStores(d, t)
<1>0. Carry(d, s, S, t, T, ats) /\ KeepsOwed(s, t) /\ SameExcept(s, t, F) /\ DOMAIN s = AppFields
  BY Zenon DEF Follows, Tidy, Shape
<1>1. \A f \in AppFields \ F : t[f] = s[f]
  BY <1>0 DEF SameExcept
<1>2. ASSUME AccountsFresh(d, H, s, S) /\ F \cap {"accounts", "subscribed"} = {} /\ "accounts" \in ats
      PROVE  AccountsFresh(d, H, t, T)
  <2>1. t.accounts = s.accounts /\ t.subscribed = s.subscribed
    BY <1>1, <1>2 DEF AppFields
  <2> QED
    BY <1>0, <1>2, <2>1, Carried
<1>3. ASSUME MailboxesFresh(d, H, s, S) /\ F \cap {"account", "mailboxes"} = {} /\ {"accounts", "mailboxes"} \subseteq ats
      PROVE  MailboxesFresh(d, H, t, T)
  <2>1. t.account = s.account /\ t.mailboxes = s.mailboxes
    BY <1>1, <1>3 DEF AppFields
  <2> QED
    BY <1>0, <1>3, <2>1, Carried
<1>4. ASSUME StatusesFresh(d, H, s, S) /\ F \cap {"account", "statuses"} = {} /\ {"accounts", "statuses"} \subseteq ats
      PROVE  StatusesFresh(d, H, t, T)
  <2>1. t.account = s.account /\ t.statuses = s.statuses
    BY <1>1, <1>4 DEF AppFields
  <2> QED
    BY <1>0, <1>4, <2>1, Carried
<1>5. ASSUME WindowFresh(d, H, s, S) /\ F \cap {"account", "mailbox", "loadState", "view", "emails"} = {}
             /\ {"accounts", "mailboxes", "view", "emails"} \subseteq ats
      PROVE  WindowFresh(d, H, t, T)
  <2>1. t.account = s.account /\ t.mailbox = s.mailbox /\ t.loadState = s.loadState /\ t.view = s.view /\ t.emails = s.emails
    BY <1>1, <1>5 DEF AppFields
  <2> QED
    BY <1>0, <1>5, <2>1, Carried
<1>6. ASSUME BodyFresh(d, H, s, S) /\ F \cap {"account", "mailbox", "loadState", "email", "bodyState", "bodyError"} = {}
             /\ {"accounts", "mailboxes", "body"} \subseteq ats
      PROVE  BodyFresh(d, H, t, T)
  <2>1. /\ t.account = s.account /\ t.mailbox = s.mailbox /\ t.loadState = s.loadState
        /\ t.email = s.email /\ t.bodyState = s.bodyState /\ t.bodyError = s.bodyError
    BY <1>1, <1>6 DEF AppFields
  <2> QED
    BY <1>0, <1>6, <2>1, Carried
<1>7. KnownTasks(d, s, S) => KnownTasks(d, t, T)
  BY <1>0, Zenon DEF Carry
<1>8. ASSUME KnownStores(d, s) /\ F \cap {"accounts", "account", "mailboxes", "mailbox", "email", "bodyState"} = {}
      PROVE  KnownStores(d, t)
  <2>1. /\ t.accounts = s.accounts /\ t.account = s.account /\ t.mailboxes = s.mailboxes
        /\ t.mailbox = s.mailbox /\ t.email = s.email /\ t.bodyState = s.bodyState
    BY <1>1, <1>8 DEF AppFields
  <2> QED
    BY <1>8, <2>1 DEF KnownStores
<1> QED
  BY <1>2, <1>3, <1>4, <1>5, <1>6, <1>7, <1>8, Zenon

\* Setters of the stores, then a read.
LEMMA AskFollows ==
    ASSUME NEW d, NEW s, Tidy(s), NEW i \in DOMAIN s.tasks, NEW v, NEW B, SameExcept(s, v, B), B \cap {"tasks", "missed"} = {},
           NEW at, NEW key, Askable(d, s, i, at, key)
    PROVE  LET t == Await(v, i, at, key) IN
           /\ Follows(d, s, Others(s, i), t, DOMAIN t.tasks, B \cup {"tasks", "missed"}, Apart(Generation(at, key)))
           /\ DOMAIN t.tasks = DOMAIN s.tasks
           /\ Asking(v, Others(s, i), t, i, at, key)
<1> DEFINE t == Await(v, i, at, key)
           O == Others(s, i)
<1>1. Follows(d, s, O, v, O, B, ReadAts) /\ v.tasks = s.tasks /\ Others(v, i) = O
  BY SetFollows
<1>2. Tidy(v) /\ i \in DOMAIN v.tasks /\ Askable(d, v, i, at, key)
  BY <1>1 DEF Follows, Askable
<1>3. /\ Follows(d, v, Others(v, i), t, DOMAIN t.tasks, {"tasks", "missed"}, Apart(Generation(at, key)))
      /\ DOMAIN t.tasks = DOMAIN v.tasks
      /\ Asking(v, Others(v, i), t, i, at, key)
  BY <1>2, AwaitCarries, Zenon
<1> HIDE DEF t
<1>4. Follows(d, v, O, t, DOMAIN t.tasks, {"tasks", "missed"}, Apart(Generation(at, key)))
  BY <1>1, <1>3, Zenon
<1>5. Follows(d, s, O, t, DOMAIN t.tasks, B \cup {"tasks", "missed"}, ReadAts \cap Apart(Generation(at, key)))
  BY <1>1, <1>4, FollowOn
<1>6. ReadAts \cap Apart(Generation(at, key)) = Apart(Generation(at, key))
  BY DEF Apart
<1>7. Follows(d, s, O, t, DOMAIN t.tasks, B \cup {"tasks", "missed"}, Apart(Generation(at, key)))
  BY <1>5, <1>6, Zenon
<1>8. DOMAIN t.tasks = DOMAIN s.tasks /\ Asking(v, O, t, i, at, key)
  BY <1>1, <1>3, Zenon
<1> QED
  BY <1>7, <1>8, Zenon DEF t

\* Setters of the stores, then the function returns.
LEMMA LeaveFollows ==
    ASSUME NEW d, NEW s, Tidy(s), NEW i \in DOMAIN s.tasks, NEW v, NEW B, SameExcept(s, v, B), B \cap {"tasks", "missed"} = {},
           NEW value
    PROVE  LET t == Finish(v, i, value) IN
           /\ Follows(d, s, Others(s, i), t, DOMAIN t.tasks, B \cup {"tasks", "attempts"}, ReadAts)
           /\ SameExcept(v, t, {"tasks", "attempts"})
<1> DEFINE t == Finish(v, i, value)
           O == Others(s, i)
<1>1. Follows(d, s, O, v, O, B, ReadAts) /\ v.tasks = s.tasks /\ Others(v, i) = O
  BY SetFollows
<1>2. Tidy(v) /\ i \in DOMAIN v.tasks
  BY <1>1, Zenon DEF Follows
<1>3. Follows(d, v, Others(v, i), t, DOMAIN t.tasks, {"tasks", "attempts"}, ReadAts)
  BY <1>2, FinishCarries
<1> HIDE DEF t
<1>4. Follows(d, v, O, t, DOMAIN t.tasks, {"tasks", "attempts"}, ReadAts) /\ SameExcept(v, t, {"tasks", "attempts"})
  BY <1>1, <1>3, Zenon DEF Follows
<1>5. Follows(d, s, O, t, DOMAIN t.tasks, B \cup {"tasks", "attempts"}, ReadAts \cap ReadAts)
  BY <1>1, <1>4, FollowOn
<1>6. ReadAts \cap ReadAts = ReadAts
  OBVIOUS
<1> QED
  BY <1>4, <1>5, <1>6, Zenon DEF t

\* A generation is superseded and the function returns.
LEMMA QuitFollows ==
    ASSUME NEW d, NEW s, Tidy(s), NEW i \in DOMAIN s.tasks, NEW g, NEW v, NEW B,
           SameExcept(Supersede(s, g), v, B), B \cap {"tasks", "missed"} = {}, NEW value
    PROVE  LET t == Finish(v, i, value) IN
           /\ Follows(d, s, Others(s, i), t, DOMAIN t.tasks, B \cup {"tasks", "attempts"}, Apart(g))
           /\ SameExcept(v, t, {"tasks", "attempts"})
<1> DEFINE u == Supersede(s, g)
           t == Finish(v, i, value)
           O == Others(s, i)
<1>1. O \in SUBSET DOMAIN s.tasks
  BY DEF Others
<1>2. Follows(d, s, O, u, O, {"tasks"}, Apart(g)) /\ DOMAIN u.tasks = DOMAIN s.tasks
  BY <1>1, SupersedeCarries
<1> HIDE DEF u
<1>3. Tidy(u) /\ Others(u, i) = O
  BY <1>2 DEF Follows, Others
<1>4. /\ Follows(d, u, Others(u, i), t, DOMAIN t.tasks, B \cup {"tasks", "attempts"}, ReadAts)
      /\ SameExcept(v, t, {"tasks", "attempts"})
  BY <1>2, <1>3, LeaveFollows DEF u
<1> HIDE DEF t
<1>5. Follows(d, u, O, t, DOMAIN t.tasks, B \cup {"tasks", "attempts"}, ReadAts)
  BY <1>3, <1>4, Zenon
<1>6. Follows(d, s, O, t, DOMAIN t.tasks, {"tasks"} \cup (B \cup {"tasks", "attempts"}), Apart(g) \cap ReadAts)
  BY <1>2, <1>5, FollowOn
<1>7. {"tasks"} \cup (B \cup {"tasks", "attempts"}) = B \cup {"tasks", "attempts"} /\ Apart(g) \cap ReadAts = Apart(g)
  BY DEF Apart
<1> QED
  BY <1>4, <1>6, <1>7, Zenon DEF t

\* What a call that runs may rely on.
Informed(d, s, i) ==
    Tidy(s) /\ i \in DOMAIN s.tasks /\ KnownStores(d, s) /\ KnownTasks(d, s, Others(s, i))

\* The body is reread.
LEMMA RefreshBodyIsFresh ==
    ASSUME NEW d, NEW F, NEW s, NEW i, Informed(d, s, i),
           AccountsFresh(d, F, s, Others(s, i)), MailboxesFresh(d, F, s, Others(s, i)),
           StatusesFresh(d, F, s, Others(s, i)), WindowFresh(d, F, s, Others(s, i))
    PROVE  LET t == RefreshSelectedBody(s, i) IN Fresh(d, F, t, DOMAIN t.tasks)
<1> DEFINE O == Others(s, i)
           B == {"body", "bodyState", "materializing", "bodyError"}
<1>0. Tidy(s) /\ i \in DOMAIN s.tasks /\ KnownStores(d, s) /\ KnownTasks(d, s, O) /\ DOMAIN s = AppFields
      /\ B \cap {"tasks", "missed"} = {}
  BY DEF Informed, Tidy, Shape
<1>1. ASSUME NEW t, NEW C, Follows(d, s, O, t, DOMAIN t.tasks, B \cup C, ReadAts \ {"body"}),
             C \subseteq {"tasks", "missed", "attempts"},
             t.bodyState \notin {"cached", "notCached"}, AnswersFit(d, Reads(t.tasks, DOMAIN t.tasks, "body", t.email)) \/ s.email = NoId
      PROVE  Fresh(d, F, t, DOMAIN t.tasks)
  <2>1. /\ t.email = s.email /\ t.accounts = s.accounts /\ t.account = s.account
        /\ t.mailboxes = s.mailboxes /\ t.mailbox = s.mailbox
    BY <1>0, <1>1 DEF Follows, SameExcept, AppFields
  <2>2. /\ KnownTasks(d, t, DOMAIN t.tasks) /\ AccountsFresh(d, F, t, DOMAIN t.tasks)
        /\ MailboxesFresh(d, F, t, DOMAIN t.tasks) /\ StatusesFresh(d, F, t, DOMAIN t.tasks)
        /\ WindowFresh(d, F, t, DOMAIN t.tasks)
    BY <1>0, <1>1, FollowedParts DEF ReadAts
  <2>3. KnownStores(d, t)
    BY <1>0, <1>1, <2>1 DEF KnownStores
  <2>4. BodyFresh(d, F, t, DOMAIN t.tasks)
    BY <1>1, <2>1 DEF BodyFresh
  <2> QED
    BY <2>2, <2>3, <2>4, Zenon DEF Fresh
<1>2. ASSUME s.email = NoId PROVE LET t == RefreshSelectedBody(s, i) IN Fresh(d, F, t, DOMAIN t.tasks)
  <2> DEFINE u == Supersede(s, <<"body", None>>)
             v == SetEmailBody(u, NoId, "idle")
             t == Finish(v, i, "stale")
  <2>1. RefreshSelectedBody(s, i) = t
    BY <1>2 DEF RefreshSelectedBody
  <2>2. SameExcept(u, v, B) /\ v.bodyState = "idle"
    <3>1. DOMAIN u = AppFields
      BY <1>0 DEF Supersede
    <3> QED
      BY <3>1, SetterEffects
  <2> HIDE DEF v
  <2>3. Follows(d, s, O, t, DOMAIN t.tasks, B \cup {"tasks", "attempts"}, Apart(<<"body", None>>))
        /\ SameExcept(v, t, {"tasks", "attempts"})
    BY <1>0, <2>2, QuitFollows
  <2>4. Apart(<<"body", None>>) = ReadAts \ {"body"}
    BY Aparts, Zenon
  <2> HIDE DEF t
  <2>5. t.bodyState = "idle"
    BY <2>2, <2>3 DEF SameExcept, Follows, Tidy, Shape, AppFields
  <2> QED
    BY <1>1, <1>2, <2>1, <2>3, <2>4, <2>5
<1>3. ASSUME s.email # NoId PROVE LET t == RefreshSelectedBody(s, i) IN Fresh(d, F, t, DOMAIN t.tasks)
  <2> DEFINE v == SetEmailBody(s, NoId, "loading")
             t == Await(v, i, "body", s.email)
  <2>1. RefreshSelectedBody(s, i) = t
    BY <1>3 DEF RefreshSelectedBody
  <2>2. SameExcept(s, v, B) /\ v.bodyState = "loading"
    BY <1>0, SetterEffects
  <2> HIDE DEF v
  <2>3. Askable(d, s, i, "body", s.email)
    BY <1>3 DEF Askable, Knowable, ReadingAts
  <2>4. /\ Follows(d, s, O, t, DOMAIN t.tasks, B \cup {"tasks", "missed"}, Apart(Generation("body", s.email)))
        /\ Asking(v, O, t, i, "body", s.email)
    BY <1>0, <2>2, <2>3, AskFollows, Zenon
  <2>5. Apart(Generation("body", s.email)) = ReadAts \ {"body"}
    BY Aparts, Zenon
  <2> HIDE DEF t
  <2>6. t.bodyState = "loading" /\ t.email = s.email
    BY <1>0, <2>2, <2>4 DEF SameExcept, Follows, Tidy, Shape, AppFields, Asking
  <2>7. AnswersFit(d, Reads(t.tasks, DOMAIN t.tasks, "body", t.email))
    BY <2>4, <2>6 DEF AnswersFit, Asking
  <2> QED
    BY <1>1, <2>1, <2>4, <2>5, <2>6, <2>7
<1> QED
  BY <1>2, <1>3
\* The accounts are reread.
LEMMA RefreshAccountsIsFresh ==
    ASSUME NEW d, NEW F, NEW s, NEW i, Informed(d, s, i)
    PROVE  LET t == RefreshAccounts(s, i) IN Fresh(d, F, t, DOMAIN t.tasks)
<1> DEFINE t == RefreshAccounts(s, i)
           O == Others(s, i)
<1>1. Tidy(s) /\ i \in DOMAIN s.tasks /\ KnownStores(d, s) /\ KnownTasks(d, s, O)
  BY DEF Informed
<1>2. Askable(d, s, i, "accounts", NoId)
  BY DEF Askable, Knowable, ReadingAts
<1>3. t = Await(s, i, "accounts", NoId)
  BY DEF RefreshAccounts
<1> HIDE DEF t
<1>4. /\ Follows(d, s, O, t, DOMAIN t.tasks, {"tasks", "missed"}, Apart(Generation("accounts", NoId)))
      /\ Asking(s, O, t, i, "accounts", NoId)
  BY <1>1, <1>2, <1>3, AwaitCarries, Zenon
<1>5. KnownTasks(d, t, DOMAIN t.tasks) /\ KnownStores(d, t)
  BY <1>1, <1>4, FollowedParts
<1>6. Accounting(t, DOMAIN t.tasks) /\ AnswersFit(d, Reads(t.tasks, DOMAIN t.tasks, "accounts", NoId))
  BY <1>4 DEF Asking, Accounting, AnswersFit
<1>7. Widening(t, DOMAIN t.tasks)
  BY <1>6, Zenon DEF Widening
<1>8. AccountsFresh(d, F, t, DOMAIN t.tasks)
  BY <1>6, Zenon DEF AccountsFresh
<1>9. MailboxesFresh(d, F, t, DOMAIN t.tasks) /\ StatusesFresh(d, F, t, DOMAIN t.tasks)
  BY <1>6, Zenon DEF MailboxesFresh, StatusesFresh
<1>10. WindowFresh(d, F, t, DOMAIN t.tasks) /\ BodyFresh(d, F, t, DOMAIN t.tasks)
  BY <1>7, Zenon DEF WindowFresh, BodyFresh
<1> QED
  BY <1>5, <1>8, <1>9, <1>10, Zenon DEF Fresh, t

\* The Mailboxes are reread.
LEMMA RefreshMailboxesIsFresh ==
    ASSUME NEW d, NEW F, NEW s, NEW i, Informed(d, s, i),
           AccountsFresh(d, F, s, Others(s, i)), StatusesFresh(d, F, s, Others(s, i))
    PROVE  LET t == RefreshMailboxes(s, i) IN Fresh(d, F, t, DOMAIN t.tasks)
<1> DEFINE t == RefreshMailboxes(s, i)
           O == Others(s, i)
           key == OfAccount(s.account)
<1>1. Tidy(s) /\ i \in DOMAIN s.tasks /\ KnownStores(d, s) /\ KnownTasks(d, s, O) /\ DOMAIN s = AppFields
  BY DEF Informed, Tidy, Shape
<1>2. ReadAts \ {"mailboxes"} = Apart(<<"mailboxes", None>>) /\ Generation("mailboxes", key) = <<"mailboxes", None>>
  BY Aparts, Zenon
<1>3. ASSUME s.account = None PROVE Fresh(d, F, t, DOMAIN t.tasks)
  <2> DEFINE u == Supersede(s, <<"mailboxes", None>>)
  <2>1. t = Finish(u, i, None)
    BY <1>3 DEF RefreshMailboxes
  <2> HIDE DEF t
  <2>2. SameExcept(u, u, {}) /\ {} \cap {"tasks", "missed"} = {}
    BY DEF SameExcept
  <2>3. Follows(d, s, O, Finish(u, i, None), DOMAIN Finish(u, i, None).tasks, {} \cup {"tasks", "attempts"}, Apart(<<"mailboxes", None>>))
    BY <1>1, <2>2, QuitFollows, Zenon
  <2>4. Follows(d, s, O, t, DOMAIN t.tasks, {"tasks", "attempts"}, ReadAts \ {"mailboxes"})
    <3>1. {} \cup {"tasks", "attempts"} = {"tasks", "attempts"}
      OBVIOUS
    <3> QED
      BY <1>2, <2>1, <2>3, <3>1, Zenon
  <2>5. KnownTasks(d, t, DOMAIN t.tasks) /\ KnownStores(d, t) /\ AccountsFresh(d, F, t, DOMAIN t.tasks)
    BY <1>1, <2>4, FollowedParts DEF ReadAts
  <2>6. t.account = None
    BY <1>1, <1>3, <2>4 DEF Follows, SameExcept, AppFields
  <2>7. t.mailbox = NoId
    BY <2>5, <2>6 DEF KnownStores
  <2>8. MailboxesFresh(d, F, t, DOMAIN t.tasks) /\ StatusesFresh(d, F, t, DOMAIN t.tasks)
    BY <2>6, Zenon DEF MailboxesFresh, StatusesFresh
  <2>9. WindowFresh(d, F, t, DOMAIN t.tasks) /\ BodyFresh(d, F, t, DOMAIN t.tasks)
    BY <2>7, Zenon DEF WindowFresh, BodyFresh
  <2> QED
    BY <2>5, <2>8, <2>9, Zenon DEF Fresh
<1>4. ASSUME s.account # None PROVE Fresh(d, F, t, DOMAIN t.tasks)
  <2>1. t = Await(s, i, "mailboxes", key)
    BY <1>4 DEF RefreshMailboxes
  <2>2. Askable(d, s, i, "mailboxes", key)
    BY <1>1, <1>4 DEF Askable, Knowable, ReadingAts, KnownStores
  <2> HIDE DEF t, key
  <2>3. /\ Follows(d, s, O, t, DOMAIN t.tasks, {"tasks", "missed"}, Apart(Generation("mailboxes", key)))
        /\ Asking(s, O, t, i, "mailboxes", key)
    BY <1>1, <2>1, <2>2, AwaitCarries, Zenon
  <2>4. Follows(d, s, O, t, DOMAIN t.tasks, {"tasks", "missed"}, ReadAts \ {"mailboxes"})
    BY <1>2, <2>3, Zenon
  <2>5. /\ KnownTasks(d, t, DOMAIN t.tasks) /\ KnownStores(d, t) /\ AccountsFresh(d, F, t, DOMAIN t.tasks)
        /\ StatusesFresh(d, F, t, DOMAIN t.tasks)
    BY <1>1, <2>4, FollowedParts DEF ReadAts
  <2>6. t.account = s.account
    BY <1>1, <2>4 DEF Follows, SameExcept, AppFields
  <2>7. /\ Reads(t.tasks, DOMAIN t.tasks, "mailboxes", OfAccount(t.account)) # {}
        /\ AnswersFit(d, Reads(t.tasks, DOMAIN t.tasks, "mailboxes", OfAccount(t.account)))
    BY <2>3, <2>6 DEF Asking, AnswersFit, key
  <2>8. Widening(t, DOMAIN t.tasks)
    BY <2>7, Zenon DEF Widening
  <2>9. MailboxesFresh(d, F, t, DOMAIN t.tasks)
    BY <2>7, Zenon DEF MailboxesFresh
  <2>10. WindowFresh(d, F, t, DOMAIN t.tasks) /\ BodyFresh(d, F, t, DOMAIN t.tasks)
    BY <2>8, Zenon DEF WindowFresh, BodyFresh
  <2> QED
    BY <2>5, <2>9, <2>10, Zenon DEF Fresh
<1> QED
  BY <1>3, <1>4, Zenon

\* The window is reread.
LEMMA RefreshWindowIsFresh ==
    ASSUME NEW d, NEW F, NEW s, NEW i, Informed(d, s, i),
           AccountsFresh(d, F, s, Others(s, i)), MailboxesFresh(d, F, s, Others(s, i)), StatusesFresh(d, F, s, Others(s, i))
    PROVE  LET t == RefreshMailboxWindow(s, i) IN Fresh(d, F, t, DOMAIN t.tasks)
<1> DEFINE t == RefreshMailboxWindow(s, i)
           O == Others(s, i)
<1>1. Tidy(s) /\ i \in DOMAIN s.tasks /\ KnownStores(d, s) /\ KnownTasks(d, s, O) /\ DOMAIN s = AppFields
  BY DEF Informed, Tidy, Shape
<1>2. ReadAts \ WindowAts = Apart(Window) /\ Generation("view", s.mailbox) = Window
  BY Aparts, Zenon
<1>3. {"accounts", "mailboxes", "statuses"} \subseteq ReadAts \ WindowAts
  BY DEF ReadAts, WindowAts
<1>4. ASSUME s.mailbox = NoId PROVE Fresh(d, F, t, DOMAIN t.tasks)
  <2> DEFINE u == Supersede(s, Window)
  <2>1. t = Finish(u, i, None)
    BY <1>4 DEF RefreshMailboxWindow
  <2> HIDE DEF t
  <2>2. SameExcept(u, u, {}) /\ {} \cap {"tasks", "missed"} = {}
    BY DEF SameExcept
  <2>3. Follows(d, s, O, Finish(u, i, None), DOMAIN Finish(u, i, None).tasks, {} \cup {"tasks", "attempts"}, Apart(Window))
    BY <1>1, <2>2, QuitFollows, Zenon
  <2>4. Follows(d, s, O, t, DOMAIN t.tasks, {"tasks", "attempts"}, ReadAts \ WindowAts)
    <3>1. {} \cup {"tasks", "attempts"} = {"tasks", "attempts"}
      OBVIOUS
    <3> QED
      BY <1>2, <2>1, <2>3, <3>1, Zenon
  <2>5. /\ KnownTasks(d, t, DOMAIN t.tasks) /\ KnownStores(d, t) /\ AccountsFresh(d, F, t, DOMAIN t.tasks)
        /\ MailboxesFresh(d, F, t, DOMAIN t.tasks) /\ StatusesFresh(d, F, t, DOMAIN t.tasks)
    BY <1>1, <1>3, <2>4, FollowedParts
  <2>6. t.mailbox = NoId
    BY <1>1, <1>4, <2>4 DEF Follows, SameExcept, AppFields
  <2>7. WindowFresh(d, F, t, DOMAIN t.tasks) /\ BodyFresh(d, F, t, DOMAIN t.tasks)
    BY <2>6, Zenon DEF WindowFresh, BodyFresh
  <2> QED
    BY <2>5, <2>7, Zenon DEF Fresh
<1>5. ASSUME s.mailbox # NoId PROVE Fresh(d, F, t, DOMAIN t.tasks)
  <2> DEFINE v == [s EXCEPT !.loadState = "loading"]
  <2>1. t = Await(v, i, "view", s.mailbox)
    BY <1>5 DEF RefreshMailboxWindow
  <2>2. SameExcept(s, v, {"loadState"}) /\ v.loadState = "loading" /\ {"loadState"} \cap {"tasks", "missed"} = {}
    BY <1>1 DEF SameExcept, AppFields
  <2> HIDE DEF t, v
  <2>3. Askable(d, s, i, "view", s.mailbox)
    BY DEF Askable, Knowable, ReadingAts
  <2>4. /\ Follows(d, s, O, t, DOMAIN t.tasks, {"loadState"} \cup {"tasks", "missed"}, Apart(Generation("view", s.mailbox)))
        /\ Asking(v, O, t, i, "view", s.mailbox)
    BY <1>1, <2>1, <2>2, <2>3, AskFollows, Zenon
  <2>5. Follows(d, s, O, t, DOMAIN t.tasks, {"loadState"} \cup {"tasks", "missed"}, ReadAts \ WindowAts)
    BY <1>2, <2>4, Zenon
  <2>6. /\ KnownTasks(d, t, DOMAIN t.tasks) /\ KnownStores(d, t) /\ AccountsFresh(d, F, t, DOMAIN t.tasks)
        /\ MailboxesFresh(d, F, t, DOMAIN t.tasks) /\ StatusesFresh(d, F, t, DOMAIN t.tasks)
    BY <1>1, <1>3, <2>5, FollowedParts
  <2>7. t.mailbox = s.mailbox /\ t.loadState = "loading"
    BY <1>1, <2>2, <2>4 DEF Follows, SameExcept, AppFields, Asking
  <2>8. AnswersFit(d, Reads(t.tasks, DOMAIN t.tasks, "view", s.mailbox))
    BY <2>4 DEF Asking, AnswersFit
  <2>9. Reads(t.tasks, DOMAIN t.tasks, "emails", s.mailbox) = {}
    <3>1. Generation("emails", s.mailbox) = Generation("view", s.mailbox) /\ <<"emails", s.mailbox>> # <<"view", s.mailbox>>
      BY DEF Generation
    <3> QED
      BY <2>4, <3>1, Zenon DEF Asking
  <2>10. WindowFresh(d, F, t, DOMAIN t.tasks)
    BY <2>7, <2>8, <2>9 DEF WindowFresh, AnswersFit
  <2>11. BodyFresh(d, F, t, DOMAIN t.tasks)
    BY <2>7 DEF BodyFresh
  <2> QED
    BY <2>6, <2>10, <2>11, Zenon DEF Fresh
<1> QED
  BY <1>4, <1>5, Zenon

\* The statuses of an account are reread.
LEMMA RefreshStatusesIsFresh ==
    ASSUME NEW d, NEW F, NEW s, NEW i, NEW a \in DOMAIN d.accounts, Informed(d, s, i),
           AccountsFresh(d, F, s, Others(s, i)), MailboxesFresh(d, F, s, Others(s, i)),
           WindowFresh(d, F, s, Others(s, i)), BodyFresh(d, F, s, Others(s, i)),
           a = s.account \/ StatusesFresh(d, F, s, Others(s, i))
    PROVE  LET t == RefreshMutationStatuses(s, i, a) IN Fresh(d, F, t, DOMAIN t.tasks)
<1> DEFINE t == RefreshMutationStatuses(s, i, a)
           O == Others(s, i)
           key == OfAccount(a)
<1>1. Tidy(s) /\ i \in DOMAIN s.tasks /\ KnownStores(d, s) /\ KnownTasks(d, s, O) /\ DOMAIN s = AppFields
  BY DEF Informed, Tidy, Shape
<1>2. t = Await(s, i, "statuses", key)
  BY DEF RefreshMutationStatuses
<1>3. Askable(d, s, i, "statuses", key)
  BY DEF Askable, Knowable, ReadingAts
<1>4. key.accountKey = a /\ OfAccount(s.account).accountKey = s.account
  BY DEF OfAccount, ScopedId
<1>5. (key = OfAccount(s.account)) <=> (a = s.account)
  BY <1>4
<1> HIDE DEF t, key
<1>6. /\ Follows(d, s, O, t, DOMAIN t.tasks, {"tasks", "missed"}, Apart(Generation("statuses", key)))
      /\ Asking(s, O, t, i, "statuses", key)
  BY <1>1, <1>2, <1>3, AwaitCarries, Zenon
<1>7. {"accounts", "mailboxes", "view", "emails", "body"} \subseteq Apart(Generation("statuses", key))
  <2>1. ReadAts \ {"statuses"} \subseteq Apart(Generation("statuses", key))
    BY Aparts, Zenon
  <2> QED
    BY <2>1 DEF ReadAts
<1>8. /\ KnownTasks(d, t, DOMAIN t.tasks) /\ KnownStores(d, t) /\ AccountsFresh(d, F, t, DOMAIN t.tasks)
      /\ MailboxesFresh(d, F, t, DOMAIN t.tasks) /\ WindowFresh(d, F, t, DOMAIN t.tasks) /\ BodyFresh(d, F, t, DOMAIN t.tasks)
  BY <1>1, <1>6, <1>7, FollowedParts
<1>9. t.account = s.account /\ t.statuses = s.statuses
  BY <1>1, <1>6 DEF Follows, SameExcept, AppFields
<1>10. CASE a = s.account
  <2>1. /\ Reads(t.tasks, DOMAIN t.tasks, "statuses", OfAccount(t.account)) # {}
        /\ AnswersFit(d, Reads(t.tasks, DOMAIN t.tasks, "statuses", OfAccount(t.account)))
    BY <1>5, <1>6, <1>9, <1>10 DEF Asking, AnswersFit
  <2>2. StatusesFresh(d, F, t, DOMAIN t.tasks)
    BY <2>1, Zenon DEF StatusesFresh
  <2> QED
    BY <1>8, <2>2, Zenon DEF Fresh, t
<1>11. CASE a # s.account
  <2>1. Generation("statuses", OfAccount(s.account)) # Generation("statuses", key)
    BY <1>4, <1>11 DEF Generation
  <2>2. SameRead(s, O, t, DOMAIN t.tasks, "statuses", OfAccount(s.account))
    BY <1>6, <2>1, Zenon DEF Asking
  <2>3. SameRead(s, O, t, DOMAIN t.tasks, "accounts", NoId) /\ (Owed(s, s.account) => Owed(t, s.account))
    <3>1. Carry(d, s, O, t, DOMAIN t.tasks, Apart(Generation("statuses", key))) /\ KeepsOwed(s, t)
      BY <1>6, Zenon DEF Follows
    <3>2. "accounts" \in Apart(Generation("statuses", key))
      BY <1>7
    <3> QED
      BY <3>1, <3>2, Zenon DEF Carry, KeepsOwed
  <2>4. StatusesFresh(d, F, t, DOMAIN t.tasks)
    BY <1>9, <1>11, <2>2, <2>3, StatusesKept, Zenon
  <2> QED
    BY <1>8, <2>4, Zenon DEF Fresh, t
<1> QED
  BY <1>10, <1>11

\* The account shown is read again: its Mailboxes, then its statuses.
LEMMA ShowAccountIsFresh ==
    ASSUME NEW d, NEW F, NEW s, NEW i, NEW a \in DOMAIN d.accounts, Informed(d, s, i), a = s.account,
           AccountsFresh(d, F, s, Others(s, i))
    PROVE  LET t == ShowAccount(s, i, a) IN Fresh(d, F, t, DOMAIN t.tasks)
<1> DEFINE f == Frame("statuses", OfAccount(a))
           p == Push(s, i, f)
           t == ShowAccount(s, i, a)
           O == Others(s, i)
<1>1. Tidy(s) /\ i \in DOMAIN s.tasks /\ KnownStores(d, s) /\ KnownTasks(d, s, O) /\ DOMAIN s = AppFields
  BY DEF Informed, Tidy, Shape
<1>2. f.do = "statuses" /\ f.key.accountKey = a /\ KnownFrame(d, f)
  BY DEF Frame, OfAccount, ScopedId, KnownFrame
<1>3. t = RefreshMailboxes(p, i)
  BY DEF ShowAccount
<1> HIDE DEF f, t
<1>4. /\ Follows(d, s, O, p, O, {"tasks"}, ReadAts) /\ DOMAIN p.tasks = DOMAIN s.tasks /\ Others(p, i) = O
      /\ Owed(p, a)
  <2>1. /\ Follows(d, s, O, p, O, {"tasks"}, ReadAts) /\ DOMAIN p.tasks = DOMAIN s.tasks /\ Others(p, i) = O
        /\ f.do = "statuses" => Owed(p, f.key.accountKey)
    BY <1>1, <1>2, PushCarries
  <2>2. Owed(p, f.key.accountKey)
    BY <1>2, <2>1, Zenon
  <2> QED
    BY <1>2, <2>1, <2>2, Zenon
<1> HIDE DEF p
<1>5. KnownTasks(d, p, O) /\ KnownStores(d, p) /\ AccountsFresh(d, F, p, O)
  BY <1>1, <1>4, FollowedParts DEF ReadAts
<1>6. p.account = a
  BY <1>1, <1>4 DEF Follows, SameExcept, AppFields
<1>7. StatusesFresh(d, F, p, O)
  BY <1>4, <1>6, Zenon DEF StatusesFresh
<1>8. Informed(d, p, i)
  BY <1>1, <1>4, <1>5 DEF Informed, Follows
<1>9. AccountsFresh(d, F, p, Others(p, i)) /\ StatusesFresh(d, F, p, Others(p, i))
  BY <1>4, <1>5, <1>7, Zenon
<1> QED
  BY <1>3, <1>8, <1>9, RefreshMailboxesIsFresh, Zenon DEF t
\* Task t is the one that reads it.
Reading(t, at, key) == t.at = at /\ t.fresh /\ t.key = key

\* Without a task, the reads of the others are left.
LEMMA DropCarries ==
    ASSUME NEW d, NEW s, NEW i \in DOMAIN s.tasks
    PROVE  LET D == DOMAIN s.tasks
               O == Others(s, i)
           IN
           /\ \A at, key : ~Reading(s.tasks[i], at, key) => SameRead(s, D, s, O, at, key)
           /\ \A at, key : Reads(s.tasks, O, at, key) \subseteq Reads(s.tasks, D, at, key)
           /\ \A at, key : Reading(s.tasks[i], at, key) => s.tasks[i] \in Reads(s.tasks, D, at, key)
           /\ \A e : ~Retries(s.tasks[i], e) /\ Retried(s, D, e) => Retried(s, O, e)
           /\ KnownTasks(d, s, D) => KnownTasks(d, s, O)
<1> DEFINE D == DOMAIN s.tasks
           O == Others(s, i)
<1>1. O = D \ {i}
  BY DEF Others
<1>2. ASSUME NEW at, NEW key, ~Reading(s.tasks[i], at, key) PROVE SameRead(s, D, s, O, at, key)
  <2>1. \A j \in D : s.tasks[j].at = at /\ s.tasks[j].fresh /\ s.tasks[j].key = key => j \in O /\ s.tasks[j] = s.tasks[j]
    BY <1>1, <1>2 DEF Reading
  <2>2. \A j \in O : s.tasks[j].at = at /\ s.tasks[j].fresh /\ s.tasks[j].key = key => j \in D /\ s.tasks[j] = s.tasks[j]
    BY <1>1
  <2>3. Reads(s.tasks, O, at, key) = Reads(s.tasks, D, at, key)
    BY <2>1, <2>2, ReadsAreSame
  <2> QED
    BY <2>3 DEF SameRead
<1>3. \A at, key : Reads(s.tasks, O, at, key) \subseteq Reads(s.tasks, D, at, key)
  BY <1>1 DEF Reads
<1>4. \A at, key : Reading(s.tasks[i], at, key) => s.tasks[i] \in Reads(s.tasks, D, at, key)
  BY DEF Reads, Reading
<1>5. \A e : ~Retries(s.tasks[i], e) /\ Retried(s, D, e) => Retried(s, O, e)
  BY <1>1 DEF Retried
<1>6. KnownTasks(d, s, D) => KnownTasks(d, s, O)
  BY <1>1 DEF KnownTasks
<1> QED
  BY <1>2, <1>3, <1>4, <1>5, <1>6

\* The parts that do not wait for task i are as fresh without it.
LEMMA DropIsFresh ==
    ASSUME NEW d, NEW F, NEW s, NEW i \in DOMAIN s.tasks, Fresh(d, F, s, DOMAIN s.tasks)
    PROVE  LET t == s.tasks[i]
               O == Others(s, i)
           IN
           /\ KnownStores(d, s) /\ KnownTasks(d, s, O) /\ KnownTask(d, t)
           /\ ~Reading(t, "accounts", NoId) => AccountsFresh(d, F, s, O)
           /\ ~Reading(t, "accounts", NoId) /\ ~Reading(t, "mailboxes", OfAccount(s.account)) => MailboxesFresh(d, F, s, O)
           /\ ~Reading(t, "accounts", NoId) /\ ~Reading(t, "statuses", OfAccount(s.account)) => StatusesFresh(d, F, s, O)
           /\ /\ ~Reading(t, "accounts", NoId) /\ ~Reading(t, "mailboxes", OfAccount(s.account))
              /\ ~Reading(t, "view", s.mailbox) /\ ~Reading(t, "emails", s.mailbox)
              => WindowFresh(d, F, s, O)
           /\ /\ ~Reading(t, "accounts", NoId) /\ ~Reading(t, "mailboxes", OfAccount(s.account))
              /\ ~Reading(t, "body", s.email) /\ ~Retries(t, s.email)
              => BodyFresh(d, F, s, O)
<1> DEFINE t == s.tasks[i]
           D == DOMAIN s.tasks
           O == Others(s, i)
<1>1. /\ \A at, key : ~Reading(t, at, key) => SameRead(s, D, s, O, at, key)
      /\ \A e : ~Retries(t, e) /\ Retried(s, D, e) => Retried(s, O, e)
      /\ KnownTasks(d, s, D) => KnownTasks(d, s, O)
  BY DropCarries
<1>2. /\ KnownStores(d, s) /\ KnownTasks(d, s, D) /\ AccountsFresh(d, F, s, D) /\ MailboxesFresh(d, F, s, D)
      /\ StatusesFresh(d, F, s, D) /\ WindowFresh(d, F, s, D) /\ BodyFresh(d, F, s, D)
  BY Zenon DEF Fresh
<1>3. KnownTask(d, t)
  BY <1>2 DEF KnownTasks
<1> HIDE DEF t, D, O
<1>4. ~Reading(t, "accounts", NoId) => AccountsFresh(d, F, s, O)
  BY <1>1, <1>2, AccountsKept, Zenon
<1>5. ~Reading(t, "accounts", NoId) /\ ~Reading(t, "mailboxes", OfAccount(s.account)) => MailboxesFresh(d, F, s, O)
  BY <1>1, <1>2, MailboxesKept, Zenon
<1>6. ~Reading(t, "accounts", NoId) /\ ~Reading(t, "statuses", OfAccount(s.account)) => StatusesFresh(d, F, s, O)
  BY <1>1, <1>2, StatusesKept, Zenon
<1>7. /\ ~Reading(t, "accounts", NoId) /\ ~Reading(t, "mailboxes", OfAccount(s.account))
      /\ ~Reading(t, "view", s.mailbox) /\ ~Reading(t, "emails", s.mailbox)
      => WindowFresh(d, F, s, O)
  BY <1>1, <1>2, WindowKept, Zenon
<1>8. /\ ~Reading(t, "accounts", NoId) /\ ~Reading(t, "mailboxes", OfAccount(s.account))
      /\ ~Reading(t, "body", s.email) /\ ~Retries(t, s.email)
      => BodyFresh(d, F, s, O)
  BY <1>1, <1>2, BodyKept, Zenon
<1> QED
  BY <1>1, <1>2, <1>3, <1>4, <1>5, <1>6, <1>7, <1>8, Zenon DEF t, D, O

\* The others' answers fit as they did.
LEMMA OthersFit ==
    ASSUME NEW d, NEW s, NEW i \in DOMAIN s.tasks, NEW at, NEW key, AnswersFit(d, Reads(s.tasks, DOMAIN s.tasks, at, key))
    PROVE  AnswersFit(d, Reads(s.tasks, Others(s, i), at, key))
BY DropCarries DEF AnswersFit

\* A function returns and all else is fresh.
LEMMA FinishIsFresh ==
    ASSUME NEW d, NEW F, NEW s, Tidy(s), NEW i \in DOMAIN s.tasks, Fresh(d, F, s, Others(s, i)), NEW value
    PROVE  LET t == Finish(s, i, value) IN Fresh(d, F, t, DOMAIN t.tasks)
<1> DEFINE t == Finish(s, i, value)
           O == Others(s, i)
<1>1. Follows(d, s, O, t, DOMAIN t.tasks, {"tasks", "attempts"}, ReadAts)
  BY FinishCarries
<1> HIDE DEF t, O
<1>2. /\ KnownStores(d, s) /\ KnownTasks(d, s, O) /\ AccountsFresh(d, F, s, O) /\ MailboxesFresh(d, F, s, O)
      /\ StatusesFresh(d, F, s, O) /\ WindowFresh(d, F, s, O) /\ BodyFresh(d, F, s, O)
  BY Zenon DEF Fresh, O
<1>3. /\ KnownStores(d, t) /\ KnownTasks(d, t, DOMAIN t.tasks) /\ AccountsFresh(d, F, t, DOMAIN t.tasks)
      /\ MailboxesFresh(d, F, t, DOMAIN t.tasks) /\ StatusesFresh(d, F, t, DOMAIN t.tasks)
      /\ WindowFresh(d, F, t, DOMAIN t.tasks) /\ BodyFresh(d, F, t, DOMAIN t.tasks)
  BY <1>1, <1>2, FollowedParts DEF ReadAts
<1> QED
  BY <1>3, Zenon DEF Fresh, t

\* A task ends that owes nothing, and all else is fresh.
LEMMA EndIsFresh ==
    ASSUME NEW d, NEW F, NEW s, Tidy(s), NEW i \in DOMAIN s.tasks, s.tasks[i].then = <<>>, Fresh(d, F, s, Others(s, i))
    PROVE  LET t == End(s, i) IN Fresh(d, F, t, DOMAIN t.tasks)
<1>1. Finish(s, i, None) = End(s, i)
  BY DEF Finish
<1>2. LET t == Finish(s, i, None) IN Fresh(d, F, t, DOMAIN t.tasks)
  BY FinishIsFresh
<1> QED
  BY <1>1, <1>2, Zenon

\* An exception ends the call: what could not be read, and the statuses skipped, are missed.
LEMMA ThrowIsFresh ==
    ASSUME NEW d, NEW F, NEW s, Tidy(s), NEW i \in DOMAIN s.tasks, s.tasks[i].owner \in {"initialize", "retry", "flush", "user"},
           KnownStores(d, s), KnownTasks(d, s, Others(s, i)),
           NEW read,
           \/ read = "accounts" /\ s.tasks[i].key = NoId
           \/ /\ read = "mailboxes" /\ s.tasks[i].key = OfAccount(s.account)
              /\ AccountsFresh(d, F, s, Others(s, i)) /\ StatusesFresh(d, F, s, Others(s, i)),
           AnswersFit(d, Reads(s.tasks, Others(s, i), "accounts", NoId)) \/ AccountsFresh(d, F, s, Others(s, i))
    PROVE  LET t == Throw(s, i, read) IN Fresh(d, F, t, DOMAIN t.tasks)
<1> DEFINE t == Throw(s, i, read)
           u == End(s, i)
           O == Others(s, i)
           skipped == {<<"statuses", f.key.accountKey>> : f \in {g \in ToSet(s.tasks[i].then) : g.do = "statuses"}}
           missed == (u.missed \cup skipped) \cup {<<read, s.tasks[i].key.accountKey>>}
           D == DOMAIN t.tasks
<1>1. /\ Tidy(u) /\ SameExcept(s, u, {"tasks", "attempts"}) /\ Carry(d, s, O, u, DOMAIN u.tasks, ReadAts)
      /\ \A a : Owed(s, a) /\ ~Owes(s.tasks[i], a) => Owed(u, a)
  BY EndCarries
<1>2. DOMAIN u = AppFields /\ DOMAIN s = AppFields
  BY <1>1 DEF Tidy, Shape
<1>3. SameExcept(u, t, {"missed", "local", "loadState"}) /\ t.missed = missed
  BY <1>2 DEF Throw, SameExcept, AppFields
<1>4. \A a : Owes(s.tasks[i], a) => <<"statuses", a>> \in missed
  BY DEF Owes
<1>5. <<read, s.tasks[i].key.accountKey>> \in missed /\ u.missed \subseteq missed
  OBVIOUS
<1> HIDE DEF t, u, missed
<1>6. t.tasks = u.tasks /\ DOMAIN t = AppFields /\ u.missed = s.missed
  BY <1>1, <1>2, <1>3 DEF SameExcept, AppFields
<1>7. Tidy(t)
  BY <1>1, <1>6 DEF Tidy, Shape
<1>8. \A at \in ReadAts : \A key : SameRead(s, O, t, D, at, key)
  <2>1. ASSUME NEW at \in ReadAts, NEW key PROVE SameRead(s, O, t, D, at, key)
    <3>1. SameRead(s, O, u, DOMAIN u.tasks, at, key)
      BY <1>1, Zenon DEF Carry
    <3> QED
      BY <1>3, <1>5, <1>6, <3>1 DEF SameRead
  <2> QED
    BY <2>1
<1>9. KnownTasks(d, t, D)
  BY <1>1, <1>6 DEF Carry, KnownTasks
<1>10. /\ t.accounts = s.accounts /\ t.account = s.account /\ t.mailboxes = s.mailboxes /\ t.mailbox = s.mailbox
       /\ t.email = s.email /\ t.bodyState = s.bodyState /\ t.statuses = s.statuses /\ t.subscribed = s.subscribed
  BY <1>1, <1>2, <1>3 DEF SameExcept, AppFields
<1>11. KnownStores(d, t)
  BY <1>10 DEF KnownStores
<1>12. SameRead(s, O, t, D, "accounts", NoId)
  BY <1>8, Zenon DEF ReadAts
<1>13. Widening(t, D) /\ (read = "accounts" => Accounting(t, D)) /\ (read = "mailboxes" => <<"mailboxes", t.account>> \in t.missed)
  <2>1. NoId.accountKey = None /\ OfAccount(s.account).accountKey = s.account
    BY DEF NoId, OfAccount, ScopedId
  <2>2. read = "accounts" => <<"accounts", None>> \in t.missed
    BY <1>3, <1>5, <2>1
  <2>3. read = "mailboxes" => <<"mailboxes", t.account>> \in t.missed
    BY <1>3, <1>5, <1>10, <2>1
  <2> QED
    BY <2>2, <2>3 DEF Widening, Accounting
<1>14. WindowFresh(d, F, t, D) /\ BodyFresh(d, F, t, D)
  BY <1>13, Zenon DEF WindowFresh, BodyFresh
<1>15. MailboxesFresh(d, F, t, D)
  BY <1>13 DEF MailboxesFresh
<1>16. AccountsFresh(d, F, t, D)
  <2>1. CASE AccountsFresh(d, F, s, O)
    BY <1>10, <1>12, <2>1, AccountsKept, Zenon
  <2>2. CASE ~AccountsFresh(d, F, s, O)
    <3>1. Accounting(t, D) /\ AnswersFit(d, Reads(s.tasks, O, "accounts", NoId))
      BY <1>13, <2>2
    <3>2. AnswersFit(d, Reads(t.tasks, D, "accounts", NoId))
      BY <1>12, <3>1, Zenon DEF SameRead
    <3> QED
      BY <3>1, <3>2, Zenon DEF AccountsFresh
  <2> QED
    BY <2>1, <2>2
<1>17. StatusesFresh(d, F, t, D)
  <2>1. CASE read = "accounts"
    BY <1>13, <2>1, Zenon DEF StatusesFresh
  <2>2. CASE read = "mailboxes" /\ Owes(s.tasks[i], s.account)
    BY <1>3, <1>4, <1>10, <2>2 DEF StatusesFresh
  <2>3. CASE read = "mailboxes" /\ ~Owes(s.tasks[i], s.account)
    <3>1. StatusesFresh(d, F, s, O)
      BY <2>3
    <3>2. Owed(s, s.account) => Owed(t, s.account)
      BY <1>1, <1>6, <2>3 DEF Owed
    <3>3. SameRead(s, O, t, D, "statuses", OfAccount(s.account))
      BY <1>8, Zenon DEF ReadAts
    <3> QED
      BY <1>10, <1>12, <3>1, <3>2, <3>3, StatusesKept, Zenon
  <2> QED
    BY <2>1, <2>2, <2>3
<1> QED
  BY <1>9, <1>11, <1>14, <1>15, <1>16, <1>17, Zenon DEF Fresh, t
\* Answer r resumes task t: it is what the store holds now, or held when it answered.
Resumes(d, t, r) ==
    /\ GoodAnswer(t, r) /\ Sound(d, t, r)
    /\ Accurate(d, t, r) \/ (t.phase = "answered" /\ r = t.res)

\* An answer that fits what else was read.
LEMMA FittingIsAccurate ==
    ASSUME NEW d, NEW s, NEW i \in DOMAIN s.tasks, NEW r, Resumes(d, s.tasks[i], r), NEW at, NEW key,
           Reading(s.tasks[i], at, key), AnswersFit(d, Reads(s.tasks, DOMAIN s.tasks, at, key))
    PROVE  Accurate(d, s.tasks[i], r)
BY DropCarries DEF Resumes, AnswersFit

\* A task whose turn it is, and the state it runs in.
Holding(d, F, s, i, at) ==
    /\ Tidy(s) /\ i \in DOMAIN s.tasks /\ Fresh(d, F, s, DOMAIN s.tasks) /\ GoodTask(s.tasks[i])
    /\ s.tasks[i].at = at

Resuming(d, F, s, i, r, at) == Holding(d, F, s, i, at) /\ Resumes(d, s.tasks[i], r)

\* What its read does not guard is fresh without it, and when it is not current all is.
LEMMA HoldingParts ==
    ASSUME NEW d, NEW F, NEW s, NEW i, NEW at, Holding(d, F, s, i, at)
    PROVE  LET O == Others(s, i) IN
           /\ Tidy(s) /\ i \in DOMAIN s.tasks /\ DOMAIN s = AppFields /\ s.tasks[i].at = at
           /\ Fresh(d, F, s, DOMAIN s.tasks) /\ GoodTask(s.tasks[i])
           /\ KnownStores(d, s) /\ KnownTasks(d, s, O) /\ KnownTask(d, s.tasks[i])
           /\ at # "accounts" => AccountsFresh(d, F, s, O)
           /\ at \notin {"accounts", "mailboxes"} => MailboxesFresh(d, F, s, O)
           /\ at \notin {"accounts", "statuses"} => StatusesFresh(d, F, s, O)
           /\ at \notin {"accounts", "mailboxes", "view", "emails"} => WindowFresh(d, F, s, O)
           /\ at \notin {"accounts", "mailboxes", "body", "materialize"} => BodyFresh(d, F, s, O)
           /\ at \notin {"accounts", "mailboxes"} => (Widening(s, DOMAIN s.tasks) => Widening(s, O))
           /\ ~s.tasks[i].fresh /\ at # "materialize" => Fresh(d, F, s, O)
<1> DEFINE a == s.tasks[i]
           O == Others(s, i)
           D == DOMAIN s.tasks
<1>1. Tidy(s) /\ i \in D /\ DOMAIN s = AppFields /\ a.at = at /\ Fresh(d, F, s, D) /\ GoodTask(a)
  BY DEF Holding, Tidy, Shape
<1>2. /\ KnownStores(d, s) /\ KnownTasks(d, s, O) /\ KnownTask(d, a)
      /\ ~Reading(a, "accounts", NoId) => AccountsFresh(d, F, s, O)
      /\ ~Reading(a, "accounts", NoId) /\ ~Reading(a, "mailboxes", OfAccount(s.account)) => MailboxesFresh(d, F, s, O)
      /\ ~Reading(a, "accounts", NoId) /\ ~Reading(a, "statuses", OfAccount(s.account)) => StatusesFresh(d, F, s, O)
      /\ /\ ~Reading(a, "accounts", NoId) /\ ~Reading(a, "mailboxes", OfAccount(s.account))
         /\ ~Reading(a, "view", s.mailbox) /\ ~Reading(a, "emails", s.mailbox)
         => WindowFresh(d, F, s, O)
      /\ /\ ~Reading(a, "accounts", NoId) /\ ~Reading(a, "mailboxes", OfAccount(s.account))
         /\ ~Reading(a, "body", s.email) /\ ~Retries(a, s.email)
         => BodyFresh(d, F, s, O)
  BY <1>1, DropIsFresh, Zenon
<1>3. \A b, key : b # at \/ ~a.fresh => ~Reading(a, b, key)
  BY <1>1 DEF Reading
<1>4. at # "materialize" => ~Retries(a, s.email)
  BY <1>1 DEF Retries
<1>5. at \notin {"accounts", "mailboxes"} => (Widening(s, D) => Widening(s, O))
  <2> SUFFICES ASSUME at \notin {"accounts", "mailboxes"} PROVE Widening(s, D) => Widening(s, O)
    OBVIOUS
  <2>1. SameRead(s, D, s, O, "accounts", NoId) /\ SameRead(s, D, s, O, "mailboxes", OfAccount(s.account))
    BY <1>1, <1>3, DropCarries
  <2> QED
    BY <2>1, WideningKept, Zenon
<1> HIDE DEF a, O, D
<1>6. at # "accounts" => AccountsFresh(d, F, s, O)
  BY <1>2, <1>3
<1>7. at \notin {"accounts", "mailboxes"} => MailboxesFresh(d, F, s, O)
  BY <1>2, <1>3
<1>8. at \notin {"accounts", "statuses"} => StatusesFresh(d, F, s, O)
  BY <1>2, <1>3
<1>9. at \notin {"accounts", "mailboxes", "view", "emails"} => WindowFresh(d, F, s, O)
  BY <1>2, <1>3
<1>10. at \notin {"accounts", "mailboxes", "body", "materialize"} => BodyFresh(d, F, s, O)
  BY <1>2, <1>3, <1>4
<1>11. ~a.fresh /\ at # "materialize" => Fresh(d, F, s, O)
  BY <1>2, <1>3, <1>4, Zenon DEF Fresh
<1> QED
  BY <1>1, <1>2, <1>5, <1>6, <1>7, <1>8, <1>9, <1>10, <1>11, Zenon DEF a, O, D

\* The setter is done and the parts are fresh: so is what is left when the function returns.
LEMMA SetIsFresh ==
    ASSUME NEW d, NEW F, NEW s, Tidy(s), NEW i \in DOMAIN s.tasks, NEW v, NEW B, SameExcept(s, v, B),
           B \cap {"tasks", "missed"} = {},
           Fresh(d, F, v, Others(s, i)), NEW value
    PROVE  LET t == Finish(v, i, value) IN Fresh(d, F, t, DOMAIN t.tasks)
<1>1. Tidy(v) /\ v.tasks = s.tasks /\ Others(v, i) = Others(s, i)
  BY SetFollows DEF Follows
<1>2. Fresh(d, F, v, Others(v, i)) /\ i \in DOMAIN v.tasks
  BY <1>1, Zenon
<1> QED
  BY <1>1, <1>2, FinishIsFresh, Zenon

\* The handler of a body.
LEMMA BodyReadIsFresh ==
    ASSUME NEW d, NEW F, NEW s, NEW i, NEW r, Resuming(d, F, s, i, r, "body")
    PROVE  LET t == BodyRead(s, i, r) IN Fresh(d, F, t, DOMAIN t.tasks)
<1> DEFINE a == s.tasks[i]
           O == Others(s, i)
           D == DOMAIN s.tasks
           B == {"body", "bodyState", "materializing", "bodyError"}
           t == BodyRead(s, i, r)
<1>0. /\ Tidy(s) /\ i \in D /\ DOMAIN s = AppFields /\ a.at = "body" /\ B \cap {"tasks", "missed"} = {}
      /\ Fresh(d, F, s, D) /\ Resumes(d, a, r)
  BY HoldingParts DEF Resuming
<1>1. /\ KnownStores(d, s) /\ KnownTasks(d, s, O) /\ KnownTask(d, a) /\ AccountsFresh(d, F, s, O)
      /\ MailboxesFresh(d, F, s, O) /\ StatusesFresh(d, F, s, O) /\ WindowFresh(d, F, s, O)
      /\ Widening(s, D) => Widening(s, O)
  BY HoldingParts DEF Resuming
<1>2. ASSUME NEW v, SameExcept(s, v, B), NEW value, t = Finish(v, i, value),
             v.bodyState = "cached" => s.email \in d.bodies,
             s.email = NoId => v.bodyState \notin {"cached", "notCached"},
             v.bodyState = "notCached" => Reading(a, "body", s.email) /\ (Accurate(d, a, r) => s.email \notin d.bodies)
      PROVE  Fresh(d, F, t, DOMAIN t.tasks)
  <2>1. Follows(d, s, O, v, O, B, ReadAts)
    BY <1>0, <1>2, SetFollows
  <2>2. /\ KnownTasks(d, v, O) /\ AccountsFresh(d, F, v, O) /\ MailboxesFresh(d, F, v, O)
        /\ StatusesFresh(d, F, v, O) /\ WindowFresh(d, F, v, O)
    BY <1>0, <1>1, <2>1, FollowedParts DEF ReadAts
  <2>3. /\ v.accounts = s.accounts /\ v.account = s.account /\ v.mailboxes = s.mailboxes /\ v.mailbox = s.mailbox
        /\ v.email = s.email /\ v.loadState = s.loadState /\ v.tasks = s.tasks /\ v.missed = s.missed
    BY <1>0, <1>2 DEF SameExcept, AppFields
  <2>4. KnownStores(d, v)
    BY <1>1, <1>2, <2>3 DEF KnownStores
  <2>5. BodyFresh(d, F, v, O)
    <3> SUFFICES ASSUME v.mailbox # NoId, v.email # NoId, v.loadState = "ready",
                        ~Widening(v, O), ~Due(F, Query("view", v.mailbox)), Hint("emailBody", v.email) \notin F
                 PROVE  /\ v.bodyState = "notCached" /\ ~v.bodyError => v.email \notin d.bodies \/ Retried(v, O, v.email)
                        /\ AnswersFit(d, Reads(v.tasks, O, "body", v.email))
      BY DEF BodyFresh
    <3>1. ~Widening(s, D)
      BY <1>1, <2>3 DEF Widening, Accounting
    <3>2. AnswersFit(d, Reads(s.tasks, D, "body", s.email))
      BY <1>0, <2>3, <3>1 DEF Fresh, BodyFresh
    <3>3. AnswersFit(d, Reads(v.tasks, O, "body", v.email))
      BY <1>0, <2>3, <3>2, OthersFit
    <3>4. v.bodyState = "notCached" => Accurate(d, a, r)
      BY <1>0, <1>2, <3>2, FittingIsAccurate
    <3> QED
      BY <1>2, <2>3, <3>3, <3>4
  <2>6. Fresh(d, F, v, O)
    BY <2>2, <2>4, <2>5, Zenon DEF Fresh
  <2> QED
    BY <1>0, <1>2, <2>6, SetIsFresh
<1>3. CASE ~a.fresh \/ s.email # a.key
  <2>1. t = Finish(s, i, "stale")
    BY <1>3 DEF BodyRead
  <2>2. ~Reading(a, "body", s.email) /\ ~Retries(a, s.email)
    BY <1>0, <1>3 DEF Reading, Retries
  <2>3. ~Reading(a, "accounts", NoId) /\ ~Reading(a, "mailboxes", OfAccount(s.account))
    BY <1>0 DEF Reading
  <2>4. BodyFresh(d, F, s, O)
    BY <1>0, <2>2, <2>3, DropIsFresh
  <2>5. Fresh(d, F, s, O)
    BY <1>1, <2>4, Zenon DEF Fresh
  <2> QED
    BY <1>0, <2>1, <2>5, FinishIsFresh
<1>4. CASE a.fresh /\ s.email = a.key /\ r.kind = "failed"
  <2> DEFINE v == SetEmailBody(s, NoId, "error")
  <2>1. t = Finish(v, i, "failed")
    BY <1>4 DEF BodyRead
  <2>2. SameExcept(s, v, B) /\ v.bodyState = "error"
    BY <1>0, SetterEffects
  <2>3. /\ v.bodyState = "cached" => s.email \in d.bodies
        /\ s.email = NoId => v.bodyState \notin {"cached", "notCached"}
        /\ v.bodyState = "notCached" => Reading(a, "body", s.email) /\ (Accurate(d, a, r) => s.email \notin d.bodies)
    BY <2>2
  <2> HIDE DEF v, t, a
  <2> QED
    BY <1>2, <2>1, <2>2, <2>3, Zenon DEF t
<1>5. CASE a.fresh /\ s.email = a.key /\ r.kind # "failed"
  <2> DEFINE state == CASE r.kind = "present" -> "cached"
                        [] r.kind = "absent" -> "notCached"
                        [] OTHER -> "ownerAbsent"
             body == IF state = "cached" THEN a.key ELSE NoId
             v == SetEmailBody(s, body, state)
  <2>1. t = Finish(v, i, state)
    BY <1>5 DEF BodyRead
  <2>2. /\ state = "cached" => r.kind = "present"
        /\ state = "notCached" => r.kind = "absent"
    OBVIOUS
  <2> HIDE DEF state, body, t
  <2>3. SameExcept(s, v, B) /\ v.bodyState = state
    BY <1>0, SetterEffects
  <2> HIDE DEF v
  <2>4. s.email # NoId
    BY <1>0, <1>1, <1>5 DEF KnownTask, Knowable
  <2>5. r.kind = "present" => s.email \in d.bodies
    BY <1>0, <1>5 DEF Resumes, Sound
  <2>6. r.kind = "absent" /\ Accurate(d, a, r) => s.email \notin d.bodies
    BY <1>0, <1>5 DEF Accurate
  <2>7. Reading(a, "body", s.email)
    BY <1>0, <1>5 DEF Reading
  <2>8. /\ v.bodyState = "cached" => s.email \in d.bodies
        /\ s.email = NoId => v.bodyState \notin {"cached", "notCached"}
        /\ v.bodyState = "notCached" => Reading(a, "body", s.email) /\ (Accurate(d, a, r) => s.email \notin d.bodies)
    BY <2>2, <2>3, <2>4, <2>5, <2>6, <2>7
  <2> HIDE DEF a
  <2> QED
    BY <1>2, <2>1, <2>3, <2>8, Zenon DEF t
<1> QED
  BY <1>3, <1>4, <1>5
\* A current read of the window is resumed and the list is set.
LEMMA WindowReadSets ==
    ASSUME NEW d, NEW F, NEW s, NEW i, NEW r, NEW at \in WindowAts, Resuming(d, F, s, i, r, at),
           WindowIsCurrent(s, s.tasks[i]),
           NEW v, SameExcept(s, v, {"view", "emails", "loadState"}),
           Accurate(d, s.tasks[i], r) /\ (at = "emails" => s.tasks[i].view = ViewsOf(d, s.mailbox)) =>
              /\ v.loadState = "notCached" => s.mailbox \notin DOMAIN d.views
              /\ v.loadState = "ready" => v.view = ViewsOf(d, s.mailbox) /\ EmailsOf(d, v.emails)
    PROVE  LET O == Others(s, i) IN
           /\ Tidy(v) /\ i \in DOMAIN v.tasks /\ Others(v, i) = O /\ KnownStores(d, v) /\ KnownTasks(d, v, O)
           /\ AccountsFresh(d, F, v, O) /\ MailboxesFresh(d, F, v, O) /\ StatusesFresh(d, F, v, O) /\ WindowFresh(d, F, v, O)
           /\ v.loadState # "ready" => BodyFresh(d, F, v, O)
<1> DEFINE a == s.tasks[i]
           O == Others(s, i)
           D == DOMAIN s.tasks
           B == {"view", "emails", "loadState"}
<1>0. /\ Tidy(s) /\ i \in D /\ DOMAIN s = AppFields /\ a.at = at /\ Fresh(d, F, s, D) /\ Resumes(d, a, r)
      /\ KnownStores(d, s) /\ KnownTasks(d, s, O)
      /\ AccountsFresh(d, F, s, O) /\ MailboxesFresh(d, F, s, O) /\ StatusesFresh(d, F, s, O)
      /\ Widening(s, D) => Widening(s, O)
  BY HoldingParts DEF Resuming, WindowAts
<1>1. Reading(a, at, s.mailbox)
  BY <1>0 DEF Reading, WindowIsCurrent
<1>2. /\ Follows(d, s, O, v, O, B, ReadAts) /\ v.tasks = s.tasks /\ Others(v, i) = O
  BY <1>0, SetFollows
<1>3. /\ Tidy(v) /\ KnownStores(d, v) /\ KnownTasks(d, v, O) /\ AccountsFresh(d, F, v, O)
      /\ MailboxesFresh(d, F, v, O) /\ StatusesFresh(d, F, v, O)
  BY <1>0, <1>2, FollowedParts DEF ReadAts, Follows
<1>4. v.account = s.account /\ v.mailbox = s.mailbox /\ v.missed = s.missed
  BY <1>0, <1>2 DEF Follows, SameExcept, AppFields
<1>5. WindowFresh(d, F, v, O)
  <2> SUFFICES ASSUME v.mailbox # NoId, ~Widening(v, O), ~Due(F, Query("view", v.mailbox))
               PROVE  /\ v.loadState = "notCached" => v.mailbox \notin DOMAIN d.views
                      /\ v.loadState = "ready" => v.view = ViewsOf(d, v.mailbox) /\ EmailsOf(d, v.emails)
                      /\ AnswersFit(d, Reads(v.tasks, O, "view", v.mailbox))
                      /\ AnswersFit(d, Reads(v.tasks, O, "emails", v.mailbox))
                      /\ \A x \in Reads(v.tasks, O, "emails", v.mailbox) : x.view = ViewsOf(d, v.mailbox)
    BY DEF WindowFresh
  <2>1. ~Widening(s, D)
    BY <1>0, <1>2, <1>4 DEF Widening, Accounting
  <2>2. /\ AnswersFit(d, Reads(s.tasks, D, "view", s.mailbox)) /\ AnswersFit(d, Reads(s.tasks, D, "emails", s.mailbox))
        /\ \A x \in Reads(s.tasks, D, "emails", s.mailbox) : x.view = ViewsOf(d, s.mailbox)
    BY <1>0, <1>4, <2>1 DEF Fresh, WindowFresh
  <2>3. /\ AnswersFit(d, Reads(s.tasks, O, "view", s.mailbox)) /\ AnswersFit(d, Reads(s.tasks, O, "emails", s.mailbox))
        /\ \A x \in Reads(s.tasks, O, "emails", s.mailbox) : x.view = ViewsOf(d, s.mailbox)
    BY <1>0, <2>2, DropCarries, OthersFit
  <2>4. Accurate(d, a, r)
    <3>1. AnswersFit(d, Reads(s.tasks, D, at, s.mailbox))
      BY <2>2 DEF WindowAts
    <3> QED
      BY <1>0, <1>1, <3>1, FittingIsAccurate
  <2>5. at = "emails" => a.view = ViewsOf(d, s.mailbox)
    BY <1>0, <1>1, <2>2, DropCarries
  <2> QED
    BY <1>2, <1>4, <2>3, <2>4, <2>5
<1>6. v.loadState # "ready" => BodyFresh(d, F, v, O)
  BY DEF BodyFresh
<1> QED
  BY <1>0, <1>2, <1>3, <1>5, <1>6

\* A read that nobody waits for returns.
LEMMA StaleIsFresh ==
    ASSUME NEW d, NEW F, NEW s, NEW i, NEW at, Holding(d, F, s, i, at), at # "materialize", NEW value,
           \/ ~s.tasks[i].fresh
           \/ at = "mailboxes" /\ s.account # s.tasks[i].key.accountKey
           \/ at \in WindowAts /\ s.mailbox # s.tasks[i].key
           \/ at = "return"
    PROVE  LET t == Finish(s, i, value) IN Fresh(d, F, t, DOMAIN t.tasks)
<1> DEFINE a == s.tasks[i]
           O == Others(s, i)
<1>1. /\ Tidy(s) /\ i \in DOMAIN s.tasks /\ a.at = at /\ Fresh(d, F, s, DOMAIN s.tasks)
      /\ KnownStores(d, s) /\ KnownTasks(d, s, O) /\ KnownTask(d, s.tasks[i])
      /\ ~s.tasks[i].fresh /\ at # "materialize" => Fresh(d, F, s, O)
  BY HoldingParts
<1>2. CASE ~a.fresh
  BY <1>1, <1>2, FinishIsFresh
<1>3. CASE a.fresh
  <2>1. at \in {"mailboxes", "view", "emails", "return"}
    BY <1>3 DEF WindowAts
  <2>2. /\ ~Reading(a, "accounts", NoId) /\ ~Reading(a, "mailboxes", OfAccount(s.account))
        /\ ~Reading(a, "statuses", OfAccount(s.account)) /\ ~Reading(a, "view", s.mailbox)
        /\ ~Reading(a, "emails", s.mailbox) /\ ~Reading(a, "body", s.email) /\ ~Retries(a, s.email)
    <3>1. OfAccount(s.account).accountKey = s.account
      BY DEF OfAccount, ScopedId
    <3> QED
      BY <1>1, <1>3, <2>1, <3>1 DEF Reading, Retries, WindowAts
  <2>3. /\ AccountsFresh(d, F, s, O) /\ MailboxesFresh(d, F, s, O) /\ StatusesFresh(d, F, s, O)
        /\ WindowFresh(d, F, s, O) /\ BodyFresh(d, F, s, O)
    BY <1>1, <2>2, DropIsFresh
  <2>4. Fresh(d, F, s, O)
    BY <1>1, <2>3, Zenon DEF Fresh
  <2> QED
    BY <1>1, <2>4, FinishIsFresh
<1> QED
  BY <1>2, <1>3

\* The view is known and its Emails are asked for.
LEMMA EmailsAskedIsFresh ==
    ASSUME NEW d, NEW F, NEW s, NEW i, NEW r, Resuming(d, F, s, i, r, "view"), WindowIsCurrent(s, s.tasks[i]),
           r.kind = "present"
    PROVE  LET t == [s EXCEPT !.tasks[i] = [@ EXCEPT !.at = "emails", !.phase = "asked", !.res = None, !.view = {r.value}]]
           IN  Fresh(d, F, t, DOMAIN t.tasks)
<1> DEFINE a == s.tasks[i]
           O == Others(s, i)
           D == DOMAIN s.tasks
           new == [a EXCEPT !.at = "emails", !.phase = "asked", !.res = None, !.view = {r.value}]
           t == [s EXCEPT !.tasks[i] = new]
<1>0. /\ Tidy(s) /\ i \in D /\ DOMAIN s = AppFields /\ a.at = "view" /\ Fresh(d, F, s, D) /\ Resumes(d, a, r)
      /\ KnownStores(d, s) /\ KnownTasks(d, s, O) /\ BodyFresh(d, F, s, O)
      /\ AccountsFresh(d, F, s, O) /\ MailboxesFresh(d, F, s, O) /\ StatusesFresh(d, F, s, O)
      /\ Widening(s, D) => Widening(s, O)
  BY HoldingParts DEF Resuming
<1>1. a.fresh /\ a.key = s.mailbox /\ DOMAIN a = TaskFields
  BY <1>0 DEF WindowIsCurrent, Tidy
<1>2. /\ new.at = "emails" /\ new.phase = "asked" /\ new.view = {r.value} /\ new.fresh /\ new.key = s.mailbox
      /\ new.then = a.then /\ DOMAIN new = TaskFields
  BY <1>1 DEF TaskFields
<1>3. [s EXCEPT !.tasks[i] = [@ EXCEPT !.at = "emails", !.phase = "asked", !.res = None, !.view = {r.value}]] = t
  BY <1>0 DEF AppFields
<1> HIDE DEF new
<1>4. /\ DOMAIN t.tasks = D /\ t.tasks[i] = new /\ \A j \in O : t.tasks[j] = s.tasks[j]
      /\ SameExcept(s, t, {"tasks"}) /\ DOMAIN t = AppFields /\ t.missed = s.missed
  BY <1>0 DEF Others, SameExcept, AppFields
<1> HIDE DEF t
<1>5. D = O \cup {i} /\ O \subseteq D /\ i \notin O
  BY <1>0 DEF Others
<1>6. \A j \in D : t.tasks[j].then = s.tasks[j].then
  BY <1>2, <1>4, <1>5
<1>7. Tidy(t)
  BY <1>0, <1>2, <1>4, <1>5, <1>6 DEF Tidy, Shape
<1>8. KeepsOwed(s, t)
  BY <1>4, <1>6 DEF KeepsOwed, Owed, Owes
<1>9. \A b, key : b # "emails" => SameRead(s, O, t, D, b, key)
  <2> SUFFICES ASSUME NEW b, NEW key, b # "emails" PROVE SameRead(s, O, t, D, b, key)
    OBVIOUS
  <2>1. \A j \in O : s.tasks[j].at = b /\ s.tasks[j].fresh /\ s.tasks[j].key = key => j \in D /\ t.tasks[j] = s.tasks[j]
    BY <1>4, <1>5
  <2>2. \A j \in D : t.tasks[j].at = b /\ t.tasks[j].fresh /\ t.tasks[j].key = key => j \in O /\ t.tasks[j] = s.tasks[j]
    BY <1>2, <1>4, <1>5
  <2>3. Reads(t.tasks, D, b, key) = Reads(s.tasks, O, b, key)
    BY <2>1, <2>2, ReadsAreSame
  <2> QED
    BY <1>4, <2>3 DEF SameRead
<1>10. KnownTasks(d, t, D)
  <2>1. KnownTask(d, new)
    BY <1>2 DEF KnownTask, Knowable
  <2> QED
    BY <1>0, <1>4, <1>5, <1>6, <2>1 DEF KnownTasks
<1>11. Follows(d, s, O, t, D, {"tasks"}, ReadAts \ {"emails"})
  <2>1. \A e : Retried(s, O, e) => Retried(t, D, e)
    BY <1>4, <1>5 DEF Retried
  <2>2. \A b \in ReadAts \ {"emails"} : \A key : SameRead(s, O, t, D, b, key)
    BY <1>9
  <2> QED
    BY <1>4, <1>7, <1>8, <1>10, <2>1, <2>2, Zenon DEF Follows, Carry
<1>12. /\ KnownStores(d, t) /\ AccountsFresh(d, F, t, D)
       /\ MailboxesFresh(d, F, t, D) /\ StatusesFresh(d, F, t, D) /\ BodyFresh(d, F, t, D)
  BY <1>0, <1>11, FollowedParts DEF ReadAts
<1>13. /\ t.account = s.account /\ t.mailbox = s.mailbox /\ t.loadState = s.loadState /\ t.view = s.view /\ t.emails = s.emails
  BY <1>0, <1>4 DEF SameExcept, AppFields
<1>14. WindowFresh(d, F, t, D)
  <2> SUFFICES ASSUME s.mailbox # NoId, ~Widening(t, D), ~Due(F, Query("view", s.mailbox))
               PROVE  /\ s.loadState = "notCached" => s.mailbox \notin DOMAIN d.views
                      /\ s.loadState = "ready" => s.view = ViewsOf(d, s.mailbox) /\ EmailsOf(d, s.emails)
                      /\ AnswersFit(d, Reads(t.tasks, D, "view", s.mailbox))
                      /\ AnswersFit(d, Reads(t.tasks, D, "emails", s.mailbox))
                      /\ \A x \in Reads(t.tasks, D, "emails", s.mailbox) : x.view = ViewsOf(d, s.mailbox)
    BY <1>13 DEF WindowFresh
  <2>1. ~Widening(s, D)
    <3>1. Widening(s, O) => Widening(t, D)
      <4>1. SameRead(s, O, t, D, "accounts", NoId) /\ SameRead(s, O, t, D, "mailboxes", OfAccount(s.account))
        BY <1>9
      <4> QED
        BY <1>13, <4>1, WideningKept, Zenon
    <3> QED
      BY <1>0, <3>1
  <2>2. /\ s.loadState = "notCached" => s.mailbox \notin DOMAIN d.views
        /\ s.loadState = "ready" => s.view = ViewsOf(d, s.mailbox) /\ EmailsOf(d, s.emails)
        /\ AnswersFit(d, Reads(s.tasks, D, "view", s.mailbox)) /\ AnswersFit(d, Reads(s.tasks, D, "emails", s.mailbox))
        /\ \A x \in Reads(s.tasks, D, "emails", s.mailbox) : x.view = ViewsOf(d, s.mailbox)
    BY <1>0, <2>1 DEF Fresh, WindowFresh
  <2>3. AnswersFit(d, Reads(t.tasks, D, "view", s.mailbox))
    <3>1. Reads(t.tasks, D, "view", s.mailbox) = Reads(s.tasks, O, "view", s.mailbox)
      BY <1>9 DEF SameRead
    <3> QED
      BY <1>0, <2>2, <3>1, OthersFit
  <2>4. Reads(t.tasks, D, "emails", s.mailbox) \subseteq Reads(s.tasks, D, "emails", s.mailbox) \cup {new}
    BY <1>4, <1>5 DEF Reads
  <2>5. new.view = ViewsOf(d, s.mailbox)
    <3>1. Accurate(d, a, r)
      BY <1>0, <1>1, <2>2, FittingIsAccurate DEF Reading
    <3> QED
      BY <1>0, <1>1, <1>2, <3>1 DEF Accurate
  <2> QED
    BY <1>2, <2>2, <2>3, <2>4, <2>5 DEF AnswersFit
<1> QED
  BY <1>3, <1>4, <1>10, <1>12, <1>14, Zenon DEF Fresh

\* The handler of a view.
LEMMA ViewReadIsFresh ==
    ASSUME NEW d, NEW F, NEW s, NEW i, NEW r, Resuming(d, F, s, i, r, "view")
    PROVE  LET t == ViewRead(s, i, r) IN Fresh(d, F, t, DOMAIN t.tasks)
<1> DEFINE a == s.tasks[i]
           O == Others(s, i)
           t == ViewRead(s, i, r)
<1>0. Holding(d, F, s, i, "view") /\ "view" \in WindowAts /\ DOMAIN s = AppFields
      /\ Resumes(d, a, r) /\ a.at = "view"
  BY DEF Resuming, WindowAts, Holding, Tidy, Shape
<1>1. CASE ~WindowIsCurrent(s, a)
  <2>1. t = Finish(s, i, None)
    BY <1>1 DEF ViewRead
  <2> QED
    BY <1>0, <1>1, <2>1, StaleIsFresh DEF WindowIsCurrent
<1>2. ASSUME WindowIsCurrent(s, a), NEW v, SameExcept(s, v, {"view", "emails", "loadState"}), t = Finish(v, i, None),
             v.loadState # "ready",
             v.loadState = "notCached" => (Accurate(d, a, r) => s.mailbox \notin DOMAIN d.views)
      PROVE  Fresh(d, F, t, DOMAIN t.tasks)
  <2>1. /\ Tidy(v) /\ i \in DOMAIN v.tasks /\ Others(v, i) = O /\ KnownStores(d, v) /\ KnownTasks(d, v, O)
        /\ AccountsFresh(d, F, v, O) /\ MailboxesFresh(d, F, v, O) /\ StatusesFresh(d, F, v, O) /\ WindowFresh(d, F, v, O)
        /\ BodyFresh(d, F, v, O)
    BY <1>0, <1>2, WindowReadSets
  <2>2. Fresh(d, F, v, Others(v, i))
    BY <2>1, Zenon DEF Fresh
  <2> QED
    BY <1>2, <2>1, <2>2, FinishIsFresh
<1>3. CASE WindowIsCurrent(s, a) /\ r.kind = "failed"
  <2> DEFINE v == [s EXCEPT !.loadState = "error"]
  <2>1. t = Finish(v, i, None)
    BY <1>3 DEF ViewRead
  <2>2. SameExcept(s, v, {"view", "emails", "loadState"}) /\ v.loadState = "error"
    BY <1>0 DEF SameExcept, AppFields
  <2> HIDE DEF v
  <2> QED
    BY <1>2, <1>3, <2>1, <2>2
<1>4. CASE WindowIsCurrent(s, a) /\ r.kind = "ownerAbsent"
  <2> DEFINE v == SetWindow(s, {}, Empty, "error")
  <2>1. t = Finish(v, i, None)
    BY <1>4 DEF ViewRead
  <2>2. SameExcept(s, v, {"view", "emails", "loadState"}) /\ v.loadState = "error"
    BY <1>0, SetterEffects
  <2> HIDE DEF v
  <2> QED
    BY <1>2, <1>4, <2>1, <2>2
<1>5. CASE WindowIsCurrent(s, a) /\ r.kind = "absent"
  <2> DEFINE v == SetWindow(s, {}, Empty, "notCached")
  <2>1. t = Finish(v, i, None)
    BY <1>5 DEF ViewRead
  <2>2. SameExcept(s, v, {"view", "emails", "loadState"}) /\ v.loadState = "notCached"
    BY <1>0, SetterEffects
  <2> HIDE DEF v
  <2>3. Accurate(d, a, r) => s.mailbox \notin DOMAIN d.views
    BY <1>0, <1>5 DEF Accurate, WindowIsCurrent
  <2>4. v.loadState # "ready" /\ (v.loadState = "notCached" => (Accurate(d, a, r) => s.mailbox \notin DOMAIN d.views))
    BY <2>2, <2>3
  <2> QED
    BY <1>2, <1>5, <2>1, <2>2, <2>4
<1>6. CASE WindowIsCurrent(s, a) /\ r.kind = "present"
  <2>1. t = [s EXCEPT !.tasks[i] = [@ EXCEPT !.at = "emails", !.phase = "asked", !.res = None, !.view = {r.value}]]
    BY <1>6 DEF ViewRead
  <2> QED
    <3> DEFINE u == [s EXCEPT !.tasks[i] = [@ EXCEPT !.at = "emails", !.phase = "asked", !.res = None, !.view = {r.value}]]
    <3>1. Fresh(d, F, u, DOMAIN u.tasks)
      BY <1>6, EmailsAskedIsFresh, Zenon
    <3>2. t = u
      BY <2>1, Zenon
    <3> HIDE DEF u, t
    <3>3. Fresh(d, F, t, DOMAIN t.tasks)
      BY <3>1, <3>2
    <3> QED
      BY <3>3 DEF t
<1>7. r.kind \in {"present", "absent", "ownerAbsent", "failed"}
  BY <1>0 DEF Resumes, GoodAnswer
<1> QED
  BY <1>1, <1>3, <1>4, <1>5, <1>6, <1>7
\* A frame is pushed and nothing is less fresh.
LEMMA PushIsFresh ==
    ASSUME NEW d, NEW F, NEW s, NEW i, Informed(d, s, i), NEW f, KnownFrame(d, f)
    PROVE  LET t == Push(s, i, f)
               O == Others(s, i)
           IN
           /\ Informed(d, t, i) /\ Others(t, i) = O /\ SameExcept(s, t, {"tasks"})
           /\ AccountsFresh(d, F, s, O) => AccountsFresh(d, F, t, O)
           /\ MailboxesFresh(d, F, s, O) => MailboxesFresh(d, F, t, O)
           /\ StatusesFresh(d, F, s, O) => StatusesFresh(d, F, t, O)
           /\ WindowFresh(d, F, s, O) => WindowFresh(d, F, t, O)
           /\ BodyFresh(d, F, s, O) => BodyFresh(d, F, t, O)
           /\ f.do = "statuses" => Owed(t, f.key.accountKey)
<1> DEFINE t == Push(s, i, f)
           O == Others(s, i)
<1>1. Tidy(s) /\ i \in DOMAIN s.tasks /\ KnownStores(d, s) /\ KnownTasks(d, s, O)
  BY DEF Informed
<1>2. /\ Follows(d, s, O, t, O, {"tasks"}, ReadAts)
      /\ DOMAIN t.tasks = DOMAIN s.tasks /\ Others(t, i) = O
      /\ f.do = "statuses" => Owed(t, f.key.accountKey)
  BY <1>1, PushCarries
<1> HIDE DEF t
<1>3. /\ KnownTasks(d, t, O) /\ KnownStores(d, t)
      /\ AccountsFresh(d, F, s, O) => AccountsFresh(d, F, t, O)
      /\ MailboxesFresh(d, F, s, O) => MailboxesFresh(d, F, t, O)
      /\ StatusesFresh(d, F, s, O) => StatusesFresh(d, F, t, O)
      /\ WindowFresh(d, F, s, O) => WindowFresh(d, F, t, O)
      /\ BodyFresh(d, F, s, O) => BodyFresh(d, F, t, O)
  BY <1>1, <1>2, FollowedParts DEF ReadAts
<1>4. Informed(d, t, i) /\ SameExcept(s, t, {"tasks"})
  BY <1>1, <1>2, <1>3 DEF Informed, Follows
<1> QED
  BY <1>2, <1>3, <1>4, Zenon DEF t, O

\* Another Email is selected, and its body is reread.
LEMMA ChosenIsFresh ==
    ASSUME NEW d, NEW F, NEW s, NEW i, NEW e, Informed(d, s, i),
           AccountsFresh(d, F, s, Others(s, i)), MailboxesFresh(d, F, s, Others(s, i)),
           StatusesFresh(d, F, s, Others(s, i)), WindowFresh(d, F, s, Others(s, i)),
           NEW u, LET c == StoreSelectEmail(s, e) IN u = c \/ u = Push(c, i, Frame("demand", e))
    PROVE  LET t == RefreshSelectedBody(u, i) IN Fresh(d, F, t, DOMAIN t.tasks)
<1> DEFINE c == StoreSelectEmail(s, e)
           O == Others(s, i)
           B == {"email", "body", "bodyState", "materializing", "bodyError"}
           f == Frame("demand", e)
<1>1. Tidy(s) /\ i \in DOMAIN s.tasks /\ KnownStores(d, s) /\ KnownTasks(d, s, O) /\ DOMAIN s = AppFields
  BY DEF Informed, Tidy, Shape
<1>2. SameExcept(s, c, B) /\ c.bodyState = (IF e = NoId THEN "idle" ELSE "loading")
  BY <1>1, SetterEffects
<1>3. KnownFrame(d, f)
  BY DEF KnownFrame, Frame
<1>4. u = c \/ u = Push(c, i, f)
  OBVIOUS
<1> HIDE DEF c, f
<1>5. Follows(d, s, O, c, O, B, ReadAts) /\ c.tasks = s.tasks /\ Others(c, i) = O
  BY <1>1, <1>2, SetFollows
<1>6. /\ Tidy(c) /\ KnownTasks(d, c, O) /\ AccountsFresh(d, F, c, O) /\ MailboxesFresh(d, F, c, O)
      /\ StatusesFresh(d, F, c, O) /\ WindowFresh(d, F, c, O)
  BY <1>1, <1>5, FollowedParts DEF ReadAts, Follows
<1>7. KnownStores(d, c)
  <2>1. c.accounts = s.accounts /\ c.account = s.account /\ c.mailboxes = s.mailboxes /\ c.mailbox = s.mailbox
    BY <1>1, <1>2 DEF SameExcept, AppFields
  <2> QED
    BY <1>1, <1>2, <2>1 DEF KnownStores
<1>8. ASSUME u = c PROVE LET t == RefreshSelectedBody(u, i) IN Fresh(d, F, t, DOMAIN t.tasks)
  <2>1. Informed(d, u, i)
    BY <1>1, <1>5, <1>6, <1>7, <1>8 DEF Informed
  <2> QED
    BY <1>5, <1>6, <1>8, <2>1, RefreshBodyIsFresh
<1>9. ASSUME u = Push(c, i, f) PROVE LET t == RefreshSelectedBody(u, i) IN Fresh(d, F, t, DOMAIN t.tasks)
  <2>1. Informed(d, c, i)
    BY <1>1, <1>5, <1>6, <1>7 DEF Informed
  <2>2. /\ Informed(d, Push(c, i, f), i) /\ Others(Push(c, i, f), i) = Others(c, i)
        /\ AccountsFresh(d, F, c, Others(c, i)) => AccountsFresh(d, F, Push(c, i, f), Others(c, i))
        /\ MailboxesFresh(d, F, c, Others(c, i)) => MailboxesFresh(d, F, Push(c, i, f), Others(c, i))
        /\ StatusesFresh(d, F, c, Others(c, i)) => StatusesFresh(d, F, Push(c, i, f), Others(c, i))
        /\ WindowFresh(d, F, c, Others(c, i)) => WindowFresh(d, F, Push(c, i, f), Others(c, i))
    BY <1>3, <2>1, PushIsFresh
  <2>3. /\ Informed(d, u, i) /\ AccountsFresh(d, F, u, Others(u, i)) /\ MailboxesFresh(d, F, u, Others(u, i))
        /\ StatusesFresh(d, F, u, Others(u, i)) /\ WindowFresh(d, F, u, Others(u, i))
    BY <1>5, <1>6, <1>9, <2>2, Zenon
  <2> QED
    BY <2>3, RefreshBodyIsFresh, Zenon
<1> QED
  BY <1>4, <1>8, <1>9

\* The handler of the Emails of a view.
LEMMA EmailsReadIsFresh ==
    ASSUME NEW d, NEW F, NEW s, NEW i, NEW r, Resuming(d, F, s, i, r, "emails")
    PROVE  LET t == EmailsRead(s, i, r) IN Fresh(d, F, t, DOMAIN t.tasks)
<1> DEFINE a == s.tasks[i]
           O == Others(s, i)
           t == EmailsRead(s, i, r)
           ids == UNION {{v.items[k].emailId : k \in DOMAIN v.items} : v \in a.view}
           kept == s.email # NoId /\ s.email \in ids
           next == IF kept THEN s.email
                   ELSE IF ids = {} THEN NoId ELSE (CHOOSE v \in a.view : TRUE).items[1].emailId
           shown == SetWindow(s, a.view, r.value, "ready")
           failed == SetWindow(s, a.view, Empty, "error")
           chosen == StoreSelectEmail(shown, next)
           u == IF next = NoId THEN chosen ELSE Push(chosen, i, Frame("demand", next))
<1>0. Holding(d, F, s, i, "emails") /\ "emails" \in WindowAts /\ DOMAIN s = AppFields
      /\ Resumes(d, a, r) /\ a.at = "emails"
  BY DEF Resuming, WindowAts, Holding, Tidy, Shape
<1>1. CASE ~WindowIsCurrent(s, a)
  <2>1. t = Finish(s, i, None)
    BY <1>1 DEF EmailsRead
  <2> QED
    BY <1>0, <1>1, <2>1, StaleIsFresh DEF WindowIsCurrent
<1>2. CASE WindowIsCurrent(s, a) /\ (r.kind = "failed" \/ ids \ DOMAIN r.value # {})
  <2>1. t = Finish(failed, i, None)
    BY <1>2 DEF EmailsRead
  <2>2. SameExcept(s, failed, {"view", "emails", "loadState"}) /\ failed.loadState = "error"
    BY <1>0, SetterEffects
  <2> HIDE DEF failed, ids
  <2>3. /\ Tidy(failed) /\ i \in DOMAIN failed.tasks /\ Others(failed, i) = O /\ KnownStores(d, failed)
        /\ KnownTasks(d, failed, O) /\ AccountsFresh(d, F, failed, O) /\ MailboxesFresh(d, F, failed, O)
        /\ StatusesFresh(d, F, failed, O) /\ WindowFresh(d, F, failed, O) /\ BodyFresh(d, F, failed, O)
    BY <1>0, <1>2, <2>2, WindowReadSets
  <2>4. Fresh(d, F, failed, Others(failed, i))
    BY <2>3, Zenon DEF Fresh
  <2> QED
    BY <2>1, <2>3, <2>4, FinishIsFresh
<1>3. ASSUME WindowIsCurrent(s, a), r.kind # "failed"
      PROVE  /\ Informed(d, shown, i)
             /\ AccountsFresh(d, F, shown, Others(shown, i)) /\ MailboxesFresh(d, F, shown, Others(shown, i))
             /\ StatusesFresh(d, F, shown, Others(shown, i)) /\ WindowFresh(d, F, shown, Others(shown, i))
  <2>1. SameExcept(s, shown, {"view", "emails", "loadState"}) /\ shown.loadState = "ready"
        /\ shown.view = a.view /\ shown.emails = r.value
    BY <1>0, SetterEffects
  <2>2. r.kind = "present"
    BY <1>0, <1>3 DEF Resumes, GoodAnswer
  <2> HIDE DEF shown
  <2>3. Accurate(d, a, r) /\ a.view = ViewsOf(d, s.mailbox) =>
           shown.view = ViewsOf(d, s.mailbox) /\ EmailsOf(d, shown.emails)
    BY <1>0, <2>1, <2>2 DEF Accurate
  <2>4. /\ Tidy(shown) /\ i \in DOMAIN shown.tasks /\ Others(shown, i) = O /\ KnownStores(d, shown)
        /\ KnownTasks(d, shown, O) /\ AccountsFresh(d, F, shown, O) /\ MailboxesFresh(d, F, shown, O)
        /\ StatusesFresh(d, F, shown, O) /\ WindowFresh(d, F, shown, O)
    BY <1>0, <1>3, <2>1, <2>3, WindowReadSets
  <2> QED
    BY <2>4, Zenon DEF Informed
<1>4. CASE WindowIsCurrent(s, a) /\ ~(r.kind = "failed" \/ ids \ DOMAIN r.value # {}) /\ kept
  <2>1. t = RefreshSelectedBody(shown, i)
    BY <1>4 DEF EmailsRead
  <2> HIDE DEF shown, ids, kept
  <2> QED
    BY <1>3, <1>4, <2>1, RefreshBodyIsFresh
<1>5. CASE WindowIsCurrent(s, a) /\ ~(r.kind = "failed" \/ ids \ DOMAIN r.value # {}) /\ ~kept
  <2>1. t = RefreshSelectedBody(u, i)
    BY <1>5 DEF EmailsRead
  <2>2. u = chosen \/ u = Push(chosen, i, Frame("demand", next))
    OBVIOUS
  <2> HIDE DEF shown, ids, kept, next, u
  <2> QED
    BY <1>3, <1>5, <2>1, <2>2, ChosenIsFresh
<1> QED
  BY <1>1, <1>2, <1>4, <1>5
\* A call that reads this is no attempt on a body.
LEMMA OwnerThrows ==
    ASSUME NEW t, GoodTask(t), t.at \in {"accounts", "mailboxes"}
    PROVE  t.owner \in {"initialize", "retry", "flush", "user"}
BY DEF GoodTask, Carries, Owners

\* The handler of the Mailboxes.
LEMMA MailboxesReadIsFresh ==
    ASSUME NEW d, NEW F, NEW s, NEW i, NEW r, Resuming(d, F, s, i, r, "mailboxes")
    PROVE  LET t == MailboxesRead(s, i, r) IN Fresh(d, F, t, DOMAIN t.tasks)
<1> DEFINE a == s.tasks[i]
           O == Others(s, i)
           D == DOMAIN s.tasks
           B == {"email", "body", "bodyState", "materializing", "bodyError",
                 "mailbox", "view", "emails", "loadState", "mailboxes"}
           t == MailboxesRead(s, i, r)
<1> SUFFICES Fresh(d, F, t, DOMAIN t.tasks)
  OBVIOUS
<1>0. /\ Holding(d, F, s, i, "mailboxes") /\ Resumes(d, a, r)
      /\ Tidy(s) /\ i \in D /\ DOMAIN s = AppFields /\ a.at = "mailboxes" /\ Fresh(d, F, s, D) /\ GoodTask(a)
      /\ KnownStores(d, s) /\ KnownTasks(d, s, O) /\ KnownTask(d, a)
      /\ AccountsFresh(d, F, s, O) /\ StatusesFresh(d, F, s, O)
  BY HoldingParts DEF Resuming
<1>1. \E x \in DOMAIN d.accounts \ {None} : a.key = OfAccount(x)
  BY <1>0 DEF KnownTask, Knowable
<1>2. a.key.accountKey # None /\ a.key = OfAccount(a.key.accountKey)
  BY <1>1 DEF OfAccount, ScopedId
<1>3. CASE ~a.fresh \/ s.account # a.key.accountKey
  <2>1. t = Finish(s, i, None)
    BY <1>3 DEF MailboxesRead
  <2> QED
    BY <1>0, <1>3, <2>1, StaleIsFresh
<1>4. CASE a.fresh /\ s.account = a.key.accountKey /\ r.kind = "failed"
  <2>1. t = Throw(s, i, "mailboxes")
    BY <1>4 DEF MailboxesRead
  <2>2. a.owner \in {"initialize", "retry", "flush", "user"}
    BY <1>0, OwnerThrows
  <2>3. a.key = OfAccount(s.account)
    BY <1>2, <1>4
  <2> QED
    BY <1>0, <2>1, <2>2, <2>3, ThrowIsFresh
<1>5. r.kind \in {"present", "failed"}
  BY <1>0 DEF Resumes, Sound
<1>6. CASE a.fresh /\ s.account = a.key.accountKey /\ r.kind = "present"
  <2>1. s.account # None /\ Reading(a, "mailboxes", OfAccount(s.account))
    BY <1>0, <1>2, <1>6 DEF Reading
  <2>2. ASSUME NEW v, SameExcept(s, v, B), v.mailboxes = r.value,
               (v.email = s.email /\ v.bodyState = s.bodyState) \/ v.bodyState = "idle"
        PROVE  /\ Informed(d, v, i) /\ Others(v, i) = O
               /\ AccountsFresh(d, F, v, O) /\ MailboxesFresh(d, F, v, O) /\ StatusesFresh(d, F, v, O)
    <3>1. Follows(d, s, O, v, O, B, ReadAts) /\ v.tasks = s.tasks /\ Others(v, i) = O
      BY <1>0, <2>2, SetFollows
    <3>2. Tidy(v) /\ KnownTasks(d, v, O) /\ AccountsFresh(d, F, v, O) /\ StatusesFresh(d, F, v, O)
      BY <1>0, <3>1, FollowedParts DEF ReadAts, Follows
    <3>3. v.accounts = s.accounts /\ v.account = s.account /\ v.missed = s.missed
      BY <1>0, <2>2 DEF SameExcept, AppFields
    <3>4. KnownStores(d, v)
      BY <1>0, <2>1, <2>2, <3>3 DEF KnownStores
    <3>5. MailboxesFresh(d, F, v, O)
      <4> SUFFICES ASSUME ~Due(F, Query("mailboxes", s.account)), ~Accounting(v, O), <<"mailboxes", s.account>> \notin s.missed
                   PROVE  r.value = Owned(d.mailboxes, s.account)
                          /\ AnswersFit(d, Reads(s.tasks, O, "mailboxes", OfAccount(s.account)))
        BY <2>2, <3>1, <3>3, Zenon DEF MailboxesFresh
      <4>1. ~Accounting(s, D)
        <5>1. SameRead(s, D, s, O, "accounts", NoId)
          <6>1. ~Reading(a, "accounts", NoId)
            BY <1>0 DEF Reading
          <6> QED
            BY <1>0, <6>1, DropCarries
        <5> QED
          BY <3>1, <3>3, <5>1 DEF Accounting, SameRead
      <4>2. AnswersFit(d, Reads(s.tasks, D, "mailboxes", OfAccount(s.account)))
        BY <1>0, <2>1, <4>1 DEF Fresh, MailboxesFresh
      <4>3. Accurate(d, a, r)
        BY <1>0, <2>1, <4>2, FittingIsAccurate
      <4>4. r.value = Owned(d.mailboxes, s.account)
        BY <1>0, <1>6, <4>3 DEF Accurate
      <4> QED
        BY <1>0, <4>2, <4>4, OthersFit
    <3>6. Informed(d, v, i)
      BY <1>0, <3>1, <3>2, <3>4 DEF Informed
    <3> QED
      BY <3>1, <3>2, <3>5, <3>6
  <2> DEFINE boxes == r.value
             known == [s EXCEPT !.mailboxes = boxes]
             m == First(MailboxOrder, boxes)
             none == StoreSelectMailbox(known, NoId)
             empty == [none EXCEPT !.loadState = "ready"]
             chosen == StoreSelectMailbox(known, m)
  <2>3. t = IF boxes = {} THEN Finish(empty, i, None)
            ELSE IF s.mailbox \in boxes THEN RefreshMailboxWindow(known, i)
            ELSE RefreshMailboxWindow(chosen, i)
    BY <1>6 DEF MailboxesRead
  <2>4. /\ SameExcept(s, known, {"mailboxes"}) /\ known.mailboxes = boxes /\ known.email = s.email
        /\ known.bodyState = s.bodyState /\ DOMAIN known = AppFields
    BY <1>0 DEF SameExcept, AppFields
  <2> HIDE DEF known, m, t
  <2>5. /\ \A x : LET u == StoreSelectMailbox(known, x) IN
               /\ SameExcept(known, u, {"email", "body", "bodyState", "materializing", "bodyError",
                                        "mailbox", "view", "emails", "loadState"})
               /\ u.mailbox = x /\ u.bodyState = "idle"
    BY <2>4, SetterEffects
  <2>6. CASE boxes = {}
    <3>1. SameExcept(s, empty, B) /\ empty.mailboxes = boxes /\ empty.bodyState = "idle" /\ empty.mailbox = NoId
      BY <1>0, <2>4, <2>5 DEF SameExcept, AppFields
    <3> HIDE DEF empty, boxes
    <3>2. /\ Informed(d, empty, i) /\ Others(empty, i) = O
          /\ AccountsFresh(d, F, empty, O) /\ MailboxesFresh(d, F, empty, O) /\ StatusesFresh(d, F, empty, O)
      BY <2>2, <3>1 DEF boxes
    <3>3. WindowFresh(d, F, empty, O) /\ BodyFresh(d, F, empty, O)
      BY <3>1, Zenon DEF WindowFresh, BodyFresh
    <3>4. Fresh(d, F, empty, Others(empty, i)) /\ Tidy(empty) /\ i \in DOMAIN empty.tasks
      BY <3>2, <3>3, Zenon DEF Fresh, Informed
    <3> QED
      BY <2>3, <2>6, <3>4, FinishIsFresh
  <2>7. CASE boxes # {} /\ s.mailbox \in boxes
    <3>1. SameExcept(s, known, B)
      BY <2>4 DEF SameExcept
    <3>2. /\ Informed(d, known, i) /\ Others(known, i) = O
          /\ AccountsFresh(d, F, known, O) /\ MailboxesFresh(d, F, known, O) /\ StatusesFresh(d, F, known, O)
      BY <2>2, <2>4, <3>1
    <3> QED
      BY <2>3, <2>7, <3>2, RefreshWindowIsFresh
  <2>8. CASE boxes # {} /\ s.mailbox \notin boxes
    <3>1. SameExcept(s, chosen, B) /\ chosen.mailboxes = boxes /\ chosen.bodyState = "idle"
      BY <1>0, <2>4, <2>5 DEF SameExcept, AppFields
    <3> HIDE DEF chosen
    <3>2. /\ Informed(d, chosen, i) /\ Others(chosen, i) = O
          /\ AccountsFresh(d, F, chosen, O) /\ MailboxesFresh(d, F, chosen, O) /\ StatusesFresh(d, F, chosen, O)
      BY <2>2, <3>1
    <3> QED
      BY <2>3, <2>8, <3>2, RefreshWindowIsFresh
  <2> QED
    BY <2>6, <2>7, <2>8
<1> QED
  BY <1>3, <1>4, <1>5, <1>6

\* More reads are missed.
LEMMA MissedFollows ==
    ASSUME NEW d, NEW s, Tidy(s), NEW S, NEW more, s.missed \subseteq more
    PROVE  LET t == [s EXCEPT !.missed = more] IN
           /\ Follows(d, s, S, t, S, {"missed"}, ReadAts) /\ t.tasks = s.tasks /\ t.missed = more
<1> DEFINE t == [s EXCEPT !.missed = more]
<1>1. DOMAIN s = AppFields
  BY DEF Tidy, Shape
<1>2. SameExcept(s, t, {"missed"}) /\ t.tasks = s.tasks /\ t.missed = more /\ DOMAIN t = AppFields
  BY <1>1 DEF SameExcept, AppFields
<1> HIDE DEF t
<1>3. Tidy(t) /\ KeepsOwed(s, t)
  BY <1>2 DEF Tidy, Shape, KeepsOwed, Owed
<1>4. \A at, key : SameRead(s, S, t, S, at, key)
  BY <1>2 DEF SameRead
<1>5. (\A e : Retried(s, S, e) => Retried(t, S, e)) /\ (KnownTasks(d, s, S) => KnownTasks(d, t, S))
  BY <1>2 DEF Retried, KnownTasks
<1>6. Carry(d, s, S, t, S, ReadAts)
  BY <1>4, <1>5, Zenon DEF Carry
<1> QED
  BY <1>2, <1>3, <1>6, Zenon DEF Follows, t

\* The handler of the statuses.
LEMMA StatusesReadIsFresh ==
    ASSUME NEW d, NEW F, NEW s, NEW i, NEW r, Resuming(d, F, s, i, r, "statuses"), ~s.disposed
    PROVE  LET t == StatusesRead(s, i, r) IN Fresh(d, F, t, DOMAIN t.tasks)
<1> DEFINE k == s.tasks[i]
           a == k.key.accountKey
           O == Others(s, i)
           D == DOMAIN s.tasks
           t == StatusesRead(s, i, r)
<1> SUFFICES Fresh(d, F, t, DOMAIN t.tasks)
  OBVIOUS
<1>0. /\ Holding(d, F, s, i, "statuses") /\ Resumes(d, k, r)
      /\ Tidy(s) /\ i \in D /\ DOMAIN s = AppFields /\ k.at = "statuses" /\ Fresh(d, F, s, D) /\ GoodTask(k)
      /\ KnownStores(d, s) /\ KnownTasks(d, s, O) /\ KnownTask(d, k)
      /\ AccountsFresh(d, F, s, O) /\ MailboxesFresh(d, F, s, O) /\ WindowFresh(d, F, s, O) /\ BodyFresh(d, F, s, O)
  BY HoldingParts DEF Resuming
<1>1. k.key = OfAccount(a) /\ r.kind \in {"present", "failed"}
  <2>1. \E x \in DOMAIN d.accounts : k.key = OfAccount(x)
    BY <1>0 DEF KnownTask, Knowable
  <2> QED
    BY <1>0, <2>1 DEF OfAccount, ScopedId, Resumes, Sound
<1>2. CASE ~k.fresh
  <2>1. t = Finish(s, i, None)
    BY <1>2 DEF StatusesRead
  <2> QED
    BY <1>0, <1>2, <2>1, StaleIsFresh
<1>3. a # s.account => StatusesFresh(d, F, s, O)
  <2> SUFFICES ASSUME a # s.account PROVE StatusesFresh(d, F, s, O)
    OBVIOUS
  <2>1. OfAccount(s.account).accountKey = s.account
    BY DEF OfAccount, ScopedId
  <2>2. ~Reading(k, "accounts", NoId) /\ ~Reading(k, "statuses", OfAccount(s.account))
    BY <1>0, <2>1 DEF Reading
  <2> QED
    BY <1>0, <2>2, DropIsFresh
<1>4. CASE k.fresh /\ r.kind = "failed"
  <2> DEFINE more == s.missed \cup {<<"statuses", a>>}
             v == [s EXCEPT !.missed = more]
  <2>1. t = Finish(v, i, None)
    BY <1>4 DEF StatusesRead
  <2>2. s.missed \subseteq more /\ <<"statuses", a>> \in more
    OBVIOUS
  <2> HIDE DEF more
  <2>3. Follows(d, s, O, v, O, {"missed"}, ReadAts) /\ v.tasks = s.tasks /\ v.missed = more
    BY <1>0, <2>2, MissedFollows
  <2> HIDE DEF v
  <2>4. /\ Tidy(v) /\ KnownStores(d, v) /\ KnownTasks(d, v, O) /\ AccountsFresh(d, F, v, O) /\ MailboxesFresh(d, F, v, O)
        /\ WindowFresh(d, F, v, O) /\ BodyFresh(d, F, v, O) /\ (a # s.account => StatusesFresh(d, F, v, O))
    BY <1>0, <1>3, <2>3, FollowedParts DEF ReadAts, Follows
  <2>5. a = s.account => StatusesFresh(d, F, v, O)
    <3>1. v.account = s.account
      BY <1>0, <2>3 DEF Follows, SameExcept, AppFields
    <3> QED
      BY <2>2, <2>3, <3>1 DEF StatusesFresh
  <2>6. Others(v, i) = O /\ i \in DOMAIN v.tasks
    BY <1>0, <2>3 DEF Others
  <2>7. Fresh(d, F, v, Others(v, i))
    BY <2>4, <2>5, <2>6, Zenon DEF Fresh
  <2> QED
    BY <2>1, <2>4, <2>6, <2>7, FinishIsFresh
<1>5. CASE k.fresh /\ r.kind = "present"
  <2> DEFINE new == With(s.statuses, Entry(a, r.value))
             v == [s EXCEPT !.statuses = new]
  <2>1. t = Finish(v, i, None)
    BY <1>5 DEF StatusesRead
  <2>2. /\ a \in DOMAIN new /\ new[a] = r.value /\ DOMAIN s.statuses \subseteq DOMAIN new
        /\ \A x \in DOMAIN s.statuses : x # a => new[x] = s.statuses[x]
    BY DEF With, Entry
  <2> HIDE DEF new
  <2>3. SameExcept(s, v, {"statuses"}) /\ v.statuses = new
    BY <1>0 DEF SameExcept, AppFields
  <2> HIDE DEF v, t
  <2>4. Follows(d, s, O, v, O, {"statuses"}, ReadAts) /\ v.tasks = s.tasks /\ Others(v, i) = O
    BY <1>0, <2>3, SetFollows
  <2>5. /\ Tidy(v) /\ KnownStores(d, v) /\ KnownTasks(d, v, O) /\ AccountsFresh(d, F, v, O) /\ MailboxesFresh(d, F, v, O)
        /\ WindowFresh(d, F, v, O) /\ BodyFresh(d, F, v, O)
    BY <1>0, <2>4, FollowedParts DEF ReadAts, Follows
  <2>6. v.account = s.account /\ v.missed = s.missed
    BY <1>0, <2>3 DEF SameExcept, AppFields
  <2>7. StatusesFresh(d, F, v, O)
    <3> SUFFICES ASSUME s.account # None, ~Due(F, Query("mutations", s.account)), ~Accounting(v, O),
                        <<"statuses", s.account>> \notin s.missed, ~Owed(v, s.account)
                 PROVE  /\ \/ Reads(s.tasks, O, "statuses", OfAccount(s.account)) # {}
                           \/ s.account \in DOMAIN new /\ new[s.account] = ValuesOf(d.mutations, s.account)
                        /\ AnswersFit(d, Reads(s.tasks, O, "statuses", OfAccount(s.account)))
      BY <2>3, <2>4, <2>6, Zenon DEF StatusesFresh
    <3>0. ~Accounting(s, O) /\ ~Owed(s, s.account)
      BY <2>4, <2>6 DEF Accounting, Owed
    <3>1. ~Accounting(s, D)
      <4>1. ~Reading(k, "accounts", NoId)
        BY <1>0 DEF Reading
      <4>2. SameRead(s, D, s, O, "accounts", NoId)
        BY <1>0, <4>1, DropCarries
      <4> QED
        BY <3>0, <4>2 DEF Accounting, SameRead
    <3>2. CASE a = s.account
      <4>1. AnswersFit(d, Reads(s.tasks, D, "statuses", OfAccount(s.account)))
        BY <1>0, <3>0, <3>1 DEF Fresh, StatusesFresh
      <4>2. Reading(k, "statuses", OfAccount(s.account))
        BY <1>0, <1>1, <1>5, <3>2 DEF Reading
      <4>3. Accurate(d, k, r)
        BY <1>0, <4>1, <4>2, FittingIsAccurate
      <4>4. r.value = ValuesOf(d.mutations, s.account)
        BY <1>0, <1>5, <3>2, <4>3 DEF Accurate
      <4> QED
        BY <1>0, <2>2, <3>2, <4>1, <4>4, OthersFit
    <3>3. CASE a # s.account
      <4>1. /\ \/ Reads(s.tasks, O, "statuses", OfAccount(s.account)) # {}
               \/ s.account \in DOMAIN s.statuses /\ s.statuses[s.account] = ValuesOf(d.mutations, s.account)
            /\ AnswersFit(d, Reads(s.tasks, O, "statuses", OfAccount(s.account)))
        BY <1>3, <3>0, <3>3, Zenon DEF StatusesFresh
      <4> QED
        BY <2>2, <3>3, <4>1
    <3> QED
      BY <3>2, <3>3
  <2>8. Fresh(d, F, v, O)
    BY <2>5, <2>7, Zenon DEF Fresh
  <2> QED
    BY <1>0, <2>1, <2>3, <2>8, SetIsFresh
<1> QED
  BY <1>1, <1>2, <1>4, <1>5
\* The handler of the accounts.
LEMMA AccountsReadIsFresh ==
    ASSUME NEW d, DOMAIN d.accounts \subseteq ToSet(AccountOrder),
           NEW F, NEW s, NEW i, NEW r, Resuming(d, F, s, i, r, "accounts")
    PROVE  LET t == AccountsRead(s, i, r) IN Fresh(d, F, t, DOMAIN t.tasks)
<1> DEFINE k == s.tasks[i]
           O == Others(s, i)
           D == DOMAIN s.tasks
           B == {"email", "body", "bodyState", "materializing", "bodyError", "mailbox", "view", "emails",
                 "loadState", "account", "mailboxes", "accounts", "statuses"}
           t == AccountsRead(s, i, r)
<1> SUFFICES Fresh(d, F, t, DOMAIN t.tasks)
  OBVIOUS
<1>0. /\ Holding(d, F, s, i, "accounts") /\ Resumes(d, k, r)
      /\ Tidy(s) /\ i \in D /\ DOMAIN s = AppFields /\ k.at = "accounts" /\ Fresh(d, F, s, D) /\ GoodTask(k)
      /\ KnownStores(d, s) /\ KnownTasks(d, s, O) /\ KnownTask(d, k)
  BY HoldingParts DEF Resuming
<1>1. k.key = NoId
  BY <1>0 DEF KnownTask, Knowable
<1>2. CASE ~k.fresh
  <2>1. t = Finish(s, i, None)
    BY <1>2 DEF AccountsRead
  <2> QED
    BY <1>0, <1>2, <2>1, StaleIsFresh
<1>3. k.fresh => Due(F, Query("accounts", None)) \/ (AnswersFit(d, Reads(s.tasks, O, "accounts", NoId)) /\ Accurate(d, k, r))
  <2> SUFFICES ASSUME k.fresh, ~Due(F, Query("accounts", None))
               PROVE  AnswersFit(d, Reads(s.tasks, O, "accounts", NoId)) /\ Accurate(d, k, r)
    OBVIOUS
  <2>1. AnswersFit(d, Reads(s.tasks, D, "accounts", NoId))
    BY <1>0 DEF Fresh, AccountsFresh
  <2>2. Reading(k, "accounts", NoId)
    BY <1>0, <1>1 DEF Reading
  <2> QED
    BY <1>0, <2>1, <2>2, OthersFit, FittingIsAccurate
<1>4. CASE k.fresh /\ r.kind = "failed"
  <2>1. t = Throw(s, i, "accounts")
    BY <1>4 DEF AccountsRead
  <2>2. k.owner \in {"initialize", "retry", "flush", "user"}
    BY <1>0, OwnerThrows
  <2>3. AnswersFit(d, Reads(s.tasks, O, "accounts", NoId)) \/ AccountsFresh(d, F, s, O)
    BY <1>3, <1>4, Zenon DEF AccountsFresh
  <2> QED
    BY <1>0, <1>1, <2>1, <2>2, <2>3, ThrowIsFresh
<1>5. r.kind \in {"present", "failed"} /\ (r.kind = "present" => r.value \subseteq DOMAIN d.accounts)
  BY <1>0 DEF Resumes, Sound
<1>6. CASE k.fresh /\ r.kind = "present"
  <2>1. ASSUME NEW v, SameExcept(s, v, B), v.accounts = r.value,
               \/ v.account = s.account /\ v.mailboxes = s.mailboxes /\ v.mailbox = s.mailbox /\ v.email = s.email
                  /\ v.bodyState = s.bodyState
               \/ v.account \in DOMAIN d.accounts \cup {None} /\ v.mailboxes = {} /\ v.mailbox = NoId /\ v.bodyState = "idle"
        PROVE  Informed(d, v, i) /\ Others(v, i) = O /\ AccountsFresh(d, F, v, O)
    <3>1. Follows(d, s, O, v, O, B, ReadAts) /\ v.tasks = s.tasks /\ Others(v, i) = O
      BY <1>0, <2>1, SetFollows
    <3>2. Tidy(v) /\ KnownTasks(d, v, O)
      BY <1>0, <3>1, FollowedParts DEF Follows
    <3>3. KnownStores(d, v)
      BY <1>0, <1>5, <1>6, <2>1 DEF KnownStores
    <3>4. AccountsFresh(d, F, v, O)
      BY <1>0, <1>3, <1>6, <2>1, <3>1 DEF AccountsFresh, Accurate
    <3> QED
      BY <1>0, <3>1, <3>2, <3>3, <3>4 DEF Informed
  <2> DEFINE accounts == r.value
             known == [s EXCEPT !.accounts = accounts]
             a == First(AccountOrder, accounts)
             none == StoreSelectAccount(known, None)
             empty == [none EXCEPT !.statuses = Empty, !.loadState = "ready"]
             chosen == StoreSelectAccount(known, a)
  <2>2. t = IF accounts = {} THEN Finish(empty, i, None)
            ELSE IF s.account \in accounts THEN ShowAccount(known, i, s.account)
            ELSE ShowAccount(chosen, i, a)
    BY <1>6 DEF AccountsRead
  <2>3. accounts \subseteq DOMAIN d.accounts
    BY <1>5, <1>6
  <2>4. accounts # {} => a \in accounts
    <3> HIDE DEF accounts
    <3>1. accounts # {} => First(AccountOrder, accounts) \in accounts
      BY <2>3, FirstIsIn, AccountOrderAssumption
    <3> QED
      BY <3>1
  <2>5. /\ SameExcept(s, known, {"accounts"}) /\ known.accounts = accounts /\ known.account = s.account
        /\ known.mailboxes = s.mailboxes /\ known.mailbox = s.mailbox /\ known.email = s.email
        /\ known.bodyState = s.bodyState /\ DOMAIN known = AppFields
    BY <1>0 DEF SameExcept, AppFields
  <2> HIDE DEF known, a, t
  <2>6. /\ \A x : LET u == StoreSelectAccount(known, x) IN
              /\ SameExcept(known, u, {"email", "body", "bodyState", "materializing", "bodyError",
                                       "mailbox", "view", "emails", "loadState", "account", "mailboxes"})
              /\ u.mailbox = NoId /\ u.bodyState = "idle" /\ u.account = x /\ u.mailboxes = {}
    BY <2>5, SetterEffects
  <2>7. CASE accounts = {}
    <3>1. /\ SameExcept(s, empty, B) /\ empty.accounts = accounts /\ empty.bodyState = "idle" /\ empty.mailbox = NoId
          /\ empty.account = None /\ empty.mailboxes = {}
      <4>1. /\ SameExcept(known, none, {"email", "body", "bodyState", "materializing", "bodyError",
                                       "mailbox", "view", "emails", "loadState", "account", "mailboxes"})
            /\ none.mailbox = NoId /\ none.bodyState = "idle" /\ none.account = None /\ none.mailboxes = {}
        BY <2>6
      <4> HIDE DEF none
      <4>2. /\ SameExcept(none, empty, {"statuses", "loadState"})
            /\ empty.account = none.account /\ empty.mailbox = none.mailbox /\ empty.mailboxes = none.mailboxes
            /\ empty.bodyState = none.bodyState /\ empty.accounts = none.accounts
        BY <4>1, <2>5 DEF SameExcept, AppFields
      <4> HIDE DEF empty, accounts
      <4> QED
        BY <1>0, <2>5, <4>1, <4>2 DEF SameExcept, AppFields
    <3> HIDE DEF empty, accounts
    <3>2. Informed(d, empty, i) /\ Others(empty, i) = O /\ AccountsFresh(d, F, empty, O)
      BY <2>1, <3>1 DEF accounts
    <3>3. /\ MailboxesFresh(d, F, empty, O) /\ StatusesFresh(d, F, empty, O)
          /\ WindowFresh(d, F, empty, O) /\ BodyFresh(d, F, empty, O)
      BY <3>1, Zenon DEF MailboxesFresh, StatusesFresh, WindowFresh, BodyFresh
    <3>4. Fresh(d, F, empty, Others(empty, i)) /\ Tidy(empty) /\ i \in DOMAIN empty.tasks
      BY <3>2, <3>3, Zenon DEF Fresh, Informed
    <3> QED
      BY <2>2, <2>7, <3>4, FinishIsFresh
  <2>8. CASE accounts # {} /\ s.account \in accounts
    <3>1. SameExcept(s, known, B)
      BY <2>5 DEF SameExcept
    <3>2. Informed(d, known, i) /\ Others(known, i) = O /\ AccountsFresh(d, F, known, O)
      BY <2>1, <2>5, <3>1
    <3>3. s.account \in DOMAIN d.accounts
      BY <2>3, <2>8
    <3> HIDE DEF accounts
    <3> QED
      BY <2>2, <2>5, <2>8, <3>2, <3>3, ShowAccountIsFresh
  <2>9. CASE accounts # {} /\ s.account \notin accounts
    <3>1. /\ SameExcept(s, chosen, B) /\ chosen.accounts = accounts /\ chosen.bodyState = "idle"
          /\ chosen.mailbox = NoId /\ chosen.account = a /\ chosen.mailboxes = {}
      BY <1>0, <2>5, <2>6 DEF SameExcept, AppFields
    <3> HIDE DEF chosen, accounts
    <3>2. a \in DOMAIN d.accounts
      BY <2>3, <2>4, <2>9
    <3>3. Informed(d, chosen, i) /\ Others(chosen, i) = O /\ AccountsFresh(d, F, chosen, O)
      BY <2>1, <3>1, <3>2 DEF accounts
    <3> QED
      BY <2>2, <2>9, <3>1, <3>2, <3>3, ShowAccountIsFresh
  <2> QED
    BY <2>7, <2>8, <2>9
<1> QED
  BY <1>2, <1>4, <1>5, <1>6

\* The handler of the subscription.
LEMMA SubscribedIsFresh ==
    ASSUME NEW d, NEW F, NEW s, NEW i, NEW r, Holding(d, F, s, i, "subscribe")
    PROVE  LET t == Subscribed(s, i, r) IN Fresh(d, F, t, DOMAIN t.tasks)
<1> DEFINE k == s.tasks[i]
           O == Others(s, i)
           D == DOMAIN s.tasks
           t == Subscribed(s, i, r)
<1> SUFFICES Fresh(d, F, t, DOMAIN t.tasks)
  OBVIOUS
<1>0. /\ Tidy(s) /\ i \in D /\ DOMAIN s = AppFields /\ k.at = "subscribe"
      /\ KnownStores(d, s) /\ KnownTasks(d, s, O) /\ KnownTask(d, k)
      /\ AccountsFresh(d, F, s, O) /\ MailboxesFresh(d, F, s, O) /\ StatusesFresh(d, F, s, O)
      /\ WindowFresh(d, F, s, O) /\ BodyFresh(d, F, s, O)
  BY HoldingParts
<1>1. CASE r.kind = "ok"
  <2> DEFINE v == [s EXCEPT !.subscribed = TRUE]
             f == Frame("ready", NoId)
             p == Push(v, i, f)
  <2>1. t = RefreshAccounts(p, i)
    BY <1>1 DEF Subscribed
  <2>2. SameExcept(s, v, {"subscribed"})
    BY <1>0 DEF SameExcept, AppFields
  <2>3. KnownFrame(d, f)
    BY DEF KnownFrame, Frame
  <2> HIDE DEF v, f, t
  <2>4. Follows(d, s, O, v, O, {"subscribed"}, ReadAts) /\ v.tasks = s.tasks /\ Others(v, i) = O
    BY <1>0, <2>2, SetFollows
  <2>5. Tidy(v) /\ KnownTasks(d, v, O) /\ KnownStores(d, v)
    BY <1>0, <2>4, FollowedParts DEF Follows
  <2>6. Informed(d, v, i)
    BY <1>0, <2>4, <2>5 DEF Informed
  <2>7. Informed(d, p, i)
    BY <2>3, <2>6, PushIsFresh
  <2> HIDE DEF p
  <2> QED
    BY <2>1, <2>7, RefreshAccountsIsFresh
<1>2. CASE r.kind # "ok"
  <2> DEFINE u == [s EXCEPT !.local = "error", !.loadState = "error"]
             e == End(u, i)
  <2>1. SameExcept(s, u, {"local", "loadState"}) /\ u.loadState = "error" /\ DOMAIN u = AppFields
    BY <1>0 DEF SameExcept, AppFields
  <2>2. t = e
    <3>1. u.tasks = s.tasks /\ u.attempts = s.attempts
      BY <1>0 DEF AppFields
    <3>2. t = [End(s, i) EXCEPT !.local = "error", !.loadState = "error"]
      BY <1>2 DEF Subscribed
    <3> QED
      BY <1>0, <3>1, <3>2 DEF End, AppFields
  <2> HIDE DEF u, e, t
  <2>3. Follows(d, s, O, u, O, {"local", "loadState"}, ReadAts) /\ u.tasks = s.tasks /\ Others(u, i) = O
    BY <1>0, <2>1, SetFollows
  <2>4. /\ Tidy(u) /\ KnownTasks(d, u, O) /\ KnownStores(d, u) /\ AccountsFresh(d, F, u, O)
        /\ MailboxesFresh(d, F, u, O) /\ StatusesFresh(d, F, u, O)
    BY <1>0, <2>3, FollowedParts DEF ReadAts, Follows
  <2>5. BodyFresh(d, F, u, O)
    BY <2>1 DEF BodyFresh
  <2>6. WindowFresh(d, F, u, O)
    <3>1. /\ u.account = s.account /\ u.mailbox = s.mailbox /\ u.missed = s.missed
      BY <1>0, <2>1 DEF SameExcept, AppFields
    <3>2. Widening(s, O) => Widening(u, O)
      BY <2>3, <3>1 DEF Widening, Accounting
    <3> QED
      BY <1>0, <2>1, <2>3, <3>1, <3>2 DEF WindowFresh
  <2>7. u.tasks[i].then = <<>> /\ i \in DOMAIN u.tasks
    BY <1>0, <2>3 DEF KnownTask
  <2>8. Fresh(d, F, u, Others(u, i))
    BY <2>3, <2>4, <2>5, <2>6, Zenon DEF Fresh
  <2>9. Fresh(d, F, e, DOMAIN e.tasks)
    BY <2>4, <2>7, <2>8, EndIsFresh DEF e
  <2> QED
    BY <2>2, <2>9
<1> QED
  BY <1>1, <1>2

-----------------------------------------------------------------------------
(* Freshness: the end of a materialization, and the code after an awaited   *)
(* call.                                                                    *)

\* The answers of the reads of the body selected are the store's, unless something wider is read again.
BodyAnswersFit(d, F, s, S) ==
    s.mailbox # NoId /\ s.email # NoId /\ s.loadState = "ready" =>
        \/ Widening(s, S)
        \/ Due(F, Query("view", s.mailbox))
        \/ Hint("emailBody", s.email) \in F
        \/ AnswersFit(d, Reads(s.tasks, S, "body", s.email))

\* The end of an attempt: one that failed reports so, and what it would have read again is excused.
LEMMA FinishBodyIsFresh ==
    ASSUME NEW d, NEW F, NEW s, NEW i, NEW e, NEW outcome, Informed(d, s, i), s.tasks[i].then = <<>>, ~s.disposed, e # NoId,
           AccountsFresh(d, F, s, Others(s, i)), MailboxesFresh(d, F, s, Others(s, i)),
           StatusesFresh(d, F, s, Others(s, i)), WindowFresh(d, F, s, Others(s, i)),
           \/ BodyFresh(d, F, s, Others(s, i))
           \/ s.email = e /\ outcome \notin {"ok", "cancelled"} /\ BodyAnswersFit(d, F, s, Others(s, i))
    PROVE  LET t == FinishBodyMaterialization(s, i, e, outcome) IN Fresh(d, F, t, DOMAIN t.tasks)
<1> DEFINE O == Others(s, i)
           x == End(s, i)
           X == DOMAIN x.tasks
           t == FinishBodyMaterialization(s, i, e, outcome)
           settled == [x EXCEPT !.materializing = FALSE]
           state == IF outcome = "emailAbsent" THEN "ownerAbsent" ELSE "notCached"
           set == SetEmailBody(settled, NoId, state)
           failed == [set EXCEPT !.bodyError = TRUE]
<1> SUFFICES Fresh(d, F, t, DOMAIN t.tasks)
  OBVIOUS
<1>0. /\ Tidy(s) /\ i \in DOMAIN s.tasks /\ KnownStores(d, s) /\ KnownTasks(d, s, O)
  BY DEF Informed
<1>1. \A a : ~Owes(s.tasks[i], a)
  BY DEF Owes, ToSet
<1>2. Follows(d, s, O, x, X, {"tasks", "attempts"}, ReadAts)
  BY <1>0, <1>1, EndCarries
<1>3. t = IF s.email # e THEN x ELSE IF outcome \in {"ok", "cancelled"} THEN settled ELSE failed
  BY DEF FinishBodyMaterialization
<1>4. Tidy(x) /\ DOMAIN x = AppFields
  BY <1>2 DEF Follows, Tidy, Shape
<1> HIDE DEF x, t
<1>7. /\ AccountsFresh(d, F, s, O) /\ MailboxesFresh(d, F, s, O) /\ StatusesFresh(d, F, s, O) /\ WindowFresh(d, F, s, O)
  OBVIOUS
<1>5. CASE s.email # e \/ outcome \in {"ok", "cancelled"}
  <2>1. SameExcept(x, t, {"materializing"})
    <3>1. SameExcept(x, settled, {"materializing"}) /\ SameExcept(x, x, {"materializing"})
      BY <1>4 DEF SameExcept, AppFields
    <3>2. t = x \/ t = settled
      BY <1>3, <1>5
    <3> HIDE DEF settled
    <3> QED
      BY <3>1, <3>2
  <2>2. Follows(d, x, X, t, X, {"materializing"}, ReadAts) /\ t.tasks = x.tasks
    BY <1>4, <2>1, SetFollows
  <2>3. Follows(d, s, O, t, X, {"tasks", "attempts"} \cup {"materializing"}, ReadAts \cap ReadAts)
    BY <1>2, <2>2, FollowOn
  <2>4. Follows(d, s, O, t, X, {"tasks", "attempts", "materializing"}, ReadAts)
    <3>1. ReadAts \cap ReadAts = ReadAts /\ {"tasks", "attempts"} \cup {"materializing"} = {"tasks", "attempts", "materializing"}
      OBVIOUS
    <3> QED
      BY <2>3, <3>1
  <2>5. BodyFresh(d, F, s, O)
    BY <1>5
  <2> HIDE DEF O, X
  <2>6. /\ AccountsFresh(d, F, t, X) /\ MailboxesFresh(d, F, t, X) /\ StatusesFresh(d, F, t, X)
        /\ WindowFresh(d, F, t, X) /\ BodyFresh(d, F, t, X) /\ KnownTasks(d, t, X) /\ KnownStores(d, t)
    <3> DEFINE G == {"tasks", "attempts", "materializing"}
    <3>0. Follows(d, s, O, t, X, G, ReadAts)
      BY <2>4
    <3>1. AccountsFresh(d, F, t, X)
      <4>1. G \cap {"accounts", "subscribed"} = {} /\ "accounts" \in ReadAts
        BY DEF ReadAts
      <4> HIDE DEF G
      <4> QED
        BY <1>0, <1>7, <2>5, <3>0, <4>1, FollowedParts
    <3>2. MailboxesFresh(d, F, t, X)
      <4>1. G \cap {"account", "mailboxes"} = {} /\ {"accounts", "mailboxes"} \subseteq ReadAts
        BY DEF ReadAts
      <4> HIDE DEF G
      <4> QED
        BY <1>0, <1>7, <2>5, <3>0, <4>1, FollowedParts
    <3>3. StatusesFresh(d, F, t, X)
      <4>1. G \cap {"account", "statuses"} = {} /\ {"accounts", "statuses"} \subseteq ReadAts
        BY DEF ReadAts
      <4> HIDE DEF G
      <4> QED
        BY <1>0, <1>7, <2>5, <3>0, <4>1, FollowedParts
    <3>4. WindowFresh(d, F, t, X)
      <4>1. G \cap {"account", "mailbox", "loadState", "view", "emails"} = {} /\ {"accounts", "mailboxes", "view", "emails"} \subseteq ReadAts
        BY DEF ReadAts
      <4> HIDE DEF G
      <4> QED
        BY <1>0, <1>7, <2>5, <3>0, <4>1, FollowedParts
    <3>5. BodyFresh(d, F, t, X)
      <4>1. G \cap {"account", "mailbox", "loadState", "email", "bodyState", "bodyError"} = {} /\ {"accounts", "mailboxes", "body"} \subseteq ReadAts
        BY DEF ReadAts
      <4> HIDE DEF G
      <4> QED
        BY <1>0, <1>7, <2>5, <3>0, <4>1, FollowedParts
    <3>6. KnownTasks(d, t, X)
      BY <1>0, <3>0, FollowedParts
    <3>7. KnownStores(d, t)
      <4>1. G \cap {"accounts", "account", "mailboxes", "mailbox", "email", "bodyState"} = {}
        OBVIOUS
      <4> HIDE DEF G
      <4> QED
        BY <1>0, <3>0, <4>1, FollowedParts
    <3> QED
      BY <3>1, <3>2, <3>3, <3>4, <3>5, <3>6, <3>7
  <2> QED
    BY <2>2, <2>6 DEF Fresh, X
<1>6. CASE s.email = e /\ outcome \notin {"ok", "cancelled"}
  <2>0. t = failed
    BY <1>3, <1>6
  <2>1. SameExcept(x, settled, {"materializing"}) /\ DOMAIN settled = AppFields
    BY <1>4 DEF SameExcept, AppFields
  <2>2. SameExcept(settled, set, {"body", "bodyState", "materializing", "bodyError"}) /\ set.bodyState = state /\ DOMAIN set = AppFields
    <3> HIDE DEF settled, state
    <3>1. DOMAIN settled = AppFields
      BY <2>1
    <3>2. SameExcept(settled, set, {"body", "bodyState", "materializing", "bodyError"}) /\ set.bodyState = state
      <4>1. \A body, st : LET u == SetEmailBody(settled, body, st) IN
               SameExcept(settled, u, {"body", "bodyState", "materializing", "bodyError"}) /\ u.bodyState = st
        BY <3>1, SetterEffects
      <4> QED
        BY <4>1
    <3> HIDE DEF set
    <3> QED
      BY <3>1, <3>2 DEF SameExcept
  <2>3. SameExcept(set, failed, {"bodyError"}) /\ failed.bodyState = set.bodyState /\ failed.bodyError = TRUE
    <3> HIDE DEF set
    <3> QED
      BY <2>2 DEF SameExcept, AppFields
  <2>4. state \in {"ownerAbsent", "notCached"}
    OBVIOUS
  <2> HIDE DEF settled, set, failed, state
  <2> DEFINE B == {"body", "bodyState", "materializing", "bodyError"}
  <2>5. SameExcept(x, t, B) /\ t.bodyState \in {"ownerAbsent", "notCached"} /\ t.bodyError = TRUE
    BY <1>4, <2>0, <2>1, <2>2, <2>3, <2>4 DEF SameExcept, AppFields
  <2>6. Follows(d, x, X, t, X, B, ReadAts) /\ t.tasks = x.tasks
    BY <1>4, <2>5, SetFollows
  <2>7. Follows(d, s, O, t, X, {"tasks", "attempts"} \cup B, ReadAts \cap ReadAts)
    BY <1>2, <2>6, FollowOn, Zenon
  <2>8. Follows(d, s, O, t, X, {"tasks", "attempts", "body", "bodyState", "materializing", "bodyError"}, ReadAts)
    <3>1. /\ ReadAts \cap ReadAts = ReadAts
          /\ {"tasks", "attempts"} \cup B = {"tasks", "attempts", "body", "bodyState", "materializing", "bodyError"}
      OBVIOUS
    <3> QED
      BY <2>7, <3>1
  <2> HIDE DEF B
  <2>9. /\ AccountsFresh(d, F, t, X) /\ MailboxesFresh(d, F, t, X) /\ StatusesFresh(d, F, t, X)
        /\ WindowFresh(d, F, t, X) /\ KnownTasks(d, t, X)
    <3> DEFINE G == {"tasks", "attempts", "body", "bodyState", "materializing", "bodyError"}
    <3>0. Follows(d, s, O, t, X, G, ReadAts)
      BY <2>8
    <3> HIDE DEF O, X
    <3>1. AccountsFresh(d, F, t, X)
      <4>1. G \cap {"accounts", "subscribed"} = {} /\ "accounts" \in ReadAts
        BY DEF ReadAts
      <4> HIDE DEF G
      <4> QED
        BY <1>0, <1>7, <3>0, <4>1, FollowedParts
    <3>2. MailboxesFresh(d, F, t, X)
      <4>1. G \cap {"account", "mailboxes"} = {} /\ {"accounts", "mailboxes"} \subseteq ReadAts
        BY DEF ReadAts
      <4> HIDE DEF G
      <4> QED
        BY <1>0, <1>7, <3>0, <4>1, FollowedParts
    <3>3. StatusesFresh(d, F, t, X)
      <4>1. G \cap {"account", "statuses"} = {} /\ {"accounts", "statuses"} \subseteq ReadAts
        BY DEF ReadAts
      <4> HIDE DEF G
      <4> QED
        BY <1>0, <1>7, <3>0, <4>1, FollowedParts
    <3>4. WindowFresh(d, F, t, X)
      <4>1. G \cap {"account", "mailbox", "loadState", "view", "emails"} = {} /\ {"accounts", "mailboxes", "view", "emails"} \subseteq ReadAts
        BY DEF ReadAts
      <4> HIDE DEF G
      <4> QED
        BY <1>0, <1>7, <3>0, <4>1, FollowedParts
    <3>5. KnownTasks(d, t, X)
      BY <1>0, <3>0, FollowedParts
    <3> QED
      BY <3>1, <3>2, <3>3, <3>4, <3>5
  <2>10. /\ t.account = s.account /\ t.mailbox = s.mailbox /\ t.email = s.email /\ t.loadState = s.loadState
         /\ t.accounts = s.accounts /\ t.mailboxes = s.mailboxes
    BY <1>0, <2>8 DEF Follows, SameExcept, Tidy, Shape, AppFields
  <2>11. KnownStores(d, t)
    BY <1>0, <1>6, <2>5, <2>10 DEF KnownStores
  <2>12. BodyAnswersFit(d, F, s, O)
    BY DEF BodyFresh, BodyAnswersFit
  <2>13. /\ SameRead(s, O, t, X, "accounts", NoId) /\ SameRead(s, O, t, X, "mailboxes", OfAccount(s.account))
         /\ SameRead(s, O, t, X, "body", s.email)
    BY <2>8 DEF Follows, Carry, ReadAts
  <2>14. Widening(s, O) => Widening(t, X)
    BY <2>10, <2>13, WideningKept
  <2>15. BodyFresh(d, F, t, X)
    BY <2>5, <2>10, <2>12, <2>13, <2>14 DEF BodyFresh, BodyAnswersFit, SameRead
  <2> QED
    BY <2>6, <2>9, <2>11, <2>15 DEF Fresh
<1> QED
  BY <1>5, <1>6

\* The handler of what a materialization answers.
LEMMA MaterializedIsFresh ==
    ASSUME NEW d, NEW F, NEW s, NEW i, NEW r, Resuming(d, F, s, i, r, "materialize"), ~s.disposed
    PROVE  LET t == Materialized(s, i, r) IN Fresh(d, F, t, DOMAIN t.tasks)
<1> DEFINE k == s.tasks[i]
           O == Others(s, i)
           D == DOMAIN s.tasks
           e == k.key
           f == Frame("reread", e)
           p == Push(s, i, f)
           t == Materialized(s, i, r)
<1> SUFFICES Fresh(d, F, t, DOMAIN t.tasks)
  OBVIOUS
<1>0. /\ Holding(d, F, s, i, "materialize") /\ Resumes(d, k, r)
  BY DEF Resuming
<1>1. /\ Tidy(s) /\ i \in D /\ DOMAIN s = AppFields /\ k.at = "materialize" /\ GoodTask(k)
      /\ KnownStores(d, s) /\ KnownTasks(d, s, O) /\ KnownTask(d, k) /\ Fresh(d, F, s, D)
      /\ AccountsFresh(d, F, s, O) /\ MailboxesFresh(d, F, s, O) /\ StatusesFresh(d, F, s, O) /\ WindowFresh(d, F, s, O)
      /\ Widening(s, D) => Widening(s, O)
  BY <1>0, HoldingParts
<1>2. Informed(d, s, i)
  BY <1>1 DEF Informed
<1>3. e # NoId
  BY <1>1 DEF KnownTask, Knowable
<1>4. k.then = <<>>
  BY <1>1 DEF GoodTask, Carries
<1>5. CASE r.kind = "ok" /\ s.email = e
  <2>1. t = RefreshSelectedBody(p, i)
    BY <1>5 DEF Materialized
  <2>2. KnownFrame(d, f)
    BY <1>3 DEF KnownFrame, Frame
  <2> HIDE DEF f
  <2>3. /\ Informed(d, p, i) /\ Others(p, i) = O
        /\ AccountsFresh(d, F, p, O) /\ MailboxesFresh(d, F, p, O) /\ StatusesFresh(d, F, p, O) /\ WindowFresh(d, F, p, O)
    BY <1>1, <1>2, <2>2, PushIsFresh
  <2> HIDE DEF p, t
  <2> QED
    BY <2>1, <2>3, RefreshBodyIsFresh
<1>6. CASE ~(r.kind = "ok" /\ s.email = e)
  <2>1. t = FinishBodyMaterialization(s, i, e, r.kind)
    BY <1>6 DEF Materialized
  <2>2. \/ BodyFresh(d, F, s, O)
        \/ s.email = e /\ r.kind \notin {"ok", "cancelled"} /\ BodyAnswersFit(d, F, s, O)
    <3>1. CASE s.email # e \/ r.kind = "cancelled"
      <4>1. ~Retries(k, s.email)
        BY <1>0, <1>1, <3>1 DEF Retries, Resumes, Sound
      <4>2. ~Reading(k, "accounts", NoId) /\ ~Reading(k, "mailboxes", OfAccount(s.account)) /\ ~Reading(k, "body", s.email)
        BY <1>1 DEF Reading
      <4> QED
        BY <1>1, <4>1, <4>2, DropIsFresh
    <3>2. CASE s.email = e /\ r.kind # "cancelled"
      <4>1. BodyFresh(d, F, s, D)
        BY <1>1 DEF Fresh
      <4>2. AnswersFit(d, Reads(s.tasks, D, "body", s.email)) => AnswersFit(d, Reads(s.tasks, O, "body", s.email))
        BY <1>1, OthersFit
      <4>3. BodyAnswersFit(d, F, s, O)
        BY <1>1, <4>1, <4>2 DEF BodyFresh, BodyAnswersFit
      <4> QED
        BY <1>6, <3>2, <4>3
    <3> QED
      BY <3>1, <3>2
  <2> HIDE DEF t, e
  <2> QED
    BY <1>1, <1>2, <1>3, <1>4, <2>1, <2>2, FinishBodyIsFresh
<1> QED
  BY <1>5, <1>6

\* What no part of the screen depends on may change.
LEMMA UnseenIsFresh ==
    ASSUME NEW d, NEW F, NEW s, Tidy(s), NEW S, NEW t, NEW T, NEW G, Follows(d, s, S, t, T, G, ReadAts),
           G \subseteq {"tasks", "missed", "attempts", "materializing", "local"},
           Fresh(d, F, s, S)
    PROVE  Fresh(d, F, t, T)
<1>1. /\ KnownStores(d, s) /\ KnownTasks(d, s, S) /\ AccountsFresh(d, F, s, S) /\ MailboxesFresh(d, F, s, S)
      /\ StatusesFresh(d, F, s, S) /\ WindowFresh(d, F, s, S) /\ BodyFresh(d, F, s, S)
  BY DEF Fresh
<1>2. AccountsFresh(d, F, t, T)
  <2>1. G \cap {"accounts", "subscribed"} = {} /\ "accounts" \in ReadAts
    BY DEF ReadAts
  <2> QED
    BY <1>1, <2>1, FollowedParts
<1>3. MailboxesFresh(d, F, t, T)
  <2>1. G \cap {"account", "mailboxes"} = {} /\ {"accounts", "mailboxes"} \subseteq ReadAts
    BY DEF ReadAts
  <2> QED
    BY <1>1, <2>1, FollowedParts
<1>4. StatusesFresh(d, F, t, T)
  <2>1. G \cap {"account", "statuses"} = {} /\ {"accounts", "statuses"} \subseteq ReadAts
    BY DEF ReadAts
  <2> QED
    BY <1>1, <2>1, FollowedParts
<1>5. WindowFresh(d, F, t, T)
  <2>1. /\ G \cap {"account", "mailbox", "loadState", "view", "emails"} = {}
        /\ {"accounts", "mailboxes", "view", "emails"} \subseteq ReadAts
    BY DEF ReadAts
  <2> QED
    BY <1>1, <2>1, FollowedParts
<1>6. BodyFresh(d, F, t, T)
  <2>1. /\ G \cap {"account", "mailbox", "loadState", "email", "bodyState", "bodyError"} = {}
        /\ {"accounts", "mailboxes", "body"} \subseteq ReadAts
    BY DEF ReadAts
  <2> QED
    BY <1>1, <2>1, FollowedParts
<1>7. KnownTasks(d, t, T)
  BY <1>1, FollowedParts
<1>8. KnownStores(d, t)
  <2>1. G \cap {"accounts", "account", "mailboxes", "mailbox", "email", "bodyState"} = {}
    OBVIOUS
  <2> QED
    BY <1>1, <2>1, FollowedParts
<1> QED
  BY <1>2, <1>3, <1>4, <1>5, <1>6, <1>7, <1>8 DEF Fresh

\* A materialization that starts excuses the body it will bring.
LEMMA MaterializeIsFresh ==
    ASSUME NEW d, NEW F, NEW s, Tidy(s), NEW S \in SUBSET DOMAIN s.tasks, NEW e, e # NoId, Fresh(d, F, s, S)
    PROVE  LET t == MaterializeBody(s, e) IN
           \/ t = s
           \/ \E n : /\ n \notin DOMAIN s.tasks /\ DOMAIN t.tasks = DOMAIN s.tasks \cup {n}
                     /\ Tidy(t) /\ Fresh(d, F, t, S \cup {n})
                     /\ t.disposed = s.disposed
<1> DEFINE t == MaterializeBody(s, e)
<1>1. t = s \/ \E n : Started(s, t, n, e)
  BY MaterializeStarts, Zenon DEF Tidy
<1> HIDE DEF t
<1>2. ASSUME NEW n, Started(s, t, n, e)
      PROVE  /\ n \notin DOMAIN s.tasks /\ DOMAIN t.tasks = DOMAIN s.tasks \cup {n}
             /\ Tidy(t) /\ Fresh(d, F, t, S \cup {n})
             /\ t.disposed = s.disposed
  <2> DEFINE T == S \cup {n}
             G == {"tasks", "attempts", "materializing", "bodyError", "missed"}
  <2>1. /\ Follows(d, s, S, t, T, G, ReadAts)
        /\ DOMAIN t.tasks = DOMAIN s.tasks \cup {n} /\ n \notin DOMAIN s.tasks
        /\ Retried(t, T, e)
    BY <1>2, MaterializeCarries
  <2>12. t.bodyError = (s.bodyError /\ s.email # e)
    BY <1>2, Zenon DEF Started
  <2>2. /\ t.account = s.account /\ t.mailbox = s.mailbox /\ t.loadState = s.loadState
        /\ t.email = s.email /\ t.bodyState = s.bodyState /\ t.disposed = s.disposed
    BY <2>1 DEF Follows, SameExcept, Tidy, Shape, AppFields
  <2>3. /\ KnownStores(d, s) /\ KnownTasks(d, s, S) /\ AccountsFresh(d, F, s, S) /\ MailboxesFresh(d, F, s, S)
        /\ StatusesFresh(d, F, s, S) /\ WindowFresh(d, F, s, S) /\ BodyFresh(d, F, s, S)
    BY DEF Fresh
  <2> HIDE DEF T
  <2>4. AccountsFresh(d, F, t, T)
    <3>1. G \cap {"accounts", "subscribed"} = {} /\ "accounts" \in ReadAts
      BY DEF ReadAts
    <3> HIDE DEF G
    <3> QED
      BY <2>1, <2>3, <3>1, FollowedParts
  <2>5. MailboxesFresh(d, F, t, T)
    <3>1. G \cap {"account", "mailboxes"} = {} /\ {"accounts", "mailboxes"} \subseteq ReadAts
      BY DEF ReadAts
    <3> HIDE DEF G
    <3> QED
      BY <2>1, <2>3, <3>1, FollowedParts
  <2>6. StatusesFresh(d, F, t, T)
    <3>1. G \cap {"account", "statuses"} = {} /\ {"accounts", "statuses"} \subseteq ReadAts
      BY DEF ReadAts
    <3> HIDE DEF G
    <3> QED
      BY <2>1, <2>3, <3>1, FollowedParts
  <2>7. WindowFresh(d, F, t, T)
    <3>1. /\ G \cap {"account", "mailbox", "loadState", "view", "emails"} = {}
          /\ {"accounts", "mailboxes", "view", "emails"} \subseteq ReadAts
      BY DEF ReadAts
    <3> HIDE DEF G
    <3> QED
      BY <2>1, <2>3, <3>1, FollowedParts
  <2>8. KnownTasks(d, t, T)
    <3> HIDE DEF G
    <3> QED
      BY <2>1, <2>3, FollowedParts
  <2>9. KnownStores(d, t)
    <3>1. G \cap {"accounts", "account", "mailboxes", "mailbox", "email", "bodyState"} = {}
      OBVIOUS
    <3> HIDE DEF G
    <3> QED
      BY <2>1, <2>3, <3>1, FollowedParts
  <2>10. BodyFresh(d, F, t, T)
    <3>1. /\ SameRead(s, S, t, T, "accounts", NoId) /\ SameRead(s, S, t, T, "mailboxes", OfAccount(s.account))
          /\ SameRead(s, S, t, T, "body", s.email) /\ (Retried(s, S, s.email) => Retried(t, T, s.email))
      BY <2>1 DEF Follows, Carry, ReadAts
    <3>2. Widening(s, S) => Widening(t, T)
      BY <2>2, <3>1, WideningKept
    <3>3. CASE s.email # e
      <4>1. ~s.bodyError => ~t.bodyError
        BY <2>12, Zenon
      <4>2. ~t.bodyError => ~s.bodyError
        BY <2>12, <3>3, Zenon
      <4> QED
        BY <2>2, <2>3, <3>1, <3>2, <3>3, <4>1, <4>2 DEF BodyFresh, SameRead
    <3>4. CASE s.email = e
      BY <2>1, <2>2, <2>3, <3>1, <3>2, <3>4 DEF BodyFresh, SameRead
    <3> QED
      BY <3>3, <3>4
  <2>11. Tidy(t)
    BY <2>1 DEF Follows
  <2> QED
    BY <2>1, <2>2, <2>4, <2>5, <2>6, <2>7, <2>8, <2>9, <2>10, <2>11 DEF Fresh, T
<1>3. ASSUME t # s
      PROVE  \E n : /\ n \notin DOMAIN s.tasks /\ DOMAIN t.tasks = DOMAIN s.tasks \cup {n}
                    /\ Tidy(t) /\ Fresh(d, F, t, S \cup {n}) /\ t.disposed = s.disposed
  BY <1>1, <1>2, <1>3, Zenon
<1> QED
  BY <1>3 DEF t

\* What Pop leaves of the freshness of the screen.
LEMMA PopIsFresh ==
    ASSUME NEW d, NEW F, NEW s, NEW i, Holding(d, F, s, i, "return")
    PROVE  LET O == Others(s, i)
               f == Head(s.tasks[i].then)
               p == [s EXCEPT !.tasks[i].then = Tail(@)]
           IN
           /\ Informed(d, p, i) /\ Others(p, i) = O /\ SameExcept(s, p, {"tasks"})
           /\ p.tasks[i].then = Tail(s.tasks[i].then) /\ KnownFrame(d, f)
           /\ AccountsFresh(d, F, p, O) /\ MailboxesFresh(d, F, p, O) /\ WindowFresh(d, F, p, O) /\ BodyFresh(d, F, p, O)
           /\ f.do # "statuses" \/ f.key.accountKey # s.account => StatusesFresh(d, F, p, O)
           /\ f.do # "statuses" => Follows(d, s, O, p, O, {"tasks"}, ReadAts)
<1> DEFINE O == Others(s, i)
           k == s.tasks[i]
           f == Head(k.then)
           p == [s EXCEPT !.tasks[i].then = Tail(@)]
<1>1. /\ Tidy(s) /\ i \in DOMAIN s.tasks /\ DOMAIN s = AppFields /\ k.at = "return" /\ GoodTask(k)
      /\ KnownStores(d, s) /\ KnownTasks(d, s, O)
      /\ AccountsFresh(d, F, s, O) /\ MailboxesFresh(d, F, s, O) /\ StatusesFresh(d, F, s, O)
      /\ WindowFresh(d, F, s, O) /\ BodyFresh(d, F, s, O)
  BY HoldingParts
<1>2. k.then # <<>>
  BY <1>1 DEF GoodTask
<1>3. /\ Tidy(p) /\ SameExcept(s, p, {"tasks"}) /\ DOMAIN p.tasks = DOMAIN s.tasks /\ Others(p, i) = O
      /\ Carry(d, s, O, p, O, ReadAts)
      /\ p.tasks[i].then = Tail(k.then) /\ f \in ToSet(k.then)
      /\ f.do # "statuses" => KeepsOwed(s, p)
      /\ \A a : Owed(s, a) /\ f.key.accountKey # a => Owed(p, a)
  BY <1>1, <1>2, PopCarries
<1> HIDE DEF f, O, p
<1>4. /\ p.accounts = s.accounts /\ p.subscribed = s.subscribed /\ p.account = s.account /\ p.mailboxes = s.mailboxes
      /\ p.mailbox = s.mailbox /\ p.statuses = s.statuses /\ p.loadState = s.loadState /\ p.view = s.view
      /\ p.emails = s.emails /\ p.email = s.email /\ p.bodyState = s.bodyState /\ p.bodyError = s.bodyError
  BY <1>1, <1>3 DEF SameExcept, AppFields
<1>5. /\ "accounts" \in ReadAts /\ "mailboxes" \in ReadAts /\ "statuses" \in ReadAts
      /\ {"mailboxes", "view", "emails"} \subseteq ReadAts /\ {"mailboxes", "body"} \subseteq ReadAts
  BY DEF ReadAts
<1>16. Carry(d, s, O, p, O, ReadAts)
  BY <1>3
<1>6. AccountsFresh(d, F, p, O)
  BY <1>1, <1>4, <1>5, <1>16, Carried
<1>7. MailboxesFresh(d, F, p, O)
  BY <1>1, <1>4, <1>5, <1>16, Carried
<1>8. WindowFresh(d, F, p, O)
  BY <1>1, <1>4, <1>5, <1>16, Carried
<1>9. BodyFresh(d, F, p, O)
  BY <1>1, <1>4, <1>5, <1>16, Carried
<1>10. ASSUME f.do # "statuses" \/ f.key.accountKey # s.account PROVE StatusesFresh(d, F, p, O)
  <2>1. SameRead(s, O, p, O, "accounts", NoId) /\ SameRead(s, O, p, O, "statuses", OfAccount(s.account))
    BY <1>3, <1>5 DEF Carry
  <2>2. Owed(s, s.account) => Owed(p, s.account)
    BY <1>3, <1>10 DEF KeepsOwed
  <2> QED
    BY <1>1, <1>4, <2>1, <2>2, StatusesKept
<1>11. KnownStores(d, p)
  BY <1>1, <1>4 DEF KnownStores
<1>12. KnownTasks(d, p, O)
  BY <1>1, <1>3 DEF Carry
<1>13. KnownFrame(d, f)
  BY <1>1, <1>3 DEF KnownTasks
<1>14. Informed(d, p, i)
  BY <1>1, <1>3, <1>11, <1>12 DEF Informed
<1>15. f.do # "statuses" => Follows(d, s, O, p, O, {"tasks"}, ReadAts)
  BY <1>3 DEF Follows
<1> QED
  BY <1>3, <1>6, <1>7, <1>8, <1>9, <1>10, <1>13, <1>14, <1>15 DEF f, O, p

\* The code after an awaited call.
LEMMA ReturnIsFresh ==
    ASSUME NEW d, NEW F, NEW s, NEW i, Holding(d, F, s, i, "return"), ~s.disposed
    PROVE  LET t == Return(s, i) IN Fresh(d, F, t, DOMAIN t.tasks)
<1> DEFINE t == Return(s, i)
           k == s.tasks[i]
           O == Others(s, i)
           f == Head(k.then)
           key == f.key
           p == [s EXCEPT !.tasks[i].then = Tail(@)]
           outcome == CASE k.res \in {"failed", "notCached"} -> "local"
                        [] k.res = "ownerAbsent" -> "emailAbsent"
                        [] OTHER -> "ok"
           ready == [p EXCEPT !.local = "ready"]
           a == key.accountKey
<1> SUFFICES Fresh(d, F, t, DOMAIN t.tasks)
  OBVIOUS
<1>1. /\ Tidy(s) /\ i \in DOMAIN s.tasks /\ DOMAIN s = AppFields /\ k.at = "return" /\ GoodTask(k)
  BY HoldingParts
<1>2. /\ f.do \in PlainFrames \/ (f.do = "reread" /\ Tail(k.then) = <<>>)
  <2> DEFINE q == k.then
  <2>1. CASE k.owner = "body"
    <3>1. PICK e : Carries(k, e)
      BY <1>1, <2>1 DEF GoodTask
    <3>2. q = <<Frame("reread", e)>>
      BY <1>1, <3>1 DEF Carries
    <3> HIDE DEF q
    <3>3. Head(q) = Frame("reread", e) /\ Tail(q) = <<>>
      BY <3>2
    <3>4. Head(q).do = "reread"
      BY <3>3 DEF Frame
    <3> QED
      BY <3>3, <3>4 DEF q
  <2>2. CASE k.owner # "body"
    <3>1. Frames(q, PlainFrames) /\ q # <<>>
      BY <1>1, <2>2 DEF GoodTask
    <3> HIDE DEF q
    <3>2. Head(q).do \in PlainFrames
      BY <3>1, PopFrame, Zenon
    <3> QED
      BY <3>2 DEF q
  <2> QED
    BY <2>1, <2>2
<1>3. /\ f.do = "statuses" => t = RefreshMutationStatuses(p, i, a)
      /\ f.do = "demand" => t = Finish(DemandSelectedBody(p, key), i, None)
      /\ f.do = "ready" => t = Finish(ready, i, None)
      /\ f.do = "reread" => t = FinishBodyMaterialization(p, i, key, outcome)
  BY DEF Return
<1>4. /\ Informed(d, p, i) /\ Others(p, i) = O /\ SameExcept(s, p, {"tasks"})
      /\ p.tasks[i].then = Tail(k.then) /\ KnownFrame(d, f)
      /\ AccountsFresh(d, F, p, O) /\ MailboxesFresh(d, F, p, O) /\ WindowFresh(d, F, p, O) /\ BodyFresh(d, F, p, O)
      /\ f.do # "statuses" \/ f.key.accountKey # s.account => StatusesFresh(d, F, p, O)
  BY PopIsFresh
<1>5. p.account = s.account /\ p.disposed = s.disposed /\ DOMAIN p = AppFields
  BY <1>1, <1>4 DEF SameExcept, AppFields
<1>6. Tidy(p) /\ i \in DOMAIN p.tasks /\ KnownStores(d, p) /\ KnownTasks(d, p, O)
  BY <1>4 DEF Informed
<1>7. f.do # "statuses" => Fresh(d, F, p, Others(p, i))
  BY <1>4, <1>6, Zenon DEF Fresh
<1> HIDE DEF f, t, outcome, p, O
<1>8. CASE f.do = "statuses"
  <2>1. a \in DOMAIN d.accounts
    BY <1>4, <1>8 DEF KnownFrame
  <2>2. a = p.account \/ StatusesFresh(d, F, p, O)
    BY <1>4, <1>5, <1>8
  <2>3. t = RefreshMutationStatuses(p, i, a)
    BY <1>3, <1>8
  <2> HIDE DEF a, key
  <2> QED
    BY <1>4, <2>1, <2>2, <2>3, RefreshStatusesIsFresh
<1>9. CASE f.do = "demand"
  <2> DEFINE m == MaterializeBody(p, key)
             u == DemandSelectedBody(p, key)
  <2>1. u = p \/ (u = m /\ key # NoId)
    BY <1>6 DEF DemandSelectedBody, KnownStores
  <2>2. t = Finish(u, i, None)
    BY <1>3, <1>9
  <2> HIDE DEF u, m, key
  <2>3. CASE u = p
    BY <1>6, <1>7, <1>9, <2>2, <2>3, FinishIsFresh
  <2>4. CASE u = m /\ key # NoId /\ u # p
    <3>1. O \in SUBSET DOMAIN p.tasks /\ Fresh(d, F, p, O)
      BY <1>4, <1>7, <1>9 DEF Others
    <3>2. PICK n : /\ n \notin DOMAIN p.tasks /\ DOMAIN m.tasks = DOMAIN p.tasks \cup {n}
                   /\ Tidy(m) /\ Fresh(d, F, m, O \cup {n})
      BY <1>6, <2>4, <3>1, MaterializeIsFresh DEF m
    <3>3. O \cup {n} = Others(m, i) /\ i \in DOMAIN m.tasks
      BY <1>4, <1>6, <3>2 DEF Others
    <3>4. Fresh(d, F, m, Others(m, i))
      BY <3>2, <3>3, Zenon
    <3> QED
      BY <2>2, <2>4, <3>2, <3>3, <3>4, FinishIsFresh
  <2> QED
    BY <2>1, <2>3, <2>4
<1>10. CASE f.do = "ready"
  <2>1. SameExcept(p, ready, {"local"}) /\ {"local"} \cap {"tasks", "missed"} = {}
    BY <1>5 DEF SameExcept, AppFields
  <2>2. t = Finish(ready, i, None)
    BY <1>3, <1>10
  <2> HIDE DEF ready
  <2>3. Follows(d, p, O, ready, O, {"local"}, ReadAts)
    BY <1>6, <2>1, SetFollows, Zenon
  <2>4. Fresh(d, F, p, O)
    BY <1>4, <1>7, <1>10
  <2>5. Fresh(d, F, ready, O)
    BY <1>6, <2>3, <2>4, UnseenIsFresh
  <2>6. Fresh(d, F, ready, Others(p, i))
    BY <1>4, <2>5
  <2> QED
    BY <1>6, <2>1, <2>2, <2>6, SetIsFresh
<1>11. CASE f.do = "reread" /\ Tail(k.then) = <<>>
  <2>1. key # NoId
    BY <1>4, <1>11 DEF KnownFrame
  <2>2. p.tasks[i].then = <<>>
    BY <1>4, <1>11
  <2>3. StatusesFresh(d, F, p, O)
    BY <1>4, <1>11
  <2>4. t = FinishBodyMaterialization(p, i, key, outcome)
    BY <1>3, <1>11
  <2>5. ~p.disposed
    BY <1>5
  <2> HIDE DEF key, k
  <2> QED
    BY <1>4, <2>1, <2>2, <2>3, <2>4, <2>5, FinishBodyIsFresh
<1> QED
  BY <1>2, <1>8, <1>9, <1>10, <1>11 DEF PlainFrames

\* Every handler of an answer.
LEMMA ResumeIsFresh ==
    ASSUME NEW d, DOMAIN d.accounts \subseteq ToSet(AccountOrder), NEW F, NEW s, ~s.disposed, Tidy(s),
           Fresh(d, F, s, DOMAIN s.tasks), NEW i \in DOMAIN s.tasks, GoodTask(s.tasks[i]), s.tasks[i].at # "return",
           NEW r, Resumes(d, s.tasks[i], r)
    PROVE  LET t == Resume(s, i, r) IN Fresh(d, F, t, DOMAIN t.tasks)
<1> DEFINE at == s.tasks[i].at
           t == Resume(s, i, r)
<1>1. /\ at = "accounts" => t = AccountsRead(s, i, r)
      /\ at = "mailboxes" => t = MailboxesRead(s, i, r)
      /\ at = "view" => t = ViewRead(s, i, r)
      /\ at = "emails" => t = EmailsRead(s, i, r)
      /\ at = "body" => t = BodyRead(s, i, r)
      /\ at = "statuses" => t = StatusesRead(s, i, r)
      /\ at = "materialize" => t = Materialized(s, i, r)
      /\ at = "subscribe" => t = Subscribed(s, i, r)
  BY DEF Resume
<1>2. at \in {"accounts", "mailboxes", "view", "emails", "body", "statuses", "materialize", "subscribe"}
  BY DEF GoodTask, ReadingAts
<1>3. Resuming(d, F, s, i, r, at) /\ Holding(d, F, s, i, at)
  BY DEF Resuming, Holding
<1> HIDE DEF at, t
<1>4. CASE at = "accounts"
  BY <1>1, <1>3, <1>4, AccountsReadIsFresh DEF t
<1>5. CASE at = "mailboxes"
  BY <1>1, <1>3, <1>5, MailboxesReadIsFresh DEF t
<1>6. CASE at = "view"
  BY <1>1, <1>3, <1>6, ViewReadIsFresh DEF t
<1>7. CASE at = "emails"
  BY <1>1, <1>3, <1>7, EmailsReadIsFresh DEF t
<1>8. CASE at = "body"
  BY <1>1, <1>3, <1>8, BodyReadIsFresh DEF t
<1>9. CASE at = "statuses"
  BY <1>1, <1>3, <1>9, StatusesReadIsFresh DEF t
<1>10. CASE at = "materialize"
  BY <1>1, <1>3, <1>10, MaterializedIsFresh DEF t
<1>11. CASE at = "subscribe"
  BY <1>1, <1>3, <1>11, SubscribedIsFresh DEF t
<1> QED
  BY <1>2, <1>4, <1>5, <1>6, <1>7, <1>8, <1>9, <1>10, <1>11

-----------------------------------------------------------------------------
(* Freshness: the calls that clicks and hints start. *)

\* A call begins, and nothing is less fresh.
LEMMA SpawnIsFresh ==
    ASSUME NEW d, NEW F, NEW s, Tidy(s), KnownStores(d, s), KnownTasks(d, s, DOMAIN s.tasks), NEW owner
    PROVE  LET t == Spawn(s, owner)
               n == NextTask(s)
               D == DOMAIN s.tasks
           IN
           /\ Informed(d, t, n) /\ Others(t, n) = D /\ SameExcept(s, t, {"tasks"}) /\ t.tasks[n].then = <<>>
           /\ AccountsFresh(d, F, s, D) => AccountsFresh(d, F, t, D)
           /\ MailboxesFresh(d, F, s, D) => MailboxesFresh(d, F, t, D)
           /\ StatusesFresh(d, F, s, D) => StatusesFresh(d, F, t, D)
           /\ WindowFresh(d, F, s, D) => WindowFresh(d, F, t, D)
           /\ BodyFresh(d, F, s, D) => BodyFresh(d, F, t, D)
<1> DEFINE t == Spawn(s, owner)
           n == NextTask(s)
           D == DOMAIN s.tasks
<1>1. /\ Follows(d, s, D, t, Others(t, n), {"tasks"}, ReadAts)
      /\ n \in DOMAIN t.tasks /\ Others(t, n) = D
      /\ t.tasks[n].then = <<>>
  BY SpawnCarries
<1> HIDE DEF t, n
<1>2. Follows(d, s, D, t, D, {"tasks"}, ReadAts)
  BY <1>1
<1>3. /\ KnownTasks(d, t, D) /\ KnownStores(d, t)
      /\ AccountsFresh(d, F, s, D) => AccountsFresh(d, F, t, D)
      /\ MailboxesFresh(d, F, s, D) => MailboxesFresh(d, F, t, D)
      /\ StatusesFresh(d, F, s, D) => StatusesFresh(d, F, t, D)
      /\ WindowFresh(d, F, s, D) => WindowFresh(d, F, t, D)
      /\ BodyFresh(d, F, s, D) => BodyFresh(d, F, t, D)
  BY <1>2, FollowedParts DEF ReadAts
<1>4. Informed(d, t, n) /\ SameExcept(s, t, {"tasks"})
  BY <1>1, <1>2, <1>3 DEF Informed, Follows
<1> QED
  BY <1>1, <1>3, <1>4, Zenon DEF t, n

\* The hints that make the controller read again what answers q.
LEMMA DueIsHinted ==
    ASSUME NEW H, \A h \in H : KnownHint(h), NEW q, Due(H, q)
    PROVE  \/ Hinted(H, {"accounts"}, None)
           \/ q.kind = "mailboxes" /\ Hinted(H, {"mailboxes"}, q.key)
           \/ q.kind = "mutations" /\ Hinted(H, {"pendingMutations"}, q.key)
           \/ q.kind = "view" /\ (\/ Hinted(H, {"mailboxes", "emails", "emailMemberships"}, q.key.accountKey)
                                  \/ Hinted(H, {"mailboxView"}, q.key))
           \/ q.kind \notin {"accounts", "mailboxes", "mutations", "view"}
<1>1. PICK h \in H : Covers(h, q)
  BY DEF Due
<1>2. KnownHint(h)
  OBVIOUS
<1>3. CASE h.kind = "accounts"
  BY <1>2, <1>3 DEF KnownHint, Hinted
<1>4. CASE h.kind = "mailboxes"
  BY <1>1, <1>4 DEF Covers, Hinted
<1>5. CASE h.kind \in {"emails", "emailMemberships"}
  BY <1>1, <1>5 DEF Covers, Hinted
<1>6. CASE h.kind = "identities"
  BY <1>1, <1>6 DEF Covers
<1>7. CASE h.kind = "pendingMutations"
  BY <1>1, <1>7 DEF Covers, Hinted
<1>8. CASE h.kind = "emailBody"
  BY <1>1, <1>8 DEF Covers, Query
<1>9. CASE h.kind = "attachmentRefs"
  BY <1>1, <1>9 DEF Covers, Query
<1>10. CASE h.kind = "mailboxView"
  BY <1>1, <1>10 DEF Covers, Hinted, Query
<1>11. CASE h.kind = "syncCursor"
  BY <1>1, <1>11 DEF Covers, Query
<1> QED
  BY <1>2, <1>3, <1>4, <1>5, <1>6, <1>7, <1>8, <1>9, <1>10, <1>11 DEF KnownHint, HintKinds

\* What the hints in H do not call for needs none of them as an excuse.
LEMMA UnhintedIsFresh ==
    ASSUME NEW d, NEW H, \A h \in H : KnownHint(h), NEW G, NEW s, NEW S, Fresh(d, H \cup G, s, S),
           ~Hinted(H, {"accounts"}, None), s.mailbox # NoId => s.mailbox.accountKey = s.account
    PROVE  LET mailboxes == s.account # None /\ Hinted(H, {"mailboxes"}, s.account) IN
           /\ AccountsFresh(d, G, s, S)
           /\ ~mailboxes => MailboxesFresh(d, G, s, S)
           /\ ~(s.account # None /\ Hinted(H, {"pendingMutations"}, s.account)) => StatusesFresh(d, G, s, S)
           /\ ~mailboxes /\ ~MustRefreshWindow(s, H) => WindowFresh(d, G, s, S)
           /\ ~mailboxes /\ ~MustRefreshWindow(s, H) /\ ~(s.email # NoId /\ Hinted(H, {"emailBody"}, s.email))
              => BodyFresh(d, G, s, S)
<1> DEFINE F == H \cup G
           mailboxes == s.account # None /\ Hinted(H, {"mailboxes"}, s.account)
<1>1. /\ KnownStores(d, s) /\ KnownTasks(d, s, S) /\ AccountsFresh(d, F, s, S) /\ MailboxesFresh(d, F, s, S)
      /\ StatusesFresh(d, F, s, S) /\ WindowFresh(d, F, s, S) /\ BodyFresh(d, F, s, S)
  BY DEF Fresh
<1>2. \A q : Due(F, q) => Due(H, q) \/ Due(G, q)
  BY DEF Due
<1>3. \A e : Hint("emailBody", e) \in F => Hinted(H, {"emailBody"}, e) \/ Hint("emailBody", e) \in G
  <2>1. \A e : Hint("emailBody", e).kind = "emailBody" /\ Hint("emailBody", e).key = e
    BY DEF Hint
  <2> QED
    BY <2>1 DEF Hinted
<1>4. \A kind, key : Query(kind, key).kind = kind /\ Query(kind, key).key = key
  BY DEF Query
<1> HIDE DEF F
<1>5. Due(F, Query("accounts", None)) => Due(G, Query("accounts", None))
  BY <1>2, <1>4, DueIsHinted
<1>6. ~mailboxes /\ s.account # None /\ Due(F, Query("mailboxes", s.account)) => Due(G, Query("mailboxes", s.account))
  BY <1>2, <1>4, DueIsHinted
<1>7. /\ ~(s.account # None /\ Hinted(H, {"pendingMutations"}, s.account)) /\ s.account # None
      /\ Due(F, Query("mutations", s.account))
      => Due(G, Query("mutations", s.account))
  <2> DEFINE q == Query("mutations", s.account)
  <2>1. q.kind = "mutations" /\ q.key = s.account
    BY <1>4
  <2> HIDE DEF q
  <2>2. Due(H, q) => Hinted(H, {"pendingMutations"}, s.account)
    BY <2>1, DueIsHinted
  <2>3. Due(F, q) => Due(H, q) \/ Due(G, q)
    BY <1>2, Zenon
  <2>4. Due(F, q) /\ ~Hinted(H, {"pendingMutations"}, s.account) => Due(G, q)
    BY <2>2, <2>3, Zenon
  <2> QED
    BY <2>4, Zenon DEF q
<1>8. /\ ~mailboxes /\ ~MustRefreshWindow(s, H) /\ s.mailbox # NoId /\ Due(F, Query("view", s.mailbox))
      => Due(G, Query("view", s.mailbox))
  <2> SUFFICES ASSUME ~mailboxes, ~MustRefreshWindow(s, H), s.mailbox # NoId, Due(H, Query("view", s.mailbox))
               PROVE  FALSE
    BY <1>2
  <2>1. s.account # None /\ s.mailbox.accountKey = s.account
    BY <1>1 DEF KnownStores
  <2>2. \/ Hinted(H, {"mailboxes", "emails", "emailMemberships"}, s.account)
        \/ Hinted(H, {"mailboxView"}, s.mailbox)
    BY <1>4, <2>1, DueIsHinted
  <2> QED
    BY <2>1, <2>2 DEF MustRefreshWindow, Hinted
<1>9. AccountsFresh(d, G, s, S)
  BY <1>1, <1>5 DEF AccountsFresh
<1>10. ~mailboxes => MailboxesFresh(d, G, s, S)
  <2> HIDE DEF mailboxes
  <2> QED
    BY <1>1, <1>6 DEF MailboxesFresh
<1>11. ~(s.account # None /\ Hinted(H, {"pendingMutations"}, s.account)) => StatusesFresh(d, G, s, S)
  BY <1>1, <1>7 DEF StatusesFresh
<1>12. ~mailboxes /\ ~MustRefreshWindow(s, H) => WindowFresh(d, G, s, S)
  <2> HIDE DEF mailboxes
  <2> QED
    BY <1>1, <1>8 DEF WindowFresh
<1>13. /\ ~mailboxes /\ ~MustRefreshWindow(s, H) /\ ~(s.email # NoId /\ Hinted(H, {"emailBody"}, s.email))
       => BodyFresh(d, G, s, S)
  <2> HIDE DEF mailboxes
  <2> QED
    BY <1>1, <1>3, <1>8 DEF BodyFresh
<1> QED
  BY <1>9, <1>10, <1>11, <1>12, <1>13

\* The hints in H are used up: what they call for is read again.
LEMMA InvalidateIsFresh ==
    ASSUME NEW d, NEW H, \A h \in H : KnownHint(h), NEW G, NEW s, Tidy(s), Fresh(d, H \cup G, s, DOMAIN s.tasks),
           s.mailbox # NoId => s.mailbox.accountKey = s.account
    PROVE  LET t == Invalidate(s, H) IN Fresh(d, G, t, DOMAIN t.tasks)
<1> DEFINE t == Invalidate(s, H)
           D == DOMAIN s.tasks
           i == NextTask(s)
           flush == Spawn(s, "flush")
           a == s.account
           statuses == a # None /\ Hinted(H, {"pendingMutations"}, a)
           f == Frame("statuses", OfAccount(a))
           pushed == Push(flush, i, f)
           before == IF statuses THEN pushed ELSE flush
           all == Hinted(H, {"accounts"}, None)
           mailboxes == a # None /\ Hinted(H, {"mailboxes"}, a)
           window == MustRefreshWindow(s, H)
           body == s.email # NoId /\ Hinted(H, {"emailBody"}, s.email)
<1> SUFFICES Fresh(d, G, t, DOMAIN t.tasks)
  OBVIOUS
<1>1. KnownStores(d, s) /\ KnownTasks(d, s, D) /\ DOMAIN s = AppFields
  BY DEF Fresh, Tidy, Shape
<1>2. /\ ~all => AccountsFresh(d, G, s, D)
      /\ ~all /\ ~mailboxes => MailboxesFresh(d, G, s, D)
      /\ ~all /\ ~statuses => StatusesFresh(d, G, s, D)
      /\ ~all /\ ~mailboxes /\ ~window => WindowFresh(d, G, s, D)
      /\ ~all /\ ~mailboxes /\ ~window /\ ~body => BodyFresh(d, G, s, D)
  BY UnhintedIsFresh
<1>3. /\ Informed(d, flush, i) /\ Others(flush, i) = D /\ SameExcept(s, flush, {"tasks"})
      /\ AccountsFresh(d, G, s, D) => AccountsFresh(d, G, flush, D)
      /\ MailboxesFresh(d, G, s, D) => MailboxesFresh(d, G, flush, D)
      /\ StatusesFresh(d, G, s, D) => StatusesFresh(d, G, flush, D)
      /\ WindowFresh(d, G, s, D) => WindowFresh(d, G, flush, D)
      /\ BodyFresh(d, G, s, D) => BodyFresh(d, G, flush, D)
  BY <1>1, SpawnIsFresh
<1>4. t = IF all THEN RefreshAccounts(before, i)
          ELSE IF mailboxes THEN RefreshMailboxes(before, i)
          ELSE IF window THEN RefreshMailboxWindow(before, i)
          ELSE IF body THEN RefreshSelectedBody(before, i)
          ELSE IF statuses THEN RefreshMutationStatuses(flush, i, a)
          ELSE s
  BY DEF Invalidate
<1>5. statuses => a \in DOMAIN d.accounts
  BY <1>1 DEF KnownStores
<1>6. statuses => KnownFrame(d, f)
  <2>1. f.do = "statuses" /\ f.key.accountKey = a
    BY DEF Frame, OfAccount, ScopedId
  <2> QED
    BY <1>5, <2>1 DEF KnownFrame
<1>7. f.do = "statuses" /\ f.key.accountKey = a
  BY DEF Frame, OfAccount, ScopedId
<1> HIDE DEF t, flush, f, i, statuses, all, mailboxes, window, body
<1>8. flush.account = a /\ DOMAIN flush = AppFields
  BY <1>1, <1>3 DEF SameExcept, AppFields
<1>9. statuses =>
         /\ Informed(d, pushed, i) /\ Others(pushed, i) = D /\ SameExcept(flush, pushed, {"tasks"})
         /\ AccountsFresh(d, G, flush, D) => AccountsFresh(d, G, pushed, D)
         /\ MailboxesFresh(d, G, flush, D) => MailboxesFresh(d, G, pushed, D)
         /\ WindowFresh(d, G, flush, D) => WindowFresh(d, G, pushed, D)
         /\ BodyFresh(d, G, flush, D) => BodyFresh(d, G, pushed, D)
         /\ Owed(pushed, a)
  BY <1>3, <1>6, <1>7, PushIsFresh
<1> HIDE DEF pushed
<1>10. statuses => StatusesFresh(d, G, pushed, D)
  <2> SUFFICES ASSUME statuses PROVE StatusesFresh(d, G, pushed, D)
    OBVIOUS
  <2>1. pushed.account = a
    BY <1>8, <1>9 DEF SameExcept, AppFields
  <2> QED
    BY <1>9, <2>1 DEF StatusesFresh
<1>11. /\ Informed(d, before, i) /\ Others(before, i) = D
       /\ ~all => AccountsFresh(d, G, before, D) /\ StatusesFresh(d, G, before, D)
       /\ ~all /\ ~mailboxes => MailboxesFresh(d, G, before, D)
       /\ ~all /\ ~mailboxes /\ ~window => WindowFresh(d, G, before, D)
  <2>1. CASE statuses
    BY <1>2, <1>3, <1>9, <1>10, <2>1
  <2>2. CASE ~statuses
    BY <1>2, <1>3, <2>2
  <2> QED
    BY <2>1, <2>2
<1> HIDE DEF before
<1>12. CASE all
  BY <1>4, <1>11, <1>12, RefreshAccountsIsFresh
<1>13. CASE ~all /\ mailboxes
  BY <1>4, <1>11, <1>13, RefreshMailboxesIsFresh
<1>14. CASE ~all /\ ~mailboxes /\ window
  BY <1>4, <1>11, <1>14, RefreshWindowIsFresh
<1>15. CASE ~all /\ ~mailboxes /\ ~window /\ body
  BY <1>4, <1>11, <1>15, RefreshBodyIsFresh
<1>16. CASE ~all /\ ~mailboxes /\ ~window /\ ~body /\ statuses
  <2>1. /\ AccountsFresh(d, G, flush, D) /\ MailboxesFresh(d, G, flush, D) /\ WindowFresh(d, G, flush, D)
        /\ BodyFresh(d, G, flush, D)
    BY <1>2, <1>3, <1>16
  <2>2. t = RefreshMutationStatuses(flush, i, a)
    BY <1>4, <1>16
  <2>3. a \in DOMAIN d.accounts
    BY <1>5, <1>16
  <2> HIDE DEF a
  <2> QED
    BY <1>3, <1>8, <2>1, <2>2, <2>3, RefreshStatusesIsFresh
<1>17. CASE ~all /\ ~mailboxes /\ ~window /\ ~body /\ ~statuses
  <2>1. t = s
    BY <1>4, <1>17
  <2> QED
    BY <1>1, <1>2, <1>17, <2>1, Zenon DEF Fresh
<1> QED
  BY <1>12, <1>13, <1>14, <1>15, <1>16, <1>17

\* An account is selected.
LEMMA AccountSelectedIsFresh ==
    ASSUME NEW d, NEW F, NEW s, Tidy(s), Fresh(d, F, s, DOMAIN s.tasks), NEW a \in s.accounts,
           NEW u, u = IF s.account = a THEN s ELSE StoreSelectAccount(s, a)
    PROVE  LET t == ShowAccount(Spawn(u, "user"), NextTask(s), a) IN Fresh(d, F, t, DOMAIN t.tasks)
<1> DEFINE D == DOMAIN s.tasks
           i == NextTask(s)
           v == Spawn(u, "user")
           B == {"email", "body", "bodyState", "materializing", "bodyError",
                 "mailbox", "view", "emails", "loadState", "account", "mailboxes"}
<1>1. KnownStores(d, s) /\ KnownTasks(d, s, D) /\ AccountsFresh(d, F, s, D) /\ DOMAIN s = AppFields
  BY DEF Fresh, Tidy, Shape
<1>2. a \in DOMAIN d.accounts
  BY <1>1 DEF KnownStores
<1>3. /\ Tidy(u) /\ KnownStores(d, u) /\ KnownTasks(d, u, D) /\ AccountsFresh(d, F, u, D)
      /\ u.tasks = s.tasks /\ u.account = a
  <2>1. CASE s.account = a
    BY <1>1, <2>1
  <2>2. CASE s.account # a
    <3>0. u = StoreSelectAccount(s, a)
      BY <2>2
    <3>1. /\ SameExcept(s, u, B) /\ u.mailbox = NoId /\ u.bodyState = "idle" /\ u.account = a /\ u.mailboxes = {}
      BY <1>1, <3>0, SetterEffects
    <3>2. B \cap {"tasks", "missed"} = {} /\ B \cap {"accounts", "subscribed"} = {} /\ "accounts" \in ReadAts
      BY DEF ReadAts
    <3>3. u.accounts = s.accounts
      BY <1>1, <3>1 DEF SameExcept, AppFields
    <3> HIDE DEF B
    <3>4. Follows(d, s, D, u, D, B, ReadAts) /\ u.tasks = s.tasks
      BY <3>1, <3>2, SetFollows
    <3>5. KnownTasks(d, u, D) /\ AccountsFresh(d, F, u, D)
      BY <1>1, <3>2, <3>4, FollowedParts
    <3>6. Tidy(u)
      BY <3>4 DEF Follows
    <3>7. KnownStores(d, u)
      BY <1>1, <1>2, <3>1, <3>3 DEF KnownStores
    <3> QED
      BY <3>1, <3>4, <3>5, <3>6, <3>7
  <2> QED
    BY <2>1, <2>2
<1>4. NextTask(u) = i
  BY <1>3, SameNextTask
<1>5. /\ Informed(d, v, i) /\ Others(v, i) = D /\ SameExcept(u, v, {"tasks"}) /\ AccountsFresh(d, F, v, D)
  <2> HIDE DEF i, v
  <2>1. KnownTasks(d, u, DOMAIN u.tasks) /\ AccountsFresh(d, F, u, DOMAIN u.tasks)
    BY <1>3
  <2> QED
    BY <1>3, <1>4, <2>1, SpawnIsFresh DEF v
<1> HIDE DEF v, i
<1>6. v.account = a
  BY <1>1, <1>3, <1>5 DEF SameExcept, AppFields, Tidy, Shape
<1>7. AccountsFresh(d, F, v, Others(v, i))
  BY <1>5
<1> HIDE DEF D
<1> QED
  BY <1>2, <1>5, <1>6, <1>7, ShowAccountIsFresh DEF v, i

\* A Mailbox is selected.
LEMMA MailboxSelectedIsFresh ==
    ASSUME NEW d, NEW F, NEW s, Tidy(s), Fresh(d, F, s, DOMAIN s.tasks), NEW m \in s.mailboxes,
           NEW u, u = IF s.mailbox = m THEN s ELSE StoreSelectMailbox(s, m)
    PROVE  LET t == RefreshMailboxWindow(Spawn(u, "user"), NextTask(s)) IN Fresh(d, F, t, DOMAIN t.tasks)
<1> DEFINE D == DOMAIN s.tasks
           i == NextTask(s)
           v == Spawn(u, "user")
           B == {"email", "body", "bodyState", "materializing", "bodyError", "mailbox", "view", "emails", "loadState"}
<1>1. /\ KnownStores(d, s) /\ KnownTasks(d, s, D) /\ DOMAIN s = AppFields
      /\ AccountsFresh(d, F, s, D) /\ MailboxesFresh(d, F, s, D) /\ StatusesFresh(d, F, s, D)
  BY DEF Fresh, Tidy, Shape
<1>2. s.account # None
  BY <1>1 DEF KnownStores
<1>3. /\ Tidy(u) /\ KnownStores(d, u) /\ KnownTasks(d, u, D) /\ u.tasks = s.tasks
      /\ AccountsFresh(d, F, u, D) /\ MailboxesFresh(d, F, u, D) /\ StatusesFresh(d, F, u, D)
  <2>1. CASE s.mailbox = m
    BY <1>1, <2>1
  <2>2. CASE s.mailbox # m
    <3>0. u = StoreSelectMailbox(s, m)
      BY <2>2
    <3>1. SameExcept(s, u, B) /\ u.mailbox = m /\ u.bodyState = "idle"
      BY <1>1, <3>0, SetterEffects
    <3>2. /\ B \cap {"tasks", "missed"} = {} /\ B \cap {"accounts", "subscribed"} = {} /\ "accounts" \in ReadAts
          /\ B \cap {"account", "mailboxes"} = {} /\ B \cap {"account", "statuses"} = {}
          /\ {"accounts", "mailboxes"} \subseteq ReadAts /\ {"accounts", "statuses"} \subseteq ReadAts
      BY DEF ReadAts
    <3>3. u.accounts = s.accounts /\ u.account = s.account
      BY <1>1, <3>1 DEF SameExcept, AppFields
    <3> HIDE DEF B
    <3>4. Follows(d, s, D, u, D, B, ReadAts) /\ u.tasks = s.tasks
      BY <3>1, <3>2, SetFollows
    <3>5. KnownTasks(d, u, D) /\ AccountsFresh(d, F, u, D)
      BY <1>1, <3>2, <3>4, FollowedParts
    <3>6. MailboxesFresh(d, F, u, D)
      BY <1>1, <3>2, <3>4, FollowedParts
    <3>7. StatusesFresh(d, F, u, D)
      BY <1>1, <3>2, <3>4, FollowedParts
    <3>8. Tidy(u)
      BY <3>4 DEF Follows
    <3>9. KnownStores(d, u)
      BY <1>1, <1>2, <3>1, <3>3 DEF KnownStores
    <3> QED
      BY <3>4, <3>5, <3>6, <3>7, <3>8, <3>9
  <2> QED
    BY <2>1, <2>2
<1>4. NextTask(u) = i
  BY <1>3, SameNextTask
<1>5. /\ Informed(d, v, i) /\ Others(v, i) = D
      /\ AccountsFresh(d, F, v, D) /\ MailboxesFresh(d, F, v, D) /\ StatusesFresh(d, F, v, D)
  <2> HIDE DEF i, v
  <2>1. /\ KnownTasks(d, u, DOMAIN u.tasks) /\ AccountsFresh(d, F, u, DOMAIN u.tasks)
        /\ MailboxesFresh(d, F, u, DOMAIN u.tasks) /\ StatusesFresh(d, F, u, DOMAIN u.tasks)
    BY <1>3
  <2> QED
    BY <1>3, <1>4, <2>1, SpawnIsFresh DEF v
<1> HIDE DEF v, i, D
<1> QED
  BY <1>5, RefreshWindowIsFresh DEF v, i

\* An Email is selected: its body is read, and fetched if it is not there.
LEMMA EmailSelectedIsFresh ==
    ASSUME NEW d, NEW F, NEW s, Tidy(s), Fresh(d, F, s, DOMAIN s.tasks), NEW e,
           NEW u, u = IF s.email = e THEN s ELSE StoreSelectEmail(s, e)
    PROVE  LET i == NextTask(s)
               t == RefreshSelectedBody(Push(Spawn(u, "user"), i, Frame("demand", e)), i)
           IN  Fresh(d, F, t, DOMAIN t.tasks)
<1> DEFINE D == DOMAIN s.tasks
           i == NextTask(s)
           v == Spawn(u, "user")
           f == Frame("demand", e)
           p == Push(v, i, f)
           B == {"email", "body", "bodyState", "materializing", "bodyError"}
<1>1. /\ KnownStores(d, s) /\ KnownTasks(d, s, D) /\ DOMAIN s = AppFields
      /\ AccountsFresh(d, F, s, D) /\ MailboxesFresh(d, F, s, D) /\ StatusesFresh(d, F, s, D) /\ WindowFresh(d, F, s, D)
  BY DEF Fresh, Tidy, Shape
<1>2. KnownFrame(d, f)
  BY DEF KnownFrame, Frame
<1>3. /\ Tidy(u) /\ KnownStores(d, u) /\ KnownTasks(d, u, D) /\ u.tasks = s.tasks
      /\ AccountsFresh(d, F, u, D) /\ MailboxesFresh(d, F, u, D) /\ StatusesFresh(d, F, u, D) /\ WindowFresh(d, F, u, D)
  <2>1. CASE s.email = e
    BY <1>1, <2>1
  <2>2. CASE s.email # e
    <3>0. u = StoreSelectEmail(s, e)
      BY <2>2
    <3>1. SameExcept(s, u, B) /\ u.bodyState = (IF e = NoId THEN "idle" ELSE "loading")
      BY <1>1, <3>0, SetterEffects
    <3>2. /\ B \cap {"tasks", "missed"} = {} /\ B \cap {"accounts", "subscribed"} = {} /\ "accounts" \in ReadAts
          /\ B \cap {"account", "mailboxes"} = {} /\ B \cap {"account", "statuses"} = {}
          /\ B \cap {"account", "mailbox", "loadState", "view", "emails"} = {}
          /\ {"accounts", "mailboxes"} \subseteq ReadAts /\ {"accounts", "statuses"} \subseteq ReadAts
          /\ {"accounts", "mailboxes", "view", "emails"} \subseteq ReadAts
      BY DEF ReadAts
    <3>3. u.accounts = s.accounts /\ u.account = s.account /\ u.mailboxes = s.mailboxes /\ u.mailbox = s.mailbox
      BY <1>1, <3>1 DEF SameExcept, AppFields
    <3> HIDE DEF B
    <3>4. Follows(d, s, D, u, D, B, ReadAts) /\ u.tasks = s.tasks
      BY <3>1, <3>2, SetFollows
    <3>5. KnownTasks(d, u, D) /\ AccountsFresh(d, F, u, D)
      BY <1>1, <3>2, <3>4, FollowedParts
    <3>6. MailboxesFresh(d, F, u, D)
      BY <1>1, <3>2, <3>4, FollowedParts
    <3>7. StatusesFresh(d, F, u, D)
      BY <1>1, <3>2, <3>4, FollowedParts
    <3>8. WindowFresh(d, F, u, D)
      BY <1>1, <3>2, <3>4, FollowedParts
    <3>9. Tidy(u)
      BY <3>4 DEF Follows
    <3>10. KnownStores(d, u)
      BY <1>1, <3>1, <3>3 DEF KnownStores
    <3> QED
      BY <3>4, <3>5, <3>6, <3>7, <3>8, <3>9, <3>10
  <2> QED
    BY <2>1, <2>2
<1>4. NextTask(u) = i
  BY <1>3, SameNextTask
<1> HIDE DEF f
<1>5. /\ Informed(d, v, i) /\ Others(v, i) = D
      /\ AccountsFresh(d, F, v, D) /\ MailboxesFresh(d, F, v, D) /\ StatusesFresh(d, F, v, D) /\ WindowFresh(d, F, v, D)
  <2> HIDE DEF i, v
  <2>1. /\ KnownTasks(d, u, DOMAIN u.tasks) /\ AccountsFresh(d, F, u, DOMAIN u.tasks)
        /\ MailboxesFresh(d, F, u, DOMAIN u.tasks) /\ StatusesFresh(d, F, u, DOMAIN u.tasks)
        /\ WindowFresh(d, F, u, DOMAIN u.tasks)
    BY <1>3
  <2> QED
    BY <1>3, <1>4, <2>1, SpawnIsFresh DEF v
<1> HIDE DEF v, i
<1>6. /\ Informed(d, p, i) /\ Others(p, i) = D
      /\ AccountsFresh(d, F, p, D) /\ MailboxesFresh(d, F, p, D) /\ StatusesFresh(d, F, p, D) /\ WindowFresh(d, F, p, D)
  BY <1>2, <1>5, PushIsFresh
<1> HIDE DEF p, D
<1> QED
  BY <1>6, RefreshBodyIsFresh DEF p, v, i, f

-----------------------------------------------------------------------------
(* Only Dispose disposes of the controller, and nothing brings it back. *)

Gone(s) == DOMAIN s = AppFields /\ s.disposed

\* No update of a store, of the tasks or of what was missed brings it back.
LEMMA GoneStays ==
    \A s : Gone(s) =>
        /\ \A x : /\ Gone([s EXCEPT !.tasks = x]) /\ Gone([s EXCEPT !.missed = x]) /\ Gone([s EXCEPT !.loadState = x])
                  /\ Gone([s EXCEPT !.statuses = x]) /\ Gone([s EXCEPT !.local = x]) /\ Gone([s EXCEPT !.accounts = x])
                  /\ Gone([s EXCEPT !.mailboxes = x]) /\ Gone([s EXCEPT !.subscribed = x])
                  /\ Gone([s EXCEPT !.materializing = x]) /\ Gone([s EXCEPT !.bodyError = x])
                  /\ Gone([s EXCEPT !.attempts = x])
        /\ \A i, x : Gone([s EXCEPT !.tasks[i] = x])
<1> TAKE s
<1> HAVE Gone(s)
<1>1. \A x : /\ Gone([s EXCEPT !.tasks = x]) /\ Gone([s EXCEPT !.missed = x]) /\ Gone([s EXCEPT !.loadState = x])
             /\ Gone([s EXCEPT !.statuses = x]) /\ Gone([s EXCEPT !.local = x]) /\ Gone([s EXCEPT !.accounts = x])
             /\ Gone([s EXCEPT !.mailboxes = x]) /\ Gone([s EXCEPT !.subscribed = x])
             /\ Gone([s EXCEPT !.materializing = x]) /\ Gone([s EXCEPT !.bodyError = x])
             /\ Gone([s EXCEPT !.attempts = x])
  BY DEF Gone, AppFields
<1>2. ASSUME NEW i, NEW x PROVE Gone([s EXCEPT !.tasks[i] = x])
  BY DEF Gone, AppFields
<1> QED
  BY <1>1, <1>2

\* So does none of the steps the handlers are made of.
LEMMA GoneSteps ==
    \A s : Gone(s) =>
        /\ \A g : Gone(Supersede(s, g))
        /\ \A i, at, key : Gone(Await(s, i, at, key))
        /\ \A i : Gone(End(s, i))
        /\ \A i, value : Gone(Finish(s, i, value))
        /\ \A i, f : Gone(Push(s, i, f))
        /\ \A owner : Gone(Spawn(s, owner))
        /\ \A e : Gone(StoreSelectEmail(s, e))
        /\ \A m : Gone(StoreSelectMailbox(s, m))
        /\ \A a : Gone(StoreSelectAccount(s, a))
        /\ \A body, state : Gone(SetEmailBody(s, body, state))
        /\ \A view, emails, state : Gone(SetWindow(s, view, emails, state))
<1> TAKE s
<1> HAVE Gone(s)
<1>0. DOMAIN s = AppFields /\ s.disposed
  BY DEF Gone
<1>1. ASSUME NEW u, Gone(u), NEW g PROVE Gone(Supersede(u, g))
  BY <1>1, GoneStays, Zenon DEF Supersede
<1>2. ASSUME NEW i, NEW at, NEW key PROVE Gone(Await(s, i, at, key))
  <2> DEFINE u == Supersede(s, Generation(at, key))
  <2>1. Gone(u)
    BY <1>1
  <2> HIDE DEF u
  <2>2. \A x, y : Gone([u EXCEPT !.missed = x, !.tasks[i] = y])
    BY <2>1 DEF Gone, AppFields
  <2> QED
    BY <2>2, Zenon DEF Await, u
<1>3. \A i : Gone(End(s, i))
  <2>1. \A x, y : Gone([s EXCEPT !.tasks = x, !.attempts = y])
    BY <1>0 DEF Gone, AppFields
  <2> QED
    BY <2>1, Zenon DEF End
<1>4. ASSUME NEW i, NEW value PROVE Gone(Finish(s, i, value))
  BY <1>3, GoneStays, Zenon DEF Finish
<1>5. ASSUME NEW i, NEW f PROVE Gone(Push(s, i, f))
  <2>1. \A x : Gone([s EXCEPT !.tasks[i].then = x])
    BY <1>0 DEF Gone, AppFields
  <2> QED
    BY <2>1, Zenon DEF Push
<1>6. \A owner : Gone(Spawn(s, owner))
  BY GoneStays, Zenon DEF Spawn
<1>7. \A t, F : SameExcept(s, t, F) /\ "disposed" \notin F => Gone(t)
  BY <1>0 DEF Gone, SameExcept, AppFields
<1>8. \A e : Gone(StoreSelectEmail(s, e))
  <2>1. "disposed" \notin {"email", "body", "bodyState", "materializing", "bodyError"}
    OBVIOUS
  <2> QED
    BY <1>0, <1>7, <2>1, SetterEffects, Zenon
<1>9. \A m : Gone(StoreSelectMailbox(s, m))
  <2>1. "disposed" \notin {"email", "body", "bodyState", "materializing", "bodyError",
                           "mailbox", "view", "emails", "loadState"}
    OBVIOUS
  <2> QED
    BY <1>0, <1>7, <2>1, SetterEffects, Zenon
<1>10. \A a : Gone(StoreSelectAccount(s, a))
  <2>1. "disposed" \notin {"email", "body", "bodyState", "materializing", "bodyError",
                           "mailbox", "view", "emails", "loadState", "account", "mailboxes"}
    OBVIOUS
  <2> QED
    BY <1>0, <1>7, <2>1, SetterEffects, Zenon
<1>11. \A body, state : Gone(SetEmailBody(s, body, state))
  <2>1. "disposed" \notin {"body", "bodyState", "materializing", "bodyError"}
    OBVIOUS
  <2> QED
    BY <1>0, <1>7, <2>1, SetterEffects, Zenon
<1>12. \A view, emails, state : Gone(SetWindow(s, view, emails, state))
  <2>1. "disposed" \notin {"view", "emails", "loadState"}
    OBVIOUS
  <2> QED
    BY <1>0, <1>7, <2>1, SetterEffects, Zenon
<1> QED
  BY <1>1, <1>2, <1>3, <1>4, <1>5, <1>6, <1>8, <1>9, <1>10, <1>11, <1>12, Zenon

\* Nor does a read that starts.
LEMMA GoneReads ==
    \A s : Gone(s) =>
        /\ \A i : Gone(RefreshSelectedBody(s, i)) /\ Gone(RefreshMailboxWindow(s, i)) /\ Gone(RefreshMailboxes(s, i))
        /\ \A i : Gone(RefreshAccounts(s, i))
        /\ \A i, a : Gone(RefreshMutationStatuses(s, i, a)) /\ Gone(ShowAccount(s, i, a))
        /\ \A e : Gone(MaterializeBody(s, e)) /\ Gone(DemandSelectedBody(s, e))
<1>1. ASSUME NEW s, Gone(s), NEW i PROVE Gone(RefreshSelectedBody(s, i))
  BY <1>1, GoneSteps, Zenon DEF RefreshSelectedBody
<1>2. ASSUME NEW s, Gone(s), NEW i PROVE Gone(RefreshMailboxWindow(s, i))
  BY <1>2, GoneSteps, GoneStays, Zenon DEF RefreshMailboxWindow
<1>3. ASSUME NEW s, Gone(s), NEW i PROVE Gone(RefreshMailboxes(s, i))
  BY <1>3, GoneSteps, Zenon DEF RefreshMailboxes
<1>4. ASSUME NEW s, Gone(s), NEW i PROVE Gone(RefreshAccounts(s, i))
  BY <1>4, GoneSteps, Zenon DEF RefreshAccounts
<1>5. ASSUME NEW s, Gone(s), NEW i, NEW a PROVE Gone(RefreshMutationStatuses(s, i, a)) /\ Gone(ShowAccount(s, i, a))
  BY <1>3, <1>5, GoneSteps, Zenon DEF RefreshMutationStatuses, ShowAccount
<1>6. ASSUME NEW s, Gone(s), NEW e PROVE Gone(MaterializeBody(s, e))
  <2> DEFINE n == NextTask(s)
             u == Await(Spawn(s, "body"), n, "materialize", e)
  <2>1. Gone(u)
    BY <1>6, GoneSteps, Zenon
  <2> HIDE DEF u
  <2>2. \A x, y, z : Gone([u EXCEPT !.attempts = x, !.bodyError = y, !.materializing = z])
    BY <2>1 DEF Gone, AppFields
  <2> QED
    BY <1>6, <2>2, Zenon DEF MaterializeBody, u
<1>7. ASSUME NEW s, Gone(s), NEW e PROVE Gone(DemandSelectedBody(s, e))
  BY <1>6, <1>7, Zenon DEF DemandSelectedBody
<1> QED
  BY <1>1, <1>2, <1>3, <1>4, <1>5, <1>6, <1>7, Zenon

\* Nor does a handler, an exception or the code after an awaited call.
LEMMA GoneResumes ==
    ASSUME NEW s, Gone(s), NEW i, NEW r, s.tasks[i].at \in ReadingAts,
           s.tasks[i].at \in {"accounts", "mailboxes"} => s.tasks[i].owner \in {"initialize", "retry", "flush", "user"},
           s.tasks[i].at = "view" => r.kind \in {"present", "absent", "ownerAbsent", "failed"}
    PROVE  Gone(Resume(s, i, r))
<1> DEFINE at == s.tasks[i].at
<1>1. \A t, x, y : Gone(t) => Gone([t EXCEPT !.local = x, !.loadState = y])
  BY DEF Gone, AppFields
<1>2. \A t, x, y : Gone(t) => Gone([t EXCEPT !.mailboxes = x, !.loadState = y])
  BY DEF Gone, AppFields
<1>3. \A t, x, y : Gone(t) => Gone([t EXCEPT !.statuses = x, !.loadState = y])
  BY DEF Gone, AppFields
<1>4. ASSUME s.tasks[i].owner \in {"initialize", "retry", "flush", "user"}, NEW read PROVE Gone(Throw(s, i, read))
  <2> DEFINE t == s.tasks[i]
             skipped == {<<"statuses", f.key.accountKey>> : f \in {g \in ToSet(t.then) : g.do = "statuses"}}
             caught == [End(s, i) EXCEPT !.missed = @ \cup skipped \cup {<<read, t.key.accountKey>>}]
             o == t.owner
  <2>1. Gone(caught)
    BY GoneSteps, GoneStays, Zenon
  <2>2. Throw(s, i, read) = CASE o = "initialize" -> [caught EXCEPT !.local = "error", !.loadState = "error"]
                              [] o \in {"retry", "flush"} -> [caught EXCEPT !.local = "error"]
                              [] o = "user" -> caught
    BY DEF Throw
  <2>3. Gone([caught EXCEPT !.local = "error", !.loadState = "error"]) /\ Gone([caught EXCEPT !.local = "error"])
    BY <1>1, <2>1, GoneStays, Zenon
  <2>4. \/ Throw(s, i, read) = [caught EXCEPT !.local = "error", !.loadState = "error"]
        \/ Throw(s, i, read) = [caught EXCEPT !.local = "error"]
        \/ Throw(s, i, read) = caught
    <3> HIDE DEF caught
    <3> QED
      BY <1>4, <2>2
  <2> HIDE DEF caught
  <2> QED
    BY <2>1, <2>3, <2>4, Zenon
<1>5. at = "accounts" => Gone(AccountsRead(s, i, r))
  <2> SUFFICES ASSUME at = "accounts" PROVE Gone(AccountsRead(s, i, r))
    OBVIOUS
  <2>1. Gone(Throw(s, i, "accounts"))
    BY <1>4
  <2> QED
    BY <1>3, <2>1, GoneSteps, GoneStays, GoneReads, ZenonT(60) DEF AccountsRead
<1>6. at = "mailboxes" => Gone(MailboxesRead(s, i, r))
  <2> SUFFICES ASSUME at = "mailboxes" PROVE Gone(MailboxesRead(s, i, r))
    OBVIOUS
  <2>1. Gone(Throw(s, i, "mailboxes"))
    BY <1>4
  <2> QED
    BY <1>2, <2>1, GoneSteps, GoneStays, GoneReads, ZenonT(60) DEF MailboxesRead
<1>7. at = "view" => Gone(ViewRead(s, i, r))
  <2> SUFFICES ASSUME at = "view" PROVE Gone(ViewRead(s, i, r))
    OBVIOUS
  <2> DEFINE A == Finish(s, i, None)
             B == Finish([s EXCEPT !.loadState = "error"], i, None)
             C == Finish(SetWindow(s, {}, Empty, "error"), i, None)
             D == Finish(SetWindow(s, {}, Empty, "notCached"), i, None)
             E == [s EXCEPT !.tasks[i] = [@ EXCEPT !.at = "emails", !.phase = "asked", !.res = None, !.view = {r.value}]]
  <2>1. Gone(A) /\ Gone(B) /\ Gone(C) /\ Gone(D)
    BY GoneSteps, GoneStays, Zenon
  <2>2. Gone(E)
    BY DEF Gone, AppFields
  <2>3. ViewRead(s, i, r) = IF ~WindowIsCurrent(s, s.tasks[i]) THEN A
                            ELSE IF r.kind = "failed" THEN B
                            ELSE CASE r.kind = "ownerAbsent" -> C [] r.kind = "absent" -> D [] r.kind = "present" -> E
    BY DEF ViewRead
  <2>4. r.kind \in {"present", "absent", "ownerAbsent", "failed"}
    OBVIOUS
  <2> HIDE DEF A, B, C, D, E
  <2>5. \/ ViewRead(s, i, r) = A \/ ViewRead(s, i, r) = B \/ ViewRead(s, i, r) = C
        \/ ViewRead(s, i, r) = D \/ ViewRead(s, i, r) = E
    BY <2>3, <2>4
  <2> QED
    BY <2>1, <2>2, <2>5, Zenon
<1>8. at = "emails" => Gone(EmailsRead(s, i, r))
  BY GoneSteps, GoneReads, ZenonT(60) DEF EmailsRead
<1>9. at = "body" => Gone(BodyRead(s, i, r))
  BY GoneSteps, ZenonT(60) DEF BodyRead
<1>10. at = "statuses" => Gone(StatusesRead(s, i, r))
  BY GoneSteps, Zenon DEF StatusesRead, Gone
<1>11. at = "materialize" => Gone(Materialized(s, i, r))
  BY GoneSteps, Zenon DEF Materialized, Gone
<1>12. at = "subscribe" => Gone(Subscribed(s, i, r))
  BY <1>1, GoneSteps, GoneStays, GoneReads, ZenonT(60) DEF Subscribed
<1> QED
  BY <1>5, <1>6, <1>7, <1>8, <1>9, <1>10, <1>11, <1>12, Zenon DEF Resume, ReadingAts

\* Nor does a flush of the hints.
LEMMA GoneInvalidate ==
    \A s, H : Gone(s) => Gone(Invalidate(s, H))
<1> TAKE s, H
<1> HAVE Gone(s)
<1> DEFINE i == NextTask(s)
           flush == Spawn(s, "flush")
           statuses == s.account # None /\ Hinted(H, {"pendingMutations"}, s.account)
           before == IF statuses THEN Push(flush, i, Frame("statuses", OfAccount(s.account))) ELSE flush
<1>1. Gone(flush)
  BY GoneSteps, Zenon
<1>2. Gone(before)
  BY <1>1, GoneSteps, Zenon
<1>3. Invalidate(s, H) \in {RefreshAccounts(before, i), RefreshMailboxes(before, i), RefreshMailboxWindow(before, i),
                            RefreshSelectedBody(before, i), RefreshMutationStatuses(flush, i, s.account), s}
  <2> HIDE DEF flush, statuses, before, i
  <2> QED
    BY Zenon DEF Invalidate, flush, statuses, before, i
<1> HIDE DEF flush, before
<1>4. /\ Gone(RefreshAccounts(before, i)) /\ Gone(RefreshMailboxes(before, i)) /\ Gone(RefreshMailboxWindow(before, i))
      /\ Gone(RefreshSelectedBody(before, i)) /\ Gone(RefreshMutationStatuses(flush, i, s.account))
  BY <1>1, <1>2, GoneReads, Zenon
<1> QED
  BY <1>3, <1>4, Zenon

\* Nor does the code after an awaited call.
LEMMA GoneReturn ==
    ASSUME NEW s, Gone(s), NEW i, Head(s.tasks[i].then).do \in {"statuses", "demand", "ready", "reread"}
    PROVE  Gone(Return(s, i))
<1> DEFINE f == Head(s.tasks[i].then)
           pop == [s EXCEPT !.tasks[i].then = Tail(@)]
<1>1. Gone(pop)
  BY DEF Gone, AppFields
<1> DEFINE x == s.tasks[i].res
           v == CASE x \in {"failed", "notCached"} -> "local" [] x = "ownerAbsent" -> "emailAbsent" [] OTHER -> "ok"
           A == RefreshMutationStatuses(pop, i, f.key.accountKey)
           B == Finish(DemandSelectedBody(pop, f.key), i, None)
           C == Finish([pop EXCEPT !.local = "ready"], i, None)
           D == FinishBodyMaterialization(pop, i, f.key, v)
<1>2. Return(s, i) = CASE f.do = "statuses" -> A [] f.do = "demand" -> B [] f.do = "ready" -> C [] f.do = "reread" -> D
  BY DEF Return
<1> HIDE DEF pop, v
<1>3. Gone(A) /\ Gone(B) /\ Gone(C)
  BY <1>1, GoneReads, GoneSteps, GoneStays, Zenon
<1>4. Gone(D)
  <2>1. Gone(End(pop, i)) /\ pop.disposed
    BY <1>1, GoneSteps, Zenon DEF Gone
  <2> QED
    BY <2>1, Zenon DEF FinishBodyMaterialization
<1> HIDE DEF A, B, C, D, f
<1>5. f.do \in {"statuses", "demand", "ready", "reread"}
  BY DEF f
<1>6. Return(s, i) = A \/ Return(s, i) = B \/ Return(s, i) = C \/ Return(s, i) = D
  BY <1>2, <1>5
<1> QED
  BY <1>3, <1>4, <1>6, Zenon

-----------------------------------------------------------------------------
(* The two buttons, and the state in which nothing was read yet. *)

\* As long as nothing was read, there is nothing that could be out of date.
LEMMA UntouchedIsFresh ==
    ASSUME NEW d, NEW F, NEW s, Untouched(s)
    PROVE  /\ Fresh(d, F, s, DOMAIN s.tasks)
           /\ s.accounts = {} /\ s.mailboxes = {} /\ s.emails = Empty /\ s.bodyError = FALSE
           /\ s.subscribed = FALSE /\ s.attempts = {} /\ s.missed = {}
<1>1. /\ s.accounts = {} /\ s.account = None /\ s.mailbox = NoId /\ s.email = NoId /\ s.mailboxes = {}
      /\ s.bodyState = "idle" /\ s.subscribed = FALSE /\ s.attempts = {} /\ s.missed = {} /\ s.bodyError = FALSE
  BY DEF Untouched, SameExcept, MailState
<1>2. s.emails = Empty
  <2>1. s.emails = MailState.emails
    BY DEF Untouched, SameExcept, MailState
  <2> QED
    BY <2>1 DEF MailState
<1>3. KnownStores(d, s)
  BY <1>1 DEF KnownStores
<1>4. KnownTasks(d, s, DOMAIN s.tasks)
  <2>1. ASSUME NEW j \in DOMAIN s.tasks PROVE KnownTask(d, s.tasks[j]) /\ \A f \in ToSet(s.tasks[j].then) : KnownFrame(d, f)
    <3>1. s.tasks[j].at = "subscribe" /\ s.tasks[j].then = <<>>
      BY DEF Untouched
    <3>2. ToSet(s.tasks[j].then) = {}
      BY <3>1 DEF ToSet
    <3> QED
      BY <3>1, <3>2 DEF KnownTask, Knowable, Sound
  <2> QED
    BY <2>1 DEF KnownTasks
<1>5. \A at \in ReadAts : \A key : Reads(s.tasks, DOMAIN s.tasks, at, key) = {}
  BY DEF Reads, Untouched, ReadAts
<1>6. AccountsFresh(d, F, s, DOMAIN s.tasks)
  BY <1>1, <1>5 DEF AccountsFresh, ReadAts, AnswersFit
<1>7. MailboxesFresh(d, F, s, DOMAIN s.tasks) /\ StatusesFresh(d, F, s, DOMAIN s.tasks)
  BY <1>1, Zenon DEF MailboxesFresh, StatusesFresh
<1>8. WindowFresh(d, F, s, DOMAIN s.tasks) /\ BodyFresh(d, F, s, DOMAIN s.tasks)
  BY <1>1, Zenon DEF WindowFresh, BodyFresh
<1> QED
  BY <1>1, <1>2, <1>3, <1>4, <1>6, <1>7, <1>8, Zenon DEF Fresh

\* Trying again to fetch the selected body.
LEMMA RetryBodyIsFresh ==
    ASSUME NEW d, NEW F, NEW s, Tidy(s), Fresh(d, F, s, DOMAIN s.tasks), s.email # NoId
    PROVE  LET t == MaterializeBody(s, s.email) IN Fresh(d, F, t, DOMAIN t.tasks)
<1> DEFINE t == MaterializeBody(s, s.email)
           D == DOMAIN s.tasks
<1> SUFFICES Fresh(d, F, t, DOMAIN t.tasks)
  OBVIOUS
<1>1. D \in SUBSET DOMAIN s.tasks
  OBVIOUS
<1>2. \/ t = s
      \/ \E n : DOMAIN t.tasks = D \cup {n} /\ Fresh(d, F, t, D \cup {n})
  <2> HIDE DEF t
  <2> DEFINE e == s.email
  <2>1. e # NoId
    OBVIOUS
  <2>2. t = MaterializeBody(s, e)
    BY DEF t
  <2> HIDE DEF e
  <2> QED
    BY <1>1, <2>1, <2>2, MaterializeIsFresh
<1> HIDE DEF t
<1> QED
  BY <1>2

\* The button of the error screen.
LEMMA RetryIsFresh ==
    ASSUME NEW d, NEW F, NEW s, Tidy(s), Fresh(d, F, s, DOMAIN s.tasks)
    PROVE  LET i == NextTask(s)
               u == [s EXCEPT !.local = "opening"]
               t == IF s.subscribed
                    THEN RefreshAccounts(Push(Spawn(u, "retry"), i, Frame("ready", NoId)), i)
                    ELSE Await(Spawn(u, "initialize"), i, "subscribe", NoId)
           IN  Fresh(d, F, t, DOMAIN t.tasks)
<1> DEFINE i == NextTask(s)
           u == [s EXCEPT !.local = "opening"]
           D == DOMAIN s.tasks
<1>0. DOMAIN s = AppFields
  BY DEF Tidy, Shape
<1>1. SameExcept(s, u, {"local"})
  BY <1>0 DEF SameExcept, AppFields
<1> HIDE DEF u
<1>2. Follows(d, s, D, u, D, {"local"}, ReadAts) /\ u.tasks = s.tasks
  BY <1>1, SetFollows
<1>3. Fresh(d, F, u, D) /\ Tidy(u)
  BY <1>2, UnseenIsFresh DEF Follows
<1>4. DOMAIN u.tasks = D /\ NextTask(u) = i
  BY <1>2 DEF NextTask
<1>5. /\ KnownStores(d, u) /\ KnownTasks(d, u, DOMAIN u.tasks)
      /\ AccountsFresh(d, F, u, D) /\ MailboxesFresh(d, F, u, D) /\ StatusesFresh(d, F, u, D)
      /\ WindowFresh(d, F, u, D) /\ BodyFresh(d, F, u, D)
  BY <1>3, <1>4 DEF Fresh
<1> HIDE DEF i, D
<1>6. CASE s.subscribed
  <2> DEFINE p == Spawn(u, "retry")
             f == Frame("ready", NoId)
             q == Push(p, i, f)
             t == RefreshAccounts(q, i)
  <2>1. Informed(d, p, i)
    BY <1>3, <1>4, <1>5, SpawnIsFresh
  <2>2. KnownFrame(d, f)
    BY DEF KnownFrame, Frame
  <2> HIDE DEF p, f
  <2>3. Informed(d, q, i)
    BY <2>1, <2>2, PushIsFresh
  <2> HIDE DEF q
  <2>4. Fresh(d, F, t, DOMAIN t.tasks)
    BY <2>3, RefreshAccountsIsFresh
  <2> QED
    BY <1>6, <2>4 DEF p, f, q, i, u
<1>7. CASE ~s.subscribed
  <2> DEFINE p == Spawn(u, "initialize")
             t == Await(p, i, "subscribe", NoId)
  <2>1. Informed(d, p, i) /\ Others(p, i) = D /\ p.tasks[i].then = <<>>
    BY <1>3, <1>4, <1>5, SpawnIsFresh
  <2>2. Fresh(d, F, p, D)
    <3>1. AccountsFresh(d, F, p, D) /\ MailboxesFresh(d, F, p, D) /\ StatusesFresh(d, F, p, D)
          /\ WindowFresh(d, F, p, D) /\ BodyFresh(d, F, p, D)
      BY <1>3, <1>4, <1>5, SpawnIsFresh
    <3> QED
      BY <2>1, <3>1 DEF Fresh, Informed
  <2> HIDE DEF p
  <2>3. Askable(d, p, i, "subscribe", NoId)
    BY <2>1 DEF Askable, ReadingAts, Knowable
  <2>4. Follows(d, p, D, t, DOMAIN t.tasks, {"tasks", "missed"}, Apart(Generation("subscribe", NoId)))
    BY <2>1, <2>3, AwaitCarries DEF Informed
  <2>5. Follows(d, p, D, t, DOMAIN t.tasks, {"tasks", "missed"}, ReadAts)
    BY <2>4, Aparts
  <2> HIDE DEF t
  <2>6. Fresh(d, F, t, DOMAIN t.tasks)
    <3> DEFINE T == DOMAIN t.tasks
               G == {"tasks", "missed"}
    <3>1. Tidy(p) /\ G \subseteq {"tasks", "missed", "attempts", "materializing", "local"}
      BY <2>1 DEF Informed
    <3>2. Follows(d, p, D, t, T, G, ReadAts)
      BY <2>5
    <3> HIDE DEF T, G
    <3>3. Fresh(d, F, t, T)
      BY <2>2, <3>1, <3>2, UnseenIsFresh
    <3> QED
      BY <3>3 DEF T
  <2> QED
    BY <1>7, <2>6 DEF p, t, i, u
<1> QED
  BY <1>6, <1>7

-----------------------------------------------------------------------------
(* What a read is answered with. *)

\* A read that is answered now is answered with what the store holds.
LEMMA FoundIsAccurate ==
    ASSUME IsStore(db), NEW t, t.at \in ReadingAts \ {"materialize"}, Knowable(db, t.at, t.key)
    PROVE  Accurate(db, t, Found(t)) /\ Sound(db, t, Found(t))
<1>1. CASE t.at = "accounts"
  <2>1. Found(t).kind = "present" /\ Found(t).value = DOMAIN db.accounts
    BY <1>1 DEF Found, Read, Query, Answer
  <2> QED
    BY <1>1, <2>1 DEF Accurate, Sound
<1>2. CASE t.at = "mailboxes"
  <2> DEFINE k == t.key.accountKey
  <2>1. k \in DOMAIN db.accounts
    <3>1. \E a \in DOMAIN db.accounts \ {None} : t.key = OfAccount(a)
      BY <1>2 DEF Knowable
    <3>2. \A a : OfAccount(a).accountKey = a
      BY DEF OfAccount, ScopedId
    <3> QED
      BY <3>1, <3>2
  <2>2. Found(t).kind = "present" /\ Found(t).value = Owned(db.mailboxes, k)
    BY <1>2, <2>1 DEF Found, Read, Query, OwnedBy, Answer
  <2> QED
    BY <1>2, <2>2 DEF Accurate, Sound
<1>3. CASE t.at = "statuses"
  <2> DEFINE k == t.key.accountKey
  <2>1. k \in DOMAIN db.accounts
    <3>1. \E a \in DOMAIN db.accounts : t.key = OfAccount(a)
      BY <1>3 DEF Knowable
    <3>2. \A a : OfAccount(a).accountKey = a
      BY DEF OfAccount, ScopedId
    <3> QED
      BY <3>1, <3>2
  <2>2. Found(t).kind = "present" /\ Found(t).value = ValuesOf(db.mutations, k)
    BY <1>3, <2>1 DEF Found, Read, Query, OwnedBy, Answer
  <2> QED
    BY <1>3, <2>2 DEF Accurate, Sound
<1>4. CASE t.at = "view"
  <2> DEFINE k == t.key
             r == OwnedBy(k \in db.mailboxes, k \in DOMAIN db.views, IF k \in DOMAIN db.views THEN db.views[k] ELSE None)
  <2>1. Found(t) = r
    BY <1>4 DEF Found, Read, Query
  <2>2. /\ r.kind = "absent" => k \notin DOMAIN db.views
        /\ r.kind = "present" => k \in DOMAIN db.views /\ r.value = db.views[k]
    BY DEF OwnedBy, Answer
  <2> HIDE DEF r
  <2>3. k \in DOMAIN db.views => ViewsOf(db, k) = {db.views[k]}
    BY DEF ViewsOf
  <2> QED
    BY <1>4, <2>1, <2>2, <2>3 DEF Accurate, Sound
<1>5. CASE t.at = "emails"
  <2> DEFINE wanted == Listed(t.view)
             f == [e \in wanted \cap DOMAIN db.emails |-> db.emails[e]]
  <2>1. Found(t) = Answer("present", f)
    BY <1>5 DEF Found, Listed
  <2>2. EmailsOf(db, f)
    BY DEF EmailsOf
  <2>3. Found(t).value = f
    BY <2>1 DEF Answer
  <2> HIDE DEF f
  <2> QED
    BY <1>5, <2>2, <2>3 DEF Accurate, Sound
<1>6. CASE t.at = "body"
  <2> DEFINE k == t.key
             r == OwnedBy(k \in DOMAIN db.emails, k \in db.bodies, None)
  <2>1. Found(t) = r
    BY <1>6 DEF Found, Read, Query
  <2>2. (r.kind = "absent" => k \notin db.bodies) /\ (r.kind = "present" => k \in db.bodies)
    BY DEF OwnedBy, Answer
  <2> HIDE DEF r
  <2> QED
    BY <1>6, <2>1, <2>2 DEF Accurate, Sound
<1>7. CASE t.at = "subscribe"
  BY <1>7 DEF Accurate, Sound
<1> QED
  BY <1>1, <1>2, <1>3, <1>4, <1>5, <1>6, <1>7 DEF ReadingAts

\* So is a read that fails: it says nothing of the store.
LEMMA FailureIsAccurate ==
    ASSUME NEW d, NEW t, GoodTask(t), NEW kind \in Failures(t)
    PROVE  LET r == Answer(kind, None) IN Resumes(d, t, r) /\ t.at \in ReadingAts
<1> DEFINE r == Answer(kind, None)
<1>1. r.kind = kind
  BY DEF Answer
<1>2. /\ t.phase \in {"asked", "fetching"} /\ (t.phase = "fetching" => t.at = "materialize")
      /\ t.at \in ReadingAts
      /\ t.at # "materialize" => kind = "failed"
      /\ kind \in {"failed", "local", "emailAbsent", "remote", "cancelled"}
      /\ kind = "cancelled" => t.phase = "fetching"
  BY DEF Failures, GoodTask
<1> HIDE DEF r
<1>3. GoodAnswer(t, r)
  BY <1>1, <1>2 DEF GoodAnswer
<1>4. Accurate(d, t, r)
  BY <1>1, <1>2 DEF Accurate
<1>5. Sound(d, t, r)
  BY <1>1, <1>2 DEF Sound
<1> QED
  BY <1>2, <1>3, <1>4, <1>5 DEF Resumes, r

-----------------------------------------------------------------------------
(* The steps that leave the store as it is. *)

\* Such a step keeps what is fresh, and what was not heard of yet.
LEMMA QuietStep ==
    ASSUME FreshInv, db' = db, wire' = wire, pending' = pending, listening => listening',
           app.disposed => app'.disposed,
           ~app.disposed /\ ~listening => listening' \/ Untouched(app'),
           ~app.disposed /\ Fresh(db, Flying, app, DOMAIN app.tasks) => Fresh(db, Flying, app', DOMAIN app'.tasks)
    PROVE  FreshInv'
<1>1. Flying' = Flying
  BY DEF Flying
<1>2. /\ DOMAIN db'.accounts \subseteq ToSet(AccountOrder)
      /\ \E T : wire' \in Seq(T)
      /\ \A h \in Flying' : KnownHint(h)
  BY <1>1 DEF FreshInv
<1>3. ~app'.disposed => (listening \/ Unheard) /\ Fresh(db, Flying, app, DOMAIN app.tasks)
  BY DEF FreshInv
<1>4. ~app'.disposed => Fresh(db', Flying', app', DOMAIN app'.tasks)
  <2>1. ~app'.disposed => Fresh(db, Flying, app', DOMAIN app'.tasks)
    BY <1>3, Zenon
  <2> QED
    BY <1>1, <2>1, Zenon
<1>5. ~app'.disposed => listening' \/ Unheard'
  BY <1>3, Zenon DEF Unheard
<1> QED
  BY <1>2, <1>4, <1>5, Zenon DEF FreshInv

\* What the invariants say of the controller and of one of its tasks.
LEMMA FreshParts ==
    ASSUME ViewInv, FreshInv
    PROVE  /\ IsStore(db) /\ GoodApp(app) /\ Tidy(app) /\ DOMAIN app = AppFields
           /\ DOMAIN db.accounts \subseteq ToSet(AccountOrder)
           /\ app.disposed => Gone(app)
           /\ ~app.disposed => Fresh(db, Flying, app, DOMAIN app.tasks) /\ (listening \/ Unheard)
           /\ ~listening /\ ~app.disposed => Untouched(app)
           /\ app.mailbox # NoId => app.mailbox.accountKey = app.account
           /\ \A i \in DOMAIN app.tasks :
                 /\ GoodTask(app.tasks[i])
                 /\ ~app.disposed => KnownTask(db, app.tasks[i])
<1>1. IsStore(db) /\ GoodApp(app)
  BY DEF ViewInv
<1>2. Tidy(app) /\ DOMAIN app = AppFields
  BY <1>1, GoodIsTidy DEF GoodApp, Shape
<1>3. app.mailbox # NoId => app.mailbox.accountKey = app.account
  BY <1>1 DEF GoodApp, Shown
<1>4. \A i \in DOMAIN app.tasks : GoodTask(app.tasks[i])
  BY <1>1 DEF GoodApp
<1>5. /\ DOMAIN db.accounts \subseteq ToSet(AccountOrder)
      /\ ~app.disposed => Fresh(db, Flying, app, DOMAIN app.tasks) /\ (listening \/ Unheard)
  BY DEF FreshInv
<1>6. \A i \in DOMAIN app.tasks : ~app.disposed => KnownTask(db, app.tasks[i])
  BY <1>5 DEF Fresh, KnownTasks
<1>7. ~listening /\ ~app.disposed => Untouched(app)
  BY <1>5 DEF Unheard
<1>8. app.disposed => Gone(app)
  BY <1>2 DEF Gone
<1> QED
  BY <1>1, <1>2, <1>3, <1>4, <1>5, <1>6, <1>7, <1>8

\* A call that resumes after the controller was disposed of leaves it disposed.
LEMMA GoneTasks ==
    ASSUME ViewInv, FreshInv, app.disposed, NEW i \in DOMAIN app.tasks
    PROVE  /\ app.tasks[i].at = "return" => Return(app, i).disposed
           /\ \A r : app.tasks[i].at # "return" /\ GoodAnswer(app.tasks[i], r) => Resume(app, i, r).disposed
<1>1. Gone(app) /\ GoodTask(app.tasks[i])
  BY FreshParts
<1>2. ASSUME app.tasks[i].at = "return" PROVE Gone(Return(app, i))
  <2> DEFINE q == app.tasks[i].then
  <2>1. q # <<>> /\ IF app.tasks[i].owner = "body" THEN \E e : Carries(app.tasks[i], e) ELSE Frames(q, PlainFrames)
    BY <1>1, <1>2 DEF GoodTask
  <2>2. CASE app.tasks[i].owner = "body"
    <3>1. PICK e : q = <<Frame("reread", e)>>
      BY <1>2, <2>1, <2>2 DEF Carries
    <3>2. Head(q).do = "reread"
      BY <3>1 DEF Frame
    <3> HIDE DEF q
    <3>3. Head(q).do \in {"statuses", "demand", "ready", "reread"}
      BY <3>2
    <3> QED
      BY <1>1, <3>3, GoneReturn DEF q
  <2>3. CASE app.tasks[i].owner # "body"
    <3>1. Head(q).do \in PlainFrames
      BY <2>1, <2>3, PopFrame
    <3> HIDE DEF q
    <3>2. Head(q).do \in {"statuses", "demand", "ready", "reread"}
      BY <3>1 DEF PlainFrames
    <3> QED
      BY <1>1, <3>2, GoneReturn DEF q
  <2> QED
    BY <2>2, <2>3
<1>3. ASSUME NEW r, app.tasks[i].at # "return", GoodAnswer(app.tasks[i], r) PROVE Gone(Resume(app, i, r))
  <2>1. app.tasks[i].at \in ReadingAts
    BY <1>1, <1>3 DEF GoodTask
  <2>2. app.tasks[i].at \in {"accounts", "mailboxes"} => app.tasks[i].owner \in {"initialize", "retry", "flush", "user"}
    BY <1>1, OwnerThrows
  <2>3. app.tasks[i].at = "view" => r.kind \in {"present", "absent", "ownerAbsent", "failed"}
    BY <1>3 DEF GoodAnswer
  <2> QED
    BY <1>1, <2>1, <2>2, <2>3, GoneResumes
<1> QED
  BY <1>2, <1>3 DEF Gone

\* A task resumes with an answer that was true, or with nothing.
LEMMA ResumedIsFresh ==
    ASSUME ViewInv, FreshInv, ~app.disposed, NEW i \in DOMAIN app.tasks, app.tasks[i].at # "return",
           NEW r, Resumes(db, app.tasks[i], r)
    PROVE  Fresh(db, Flying, Resume(app, i, r), DOMAIN Resume(app, i, r).tasks)
<1>1. /\ Tidy(app) /\ Fresh(db, Flying, app, DOMAIN app.tasks) /\ GoodTask(app.tasks[i])
      /\ DOMAIN db.accounts \subseteq ToSet(AccountOrder)
  BY FreshParts
<1> DEFINE F == Flying
<1>2. Fresh(db, F, app, DOMAIN app.tasks)
  BY <1>1
<1> HIDE DEF F
<1>3. Fresh(db, F, Resume(app, i, r), DOMAIN Resume(app, i, r).tasks)
  BY <1>1, <1>2, ResumeIsFresh
<1> QED
  BY <1>3 DEF F

\* The continuation of a call.
LEMMA ResumeTaskFresh == ASSUME ViewInv, FreshInv, NEW i \in DOMAIN app.tasks, ResumeTask(i) PROVE FreshInv'
<1> DEFINE a == app.tasks[i]
<1>1. /\ db' = db /\ wire' = wire /\ pending' = pending
      /\ listening' = (listening \/ app.tasks[i].at = "subscribe")
  BY DEF ResumeTask
<1>2. ~app.disposed /\ ~listening => listening'
  BY <1>1, FreshParts DEF Untouched
<1>3. GoodTask(a) /\ (~app.disposed => KnownTask(db, a)) /\ IsStore(db) /\ db.mailboxes \subseteq ToSet(MailboxOrder)
  BY FreshParts DEF ViewInv
<1>4. ASSUME NEW r, app' = Resume(app, i, r), a.at # "return", GoodAnswer(a, r), ~app.disposed => Resumes(db, a, r)
      PROVE  FreshInv'
  <2>1. app.disposed => app'.disposed
    BY <1>4, GoneTasks
  <2>2. ~app.disposed => Fresh(db, Flying, app', DOMAIN app'.tasks)
    BY <1>4, ResumedIsFresh
  <2> QED
    BY <1>1, <1>2, <2>1, <2>2, QuietStep
<1>5. CASE i \in Asked /\ app' = Resume(app, i, Found(a))
  <2> DEFINE r == Found(a)
  <2>1. a.at \in ReadingAts \ {"materialize"} /\ a.at # "return"
    BY <1>3, <1>5 DEF Asked, GoodTask
  <2>2. GoodAnswer(a, r)
    BY <1>3, <2>1, FoundIsGood
  <2>3. ~app.disposed => Accurate(db, a, r) /\ Sound(db, a, r)
    BY <1>3, <2>1, FoundIsAccurate DEF KnownTask
  <2> HIDE DEF r
  <2>4. ~app.disposed => Resumes(db, a, r)
    BY <2>2, <2>3 DEF Resumes
  <2>5. app' = Resume(app, i, r)
    BY <1>5 DEF r
  <2> QED
    BY <1>4, <2>1, <2>2, <2>4, <2>5
<1>6. CASE a.phase = "answered" /\ app' = Resume(app, i, a.res)
  <2> DEFINE r == a.res
  <2>1. a.at # "return" /\ GoodAnswer(a, r)
    BY <1>3, <1>6 DEF GoodTask
  <2>2. ~app.disposed => Sound(db, a, r)
    BY <1>3, <1>6 DEF KnownTask
  <2>3. ~app.disposed => Resumes(db, a, r)
    BY <1>6, <2>1, <2>2 DEF Resumes
  <2>4. app' = Resume(app, i, r)
    BY <1>6
  <2> HIDE DEF r
  <2> QED
    BY <1>4, <2>1, <2>3, <2>4
<1>7. CASE a.at = "return" /\ app' = Return(app, i)
  <2>1. app.disposed => app'.disposed
    BY <1>7, GoneTasks
  <2>2. ~app.disposed => Fresh(db, Flying, app', DOMAIN app'.tasks)
    <3> SUFFICES ASSUME ~app.disposed PROVE Fresh(db, Flying, app', DOMAIN app'.tasks)
      OBVIOUS
    <3> DEFINE F == Flying
    <3>1. Tidy(app) /\ Fresh(db, F, app, DOMAIN app.tasks)
      BY FreshParts
    <3> HIDE DEF F
    <3>2. Holding(db, F, app, i, "return")
      BY <1>3, <1>7, <3>1 DEF Holding
    <3>3. Fresh(db, F, Return(app, i), DOMAIN Return(app, i).tasks)
      BY <3>2, ReturnIsFresh
    <3> QED
      BY <1>7, <3>3 DEF F
  <2> QED
    BY <1>1, <1>2, <2>1, <2>2, QuietStep
<1>8. \/ i \in Asked /\ app' = Resume(app, i, Found(a))
      \/ a.phase = "answered" /\ app' = Resume(app, i, a.res)
      \/ a.at = "return" /\ app' = Return(app, i)
  BY DEF ResumeTask
<1> QED
  BY <1>5, <1>6, <1>7, <1>8

\* A read that fails, also the subscription.
LEMMA ResumeFailsFresh == ASSUME ViewInv, FreshInv, NEW i \in DOMAIN app.tasks, ResumeFails(i) PROVE FreshInv'
<1> DEFINE a == app.tasks[i]
<1>1. /\ db' = db /\ wire' = wire /\ pending' = pending /\ listening' = listening
  BY DEF ResumeFails
<1>2. PICK kind \in Failures(a) : app' = Resume(app, i, Answer(kind, None))
  BY DEF ResumeFails
<1> DEFINE r == Answer(kind, None)
<1>3. GoodTask(a)
  BY FreshParts
<1>4. Resumes(db, a, r) /\ a.at \in ReadingAts
  BY <1>3, FailureIsAccurate
<1>5. app' = Resume(app, i, r) /\ r.kind = kind
  BY <1>2 DEF Answer
<1> HIDE DEF r
<1>6. GoodAnswer(a, r) /\ a.at # "return"
  BY <1>4 DEF Resumes, ReadingAts
<1>7. app.disposed => app'.disposed
  BY <1>5, <1>6, GoneTasks
<1>8. ~app.disposed => Fresh(db, Flying, app', DOMAIN app'.tasks)
  BY <1>4, <1>5, <1>6, ResumedIsFresh
<1>9. ~app.disposed /\ ~listening => Untouched(app')
  <2> SUFFICES ASSUME ~app.disposed, ~listening PROVE Untouched(app')
    OBVIOUS
  <2>1. Untouched(app) /\ a.at = "subscribe" /\ DOMAIN app = AppFields
    BY FreshParts DEF Untouched
  <2>2. r.kind # "ok"
    BY <1>2, <1>5 DEF Failures
  <2>3. app' = [End(app, i) EXCEPT !.local = "error", !.loadState = "error"]
    BY <1>5, <2>1, <2>2, Zenon DEF Resume, Subscribed
  <2> QED
    <3>1. app.attempts = {}
      BY <2>1, UntouchedIsFresh
    <3>2. /\ DOMAIN app' = AppFields
          /\ \A f \in AppFields \ {"tasks", "attempts", "local", "loadState"} : app'[f] = app[f]
          /\ app'.tasks = Without(app.tasks, {i}) /\ app'.attempts = {}
      BY <2>1, <2>3, <3>1 DEF End, AppFields
    <3>3. SameExcept(MailState, app', {"tasks", "local", "loadState"})
      <4>1. /\ DOMAIN MailState = AppFields /\ MailState.attempts = {}
            /\ \A f \in AppFields \ {"tasks", "local", "loadState"} : app[f] = MailState[f]
        BY <2>1 DEF Untouched, SameExcept, MailState, AppFields
      <4> QED
        BY <3>2, <4>1 DEF SameExcept
    <3>4. \A j \in DOMAIN app'.tasks : j \in DOMAIN app.tasks /\ app'.tasks[j] = app.tasks[j]
      BY <3>2 DEF Without
    <3> QED
      BY <2>1, <3>3, <3>4 DEF Untouched
<1> QED
  BY <1>1, <1>7, <1>8, <1>9, QuietStep

\* The hints that were delivered are used up at once.
LEMMA FlushFresh == ASSUME ViewInv, FreshInv, FlushInvalidations PROVE FreshInv'
<1>1. /\ db' = db /\ wire' = wire /\ pending' = {} /\ listening' = listening /\ pending # {}
      /\ app' = Invalidate(app, pending)
  BY DEF FlushInvalidations
<1> DEFINE H == pending
           G == UNION {wire[k] : k \in DOMAIN wire}
<1>2. Flying = H \cup G /\ Flying' = G
  BY <1>1 DEF Flying
<1>3. /\ DOMAIN db.accounts \subseteq ToSet(AccountOrder) /\ (\E T : wire \in Seq(T))
      /\ \A h \in H \cup G : KnownHint(h)
  BY <1>2, Zenon DEF FreshInv
<1>4. ~app.disposed => listening
  BY <1>1, FreshParts DEF Unheard
<1>5. app.disposed => app'.disposed
  BY <1>1, FreshParts, GoneInvalidate DEF Gone
<1>6. ASSUME ~app.disposed PROVE Fresh(db, G, app', DOMAIN app'.tasks)
  <2>1. Tidy(app) /\ Fresh(db, H \cup G, app, DOMAIN app.tasks) /\ (app.mailbox # NoId => app.mailbox.accountKey = app.account)
    BY <1>2, <1>6, FreshParts, Zenon
  <2>2. \A h \in H : KnownHint(h)
    BY <1>3
  <2> HIDE DEF H, G
  <2>3. Fresh(db, G, Invalidate(app, H), DOMAIN Invalidate(app, H).tasks)
    BY <2>1, <2>2, InvalidateIsFresh
  <2> QED
    BY <1>1, <2>3 DEF H
<1>7. ~app'.disposed => listening' /\ Fresh(db', Flying', app', DOMAIN app'.tasks)
  BY <1>1, <1>2, <1>4, <1>5, <1>6, Zenon
<1>8. /\ DOMAIN db'.accounts \subseteq ToSet(AccountOrder) /\ (\E T : wire' \in Seq(T))
      /\ \A h \in Flying' : KnownHint(h)
  <2> HIDE DEF G
  <2> QED
    BY <1>1, <1>2, <1>3
<1> QED
  BY <1>7, <1>8, Zenon DEF FreshInv

\* Hints are delivered.
LEMMA DeliverFresh == ASSUME FreshInv, Deliver PROVE FreshInv'
<1>1. /\ wire # <<>> /\ pending' = pending \cup Head(wire) /\ wire' = Tail(wire)
      /\ db' = db /\ listening' = listening /\ app' = app
  BY DEF Deliver
<1>2. PICK T : wire \in Seq(T)
  BY DEF FreshInv
<1>3. wire' \in Seq(T)
  BY <1>1, <1>2
<1>4. Flying' = Flying
  <2>1. 1 \in DOMAIN wire /\ Head(wire) = wire[1] /\ Len(wire) \in Nat /\ DOMAIN wire = 1..Len(wire)
    BY <1>1, <1>2
  <2>2. DOMAIN wire' = 1..(Len(wire) - 1) /\ \A k \in DOMAIN wire' : wire'[k] = wire[k + 1]
    BY <1>1, <1>2
  <2>3. ASSUME NEW h, h \in Flying' PROVE h \in Flying
    <3>1. CASE h \in pending'
      BY <1>1, <2>1, <3>1 DEF Flying
    <3>2. CASE \E k \in DOMAIN wire' : h \in wire'[k]
      <4>1. PICK k \in DOMAIN wire' : h \in wire'[k]
        BY <3>2
      <4>2. k + 1 \in DOMAIN wire /\ h \in wire[k + 1]
        BY <2>1, <2>2, <4>1
      <4> QED
        BY <4>2 DEF Flying
    <3> QED
      BY <2>3, <3>1, <3>2 DEF Flying
  <2>4. ASSUME NEW h, h \in Flying PROVE h \in Flying'
    <3>1. CASE h \in pending
      BY <1>1, <3>1 DEF Flying
    <3>2. CASE \E k \in DOMAIN wire : h \in wire[k]
      <4>1. PICK k \in DOMAIN wire : h \in wire[k]
        BY <3>2
      <4>2. CASE k = 1
        BY <1>1, <2>1, <4>1, <4>2 DEF Flying
      <4>3. CASE k # 1
        <5>1. k - 1 \in DOMAIN wire' /\ h \in wire'[k - 1]
          BY <2>1, <2>2, <4>1, <4>3
        <5> QED
          BY <5>1 DEF Flying
      <4> QED
        BY <4>2, <4>3
    <3> QED
      BY <2>4, <3>1, <3>2 DEF Flying
  <2> QED
    BY <2>3, <2>4
<1>5. ~app.disposed => listening /\ Fresh(db, Flying, app, DOMAIN app.tasks)
  BY <1>1 DEF FreshInv, Unheard
<1>6. ~app'.disposed => listening' /\ Fresh(db', Flying', app', DOMAIN app'.tasks)
  BY <1>1, <1>4, <1>5, Zenon
<1>7. /\ DOMAIN db'.accounts \subseteq ToSet(AccountOrder) /\ \A h \in Flying' : KnownHint(h)
  BY <1>1, <1>4 DEF FreshInv
<1> QED
  BY <1>3, <1>6, <1>7, Zenon DEF FreshInv

\* A click finds a controller that is not disposed of, and keeps it so.
LEMMA ClickFresh ==
    ASSUME ViewInv, FreshInv, NEW s, Click(s), ~listening => Untouched(s), Fresh(db, Flying, s, DOMAIN s.tasks)
    PROVE  FreshInv'
<1>1. /\ ~app.disposed /\ app' = s
      /\ db' = db /\ wire' = wire /\ pending' = pending /\ listening' = listening
  BY DEF Click
<1> QED
  BY <1>1, QuietStep

\* A click on an account.
LEMMA SelectAccountFresh ==
    ASSUME ViewInv, FreshInv, NEW a \in app.accounts, SelectAccount(a) PROVE FreshInv'
<1> DEFINE u == IF app.account = a THEN app ELSE StoreSelectAccount(app, a)
           s == ShowAccount(Spawn(u, "user"), NextTask(app), a)
           F == Flying
<1>1. Click(s) /\ ~app.disposed
  BY DEF SelectAccount, Click
<1>2. listening
  BY <1>1, FreshParts, UntouchedIsFresh
<1>3. Tidy(app) /\ Fresh(db, F, app, DOMAIN app.tasks)
  BY <1>1, FreshParts
<1> HIDE DEF F
<1>4. Fresh(db, F, s, DOMAIN s.tasks)
  <2>1. u = IF app.account = a THEN app ELSE StoreSelectAccount(app, a)
    OBVIOUS
  <2> HIDE DEF u
  <2> QED
    BY <1>3, <2>1, AccountSelectedIsFresh
<1> HIDE DEF s
<1> QED
  BY <1>1, <1>2, <1>4, ClickFresh DEF F

\* A click on a Mailbox.
LEMMA SelectMailboxFresh ==
    ASSUME ViewInv, FreshInv, NEW m \in app.mailboxes, SelectMailbox(m) PROVE FreshInv'
<1> DEFINE u == IF app.mailbox = m THEN app ELSE StoreSelectMailbox(app, m)
           s == RefreshMailboxWindow(Spawn(u, "user"), NextTask(app))
           F == Flying
<1>1. Click(s) /\ ~app.disposed
  BY DEF SelectMailbox, Click
<1>2. listening
  BY <1>1, FreshParts, UntouchedIsFresh
<1>3. Tidy(app) /\ Fresh(db, F, app, DOMAIN app.tasks)
  BY <1>1, FreshParts
<1> HIDE DEF F
<1>4. Fresh(db, F, s, DOMAIN s.tasks)
  <2>1. u = IF app.mailbox = m THEN app ELSE StoreSelectMailbox(app, m)
    OBVIOUS
  <2> HIDE DEF u
  <2> QED
    BY <1>3, <2>1, MailboxSelectedIsFresh
<1> HIDE DEF s
<1> QED
  BY <1>1, <1>2, <1>4, ClickFresh DEF F

\* A click on an Email.
LEMMA SelectEmailFresh ==
    ASSUME ViewInv, FreshInv, NEW e \in DOMAIN app.emails, SelectEmail(e) PROVE FreshInv'
<1> DEFINE u == IF app.email = e THEN app ELSE StoreSelectEmail(app, e)
           i == NextTask(app)
           s == RefreshSelectedBody(Push(Spawn(u, "user"), i, Frame("demand", e)), i)
           F == Flying
<1>1. Click(s) /\ ~app.disposed
  BY DEF SelectEmail, Click
<1>2. listening
  <2>1. DOMAIN Empty = {}
    BY DEF Empty
  <2> QED
    BY <1>1, <2>1, FreshParts, UntouchedIsFresh
<1>3. Tidy(app) /\ Fresh(db, F, app, DOMAIN app.tasks)
  BY <1>1, FreshParts
<1> HIDE DEF F
<1>4. Fresh(db, F, s, DOMAIN s.tasks)
  <2>1. u = IF app.email = e THEN app ELSE StoreSelectEmail(app, e)
    OBVIOUS
  <2> HIDE DEF u
  <2> QED
    BY <1>3, <2>1, EmailSelectedIsFresh
<1> HIDE DEF s
<1> QED
  BY <1>1, <1>2, <1>4, ClickFresh DEF F

\* The button that a body error shows.
LEMMA RetryBodyFresh == ASSUME ViewInv, FreshInv, RetryBody PROVE FreshInv'
<1> DEFINE s == MaterializeBody(app, app.email)
           F == Flying
<1>1. Click(s) /\ ~app.disposed /\ app.email # NoId /\ app.bodyError
  BY DEF RetryBody, Click
<1>2. listening
  BY <1>1, FreshParts, UntouchedIsFresh
<1>3. Tidy(app) /\ Fresh(db, F, app, DOMAIN app.tasks)
  BY <1>1, FreshParts
<1> HIDE DEF F
<1>4. Fresh(db, F, s, DOMAIN s.tasks)
  BY <1>1, <1>3, RetryBodyIsFresh
<1> HIDE DEF s
<1> QED
  BY <1>1, <1>2, <1>4, ClickFresh DEF F

\* A controller that subscribes has done nothing else, if it had not before.
LEMMA SubscribedIsUntouched ==
    ASSUME NEW u, Untouched(u), DOMAIN u = AppFields, \A j \in DOMAIN u.tasks : DOMAIN u.tasks[j] = TaskFields
    PROVE  Untouched(Await(Spawn(u, "initialize"), NextTask(u), "subscribe", NoId))
<1> DEFINE i == NextTask(u)
           p == Spawn(u, "initialize")
           q == Await(p, i, "subscribe", NoId)
<1>1. DOMAIN u = AppFields /\ u.missed = {}
  BY UntouchedIsFresh
<1>2. SameExcept(u, p, {"tasks"}) /\ p.tasks = With(u.tasks, Entry(i,
          [owner |-> "initialize", at |-> "run", key |-> NoId, fresh |-> FALSE, phase |-> "run",
           res |-> None, view |-> {}, then |-> <<>>]))
  BY <1>1 DEF Spawn, SameExcept, AppFields
<1>3. /\ DOMAIN p.tasks = DOMAIN u.tasks \cup {i} /\ p.tasks[i].then = <<>>
      /\ DOMAIN p.tasks[i] = TaskFields
      /\ \A j \in DOMAIN u.tasks \ {i} : p.tasks[j] = u.tasks[j]
  <2> HIDE DEF i, p
  <2> QED
    BY <1>2 DEF With, Entry, TaskFields
<1> DEFINE old == Supersede(p, Generation("subscribe", NoId))
<1>4. SameExcept(p, old, {"tasks"}) /\ DOMAIN old.tasks = DOMAIN p.tasks
      /\ \A j \in DOMAIN p.tasks : old.tasks[j] = p.tasks[j] \/ old.tasks[j] = [p.tasks[j] EXCEPT !.fresh = FALSE]
  <2>1. DOMAIN p = AppFields
    BY <1>1, <1>2 DEF SameExcept
  <2> HIDE DEF p
  <2> QED
    BY <2>1 DEF Supersede, SameExcept, AppFields
<1>5. DOMAIN old = AppFields /\ old.missed = {}
  <2> HIDE DEF old, p
  <2> QED
    BY <1>1, <1>2, <1>4 DEF SameExcept, AppFields
<1>6. /\ SameExcept(old, q, {"tasks", "missed"}) /\ q.missed = {}
      /\ DOMAIN q.tasks = DOMAIN old.tasks
      /\ \A j \in DOMAIN old.tasks \ {i} : q.tasks[j] = old.tasks[j]
      /\ q.tasks[i] = [old.tasks[i] EXCEPT !.at = "subscribe", !.key = NoId, !.fresh = TRUE, !.phase = "asked",
                                           !.res = None, !.view = {}]
  <2>1. i \in DOMAIN old.tasks
    BY <1>3, <1>4
  <2>2. q = [old EXCEPT !.missed = @ \ {<<"subscribe", NoId.accountKey>>},
                        !.tasks[i] = [@ EXCEPT !.at = "subscribe", !.key = NoId, !.fresh = TRUE, !.phase = "asked",
                                               !.res = None, !.view = {}]]
    BY DEF Await
  <2> HIDE DEF old, q, i
  <2> QED
    BY <1>5, <2>1, <2>2 DEF SameExcept, AppFields
<1> HIDE DEF p, old, q
<1>7. SameExcept(MailState, q, {"tasks", "local", "loadState"})
  <2>1. /\ DOMAIN MailState = AppFields /\ MailState.missed = {}
        /\ \A f \in AppFields \ {"tasks", "local", "loadState"} : u[f] = MailState[f]
    BY DEF Untouched, SameExcept, MailState, AppFields
  <2>2. DOMAIN q = AppFields /\ \A f \in AppFields \ {"tasks", "local", "loadState", "missed"} : q[f] = u[f]
    BY <1>1, <1>2, <1>4, <1>6 DEF SameExcept
  <2> QED
    BY <1>6, <2>1, <2>2 DEF SameExcept
<1>8. ASSUME NEW j \in DOMAIN q.tasks PROVE q.tasks[j].at = "subscribe" /\ q.tasks[j].then = <<>>
  <2>1. CASE j = i
    <3>1. old.tasks[i].then = <<>> /\ DOMAIN old.tasks[i] = TaskFields
      BY <1>3, <1>4 DEF TaskFields
    <3> QED
      BY <1>6, <2>1, <3>1 DEF TaskFields
  <2>2. CASE j # i
    <3>1. j \in DOMAIN u.tasks /\ DOMAIN u.tasks[j] = TaskFields /\ u.tasks[j].at = "subscribe" /\ u.tasks[j].then = <<>>
      BY <1>3, <1>4, <1>6, <2>2 DEF Untouched
    <3> DEFINE x == u.tasks[j]
    <3>2. q.tasks[j] = x \/ q.tasks[j] = [x EXCEPT !.fresh = FALSE]
      BY <1>3, <1>4, <1>6, <2>2, <3>1
    <3>3. DOMAIN x = TaskFields /\ x.at = "subscribe" /\ x.then = <<>>
      BY <3>1
    <3> HIDE DEF x
    <3> QED
      BY <3>2, <3>3 DEF TaskFields
  <2> QED
    BY <2>1, <2>2
<1>9. Untouched(q)
  BY <1>7, <1>8 DEF Untouched
<1> QED
  BY <1>9 DEF p, q

\* The button of the error screen.
LEMMA RetryFresh == ASSUME ViewInv, FreshInv, Retry PROVE FreshInv'
<1> DEFINE i == NextTask(app)
           u == [app EXCEPT !.local = "opening"]
           p == Spawn(u, "initialize")
           q == Await(p, i, "subscribe", NoId)
           s == IF app.subscribed
                THEN RefreshAccounts(Push(Spawn(u, "retry"), i, Frame("ready", NoId)), i)
                ELSE q
           F == Flying
<1>1. Click(s) /\ ~app.disposed
  BY DEF Retry, Click
<1>2. Tidy(app) /\ Fresh(db, F, app, DOMAIN app.tasks) /\ DOMAIN app = AppFields
  BY <1>1, FreshParts
<1> HIDE DEF F
<1>3. Fresh(db, F, s, DOMAIN s.tasks)
  BY <1>2, RetryIsFresh
<1>4. ~listening => Untouched(s)
  <2> SUFFICES ASSUME ~listening PROVE Untouched(s)
    OBVIOUS
  <2>1. Untouched(app)
    BY <1>1, FreshParts
  <2>2. ~app.subscribed
    BY <2>1, UntouchedIsFresh
  <2>3. SameExcept(app, u, {"local"}) /\ u.tasks = app.tasks
    BY <1>2 DEF SameExcept, AppFields
  <2>4. NextTask(u) = i
    BY <2>3 DEF NextTask
  <2> HIDE DEF u, i
  <2>5. Untouched(u)
    BY <1>2, <2>1, <2>3 DEF Untouched, SameExcept, MailState, AppFields
  <2>6. DOMAIN u = AppFields /\ \A j \in DOMAIN u.tasks : DOMAIN u.tasks[j] = TaskFields
    BY <1>2, <2>3 DEF SameExcept, Tidy
  <2>7. Untouched(q)
    BY <2>4, <2>5, <2>6, SubscribedIsUntouched
  <2> QED
    BY <2>2, <2>7
<1> HIDE DEF s
<1> QED
  BY <1>1, <1>3, <1>4, ClickFresh DEF F

\* The controller is disposed of: it shows nothing any more.
LEMMA DisposeFresh == ASSUME ViewInv, FreshInv, Dispose PROVE FreshInv'
<1>1. /\ app' = [app EXCEPT !.disposed = TRUE, !.subscribed = FALSE, !.statuses = Empty,
                            !.materializing = FALSE, !.attempts = {}]
      /\ db' = db /\ wire' = wire /\ pending' = pending
  BY DEF Dispose, Click
<1>2. app'.disposed
  BY <1>1, FreshParts DEF AppFields
<1>3. Flying' = Flying
  BY <1>1 DEF Flying
<1> QED
  BY <1>1, <1>2, <1>3, Zenon DEF FreshInv

-----------------------------------------------------------------------------
(* What a commit changes, and the hints that tell of it. *)

OtherTables == {"emails", "memberships", "mailboxes", "identities", "cursors", "mutations", "attachments"}

\* A write touches the accounts, the bodies or the views, or none of them.
WriteTouches(s, o, op, arg) ==
    LET t == o.db IN
    \/ t = s
    \/ \E F : SameExcept(s, t, F) /\ F \subseteq OtherTables
    \/ op = "registerAccount" /\ SameExcept(s, t, {"accounts"}) /\ DOMAIN t.accounts = DOMAIN s.accounts \cup {arg.key}
    \/ SameExcept(s, t, {"bodies"}) /\ t.bodies = s.bodies \cup {arg} /\ o.hints = {Hint("emailBody", arg)}
    \/ /\ SameExcept(s, t, {"views"}) /\ t.views = With(s.views, Entry(arg.mailboxId, arg))
       /\ o.hints = {Hint("mailboxView", arg.mailboxId)}

\* Which tables a write may touch.
LEMMA PerformTouches ==
    ASSUME NEW s, IsStore(s), NEW op, NEW arg, IsWrite(op), IsArgument(op, arg)
    PROVE  WriteTouches(s, Perform(s, op, arg), op, arg)
<1> DEFINE o == Perform(s, op, arg)
           t == o.db
<1> SUFFICES WriteTouches(s, o, op, arg)
  OBVIOUS
<1>a. o = Perform(s, op, arg)
  OBVIOUS
<1> HIDE DEF o
<1>0. \A F : SameExcept(s, t, F) /\ F \subseteq OtherTables => WriteTouches(s, o, op, arg)
  BY Zenon DEF WriteTouches
<1>00. t = s => WriteTouches(s, o, op, arg)
  BY Zenon DEF WriteTouches
<1>1. CASE op = "applyCollectionSync"
  <2>1. o = ApplyCollectionSync(s, arg)
    BY <1>a, <1>1 DEF Perform
  <2>2. arg.mode \in {"replace", "delta"} /\ arg.kind \in {"email", "mailbox", "identity"}
    BY <1>1 DEF IsArgument, IsCommit
  <2>3. \/ o = Conflict(s)
        \/ /\ arg.kind = "email" => SameExcept(s, t, {"emails", "memberships", "cursors"})
           /\ arg.kind = "mailbox" => SameExcept(s, t, {"mailboxes", "cursors"})
           /\ arg.kind = "identity" => SameExcept(s, t, {"identities", "cursors"})
    BY <2>1, <2>2, CommitEffect, Zenon
  <2>4. o = Conflict(s) => t = s
    BY ConflictEffect, Zenon
  <2> HIDE DEF t
  <2>5. \/ t = s
        \/ SameExcept(s, t, {"emails", "memberships", "cursors"})
        \/ SameExcept(s, t, {"mailboxes", "cursors"})
        \/ SameExcept(s, t, {"identities", "cursors"})
    BY <2>2, <2>3, <2>4
  <2>6. /\ {"emails", "memberships", "cursors"} \subseteq OtherTables /\ {"mailboxes", "cursors"} \subseteq OtherTables
        /\ {"identities", "cursors"} \subseteq OtherTables
    BY DEF OtherTables
  <2> QED
    BY <1>0, <1>00, <2>5, <2>6
<1>2. CASE op = "registerAccount"
  <2>1. o = RegisterAccount(s, arg)
    BY <1>a, <1>2 DEF Perform
  <2>2. SameExcept(s, t, {"accounts"})
    BY <2>1, RegisterEffect
  <2>3. t = s \/ t.accounts = With(s.accounts, Entry(arg.key, arg.remoteRef))
    <3>1. "accounts" \in DOMAIN s
      BY StoreTables DEF Tables
    <3> QED
      BY <2>1, <3>1 DEF RegisterAccount, Committed, Conflict
  <2>4. t = s \/ DOMAIN t.accounts = DOMAIN s.accounts \cup {arg.key}
    <3>1. t = s \/ Added(s.accounts, t.accounts, arg.key, arg.remoteRef)
      BY <2>3, WithEntry, Zenon
    <3> QED
      BY <3>1, Zenon DEF Added
  <2> QED
    BY <1>2, <2>2, <2>4, Zenon DEF WriteTouches
<1>3. CASE op = "cacheEmailBody"
  <2>1. o = CacheEmailBody(s, arg)
    BY <1>a, <1>3 DEF Perform
  <2>2. \/ o = Conflict(s)
        \/ SameExcept(s, t, {"bodies"}) /\ t.bodies = s.bodies \cup {arg} /\ o.hints = {Hint("emailBody", arg)}
    <3> DEFINE c == CacheEmailBody(s, arg)
    <3>1. \/ c = Conflict(s)
          \/ SameExcept(s, c.db, {"bodies"}) /\ c.db.bodies = s.bodies \cup {arg} /\ c.hints = {Hint("emailBody", arg)}
      BY CacheEffect, Zenon
    <3> HIDE DEF c
    <3> QED
      BY <2>1, <3>1 DEF c
  <2>3. o = Conflict(s) => t = s
    BY ConflictEffect, Zenon
  <2> QED
    BY <2>2, <2>3, Zenon DEF WriteTouches
<1>4. CASE op = "replaceAttachmentRefs"
  <2>1. o = ReplaceAttachmentRefs(s, arg)
    BY <1>a, <1>4 DEF Perform
  <2>2. o = Conflict(s) \/ SameExcept(s, t, {"attachments"})
    BY <2>1, CacheEffect, Zenon
  <2>3. {"attachments"} \subseteq OtherTables
    BY DEF OtherTables
  <2> QED
    BY <1>0, <1>00, <2>2, <2>3, ConflictEffect, Zenon
<1>5. CASE op = "replaceMailboxView"
  <2>1. o = ReplaceMailboxView(s, arg)
    BY <1>a, <1>5 DEF Perform
  <2>2. \/ t = s
        \/ /\ SameExcept(s, t, {"views"}) /\ t.views = With(s.views, Entry(arg.mailboxId, arg))
           /\ o.hints = {Hint("mailboxView", arg.mailboxId)}
    BY <2>1, ViewEffect, Zenon
  <2> QED
    BY <2>2, Zenon DEF WriteTouches
<1>6. CASE op \in StagingOps
  <2>1. t = s \/ \E F \in {{"mutations"}, {"emails", "mutations"}, {"memberships", "mutations"}} : SameExcept(s, t, F)
    BY <1>a, <1>6, StageEffect DEF Conflict, StagingOps
  <2>2. \A F \in {{"mutations"}, {"emails", "mutations"}, {"memberships", "mutations"}} : F \subseteq OtherTables
    BY DEF OtherTables
  <2> QED
    BY <1>0, <1>00, <2>1, <2>2, Zenon
<1>7. CASE op = "replacePendingMutationIfCurrent"
  <2>0. arg.expected \in PendingMutations /\ arg.next \in PendingMutations
    BY <1>7 DEF IsArgument
  <2>1. o = ReplacePendingMutationIfCurrent(s, arg.expected, arg.next)
    BY <1>a, <1>7 DEF Perform
  <2>2. o = Conflict(s) \/ SameExcept(s, t, {"mutations"})
    <3> DEFINE v == arg.expected
               w == arg.next
    <3>1. v \in PendingMutations /\ w \in PendingMutations /\ o = ReplacePendingMutationIfCurrent(s, v, w)
      BY <2>0, <2>1
    <3> HIDE DEF v, w
    <3> QED
      BY <3>1, ReplaceEffect
  <2>3. {"mutations"} \subseteq OtherTables
    BY DEF OtherTables
  <2> QED
    BY <1>0, <1>00, <2>2, <2>3, ConflictEffect, Zenon
<1>8. CASE op = "removeConfirmedMutation"
  <2>1. o = RemoveConfirmedMutation(s, arg)
    BY <1>a, <1>8 DEF Perform
  <2>2. o = Conflict(s) \/ SameExcept(s, t, {"mutations"})
    BY <2>1, RemoveEffect, Zenon
  <2>3. {"mutations"} \subseteq OtherTables
    BY DEF OtherTables
  <2> QED
    BY <1>0, <1>00, <2>2, <2>3, ConflictEffect, Zenon
<1> QED
  BY <1>1, <1>2, <1>3, <1>4, <1>5, <1>6, <1>7, <1>8 DEF IsWrite

\* A write publishes hints of the known kinds.
LEMMA PerformHints ==
    ASSUME NEW s, NEW op, NEW arg, IsWrite(op), IsArgument(op, arg)
    PROVE  \A h \in Perform(s, op, arg).hints : KnownHint(h)
<1> DEFINE o == Perform(s, op, arg)
<1>1. Conflict(s).hints = {} /\ Thrown(s).hints = {} /\ \A t, H : Committed(t, H).hints = H
  BY DEF Conflict, Thrown, Committed
<1>2. \A k \in HintKinds : \A key : (k = "accounts" => key = None) => KnownHint(Hint(k, key))
  BY DEF KnownHint, Hint
<1> DEFINE Kinds == {"mailboxes", "emails", "emailMemberships", "identities", "pendingMutations",
                     "emailBody", "attachmentRefs", "mailboxView", "syncCursor"}
<1>3. \A k \in Kinds : \A key : KnownHint(Hint(k, key))
  BY <1>2 DEF HintKinds
<1>4. KnownHint(Hint("accounts", None))
  BY <1>2 DEF HintKinds
<1>5. CASE op = "registerAccount"
  <2>1. o.hints = {} \/ o.hints = {Hint("accounts", None)}
    BY <1>1, <1>5, Zenon DEF Perform, RegisterAccount
  <2> QED
    BY <1>4, <2>1, Zenon
<1>6. CASE op = "applyCollectionSync"
  <2>1. o = ApplyCollectionSync(s, arg) /\ arg.kind \in {"email", "mailbox", "identity"}
    BY <1>6 DEF Perform, IsArgument, IsCommit
  <2>2. o.hints = {} \/ o.hints = CommitHints(arg)
    <3> HIDE DEF o
    <3> QED
      BY <1>1, <2>1, Zenon DEF ApplyCollectionSync
  <2>3. CommitHints(arg) \subseteq {Hint(k, arg.account) : k \in Kinds} \cup {Hint("syncCursor", <<arg.account, arg.kind>>)}
    <3> HIDE DEF o
    <3> QED
      BY <2>1 DEF CommitHints
  <2>4. \A h \in CommitHints(arg) : KnownHint(h)
    <3>1. \A key : KnownHint(Hint("syncCursor", key))
      BY <1>3
    <3> HIDE DEF Kinds
    <3> QED
      BY <1>3, <2>3, <3>1, Zenon
  <2> QED
    BY <2>2, <2>4, Zenon
<1>7. CASE op \in {"cacheEmailBody", "replaceAttachmentRefs"}
  <2>1. o = CacheEmailBody(s, arg) \/ o = ReplaceAttachmentRefs(s, arg)
    BY <1>7 DEF Perform
  <2> HIDE DEF o
  <2>2. o.hints = {} \/ o.hints = {Hint("emailBody", arg)} \/ o.hints = {Hint("attachmentRefs", arg)}
    BY <1>1, <2>1 DEF CacheEmailBody, ReplaceAttachmentRefs
  <2>3. KnownHint(Hint("emailBody", arg)) /\ KnownHint(Hint("attachmentRefs", arg))
    BY <1>3
  <2>4. \A h \in o.hints : KnownHint(h)
    BY <2>2, <2>3, Zenon
  <2> QED
    BY <2>4 DEF o
<1>8. CASE op = "replaceMailboxView"
  <2>1. o = ReplaceMailboxView(s, arg)
    BY <1>8 DEF Perform
  <2> HIDE DEF o
  <2>2. o \in {Conflict(s), Thrown(s)} \/ o.hints = {Hint("mailboxView", arg.mailboxId)}
    <3> DEFINE t == [s EXCEPT !.views = With(@, Entry(arg.mailboxId, arg))]
               C == Committed(t, {Hint("mailboxView", arg.mailboxId)})
    <3>1. o = Conflict(s) \/ o = Thrown(s) \/ o = C
      <4>1. ReplaceMailboxView(s, arg) = CASE arg.mailboxId \notin s.mailboxes -> Conflict(s)
              [] arg.mailboxId \in s.mailboxes /\ MailboxView(arg) = {} -> Thrown(s) [] OTHER -> C
        BY DEF ReplaceMailboxView
      <4> HIDE DEF C
      <4> QED
        BY <2>1, <4>1
    <3>2. C.hints = {Hint("mailboxView", arg.mailboxId)}
      BY <1>1, Zenon
    <3> HIDE DEF C
    <3> QED
      BY <3>1, <3>2
  <2>3. KnownHint(Hint("mailboxView", arg.mailboxId))
    BY <1>3
  <2>4. \A h \in o.hints : KnownHint(h)
    <3>1. o.hints = {} \/ o.hints = {Hint("mailboxView", arg.mailboxId)}
      BY <1>1, <2>2
    <3> QED
      BY <2>3, <3>1, Zenon
  <2> QED
    BY <2>4 DEF o
<1> DEFINE A == {Hint("emails", arg.accountKey), Hint("emailMemberships", arg.accountKey), Hint("pendingMutations", arg.accountKey)}
<1>9. CASE op \in StagingOps
  <2>1. o \in {StageSendMutation(s, arg), ApplyOptimisticKeywordMutation(s, arg), ApplyOptimisticMailboxMembershipMutation(s, arg)}
    BY <1>9 DEF Perform, StagingOps
  <2> HIDE DEF o
  <2>2. StageSendMutation(s, arg).hints \subseteq A
    BY <1>1, Zenon DEF StageSendMutation
  <2>3. ApplyOptimisticKeywordMutation(s, arg).hints \subseteq A
    BY <1>1, Zenon DEF ApplyOptimisticKeywordMutation
  <2>4. ApplyOptimisticMailboxMembershipMutation(s, arg).hints \subseteq A
    BY <1>1, Zenon DEF ApplyOptimisticMailboxMembershipMutation
  <2>5. \A h \in A : KnownHint(h)
    BY <1>3
  <2> HIDE DEF A
  <2>6. \A h \in o.hints : KnownHint(h)
    BY <2>1, <2>2, <2>3, <2>4, <2>5, Zenon
  <2> QED
    BY <2>6 DEF o
<1>10. CASE op \in {"replacePendingMutationIfCurrent", "removeConfirmedMutation"}
  <2>1. o = ReplacePendingMutationIfCurrent(s, arg.expected, arg.next) \/ o = RemoveConfirmedMutation(s, arg)
    BY <1>10 DEF Perform
  <2> HIDE DEF o
  <2>2. o.hints = {} \/ o.hints = {Hint("pendingMutations", arg.expected.accountKey)}
                   \/ o.hints = {Hint("pendingMutations", arg[1])}
    BY <1>1, <2>1 DEF ReplacePendingMutationIfCurrent, RemoveConfirmedMutation
  <2>3. KnownHint(Hint("pendingMutations", arg.expected.accountKey)) /\ KnownHint(Hint("pendingMutations", arg[1]))
    BY <1>3
  <2>4. \A h \in o.hints : KnownHint(h)
    BY <2>2, <2>3
  <2> QED
    BY <2>4 DEF o
<1> QED
  BY <1>5, <1>6, <1>7, <1>8, <1>9, <1>10 DEF IsWrite

\* From store d to store e, with the hints H: whatever a read shown on the screen would now find
\* otherwise, H tells of it; no account is forgotten and no body is lost.
Steps(d, e, H) ==
    /\ DOMAIN d.accounts \subseteq DOMAIN e.accounts
    /\ DOMAIN d.accounts # DOMAIN e.accounts => Due(H, Query("accounts", None))
    /\ d.bodies \subseteq e.bodies /\ \A x \in e.bodies \ d.bodies : Hint("emailBody", x) \in H
    /\ \A a \in DOMAIN d.accounts :
          /\ Owned(d.mailboxes, a) # Owned(e.mailboxes, a) => Due(H, Query("mailboxes", a))
          /\ ValuesOf(d.mutations, a) # ValuesOf(e.mutations, a) => Due(H, Query("mutations", a))
    /\ \A m : ViewsOf(d, m) # ViewsOf(e, m) => Due(H, Query("view", m))
    /\ \A k \in DOMAIN d.emails : \A m :
          /\ m.accountKey = k.accountKey /\ ~Due(H, Query("view", m))
          => k \in DOMAIN e.emails /\ e.emails[k] = d.emails[k]

\* A change of an Email makes every list of its account due.
LEMMA EmailsMakeViewsDue ==
    ASSUME NEW h, NEW k, NEW m, m.accountKey = k.accountKey, KnownHint(h), Covers(h, Query("email", k))
    PROVE  Covers(h, Query("view", m))
<1>1. h.kind \in HintKinds
  BY DEF KnownHint
<1>2. /\ Query("email", k).kind = "email" /\ Query("email", k).key = k
      /\ Query("view", m).kind = "view" /\ Query("view", m).key = m
      /\ \A x : Query("email", k) # Query("body", x) /\ Query("email", k) # Query("attachments", x)
                /\ Query("email", k) # Query("view", x) /\ Query("email", k) # Query("cursor", x)
  BY DEF Query
<1>3. \/ h.kind = "accounts"
      \/ h.kind \in {"mailboxes", "emails", "emailMemberships"} /\ k.accountKey = h.key
  BY <1>1, <1>2 DEF Covers, HintKinds
<1> QED
  BY <1>2, <1>3 DEF Covers

\* A change of what a read finds is due.
LEMMA CoveredIsDue ==
    \A d, e, H, q : CoversRead(d, e, H, q) => (Read(d, q) # Read(e, q) => Due(H, q))
BY DEF CoversRead, Due

\* What the reads of the controller find.
LEMMA ReadsFind ==
    \A d : /\ Read(d, Query("accounts", None)) = Answer("present", DOMAIN d.accounts)
           /\ \A a \in DOMAIN d.accounts :
                 /\ Read(d, Query("mailboxes", a)) = Answer("present", Owned(d.mailboxes, a))
                 /\ Read(d, Query("mutations", a)) = Answer("present", ValuesOf(d.mutations, a))
           /\ \A k \in DOMAIN d.emails : Read(d, Query("email", k)) = Answer("present", d.emails[k])
           /\ \A k : k \notin DOMAIN d.emails => Read(d, Query("email", k)) = Answer("absent", None)
           /\ \A m \in d.mailboxes :
                 /\ m \in DOMAIN d.views => Read(d, Query("view", m)) = Answer("present", d.views[m])
                 /\ m \notin DOMAIN d.views => Read(d, Query("view", m)) = Answer("absent", None)
           /\ \A m : m \notin d.mailboxes => Read(d, Query("view", m)) = Answer("ownerAbsent", None)
<1> TAKE d
<1>1. Read(d, Query("accounts", None)) = Answer("present", DOMAIN d.accounts)
  BY DEF Read, Query
<1>2. ASSUME NEW a \in DOMAIN d.accounts
      PROVE  /\ Read(d, Query("mailboxes", a)) = Answer("present", Owned(d.mailboxes, a))
             /\ Read(d, Query("mutations", a)) = Answer("present", ValuesOf(d.mutations, a))
  BY DEF Read, Query, OwnedBy
<1>3. \A k \in DOMAIN d.emails : Read(d, Query("email", k)) = Answer("present", d.emails[k])
  BY DEF Read, Query, OwnedBy
<1>4. \A k : k \notin DOMAIN d.emails => Read(d, Query("email", k)) = Answer("absent", None)
  BY DEF Read, Query, OwnedBy
<1>5. ASSUME NEW m \in d.mailboxes
      PROVE  /\ m \in DOMAIN d.views => Read(d, Query("view", m)) = Answer("present", d.views[m])
             /\ m \notin DOMAIN d.views => Read(d, Query("view", m)) = Answer("absent", None)
  BY DEF Read, Query, OwnedBy
<1>6. \A m : m \notin d.mailboxes => Read(d, Query("view", m)) = Answer("ownerAbsent", None)
  BY DEF Read, Query, OwnedBy
<1> QED
  BY <1>1, <1>2, <1>3, <1>4, <1>5, <1>6

\* Answers tell their kinds and values apart.
LEMMA AnswersDiffer ==
    \A k, v, l, w : Answer(k, v) = Answer(l, w) => k = l /\ v = w
BY DEF Answer

\* A write that announces what it changes steps from a store to a store.
LEMMA CoveringSteps ==
    ASSUME NEW d, NEW e, NEW H, \A h \in H : KnownHint(h),
           \A kind \in QueryKinds : \A key : CoversRead(d, e, H, Query(kind, key)),
           DOMAIN d.accounts \subseteq DOMAIN e.accounts,
           d.bodies \subseteq e.bodies, \A x \in e.bodies \ d.bodies : Hint("emailBody", x) \in H,
           d.views = e.views \/ \E m : H = {Hint("mailboxView", m)} /\ \A x : x # m => ViewsOf(d, x) = ViewsOf(e, x)
    PROVE  Steps(d, e, H)
<1>1. \A kind \in QueryKinds : \A key : Read(d, Query(kind, key)) # Read(e, Query(kind, key)) => Due(H, Query(kind, key))
  BY CoveredIsDue, Zenon
<1>2. {"accounts", "mailboxes", "mutations", "email", "view"} \subseteq QueryKinds
  BY DEF QueryKinds
<1>3. DOMAIN d.accounts # DOMAIN e.accounts => Due(H, Query("accounts", None))
  <2>1. Read(d, Query("accounts", None)) # Read(e, Query("accounts", None)) => Due(H, Query("accounts", None))
    BY <1>1, <1>2
  <2> QED
    <3>1. /\ Read(d, Query("accounts", None)) = Answer("present", DOMAIN d.accounts)
          /\ Read(e, Query("accounts", None)) = Answer("present", DOMAIN e.accounts)
      BY ReadsFind, Zenon
    <3> QED
      BY <2>1, <3>1, AnswersDiffer
<1>4. ASSUME NEW a \in DOMAIN d.accounts
      PROVE  /\ Owned(d.mailboxes, a) # Owned(e.mailboxes, a) => Due(H, Query("mailboxes", a))
             /\ ValuesOf(d.mutations, a) # ValuesOf(e.mutations, a) => Due(H, Query("mutations", a))
  <2>1. a \in DOMAIN e.accounts
    OBVIOUS
  <2>2. /\ Read(d, Query("mailboxes", a)) # Read(e, Query("mailboxes", a)) => Due(H, Query("mailboxes", a))
        /\ Read(d, Query("mutations", a)) # Read(e, Query("mutations", a)) => Due(H, Query("mutations", a))
    BY <1>1, <1>2
  <2> QED
    <3>1. /\ Read(d, Query("mailboxes", a)) = Answer("present", Owned(d.mailboxes, a))
          /\ Read(e, Query("mailboxes", a)) = Answer("present", Owned(e.mailboxes, a))
          /\ Read(d, Query("mutations", a)) = Answer("present", ValuesOf(d.mutations, a))
          /\ Read(e, Query("mutations", a)) = Answer("present", ValuesOf(e.mutations, a))
      BY <2>1, ReadsFind
    <3> QED
      BY <2>2, <3>1, AnswersDiffer
<1>5. ASSUME NEW m, ViewsOf(d, m) # ViewsOf(e, m) PROVE Due(H, Query("view", m))
  <2>1. CASE Read(d, Query("view", m)) # Read(e, Query("view", m))
    BY <1>1, <1>2, <2>1
  <2>2. CASE d.views = e.views
    BY <1>5, <2>2 DEF ViewsOf
  <2>3. CASE \E x : H = {Hint("mailboxView", x)} /\ \A y : y # x => ViewsOf(d, y) = ViewsOf(e, y)
    <3>1. H = {Hint("mailboxView", m)}
      BY <1>5, <2>3, Zenon
    <3>2. Covers(Hint("mailboxView", m), Query("view", m))
      BY DEF Covers, Hint
    <3> QED
      BY <3>1, <3>2 DEF Due
  <2> QED
    BY <2>2, <2>3
<1>6. ASSUME NEW k \in DOMAIN d.emails, NEW m, m.accountKey = k.accountKey, ~Due(H, Query("view", m))
      PROVE  k \in DOMAIN e.emails /\ e.emails[k] = d.emails[k]
  <2>1. ~Due(H, Query("email", k))
    BY <1>6, EmailsMakeViewsDue DEF Due
  <2>2. Read(d, Query("email", k)) = Read(e, Query("email", k))
    BY <1>1, <1>2, <2>1
  <2>3. "present" # "absent"
    OBVIOUS
  <2> QED
    <3>1. /\ Read(d, Query("email", k)) = Answer("present", d.emails[k])
          /\ k \in DOMAIN e.emails => Read(e, Query("email", k)) = Answer("present", e.emails[k])
          /\ k \notin DOMAIN e.emails => Read(e, Query("email", k)) = Answer("absent", None)
      BY ReadsFind
    <3> QED
      BY <2>2, <2>3, <3>1, AnswersDiffer
<1> QED
  BY <1>3, <1>4, <1>5, <1>6, Zenon DEF Steps

\* Every write is such a step; only registered accounts are added.
LEMMA PerformSteps ==
    ASSUME NEW s, IsStore(s), NEW op, NEW arg, IsWrite(op), IsArgument(op, arg)
    PROVE  LET o == Perform(s, op, arg) IN
           /\ Steps(s, o.db, o.hints)
           /\ \A a \in DOMAIN o.db.accounts : a \in DOMAIN s.accounts \/ (op = "registerAccount" /\ a = arg.key)
<1> DEFINE o == Perform(s, op, arg)
           t == o.db
           H == o.hints
<1>1. WriteTouches(s, o, op, arg)
  BY PerformTouches
<1>2. \A h \in H : KnownHint(h)
  BY PerformHints
<1>3. \A kind \in QueryKinds : \A key : CoversRead(s, t, H, Query(kind, key))
  BY PerformCovers
<1>4. DOMAIN s = Tables
  BY StoreTables
<1> HIDE DEF o
<1>5. \/ t = s
      \/ \E F : SameExcept(s, t, F) /\ F \subseteq OtherTables
      \/ op = "registerAccount" /\ SameExcept(s, t, {"accounts"}) /\ DOMAIN t.accounts = DOMAIN s.accounts \cup {arg.key}
      \/ SameExcept(s, t, {"bodies"}) /\ t.bodies = s.bodies \cup {arg} /\ H = {Hint("emailBody", arg)}
      \/ /\ SameExcept(s, t, {"views"}) /\ t.views = With(s.views, Entry(arg.mailboxId, arg))
         /\ H = {Hint("mailboxView", arg.mailboxId)}
  BY <1>1, Zenon DEF WriteTouches
<1> HIDE DEF t, H
<1>6. \A F : SameExcept(s, t, F) => /\ "accounts" \notin F => t.accounts = s.accounts
                                    /\ "bodies" \notin F => t.bodies = s.bodies
                                    /\ "views" \notin F => t.views = s.views
  BY <1>4 DEF SameExcept, Tables
<1>7. \A F : F \subseteq OtherTables => "accounts" \notin F /\ "bodies" \notin F /\ "views" \notin F
  BY DEF OtherTables
<1>8. /\ DOMAIN s.accounts \subseteq DOMAIN t.accounts
      /\ \A a \in DOMAIN t.accounts : a \in DOMAIN s.accounts \/ (op = "registerAccount" /\ a = arg.key)
  <2>1. t.accounts = s.accounts \/ (op = "registerAccount" /\ DOMAIN t.accounts = DOMAIN s.accounts \cup {arg.key})
    BY <1>5, <1>6, <1>7
  <2> QED
    BY <2>1
<1>9. s.bodies \subseteq t.bodies /\ \A x \in t.bodies \ s.bodies : Hint("emailBody", x) \in H
  <2>1. t.bodies = s.bodies \/ (t.bodies = s.bodies \cup {arg} /\ H = {Hint("emailBody", arg)})
    BY <1>5, <1>6, <1>7
  <2> QED
    BY <2>1
<1>10. s.views = t.views \/ \E m : H = {Hint("mailboxView", m)} /\ \A x : x # m => ViewsOf(s, x) = ViewsOf(t, x)
  <2>1. \/ t.views = s.views
        \/ t.views = With(s.views, Entry(arg.mailboxId, arg)) /\ H = {Hint("mailboxView", arg.mailboxId)}
    BY <1>5, <1>6, <1>7
  <2>2. ASSUME t.views = With(s.views, Entry(arg.mailboxId, arg)), NEW x, x # arg.mailboxId
        PROVE  ViewsOf(s, x) = ViewsOf(t, x)
    <3>1. Added(s.views, t.views, arg.mailboxId, arg)
      BY <2>2, WithEntry, Zenon
    <3> QED
      BY <2>2, <3>1 DEF Added, ViewsOf
  <2> QED
    BY <2>1, <2>2
<1>11. Steps(s, t, H)
  BY <1>2, <1>3, <1>8, <1>9, <1>10, CoveringSteps
<1> QED
  BY <1>8, <1>11 DEF t, H, o

\* The body that was fetched is cached.
LEMMA CacheSteps ==
    ASSUME NEW s, IsStore(s), NEW id
    PROVE  LET o == CacheEmailBody(s, id) IN
           o.result = "ok" =>
              /\ IsStore(o.db) /\ Steps(s, o.db, o.hints) /\ \A h \in o.hints : KnownHint(h)
              /\ o.db.accounts = s.accounts
<1> DEFINE o == CacheEmailBody(s, id)
           t == o.db
           H == o.hints
<1> SUFFICES ASSUME o.result = "ok"
             PROVE  IsStore(t) /\ Steps(s, t, H) /\ (\A h \in H : KnownHint(h)) /\ t.accounts = s.accounts
  OBVIOUS
<1>1. SameExcept(s, t, {"bodies"}) /\ t.bodies = s.bodies \cup {id} /\ H = {Hint("emailBody", id)}
  <2>1. o # Conflict(s)
    BY ConflictEffect
  <2> QED
    BY <2>1, CacheEffect, Zenon
<1>2. \A kind \in QueryKinds : \A key : CoversRead(s, t, H, Query(kind, key))
  BY CacheCovers, Zenon
<1> HIDE DEF o
<1> HIDE DEF t, H
<1>3. DOMAIN s = Tables
  BY StoreTables
<1>4. t.accounts = s.accounts /\ t.views = s.views
  BY <1>1, <1>3 DEF SameExcept, Tables
<1>5. IsStore(t)
  <2> DEFINE F == {"bodies"}
  <2>1. SameExcept(s, t, F) /\ "views" \notin F /\ "mutations" \notin F
    BY <1>1
  <2> HIDE DEF F
  <2> QED
    BY <2>1, SameKeepsStore
<1>6. \A h \in H : KnownHint(h)
  BY <1>1 DEF KnownHint, Hint, HintKinds
<1>7. Steps(s, t, H)
  <2>1. DOMAIN s.accounts \subseteq DOMAIN t.accounts /\ s.bodies \subseteq t.bodies
        /\ \A x \in t.bodies \ s.bodies : Hint("emailBody", x) \in H
    BY <1>1, <1>4
  <2> QED
    BY <1>2, <1>4, <1>6, <2>1, CoveringSteps
<1> QED
  BY <1>4, <1>5, <1>6, <1>7

\* A view lists Emails of the account of its Mailbox.
LEMMA ListedIsLocal ==
    ASSUME NEW d, IsStore(d), NEW m, NEW k \in Listed(ViewsOf(d, m))
    PROVE  k.accountKey = m.accountKey
<1>1. PICK v \in ViewsOf(d, m) : \E i \in DOMAIN v.items : k = v.items[i].emailId
  BY DEF Listed
<1>2. m \in DOMAIN d.views /\ v = d.views[m]
  BY <1>1 DEF ViewsOf
<1>3. v \in MailboxViews /\ v.mailboxId = m
  BY <1>2 DEF IsStore
<1>4. MailboxView(v) # {}
  BY <1>3 DEF MailboxViews
<1>5. ValidItems(v.items, v.mailboxId.accountKey)
  BY <1>4 DEF MailboxView
<1> QED
  BY <1>1, <1>3, <1>5 DEF ValidItems

\* What was due stays so, and a list that is not due still holds what the store does.
LEMMA StepsKeep ==
    ASSUME NEW d, NEW e, NEW H, Steps(d, e, H), NEW F
    PROVE  /\ \A q : Due(F, q) \/ Due(H, q) => Due(F \cup H, q)
           /\ \A m : ~Due(H, Query("view", m)) =>
                 /\ ViewsOf(e, m) = ViewsOf(d, m) /\ (m \in DOMAIN e.views <=> m \in DOMAIN d.views)
                 /\ \A f : EmailsOf(d, f) /\ (\A k \in DOMAIN f : k.accountKey = m.accountKey) => EmailsOf(e, f)
<1>1. \A q : Due(F, q) \/ Due(H, q) => Due(F \cup H, q)
  BY DEF Due
<1>2. ASSUME NEW m, ~Due(H, Query("view", m))
      PROVE  /\ ViewsOf(e, m) = ViewsOf(d, m) /\ (m \in DOMAIN e.views <=> m \in DOMAIN d.views)
             /\ \A f : EmailsOf(d, f) /\ (\A k \in DOMAIN f : k.accountKey = m.accountKey) => EmailsOf(e, f)
  <2>1. ViewsOf(e, m) = ViewsOf(d, m)
    BY <1>2, Zenon DEF Steps
  <2>2. m \in DOMAIN e.views <=> m \in DOMAIN d.views
    <3>1. \A x : m \in DOMAIN x.views <=> ViewsOf(x, m) # {}
      BY DEF ViewsOf
    <3> QED
      BY <2>1, <3>1, Zenon
  <2>3. ASSUME NEW f, EmailsOf(d, f), \A k \in DOMAIN f : k.accountKey = m.accountKey, NEW k \in DOMAIN f
        PROVE  k \in DOMAIN e.emails /\ f[k] = e.emails[k]
    <3>1. k \in DOMAIN d.emails /\ f[k] = d.emails[k] /\ m.accountKey = k.accountKey
      BY <2>3 DEF EmailsOf
    <3>2. k \in DOMAIN e.emails /\ e.emails[k] = d.emails[k]
      BY <1>2, <3>1 DEF Steps
    <3> QED
      BY <3>1, <3>2
  <2> QED
    BY <2>1, <2>2, <2>3 DEF EmailsOf
<1> QED
  BY <1>1, <1>2

\* What is known of the store stays known.
LEMMA StepsKeepKnown ==
    ASSUME NEW d, NEW e, NEW H, Steps(d, e, H), NEW s, NEW S
    PROVE  /\ KnownStores(d, s) => KnownStores(e, s)
           /\ KnownTasks(d, s, S) => KnownTasks(e, s, S)
<1>1. DOMAIN d.accounts \subseteq DOMAIN e.accounts /\ d.bodies \subseteq e.bodies
  BY DEF Steps
<1>2. KnownStores(d, s) => KnownStores(e, s)
  BY <1>1 DEF KnownStores
<1>3. \A f : KnownFrame(d, f) => KnownFrame(e, f)
  BY <1>1 DEF KnownFrame
<1>4. ASSUME NEW t, KnownTask(d, t) PROVE KnownTask(e, t)
  <2>1. Knowable(e, t.at, t.key)
    <3>1. Knowable(d, t.at, t.key)
      BY <1>4 DEF KnownTask
    <3> QED
      BY <1>1, <3>1 DEF Knowable
  <2>2. t.phase = "answered" => Sound(e, t, t.res)
    <3>1. t.phase = "answered" => Sound(d, t, t.res)
      BY <1>4 DEF KnownTask
    <3> QED
      BY <1>1, <3>1 DEF Sound
  <2> QED
    BY <1>4, <2>1, <2>2 DEF KnownTask
<1>5. KnownTasks(d, s, S) => KnownTasks(e, s, S)
  BY <1>3, <1>4 DEF KnownTasks
<1> QED
  BY <1>2, <1>5

\* A commit that announces its changes leaves everything fresh, or due.
LEMMA StoreIsFresh ==
    ASSUME NEW d, IsStore(d), NEW e, NEW H, Steps(d, e, H), NEW F, NEW s, NEW S \in SUBSET DOMAIN s.tasks,
           Shown(s), \A j \in DOMAIN s.tasks : GoodTask(s.tasks[j]), Fresh(d, F, s, S)
    PROVE  Fresh(e, F \cup H, s, S)
<1> DEFINE I == F \cup H
           m == s.mailbox
           a == s.account
<1>1. /\ \A q : Due(F, q) \/ Due(H, q) => Due(I, q)
      /\ \A x : ~Due(H, Query("view", x)) =>
            /\ ViewsOf(e, x) = ViewsOf(d, x) /\ (x \in DOMAIN e.views <=> x \in DOMAIN d.views)
            /\ \A f : EmailsOf(d, f) /\ (\A k \in DOMAIN f : k.accountKey = x.accountKey) => EmailsOf(e, f)
  BY StepsKeep
<1>2. KnownStores(e, s) /\ KnownTasks(e, s, S)
  BY StepsKeepKnown DEF Fresh
<1>3. /\ DOMAIN d.accounts # DOMAIN e.accounts => Due(H, Query("accounts", None))
      /\ d.bodies \subseteq e.bodies /\ \A x \in e.bodies \ d.bodies : Hint("emailBody", x) \in H
      /\ \A b \in DOMAIN d.accounts :
            /\ Owned(d.mailboxes, b) # Owned(e.mailboxes, b) => Due(H, Query("mailboxes", b))
            /\ ValuesOf(d.mutations, b) # ValuesOf(e.mutations, b) => Due(H, Query("mutations", b))
  BY Zenon DEF Steps
<1>4. a # None => a \in DOMAIN d.accounts
  BY DEF Fresh, KnownStores
<1>5. \A at, key : \A x \in Reads(s.tasks, S, at, key) : x.at = at /\ x.key = key /\ GoodTask(x)
  BY DEF Reads
<1>6. \A b : OfAccount(b).accountKey = b
  BY DEF OfAccount, ScopedId
<1> HIDE DEF I
<1>7. AccountsFresh(e, I, s, S)
  <2>1. CASE Due(I, Query("accounts", None))
    BY <2>1 DEF AccountsFresh
  <2>2. CASE ~Due(I, Query("accounts", None))
    <3>1. DOMAIN d.accounts = DOMAIN e.accounts /\ ~Due(F, Query("accounts", None))
      BY <1>1, <1>3, <2>2, Zenon
    <3> DEFINE R == Reads(s.tasks, S, "accounts", NoId)
    <3>2. (s.subscribed => Accounting(s, S) \/ s.accounts = DOMAIN d.accounts) /\ AnswersFit(d, R)
      BY <3>1, Zenon DEF Fresh, AccountsFresh
    <3>3. \A x \in R : x.at = "accounts"
      BY <1>5
    <3> HIDE DEF R
    <3>4. AnswersFit(e, R)
      BY <3>1, <3>2, <3>3 DEF AnswersFit, Accurate
    <3> QED
      BY <3>1, <3>2, <3>4 DEF AccountsFresh, R
  <2> QED
    BY <2>1, <2>2
<1>8. MailboxesFresh(e, I, s, S)
  <2> DEFINE R == Reads(s.tasks, S, "mailboxes", OfAccount(a))
             excused == \/ Due(I, Query("mailboxes", a)) \/ Accounting(s, S) \/ <<"mailboxes", a>> \in s.missed
  <2> SUFFICES ASSUME a # None, ~excused
               PROVE  (R # {} \/ s.mailboxes = Owned(e.mailboxes, a)) /\ AnswersFit(e, R)
    BY Zenon DEF MailboxesFresh
  <2>1. ~Due(F, Query("mailboxes", a)) /\ Owned(d.mailboxes, a) = Owned(e.mailboxes, a)
    BY <1>1, <1>3, <1>4, Zenon
  <2>2. MailboxesFresh(d, F, s, S)
    BY DEF Fresh
  <2>3. (R # {} \/ s.mailboxes = Owned(d.mailboxes, a)) /\ AnswersFit(d, R)
    BY <2>1, <2>2, Zenon DEF MailboxesFresh
  <2>4. \A x \in R : x.at = "mailboxes" /\ x.key.accountKey = a
    BY <1>5, <1>6
  <2> HIDE DEF R
  <2>5. AnswersFit(e, R)
    BY <2>1, <2>3, <2>4 DEF AnswersFit, Accurate
  <2> QED
    BY <2>1, <2>3, <2>5
<1>9. StatusesFresh(e, I, s, S)
  <2> DEFINE R == Reads(s.tasks, S, "statuses", OfAccount(a))
             excused == \/ Due(I, Query("mutations", a)) \/ Accounting(s, S) \/ <<"statuses", a>> \in s.missed
                        \/ Owed(s, a)
  <2> SUFFICES ASSUME a # None, ~excused
               PROVE  /\ R # {} \/ (a \in DOMAIN s.statuses /\ s.statuses[a] = ValuesOf(e.mutations, a))
                      /\ AnswersFit(e, R)
    BY Zenon DEF StatusesFresh
  <2>1. ~Due(F, Query("mutations", a)) /\ ValuesOf(d.mutations, a) = ValuesOf(e.mutations, a)
    BY <1>1, <1>3, <1>4, Zenon
  <2>2. StatusesFresh(d, F, s, S)
    BY DEF Fresh
  <2>3. /\ R # {} \/ (a \in DOMAIN s.statuses /\ s.statuses[a] = ValuesOf(d.mutations, a))
        /\ AnswersFit(d, R)
    BY <2>1, <2>2, Zenon DEF StatusesFresh
  <2>4. \A x \in R : x.at = "statuses" /\ x.key.accountKey = a
    BY <1>5, <1>6
  <2> HIDE DEF R
  <2>5. AnswersFit(e, R)
    BY <2>1, <2>3, <2>4 DEF AnswersFit, Accurate
  <2> QED
    BY <2>1, <2>3, <2>5
<1>10. WindowFresh(e, I, s, S)
  <2> DEFINE V == Reads(s.tasks, S, "view", m)
             E == Reads(s.tasks, S, "emails", m)
  <2> SUFFICES ASSUME m # NoId, ~Widening(s, S), ~Due(I, Query("view", m))
               PROVE  /\ s.loadState = "notCached" => m \notin DOMAIN e.views
                      /\ s.loadState = "ready" => s.view = ViewsOf(e, m) /\ EmailsOf(e, s.emails)
                      /\ AnswersFit(e, V) /\ AnswersFit(e, E) /\ \A x \in E : x.view = ViewsOf(e, m)
    BY Zenon DEF WindowFresh
  <2>1. ~Due(F, Query("view", m)) /\ ~Due(H, Query("view", m))
    BY <1>1, Zenon
  <2>2. WindowFresh(d, F, s, S)
    BY DEF Fresh
  <2>3. /\ s.loadState = "notCached" => m \notin DOMAIN d.views
        /\ s.loadState = "ready" => s.view = ViewsOf(d, m) /\ EmailsOf(d, s.emails)
        /\ AnswersFit(d, V) /\ AnswersFit(d, E) /\ \A x \in E : x.view = ViewsOf(d, m)
    BY <2>1, <2>2, Zenon DEF WindowFresh
  <2>4. /\ ViewsOf(e, m) = ViewsOf(d, m) /\ (m \in DOMAIN e.views <=> m \in DOMAIN d.views)
        /\ \A f : EmailsOf(d, f) /\ (\A k \in DOMAIN f : k.accountKey = m.accountKey) => EmailsOf(e, f)
    BY <1>1, <2>1, Zenon
  <2>5. \A k \in Listed(ViewsOf(d, m)) : k.accountKey = m.accountKey
    BY ListedIsLocal
  <2>6. s.loadState = "ready" => EmailsOf(e, s.emails)
    <3>1. DOMAIN s.emails \subseteq Listed(s.view)
      BY DEF Shown
    <3> QED
      BY <2>3, <2>4, <2>5, <3>1
  <2>7. (\A x \in V : x.at = "view" /\ x.key = m) /\ \A x \in E : x.at = "emails" /\ GoodTask(x)
    BY <1>5
  <2> HIDE DEF V, E
  <2>8. AnswersFit(e, V)
    BY <2>3, <2>4, <2>7 DEF AnswersFit, Accurate
  <2>9. ASSUME NEW x \in E, x.phase = "answered" PROVE Accurate(e, x, x.res)
    <3>1. x.at = "emails" /\ GoodAnswer(x, x.res) /\ Accurate(d, x, x.res) /\ x.view = ViewsOf(d, m)
      BY <2>3, <2>7, <2>9 DEF AnswersFit, GoodTask
    <3>2. x.res.kind = "present" => DOMAIN x.res.value \subseteq Listed(ViewsOf(d, m)) /\ EmailsOf(d, x.res.value)
      BY <3>1 DEF GoodAnswer, Accurate
    <3>3. x.res.kind = "present" => EmailsOf(e, x.res.value)
      BY <2>4, <2>5, <3>2
    <3> QED
      BY <3>1, <3>3 DEF Accurate
  <2>10. AnswersFit(e, E)
    BY <2>9 DEF AnswersFit
  <2> QED
    BY <2>3, <2>4, <2>6, <2>8, <2>10
<1>11. BodyFresh(e, I, s, S)
  <2> DEFINE R == Reads(s.tasks, S, "body", s.email)
  <2> SUFFICES ASSUME m # NoId, s.email # NoId, s.loadState = "ready",
                      ~Widening(s, S), ~Due(I, Query("view", m)), Hint("emailBody", s.email) \notin I
               PROVE  /\ s.bodyState = "notCached" /\ ~s.bodyError => s.email \notin e.bodies \/ Retried(s, S, s.email)
                      /\ AnswersFit(e, R)
    BY Zenon DEF BodyFresh
  <2>1. ~Due(F, Query("view", m)) /\ Hint("emailBody", s.email) \notin F /\ Hint("emailBody", s.email) \notin H
    BY <1>1 DEF I
  <2>2. BodyFresh(d, F, s, S)
    BY DEF Fresh
  <2>3. /\ s.bodyState = "notCached" /\ ~s.bodyError => s.email \notin d.bodies \/ Retried(s, S, s.email)
        /\ AnswersFit(d, R)
    BY <2>1, <2>2, Zenon DEF BodyFresh
  <2>4. s.email \in e.bodies <=> s.email \in d.bodies
    BY <1>3, <2>1
  <2>5. \A x \in R : x.at = "body" /\ x.key = s.email
    BY <1>5
  <2> HIDE DEF R
  <2>6. AnswersFit(e, R)
    BY <2>3, <2>4, <2>5 DEF AnswersFit, Accurate
  <2> QED
    BY <2>3, <2>4, <2>6
<1>12. Fresh(e, I, s, S)
  BY <1>2, <1>7, <1>8, <1>9, <1>10, <1>11, Zenon DEF Fresh
<1> QED
  BY <1>12 DEF I

-----------------------------------------------------------------------------
(* The store answers a read, or a materialization goes on, while its call   *)
(* stays suspended.                                                        *)

Told(d, a, b) ==
    \/ b = a
    \/ /\ \A f \in {"owner", "at", "key", "fresh", "view", "then"} : b[f] = a[f]
       /\ b.phase = "answered" => Sound(d, b, b.res) /\ Accurate(d, b, b.res)
       /\ \A e : Retries(a, e) => Retries(b, e) \/ e \notin d.bodies

\* The same reads are awaited, and their answers are right when they were.
ToldAlike(d, R, Q) ==
    /\ R # {} <=> Q # {}
    /\ AnswersFit(d, R) => AnswersFit(d, Q)
    /\ \A y \in Q : \E x \in R : y.view = x.view

\* Calls that are told their answers are such reads.
LEMMA ToldReads ==
    \A d, tk, uk, S, at, key :
        (\A j \in S : Told(d, tk[j], uk[j])) => ToldAlike(d, Reads(tk, S, at, key), Reads(uk, S, at, key))
<1> SUFFICES ASSUME NEW d, NEW tk, NEW uk, NEW S, NEW at, NEW key, \A j \in S : Told(d, tk[j], uk[j])
    PROVE  ToldAlike(d, Reads(tk, S, at, key), Reads(uk, S, at, key))
  BY Zenon
<1> DEFINE R == Reads(tk, S, at, key)
           Q == Reads(uk, S, at, key)
<1>1. \A j \in S : uk[j].at = tk[j].at /\ uk[j].fresh = tk[j].fresh /\ uk[j].key = tk[j].key /\ uk[j].view = tk[j].view
  BY DEF Told
<1>2. ASSUME NEW x \in R PROVE Q # {}
  <2>1. PICK j \in S : x = tk[j] /\ tk[j].at = at /\ tk[j].fresh /\ tk[j].key = key
    BY DEF Reads
  <2>2. uk[j].at = at /\ uk[j].fresh /\ uk[j].key = key
    BY <1>1, <2>1, Zenon
  <2>3. uk[j] \in Q
    BY <2>2 DEF Reads
  <2> QED
    BY <2>3
<1>3. ASSUME NEW y \in Q PROVE \E j \in S : y = uk[j] /\ tk[j] \in R
  <2>1. PICK j \in S : y = uk[j] /\ uk[j].at = at /\ uk[j].fresh /\ uk[j].key = key
    BY DEF Reads
  <2>2. tk[j].at = at /\ tk[j].fresh /\ tk[j].key = key
    BY <1>1, <2>1, Zenon
  <2>3. tk[j] \in R
    BY <2>2 DEF Reads
  <2> QED
    BY <2>1, <2>3
<1> HIDE DEF R, Q
<1>4. R # {} <=> Q # {}
  BY <1>2, <1>3
<1>5. ASSUME AnswersFit(d, R), NEW y \in Q, y.phase = "answered" PROVE Accurate(d, y, y.res)
  <2>1. PICK j \in S : y = uk[j] /\ tk[j] \in R
    BY <1>3
  <2>2. CASE uk[j] = tk[j]
    BY <1>5, <2>1, <2>2 DEF AnswersFit
  <2>3. CASE uk[j] # tk[j]
    <3>1. uk[j].phase = "answered" => Accurate(d, uk[j], uk[j].res)
      BY <2>3, Zenon DEF Told
    <3> QED
      BY <1>5, <2>1, <3>1
  <2> QED
    BY <2>2, <2>3
<1>6. ASSUME NEW y \in Q PROVE \E x \in R : y.view = x.view
  BY <1>1, <1>3
<1>7. AnswersFit(d, R) => AnswersFit(d, Q)
  BY <1>5 DEF AnswersFit
<1> QED
  BY <1>4, <1>6, <1>7 DEF R, Q, ToldAlike

\* What is shown is as fresh as before.
LEMMA ToldIsFresh ==
    ASSUME NEW d, NEW F, NEW s, DOMAIN s = AppFields, NEW t, SameExcept(s, t, {"tasks"}), DOMAIN t.tasks = DOMAIN s.tasks,
           NEW S, S = DOMAIN s.tasks, \A j \in S : Told(d, s.tasks[j], t.tasks[j]), Fresh(d, F, s, S)
    PROVE  Fresh(d, F, t, S)
<1> DEFINE R(at, key) == Reads(s.tasks, S, at, key)
           Q(at, key) == Reads(t.tasks, S, at, key)
<1>1. ASSUME NEW at, NEW key
      PROVE  /\ R(at, key) # {} <=> Q(at, key) # {}
             /\ AnswersFit(d, R(at, key)) => AnswersFit(d, Q(at, key))
             /\ \A y \in Q(at, key) : \E x \in R(at, key) : y.view = x.view
  <2> DEFINE tk == s.tasks
             uk == t.tasks
  <2>1. \A j \in S : Told(d, tk[j], uk[j])
    OBVIOUS
  <2>2. R(at, key) = Reads(tk, S, at, key) /\ Q(at, key) = Reads(uk, S, at, key)
    OBVIOUS
  <2> HIDE DEF tk, uk, R, Q
  <2>3. ToldAlike(d, Reads(tk, S, at, key), Reads(uk, S, at, key))
    BY <2>1, ToldReads, Zenon
  <2> QED
    BY <2>2, <2>3 DEF ToldAlike
<1>2. /\ t.accounts = s.accounts /\ t.account = s.account /\ t.mailbox = s.mailbox /\ t.email = s.email
      /\ t.loadState = s.loadState /\ t.mailboxes = s.mailboxes /\ t.view = s.view /\ t.emails = s.emails
      /\ t.bodyState = s.bodyState /\ t.bodyError = s.bodyError /\ t.statuses = s.statuses
      /\ t.subscribed = s.subscribed /\ t.missed = s.missed
  BY DEF SameExcept, AppFields
<1>3. KnownStores(d, t)
  BY <1>2 DEF Fresh, KnownStores
<1>4. \A j \in S : t.tasks[j].then = s.tasks[j].then /\ t.tasks[j].at = s.tasks[j].at /\ t.tasks[j].key = s.tasks[j].key
  BY DEF Told
<1>5. KnownTasks(d, t, S)
  <2>1. KnownTasks(d, s, S)
    BY DEF Fresh
  <2>2. ASSUME NEW j \in S PROVE KnownTask(d, t.tasks[j])
    <3>1. KnownTask(d, s.tasks[j])
      BY <2>1 DEF KnownTasks
    <3>2. CASE t.tasks[j] = s.tasks[j]
      BY <3>1, <3>2
    <3>3. CASE t.tasks[j] # s.tasks[j]
      <4>1. t.tasks[j].phase = "answered" => Sound(d, t.tasks[j], t.tasks[j].res)
        BY <3>3, Zenon DEF Told
      <4> QED
        BY <1>4, <3>1, <4>1 DEF KnownTask
    <3> QED
      BY <3>2, <3>3
  <2>3. \A j \in DOMAIN t.tasks : \A f \in ToSet(t.tasks[j].then) : KnownFrame(d, f)
    BY <1>4, <2>1 DEF KnownTasks
  <2> QED
    BY <2>2, <2>3 DEF KnownTasks
<1>6. \A a : Owed(s, a) <=> Owed(t, a)
  BY <1>4 DEF Owed, Owes
<1>7. Accounting(s, S) <=> Accounting(t, S)
  BY <1>1, <1>2 DEF Accounting
<1>8. Widening(s, S) <=> Widening(t, S)
  BY <1>1, <1>2, <1>7 DEF Widening
<1>9. AccountsFresh(d, F, t, S)
  <2>1. AnswersFit(d, R("accounts", NoId)) => AnswersFit(d, Q("accounts", NoId))
    BY <1>1, Zenon
  <2> QED
    BY <1>2, <1>7, <2>1 DEF Fresh, AccountsFresh
<1>10. MailboxesFresh(d, F, t, S)
  <2> DEFINE A == R("mailboxes", OfAccount(s.account))
             B == Q("mailboxes", OfAccount(s.account))
  <2>1. (A # {} <=> B # {}) /\ (AnswersFit(d, A) => AnswersFit(d, B))
    BY <1>1, Zenon
  <2> QED
    BY <1>2, <1>7, <2>1 DEF Fresh, MailboxesFresh
<1>11. StatusesFresh(d, F, t, S)
  <2> DEFINE A == R("statuses", OfAccount(s.account))
             B == Q("statuses", OfAccount(s.account))
  <2>1. (A # {} <=> B # {}) /\ (AnswersFit(d, A) => AnswersFit(d, B))
    BY <1>1, Zenon
  <2> QED
    BY <1>2, <1>6, <1>7, <2>1 DEF Fresh, StatusesFresh
<1>12. WindowFresh(d, F, t, S)
  <2> HIDE DEF R, Q
  <2>1. AnswersFit(d, R("view", s.mailbox)) => AnswersFit(d, Q("view", s.mailbox))
    BY <1>1, Zenon
  <2>4. AnswersFit(d, R("emails", s.mailbox)) => AnswersFit(d, Q("emails", s.mailbox))
    BY <1>1, Zenon
  <2>5. \A y \in Q("emails", s.mailbox) : \E x \in R("emails", s.mailbox) : y.view = x.view
    BY <1>1, Zenon
  <2>2. WindowFresh(d, F, s, S)
    BY DEF Fresh
  <2>3. \A V : (\A x \in R("emails", s.mailbox) : x.view = V) => \A y \in Q("emails", s.mailbox) : y.view = V
    BY <2>5
  <2> QED
    BY <1>2, <1>8, <2>1, <2>2, <2>3, <2>4 DEF WindowFresh, R, Q
<1>13. BodyFresh(d, F, t, S)
  <2>1. AnswersFit(d, R("body", s.email)) => AnswersFit(d, Q("body", s.email))
    BY <1>1, Zenon
  <2>2. Retried(s, S, s.email) => Retried(t, S, s.email) \/ s.email \notin d.bodies
    <3>1. \A j \in S : Retries(s.tasks[j], s.email) => Retries(t.tasks[j], s.email) \/ s.email \notin d.bodies
      BY Zenon DEF Told
    <3> QED
      BY <3>1, Zenon DEF Retried
  <2>3. BodyFresh(d, F, s, S)
    BY DEF Fresh
  <2> HIDE DEF R, Q
  <2> QED
    BY <1>2, <1>8, <2>1, <2>2, <2>3 DEF BodyFresh, R, Q
<1> QED
  BY <1>3, <1>5, <1>9, <1>10, <1>11, <1>12, <1>13, Zenon DEF Fresh

-----------------------------------------------------------------------------
(* The steps of the store and of a materialization, which only answer calls. *)

\* An answer that is right tells its task, and so does a body that is missing: it is fetched.
LEMMA AnsweredIsTold ==
    ASSUME NEW d, NEW a, NEW b, AnsweredBy(a, b), b.phase = "answered" => Sound(d, b, b.res) /\ Accurate(d, b, b.res),
           b.phase = "fetching" => a.key \notin d.bodies
    PROVE  Told(d, a, b)
<1>1. \A f \in {"owner", "at", "key", "fresh", "view", "then"} : b[f] = a[f]
  BY DEF AnsweredBy, TaskFields
<1>2. b.at = a.at /\ b.key = a.key /\ b.phase \in {"answered", "fetching"}
  BY <1>1 DEF AnsweredBy
<1>3. \A e : Retries(a, e) => Retries(b, e) \/ e \notin d.bodies
  BY <1>2 DEF Retries
<1> QED
  BY <1>1, <1>3, Zenon DEF Told

\* The reads that are answered before a commit find what the store holds before it.
LEMMA EarlyAreTold ==
    ASSUME ViewInv, FreshInv, ~app.disposed, NEW early \in SUBSET Asked, NEW j \in DOMAIN app.tasks
    PROVE  Told(db, app.tasks[j], Answered(early).tasks[j])
<1> DEFINE a == app.tasks[j]
           t == Answered(early)
           b == t.tasks[j]
<1>1. (j \in early => AnsweredBy(a, b)) /\ (j \notin early => b = a)
  BY AnsweredEarly
<1>2. CASE j \notin early
  BY <1>1, <1>2 DEF Told
<1>3. CASE j \in early
  <2>1. a.phase = "asked" /\ a.at # "materialize" /\ GoodTask(a) /\ KnownTask(db, a) /\ IsStore(db)
    BY <1>3, FreshParts DEF Asked
  <2>2. a.at \in ReadingAts \ {"materialize"} /\ Knowable(db, a.at, a.key)
    BY <2>1 DEF GoodTask, KnownTask
  <2> DEFINE r == Found(a)
  <2>3. Accurate(db, a, r) /\ Sound(db, a, r)
    BY <2>1, <2>2, FoundIsAccurate
  <2>4. b = [a EXCEPT !.phase = "answered", !.res = r]
    <3>1. DOMAIN app = AppFields
      BY FreshParts
    <3> QED
      BY <1>3, <3>1 DEF Answered, AppFields
  <2> HIDE DEF r
  <2>5. b.phase = "answered" /\ b.res = r /\ b.at = a.at /\ b.key = a.key
    BY <2>1, <2>4 DEF GoodTask, TaskFields
  <2> HIDE DEF a, b
  <2>6. Accurate(db, b, r)
    BY <2>3, <2>5 DEF Accurate
  <2>7. Sound(db, b, r)
    <3>1. CASE b.at = "accounts"
      BY <2>3, <2>5, <3>1 DEF Sound
    <3>2. CASE b.at \in {"mailboxes", "statuses"}
      BY <2>3, <2>5, <3>2 DEF Sound
    <3>3. CASE b.at \in {"view", "emails", "body", "subscribe"}
      BY <2>3, <2>5, <3>3 DEF Sound
    <3> QED
      BY <2>2, <2>5, <3>1, <3>2, <3>3 DEF ReadingAts
  <2>8. Told(db, a, b)
    BY <1>1, <1>3, <2>5, <2>6, <2>7, AnsweredIsTold
  <2> QED
    BY <2>8 DEF a, b
<1> QED
  BY <1>2, <1>3

\* Calls that are told their answers leave a controller untouched that had only subscribed.
LEMMA UntouchedIsTold ==
    ASSUME NEW d, NEW s, Untouched(s), DOMAIN s = AppFields, NEW t, SameExcept(s, t, {"tasks"}),
           DOMAIN t.tasks = DOMAIN s.tasks, \A j \in DOMAIN s.tasks : Told(d, s.tasks[j], t.tasks[j])
    PROVE  Untouched(t)
<1>1. \A j \in DOMAIN t.tasks : t.tasks[j].at = "subscribe" /\ t.tasks[j].then = <<>>
  <2> TAKE j \in DOMAIN t.tasks
  <2>1. s.tasks[j].at = "subscribe" /\ s.tasks[j].then = <<>>
    BY DEF Untouched
  <2>2. t.tasks[j].at = s.tasks[j].at /\ t.tasks[j].then = s.tasks[j].then
    BY DEF Told
  <2> QED
    BY <2>1, <2>2
<1>2. SameExcept(MailState, t, {"tasks", "local", "loadState"})
  BY DEF Untouched, SameExcept, MailState, AppFields
<1> QED
  BY <1>1, <1>2 DEF Untouched

\* The hints of a commit that is heard of are sent; those of one that is not are lost.
LEMMA FlyingAfter ==
    ASSUME NEW hints, \E T : wire \in Seq(T), pending' = pending, wire' = IF listening' THEN Append(wire, hints) ELSE wire
    PROVE  /\ \E T : wire' \in Seq(T)
           /\ listening' => Flying' = Flying \cup hints
           /\ ~listening' => Flying' = Flying /\ wire' = wire
<1>1. PICK T : wire \in Seq(T)
  OBVIOUS
<1>2. CASE listening'
  <2>1. wire' = Append(wire, hints)
    BY <1>2
  <2> DEFINE U == T \cup {hints}
  <2>2. wire \in Seq(U) /\ hints \in U
    BY <1>1
  <2> HIDE DEF U
  <2>3. wire' \in Seq(U)
    BY <2>1, <2>2
  <2>4. /\ Len(wire) \in Nat /\ DOMAIN wire = 1..Len(wire) /\ DOMAIN wire' = 1..(Len(wire) + 1)
        /\ \A k \in DOMAIN wire : wire'[k] = wire[k]
        /\ wire'[Len(wire) + 1] = hints
    BY <2>1, <2>2
  <2>5. ASSUME NEW h, h \in Flying' PROVE h \in Flying \cup hints
    <3>1. CASE h \in pending'
      BY <3>1 DEF Flying
    <3>2. CASE \E k \in DOMAIN wire' : h \in wire'[k]
      <4>1. PICK k \in DOMAIN wire' : h \in wire'[k]
        BY <3>2
      <4>2. k = Len(wire) + 1 \/ k \in DOMAIN wire
        BY <2>4, <4>1
      <4>3. CASE k = Len(wire) + 1
        BY <2>4, <4>1, <4>3
      <4>4. CASE k \in DOMAIN wire
        <5>1. h \in wire[k]
          BY <2>4, <4>1, <4>4
        <5> QED
          BY <4>4, <5>1 DEF Flying
      <4> QED
        BY <4>2, <4>3, <4>4
    <3> QED
      BY <2>5, <3>1, <3>2 DEF Flying
  <2>6. ASSUME NEW h, h \in Flying \cup hints PROVE h \in Flying'
    <3>1. CASE h \in pending
      BY <3>1 DEF Flying
    <3>2. CASE \E k \in DOMAIN wire : h \in wire[k]
      <4>1. PICK k \in DOMAIN wire : h \in wire[k]
        BY <3>2
      <4>2. k \in DOMAIN wire' /\ h \in wire'[k]
        BY <2>4, <4>1
      <4> QED
        BY <4>2 DEF Flying
    <3>3. CASE h \in hints
      <4>1. Len(wire) + 1 \in DOMAIN wire' /\ h \in wire'[Len(wire) + 1]
        BY <2>4, <3>3
      <4> QED
        BY <4>1 DEF Flying
    <3> QED
      BY <2>6, <3>1, <3>2, <3>3 DEF Flying
  <2> QED
    BY <1>2, <2>3, <2>5, <2>6
<1>3. CASE ~listening'
  BY <1>1, <1>3 DEF Flying
<1> QED
  BY <1>2, <1>3

\* A commit keeps the controller fresh: it hears of all that the commit changed.
LEMMA ChangeFresh ==
    ASSUME ViewInv, FreshInv, NEW o, NEW early, Change(o, early), pending' = pending,
           Steps(db, o.db, o.hints), \A h \in o.hints : KnownHint(h), DOMAIN o.db.accounts \subseteq ToSet(AccountOrder),
           SameExcept(app, app', {"tasks"}), DOMAIN app'.tasks = DOMAIN app.tasks, GoodApp(app'),
           ~app.disposed => \A j \in DOMAIN app.tasks : Told(db, app.tasks[j], app'.tasks[j])
    PROVE  FreshInv'
<1>1. db' = o.db /\ (listening => listening') /\ wire' = IF listening' THEN Append(wire, o.hints) ELSE wire
  BY DEF Change
<1>2. \E T : wire \in Seq(T)
  BY DEF FreshInv
<1> DEFINE H == o.hints
           F == Flying
<1>3. /\ \E T : wire' \in Seq(T)
      /\ listening' => Flying' = F \cup H
      /\ ~listening' => Flying' = F /\ wire' = wire
  BY <1>1, <1>2, FlyingAfter
<1>4. \A h \in Flying' : KnownHint(h)
  BY <1>3 DEF FreshInv
<1>5. app'.disposed = app.disposed /\ DOMAIN app = AppFields
  BY FreshParts DEF SameExcept, AppFields
<1>6. ASSUME ~app.disposed PROVE (listening' \/ Unheard') /\ Fresh(db', Flying', app', DOMAIN app'.tasks)
  <2>1. Fresh(db, F, app, DOMAIN app.tasks) /\ IsStore(db) /\ (~listening => Unheard)
    BY <1>6, FreshParts
  <2>2. \A j \in DOMAIN app.tasks : Told(db, app.tasks[j], app'.tasks[j])
    BY <1>6
  <2>3. CASE listening
    <3> DEFINE s == app
               t == app'
               S == DOMAIN app.tasks
    <3>1. /\ Fresh(db, F, s, S) /\ DOMAIN s = AppFields /\ S = DOMAIN s.tasks /\ SameExcept(s, t, {"tasks"})
          /\ DOMAIN t.tasks = DOMAIN s.tasks /\ \A j \in S : Told(db, s.tasks[j], t.tasks[j])
      BY <1>5, <2>1, <2>2
    <3>2. Shown(t) /\ \A j \in DOMAIN t.tasks : GoodTask(t.tasks[j])
      BY DEF GoodApp
    <3> DEFINE e == o.db
    <3>3. Steps(db, e, H)
      OBVIOUS
    <3> HIDE DEF s, t, S, e, F, H
    <3>4. Fresh(db, F, t, S)
      BY <3>1, ToldIsFresh
    <3>5. S \in SUBSET DOMAIN t.tasks
      BY <3>1
    <3>6. Fresh(e, F \cup H, t, S)
      BY <2>1, <3>2, <3>3, <3>4, <3>5, StoreIsFresh
    <3> QED
      BY <1>1, <1>3, <2>3, <3>6 DEF s, t, S, e
  <2>4. CASE ~listening
    <3>1. Unheard
      BY <2>1, <2>4
    <3>2. Untouched(app')
      <4>1. Untouched(app)
        BY <3>1 DEF Unheard
      <4> DEFINE s == app
                 t == app'
      <4>2. /\ Untouched(s) /\ DOMAIN s = AppFields /\ SameExcept(s, t, {"tasks"})
            /\ DOMAIN t.tasks = DOMAIN s.tasks /\ \A j \in DOMAIN s.tasks : Told(db, s.tasks[j], t.tasks[j])
        BY <1>5, <2>2, <4>1
      <4> HIDE DEF s, t
      <4>3. Untouched(t)
        BY <4>2, UntouchedIsTold
      <4> QED
        BY <4>3 DEF t
    <3>3. Fresh(db', Flying', app', DOMAIN app'.tasks)
      BY <3>2, UntouchedIsFresh
    <3>4. ~listening' => Unheard'
      BY <1>3, <3>1, <3>2 DEF Unheard
    <3> QED
      BY <3>3, <3>4
  <2> QED
    BY <2>3, <2>4
<1>7. DOMAIN db'.accounts \subseteq ToSet(AccountOrder)
  BY <1>1
<1>8. ~app'.disposed => (listening' \/ Unheard') /\ Fresh(db', Flying', app', DOMAIN app'.tasks)
  BY <1>5, <1>6
<1> HIDE DEF F, H
<1> QED
  BY <1>3, <1>4, <1>7, <1>8, Zenon DEF FreshInv

\* A step that only tells calls their answers keeps the controller fresh.
LEMMA ToldQuietly ==
    ASSUME ViewInv, FreshInv, db' = db, wire' = wire, pending' = pending, listening' = listening,
           SameExcept(app, app', {"tasks"}), DOMAIN app'.tasks = DOMAIN app.tasks,
           ~app.disposed => \A j \in DOMAIN app.tasks : Told(db, app.tasks[j], app'.tasks[j])
    PROVE  FreshInv'
<1>1. app'.disposed = app.disposed /\ DOMAIN app = AppFields
  BY FreshParts DEF SameExcept, AppFields
<1> DEFINE F == Flying
           s == app
           t == app'
           S == DOMAIN app.tasks
<1>2. /\ DOMAIN s = AppFields /\ S = DOMAIN s.tasks /\ SameExcept(s, t, {"tasks"}) /\ DOMAIN t.tasks = DOMAIN s.tasks
      /\ ~s.disposed => \A j \in S : Told(db, s.tasks[j], t.tasks[j])
  BY <1>1
<1> HIDE DEF F, s, t, S
<1>3. ~s.disposed /\ Fresh(db, F, s, S) => Fresh(db, F, t, S)
  BY <1>2, ToldIsFresh
<1>4. ~app.disposed /\ Fresh(db, Flying, app, DOMAIN app.tasks) => Fresh(db, Flying, app', DOMAIN app'.tasks)
  BY <1>3 DEF F, s, t, S
<1>5. ~s.disposed /\ Untouched(s) => Untouched(t)
  BY <1>2, UntouchedIsTold
<1>6. ~app.disposed /\ ~listening => Untouched(app')
  BY <1>5, FreshParts DEF s, t
<1> QED
  BY <1>1, <1>4, <1>6, QuietStep

\* A commit of another part of the application tells the controller of all it changed.
LEMMA CommitFresh == ASSUME ViewInv, FreshInv, Commit PROVE FreshInv'
<1>1. PICK w \in Writes, early \in SUBSET Asked : Change(Perform(db, w.op, w.arg), early) /\ app' = Answered(early)
  BY DEF Commit
<1>2. pending' = pending
  BY DEF Commit
<1>3. IsWrite(w.op) /\ IsArgument(w.op, w.arg) /\ (w.op = "registerAccount" => w.arg.key \in ToSet(AccountOrder))
  BY WritesAssumption, AccountOrderAssumption
<1>4. IsStore(db) /\ DOMAIN db.accounts \subseteq ToSet(AccountOrder)
  BY FreshParts
<1> DEFINE o == Perform(db, w.op, w.arg)
           P == ToSet(AccountOrder)
<1>5. /\ Steps(db, o.db, o.hints)
      /\ \A a \in DOMAIN o.db.accounts : a \in DOMAIN db.accounts \/ (w.op = "registerAccount" /\ a = w.arg.key)
  BY <1>3, <1>4, PerformSteps
<1>6. \A h \in o.hints : KnownHint(h)
  BY <1>3, PerformHints
<1>7. DOMAIN o.db.accounts \subseteq P
  <2> HIDE DEF o, P
  <2> QED
    BY <1>3, <1>4, <1>5 DEF P
<1>8. SameExcept(app, app', {"tasks"}) /\ DOMAIN app'.tasks = DOMAIN app.tasks
  BY <1>1, AnsweredEarly
<1>9. ~app.disposed => \A j \in DOMAIN app.tasks : Told(db, app.tasks[j], app'.tasks[j])
  BY <1>1, EarlyAreTold
<1>10. GoodApp(app')
  <2>1. ViewInv'
    BY CommitKeeps
  <2> QED
    BY <2>1 DEF ViewInv
<1>11. Change(o, early)
  BY <1>1
<1> HIDE DEF o, P
<1> QED
  BY <1>2, <1>5, <1>6, <1>7, <1>8, <1>9, <1>10, <1>11, ChangeFresh DEF P

\* A body that is not in the cache is fetched next: its attempt no longer speaks for the cache.
LEMMA ReadCachedBodyFresh == ASSUME ViewInv, FreshInv, NEW i \in DOMAIN app.tasks, ReadCachedBody(i) PROVE FreshInv'
<1> DEFINE a == app.tasks[i]
           found == Read(db, Query("body", a.key)).kind
           phase == IF found = "absent" THEN "fetching" ELSE "answered"
           told == CASE found = "absent" -> None
                     [] found = "present" -> Answer("ok", None)
                     [] found = "ownerAbsent" -> Answer("emailAbsent", None)
           b == [a EXCEPT !.phase = phase, !.res = told]
<1>1. /\ app' = [app EXCEPT !.tasks[i].phase = phase, !.tasks[i].res = told]
      /\ a.phase = "asked" /\ a.at = "materialize"
      /\ db' = db /\ wire' = wire /\ pending' = pending /\ listening' = listening
  BY DEF ReadCachedBody
<1>2. found \in {"absent", "present", "ownerAbsent"} /\ (found = "absent" => a.key \notin db.bodies)
  <2> DEFINE k == a.key
             q == Query("body", k)
  <2>1. q.kind = "body" /\ q.key = k
    BY DEF Query
  <2>2. found = Read(db, q).kind
    OBVIOUS
  <2> HIDE DEF q, k, found
  <2>3. Read(db, q) = OwnedBy(k \in DOMAIN db.emails, k \in db.bodies, None)
    BY <2>1 DEF Read
  <2>4. Read(db, q).kind = IF k \notin DOMAIN db.emails THEN "ownerAbsent" ELSE IF k \in db.bodies THEN "present" ELSE "absent"
    BY <2>3 DEF OwnedBy, Answer
  <2> QED
    BY <2>2, <2>4 DEF k
<1>3. phase = "answered" => told.kind \in {"ok", "emailAbsent"}
  BY <1>2 DEF Answer
<1>4. phase \in {"fetching", "answered"} /\ (phase = "fetching" => a.key \notin db.bodies)
  BY <1>2
<1> HIDE DEF phase, told, found
<1>5. GoodTask(a) /\ DOMAIN app = AppFields
  BY FreshParts
<1>6. app' = [app EXCEPT !.tasks[i] = b]
  BY <1>1, <1>5 DEF AppFields, GoodTask, TaskFields
<1>7. /\ DOMAIN b = TaskFields /\ \A f \in TaskFields \ {"phase", "res"} : b[f] = a[f]
      /\ b.at = "materialize" /\ b.key = a.key /\ b.phase = phase /\ b.res = told
  BY <1>1, <1>5 DEF GoodTask, TaskFields
<1> HIDE DEF b
<1>8. Told(db, a, b)
  <2>1. AnsweredBy(a, b)
    BY <1>1, <1>4, <1>7 DEF AnsweredBy, GoodAnswer
  <2>2. b.phase = "answered" => Sound(db, b, b.res) /\ Accurate(db, b, b.res)
    BY <1>3, <1>7 DEF Sound, Accurate
  <2>3. b.phase = "fetching" => a.key \notin db.bodies
    BY <1>4, <1>7
  <2> HIDE DEF a
  <2> QED
    BY <2>1, <2>2, <2>3, AnsweredIsTold
<1>9. /\ SameExcept(app, app', {"tasks"}) /\ DOMAIN app'.tasks = DOMAIN app.tasks
      /\ app'.tasks[i] = b /\ \A j \in DOMAIN app.tasks \ {i} : app'.tasks[j] = app.tasks[j]
  BY <1>5, <1>6 DEF SameExcept, AppFields
<1>10. \A j \in DOMAIN app.tasks : Told(db, app.tasks[j], app'.tasks[j])
  BY <1>8, <1>9 DEF Told
<1> QED
  BY <1>1, <1>5, <1>9, <1>10, ToldQuietly DEF a

\* A body that is fetched and cached: the controller hears of it; one whose Email is gone is not cached.
LEMMA FetchBodyFresh == ASSUME ViewInv, FreshInv, NEW i \in DOMAIN app.tasks, FetchBody(i) PROVE FreshInv'
<1> DEFINE o == CacheEmailBody(db, app.tasks[i].key)
           told == Answer(IF o.result = "ok" THEN "ok" ELSE "emailAbsent", None)
<1>1. PICK early \in SUBSET Asked :
         /\ app' = [Answered(early) EXCEPT !.tasks[i].phase = "answered", !.tasks[i].res = told]
         /\ IF o.result = "ok" THEN Change(o, early) ELSE early = {} /\ UNCHANGED <<db, listening, wire>>
  BY DEF FetchBody
<1>2. app.tasks[i].phase = "fetching" /\ app.tasks[i].at = "materialize" /\ pending' = pending
  BY DEF FetchBody, ViewInv, GoodApp, GoodTask
<1>3. told.kind \in {"ok", "emailAbsent"}
  BY DEF Answer
<1>4. o.result = "ok" =>
         /\ Steps(db, o.db, o.hints) /\ \A h \in o.hints : KnownHint(h)
         /\ o.db.accounts = db.accounts
  BY CacheSteps, FreshParts
<1> HIDE DEF o, told
<1> DEFINE t == Answered(early)
           a == app.tasks[i]
           b == [a EXCEPT !.phase = "answered", !.res = told]
<1>5. /\ SameExcept(app, t, {"tasks"}) /\ DOMAIN t.tasks = DOMAIN app.tasks
      /\ \A j \in DOMAIN app.tasks : j \notin early => t.tasks[j] = app.tasks[j]
  BY AnsweredEarly
<1>6. i \notin early /\ GoodTask(a) /\ DOMAIN app = AppFields
  BY <1>2, FreshParts DEF Asked
<1>7. t.tasks[i] = a /\ DOMAIN a = TaskFields
  BY <1>5, <1>6 DEF GoodTask
<1>8. ~app.disposed => \A j \in DOMAIN app.tasks : Told(db, app.tasks[j], t.tasks[j])
  BY EarlyAreTold
<1> HIDE DEF t
<1>9. app' = [t EXCEPT !.tasks[i] = b]
  BY <1>1, <1>5, <1>6, <1>7 DEF SameExcept, AppFields, TaskFields, t
<1>10. /\ DOMAIN b = TaskFields /\ \A f \in TaskFields \ {"phase", "res"} : b[f] = a[f]
       /\ b.at = "materialize" /\ b.phase = "answered" /\ b.res = told
  BY <1>2, <1>7 DEF TaskFields
<1> HIDE DEF b
<1>11. Told(db, a, b)
  <2>1. AnsweredBy(a, b)
    BY <1>2, <1>10 DEF AnsweredBy, GoodAnswer
  <2>2. Sound(db, b, b.res) /\ Accurate(db, b, b.res)
    BY <1>3, <1>10 DEF Sound, Accurate
  <2>3. b.phase # "fetching"
    BY <1>10
  <2> HIDE DEF a
  <2> QED
    BY <2>1, <2>2, <2>3, AnsweredIsTold
<1>12. /\ SameExcept(app, app', {"tasks"}) /\ DOMAIN app'.tasks = DOMAIN app.tasks
       /\ app'.tasks[i] = b /\ \A j \in DOMAIN app.tasks \ {i} : app'.tasks[j] = t.tasks[j]
  BY <1>5, <1>6, <1>9 DEF SameExcept, AppFields
<1>13. ~app.disposed => \A j \in DOMAIN app.tasks : Told(db, app.tasks[j], app'.tasks[j])
  BY <1>8, <1>11, <1>12
<1>14. GoodApp(app')
  <2>1. ViewInv'
    BY FetchBodyKeeps
  <2> QED
    BY <2>1 DEF ViewInv
<1>15. CASE o.result = "ok"
  <2>1. Change(o, early) /\ DOMAIN o.db.accounts \subseteq ToSet(AccountOrder)
    BY <1>1, <1>4, <1>15, FreshParts
  <2> QED
    BY <1>2, <1>4, <1>12, <1>13, <1>14, <1>15, <2>1, ChangeFresh
<1>16. CASE o.result # "ok"
  <2>1. db' = db /\ wire' = wire /\ listening' = listening
    BY <1>1, <1>16
  <2> QED
    BY <1>2, <1>6, <1>12, <1>13, <2>1, ToldQuietly
<1> QED
  BY <1>15, <1>16

-----------------------------------------------------------------------------
(* Once quiet, what is shown is what the store holds.                       *)

\* A controller that has only begun to subscribe shows nothing yet.
LEMMA FreshInit == Init => FreshInv
<1> SUFFICES ASSUME Init PROVE FreshInv
  OBVIOUS
<1>1. app = Await(Spawn(MailState, "initialize"), NextTask(MailState), "subscribe", NoId)
  BY MailStateIsGood DEF Init
<1>2. DOMAIN MailState = AppFields /\ DOMAIN MailState.tasks = {}
  BY DEF MailState, AppFields, Empty
<1>3. Untouched(MailState)
  BY <1>2 DEF Untouched, SameExcept
<1> DEFINE u == MailState
<1>4. Untouched(u) /\ DOMAIN u = AppFields /\ \A j \in DOMAIN u.tasks : DOMAIN u.tasks[j] = TaskFields
  BY <1>2, <1>3
<1> HIDE DEF u
<1>5. Untouched(Await(Spawn(u, "initialize"), NextTask(u), "subscribe", NoId))
  BY <1>4, SubscribedIsUntouched
<1>6. Untouched(app)
  BY <1>1, <1>5 DEF u
<1>7. Fresh(db, Flying, app, DOMAIN app.tasks)
  BY <1>6, UntouchedIsFresh
<1>8. wire = <<>> /\ pending = {} /\ Flying = {}
  BY DEF Init, Flying
<1>9. DOMAIN db.accounts \subseteq ToSet(AccountOrder)
  BY AccountOrderAssumption DEF Init
<1>10. \E T : wire \in Seq(T)
  <2> DEFINE T == {}
  <2>1. wire \in Seq(T)
    BY <1>8
  <2> HIDE DEF T
  <2> QED
    BY <2>1
<1> QED
  BY <1>6, <1>7, <1>8, <1>9, <1>10 DEF FreshInv, Unheard

\* A quiet controller that missed nothing shows what the store holds: no hint and no read excuses it.
LEMMA FreshWhenQuiet == ViewInv /\ FreshInv => QuietMeansFresh
<1> SUFFICES ASSUME ViewInv, FreshInv, Quiet, app.subscribed, app.missed = {}
    PROVE  /\ app.accounts = DOMAIN db.accounts
           /\ app.account # None =>
                 /\ app.mailboxes = Owned(db.mailboxes, app.account)
                 /\ app.account \in DOMAIN app.statuses
                 /\ app.statuses[app.account] = ValuesOf(db.mutations, app.account)
           /\ app.loadState = "notCached" /\ app.mailbox # NoId => app.mailbox \notin DOMAIN db.views
           /\ app.loadState = "ready" /\ app.mailbox # NoId =>
                 /\ app.view = ViewsOf(db, app.mailbox)
                 /\ EmailsOf(db, app.emails)
                 /\ app.bodyState = "cached" => app.email \in db.bodies
                 /\ app.bodyState = "notCached" /\ ~app.bodyError => app.email \notin db.bodies
  BY DEF QuietMeansFresh, ViewsOf, EmailsOf
<1> DEFINE D == DOMAIN app.tasks
<1>1. D = {} /\ Flying = {} /\ ~app.disposed
  BY DEF Quiet, Empty, Flying
<1>2. Fresh(db, {}, app, D)
  BY <1>1, FreshParts
<1> HIDE DEF D
<1>3. \A q : ~Due({}, q)
  BY DEF Due
<1>4. \A at, key : Reads(app.tasks, D, at, key) = {}
  BY <1>1 DEF Reads
<1>5. ~Accounting(app, D) /\ ~Widening(app, D)
  BY <1>4 DEF Accounting, Widening
<1>6. /\ ~Owed(app, app.account)
      /\ \A e : ~Retried(app, D, e)
  BY <1>1 DEF Owed, Retried, D
<1>7. app.accounts = DOMAIN db.accounts
  BY <1>2, <1>3, <1>5 DEF Fresh, AccountsFresh
<1>8. app.account # None => app.mailboxes = Owned(db.mailboxes, app.account)
  BY <1>2, <1>3, <1>4, <1>5 DEF Fresh, MailboxesFresh
<1>9. app.account # None =>
         /\ app.account \in DOMAIN app.statuses
         /\ app.statuses[app.account] = ValuesOf(db.mutations, app.account)
  BY <1>2, <1>3, <1>4, <1>5, <1>6 DEF Fresh, StatusesFresh
<1>10. app.mailbox # NoId =>
          /\ app.loadState = "notCached" => app.mailbox \notin DOMAIN db.views
          /\ app.loadState = "ready" => app.view = ViewsOf(db, app.mailbox) /\ EmailsOf(db, app.emails)
  BY <1>2, <1>3, <1>5 DEF Fresh, WindowFresh
<1>11. app.bodyState = "cached" => app.email \in db.bodies
  BY <1>2 DEF Fresh, KnownStores
<1>12. app.loadState = "ready" /\ app.mailbox # NoId /\ app.bodyState = "notCached" /\ ~app.bodyError => app.email \notin db.bodies
  <2>1. app.bodyState = "notCached" => app.email # NoId
    BY <1>2 DEF Fresh, KnownStores
  <2>2. BodyFresh(db, {}, app, D)
    BY <1>2 DEF Fresh
  <2> QED
    BY <1>3, <1>5, <1>6, <2>1, <2>2 DEF BodyFresh
<1> QED
  BY <1>7, <1>8, <1>9, <1>10, <1>11, <1>12

\* Once every call has ended and every hint was used, the screen shows what the store holds, however
\* commits, hints and reads overlapped (application.ts): no change of the store falls between a read
\* that was answered too early and a hint that was sent before anyone listened, or that is not covered.
THEOREM QuietMeansFreshHolds == Spec => []QuietMeansFresh
<1>1. Init => FreshInv
  BY FreshInit
<1>2. ViewInv /\ FreshInv /\ [Next]_vars => FreshInv'
  <2> SUFFICES ASSUME ViewInv, FreshInv, [Next]_vars PROVE FreshInv'
    OBVIOUS
  <2>1. ASSUME NEW i \in DOMAIN app.tasks, ReadCachedBody(i) \/ FetchBody(i) \/ ResumeTask(i) \/ ResumeFails(i) PROVE FreshInv'
    BY <2>1, ReadCachedBodyFresh, FetchBodyFresh, ResumeTaskFresh, ResumeFailsFresh
  <2>2. CASE Commit
    BY <2>2, CommitFresh
  <2>3. CASE Deliver
    BY <2>3, DeliverFresh
  <2>4. CASE FlushInvalidations
    BY <2>4, FlushFresh
  <2>5. ASSUME NEW a \in app.accounts, SelectAccount(a) PROVE FreshInv'
    BY <2>5, SelectAccountFresh
  <2>6. ASSUME NEW m \in app.mailboxes, SelectMailbox(m) PROVE FreshInv'
    BY <2>6, SelectMailboxFresh
  <2>7. ASSUME NEW e \in DOMAIN app.emails, SelectEmail(e) PROVE FreshInv'
    BY <2>7, SelectEmailFresh
  <2>8. CASE RetryBody \/ Retry \/ Dispose
    BY <2>8, RetryBodyFresh, RetryFresh, DisposeFresh
  <2>9. CASE UNCHANGED vars
    <3>1. db' = db /\ wire' = wire /\ pending' = pending /\ listening' = listening /\ app' = app
      BY <2>9 DEF vars
    <3> QED
      BY <3>1, FreshParts, QuietStep
  <2> QED
    BY <2>1, <2>2, <2>3, <2>4, <2>5, <2>6, <2>7, <2>8, <2>9, Zenon DEF Next
<1>3. ViewInv /\ FreshInv => QuietMeansFresh
  BY FreshWhenQuiet
<1> QED
  BY <1>1, <1>2, <1>3, ViewHolds, PTL DEF Spec

=============================================================================
