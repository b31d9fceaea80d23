------------------------------ MODULE LocalStore ------------------------------
(***************************************************************************)
(* The local engine behind the three ports of the application, as its      *)
(* executable reference implements them (adapters/memory): the state, what *)
(* ReadRepository answers, what each write of SyncPort changes, refuses    *)
(* and announces through LocalChangeSource.                                *)
(*                                                                         *)
(* A store is a record.  A write is an operator from a store and its       *)
(* argument to an outcome: the new store, the hints published and whether  *)
(* it succeeded.  Emails are functions from the ids present to their       *)
(* keywords; bodies and attachment lists are only present or not; lists    *)
(* without duplicates are sets (a set cannot hold the duplicates that      *)
(* hasDuplicates refuses).                                                 *)
(***************************************************************************)
EXTENDS DomainCodecs

CONSTANT InitialDb      \* the store at the start
VARIABLE db             \* the committed store

\* Drops the keys in S from a map; adds or replaces the entries of another.
Without(f, S) == [k \in DOMAIN f \ S |-> f[k]]
With(f, g) == [k \in DOMAIN f \cup DOMAIN g |-> IF k \in DOMAIN g THEN g[k] ELSE f[k]]
Entry(k, v) == [x \in {k} |-> v]
Empty == [x \in {} |-> x]

Owned(S, a) == {x \in S : x.accountKey = a}

MemoryState ==
    [accounts |-> Empty, mailboxes |-> {}, identities |-> {}, emails |-> Empty, memberships |-> Empty,
     bodies |-> {}, attachments |-> {}, views |-> Empty, cursors |-> Empty, mutations |-> Empty]

-----------------------------------------------------------------------------
(* ReadRepository.  A query names what it reads; the answer tells a missing *)
(* owner from a missing value.                                             *)

Query(kind, key) == [kind |-> kind, key |-> key]
Answer(kind, value) == [kind |-> kind, value |-> value]

\* The store's map that answers a query about one cached value of an owner.
OwnedBy(owned, present, value) ==
    IF ~owned THEN Answer("ownerAbsent", None)
    ELSE IF present THEN Answer("present", value) ELSE Answer("absent", None)

ValuesOf(f, a) == {f[k] : k \in {x \in DOMAIN f : f[x].accountKey = a}}

Read(s, q) ==
    LET k == q.key IN
    CASE q.kind = "accounts"    -> Answer("present", DOMAIN s.accounts)
      [] q.kind = "account"     -> OwnedBy(TRUE, k \in DOMAIN s.accounts, None)
      [] q.kind = "mailboxes"   -> OwnedBy(k \in DOMAIN s.accounts, TRUE, Owned(s.mailboxes, k))
      [] q.kind = "identities"  -> OwnedBy(k \in DOMAIN s.accounts, TRUE, Owned(s.identities, k))
      [] q.kind = "email"       -> OwnedBy(TRUE, k \in DOMAIN s.emails, IF k \in DOMAIN s.emails THEN s.emails[k] ELSE {})
      [] q.kind = "memberships" -> OwnedBy(k \in DOMAIN s.emails, TRUE,
                                           IF k \in DOMAIN s.memberships THEN s.memberships[k] ELSE {})
      [] q.kind = "body"        -> OwnedBy(k \in DOMAIN s.emails, k \in s.bodies, None)
      [] q.kind = "attachments" -> OwnedBy(k \in DOMAIN s.emails, k \in s.attachments, None)
      [] q.kind = "view"        -> OwnedBy(k \in s.mailboxes, k \in DOMAIN s.views,
                                           IF k \in DOMAIN s.views THEN s.views[k] ELSE None)
      [] q.kind = "cursor"      -> OwnedBy(k[1] \in DOMAIN s.accounts, k \in DOMAIN s.cursors,
                                           IF k \in DOMAIN s.cursors THEN s.cursors[k] ELSE None)
      [] q.kind = "mutations"   -> OwnedBy(k \in DOMAIN s.accounts, TRUE, ValuesOf(s.mutations, k))

-----------------------------------------------------------------------------
(* LocalChangeSource: what a hint invalidates is settled by its reader. *)

Hint(kind, key) == [kind |-> kind, key |-> key]

Committed(s, hints) == [db |-> s, hints |-> hints, result |-> "ok"]
Conflict(s) == [db |-> s, hints |-> {}, result |-> "conflict"]
Thrown(s) == [db |-> s, hints |-> {}, result |-> "unexpected"]

-----------------------------------------------------------------------------
(* SyncPort: accounts and collections. *)

RegisterAccount(s, account) ==
    IF account.key \in DOMAIN s.accounts
    THEN IF s.accounts[account.key] = account.remoteRef
         THEN Committed(s, {Hint("accounts", None)})
         ELSE Conflict(s)
    ELSE Committed([s EXCEPT !.accounts = With(@, Entry(account.key, account.remoteRef))],
                   {Hint("accounts", None)})

\* expected is None for "absent", or the state the cursor must have.
CursorPreconditionHolds(s, c) ==
    LET key == <<c.account, c.kind>> IN
    IF c.expected = None
    THEN key \notin DOMAIN s.cursors
    ELSE key \in DOMAIN s.cursors /\ s.cursors[key] = c.expected

\* validateEmailCommit, validateMailboxCommit and validateIdentityCommit.
ValidateCommit(c) ==
    /\ \A id \in DOMAIN c.changed : id.accountKey = c.account
    /\ c.mode = "delta" => /\ \A id \in c.destroyed : id.accountKey = c.account
                           /\ DOMAIN c.changed \cap c.destroyed = {}

\* What a commit removes before it writes its records.
Dropped(present, c) == IF c.mode = "replace" THEN Owned(present, c.account) ELSE c.destroyed

CommitEmails(s, c) ==
    LET drop == Dropped(DOMAIN s.emails, c) IN
    [s EXCEPT !.emails = With(Without(@, drop), [id \in DOMAIN c.changed |-> c.changed[id].keywords]),
              !.memberships = With(Without(@, drop), [id \in DOMAIN c.changed |-> c.changed[id].mailboxes])]

CommitMailboxes(s, c) ==
    [s EXCEPT !.mailboxes = (@ \ Dropped(@, c)) \cup DOMAIN c.changed]

CommitIdentities(s, c) ==
    [s EXCEPT !.identities = (@ \ Dropped(@, c)) \cup DOMAIN c.changed]

CommitHints(c) ==
    {Hint("syncCursor", <<c.account, c.kind>>)} \cup
    CASE c.kind = "email"    -> {Hint("emails", c.account), Hint("emailMemberships", c.account)}
      [] c.kind = "mailbox"  -> {Hint("mailboxes", c.account)}
      [] c.kind = "identity" -> {Hint("identities", c.account)}

ApplyCollectionSync(s, c) ==
    IF /\ c.account \in DOMAIN s.accounts
       /\ CursorPreconditionHolds(s, c)
       /\ ValidateCommit(c)
    THEN LET t == CASE c.kind = "email"    -> CommitEmails(s, c)
                    [] c.kind = "mailbox"  -> CommitMailboxes(s, c)
                    [] c.kind = "identity" -> CommitIdentities(s, c)
         IN  Committed([t EXCEPT !.cursors = With(@, Entry(<<c.account, c.kind>>, c.next))], CommitHints(c))
    ELSE Conflict(s)

-----------------------------------------------------------------------------
(* SyncPort: the caches. *)

CacheEmailBody(s, id) ==
    IF id \in DOMAIN s.emails
    THEN Committed([s EXCEPT !.bodies = @ \cup {id}], {Hint("emailBody", id)})
    ELSE Conflict(s)

ReplaceAttachmentRefs(s, id) ==
    IF id \in DOMAIN s.emails
    THEN Committed([s EXCEPT !.attachments = @ \cup {id}], {Hint("attachmentRefs", id)})
    ELSE Conflict(s)

\* cloneView builds the view anew: a view that is not valid is never stored.
ReplaceMailboxView(s, v) ==
    CASE v.mailboxId \notin s.mailboxes -> Conflict(s)
      [] v.mailboxId \in s.mailboxes /\ MailboxView(v) = {} -> Thrown(s)
      [] OTHER -> Committed([s EXCEPT !.views = With(@, Entry(v.mailboxId, v))],
                            {Hint("mailboxView", v.mailboxId)})

-----------------------------------------------------------------------------
(* SyncPort: the mutations. *)

MutationKey(v) == <<v.accountKey, v.mutationId>>
Staged(s, v) == With(s.mutations, Entry(MutationKey(v), v))

CanStage(s, v) == v.accountKey \in DOMAIN s.accounts /\ MutationKey(v) \notin DOMAIN s.mutations

StageSendMutation(s, v) ==
    IF CanStage(s, v)
    THEN Committed([s EXCEPT !.mutations = Staged(s, v)], {Hint("pendingMutations", v.accountKey)})
    ELSE Conflict(s)

\* Mutant: the optimistic keywords are not announced.
ApplyOptimisticKeywordMutationSilent(s, v) ==
    IF CanStage(s, v) /\ v.emailId \in DOMAIN s.emails
    THEN Committed([s EXCEPT !.emails[v.emailId] = (@ \cup v.change.add) \ v.change.remove,
                             !.mutations = Staged(s, v)],
                   {Hint("pendingMutations", v.accountKey)})
    ELSE Conflict(s)

ApplyOptimisticKeywordMutation(s, v) ==
    IF CanStage(s, v) /\ v.emailId \in DOMAIN s.emails
    THEN Committed([s EXCEPT !.emails[v.emailId] = (@ \cup v.change.add) \ v.change.remove,
                             !.mutations = Staged(s, v)],
                   {Hint("emails", v.accountKey), Hint("pendingMutations", v.accountKey)})
    ELSE Conflict(s)

ApplyOptimisticMailboxMembershipMutation(s, v) ==
    LET add    == ToSet(v.change.add)
        remove == ToSet(v.change.remove)
        next   == (s.memberships[v.emailId] \ remove) \cup add
    IN  IF /\ CanStage(s, v)
           /\ v.emailId \in DOMAIN s.emails
           /\ add \cup remove \subseteq s.mailboxes
           /\ next # {}
        THEN Committed([s EXCEPT !.memberships[v.emailId] = next, !.mutations = Staged(s, v)],
                       {Hint("emailMemberships", v.accountKey), Hint("pendingMutations", v.accountKey)})
        ELSE Conflict(s)

MutationsEqual(v, w) == v = w

SameImmutableMutation(v, w) ==
    MutationsEqual([v EXCEPT !.lifecycle = PendingLifecycle], [w EXCEPT !.lifecycle = PendingLifecycle])

ValidTransition(from, to) ==
    \/ from.status = "pending" /\ to.status = "inFlight" /\ to.attemptCount = 1
    \/ from.status = "retrying" /\ to.status = "inFlight" /\ to.attemptCount = from.attemptCount + 1
    \/ /\ from.status = "inFlight"
       /\ to.status \in {"retrying", "confirmed", "failedTerminal"}
       /\ to.attemptCount = from.attemptCount

\* Mutant: the lifecycle of the expected row is not compared.
ReplacePendingMutationIfSame(s, expected, next) ==
    LET key == MutationKey(expected) IN
    IF /\ key \in DOMAIN s.mutations
       /\ SameImmutableMutation(s.mutations[key], expected)
       /\ SameImmutableMutation(expected, next)
       /\ ValidTransition(expected.lifecycle, next.lifecycle)
    THEN Committed([s EXCEPT !.mutations[key] = next], {Hint("pendingMutations", expected.accountKey)})
    ELSE Conflict(s)

ReplacePendingMutationIfCurrent(s, expected, next) ==
    LET key == MutationKey(expected) IN
    IF /\ key \in DOMAIN s.mutations
       /\ MutationsEqual(s.mutations[key], expected)
       /\ SameImmutableMutation(expected, next)
       /\ ValidTransition(expected.lifecycle, next.lifecycle)
    THEN Committed([s EXCEPT !.mutations[key] = next], {Hint("pendingMutations", expected.accountKey)})
    ELSE Conflict(s)

RemoveConfirmedMutation(s, key) ==
    IF key \in DOMAIN s.mutations /\ s.mutations[key].lifecycle.status = "confirmed"
    THEN Committed([s EXCEPT !.mutations = Without(@, {key})], {Hint("pendingMutations", key[1])})
    ELSE Conflict(s)

-----------------------------------------------------------------------------

\* A store that this engine may have written: rows under their own keys, and valid.
IsStore(s) ==
    /\ DOMAIN s = DOMAIN MemoryState
    /\ \A m \in DOMAIN s.views : s.views[m] \in MailboxViews /\ s.views[m].mailboxId = m
    /\ \A k \in DOMAIN s.mutations : s.mutations[k] \in PendingMutations /\ MutationKey(s.mutations[k]) = k

ASSUME StoreAssumption == IsStore(InitialDb)

StagingOps == {"stageSendMutation", "applyOptimisticKeywordMutation", "applyOptimisticMailboxMembershipMutation"}

IsWrite(op) ==
    op \in StagingOps \cup {"registerAccount", "applyCollectionSync", "cacheEmailBody", "replaceAttachmentRefs",
                           "replaceMailboxView", "replacePendingMutationIfCurrent", "removeConfirmedMutation"}

IsCommit(c) ==
    /\ DOMAIN c = {"account", "kind", "mode", "expected", "next", "changed", "destroyed"}
    /\ c.account \in STRING
    /\ c.kind \in {"email", "mailbox", "identity"}
    /\ c.mode \in {"replace", "delta"}
    /\ IsFiniteSet(DOMAIN c.changed) /\ IsFiniteSet(c.destroyed)
    /\ DOMAIN c.changed \cup c.destroyed \subseteq ScopedIds

\* The arguments each write is called with: values the domain constructors made.
IsArgument(op, arg) ==
    CASE op = "registerAccount" -> arg \in [key : STRING, remoteRef : STRING]
      [] op = "applyCollectionSync" -> IsCommit(arg)
      [] op \in {"cacheEmailBody", "replaceAttachmentRefs"} -> arg \in ScopedIds
      [] op = "replaceMailboxView" -> arg \in ViewInputs
      [] op = "stageSendMutation" -> arg \in SendMutations
      [] op = "applyOptimisticKeywordMutation" -> arg \in KeywordMutations
      [] op = "applyOptimisticMailboxMembershipMutation" -> arg \in MailboxMembershipMutations
      [] op = "replacePendingMutationIfCurrent" -> arg \in [expected : PendingMutations, next : PendingMutations]
      [] op = "removeConfirmedMutation" -> arg \in STRING \X STRING
-----------------------------------------------------------------------------

\* One call of the port.
Perform(s, op, arg) ==
    CASE op = "registerAccount" -> RegisterAccount(s, arg)
      [] op = "applyCollectionSync" -> ApplyCollectionSync(s, arg)
      [] op = "cacheEmailBody" -> CacheEmailBody(s, arg)
      [] op = "replaceAttachmentRefs" -> ReplaceAttachmentRefs(s, arg)
      [] op = "replaceMailboxView" -> ReplaceMailboxView(s, arg)
      [] op = "stageSendMutation" -> StageSendMutation(s, arg)
      [] op = "applyOptimisticKeywordMutation" -> ApplyOptimisticKeywordMutation(s, arg)
      [] op = "applyOptimisticMailboxMembershipMutation" -> ApplyOptimisticMailboxMembershipMutation(s, arg)
      [] op = "replacePendingMutationIfCurrent" ->
            ReplacePendingMutationIfCurrent(s, arg.expected, arg.next)
      [] op = "removeConfirmedMutation" -> RemoveConfirmedMutation(s, arg)

=============================================================================
