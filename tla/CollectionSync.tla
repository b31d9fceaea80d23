---------------------------- MODULE CollectionSync ----------------------------
(***************************************************************************)
(* The synchronization of one account over JMAP: Coordinator.syncAccount     *)
(* (sync/coordinator.ts) with the transitions JmapRemoteMail builds          *)
(* (remote/jmap/jmap-remote-mail.ts), the local commits of engine.rs, and    *)
(* the body cache that lives beside the Email projection                     *)
(* (sync/body-materializer.ts).                                             *)
(*                                                                         *)
(* Every remote request and every local transaction is one action; several  *)
(* syncs of the account may overlap (a Refresh of the user, and the refresh *)
(* a keyword reconciliation asks for).                                      *)
(*                                                                         *)
(* Identities are left out: they go through the same code as Mailboxes (one   *)
(* request, a replacement, their own cursor) and nothing here reads them.     *)
(*                                                                         *)
(* Data.  A collection's remote state is the number of changes made to it.   *)
(* What an Email looks like is named by the change that gave it that look:   *)
(* its version, 0 for an Email that does not exist.                         *)
(***************************************************************************)
EXTENDS Integers, FiniteSets

CONSTANTS
    Emails, Mailboxes,
    Syncs,          \* syncAccount() calls
    Fetches,        \* body materializations
    None,
    BatchSize,      \* Emails of one Email/get (PAGE_SIZE in the code)
    MaxDeltaPages,  \* pages of Email/changes a delta may have
    MaxChanges,     \* bound on the changes of the Email collection
    MaxFolders      \* bound on the changes of the Mailbox collection

ASSUME NoneAssumption == None \notin Emails \cup Mailboxes \cup Nat
ASSUME SizesAssumption == BatchSize \in Nat \ {0} /\ MaxDeltaPages \in Nat \ {0}
ASSUME BoundsAssumption == MaxChanges \in Nat /\ MaxFolders \in Nat

VARIABLES
    \* the server
    state,      \* state of the Email collection
    boxes,      \* [Emails -> SUBSET Mailboxes], {} for an Email that does not exist
    changedAt,  \* [Emails -> Nat]: the last change of the Email, 0 for never
    createdAt,  \* [Emails -> Nat]
    movedAt,    \* [Emails -> Nat]: when it last was delivered or moved (a history)
    folders,    \* [state, items]: the Mailbox collection
    \* the local database
    cursor,     \* [Kinds -> Nat \cup {None}]
    local,      \* [Emails -> Nat]: the version of the projected Email, 0 for none
    mailboxes,  \* the projected Mailboxes
    views,      \* the Mailboxes that have a cached MailboxView
    bodies,     \* the Emails whose body is cached
    missed,     \* the Emails the last snapshot missed (a history, see Missing)
    \* the calls
    job,        \* [Syncs -> the locals of syncAccount]
    fetch       \* [Fetches -> Emails \cup {None}]: the Email whose body is under way

server == <<state, boxes, changedAt, createdAt, movedAt, folders>>
database == <<cursor, local, mailboxes, views, bodies, missed>>
vars == <<state, boxes, changedAt, createdAt, movedAt, folders,
          cursor, local, mailboxes, views, bodies, missed, job, fetch>>

\* syncAccount syncs the Mailboxes, then the Emails, then the views.
Kinds == {"mailbox", "email"}

\* The look of an Email on the server now.
Version(e) == IF boxes[e] = {} THEN 0 ELSE changedAt[e]

Idle == [pc |-> "idle", kind |-> "mailbox", attempt |-> 0, expected |-> None,
         mode |-> "replace", at |-> None, page |-> 0, started |-> 0, begun |-> 0,
         ids |-> {}, dead |-> {}, got |-> [e \in Emails |-> 0], todo |-> {}, box |-> None]

Init == /\ state = 0
        /\ boxes = [e \in Emails |-> {}]
        /\ changedAt = [e \in Emails |-> 0]
        /\ createdAt = [e \in Emails |-> 0]
        /\ movedAt = [e \in Emails |-> 0]
        /\ folders = [state |-> 0, items |-> Mailboxes]
        /\ cursor = [k \in Kinds |-> None]
        /\ local = [e \in Emails |-> 0]
        /\ mailboxes = {}
        /\ views = {}
        /\ bodies = {}
        /\ missed = {}
        /\ job = [s \in Syncs |-> Idle]
        /\ fetch = [f \in Fetches |-> None]

(***************************************************************************)
(* The server: other clients, and deliveries.  JMAP ids are never reused.   *)
(***************************************************************************)
Change(e, S) ==
    /\ state < MaxChanges
    /\ state' = state + 1
    /\ boxes' = [boxes EXCEPT ![e] = S]
    /\ changedAt' = [changedAt EXCEPT ![e] = state + 1]
    /\ movedAt' = [movedAt EXCEPT ![e] = IF S \in {{}, boxes[e]} THEN @ ELSE state + 1]
    /\ UNCHANGED <<folders, database, job, fetch>>

Deliver(e, S) == /\ createdAt[e] = 0 /\ S # {} /\ S \subseteq folders.items
                 /\ createdAt' = [createdAt EXCEPT ![e] = state + 1]
                 /\ Change(e, S)

\* A new membership, or (with the same one) a new keyword.
Update(e, S) == /\ boxes[e] # {} /\ S # {} /\ S \subseteq folders.items
                /\ UNCHANGED createdAt
                /\ Change(e, S)

Destroy(e) == /\ boxes[e] # {}
              /\ UNCHANGED createdAt
              /\ Change(e, {})

\* A Mailbox is destroyed only when it is empty.
ChangeFolders(S) ==
    /\ folders.state < MaxFolders
    /\ \A e \in Emails : boxes[e] \subseteq S
    /\ folders' = [state |-> folders.state + 1, items |-> S]
    /\ UNCHANGED <<state, boxes, changedAt, createdAt, movedAt, database, job, fetch>>

(***************************************************************************)
(* syncAccount and syncCollection.                                          *)
(***************************************************************************)
Step(s, j) == job' = [job EXCEPT ![s] = j]

SyncStart(s) == /\ job[s].pc = "idle"
                /\ Step(s, [Idle EXCEPT !.pc = "cursor"])
                /\ UNCHANGED <<server, database, fetch>>

\* Whatever throws ends the whole syncAccount; what was committed stays.
Reject(s) == Step(s, Idle)

SyncFails(s) == /\ job[s].pc # "idle"
                /\ Reject(s)
                /\ UNCHANGED <<server, database, fetch>>

ReadCursor(s) ==
    /\ job[s].pc = "cursor"
    /\ LET k == job[s].kind
           c == cursor[k]
           delta == k = "email" /\ c # None
       IN  Step(s, [Idle EXCEPT
              !.kind = k,
              !.attempt = job[s].attempt,
              !.expected = c,
              !.started = IF k = "email" /\ job[s].attempt = 0 THEN state ELSE job[s].started,
              !.mode = IF delta THEN "delta" ELSE "replace",
              !.at = IF delta THEN c ELSE None,
              !.pc = CASE k = "mailbox" -> "mailboxes"
                       [] delta -> "changes"
                       [] OTHER -> "folders"])
    /\ UNCHANGED <<server, database, fetch>>

\* syncMailboxes: one request answers the items and their state together.
GetMailboxes(s) ==
    /\ job[s].pc = "mailboxes"
    /\ Step(s, [job[s] EXCEPT !.pc = "commit", !.at = folders.state, !.todo = folders.items])
    /\ UNCHANGED <<server, database, fetch>>

(***************************************************************************)
(* syncEmails: the delta.                                                   *)
(***************************************************************************)
\* Email/changes answers the ids whose last change lies in the page.  An Email
\* created and destroyed since the old state may be left out (RFC 8620, 5.2).
ChangedIn(since, upTo) == {e \in Emails : since < changedAt[e] /\ changedAt[e] <= upTo}
Alive(S) == {e \in S : boxes[e] # {}}
Omittable(S, since) == {e \in S : boxes[e] = {} /\ createdAt[e] > since}

ChangesPage(s) ==
    /\ job[s].pc = "changes"
    /\ \E upTo \in job[s].at .. state :
         LET page == ChangedIn(job[s].at, upTo) IN
         \E omitted \in SUBSET Omittable(page, job[s].at) :
            LET destroyed == (page \ Alive(page)) \ omitted
            IN  IF upTo < state /\ job[s].page + 1 = MaxDeltaPages
                THEN Reject(s)
                ELSE Step(s, [job[s] EXCEPT
                       !.at = upTo,
                       !.page = IF upTo < state THEN @ + 1 ELSE 0,
                       !.ids = (@ \cup Alive(page)) \ destroyed,
                       !.dead = @ \cup destroyed,
                       !.pc = IF upTo < state THEN "changes" ELSE "get"])
    /\ UNCHANGED <<server, database, fetch>>

\* cannotCalculateChanges, on any page: start over with a complete snapshot.
CannotCalculate(s) ==
    /\ job[s].pc = "changes"
    /\ Step(s, [job[s] EXCEPT !.pc = "folders", !.mode = "replace", !.at = None,
                              !.ids = {}, !.dead = {}])
    /\ UNCHANGED <<server, database, fetch>>

(***************************************************************************)
(* completeEmailSnapshot.                                                   *)
(***************************************************************************)
GetFolders(s) ==
    /\ job[s].pc = "folders"
    /\ Step(s, [job[s] EXCEPT !.todo = folders.items,
                              !.begun = state,
                              !.pc = IF folders.items = {} THEN "get" ELSE "query"])
    /\ UNCHANGED <<server, database, fetch>>

\* All pages of one Mailbox: queryState and total pin them to one result, any
\* other answer throws.
QueryFolder(s) ==
    /\ job[s].pc = "query"
    /\ \E m \in job[s].todo :
         Step(s, [job[s] EXCEPT !.ids = @ \cup {e \in Emails : m \in boxes[e]},
                                !.todo = @ \ {m},
                                !.pc = IF job[s].todo = {m} THEN "get" ELSE "query"])
    /\ UNCHANGED <<server, database, fetch>>

(***************************************************************************)
(* fetchExactEmails, for both: batches of Email/get.  A requested Email that *)
(* is gone throws.  A snapshot takes its state from the first batch and       *)
(* throws when a later batch has another one; a delta keeps the state of      *)
(* Email/changes.                                                           *)
(***************************************************************************)
\* Mutant of GetBatch: a delta takes its state from the Email/get as well.
GetBatchStamps(s) ==
    /\ job[s].pc = "get"
    /\ \E batch \in SUBSET job[s].ids :
         /\ Cardinality(batch) <= BatchSize
         /\ batch = job[s].ids \/ Cardinality(batch) = BatchSize
         /\ IF batch # Alive(batch) THEN Reject(s)
            ELSE Step(s, [job[s] EXCEPT
                           !.at = state,
                           !.got = [e \in Emails |-> IF e \in batch THEN Version(e)
                                                      ELSE job[s].got[e]],
                           !.ids = @ \ batch,
                           !.pc = IF batch = job[s].ids THEN "commit" ELSE "get"])
    /\ UNCHANGED <<server, database, fetch>>

GetBatch(s) ==
    /\ job[s].pc = "get"
    /\ \E batch \in SUBSET job[s].ids :
         /\ Cardinality(batch) <= BatchSize
         /\ batch = job[s].ids \/ Cardinality(batch) = BatchSize
         /\ IF \/ batch # Alive(batch)
               \/ job[s].mode = "replace" /\ job[s].at \notin {None, state}
            THEN Reject(s)
            ELSE Step(s, [job[s] EXCEPT
                           !.at = IF job[s].mode = "replace" THEN state ELSE @,
                           !.got = [e \in Emails |-> IF e \in batch THEN Version(e)
                                                      ELSE job[s].got[e]],
                           !.ids = @ \ batch,
                           !.pc = IF batch = job[s].ids THEN "commit" ELSE "get"])
    /\ UNCHANGED <<server, database, fetch>>

(***************************************************************************)
(* applyCollectionSync: one transaction, under the cursor precondition.     *)
(***************************************************************************)
\* Mutant of CursorMatches: the precondition is not checked.
CursorMatchesAlways(k, expected) == TRUE

CursorMatches(k, expected) == cursor[k] = expected

\* What a complete snapshot may not know: its ids come from one query per Mailbox
\* and its state from a later Email/get, so that an Email which came to a Mailbox
\* already queried is not found and is not later than the state either.  It stays
\* unknown until its next change (history).
Missing(j) == IF j.mode = "replace"
              THEN {e \in Emails : /\ boxes[e] # {} /\ j.got[e] = 0
                                   /\ j.begun < movedAt[e] /\ changedAt[e] <= j.at}
              ELSE {e \in missed : changedAt[e] <= j.expected}

\* The rows that the commit deletes.
Deleted(j) == IF j.mode = "delta" THEN j.dead ELSE {e \in Emails : j.got[e] = 0}

\* Mutant of ApplyEmails: the replacement deletes every row and inserts the new ones.
ApplyEmailsAfresh(j) ==
    /\ local' = [e \in Emails |-> CASE e \in Deleted(j) -> 0
                                   [] e \notin Deleted(j) /\ j.got[e] # 0 -> j.got[e]
                                   [] OTHER -> local[e]]
    /\ bodies' = IF j.mode = "delta" THEN bodies \ Deleted(j) ELSE {}
    /\ missed' = Missing(j)
    /\ UNCHANGED <<mailboxes, views>>

\* Rows are updated in place; a body goes with its row (ON DELETE CASCADE).
ApplyEmails(j) ==
    /\ local' = [e \in Emails |-> IF e \in Deleted(j) THEN 0
                                   ELSE IF j.got[e] # 0 THEN j.got[e] ELSE local[e]]
    /\ bodies' = bodies \ Deleted(j)
    /\ missed' = Missing(j)
    /\ UNCHANGED <<mailboxes, views>>

\* Views are deleted with their Mailbox; memberships and Emails are not.
ApplyMailboxes(j) == /\ mailboxes' = j.todo
                     /\ views' = views \cap j.todo
                     /\ UNCHANGED <<local, bodies, missed>>

\* The commit returned: the next collection, or the views.
Committed(s) ==
    LET j == job[s] IN
    Step(s, [Idle EXCEPT !.started = j.started,
                         !.kind = "email",
                         !.pc = IF j.kind = "email" THEN "list" ELSE "cursor"])

\* Mutant of Conflict: another sync committed, which is taken for success.
ConflictIsSuccess(s) == Committed(s)

\* A conflict is tried once more from the cursor, then it throws.
Conflict(s) == IF job[s].attempt = 0
               THEN Step(s, [Idle EXCEPT !.pc = "cursor", !.attempt = 1,
                                         !.kind = job[s].kind, !.started = job[s].started])
               ELSE Reject(s)

\* A record the engine refuses conflicts on both attempts: that is SyncFails.
Commit(s) ==
    /\ job[s].pc = "commit"
    /\ \/ /\ CursorMatches(job[s].kind, job[s].expected)
          /\ cursor' = [cursor EXCEPT ![job[s].kind] = job[s].at]
          /\ IF job[s].kind = "email" THEN ApplyEmails(job[s]) ELSE ApplyMailboxes(job[s])
          /\ Committed(s)
       \/ /\ ~CursorMatches(job[s].kind, job[s].expected)
          /\ Conflict(s)
          /\ UNCHANGED database
    /\ UNCHANGED <<server, fetch>>

(***************************************************************************)
(* The views of all Mailboxes, read after the Emails were committed.        *)
(***************************************************************************)
ViewDone(s, m) ==
    Step(s, IF job[s].todo = {m} THEN Idle
            ELSE [job[s] EXCEPT !.pc = "views", !.todo = @ \ {m}, !.box = None])

ListMailboxes(s) ==
    /\ job[s].pc = "list"
    /\ Step(s, IF mailboxes = {} THEN Idle
               ELSE [job[s] EXCEPT !.pc = "views", !.todo = mailboxes, !.started = 0])
    /\ UNCHANGED <<server, database, fetch>>

\* A page whose position and total do not fit together is skipped.
QueryView(s) ==
    /\ job[s].pc = "views"
    /\ \E m \in job[s].todo :
          \/ Step(s, [job[s] EXCEPT !.pc = "write", !.box = m])
          \/ ViewDone(s, m)
    /\ UNCHANGED <<server, database, fetch>>

WriteView(s) ==
    /\ job[s].pc = "write"
    /\ \/ /\ job[s].box \in mailboxes
          /\ views' = views \cup {job[s].box}
          /\ ViewDone(s, job[s].box)
       \/ /\ job[s].box \notin mailboxes
          /\ Reject(s)
          /\ UNCHANGED views
    /\ UNCHANGED <<server, cursor, local, mailboxes, bodies, missed, fetch>>

(***************************************************************************)
(* materialize: at most one flight per Email.  The session's own currency    *)
(* checks are in RemoteLifecycle.                                           *)
(***************************************************************************)
BodyStart(f, e) ==
    /\ fetch[f] = None
    /\ \A g \in Fetches : fetch[g] # e
    /\ local[e] # 0 /\ e \notin bodies
    /\ fetch' = [fetch EXCEPT ![f] = e]
    /\ UNCHANGED <<server, database, job>>

BodyFails(f) ==
    /\ fetch[f] # None
    /\ fetch' = [fetch EXCEPT ![f] = None]
    /\ UNCHANGED <<server, database, job>>

\* Mutant of BodyWritten: the body is written although its Email is gone.
BodyWrittenBlindly(f) ==
    /\ fetch[f] # None
    /\ bodies' = bodies \cup {fetch[f]}
    /\ fetch' = [fetch EXCEPT ![f] = None]
    /\ UNCHANGED <<server, cursor, local, mailboxes, views, missed, job>>

\* cacheEmailBody conflicts when the Email was destroyed meanwhile.
BodyWritten(f) ==
    /\ fetch[f] # None
    /\ bodies' = IF local[fetch[f]] # 0 THEN bodies \cup {fetch[f]} ELSE bodies
    /\ fetch' = [fetch EXCEPT ![f] = None]
    /\ UNCHANGED <<server, cursor, local, mailboxes, views, missed, job>>

SyncStep(s) == \/ ReadCursor(s) \/ GetMailboxes(s) \/ ChangesPage(s) \/ CannotCalculate(s)
               \/ GetFolders(s) \/ QueryFolder(s) \/ GetBatch(s) \/ Commit(s)
               \/ ListMailboxes(s) \/ QueryView(s) \/ WriteView(s)

Next == \/ \E e \in Emails, S \in SUBSET Mailboxes : Deliver(e, S) \/ Update(e, S)
        \/ \E e \in Emails : Destroy(e)
        \/ \E S \in SUBSET Mailboxes : ChangeFolders(S)
        \/ \E s \in Syncs : SyncStart(s) \/ SyncStep(s) \/ SyncFails(s)
        \/ \E f \in Fetches : \/ \E e \in Emails : BodyStart(f, e)
                              \/ BodyFails(f) \/ BodyWritten(f)

Spec == Init /\ [][Next]_vars

(***************************************************************************)
(* Properties.                                                              *)
(***************************************************************************)
JobPC == {"idle", "cursor", "mailboxes", "changes", "folders", "query", "get", "commit",
          "list", "views", "write"}

Job == [pc : JobPC, kind : Kinds, attempt : {0, 1}, mode : {"delta", "replace"},
        expected : Nat \cup {None}, at : Nat \cup {None}, page : Nat, started : Nat, begun : Nat,
        ids : SUBSET Emails, dead : SUBSET Emails, got : [Emails -> Nat],
        todo : SUBSET Mailboxes, box : Mailboxes \cup {None}]

\* The state has the shape that the tables of the local database and the locals
\* of a sync have in the code.
TypeOK == /\ state \in Nat
          /\ boxes \in [Emails -> SUBSET Mailboxes]
          /\ changedAt \in [Emails -> Nat]
          /\ createdAt \in [Emails -> Nat]
          /\ movedAt \in [Emails -> Nat]
          /\ folders \in [state : Nat, items : SUBSET Mailboxes]
          /\ mailboxes \subseteq Mailboxes
          /\ cursor \in [Kinds -> Nat \cup {None}]
          /\ local \in [Emails -> Nat]
          /\ views \subseteq Mailboxes
          /\ bodies \subseteq Emails
          /\ missed \subseteq Emails
          /\ fetch \in [Fetches -> Emails \cup {None}]
          /\ job \in [Syncs -> Job]

\* An Email is projected as the server has it; one that the last snapshot missed may
\* be absent, never out of date.
Projected(e) == local[e] = Version(e) \/ (e \in missed /\ local[e] = 0)

\* A change the projection does not show is later than the cursor, so that the
\* next delta reports it: an Email that did not change after the cursor's state
\* is projected as the server has it, unless it was delivered or moved while the
\* last snapshot was being collected; and Mailboxes whose cursor is the server's
\* state are the server's Mailboxes.
NoLostChange ==
    /\ cursor["email"] # None =>
         \A e \in Emails : changedAt[e] <= cursor["email"] => Projected(e)
    /\ cursor["mailbox"] = folders.state => mailboxes = folders.items

\* A sync that got past its Email commit has brought the projection up to the
\* server's state at its own start, also when it lost a race against another sync
\* (the keyword reconciliation reads the projection on that ground).
RefreshIsFresh == \A s \in Syncs : job[s].pc = "list" =>
                     /\ cursor["email"] # None /\ cursor["email"] >= job[s].started
                     /\ \A e \in Emails : changedAt[e] <= job[s].started => Projected(e)

\* Cursors never go back, whatever the order in which overlapping syncs commit.
CursorNeverRegresses ==
    [][\A k \in Kinds : cursor[k] # None => cursor'[k] # None /\ cursor'[k] >= cursor[k]]_vars

\* Caches have an owner: a body that arrives after its Email was destroyed, and a
\* view that arrives after its Mailbox was, are not kept.
CachesOwned == /\ \A e \in bodies : local[e] # 0
               /\ views \subseteq mailboxes

\* The commit of s replaces the projection by a snapshot begun before e moved.
MovedDuring(s, e) == /\ job[s].pc = "commit" /\ job[s].mode = "replace"
                     /\ job[s].begun < movedAt[e]

\* Cached bodies outlive every refresh: when a commit drops one, the server has
\* destroyed its Email, or the Email was moved while the snapshot that is committed
\* was being collected.
BodiesOutliveRefresh ==
    [][\A e \in bodies \ bodies' :
          boxes[e] = {} \/ \E s \in Syncs : job'[s] # job[s] /\ MovedDuring(s, e)]_vars

=============================================================================
