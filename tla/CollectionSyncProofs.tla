------------------------- MODULE CollectionSyncProofs -------------------------
(***************************************************************************)
(* Proofs about CollectionSync for any sets of Emails, Mailboxes, syncs and   *)
(* body fetches, any batch size, any number of pages and any number of        *)
(* changes.                                                                 *)
(***************************************************************************)
EXTENDS CollectionSync, TLAPS

-----------------------------------------------------------------------------
(***************************************************************************)
(* The inductive invariant.                                                 *)
(***************************************************************************)
\* An Email exists between its creation and its destruction, in Mailboxes that
\* exist, and every change has its place in the collection's history.
ServerOK == \A e \in Emails :
               /\ createdAt[e] <= changedAt[e] /\ changedAt[e] <= state
               /\ boxes[e] # {} \/ changedAt[e] # 0 => createdAt[e] # 0
               /\ boxes[e] \subseteq folders.items

\* Cursors name states the server had.
CursorOK == /\ cursor["email"] # None => cursor["email"] <= state
            /\ cursor["mailbox"] # None => cursor["mailbox"] <= folders.state

\* What is projected was created before the cursor's state.
LocalOK == \A e \in Emails : local[e] # 0 => /\ cursor["email"] # None
                                             /\ createdAt[e] # 0
                                             /\ createdAt[e] <= cursor["email"]

\* A sync of the Mailboxes that is about to commit.
MailboxJobOK(j) ==
    j.kind = "mailbox" =>
      /\ j.pc \in {"idle", "cursor", "mailboxes", "commit"}
      /\ j.started = 0
      /\ j.expected # None => j.expected <= folders.state
      /\ j.pc = "commit" => /\ j.at # None
                            /\ j.at <= folders.state
                            /\ j.expected # None => j.expected <= j.at
                            /\ j.at = folders.state => j.todo = folders.items

\* What an Email needs to be in the transition that j builds up to j.at: it is
\* still to be read, or was read as the server has it, unless it changed later; a
\* snapshot may also lack it because it moved after the snapshot was begun.
Collected(j, e) ==
    /\ e \in j.ids \/ j.got[e] # 0 => createdAt[e] # 0 /\ createdAt[e] <= j.at
    /\ j.got[e] # 0 /\ changedAt[e] <= j.at => j.got[e] = Version(e)
    /\ /\ j.mode = "delta" /\ boxes[e] # {}
       /\ j.expected < changedAt[e] /\ changedAt[e] <= j.at
       => e \in j.ids \/ j.got[e] # 0
    /\ j.mode = "replace" /\ boxes[e] # {} =>
          e \in j.ids \/ j.got[e] # 0 \/ j.begun < movedAt[e]

\* A delta also knows what was destroyed since the expected cursor, except Emails
\* that did not exist then.
DeltaOK(j) ==
    /\ j.expected # None /\ j.at # None
    /\ \A e \in j.dead : e \in Emails /\ boxes[e] = {} /\ createdAt[e] # 0
    /\ \A e \in Emails : /\ boxes[e] = {}
                         /\ j.expected < changedAt[e] /\ changedAt[e] <= j.at
                         => e \in j.dead \/ createdAt[e] > j.expected

\* The beginning of a complete snapshot: what exists is found, or will be found
\* in a Mailbox that is still to be queried, or it moved since.
SnapshotOK(j) ==
    /\ \A e \in Emails : j.got[e] = 0
    /\ \A e \in j.ids : createdAt[e] # 0
    /\ \A e \in Emails : boxes[e] # {} =>
          \/ e \in j.ids
          \/ j.pc = "query" /\ boxes[e] \cap j.todo # {}
          \/ j.begun < movedAt[e]

EmailJobOK(j) ==
    j.kind = "email" =>
      /\ j.pc # "mailboxes" /\ j.pc # "idle"
      /\ j.started <= state /\ j.begun <= state
      /\ j.expected # None => j.expected <= state
      /\ j.pc = "changes" => j.mode = "delta"
      /\ j.pc \in {"folders", "query"} => j.mode = "replace" /\ j.at = None
      /\ j.pc = "folders" => j.ids = {}
      /\ j.pc \in {"changes", "folders"} => \A e \in Emails : j.got[e] = 0
      /\ j.pc \in {"changes", "get", "commit"} /\ j.mode = "delta" => DeltaOK(j)
      /\ j.pc \in {"changes", "get", "commit"} /\ j.at # None =>
            /\ j.at <= state
            /\ j.expected # None => j.expected <= j.at
            /\ j.pc # "changes" => j.started <= j.at
      /\ j.pc = "commit" => j.at # None /\ j.ids = {}
      /\ j.pc = "list" => cursor["email"] # None /\ j.started <= cursor["email"]

\* The Emails of the transition.
ContentOK(j) ==
    j.kind = "email" =>
      /\ j.pc \in {"changes", "get", "commit"} /\ j.at # None =>
            \A e \in Emails : Collected(j, e)
      /\ j.pc \in {"query", "get"} /\ j.at = None => SnapshotOK(j)

JobsOK == \A s \in Syncs : MailboxJobOK(job[s]) /\ EmailJobOK(job[s])

Inv == TypeOK /\ ServerOK /\ CursorOK /\ JobsOK /\ CachesOwned

Content == NoLostChange /\ LocalOK /\ \A s \in Syncs : ContentOK(job[s])

-----------------------------------------------------------------------------
(***************************************************************************)
(* Steps that change only the locals of one sync.                           *)
(***************************************************************************)
\* The sync s moves to locals that the invariant allows.
GoodStep(s) == \E j \in Job : /\ Step(s, j)
                              /\ MailboxJobOK(j) /\ EmailJobOK(j)
                              /\ Content => ContentOK(j)

\* A sync that is not running, or that has thrown, is allowed.
LEMMA IdleOK == Idle \in Job /\ MailboxJobOK(Idle) /\ EmailJobOK(Idle) /\ ContentOK(Idle)
  BY DEF Idle, Job, JobPC, Kinds, MailboxJobOK, EmailJobOK, ContentOK

\* A sync may throw at any point.
LEMMA RejectOK == ASSUME NEW s \in Syncs, Reject(s) PROVE GoodStep(s)
  BY IdleOK DEF Reject, GoodStep

\* The request that reads the Mailboxes of syncMailboxes.
LEMMA GetMailboxesOK ==
  ASSUME Inv, NEW s \in Syncs, GetMailboxes(s) PROVE GoodStep(s)
  <1> DEFINE j == [job[s] EXCEPT !.pc = "commit", !.at = folders.state, !.todo = folders.items]
  <1>1. job[s] \in Job /\ MailboxJobOK(job[s]) /\ EmailJobOK(job[s])
        /\ job[s].pc = "mailboxes"
    BY DEF Inv, TypeOK, JobsOK, GetMailboxes
  <1>2. job[s].kind = "mailbox"
    BY <1>1 DEF EmailJobOK, Job, Kinds
  <1>3. j \in Job
    BY <1>1 DEF Job, Inv, TypeOK, JobPC
  <1>4. MailboxJobOK(j)
    BY <1>1, <1>2, NoneAssumption DEF MailboxJobOK, Job, Inv, TypeOK
  <1>5. EmailJobOK(j) /\ ContentOK(j)
    BY <1>1, <1>2 DEF EmailJobOK, ContentOK, Job
  <1> QED BY <1>3, <1>4, <1>5 DEF GetMailboxes, GoodStep

\* The read of the cursor.
LEMMA ReadCursorOK ==
  ASSUME Inv, NEW s \in Syncs, ReadCursor(s) PROVE GoodStep(s)
  <1> DEFINE k == job[s].kind
             c == cursor[k]
             delta == k = "email" /\ c # None
             n == IF k = "email" /\ job[s].attempt = 0 THEN state ELSE job[s].started
             m == IF delta THEN "delta" ELSE "replace"
             t == IF delta THEN c ELSE None
             p == CASE k = "mailbox" -> "mailboxes"
                    [] delta -> "changes"
                    [] OTHER -> "folders"
             j == [Idle EXCEPT !.kind = k, !.attempt = job[s].attempt, !.expected = c,
                               !.started = n, !.mode = m, !.at = t, !.pc = p]
  <1>0. Step(s, j)
    BY DEF ReadCursor
  <1>1. job[s] \in Job /\ MailboxJobOK(job[s]) /\ EmailJobOK(job[s])
    BY DEF Inv, TypeOK, JobsOK
  <1>2. /\ k \in Kinds /\ c \in Nat \cup {None} /\ state \in Nat
        /\ job[s].attempt \in {0, 1} /\ job[s].started \in Nat
        /\ \A e \in Emails : changedAt[e] \in Nat
    BY <1>1 DEF Inv, TypeOK, Job
  <1>a. /\ k = "mailbox" => p = "mailboxes"
        /\ delta => p = "changes"
        /\ k = "email" /\ c = None => p = "folders"
    OBVIOUS
  <1>b. p \in JobPC
    BY <1>a, <1>2 DEF JobPC, Kinds
  <1>c. n \in Nat /\ m \in {"delta", "replace"} /\ t \in Nat \cup {None}
    BY <1>2
  <1>d. /\ j.kind = k /\ j.attempt = job[s].attempt /\ j.expected = c
        /\ j.started = n /\ j.mode = m /\ j.at = t /\ j.pc = p
        /\ j.ids = {} /\ j.dead = {} /\ j.got = [e \in Emails |-> 0] /\ j.begun = 0
    <2> HIDE DEF n, m, t, p, c, k, delta
    <2> QED BY DEF Idle
  <1>e. j \in Job
    <2> HIDE DEF n, m, t, p, c, k, delta
    <2> QED BY <1>b, <1>c, <1>2 DEF Idle, Job
  <1>3. /\ j.kind = k /\ j.attempt = job[s].attempt /\ j.expected = c
        /\ j.started = IF k = "email" /\ job[s].attempt = 0 THEN state ELSE job[s].started
        /\ j.mode = IF delta THEN "delta" ELSE "replace"
        /\ j.at = IF delta THEN c ELSE None
        /\ j.ids = {} /\ j.dead = {} /\ j.got = [e \in Emails |-> 0] /\ j.begun = 0
        /\ k = "mailbox" => j.pc = "mailboxes"
        /\ delta => j.pc = "changes"
        /\ k = "email" /\ c = None => j.pc = "folders"
    BY <1>a, <1>d
  <1> HIDE DEF j
  <1>4. CASE k = "mailbox"
    <2>1. MailboxJobOK(j)
      BY <1>1, <1>2, <1>3, <1>4 DEF MailboxJobOK, Inv, CursorOK
    <2>2. EmailJobOK(j) /\ ContentOK(j)
      BY <1>3, <1>4 DEF EmailJobOK, ContentOK
    <2> QED BY <1>e, <2>1, <2>2, <1>0 DEF GoodStep
  <1>5. CASE k = "email"
    <2>1. MailboxJobOK(j)
      BY <1>3, <1>5 DEF MailboxJobOK
    <2>2. j.started \in Nat /\ j.started <= state /\ j.begun <= state
      BY <1>1, <1>2, <1>3, <1>5 DEF EmailJobOK, Job
    <2>3. c # None => c \in Nat /\ c <= state
      BY <1>2, <1>5 DEF Inv, CursorOK
    <2>4. EmailJobOK(j)
      <3>1. CASE delta
        <4>1. /\ j.expected = c /\ j.at = c /\ c \in Nat /\ c <= state /\ c # None
              /\ j.dead = {} /\ j.pc = "changes" /\ j.mode = "delta"
              /\ \A e \in Emails : j.got[e] = 0
          BY <1>3, <2>3, <3>1
        <4>2. DeltaOK(j)
          BY <1>2, <4>1 DEF DeltaOK
        <4> QED BY <2>2, <4>1, <4>2 DEF EmailJobOK
      <3>2. CASE c = None
        BY <1>3, <1>5, <2>2, <3>2 DEF EmailJobOK
      <3> QED BY <1>5, <3>1, <3>2
    <2>5. ContentOK(j)
      <3>1. CASE delta
        <4>1. /\ j.expected = c /\ j.at = c /\ c \in Nat /\ c # None /\ j.mode = "delta"
              /\ j.ids = {} /\ \A e \in Emails : j.got[e] = 0
          BY <1>3, <2>3, <3>1
        <4>2. \A e \in Emails : Collected(j, e)
          BY <1>2, <4>1 DEF Collected
        <4> QED BY <4>1, <4>2 DEF ContentOK
      <3>2. CASE c = None
        BY <1>3, <1>5, <3>2 DEF ContentOK
      <3> QED BY <1>5, <3>1, <3>2
    <2> QED BY <1>e, <2>1, <2>4, <2>5, <1>0 DEF GoodStep
  <1> QED BY <1>2, <1>4, <1>5 DEF Kinds

\* What the invariant says of the locals of one sync.
LEMMA JobFacts ==
  ASSUME Inv, NEW s \in Syncs
  PROVE  /\ job[s] \in Job /\ MailboxJobOK(job[s]) /\ EmailJobOK(job[s])
         /\ job[s].kind \in Kinds
         /\ job[s].pc \notin {"idle", "cursor", "mailboxes", "commit"} => job[s].kind = "email"
         /\ job[s].expected \in Nat \cup {None} /\ job[s].at \in Nat \cup {None}
         /\ job[s].started \in Nat /\ job[s].page \in Nat /\ job[s].begun \in Nat
         /\ job[s].ids \subseteq Emails /\ job[s].dead \subseteq Emails
         /\ job[s].got \in [Emails -> Nat] /\ job[s].todo \subseteq Mailboxes
  <1>1. job[s] \in Job /\ MailboxJobOK(job[s]) /\ EmailJobOK(job[s])
    BY DEF Inv, TypeOK, JobsOK
  <1> QED BY <1>1 DEF Job, MailboxJobOK, Kinds

\* syncAccount is called.
LEMMA SyncStartOK == ASSUME NEW s \in Syncs, SyncStart(s) PROVE GoodStep(s)
  <1> DEFINE j == [Idle EXCEPT !.pc = "cursor"]
  <1>1. /\ j \in Job /\ j.kind = "mailbox" /\ j.pc = "cursor" /\ j.expected = None
        /\ j.started = 0
    BY DEF Idle, Job, JobPC, Kinds
  <1>2. Step(s, j)
    BY DEF SyncStart
  <1> HIDE DEF j
  <1> QED BY <1>1, <1>2 DEF GoodStep, MailboxJobOK, EmailJobOK, ContentOK

\* A lost race: the sync goes back to its cursor, or throws.
LEMMA ConflictOK == ASSUME Inv, NEW s \in Syncs, Conflict(s) PROVE GoodStep(s)
  <1> DEFINE j == [Idle EXCEPT !.pc = "cursor", !.attempt = 1,
                               !.kind = job[s].kind, !.started = job[s].started]
  <1>1. CASE job[s].attempt = 0
    <2>1. Step(s, j)
      BY <1>1 DEF Conflict
    <2>2. /\ j \in Job /\ j.kind = job[s].kind /\ j.pc = "cursor"
          /\ j.expected = None /\ j.started = job[s].started /\ j.begun = 0
      BY JobFacts DEF Idle, Job, JobPC
    <2>3. state \in Nat
      BY DEF Inv, TypeOK
    <2> HIDE DEF j
    <2> QED BY <2>1, <2>2, <2>3, JobFacts DEF GoodStep, MailboxJobOK, EmailJobOK, ContentOK
  <1>2. CASE job[s].attempt # 0
    BY <1>2, RejectOK DEF Conflict
  <1> QED BY <1>1, <1>2

\* The server cannot calculate the changes: the delta gives way to a snapshot.
LEMMA CannotCalculateOK == ASSUME Inv, NEW s \in Syncs, CannotCalculate(s) PROVE GoodStep(s)
  <1> DEFINE j == [job[s] EXCEPT !.pc = "folders", !.mode = "replace", !.at = None,
                                 !.ids = {}, !.dead = {}]
  <1>1. Step(s, j) /\ job[s].pc = "changes" /\ job[s].kind = "email"
    BY JobFacts DEF CannotCalculate
  <1>2. /\ j \in Job /\ j.kind = "email" /\ j.pc = "folders" /\ j.mode = "replace"
        /\ j.at = None /\ j.ids = {} /\ j.got = job[s].got
        /\ j.expected = job[s].expected /\ j.started = job[s].started
        /\ j.begun = job[s].begun
    BY <1>1, JobFacts DEF Job, JobPC
  <1> HIDE DEF j
  <1> QED BY <1>1, <1>2, JobFacts DEF GoodStep, MailboxJobOK, EmailJobOK, ContentOK

\* The Mailboxes of a complete snapshot.
LEMMA GetFoldersOK == ASSUME Inv, NEW s \in Syncs, GetFolders(s) PROVE GoodStep(s)
  <1> DEFINE p == IF folders.items = {} THEN "get" ELSE "query"
             j == [job[s] EXCEPT !.todo = folders.items, !.begun = state, !.pc = p]
  <1>1. Step(s, j) /\ job[s].pc = "folders" /\ job[s].kind = "email"
    BY JobFacts DEF GetFolders
  <1>2. p \in JobPC /\ folders.items \subseteq Mailboxes /\ state \in Nat
    BY DEF Inv, TypeOK, JobPC
  <1>3. /\ j \in Job /\ j.kind = "email" /\ j.pc = p /\ j.mode = job[s].mode
        /\ j.at = job[s].at /\ j.ids = job[s].ids /\ j.got = job[s].got
        /\ j.expected = job[s].expected /\ j.started = job[s].started
        /\ j.todo = folders.items /\ j.begun = state
    <2> HIDE DEF p
    <2> QED BY <1>1, <1>2, JobFacts DEF Job
  <1>4. /\ j.pc = "get" \/ j.pc = "query"
        /\ j.pc = "get" => folders.items = {}
    BY <1>3
  <1> HIDE DEF j, p
  <1>5. j.mode = "replace" /\ j.at = None /\ j.ids = {} /\ \A e \in Emails : j.got[e] = 0
    BY <1>1, <1>3, JobFacts DEF EmailJobOK
  <1>6. EmailJobOK(j) /\ MailboxJobOK(j)
    BY <1>1, <1>2, <1>3, <1>4, <1>5, JobFacts DEF EmailJobOK, MailboxJobOK
  <1>7. SnapshotOK(j)
    BY <1>3, <1>4, <1>5 DEF SnapshotOK, Inv, ServerOK
  <1>8. ContentOK(j)
    BY <1>5, <1>7 DEF ContentOK
  <1> QED BY <1>1, <1>3, <1>6, <1>8 DEF GoodStep

\* The Emails of one Mailbox join the snapshot.
LEMMA QueryFolderOK == ASSUME Inv, NEW s \in Syncs, QueryFolder(s) PROVE GoodStep(s)
  <1>1. PICK m \in job[s].todo :
          Step(s, [job[s] EXCEPT !.ids = @ \cup {e \in Emails : m \in boxes[e]},
                                 !.todo = @ \ {m},
                                 !.pc = IF job[s].todo = {m} THEN "get" ELSE "query"])
    BY DEF QueryFolder
  <1> DEFINE found == job[s].ids \cup {e \in Emails : m \in boxes[e]}
             left == job[s].todo \ {m}
             p == IF job[s].todo = {m} THEN "get" ELSE "query"
             j == [job[s] EXCEPT !.ids = found, !.todo = left, !.pc = p]
  <1>2. Step(s, j) /\ job[s].pc = "query" /\ job[s].kind = "email"
    BY <1>1, JobFacts DEF QueryFolder, Job
  <1>3. p \in JobPC /\ found \subseteq Emails /\ left \subseteq Mailboxes
    BY JobFacts DEF JobPC
  <1>4. /\ j \in Job /\ j.kind = "email" /\ j.pc = p /\ j.mode = job[s].mode
        /\ j.at = job[s].at /\ j.ids = found /\ j.got = job[s].got
        /\ j.expected = job[s].expected /\ j.started = job[s].started
        /\ j.todo = left /\ j.begun = job[s].begun
    <2> HIDE DEF p, found, left
    <2> QED BY <1>2, <1>3, JobFacts DEF Job
  <1>5. /\ j.pc = "get" \/ j.pc = "query"
        /\ j.pc = "get" => job[s].todo = {m}
    BY <1>4
  <1>6. /\ \A e \in Emails : boxes[e] \cap job[s].todo # {} =>
                               e \in found \/ (boxes[e] \cap left # {} /\ job[s].todo # {m})
        /\ \A e \in found : e \in job[s].ids \/ boxes[e] # {}
        /\ job[s].ids \subseteq found
    OBVIOUS
  <1> HIDE DEF j, found, left
  <1>7. EmailJobOK(j) /\ MailboxJobOK(j)
    <2> HIDE DEF p
    <2> QED BY <1>2, <1>4, <1>5, JobFacts DEF EmailJobOK, MailboxJobOK
  <1>8. Content => ContentOK(j)
    <2> SUFFICES ASSUME Content PROVE ContentOK(j)
      OBVIOUS
    <2>1. j.at = None /\ SnapshotOK(job[s])
      BY <1>2, <1>4, JobFacts DEF Content, ContentOK, EmailJobOK
    <2>2. SnapshotOK(j)
      <3>1. \A e \in found : createdAt[e] # 0
        BY <1>6, <2>1, JobFacts DEF SnapshotOK, Inv, ServerOK, found
      <3> QED BY <1>2, <1>4, <1>5, <1>6, <2>1, <3>1 DEF SnapshotOK
    <2> QED BY <2>1, <2>2 DEF ContentOK
  <1> QED BY <1>2, <1>4, <1>7, <1>8 DEF GoodStep

\* The history of the Emails, and what Version and Alive are.
LEMMA ServerFacts ==
  ASSUME Inv
  PROVE  /\ state \in Nat
         /\ \A e \in Emails :
              /\ createdAt[e] \in Nat /\ changedAt[e] \in Nat
              /\ createdAt[e] <= changedAt[e] /\ changedAt[e] <= state
              /\ boxes[e] # {} \/ changedAt[e] # 0 => createdAt[e] # 0
              /\ Version(e) \in Nat
              /\ boxes[e] = {} => Version(e) = 0
              /\ boxes[e] # {} => Version(e) = changedAt[e] /\ Version(e) # 0
  <1>1. state \in Nat
    BY DEF Inv, TypeOK
  <1> SUFFICES ASSUME NEW e \in Emails
               PROVE  /\ createdAt[e] \in Nat /\ changedAt[e] \in Nat
                      /\ createdAt[e] <= changedAt[e] /\ changedAt[e] <= state
                      /\ boxes[e] # {} \/ changedAt[e] # 0 => createdAt[e] # 0
                      /\ Version(e) \in Nat
                      /\ boxes[e] = {} => Version(e) = 0
                      /\ boxes[e] # {} => Version(e) = changedAt[e] /\ Version(e) # 0
    BY <1>1
  <1>2. /\ createdAt[e] \in Nat /\ changedAt[e] \in Nat
        /\ createdAt[e] <= changedAt[e] /\ changedAt[e] <= state
        /\ boxes[e] # {} \/ changedAt[e] # 0 => createdAt[e] # 0
    BY DEF Inv, TypeOK, ServerOK
  <1>3. boxes[e] # {} => changedAt[e] # 0
    BY <1>2
  <1>4. Version(e) = IF boxes[e] = {} THEN 0 ELSE changedAt[e]
    BY DEF Version
  <1> QED BY <1>2, <1>3, <1>4

\* One page of Email/changes joins the delta.
LEMMA ChangesPageOK == ASSUME Inv, NEW s \in Syncs, ChangesPage(s) PROVE GoodStep(s)
  <1> DEFINE page(u) == ChangedIn(job[s].at, u)
             gone(u, o) == (page(u) \ Alive(page(u))) \ o
  <1>1. PICK upTo \in job[s].at .. state :
          \E omitted \in SUBSET Omittable(page(upTo), job[s].at) :
             IF upTo < state /\ job[s].page + 1 = MaxDeltaPages
             THEN Reject(s)
             ELSE Step(s, [job[s] EXCEPT
                       !.at = upTo,
                       !.page = IF upTo < state THEN @ + 1 ELSE 0,
                       !.ids = (@ \cup Alive(page(upTo))) \ gone(upTo, omitted),
                       !.dead = @ \cup gone(upTo, omitted),
                       !.pc = IF upTo < state THEN "changes" ELSE "get"])
    BY DEF ChangesPage
  <1>2. PICK omitted \in SUBSET Omittable(page(upTo), job[s].at) :
             IF upTo < state /\ job[s].page + 1 = MaxDeltaPages
             THEN Reject(s)
             ELSE Step(s, [job[s] EXCEPT
                       !.at = upTo,
                       !.page = IF upTo < state THEN @ + 1 ELSE 0,
                       !.ids = (@ \cup Alive(page(upTo))) \ gone(upTo, omitted),
                       !.dead = @ \cup gone(upTo, omitted),
                       !.pc = IF upTo < state THEN "changes" ELSE "get"])
    BY <1>1
  <1> DEFINE ids == (job[s].ids \cup Alive(page(upTo))) \ gone(upTo, omitted)
             dead == job[s].dead \cup gone(upTo, omitted)
             p == IF upTo < state THEN "changes" ELSE "get"
             n == IF upTo < state THEN job[s].page + 1 ELSE 0
             j == [job[s] EXCEPT !.at = upTo, !.page = n, !.ids = ids, !.dead = dead, !.pc = p]
  <1>3. Reject(s) \/ Step(s, j)
    BY <1>2, JobFacts DEF Job
  <1>4. /\ job[s].pc = "changes" /\ job[s].kind = "email" /\ job[s].mode = "delta"
        /\ DeltaOK(job[s]) /\ job[s].at \in Nat /\ job[s].expected \in Nat
        /\ job[s].expected <= job[s].at /\ \A e \in Emails : job[s].got[e] = 0
        /\ job[s].started <= state /\ job[s].begun <= state
    BY JobFacts DEF ChangesPage, EmailJobOK, DeltaOK
  <1>5. upTo \in Nat /\ job[s].at <= upTo /\ upTo <= state
    BY <1>4, ServerFacts
  <1>6. /\ p \in JobPC /\ n \in Nat /\ ids \subseteq Emails /\ dead \subseteq Emails
        /\ p = "changes" \/ (p = "get" /\ upTo = state)
    <2>0. p = "changes" \/ (p = "get" /\ ~(upTo < state))
      OBVIOUS
    <2>1. p \in JobPC /\ (p = "changes" \/ (p = "get" /\ upTo = state))
      <3> HIDE DEF p
      <3> QED BY <2>0, <1>5, ServerFacts DEF JobPC
    <2>2. n \in Nat
      BY JobFacts
    <2>3. ids \subseteq Emails /\ dead \subseteq Emails
      BY JobFacts DEF ChangedIn, Alive
    <2> HIDE DEF p, n, ids, dead
    <2> QED BY <2>1, <2>2, <2>3
  <1>7. /\ j \in Job /\ j.kind = "email" /\ j.mode = "delta" /\ j.pc = p /\ j.at = upTo
        /\ j.ids = ids /\ j.dead = dead /\ j.got = job[s].got
        /\ j.expected = job[s].expected /\ j.started = job[s].started
        /\ j.begun = job[s].begun
    <2> HIDE DEF ids, dead, p, n
    <2> QED BY <1>4, <1>5, <1>6, JobFacts DEF Job
  <1>8. \A e \in dead : e \in Emails /\ boxes[e] = {} /\ createdAt[e] # 0
    <2>1. \A e \in gone(upTo, omitted) :
            e \in Emails /\ boxes[e] = {} /\ changedAt[e] > job[s].at
      BY <1>4, <1>5 DEF ChangedIn, Alive
    <2>2. \A e \in gone(upTo, omitted) : createdAt[e] # 0
      BY <2>1, <1>4, ServerFacts
    <2>3. \A e \in job[s].dead : e \in Emails /\ boxes[e] = {} /\ createdAt[e] # 0
      BY <1>4 DEF DeltaOK
    <2> HIDE DEF gone
    <2> QED BY <2>1, <2>2, <2>3
  <1>9. ASSUME NEW e \in Emails, boxes[e] = {}, changedAt[e] > job[s].at, changedAt[e] <= upTo
        PROVE  e \in gone(upTo, omitted) \/ createdAt[e] > job[s].at
    BY <1>2, <1>4, <1>9 DEF ChangedIn, Alive, Omittable
  <1>10. DeltaOK(j)
    <2>1. ASSUME NEW e \in Emails, boxes[e] = {}, job[s].expected < changedAt[e],
                 changedAt[e] <= upTo
          PROVE  e \in dead \/ createdAt[e] > job[s].expected
      <3>1. CASE changedAt[e] <= job[s].at
        BY <1>4, <2>1, <3>1 DEF DeltaOK
      <3>2. CASE changedAt[e] > job[s].at
        <4>1. e \in gone(upTo, omitted) \/ createdAt[e] > job[s].at
          BY <1>9, <2>1, <3>2
        <4> HIDE DEF gone
        <4> QED BY <4>1, <1>4, ServerFacts
      <3> QED BY <3>1, <3>2, <1>4, ServerFacts
    <2> HIDE DEF j, dead
    <2> QED BY <1>4, <1>5, <1>7, <1>8, <2>1, NoneAssumption DEF DeltaOK
  <1>11. EmailJobOK(j) /\ MailboxJobOK(j)
    <2> HIDE DEF j, ids, dead, p, n
    <2> QED BY <1>4, <1>5, <1>6, <1>7, <1>10, ServerFacts, JobFacts
            DEF EmailJobOK, MailboxJobOK
  <1>12. Content => ContentOK(j)
    <2> SUFFICES ASSUME Content, NEW e \in Emails PROVE Collected(j, e)
      BY <1>5, <1>7, NoneAssumption DEF ContentOK
    <2>1. Collected(job[s], e)
      BY <1>4, NoneAssumption DEF Content, ContentOK
    <2>2. /\ e \in ids => e \in job[s].ids \/ (boxes[e] # {} /\ changedAt[e] <= upTo)
          /\ boxes[e] # {} /\ changedAt[e] > job[s].at /\ changedAt[e] <= upTo => e \in ids
          /\ boxes[e] # {} /\ e \in job[s].ids => e \in ids
      BY <1>4 DEF ChangedIn, Alive
    <2>3. e \in j.ids \/ j.got[e] # 0 => createdAt[e] # 0 /\ createdAt[e] <= upTo
      <3> HIDE DEF ids, j
      <3> QED BY <1>4, <1>5, <1>7, <2>1, <2>2, ServerFacts DEF Collected
    <2>4. /\ changedAt[e] <= upTo /\ boxes[e] # {} /\ changedAt[e] > job[s].expected
          => e \in j.ids
      <3> HIDE DEF ids, j
      <3> QED BY <1>4, <1>5, <1>7, <2>1, <2>2, ServerFacts DEF Collected
    <2> HIDE DEF ids, j
    <2> QED BY <1>4, <1>7, <2>3, <2>4 DEF Collected
  <1> HIDE DEF j
  <1> QED BY <1>3, <1>7, <1>11, <1>12, RejectOK DEF GoodStep

\* One batch of Email/get joins the transition.
LEMMA GetBatchOK == ASSUME Inv, NEW s \in Syncs, GetBatch(s) PROVE GoodStep(s)
  <1>1. PICK batch \in SUBSET job[s].ids :
          IF \/ batch # Alive(batch)
             \/ job[s].mode = "replace" /\ job[s].at \notin {None, state}
          THEN Reject(s)
          ELSE Step(s, [job[s] EXCEPT
                         !.at = IF job[s].mode = "replace" THEN state ELSE @,
                         !.got = [e \in Emails |-> IF e \in batch THEN Version(e)
                                                    ELSE job[s].got[e]],
                         !.ids = @ \ batch,
                         !.pc = IF batch = job[s].ids THEN "commit" ELSE "get"])
    BY DEF GetBatch
  <1> DEFINE at == IF job[s].mode = "replace" THEN state ELSE job[s].at
             got == [e \in Emails |-> IF e \in batch THEN Version(e) ELSE job[s].got[e]]
             ids == job[s].ids \ batch
             p == IF batch = job[s].ids THEN "commit" ELSE "get"
             j == [job[s] EXCEPT !.at = at, !.got = got, !.ids = ids, !.pc = p]
  <1>2. \/ Reject(s)
        \/ /\ Step(s, j) /\ batch = Alive(batch)
           /\ job[s].mode = "replace" => job[s].at = None \/ job[s].at = state
    BY <1>1, JobFacts DEF Job
  <1>3. SUFFICES ASSUME Step(s, j), batch = Alive(batch),
                        job[s].mode = "replace" => job[s].at = None \/ job[s].at = state
                 PROVE  GoodStep(s)
    BY <1>2, RejectOK
  <1>4. /\ job[s].pc = "get" /\ job[s].kind = "email"
        /\ job[s].mode \in {"delta", "replace"} /\ state # None /\ state \in Nat
        /\ job[s].mode = "delta" => DeltaOK(job[s]) /\ job[s].at # None
        /\ job[s].started <= state /\ job[s].begun <= state
    BY JobFacts, ServerFacts, NoneAssumption DEF GetBatch, EmailJobOK, DeltaOK, Job
  <1>5. /\ at \in Nat /\ at # None /\ at <= state
        /\ job[s].mode = "delta" => at = job[s].at
        /\ job[s].mode = "replace" => at = state
        /\ job[s].at # None => at = job[s].at
    BY <1>3, <1>4, JobFacts DEF EmailJobOK
  <1>6. /\ p \in JobPC /\ got \in [Emails -> Nat] /\ ids \subseteq Emails
        /\ p = "get" \/ (p = "commit" /\ ids = {})
    <2>1. p \in JobPC /\ (p = "get" \/ (p = "commit" /\ ids = {}))
      BY DEF JobPC
    <2>2. got \in [Emails -> Nat] /\ ids \subseteq Emails
      BY JobFacts, ServerFacts
    <2> HIDE DEF p, got, ids
    <2> QED BY <2>1, <2>2
  <1>7. /\ j \in Job /\ j.kind = "email" /\ j.mode = job[s].mode /\ j.pc = p /\ j.at = at
        /\ j.ids = ids /\ j.dead = job[s].dead /\ j.got = got
        /\ j.expected = job[s].expected /\ j.started = job[s].started
        /\ j.begun = job[s].begun
    <2> HIDE DEF at, got, ids, p
    <2> QED BY <1>4, <1>5, <1>6, JobFacts DEF Job
  <1>8. \A e \in Emails : /\ e \in batch => boxes[e] # {} /\ got[e] = Version(e)
                          /\ e \notin batch => got[e] = job[s].got[e]
                          /\ e \in job[s].ids => e \in ids \/ e \in batch
                          /\ e \in ids \/ e \in batch => e \in job[s].ids
    BY <1>3 DEF Alive
  <1> HIDE DEF at, got, ids, p, j
  <1>9. j.mode = "delta" => DeltaOK(j)
    BY <1>4, <1>5, <1>7 DEF DeltaOK
  <1>10. EmailJobOK(j) /\ MailboxJobOK(j)
    <2>1. /\ j.started <= j.at
          /\ j.expected # None => j.expected <= j.at
      BY <1>4, <1>5, <1>7, JobFacts DEF EmailJobOK
    <2> QED BY <1>4, <1>5, <1>6, <1>7, <1>9, <2>1, JobFacts DEF EmailJobOK, MailboxJobOK
  <1>11. Content => ContentOK(j)
    <2> SUFFICES ASSUME Content, NEW e \in Emails PROVE Collected(j, e)
      BY <1>5, <1>7 DEF ContentOK
    <2>1. CASE job[s].at # None
      <3>1. Collected(job[s], e)
        BY <1>4, <2>1 DEF Content, ContentOK
      <3>2. j.at = job[s].at /\ j.mode = job[s].mode /\ j.expected = job[s].expected
        BY <1>5, <1>7, <2>1
      <3> QED BY <1>7, <1>8, <3>1, <3>2, ServerFacts DEF Collected
    <2>2. CASE job[s].at = None
      <3>1. j.mode = "replace" /\ j.at = state
        BY <1>4, <1>5, <1>7, <2>2
      <3>2. /\ job[s].got[e] = 0
            /\ e \in job[s].ids => createdAt[e] # 0
            /\ boxes[e] # {} => e \in job[s].ids \/ job[s].begun < movedAt[e]
        BY <1>4, <2>2 DEF Content, ContentOK, SnapshotOK
      <3>3. createdAt[e] <= state
        BY ServerFacts
      <3> QED BY <1>7, <1>8, <3>1, <3>2, <3>3, ServerFacts DEF Collected
    <2> QED BY <2>1, <2>2
  <1> QED BY <1>3, <1>7, <1>10, <1>11 DEF GoodStep

\* After its commits a sync only goes through the Mailboxes' views.
LEMMA ViewsOK ==
  ASSUME Inv, NEW s \in Syncs, job[s].pc \in {"list", "views", "write"},
         NEW j \in Job, Step(s, j), j.kind = job[s].kind, j.pc \in {"views", "write"},
         j.expected = job[s].expected, j.started \in {0, job[s].started},
         j.begun = job[s].begun
  PROVE  GoodStep(s)
  <1>1. j.kind = "email"
    BY JobFacts
  <1> QED BY <1>1, JobFacts, ServerFacts DEF GoodStep, MailboxJobOK, EmailJobOK, ContentOK

\* The next Mailbox, or the end of syncAccount.
LEMMA ViewDoneOK ==
  ASSUME Inv, NEW s \in Syncs, NEW m, ViewDone(s, m), job[s].pc \in {"views", "write"}
  PROVE  GoodStep(s)
  <1> DEFINE j == [job[s] EXCEPT !.pc = "views", !.todo = @ \ {m}, !.box = None]
  <1>1. CASE job[s].todo = {m}
    BY <1>1, IdleOK DEF ViewDone, GoodStep
  <1>2. CASE job[s].todo # {m}
    <2>1. Step(s, j)
      BY <1>2 DEF ViewDone
    <2>2. /\ j \in Job /\ j.kind = job[s].kind /\ j.pc = "views"
          /\ j.expected = job[s].expected /\ j.started = job[s].started
          /\ j.begun = job[s].begun
      BY JobFacts DEF Job, JobPC
    <2> HIDE DEF j
    <2> QED BY <2>1, <2>2, ViewsOK
  <1> QED BY <1>1, <1>2

\* The Mailboxes whose views are refreshed.
LEMMA ListMailboxesOK == ASSUME Inv, NEW s \in Syncs, ListMailboxes(s) PROVE GoodStep(s)
  <1> DEFINE j == [job[s] EXCEPT !.pc = "views", !.todo = mailboxes, !.started = 0]
  <1>1. CASE mailboxes = {}
    BY <1>1, IdleOK DEF ListMailboxes, GoodStep
  <1>2. CASE mailboxes # {}
    <2>1. Step(s, j) /\ job[s].pc = "list"
      BY <1>2 DEF ListMailboxes
    <2>2. /\ j \in Job /\ j.kind = job[s].kind /\ j.pc = "views"
          /\ j.expected = job[s].expected /\ j.started = 0 /\ j.begun = job[s].begun
      <3>1. mailboxes \subseteq Mailboxes
        BY DEF Inv, TypeOK
      <3> QED BY <3>1, JobFacts DEF Job, JobPC
    <2> HIDE DEF j
    <2> QED BY <2>1, <2>2, ViewsOK
  <1> QED BY <1>1, <1>2

\* The request for one view.
LEMMA QueryViewOK == ASSUME Inv, NEW s \in Syncs, QueryView(s) PROVE GoodStep(s)
  <1>1. PICK m \in job[s].todo : \/ Step(s, [job[s] EXCEPT !.pc = "write", !.box = m])
                                \/ ViewDone(s, m)
    BY DEF QueryView
  <1>2. job[s].pc = "views"
    BY DEF QueryView
  <1> DEFINE j == [job[s] EXCEPT !.pc = "write", !.box = m]
  <1>3. CASE Step(s, j)
    <2>1. /\ j \in Job /\ j.kind = job[s].kind /\ j.pc = "write"
          /\ j.expected = job[s].expected /\ j.started = job[s].started
          /\ j.begun = job[s].begun
      <3>1. m \in Mailboxes \cup {None} /\ "write" \in JobPC /\ job[s] \in Job
        BY JobFacts DEF JobPC
      <3> QED BY <3>1 DEF Job
    <2> HIDE DEF j
    <2> QED BY <1>2, <1>3, <2>1, ViewsOK
  <1>4. CASE ViewDone(s, m)
    BY <1>2, <1>4, ViewDoneOK
  <1> QED BY <1>1, <1>3, <1>4

-----------------------------------------------------------------------------
(***************************************************************************)
(* Steps that leave the server, the cursors and the projection alone.       *)
(***************************************************************************)
\* The locals of every sync stay good when one sync makes a good step, or none does.
LEMMA JobsStable ==
  ASSUME Inv, UNCHANGED <<server, cursor>>,
         UNCHANGED job \/ \E s \in Syncs : GoodStep(s)
  PROVE  /\ job' \in [Syncs -> Job] /\ JobsOK'
         /\ Content => (\A s \in Syncs : ContentOK(job[s]))'
  <1>1. \A s \in Syncs : /\ job'[s] \in Job /\ MailboxJobOK(job'[s]) /\ EmailJobOK(job'[s])
                         /\ Content => ContentOK(job'[s])
    <2>1. \A s \in Syncs : /\ job[s] \in Job /\ MailboxJobOK(job[s]) /\ EmailJobOK(job[s])
                           /\ Content => ContentOK(job[s])
      BY DEF Inv, TypeOK, JobsOK, Content
    <2>2. CASE UNCHANGED job
      BY <2>1, <2>2
    <2>3. CASE \E s \in Syncs : GoodStep(s)
      <3>1. PICK s \in Syncs, j \in Job :
               /\ job' = [job EXCEPT ![s] = j]
               /\ MailboxJobOK(j) /\ EmailJobOK(j) /\ (Content => ContentOK(j))
        BY <2>3 DEF GoodStep, Step
      <3>2. job \in [Syncs -> Job]
        BY DEF Inv, TypeOK
      <3>3. \A t \in Syncs : job'[t] = IF t = s THEN j ELSE job[t]
        BY <3>1, <3>2
      <3> QED BY <2>1, <3>1, <3>3
    <2> QED BY <2>2, <2>3
  <1>2. job' \in [Syncs -> Job]
    <2>1. job' = [s \in Syncs |-> job'[s]]
      <3>1. job = [s \in Syncs |-> job[s]]
        BY DEF Inv, TypeOK
      <3> QED BY <3>1 DEF GoodStep, Step
    <2> QED BY <1>1, <2>1
  <1>3. \A s \in Syncs : MailboxJobOK(job[s])' /\ EmailJobOK(job[s])'
    BY <1>1 DEF MailboxJobOK, EmailJobOK, DeltaOK, server
  <1>4. Content => \A s \in Syncs : ContentOK(job[s])'
    BY <1>1 DEF ContentOK, Collected, SnapshotOK, Version, server
  <1> QED BY <1>2, <1>3, <1>4 DEF JobsOK

\* Such a step preserves both invariants when its caches have an owner.
LEMMA StableStep ==
  ASSUME Inv, UNCHANGED <<server, cursor, local, mailboxes, missed>>,
         UNCHANGED job \/ \E s \in Syncs : GoodStep(s),
         fetch' \in [Fetches -> Emails \cup {None}],
         views' \subseteq mailboxes,
         \A e \in bodies' : e \in Emails /\ local[e] # 0
  PROVE  Inv' /\ (Content => Content')
  <1>1. /\ job' \in [Syncs -> Job] /\ JobsOK'
        /\ Content => (\A s \in Syncs : ContentOK(job[s]))'
    BY JobsStable
  <1>2. TypeOK'
    BY <1>1 DEF Inv, TypeOK, server
  <1>3. ServerOK' /\ CursorOK' /\ CachesOwned'
    BY DEF Inv, ServerOK, CursorOK, CachesOwned, server
  <1>4. Content => NoLostChange' /\ LocalOK'
    BY DEF Content, NoLostChange, Projected, LocalOK, Version, server
  <1> QED BY <1>1, <1>2, <1>3, <1>4 DEF Inv, Content

\* A step of a sync that touches nothing but its own locals.
LEMMA JobStep ==
  ASSUME Inv, NEW s \in Syncs, GoodStep(s), UNCHANGED <<server, database, fetch>>
  PROVE  Inv' /\ (Content => Content')
  <1>1. UNCHANGED <<cursor, local, mailboxes, missed>> /\ views' = views /\ bodies' = bodies
    BY DEF database
  <1>2. /\ fetch' \in [Fetches -> Emails \cup {None}]
        /\ views' \subseteq mailboxes
        /\ \A e \in bodies' : e \in Emails /\ local[e] # 0
    BY <1>1 DEF Inv, TypeOK, CachesOwned
  <1> QED BY <1>1, <1>2, StableStep

\* A view is written, or its Mailbox is gone.
LEMMA WriteViewStep ==
  ASSUME Inv, NEW s \in Syncs, WriteView(s) PROVE Inv' /\ (Content => Content')
  <1>1. GoodStep(s)
    BY ViewDoneOK, RejectOK DEF WriteView
  <1>2. views' \subseteq mailboxes
    BY DEF WriteView, Inv, CachesOwned
  <1>3. /\ UNCHANGED <<server, cursor, local, mailboxes, missed>>
        /\ bodies' = bodies /\ fetch' = fetch
    BY DEF WriteView
  <1>4. /\ fetch' \in [Fetches -> Emails \cup {None}]
        /\ \A e \in bodies' : e \in Emails /\ local[e] # 0
    BY <1>3 DEF Inv, TypeOK, CachesOwned
  <1> QED BY <1>1, <1>2, <1>3, <1>4, StableStep

\* The steps of a body materialization.
LEMMA BodyStep ==
  ASSUME Inv, NEW f \in Fetches,
         (\E e \in Emails : BodyStart(f, e)) \/ BodyFails(f) \/ BodyWritten(f)
  PROVE  Inv' /\ (Content => Content')
  <1>1. /\ fetch \in [Fetches -> Emails \cup {None}] /\ views \subseteq mailboxes
        /\ \A e \in bodies : e \in Emails /\ local[e] # 0
    BY DEF Inv, TypeOK, CachesOwned
  <1>2. /\ UNCHANGED <<server, cursor, local, mailboxes, missed>>
        /\ UNCHANGED job /\ views' = views
    BY DEF BodyStart, BodyFails, BodyWritten, database
  <1>3. fetch' \in [Fetches -> Emails \cup {None}]
    BY <1>1 DEF BodyStart, BodyFails, BodyWritten
  <1>4. \A e \in bodies' : e \in Emails /\ local[e] # 0
    BY <1>1 DEF BodyStart, BodyFails, BodyWritten, database
  <1> QED BY <1>1, <1>2, <1>3, <1>4, StableStep

-----------------------------------------------------------------------------
(***************************************************************************)
(* Commits.                                                                 *)
(***************************************************************************)
\* The transaction of a commit: the cursor was the expected one.
Applies(s) == /\ job[s].pc = "commit"
              /\ CursorMatches(job[s].kind, job[s].expected)
              /\ cursor' = [cursor EXCEPT ![job[s].kind] = job[s].at]
              /\ IF job[s].kind = "email" THEN ApplyEmails(job[s]) ELSE ApplyMailboxes(job[s])
              /\ Committed(s)
              /\ UNCHANGED <<server, fetch>>

\* The cursor of the committed collection moves forward to the state of the
\* transition; the other one stays.
LEMMA CursorMoves ==
  ASSUME Inv, NEW s \in Syncs, Applies(s)
  PROVE  /\ job[s].at \in Nat /\ job[s].at # None
         /\ cursor[job[s].kind] = job[s].expected
         /\ job[s].expected # None => job[s].expected \in Nat /\ job[s].expected <= job[s].at
         /\ cursor' \in [Kinds -> Nat \cup {None}]
         /\ \A k \in Kinds : cursor'[k] = IF k = job[s].kind THEN job[s].at ELSE cursor[k]
         /\ job[s].kind = "email" => /\ job[s].at <= state /\ job[s].started <= job[s].at
                                     /\ job[s].ids = {}
         /\ job[s].kind = "mailbox" => job[s].at <= folders.state
  <1>1. job[s].pc = "commit" /\ cursor[job[s].kind] = job[s].expected
    BY DEF Applies, CursorMatches
  <1>2. CASE job[s].kind = "email"
    <2>1. /\ job[s].at # None /\ job[s].at <= state /\ job[s].started <= job[s].at
          /\ job[s].ids = {} /\ (job[s].expected # None => job[s].expected <= job[s].at)
      BY <1>1, <1>2, JobFacts DEF EmailJobOK
    <2>2. job[s].at \in Nat /\ job[s].expected \in Nat \cup {None}
      BY <2>1, JobFacts
    <2>3. cursor \in [Kinds -> Nat \cup {None}] /\ cursor' = [cursor EXCEPT !["email"] = job[s].at]
      BY <1>2 DEF Applies, Inv, TypeOK
    <2> QED BY <1>1, <1>2, <2>1, <2>2, <2>3
  <1>3. CASE job[s].kind = "mailbox"
    <2>1. /\ job[s].at # None /\ job[s].at <= folders.state
          /\ job[s].expected # None => job[s].expected <= job[s].at
      BY <1>1, <1>3, JobFacts DEF MailboxJobOK
    <2>2. job[s].at \in Nat /\ job[s].expected \in Nat \cup {None}
      BY <2>1, JobFacts
    <2>3. cursor \in [Kinds -> Nat \cup {None}] /\ cursor' = [cursor EXCEPT !["mailbox"] = job[s].at]
      BY <1>3 DEF Applies, Inv, TypeOK
    <2> QED BY <1>1, <1>3, <2>1, <2>2, <2>3
  <1> QED BY <1>2, <1>3, JobFacts DEF Kinds

\* The locals of the sync that committed, and of the others.
LEMMA CommitJobs ==
  ASSUME Inv, NEW s \in Syncs, Applies(s)
  PROVE  /\ job' \in [Syncs -> Job] /\ JobsOK'
         /\ Content => (\A t \in Syncs : ContentOK(job[t]))'
  <1> DEFINE p == IF job[s].kind = "email" THEN "list" ELSE "cursor"
             j == [Idle EXCEPT !.started = job[s].started, !.kind = "email", !.pc = p]
  <1>1. job' = [job EXCEPT ![s] = j] /\ job \in [Syncs -> Job]
    BY DEF Applies, Committed, Step, Inv, TypeOK
  <1>2. p \in JobPC /\ (p = "cursor" \/ (p = "list" /\ job[s].kind = "email"))
    BY DEF JobPC
  <1>3. /\ j \in Job /\ j.kind = "email" /\ j.pc = p /\ j.started = job[s].started
        /\ j.expected = None /\ j.begun = 0
    <2> HIDE DEF p
    <2> QED BY <1>2, JobFacts DEF Idle, Job, Kinds
  <1> HIDE DEF p, j
  <1>4. job' \in [Syncs -> Job] /\ \A t \in Syncs : job'[t] = IF t = s THEN j ELSE job[t]
    BY <1>1, <1>3
  <1>5. UNCHANGED <<state, boxes, changedAt, createdAt, movedAt, folders>>
    BY DEF Applies, server
  <1>6. cursor'["email"] = IF job[s].kind = "email" THEN job[s].at ELSE cursor["email"]
    BY CursorMoves, JobFacts DEF Kinds
  <1>7. job[s].started <= state /\ state \in Nat
    BY JobFacts, ServerFacts DEF EmailJobOK, MailboxJobOK, Kinds
  <1>8. ASSUME NEW t \in Syncs PROVE MailboxJobOK(job[t])' /\ EmailJobOK(job[t])'
    <2>1. CASE t = s
      <3>1. job'[t] = j
        BY <1>4, <2>1
      <3>2. j.pc = "list" => cursor'["email"] # None /\ j.started <= cursor'["email"]
        BY <1>2, <1>3, <1>6, CursorMoves
      <3> QED BY <1>2, <1>3, <1>5, <1>7, <3>1, <3>2 DEF MailboxJobOK, EmailJobOK
    <2>2. CASE t # s
      <3>1. job'[t] = job[t] /\ MailboxJobOK(job[t]) /\ EmailJobOK(job[t])
        BY <1>4, <2>2, JobFacts
      <3>2. cursor["email"] # None => cursor'["email"] # None /\ cursor'["email"] >= cursor["email"]
        <4>1. cursor["email"] \in Nat \cup {None}
          BY DEF Inv, TypeOK, Kinds
        <4> QED BY <1>6, <4>1, CursorMoves
      <3>3. job[t].kind = "email" /\ job[t].pc = "list" =>
               cursor'["email"] # None /\ job[t].started <= cursor'["email"]
        <4>1. cursor["email"] \in Nat \cup {None} /\ cursor'["email"] \in Nat \cup {None}
          BY CursorMoves DEF Inv, TypeOK, Kinds
        <4>2. job[t].started \in Nat
          BY JobFacts
        <4> QED BY <3>1, <3>2, <4>1, <4>2 DEF EmailJobOK
      <3> QED BY <1>5, <3>1, <3>3 DEF MailboxJobOK, EmailJobOK, DeltaOK
    <2> QED BY <2>1, <2>2
  <1>9. ASSUME Content, NEW t \in Syncs PROVE ContentOK(job[t])'
    <2>1. CASE t = s
      <3>1. job'[t] = j
        BY <1>4, <2>1
      <3> QED BY <1>2, <1>3, <3>1 DEF ContentOK
    <2>2. CASE t # s
      <3>1. job'[t] = job[t] /\ ContentOK(job[t])
        BY <1>4, <1>9, <2>2 DEF Content
      <3> QED BY <1>5, <3>1 DEF ContentOK, Collected, SnapshotOK, Version
    <2> QED BY <2>1, <2>2
  <1> QED BY <1>4, <1>8, <1>9 DEF JobsOK

\* The commit of the Mailboxes.
LEMMA CommitMailboxes ==
  ASSUME Inv, NEW s \in Syncs, Applies(s), job[s].kind = "mailbox"
  PROVE  Inv' /\ (Content => Content')
  <1>1. /\ mailboxes' = job[s].todo /\ views' = views \cap job[s].todo
        /\ local' = local /\ bodies' = bodies /\ fetch' = fetch /\ missed' = missed
    BY DEF Applies, ApplyMailboxes
  <1>2. UNCHANGED <<state, boxes, changedAt, createdAt, movedAt, folders>>
    BY DEF Applies, server
  <1>3. cursor'["mailbox"] = job[s].at /\ cursor'["email"] = cursor["email"]
    BY CursorMoves DEF Kinds
  <1>4. TypeOK'
    BY <1>1, <1>2, CursorMoves, CommitJobs, JobFacts DEF Inv, TypeOK
  <1>5. ServerOK' /\ CursorOK' /\ CachesOwned'
    BY <1>1, <1>2, <1>3, CursorMoves DEF Inv, ServerOK, CursorOK, CachesOwned
  <1>6. job[s].at = folders.state => job[s].todo = folders.items
    BY JobFacts DEF MailboxJobOK, Applies
  <1>7. Content => NoLostChange' /\ LocalOK'
    BY <1>1, <1>2, <1>3, <1>6 DEF Content, NoLostChange, Projected, LocalOK, Version
  <1> QED BY <1>4, <1>5, <1>7, CommitJobs DEF Inv, Content

\* The commit of a delta or of a snapshot of the Emails: what did not change after
\* its state is projected as the server has it.
LEMMA CommitEmails ==
  ASSUME Inv, NEW s \in Syncs, Applies(s), job[s].kind = "email"
  PROVE  Inv' /\ (Content => Content')
  <1> DEFINE j == job[s]
             gone == Deleted(j)
  <1>1. /\ local' = [e \in Emails |-> IF e \in gone THEN 0
                                     ELSE IF j.got[e] # 0 THEN j.got[e] ELSE local[e]]
        /\ bodies' = bodies \ gone
        /\ missed' = Missing(j)
        /\ mailboxes' = mailboxes /\ views' = views /\ fetch' = fetch
    BY DEF Applies, ApplyEmails
  <1>2. UNCHANGED <<state, boxes, changedAt, createdAt, movedAt, folders>>
    BY DEF Applies, server
  <1>3. cursor'["email"] = j.at /\ cursor'["mailbox"] = cursor["mailbox"]
    BY CursorMoves DEF Kinds
  <1>4. \A e \in Emails : /\ j.got[e] \in Nat /\ local[e] \in Nat
                          /\ e \in gone => local'[e] = 0
                          /\ e \notin gone /\ j.got[e] # 0 => local'[e] = j.got[e]
                          /\ e \notin gone /\ j.got[e] = 0 => local'[e] = local[e]
    <2>1. \A e \in Emails : j.got[e] \in Nat /\ local[e] \in Nat
      BY JobFacts DEF Inv, TypeOK
    <2> HIDE DEF gone, j
    <2> QED BY <1>1, <2>1
  <1>5. local' \in [Emails -> Nat]
    <2>1. local' = [e \in Emails |-> local'[e]]
      BY <1>1
    <2> HIDE DEF gone, j
    <2>2. \A e \in Emails : local'[e] \in Nat
      BY <1>4
    <2> QED BY <2>1, <2>2
  <1>6. TypeOK'
    <2>1. missed' \subseteq Emails
      BY <1>1 DEF Missing, Inv, TypeOK
    <2> QED BY <1>1, <1>2, <1>5, <2>1, CursorMoves, CommitJobs DEF Inv, TypeOK
  <1>7. ServerOK' /\ CursorOK' /\ CachesOwned'
    <2>1. ServerOK' /\ CursorOK'
      BY <1>2, <1>3, CursorMoves DEF Inv, ServerOK, CursorOK
    <2>2. \A e \in bodies \ gone : e \in Emails /\ local[e] # 0
      BY DEF Inv, TypeOK, CachesOwned
    <2>3. views \subseteq mailboxes
      BY DEF Inv, CachesOwned
    <2> HIDE DEF gone, j
    <2> QED BY <1>1, <1>4, <2>1, <2>2, <2>3 DEF CachesOwned
  <1>8. ASSUME Content, NEW e \in Emails
        PROVE  /\ changedAt[e] <= j.at =>
                     local'[e] = Version(e) \/ (e \in Missing(j) /\ local'[e] = 0)
               /\ local'[e] # 0 => createdAt[e] # 0 /\ createdAt[e] <= j.at
    <2>1. Collected(j, e) /\ j.ids = {} /\ j.at \in Nat
      BY <1>8, CursorMoves DEF Content, ContentOK, Applies
    <2>2. CASE j.mode = "replace"
      <3>1. e \in gone <=> j.got[e] = 0
        BY <2>2 DEF Deleted
      <3>2. CASE j.got[e] # 0
        <4> HIDE DEF gone, j
        <4> QED BY <1>4, <2>1, <3>1, <3>2 DEF Collected
      <3>3. CASE j.got[e] = 0
        <4>1. local'[e] = 0
          BY <1>4, <3>1, <3>3
        <4>2. CASE boxes[e] = {}
          BY <4>1, <4>2, ServerFacts
        <4>3. CASE boxes[e] # {} /\ changedAt[e] <= j.at
          <5>1. j.begun < movedAt[e]
            BY <2>1, <2>2, <3>3, <4>3 DEF Collected
          <5>2. e \in Missing(j)
            BY <2>2, <3>3, <4>3, <5>1 DEF Missing
          <5> QED BY <4>1, <5>2
        <4> QED BY <4>1, <4>2, <4>3
      <3> QED BY <3>2, <3>3
    <2>3. CASE j.mode = "delta"
      <3>1. DeltaOK(j) /\ cursor["email"] = j.expected /\ j.expected \in Nat
            /\ j.expected # None /\ j.expected <= j.at
        BY <2>3, JobFacts, CursorMoves DEF EmailJobOK, DeltaOK, Applies
      <3>2. /\ changedAt[e] <= j.expected =>
                  local[e] = Version(e) \/ (e \in missed /\ local[e] = 0)
            /\ local[e] # 0 => createdAt[e] # 0 /\ createdAt[e] <= j.expected
        BY <1>8, <3>1 DEF Content, NoLostChange, Projected, LocalOK
      <3>3. e \in gone <=> e \in j.dead
        BY <2>3 DEF Deleted
      <3>4. e \in missed /\ changedAt[e] <= j.expected => e \in Missing(j)
        BY <2>3 DEF Missing
      <3>5. e \in j.dead => boxes[e] = {}
        BY <3>1 DEF DeltaOK
      <3> HIDE DEF gone, j
      <3>6. local'[e] # 0 => createdAt[e] # 0 /\ createdAt[e] <= j.at
        BY <1>4, <2>1, <3>1, <3>2, ServerFacts DEF Collected
      <3>7. CASE e \in gone
        BY <1>4, <3>3, <3>5, <3>6, <3>7, ServerFacts
      <3>8. CASE e \notin gone /\ j.got[e] # 0
        BY <1>4, <2>1, <3>6, <3>8 DEF Collected
      <3>9. ASSUME e \notin gone, j.got[e] = 0, changedAt[e] <= j.at
            PROVE  local'[e] = Version(e) \/ (e \in Missing(j) /\ local'[e] = 0)
        <4>1. local'[e] = local[e]
          BY <1>4, <3>9
        <4>2. CASE changedAt[e] <= j.expected
          BY <3>2, <3>4, <4>1, <4>2
        <4>3. CASE changedAt[e] > j.expected
          <5>1. boxes[e] = {}
            BY <2>1, <2>3, <3>1, <3>9, <4>3, ServerFacts DEF Collected
          <5>2. createdAt[e] > j.expected
            BY <3>1, <3>3, <3>9, <4>3, <5>1 DEF DeltaOK
          <5>3. local[e] = 0
            BY <3>1, <3>2, <5>2, ServerFacts
          <5> QED BY <4>1, <5>1, <5>3, ServerFacts
        <4> QED BY <3>1, <4>2, <4>3, ServerFacts
      <3> QED BY <3>6, <3>7, <3>8, <3>9
    <2> QED BY <2>2, <2>3, JobFacts DEF Job
  <1>9. Content => NoLostChange' /\ LocalOK'
    <2> SUFFICES ASSUME Content PROVE NoLostChange' /\ LocalOK'
      OBVIOUS
    <2>1. /\ \A e \in Emails : changedAt[e] <= j.at =>
                local'[e] = Version(e) \/ (e \in missed' /\ local'[e] = 0)
          /\ \A e \in Emails : local'[e] # 0 => createdAt[e] # 0 /\ createdAt[e] <= j.at
      BY <1>1, <1>8
    <2>2. \A e \in Emails : Version(e)' = Version(e)
      BY <1>2 DEF Version
    <2>3. cursor["mailbox"] = folders.state => mailboxes = folders.items
      BY DEF Content, NoLostChange
    <2> HIDE DEF j
    <2>4. NoLostChange'
      BY <1>1, <1>2, <1>3, <2>1, <2>2, <2>3 DEF NoLostChange, Projected
    <2>5. cursor'["email"] # None
      BY <1>3, CursorMoves DEF j
    <2> QED BY <1>2, <1>3, <2>1, <2>4, <2>5 DEF LocalOK
  <1> QED BY <1>6, <1>7, <1>9, CommitJobs DEF Inv, Content

\* A commit, or a conflict.
LEMMA CommitStep ==
  ASSUME Inv, NEW s \in Syncs, Commit(s) PROVE Inv' /\ (Content => Content')
  <1>1. \/ Applies(s)
        \/ Conflict(s) /\ UNCHANGED <<server, database, fetch>>
    BY DEF Commit, Applies
  <1>2. CASE Applies(s)
    BY <1>2, CommitEmails, CommitMailboxes, JobFacts DEF Kinds
  <1>3. CASE Conflict(s) /\ UNCHANGED <<server, database, fetch>>
    BY <1>3, ConflictOK, JobStep
  <1> QED BY <1>1, <1>2, <1>3

-----------------------------------------------------------------------------
(***************************************************************************)
(* The server.                                                              *)
(***************************************************************************)
\* A change of the Email e: it is created, or it exists.
Changes(e, S) == /\ S \subseteq folders.items
                 /\ \/ /\ createdAt[e] = 0 /\ S # {}
                       /\ createdAt' = [createdAt EXCEPT ![e] = state + 1]
                    \/ boxes[e] # {} /\ UNCHANGED createdAt
                 /\ Change(e, S)

\* What a change leaves alone: everything about the other Emails, and the past.
LEMMA ChangeFacts ==
  ASSUME Inv, NEW e \in Emails, NEW S \in SUBSET Mailboxes, Changes(e, S)
  PROVE  /\ state' = state + 1 /\ state \in Nat
         /\ boxes' \in [Emails -> SUBSET Mailboxes]
         /\ changedAt' \in [Emails -> Nat] /\ createdAt' \in [Emails -> Nat]
         /\ \A x \in Emails \ {e} : /\ boxes'[x] = boxes[x] /\ changedAt'[x] = changedAt[x]
                                     /\ createdAt'[x] = createdAt[x]
         /\ boxes'[e] = S /\ changedAt'[e] = state + 1
         /\ createdAt[e] # 0 => createdAt'[e] = createdAt[e] /\ boxes[e] # {}
         /\ createdAt[e] = 0 => createdAt'[e] = state + 1
         /\ movedAt' \in [Emails -> Nat]
         /\ \A x \in Emails \ {e} : movedAt'[x] = movedAt[x]
         /\ movedAt'[e] = IF S \in {{}, boxes[e]} THEN movedAt[e] ELSE state + 1
         /\ UNCHANGED <<folders, database, job, fetch>>
  <1>1. /\ state \in Nat /\ boxes \in [Emails -> SUBSET Mailboxes]
        /\ changedAt \in [Emails -> Nat] /\ createdAt \in [Emails -> Nat]
        /\ movedAt \in [Emails -> Nat]
        /\ boxes[e] # {} => createdAt[e] # 0
    BY DEF Inv, TypeOK, ServerOK
  <1>2. /\ state' = state + 1 /\ boxes' = [boxes EXCEPT ![e] = S]
        /\ changedAt' = [changedAt EXCEPT ![e] = state + 1]
        /\ movedAt' = [movedAt EXCEPT ![e] = IF S \in {{}, boxes[e]} THEN @ ELSE state + 1]
        /\ UNCHANGED <<folders, database, job, fetch>>
        /\ \/ createdAt[e] = 0 /\ createdAt' = [createdAt EXCEPT ![e] = state + 1]
           \/ boxes[e] # {} /\ createdAt' = createdAt
    BY DEF Changes, Change
  <1> QED BY <1>1, <1>2

\* The locals of a sync stay good: what happens now is later than their state.
LEMMA ChangeJobs ==
  ASSUME Inv, NEW e \in Emails, NEW S \in SUBSET Mailboxes, Changes(e, S), NEW s \in Syncs
  PROVE  /\ MailboxJobOK(job[s])' /\ EmailJobOK(job[s])'
         /\ Content => ContentOK(job[s])'
  <1> DEFINE j == job[s]
  <1>1. j' = j /\ UNCHANGED <<folders, cursor, job>> /\ state' = state + 1 /\ state \in Nat
    BY ChangeFacts DEF database
  <1>2. MailboxJobOK(j)'
    BY <1>1, JobFacts DEF MailboxJobOK
  <1>3. ASSUME j.kind = "email", DeltaOK(j), j.at \in Nat, j.at <= state PROVE DeltaOK(j)'
    <2>1. ASSUME NEW x \in j.dead
          PROVE  x \in Emails /\ boxes'[x] = {} /\ createdAt'[x] # 0
      BY <1>3, <2>1, ChangeFacts DEF DeltaOK
    <2>2. ASSUME NEW x \in Emails, boxes'[x] = {}, j.expected < changedAt'[x],
                 changedAt'[x] <= j.at
          PROVE  x \in j.dead \/ createdAt'[x] > j.expected
      <3>1. x # e
        BY <1>1, <1>3, <2>2, ChangeFacts
      <3> QED BY <1>3, <2>2, <3>1, ChangeFacts DEF DeltaOK
    <2>3. j.expected # None /\ j.at # None
      BY <1>3 DEF DeltaOK
    <2> HIDE DEF j
    <2> QED BY <1>1, <2>1, <2>2, <2>3 DEF DeltaOK
  <1>4. EmailJobOK(j)'
    <2> SUFFICES ASSUME j.kind = "email" PROVE EmailJobOK(j)'
      BY <1>1 DEF EmailJobOK
    <2>1. EmailJobOK(j) /\ j.at \in Nat \cup {None} /\ j.expected \in Nat \cup {None}
          /\ j.started \in Nat /\ j.begun \in Nat
      BY JobFacts
    <2>2. j.pc \in {"changes", "get", "commit"} /\ j.mode = "delta" => DeltaOK(j)'
      <3>1. j.pc \in {"changes", "get", "commit"} /\ j.mode = "delta" =>
              DeltaOK(j) /\ j.at \in Nat /\ j.at <= state
        BY <2>1 DEF EmailJobOK, DeltaOK
      <3> QED BY <1>3, <3>1
    <2> HIDE DEF j
    <2> QED BY <1>1, <2>1, <2>2 DEF EmailJobOK
  <1>5. ASSUME Content PROVE ContentOK(j)'
    <2> SUFFICES ASSUME j.kind = "email" PROVE ContentOK(j)'
      BY <1>1 DEF ContentOK
    <2>1. ContentOK(j) /\ EmailJobOK(j) /\ j.at \in Nat \cup {None} /\ j \in Job
      BY <1>5, JobFacts DEF Content
    <2>2. ASSUME j.pc \in {"changes", "get", "commit"}, j.at # None, NEW x \in Emails
          PROVE  Collected(j, x)'
      <3>1. Collected(j, x) /\ j.at \in Nat /\ j.at <= state
        BY <2>1, <2>2 DEF ContentOK, EmailJobOK
      <3>2. CASE x = e
        <4>1. ~(changedAt'[x] <= j.at)
          BY <3>1, <3>2, ChangeFacts
        <4>2. createdAt[x] # 0 => createdAt'[x] = createdAt[x]
          BY <3>2, ChangeFacts
        <4>3. \/ boxes'[x] = {}
              \/ boxes[x] # {} /\ movedAt'[x] = movedAt[x]
              \/ j.begun < movedAt'[x]
          BY <2>1, <3>2, ChangeFacts, JobFacts DEF EmailJobOK
        <4> HIDE DEF j
        <4> QED BY <1>1, <3>1, <4>1, <4>2, <4>3 DEF Collected
      <3>3. CASE x # e
        <4>1. /\ boxes'[x] = boxes[x] /\ changedAt'[x] = changedAt[x]
              /\ createdAt'[x] = createdAt[x] /\ movedAt'[x] = movedAt[x]
          BY <3>3, ChangeFacts
        <4> HIDE DEF j
        <4> QED BY <1>1, <3>1, <4>1 DEF Collected, Version
      <3> QED BY <3>2, <3>3
    <2>3. ASSUME j.pc \in {"query", "get"}, j.at = None PROVE SnapshotOK(j)'
      <3>1. SnapshotOK(j) /\ j.begun \in Nat /\ j.begun <= state /\ j.ids \subseteq Emails
        BY <2>1, <2>3, JobFacts DEF ContentOK, EmailJobOK
      <3>2. ASSUME NEW x \in j.ids PROVE createdAt'[x] # 0
        BY <3>1, <3>2, ChangeFacts DEF SnapshotOK
      <3>3. ASSUME NEW x \in Emails, boxes'[x] # {}
            PROVE  \/ x \in j.ids
                   \/ j.pc = "query" /\ boxes'[x] \cap j.todo # {}
                   \/ j.begun < movedAt'[x]
        <4>1. \/ boxes'[x] = boxes[x] /\ movedAt'[x] = movedAt[x]
              \/ j.begun < movedAt'[x]
          BY <3>1, <3>3, ChangeFacts
        <4> QED BY <3>1, <3>3, <4>1 DEF SnapshotOK
      <3> HIDE DEF j
      <3> QED BY <1>1, <3>1, <3>2, <3>3 DEF SnapshotOK
    <2> HIDE DEF j
    <2> QED BY <1>1, <2>2, <2>3 DEF ContentOK
  <1> QED BY <1>2, <1>4, <1>5

\* A change of an Email preserves both invariants.
LEMMA ChangeStep ==
  ASSUME Inv, NEW e \in Emails, NEW S \in SUBSET Mailboxes, Changes(e, S)
  PROVE  Inv' /\ (Content => Content')
  <1>1. UNCHANGED <<folders, cursor, local, mailboxes, views, bodies, missed, job, fetch>>
    BY ChangeFacts DEF database
  <1>2. TypeOK'
    BY <1>1, ChangeFacts DEF Inv, TypeOK
  <1>3. ServerOK'
    <2> SUFFICES ASSUME NEW x \in Emails
                 PROVE  /\ createdAt'[x] <= changedAt'[x] /\ changedAt'[x] <= state'
                        /\ boxes'[x] # {} \/ changedAt'[x] # 0 => createdAt'[x] # 0
                        /\ boxes'[x] \subseteq folders.items
      BY <1>1 DEF ServerOK
    <2>1. S \subseteq folders.items /\ boxes[x] \subseteq folders.items
      BY DEF Changes, Inv, ServerOK
    <2>2. CASE x = e
      BY <2>1, <2>2, ChangeFacts, ServerFacts
    <2>3. CASE x # e
      BY <2>1, <2>3, ChangeFacts, ServerFacts
    <2> QED BY <2>2, <2>3
  <1>4. CursorOK' /\ CachesOwned'
    <2>1. cursor["email"] \in Nat \cup {None}
      BY DEF Inv, TypeOK, Kinds
    <2> QED BY <1>1, <2>1, ChangeFacts DEF Inv, CursorOK, CachesOwned
  <1>5. JobsOK'
    BY ChangeJobs DEF JobsOK
  <1>6. ASSUME Content PROVE Content'
    <2>1. cursor["email"] # None => cursor["email"] \in Nat /\ cursor["email"] <= state
      BY DEF Inv, TypeOK, CursorOK, Kinds
    <2>2. ASSUME cursor["email"] # None, NEW x \in Emails, changedAt'[x] <= cursor["email"]
          PROVE  Projected(x)'
      <3>1. x # e
        BY <2>1, <2>2, ChangeFacts
      <3>2. boxes'[x] = boxes[x] /\ changedAt'[x] = changedAt[x]
        BY <3>1, ChangeFacts
      <3> QED BY <1>1, <1>6, <2>2, <3>2 DEF Content, NoLostChange, Projected, Version
    <2>3. NoLostChange'
      BY <1>1, <1>6, <2>2 DEF NoLostChange, Content
    <2>4. LocalOK'
      <3> SUFFICES ASSUME NEW x \in Emails, local[x] # 0
                   PROVE  /\ cursor["email"] # None /\ createdAt'[x] # 0
                          /\ createdAt'[x] <= cursor["email"]
        BY <1>1 DEF LocalOK
      <3>1. /\ cursor["email"] # None /\ createdAt[x] # 0
            /\ createdAt[x] <= cursor["email"]
        BY <1>6 DEF Content, LocalOK
      <3> QED BY <3>1, ChangeFacts
    <2> QED BY <1>6, <2>3, <2>4, ChangeJobs DEF Content
  <1> QED BY <1>2, <1>3, <1>4, <1>5, <1>6 DEF Inv

\* A change of the Mailboxes preserves both invariants.
LEMMA FoldersStep ==
  ASSUME Inv, NEW S \in SUBSET Mailboxes, ChangeFolders(S)
  PROVE  Inv' /\ (Content => Content')
  <1>1. /\ UNCHANGED <<state, boxes, changedAt, createdAt, movedAt, cursor, local, mailboxes,
                       views, bodies, missed, job, fetch>>
        /\ folders' = [state |-> folders.state + 1, items |-> S]
        /\ folders'.state = folders.state + 1 /\ folders'.items = S
        /\ \A e \in Emails : boxes[e] \subseteq S
    BY DEF ChangeFolders, database
  <1>2. folders.state \in Nat /\ cursor["mailbox"] \in Nat \cup {None}
    BY DEF Inv, TypeOK, Kinds
  <1>3. TypeOK'
    BY <1>1, <1>2 DEF Inv, TypeOK
  <1>4. ServerOK' /\ CachesOwned'
    BY <1>1 DEF Inv, ServerOK, CachesOwned
  <1>5. CursorOK'
    BY <1>1, <1>2 DEF Inv, CursorOK
  <1>6. \A s \in Syncs : MailboxJobOK(job[s])'
    <2> SUFFICES ASSUME NEW s \in Syncs PROVE MailboxJobOK(job[s])'
      OBVIOUS
    <2>1. MailboxJobOK(job[s]) /\ job[s].at \in Nat \cup {None}
          /\ job[s].expected \in Nat \cup {None}
      BY JobFacts
    <2> QED BY <1>1, <1>2, <2>1 DEF MailboxJobOK
  <1>7. \A s \in Syncs : EmailJobOK(job[s])'
    BY <1>1 DEF Inv, JobsOK, EmailJobOK, DeltaOK
  <1>8. ASSUME Content PROVE Content'
    <2>1. \A s \in Syncs : ContentOK(job[s])'
      BY <1>1, <1>8 DEF Content, ContentOK, Collected, SnapshotOK, Version
    <2>2. LocalOK'
      BY <1>1, <1>8 DEF Content, LocalOK
    <2>3. cursor'["mailbox"] # folders'.state
      BY <1>1, <1>2, NoneAssumption DEF Inv, CursorOK
    <2>4. NoLostChange'
      BY <1>1, <1>8, <2>3 DEF Content, NoLostChange, Projected, Version
    <2> QED BY <2>1, <2>2, <2>4 DEF Content
  <1> QED BY <1>3, <1>4, <1>5, <1>6, <1>7, <1>8 DEF Inv, JobsOK

-----------------------------------------------------------------------------
(***************************************************************************)
(* The theorems.                                                            *)
(***************************************************************************)
\* An empty database before the first sync satisfies both invariants.
LEMMA InitInv == Init => Inv /\ Content
  <1> SUFFICES ASSUME Init PROVE Inv /\ Content
    OBVIOUS
  <1>1. TypeOK
    BY IdleOK DEF Init, TypeOK
  <1>2. ServerOK /\ CursorOK /\ CachesOwned
    BY DEF Init, ServerOK, CursorOK, CachesOwned, Kinds
  <1>3. JobsOK /\ \A s \in Syncs : ContentOK(job[s])
    BY IdleOK DEF Init, JobsOK
  <1>4. LocalOK
    BY DEF Init, LocalOK
  <1>5. NoLostChange
    BY NoneAssumption DEF Init, NoLostChange, Kinds
  <1> QED BY <1>1, <1>2, <1>3, <1>4, <1>5 DEF Inv, Content

\* Every step of a sync is a good step of its locals, a commit or a written view.
LEMMA SyncActions ==
  ASSUME Inv, NEW s \in Syncs, SyncStart(s) \/ SyncStep(s) \/ SyncFails(s)
  PROVE  Inv' /\ (Content => Content')
  <1>1. CASE SyncStart(s)
    BY <1>1, SyncStartOK, JobStep DEF SyncStart
  <1>2. CASE SyncFails(s)
    BY <1>2, RejectOK, JobStep DEF SyncFails
  <1>3. CASE ReadCursor(s)
    BY <1>3, ReadCursorOK, JobStep DEF ReadCursor
  <1>4. CASE GetMailboxes(s)
    BY <1>4, GetMailboxesOK, JobStep DEF GetMailboxes
  <1>5. CASE ChangesPage(s)
    <2>1. UNCHANGED <<server, database, fetch>>
      BY <1>5 DEF ChangesPage
    <2> QED BY <1>5, <2>1, ChangesPageOK, JobStep
  <1>6. CASE CannotCalculate(s)
    BY <1>6, CannotCalculateOK, JobStep DEF CannotCalculate
  <1>7. CASE GetFolders(s)
    BY <1>7, GetFoldersOK, JobStep DEF GetFolders
  <1>8. CASE QueryFolder(s)
    <2>1. UNCHANGED <<server, database, fetch>>
      BY <1>8 DEF QueryFolder
    <2> QED BY <1>8, <2>1, QueryFolderOK, JobStep
  <1>9. CASE GetBatch(s)
    <2>1. UNCHANGED <<server, database, fetch>>
      BY <1>9 DEF GetBatch
    <2> QED BY <1>9, <2>1, GetBatchOK, JobStep
  <1>10. CASE Commit(s)
    BY <1>10, CommitStep
  <1>11. CASE ListMailboxes(s)
    BY <1>11, ListMailboxesOK, JobStep DEF ListMailboxes
  <1>12. CASE QueryView(s)
    <2>1. UNCHANGED <<server, database, fetch>>
      BY <1>12 DEF QueryView
    <2> QED BY <1>12, <2>1, QueryViewOK, JobStep
  <1>13. CASE WriteView(s)
    BY <1>13, WriteViewStep
  <1> QED BY <1>1, <1>2, <1>3, <1>4, <1>5, <1>6, <1>7, <1>8, <1>9, <1>10, <1>11, <1>12,
             <1>13 DEF SyncStep

\* Every step preserves both invariants.
LEMMA StepInv ==
  ASSUME Inv, [Next]_vars PROVE Inv' /\ (Content => Content')
  <1>1. CASE UNCHANGED vars
    <2>1. UNCHANGED <<server, cursor, local, mailboxes, missed>> /\ UNCHANGED job
          /\ fetch' = fetch /\ views' = views /\ bodies' = bodies
      BY <1>1 DEF vars, server
    <2>2. /\ fetch' \in [Fetches -> Emails \cup {None}] /\ views' \subseteq mailboxes
          /\ \A e \in bodies' : e \in Emails /\ local[e] # 0
      BY <2>1 DEF Inv, TypeOK, CachesOwned
    <2> QED BY <2>1, <2>2, StableStep
  <1>2. ASSUME NEW e \in Emails, NEW S \in SUBSET Mailboxes, Deliver(e, S) \/ Update(e, S)
        PROVE  Changes(e, S)
    BY <1>2 DEF Deliver, Update, Changes
  <1>3. ASSUME NEW e \in Emails, Destroy(e) PROVE Changes(e, {})
    BY <1>3 DEF Destroy, Changes
  <1>4. CASE \E e \in Emails, S \in SUBSET Mailboxes : Deliver(e, S) \/ Update(e, S)
    BY <1>2, <1>4, ChangeStep
  <1>5. CASE \E e \in Emails : Destroy(e)
    <2>1. PICK e \in Emails : Destroy(e)
      BY <1>5
    <2>2. Changes(e, {}) /\ {} \in SUBSET Mailboxes
      BY <1>3, <2>1
    <2> QED BY <2>2, ChangeStep
  <1>6. CASE \E S \in SUBSET Mailboxes : ChangeFolders(S)
    BY <1>6, FoldersStep
  <1>7. CASE \E s \in Syncs : SyncStart(s) \/ SyncStep(s) \/ SyncFails(s)
    BY <1>7, SyncActions
  <1>8. CASE \E f \in Fetches : \/ \E e \in Emails : BodyStart(f, e)
                                \/ BodyFails(f) \/ BodyWritten(f)
    BY <1>8, BodyStep
  <1> QED BY <1>1, <1>4, <1>5, <1>6, <1>7, <1>8 DEF Next

\* Inv holds in every reachable state.
THEOREM Invariance == Spec => []Inv
  <1>1. Init => Inv
    BY InitInv
  <1>2. Inv /\ [Next]_vars => Inv'
    BY StepInv
  <1> QED BY <1>1, <1>2, PTL DEF Spec

\* The tables and the locals of the syncs keep their types.
THEOREM TypeCorrect == Spec => []TypeOK
  <1>1. Inv => TypeOK
    BY DEF Inv
  <1> QED BY <1>1, Invariance, PTL

\* Both hold in every reachable state.
LEMMA ContentInvariance == Spec => [](Inv /\ Content)
  <1>1. Init => Inv /\ Content
    BY InitInv
  <1>2. Inv /\ Content /\ [Next]_vars => (Inv /\ Content)'
    BY StepInv
  <1> QED BY <1>1, <1>2, PTL DEF Spec

\* No change is ever lost, whatever overlaps and whenever Emails change: an Email
\* that did not change after the cursor is projected as the server has it.  Only one
\* that was delivered or moved while the last snapshot was being collected may be
\* absent, until its next change.
THEOREM NoLostChangeTheorem == Spec => []NoLostChange
  <1>1. Inv /\ Content => NoLostChange
    BY DEF Content
  <1> QED BY <1>1, ContentInvariance, PTL

\* A sync that got past its Email commit, its own or that of another sync it lost a
\* race against, leaves every Email projected that had not changed after its start,
\* as the server has it, but for those the last snapshot missed.
THEOREM RefreshTheorem == Spec => []RefreshIsFresh
  <1>1. Inv /\ Content => RefreshIsFresh
    <2> SUFFICES ASSUME Inv, Content, NEW s \in Syncs, job[s].pc = "list"
                 PROVE  /\ cursor["email"] # None /\ cursor["email"] >= job[s].started
                        /\ \A e \in Emails : changedAt[e] <= job[s].started => Projected(e)
      BY DEF RefreshIsFresh
    <2>1. /\ cursor["email"] # None /\ job[s].started <= cursor["email"]
          /\ job[s].started \in Nat /\ cursor["email"] \in Nat
      BY JobFacts DEF EmailJobOK, Inv, TypeOK, Kinds
    <2>2. ASSUME NEW e \in Emails, changedAt[e] <= job[s].started PROVE Projected(e)
      <3>1. changedAt[e] <= cursor["email"]
        BY <2>1, <2>2, ServerFacts
      <3> QED BY <2>1, <3>1 DEF Content, NoLostChange
    <2> QED BY <2>1, <2>2
  <1> QED BY <1>1, ContentInvariance, PTL

\* No cached body and no cached view outlives its Email or its Mailbox.
THEOREM CachesTheorem == Spec => []CachesOwned
  <1>1. Inv => CachesOwned
    BY DEF Inv
  <1> QED BY <1>1, Invariance, PTL

\* Only a commit moves a cursor, and it moves it forward.
THEOREM CursorTheorem == Spec => CursorNeverRegresses
  <1> DEFINE Forward == \A k \in Kinds :
                cursor[k] # None => cursor'[k] # None /\ cursor'[k] >= cursor[k]
  <1>1. ASSUME Inv, [Next]_vars PROVE [Forward]_vars
    <2>1. \A k \in Kinds : cursor[k] \in Nat \cup {None}
      BY <1>1 DEF Inv, TypeOK
    <2>2. CASE cursor' = cursor
      BY <2>1, <2>2
    <2>3. CASE \E s \in Syncs : Applies(s)
      <3>1. PICK s \in Syncs : Applies(s)
        BY <2>3
      <3> QED BY <1>1, <2>1, <3>1, CursorMoves
    <2>4. cursor' = cursor \/ \E s \in Syncs : Applies(s)
      <3>1. ASSUME NEW s \in Syncs, SyncStart(s) \/ SyncStep(s) \/ SyncFails(s)
            PROVE  cursor' = cursor \/ Applies(s)
        BY <3>1 DEF SyncStart, SyncFails, SyncStep, ReadCursor, GetMailboxes, ChangesPage,
                    CannotCalculate, GetFolders, QueryFolder, GetBatch, Commit, Applies,
                    ListMailboxes, QueryView, WriteView, database
      <3>2. ASSUME NEW e \in Emails, NEW S, Change(e, S) PROVE cursor' = cursor
        BY <3>2 DEF Change, database
      <3> QED BY <1>1, <3>1, <3>2 DEF Next, Deliver, Update, Destroy, ChangeFolders, BodyStart,
                                BodyFails, BodyWritten, database, vars
    <2> QED BY <2>2, <2>3, <2>4
  <1>2. Inv /\ [Next]_vars => [Forward]_vars
    BY <1>1
  <1> QED BY <1>2, Invariance, PTL DEF Spec, CursorNeverRegresses

\* No refresh costs a cached body that should stay: a delta drops those of Emails the
\* server has destroyed, and a snapshot those and the ones of Emails that were moved
\* while it was being collected.
THEOREM BodiesTheorem == Spec => BodiesOutliveRefresh
  <1> DEFINE Drops(e) == boxes[e] = {} \/ \E s \in Syncs : job'[s] # job[s] /\ MovedDuring(s, e)
             Kept == \A e \in bodies \ bodies' : Drops(e)
  <1>1. ASSUME Inv, Content, [Next]_vars PROVE [Kept]_vars
    <2>1. CASE bodies \subseteq bodies'
      BY <2>1
    <2>2. CASE \E s \in Syncs : Applies(s) /\ job[s].kind = "email"
      <3>1. PICK s \in Syncs : Applies(s) /\ ApplyEmails(job[s]) /\ job[s].kind = "email"
        BY <2>2 DEF Applies
      <3> SUFFICES ASSUME NEW e \in bodies \ bodies' PROVE Drops(e)
        OBVIOUS
      <3>2. e \in Emails /\ e \in Deleted(job[s])
        BY <1>1, <3>1 DEF ApplyEmails, Inv, TypeOK
      <3>3. Collected(job[s], e) /\ job[s].ids = {} /\ job[s].pc = "commit"
        BY <1>1, <3>1, <3>2, CursorMoves DEF Content, ContentOK, Applies
      <3>4. job[s].mode = "delta" => boxes[e] = {}
        BY <1>1, <3>1, <3>2, <3>3, JobFacts DEF Deleted, EmailJobOK, DeltaOK
      <3>5. job[s].mode = "replace" => boxes[e] = {} \/ job[s].begun < movedAt[e]
        BY <3>2, <3>3 DEF Deleted, Collected
      <3>6. job'[s] # job[s]
        <4>1. job'[s].pc = "list"
          BY <1>1, <3>1 DEF Applies, Committed, Step, Idle, Inv, TypeOK
        <4> QED BY <3>3, <4>1
      <3> QED BY <1>1, <3>3, <3>4, <3>5, <3>6, JobFacts DEF MovedDuring, Job
    <2>3. bodies \subseteq bodies' \/ \E s \in Syncs : Applies(s) /\ job[s].kind = "email"
      <3>1. ASSUME NEW s \in Syncs, SyncStart(s) \/ SyncStep(s) \/ SyncFails(s)
            PROVE  bodies' = bodies \/ (Applies(s) /\ job[s].kind = "email")
        BY <3>1 DEF SyncStart, SyncFails, SyncStep, ReadCursor, GetMailboxes, ChangesPage,
                    CannotCalculate, GetFolders, QueryFolder, GetBatch, Commit, Applies,
                    ApplyMailboxes, ListMailboxes, QueryView, WriteView, database
      <3>2. ASSUME NEW e \in Emails, NEW S, Change(e, S) PROVE bodies' = bodies
        BY <3>2 DEF Change, database
      <3> QED BY <1>1, <3>1, <3>2 DEF Next, Deliver, Update, Destroy, ChangeFolders, BodyStart,
                                BodyFails, BodyWritten, database, vars
    <2> QED BY <2>1, <2>2, <2>3
  <1>2. Inv /\ Content /\ [Next]_vars => [Kept]_vars
    BY <1>1
  <1> QED BY <1>2, ContentInvariance, PTL DEF Spec, BodiesOutliveRefresh

=============================================================================
