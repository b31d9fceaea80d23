------------------------------ MODULE LocalEngine ------------------------------
(***************************************************************************)
(* The application's adapters to the local engine: TauriSyncPort and       *)
(* TauriReadRepository encode a request, LocalEngineIpcClient invokes the  *)
(* native command, the engine executes it whole, and the answer is checked *)
(* and decoded, or never arrives.  Several clients (the main thread, the   *)
(* Worker through its bridge) share the engine; each has at most one call  *)
(* in progress.  The engine itself is LocalStore.                          *)
(***************************************************************************)
EXTENDS LocalStore

CONSTANTS Clients,    \* who calls
          Requests,   \* the writes tried, [op, arg]
          MaxWrites,  \* bound on writes
          MaxReads    \* bound on reads

ASSUME RequestsAssumption ==
    \A r \in Requests :
        /\ r.op \notin {"replacePendingMutationIfCurrent", "removeConfirmedMutation"}
        /\ IsWrite(r.op) /\ IsArgument(r.op, r.arg)

\* The mutations in the store were staged under ids of their own.
ASSUME UniqueIdsAssumption ==
    \A j, k \in DOMAIN InitialDb.mutations :
        InitialDb.mutations[j].mutationId = InitialDb.mutations[k].mutationId => j = k

\* The literals below are strings: the provers need to be told.
ASSUME LiteralsAssumption == {"later", "sent"} \subseteq STRING

VARIABLES published,  \* the hints of the execution that just happened
          call,       \* per client, its call: idle, sent or replied
          row,        \* per client, {} or what its last read decoded
          result,     \* per client, the PortResult of its last call
          origin,     \* history: per client, {} or the stored row that its last read was answered from
          issued,     \* history: the mutation ids that nextMutationId returned
          started,    \* history: <<client, mutation, attempt>> acknowledged as started
          writes, reads

engineVars == <<db, published, call, row, result, origin, issued, started, writes, reads>>

Idle == [phase |-> "idle", op |-> "none", dto |-> None, found |-> {}]

EngineInit ==
    /\ db = InitialDb
    /\ published = {}
    /\ call = [c \in Clients |-> Idle]
    /\ row = [c \in Clients |-> {}]
    /\ result = [c \in Clients |-> "none"]
    /\ origin = [c \in Clients |-> {}]
    /\ issued = {InitialDb.mutations[k].mutationId : k \in DOMAIN InitialDb.mutations}
    /\ started = {}
    /\ writes = 0
    /\ reads = 0

-----------------------------------------------------------------------------
(* Requests. *)

EncodeId(kind, id) ==
    CASE kind = "email"    -> EncodeScopedEmailId(id)
      [] kind = "mailbox"  -> EncodeScopedMailboxId(id)
      [] kind = "identity" -> EncodeScopedIdentityId(id)

EncodeRecord(kind, value) ==
    IF kind = "email"
    THEN [keywords |-> SetToSeq(value.keywords),
          memberships |-> MapSeq(EncodeScopedMailboxId, SetToSeq(value.mailboxes))]
    ELSE None

EncodeCollectionSyncCommit(c) ==
    [c EXCEPT !.changed = MapSeq(LAMBDA id : [id |-> EncodeId(c.kind, id),
                                              record |-> EncodeRecord(c.kind, c.changed[id])],
                                 SetToSeq(DOMAIN c.changed)),
              !.destroyed = MapSeq(LAMBDA id : EncodeId(c.kind, id), SetToSeq(c.destroyed))]

\* How the engine reads the id and the record of a DTO back.
DecodeId(kind, d) ==
    CASE kind = "email"    -> DecodeScopedEmailId(d)
      [] kind = "mailbox"  -> DecodeScopedMailboxId(d)
      [] kind = "identity" -> DecodeScopedIdentityId(d)

DecodeCollectionSyncCommit(d) ==
    LET ids == {DecodeId(d.kind, d.changed[i].id) : i \in DOMAIN d.changed}
        At(id) == d.changed[CHOOSE i \in DOMAIN d.changed : DecodeId(d.kind, d.changed[i].id) = id].record
    IN  [d EXCEPT !.changed = [id \in ids |->
                                 IF d.kind = "email"
                                 THEN [keywords |-> ToSet(At(id).keywords),
                                       mailboxes |-> ToSet(MapSeq(DecodeScopedMailboxId, At(id).memberships))]
                                 ELSE None],
                  !.destroyed = {DecodeId(d.kind, d.destroyed[i]) : i \in DOMAIN d.destroyed}]

Encode(op, arg) ==
    CASE op = "registerAccount" -> arg
      [] op = "applyCollectionSync" -> EncodeCollectionSyncCommit(arg)
      [] op \in {"cacheEmailBody", "replaceAttachmentRefs"} -> EncodeScopedEmailId(arg)
      [] op = "replaceMailboxView" -> EncodeMailboxView(arg)
      [] op \in StagingOps -> EncodePendingMutation(arg)
      [] op = "replacePendingMutationIfCurrent" ->
            [expected |-> EncodePendingMutation(arg.expected), next |-> EncodePendingMutation(arg.next)]
      [] op = "removeConfirmedMutation" -> arg

\* The engine's own reading of a mutation: it rejects what is not valid.
Mutation(d) == CHOOSE v \in DecodePendingMutation(d) : TRUE

\* What the engine stores of a view; TypeScript's constructor is not run on the way in.
RawView(d) ==
    [mailboxId |-> DecodeScopedMailboxId(d.spec.mailboxId), total |-> d.total, coverage |-> d.coverage,
     items |-> MapSeq(LAMBDA i : [position |-> i.position, emailId |-> DecodeScopedEmailId(i.emailId)], d.items)]

\* How the engine reads a request, and runs it.
DecodeArgument(op, d) ==
    CASE op \in {"registerAccount", "removeConfirmedMutation"} -> d
      [] op = "applyCollectionSync" -> DecodeCollectionSyncCommit(d)
      [] op \in {"cacheEmailBody", "replaceAttachmentRefs"} -> DecodeScopedEmailId(d)
      [] op = "replaceMailboxView" -> RawView(d)
      [] op = "replacePendingMutationIfCurrent" -> [expected |-> Mutation(d.expected), next |-> Mutation(d.next)]
      [] OTHER -> Mutation(d)

Execute(op, d) == Perform(db, op, DecodeArgument(op, d))

-----------------------------------------------------------------------------
(* The clients. *)

Send(c, op, d) ==
    /\ call[c].phase = "idle"
    /\ call' = [call EXCEPT ![c] = [Idle EXCEPT !.phase = "sent", !.op = op, !.dto = d]]
    /\ result' = [result EXCEPT ![c] = "none"]
    /\ published' = {}

\* A mutation is staged under a new id, whether or not an earlier one was acknowledged.
Write(c) ==
    /\ writes < MaxWrites
    /\ \E r \in Requests :
          LET id == IF r.op \in StagingOps THEN {r.arg.mutationId} ELSE {} IN
          /\ id \cap issued = {}
          /\ issued' = issued \cup id
          /\ Send(c, r.op, Encode(r.op, r.arg))
    /\ writes' = writes + 1
    /\ UNCHANGED <<db, row, origin, started, reads>>

ReadQuery(c) ==
    /\ reads < MaxReads
    /\ \/ \E key \in DOMAIN db.mutations : Send(c, "readPendingMutation", key)
       \/ \E m \in DOMAIN db.views : Send(c, "readMailboxView", EncodeScopedMailboxId(m))
    /\ reads' = reads + 1
    /\ UNCHANGED <<db, row, origin, issued, started, writes>>

\* startMutationAttempt, scheduleMutationRetry, confirm*Mutation and failMutationTerminal.
Successors(v) ==
    LET l == v.lifecycle IN
    IF l.status \in {"pending", "retrying"}
    THEN {[status |-> "inFlight", attemptCount |-> l.attemptCount + 1]}
    ELSE IF l.status = "inFlight"
    THEN {[status |-> "retrying", attemptCount |-> l.attemptCount, nextAttemptAt |-> "later"],
          [status |-> "failedTerminal", attemptCount |-> l.attemptCount],
          IF v.kind = "send"
          THEN [status |-> "confirmed", attemptCount |-> l.attemptCount,
                confirmation |-> ScopedId(v.accountKey, "sent")]
          ELSE [status |-> "confirmed", attemptCount |-> l.attemptCount]}
    ELSE {}

\* An executor moves on the mutation it read, or removes it once it is confirmed.
Advance(c) ==
    /\ writes < MaxWrites
    /\ \E v \in row[c] :
          /\ "lifecycle" \in DOMAIN v
          /\ \/ \E l \in Successors(v) :
                   Send(c, "replacePendingMutationIfCurrent",
                        Encode("replacePendingMutationIfCurrent",
                               [expected |-> v, next |-> [v EXCEPT !.lifecycle = l]]))
             \/ /\ v.lifecycle.status = "confirmed"
                /\ Send(c, "removeConfirmedMutation", MutationKey(v))
    /\ writes' = writes + 1
    /\ UNCHANGED <<db, row, origin, issued, started, reads>>

\* The native command runs: one transaction, its hints, and an answer on its way.
RunWrite(c) ==
    /\ call[c].phase = "sent"
    /\ call[c].op \notin {"readPendingMutation", "readMailboxView"}
    /\ LET o == Execute(call[c].op, call[c].dto) IN
          /\ db' = o.db
          /\ published' = o.hints
          /\ call' = [call EXCEPT ![c].phase = o.result]
    /\ UNCHANGED <<row, result, origin, issued, started, writes, reads>>

\* A read answers with the stored value as a DTO, {} when there is none.
RunRead(c) ==
    /\ call[c].phase = "sent"
    /\ call[c].op \in {"readPendingMutation", "readMailboxView"}
    /\ LET key   == IF call[c].op = "readMailboxView" THEN DecodeScopedMailboxId(call[c].dto) ELSE call[c].dto
           table == IF call[c].op = "readMailboxView" THEN db.views ELSE db.mutations
           found == {table[k] : k \in DOMAIN table \cap {key}}
       IN  /\ call' = [call EXCEPT ![c].phase = "ok",
                                   ![c].found = found,
                                   ![c].dto = {IF call[c].op = "readMailboxView"
                                               THEN EncodeMailboxView(v)
                                               ELSE EncodePendingMutation(v) : v \in found}]
    /\ published' = {}
    /\ UNCHANGED <<db, row, result, origin, issued, started, writes, reads>>

Decode(op, d) == IF op = "readMailboxView" THEN DecodeMailboxView(d) ELSE DecodePendingMutation(d)

\* What a client makes of a completed call: `envelope` is "whole", or malformed or lost on the way.
PortResult(outcome, envelope) ==
    CASE envelope = "lost" -> "unavailable"
      [] envelope = "malformed" -> "unexpected"
      [] envelope = "whole" -> outcome

StartsAttempt(d) == d.next.lifecycle.status = "inFlight"

Returns(c, envelope) ==
    /\ call[c].phase \notin {"idle", "sent"}
    /\ LET answered == PortResult(call[c].phase, envelope)
           isRead   == call[c].op \in {"readPendingMutation", "readMailboxView"}
           decoded  == UNION {Decode(call[c].op, d) : d \in call[c].dto}
       IN  /\ row' = [row EXCEPT ![c] = IF isRead /\ answered = "ok" THEN decoded
                                        ELSE IF isRead \/ answered = "ok" THEN {} ELSE @]
           /\ origin' = [origin EXCEPT ![c] = IF isRead THEN call[c].found ELSE @]
           /\ result' = [result EXCEPT ![c] =
                 IF isRead /\ answered = "ok" /\ decoded = {} /\ call[c].dto # {} THEN "corruptState" ELSE answered]
           /\ started' = IF /\ call[c].op = "replacePendingMutationIfCurrent" /\ answered = "ok"
                            /\ StartsAttempt(call[c].dto)
                         THEN started \cup {<<c, call[c].dto.next.mutationId, call[c].dto.next.lifecycle.attemptCount>>}
                         ELSE started
    /\ call' = [call EXCEPT ![c] = Idle]
    /\ published' = {}
    /\ UNCHANGED <<db, issued, writes, reads>>

EngineNext ==
    \E c \in Clients :
        \/ Write(c) \/ ReadQuery(c) \/ Advance(c)
        \/ RunWrite(c) \/ RunRead(c)
        \/ \E envelope \in {"whole", "malformed", "lost"} : Returns(c, envelope)

EngineSpec == EngineInit /\ [][EngineNext]_engineVars

-----------------------------------------------------------------------------
(* Properties. *)

\* The reads of the repository that the application makes, over the ids the store knows.
Queries ==
    LET accounts == DOMAIN db.accounts \cup DOMAIN db'.accounts
        emails   == DOMAIN db.emails \cup DOMAIN db'.emails
        boxes    == db.mailboxes \cup db'.mailboxes
    IN  {Query("accounts", None)}
        \cup [kind : {"account", "mailboxes", "identities", "mutations"}, key : accounts]
        \cup [kind : {"email", "memberships", "body", "attachments"}, key : emails]
        \cup [kind : {"view"}, key : boxes]
        \cup [kind : {"cursor"}, key : accounts \X {"email", "mailbox", "identity"}]

\* What a reader that follows MailApplicationController rereads on a hint.
Covers(h, q) ==
    LET Of(kinds) == q.kind \in kinds /\ (IF q.kind \in {"email", "memberships", "body", "attachments", "view"}
                                         THEN q.key.accountKey ELSE q.key) = h.key
    IN  CASE h.kind = "accounts" -> TRUE
          [] h.kind = "mailboxes" -> Of({"mailboxes", "view", "email", "body"})
          [] h.kind \in {"emails", "emailMemberships"} -> Of({"view", "email", "memberships", "body", "attachments"})
          [] h.kind = "identities" -> Of({"identities"})
          [] h.kind = "pendingMutations" -> Of({"mutations"})
          [] h.kind = "emailBody" -> q = Query("body", h.key)
          [] h.kind = "attachmentRefs" -> q = Query("attachments", h.key)
          [] h.kind = "mailboxView" -> q = Query("view", h.key)
          [] h.kind = "syncCursor" -> q = Query("cursor", h.key)

\* local-change-source.ts: "relevant committed changes are eventually covered".  Whatever a write
\* changes in what some read answers (the rows it destroys included), one of its hints covers.
HintsCoverChanges ==
    [][\A q \in Queries : Read(db, q) # Read(db', q) => \E h \in published' : Covers(h, q)]_engineVars

\* The codecs lose nothing: a row that was stored is read back, whatever its kind and its
\* lifecycle, as the very value in the store, and never as a corrupt one.  An executor that
\* got another value could never pass the comparison of replacePendingMutationIfCurrent.
ReadBack == \A c \in Clients : result[c] # "corruptState" /\ row[c] \subseteq origin[c]

\* Of the clients that read the same mutation, at most one is told that it started an attempt,
\* although answers get lost and a client then reads again or tries again.
OneStarterPerAttempt ==
    \A s, t \in started : s[2] = t[2] /\ s[3] = t[3] => s[1] = t[1]

\* A stored view lists an Email at exactly the positions its coverage declares known:
\* the loops of mailboxView() decide this set equation.
ViewsAreExact ==
    \A m \in DOMAIN db.views :
        LET v == db.views[m] IN
        {v.items[i].position : i \in DOMAIN v.items} =
            UNION {v.coverage[i].start..(v.coverage[i].endExclusive - 1) : i \in DOMAIN v.coverage}

=============================================================================
