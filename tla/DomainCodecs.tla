----------------------------- MODULE DomainCodecs -----------------------------
(***************************************************************************)
(* The domain values that cross the boundary between the application and   *)
(* the local engine, the constructors that validate them (src/domain) and  *)
(* the codecs that write them as IPC DTOs and read them back               *)
(* (adapters/tauri/domain-ipc-codecs.ts).                                  *)
(*                                                                         *)
(* A constructor or decoder that may throw returns a set: {v} for the      *)
(* value v, {} for the TypeError.  Names, subjects, texts, dates and sizes *)
(* are copied unread and are left out; a set is written as a list.         *)
(***************************************************************************)
EXTENDS Integers, Sequences, FiniteSets, SequencesExt

None == "null"

-----------------------------------------------------------------------------
(* Scoped identifiers: every id carries the AccountKey that owns it. *)

ScopedId(a, id) == [accountKey |-> a, jmapId |-> id]

EncodeScopedMailboxId(v) == [accountKey |-> v.accountKey, jmapMailboxId |-> v.jmapId]
DecodeScopedMailboxId(d) == ScopedId(d.accountKey, d.jmapMailboxId)

EncodeScopedEmailId(v) == [accountKey |-> v.accountKey, jmapEmailId |-> v.jmapId]
DecodeScopedEmailId(d) == ScopedId(d.accountKey, d.jmapEmailId)

EncodeScopedIdentityId(v) == [accountKey |-> v.accountKey, jmapIdentityId |-> v.jmapId]
DecodeScopedIdentityId(d) == ScopedId(d.accountKey, d.jmapIdentityId)

MapSeq(f(_), s) == [i \in DOMAIN s |-> f(s[i])]

-----------------------------------------------------------------------------
(* MailboxView: a window on a query result.  coverage lists the ranges of   *)
(* positions that are known, items the Emails at those positions.           *)

ValidCoverage(coverage, total) ==
    /\ \A i \in DOMAIN coverage :
          /\ coverage[i].start < coverage[i].endExclusive
          /\ coverage[i].endExclusive <= total
    /\ \A i \in 2..Len(coverage) : coverage[i].start > coverage[i - 1].endExclusive

ValidItems(items, account) ==
    /\ \A i \in DOMAIN items : items[i].emailId.accountKey = account
    /\ \A i \in 2..Len(items) : items[i].position > items[i - 1].position
    /\ \A i, j \in DOMAIN items : items[i].emailId = items[j].emailId => i = j

\* One turn of the loop over the ranges: the item index after it, 0 once it threw.
CoverRange(items, at, range) ==
    LET last == SelectInSubSeq(items, at, Len(items),
                               LAMBDA item : item.position >= range.endExclusive)
        next == IF last = 0 THEN Len(items) + 1 ELSE last
    IN  IF /\ at > 0
           /\ \A i \in at..(next - 1) : items[i].position = range.start + (i - at)
           /\ range.start + (next - at) = range.endExclusive
        THEN next
        ELSE 0

\* The item index before the first range and after each one.
Coverings(coverage, items) ==
    {at \in [0..Len(coverage) -> 0..(Len(items) + 1)] :
        /\ at[0] = 1
        /\ \A k \in 1..Len(coverage) : at[k] = CoverRange(items, at[k - 1], coverage[k])}

\* Mutant: items left over after the last range are accepted.
ValidCoverageItemsLoose(coverage, items) ==
    \E at \in Coverings(coverage, items) : at[Len(coverage)] > 0

ValidCoverageItems(coverage, items) ==
    \E at \in Coverings(coverage, items) : at[Len(coverage)] = Len(items) + 1

MailboxView(v) ==
    IF /\ ValidCoverage(v.coverage, v.total)
       /\ ValidItems(v.items, v.mailboxId.accountKey)
       /\ ValidCoverageItems(v.coverage, v.items)
    THEN {v}
    ELSE {}

EncodeMailboxView(v) ==
    [spec     |-> [mailboxId |-> EncodeScopedMailboxId(v.mailboxId), filter |-> "all"],
     total    |-> v.total,
     coverage |-> v.coverage,
     items    |-> MapSeq(LAMBDA item : [position |-> item.position,
                                        emailId  |-> EncodeScopedEmailId(item.emailId)],
                         v.items)]

\* The filter of the DTO is not read: the domain knows only "all".
DecodeMailboxView(d) ==
    MailboxView([mailboxId |-> DecodeScopedMailboxId(d.spec.mailboxId),
                 total     |-> d.total,
                 coverage  |-> d.coverage,
                 items     |-> MapSeq(LAMBDA item : [position |-> item.position,
                                                     emailId  |-> DecodeScopedEmailId(item.emailId)],
                                      d.items)])

-----------------------------------------------------------------------------
(* SendIntent: the frozen message of a send.  An address is usable unless   *)
(* its email is empty (which stands for every shape the code refuses).      *)

Usable(address) == address.email # ""

\* The Bcc of the user, then the default Bcc of the Identity: the first address with each email.
MergeBcc(user, default) ==
    LET all   == user \o default
        first == {i \in DOMAIN all : \A j \in 1..(i - 1) : all[j].email # all[i].email}
    IN  [n \in 1..Cardinality(first) |->
            all[CHOOSE i \in first : Cardinality({j \in first : j <= i}) = n]]

SendIntent(identity, to, cc, bcc) ==
    LET from == [name |-> identity.name, email |-> identity.email]
        all  == MergeBcc(bcc, identity.bcc)
    IN  IF /\ identity.email # "*@x"
           /\ to \o cc \o all # <<>>
           /\ \A address \in ToSet(<<from>> \o identity.replyTo \o to \o cc \o all) : Usable(address)
        THEN {[identityId |-> identity.id, from |-> from, replyTo |-> identity.replyTo,
               to |-> to, cc |-> cc, bcc |-> all]}
        ELSE {}

EncodeSendIntent(v) == [v EXCEPT !.identityId = EncodeScopedIdentityId(v.identityId)]

\* The Identity is rebuilt from the stored From, without a default Bcc.
DecodeSendIntent(d) ==
    IF d.from.name = None
    THEN {}
    ELSE SendIntent([id |-> DecodeScopedIdentityId(d.identityId), name |-> d.from.name,
                     email |-> d.from.email, replyTo |-> d.replyTo, bcc |-> <<>>],
                    d.to, d.cc, d.bcc)

-----------------------------------------------------------------------------
(* PendingMutation: an intent, or a change of one Email, and its lifecycle. *)

KeywordChange(add, remove) ==
    IF add \cup remove # {} /\ add \cap remove = {}
    THEN {[add |-> add, remove |-> remove]}
    ELSE {}

MailboxMembershipChange(add, remove) ==
    IF /\ add \o remove # <<>>
       /\ IsInjective(add) /\ IsInjective(remove)
       /\ ToSet(add) \cap ToSet(remove) = {}
    THEN {[add |-> add, remove |-> remove]}
    ELSE {}

PendingLifecycle == [status |-> "pending", attemptCount |-> 0]

SendMutation(id, account, intent) ==
    IF intent.identityId.accountKey = account
    THEN {[kind |-> "send", mutationId |-> id, accountKey |-> account,
           intent |-> intent, lifecycle |-> PendingLifecycle]}
    ELSE {}

KeywordMutation(id, account, email, add, remove) ==
    IF email.accountKey = account
    THEN {[kind |-> "keyword", mutationId |-> id, accountKey |-> account, emailId |-> email,
           change |-> change, lifecycle |-> PendingLifecycle] : change \in KeywordChange(add, remove)}
    ELSE {}

MailboxMembershipMutation(id, account, email, add, remove) ==
    IF email.accountKey = account /\ \A m \in ToSet(add \o remove) : m.accountKey = account
    THEN {[kind |-> "mailboxMembership", mutationId |-> id, accountKey |-> account, emailId |-> email,
           change |-> change, lifecycle |-> PendingLifecycle] :
             change \in MailboxMembershipChange(add, remove)}
    ELSE {}

\* Mutant: the time of the next attempt is not written.
EncodeUpdateLifecycleShort(v) ==
    IF v.status = "pending" THEN PendingLifecycle
    ELSE [status |-> v.status, attemptCount |-> v.attemptCount]

EncodeUpdateLifecycle(v) ==
    CASE v.status = "retrying" ->
            [status |-> v.status, attemptCount |-> v.attemptCount, nextAttemptAt |-> v.nextAttemptAt]
      [] v.status = "pending" -> PendingLifecycle
      [] OTHER -> [status |-> v.status, attemptCount |-> v.attemptCount]

EncodeSendLifecycle(v) ==
    IF v.status = "confirmed"
    THEN [status |-> v.status, attemptCount |-> v.attemptCount,
          confirmation |-> EncodeScopedEmailId(v.confirmation)]
    ELSE EncodeUpdateLifecycle(v)

AttemptCountIsValid(d) == IF d.status = "pending" THEN d.attemptCount = 0 ELSE d.attemptCount >= 1

DecodeUpdateLifecycle(d) == IF AttemptCountIsValid(d) THEN {EncodeUpdateLifecycle(d)} ELSE {}

DecodeSendLifecycle(d, owner) ==
    IF d.status = "confirmed"
    THEN {[status |-> d.status, attemptCount |-> d.attemptCount, confirmation |-> id] :
             id \in {i \in {DecodeScopedEmailId(d.confirmation)} :
                       AttemptCountIsValid(d) /\ i.accountKey = owner}}
    ELSE DecodeUpdateLifecycle(d)

EncodePendingMutation(v) ==
    CASE v.kind = "send" ->
            [v EXCEPT !.intent = EncodeSendIntent(v.intent), !.lifecycle = EncodeSendLifecycle(v.lifecycle)]
      [] v.kind = "keyword" ->
            [v EXCEPT !.emailId = EncodeScopedEmailId(v.emailId),
                      !.change = [add |-> SetToSeq(v.change.add), remove |-> SetToSeq(v.change.remove)],
                      !.lifecycle = EncodeUpdateLifecycle(v.lifecycle)]
      [] OTHER ->
            [v EXCEPT !.emailId = EncodeScopedEmailId(v.emailId),
                      !.change = [add    |-> MapSeq(EncodeScopedMailboxId, v.change.add),
                                  remove |-> MapSeq(EncodeScopedMailboxId, v.change.remove)],
                      !.lifecycle = EncodeUpdateLifecycle(v.lifecycle)]

\* The mutation is built anew, pending, and then given its stored lifecycle.
DecodePendingMutation(d) ==
    CASE d.kind = "send" ->
            {[base EXCEPT !.lifecycle = l] :
               base \in UNION {SendMutation(d.mutationId, d.accountKey, i) : i \in DecodeSendIntent(d.intent)},
               l \in DecodeSendLifecycle(d.lifecycle, d.accountKey)}
      [] d.kind = "keyword" ->
            {[base EXCEPT !.lifecycle = l] :
               base \in KeywordMutation(d.mutationId, d.accountKey, DecodeScopedEmailId(d.emailId),
                                        ToSet(d.change.add), ToSet(d.change.remove)),
               l \in DecodeUpdateLifecycle(d.lifecycle)}
      [] OTHER ->
            {[base EXCEPT !.lifecycle = l] :
               base \in MailboxMembershipMutation(d.mutationId, d.accountKey, DecodeScopedEmailId(d.emailId),
                                                  MapSeq(DecodeScopedMailboxId, d.change.add),
                                                  MapSeq(DecodeScopedMailboxId, d.change.remove)),
               l \in DecodeUpdateLifecycle(d.lifecycle)}

-----------------------------------------------------------------------------
(* The values of the domain types: what the constructors make, whatever     *)
(* ids, addresses and counts they are given.                                *)

ScopedIds == [accountKey : STRING, jmapId : STRING]
Addresses == [name : STRING, email : STRING]

\* The arguments of mailboxView(), and the ones it accepts.
ViewInputs ==
    [mailboxId : ScopedIds, total : Nat, coverage : Seq([start : Nat, endExclusive : Nat]),
     items : Seq([position : Nat, emailId : ScopedIds])]

MailboxViews == {v \in ViewInputs : MailboxView(v) # {}}

SendIntents ==
    {v \in [identityId : ScopedIds, from : Addresses, replyTo : Seq(Addresses),
            to : Seq(Addresses), cc : Seq(Addresses), bcc : Seq(Addresses)] :
        /\ v.from.name # None /\ v.from.email # "*@x"
        /\ v.to \o v.cc \o v.bcc # <<>>
        /\ \A address \in ToSet(<<v.from>> \o v.replyTo \o v.to \o v.cc \o v.bcc) : Usable(address)
        /\ \A i, j \in DOMAIN v.bcc : v.bcc[i].email = v.bcc[j].email => i = j}

Attempts == Nat \ {0}

OpenLifecycles ==
    {PendingLifecycle}
    \cup [status : {"inFlight", "failedTerminal"}, attemptCount : Attempts]
    \cup [status : {"retrying"}, attemptCount : Attempts, nextAttemptAt : STRING]

UpdateLifecycles == OpenLifecycles \cup [status : {"confirmed"}, attemptCount : Attempts]

SendLifecycles ==
    OpenLifecycles \cup [status : {"confirmed"}, attemptCount : Attempts, confirmation : ScopedIds]

SendMutations ==
    {v \in [kind : {"send"}, mutationId : STRING, accountKey : STRING, intent : SendIntents,
            lifecycle : SendLifecycles] :
        /\ v.intent.identityId.accountKey = v.accountKey
        /\ v.lifecycle.status = "confirmed" => v.lifecycle.confirmation.accountKey = v.accountKey}

KeywordMutations ==
    {v \in [kind : {"keyword"}, mutationId : STRING, accountKey : STRING, emailId : ScopedIds,
            change : [add : SUBSET STRING, remove : SUBSET STRING], lifecycle : UpdateLifecycles] :
        /\ v.emailId.accountKey = v.accountKey
        /\ IsFiniteSet(v.change.add) /\ IsFiniteSet(v.change.remove)
        /\ KeywordChange(v.change.add, v.change.remove) # {}}

MailboxMembershipMutations ==
    {v \in [kind : {"mailboxMembership"}, mutationId : STRING, accountKey : STRING, emailId : ScopedIds,
            change : [add : Seq(ScopedIds), remove : Seq(ScopedIds)], lifecycle : UpdateLifecycles] :
        /\ v.emailId.accountKey = v.accountKey
        /\ \A m \in ToSet(v.change.add \o v.change.remove) : m.accountKey = v.accountKey
        /\ MailboxMembershipChange(v.change.add, v.change.remove) # {}}

PendingMutations == SendMutations \cup KeywordMutations \cup MailboxMembershipMutations

=============================================================================
