--------------------------- MODULE MailViewProofs ---------------------------
(***************************************************************************)
(* Proofs about the local store and what reads it: LocalStore, the codecs   *)
(* (DomainCodecs) and the ports (LocalEngine), for any number of callers,   *)
(* accounts, ids and writes; and the reads of the controller (MailView),    *)
(* for any number of clicks, commits and failures: what is shown belongs to *)
(* the selection, and nothing loads for ever.                               *)
(*                                                                         *)
(* The invariant of the ports has two parts.  PortInv says that the store   *)
(* holds valid rows under their own keys, and that every call on the port   *)
(* carries what its argument encodes; StartInv counts, for each row of the  *)
(* queue and each of its attempts, the claims that may still start it.      *)
(*                                                                         *)
(* ViewInv is the controller's: behind every list, body and spinner that    *)
(* says it is loading stands a suspended call that is current.  A handler   *)
(* runs in a state (Running) in which all this holds of the other tasks     *)
(* only; the lemmas follow it from one update to the next until the task    *)
(* ends, awaits again or returns to its caller.                             *)
(***************************************************************************)
EXTENDS LocalEngine, MailView, FiniteSetTheorems, WellFoundedInduction, TLAPS

(***************************************************************************)
(* What the codecs give back.                                              *)
(***************************************************************************)

\* A scoped id survives each of its three encodings.
LEMMA ScopedIdsReadBack ==
    ASSUME NEW v \in ScopedIds
    PROVE  /\ DecodeScopedMailboxId(EncodeScopedMailboxId(v)) = v
           /\ DecodeScopedEmailId(EncodeScopedEmailId(v)) = v
           /\ DecodeScopedIdentityId(EncodeScopedIdentityId(v)) = v
BY DEF ScopedIds, ScopedId, DecodeScopedMailboxId, EncodeScopedMailboxId, DecodeScopedEmailId,
       EncodeScopedEmailId, DecodeScopedIdentityId, EncodeScopedIdentityId

\* A finite set written as a list is read back as that set.
LEMMA SetReadBack ==
    ASSUME NEW S, IsFiniteSet(S)
    PROVE  ToSet(SetToSeq(S)) = S
<1> DEFINE n == Cardinality(S)
<1>1. n \in Nat /\ ExistsBijection(1..n, S)
  BY FS_CardinalityType
<1>2. PICK g \in [1..n -> S] : IsInjective(g)
  BY <1>1 DEF ExistsBijection, Bijection, Injection
<1> DEFINE f == SetToSeq(S)
<1>3. f \in [1..n -> S] /\ IsInjective(f)
  BY <1>2 DEF SetToSeq
<1>4. f \in Injection(1..n, S)
  BY <1>3 DEF Injection
<1>5. Cardinality(1..n) = n
  BY <1>1, FS_Interval
<1>6. f \in Surjection(1..n, S)
  BY <1>4, <1>5, FS_Injection
<1>7. \A t \in S : \E i \in 1..n : f[i] = t
  BY <1>6 DEF Surjection
<1> HIDE DEF n, f
<1>8. ToSet(f) = S
  BY <1>3, <1>7 DEF ToSet
<1> QED
  BY <1>8 DEF f

\* An element of a list has the type of its elements.
LEMMA ElementOf ==
    ASSUME NEW T, NEW s \in Seq(T), NEW i \in DOMAIN s PROVE s[i] \in T
OBVIOUS

\* Lists of Mailboxes are read back in their order.
LEMMA MailboxListReadBack ==
    ASSUME NEW s \in Seq(ScopedIds)
    PROVE  MapSeq(DecodeScopedMailboxId, MapSeq(EncodeScopedMailboxId, s)) = s
<1>1. \A i \in DOMAIN s : DecodeScopedMailboxId(EncodeScopedMailboxId(s[i])) = s[i]
  BY ScopedIdsReadBack
<1>2. s = [i \in DOMAIN s |-> s[i]]
  OBVIOUS
<1> QED
  BY <1>1, <1>2 DEF MapSeq

\* Addresses that differ in their email are all kept, in their order.
LEMMA MergeKeepsDistinct ==
    ASSUME NEW s \in Seq(Addresses), \A i, j \in DOMAIN s : s[i].email = s[j].email => i = j
    PROVE  MergeBcc(s, <<>>) = s
<1> DEFINE all == s \o <<>>
           first == {i \in DOMAIN all : \A j \in 1..(i - 1) : all[j].email # all[i].email}
<1>1. all = s /\ Len(s) \in Nat /\ DOMAIN s = 1..Len(s)
  OBVIOUS
<1>2. first = 1..Len(s)
  BY <1>1
<1>i. \A k \in Nat : Cardinality(1..k) = k
  BY FS_Interval
<1>3. Cardinality(first) = Len(s)
  BY <1>1, <1>2, <1>i
<1>4. ASSUME NEW i \in first PROVE Cardinality({j \in first : j <= i}) = i
  <2>1. {j \in first : j <= i} = 1..i
    BY <1>2
  <2>2. i \in Nat
    BY <1>2
  <2> HIDE DEF first
  <2> QED
    BY <2>1, <2>2, <1>i
<1> HIDE DEF first
<1>5. ASSUME NEW n \in 1..Len(s)
      PROVE  (CHOOSE i \in first : Cardinality({j \in first : j <= i}) = n) = n
  <2>1. n \in first /\ Cardinality({j \in first : j <= n}) = n
    BY <1>2, <1>4
  <2>2. \A i \in first : Cardinality({j \in first : j <= i}) = n => i = n
    BY <1>4
  <2> QED
    BY <2>1, <2>2
<1> DEFINE Nth(n) == CHOOSE i \in first : Cardinality({j \in first : j <= i}) = n
<1>6. MergeBcc(s, <<>>) = [n \in 1..Cardinality(first) |-> all[Nth(n)]]
  BY Zenon DEF MergeBcc, first
<1>8. \A n \in 1..Len(s) : Nth(n) = n
  BY <1>5
<1> HIDE DEF Nth
<1>7. s = [n \in 1..Len(s) |-> s[n]]
  OBVIOUS
<1> QED
  BY <1>1, <1>3, <1>6, <1>7, <1>8

\* The lifecycle of a change is written as it is, and passes the check of its attempts.
LEMMA UpdateLifecycleEncoded ==
    ASSUME NEW v \in UpdateLifecycles
    PROVE  EncodeUpdateLifecycle(v) = v /\ AttemptCountIsValid(v)
<1> USE DEF EncodeUpdateLifecycle, AttemptCountIsValid, PendingLifecycle, Attempts
<1>1. CASE v = PendingLifecycle
  BY <1>1
<1>2. CASE v \in [status : {"inFlight", "failedTerminal"}, attemptCount : Attempts]
  BY <1>2
<1>3. CASE v \in [status : {"retrying"}, attemptCount : Attempts, nextAttemptAt : STRING]
  BY <1>3
<1>4. CASE v \in [status : {"confirmed"}, attemptCount : Attempts]
  BY <1>4
<1> QED
  BY <1>1, <1>2, <1>3, <1>4 DEF UpdateLifecycles, OpenLifecycles

\* The lifecycle of a change is read back.
LEMMA UpdateLifecycleReadBack ==
    ASSUME NEW v \in UpdateLifecycles
    PROVE  DecodeUpdateLifecycle(EncodeUpdateLifecycle(v)) = {v}
BY UpdateLifecycleEncoded DEF DecodeUpdateLifecycle

\* The lifecycle of a send is read back, its confirmation included.
LEMMA SendLifecycleReadBack ==
    ASSUME NEW v \in SendLifecycles, NEW owner,
           v.status = "confirmed" => v.confirmation.accountKey = owner
    PROVE  DecodeSendLifecycle(EncodeSendLifecycle(v), owner) = {v}
<1>1. CASE v \in OpenLifecycles
  <2>1. v \in UpdateLifecycles /\ v.status # "confirmed"
    BY <1>1 DEF OpenLifecycles, UpdateLifecycles, PendingLifecycle
  <2>2. EncodeSendLifecycle(v) = v
    BY <2>1, UpdateLifecycleEncoded DEF EncodeSendLifecycle
  <2> QED
    BY <2>1, <2>2, UpdateLifecycleEncoded DEF DecodeSendLifecycle, DecodeUpdateLifecycle
<1>2. CASE v \in [status : {"confirmed"}, attemptCount : Attempts, confirmation : ScopedIds]
  <2> DEFINE d == [status |-> v.status, attemptCount |-> v.attemptCount,
                   confirmation |-> EncodeScopedEmailId(v.confirmation)]
  <2>1. EncodeSendLifecycle(v) = d
    BY <1>2 DEF EncodeSendLifecycle
  <2>2. AttemptCountIsValid(d)
    BY <1>2 DEF AttemptCountIsValid, Attempts
  <2>3. DecodeScopedEmailId(d.confirmation) = v.confirmation
    BY <1>2, ScopedIdsReadBack
  <2>4. d.status = "confirmed" /\ d.attemptCount = v.attemptCount /\ v.status = "confirmed"
    BY <1>2
  <2>5. v = [status |-> v.status, attemptCount |-> v.attemptCount, confirmation |-> v.confirmation]
    BY <1>2
  <2> HIDE DEF d
  <2>6. {i \in {DecodeScopedEmailId(d.confirmation)} : AttemptCountIsValid(d) /\ i.accountKey = owner}
          = {v.confirmation}
    BY <2>2, <2>3, <2>4
  <2>7. DecodeSendLifecycle(d, owner)
          = {[status |-> d.status, attemptCount |-> d.attemptCount, confirmation |-> id] : id \in {v.confirmation}}
    BY <2>4, <2>6 DEF DecodeSendLifecycle
  <2> QED
    BY <2>1, <2>4, <2>5, <2>7
<1> QED
  BY <1>1, <1>2 DEF SendLifecycles

\* A frozen intent is rebuilt whole: its recipients, its From and its merged Bcc.
LEMMA SendIntentReadBack ==
    ASSUME NEW v \in SendIntents
    PROVE  /\ DecodeSendIntent(EncodeSendIntent(v)) = {v}
<1> DEFINE d == EncodeSendIntent(v)
<1>1. v \in [identityId : ScopedIds, from : Addresses, replyTo : Seq(Addresses),
             to : Seq(Addresses), cc : Seq(Addresses), bcc : Seq(Addresses)]
  BY DEF SendIntents
<1>2. /\ d.identityId = EncodeScopedIdentityId(v.identityId)
      /\ d.from = v.from /\ d.replyTo = v.replyTo /\ d.to = v.to /\ d.cc = v.cc /\ d.bcc = v.bcc
  BY <1>1 DEF EncodeSendIntent
<1> HIDE DEF d
<1>3. v.from = [name |-> v.from.name, email |-> v.from.email]
  BY <1>1 DEF Addresses
<1>4. DecodeScopedIdentityId(d.identityId) = v.identityId
  BY <1>1, <1>2, ScopedIdsReadBack
<1>5. MergeBcc(v.bcc, <<>>) = v.bcc
  BY <1>1, MergeKeepsDistinct DEF SendIntents
<1> DEFINE identity == [id |-> v.identityId, name |-> v.from.name, email |-> v.from.email,
                        replyTo |-> v.replyTo, bcc |-> <<>>]
<1>6. DecodeSendIntent(d) = SendIntent(identity, v.to, v.cc, v.bcc)
  BY <1>2, <1>4 DEF DecodeSendIntent, SendIntents
<1>7. /\ identity.id = v.identityId /\ identity.name = v.from.name /\ identity.email = v.from.email
      /\ identity.replyTo = v.replyTo /\ identity.bcc = <<>>
  OBVIOUS
<1> HIDE DEF identity
<1>8. SendIntent(identity, v.to, v.cc, v.bcc)
        = {[identityId |-> v.identityId, from |-> v.from, replyTo |-> v.replyTo,
            to |-> v.to, cc |-> v.cc, bcc |-> v.bcc]}
  BY <1>3, <1>5, <1>7 DEF SendIntent, SendIntents
<1>9. v = [identityId |-> v.identityId, from |-> v.from, replyTo |-> v.replyTo,
           to |-> v.to, cc |-> v.cc, bcc |-> v.bcc]
  BY <1>1
<1> QED
  BY <1>6, <1>8, <1>9 DEF d

\* A send is read back.
LEMMA SendReadBack ==
    ASSUME NEW v \in SendMutations
    PROVE  DecodePendingMutation(EncodePendingMutation(v)) = {v}
<1> DEFINE d == EncodePendingMutation(v)
           base == [kind |-> "send", mutationId |-> v.mutationId, accountKey |-> v.accountKey,
                    intent |-> v.intent, lifecycle |-> PendingLifecycle]
<1>1. v \in [kind : {"send"}, mutationId : STRING, accountKey : STRING, intent : SendIntents,
             lifecycle : SendLifecycles]
  BY DEF SendMutations
<1>2. /\ d.kind = "send" /\ d.mutationId = v.mutationId /\ d.accountKey = v.accountKey
      /\ d.intent = EncodeSendIntent(v.intent) /\ d.lifecycle = EncodeSendLifecycle(v.lifecycle)
  BY <1>1 DEF EncodePendingMutation
<1> HIDE DEF d
<1>3. DecodeSendIntent(d.intent) = {v.intent}
  BY <1>1, <1>2, SendIntentReadBack
<1>4. DecodeSendLifecycle(d.lifecycle, d.accountKey) = {v.lifecycle}
  BY <1>1, <1>2, SendLifecycleReadBack DEF SendMutations
<1>5. SendMutation(d.mutationId, d.accountKey, v.intent) = {base}
  BY <1>2 DEF SendMutation, SendMutations
<1>6. UNION {SendMutation(d.mutationId, d.accountKey, i) : i \in DecodeSendIntent(d.intent)} = {base}
  BY <1>3, <1>5
<1>7. [base EXCEPT !.lifecycle = v.lifecycle] = v
  BY <1>1
<1>8. DecodePendingMutation(d) = {[b EXCEPT !.lifecycle = l] : b \in {base}, l \in {v.lifecycle}}
  <2> HIDE DEF base
  <2> QED
    BY <1>2, <1>4, <1>6 DEF DecodePendingMutation
<1> HIDE DEF base
<1> QED
  BY <1>7, <1>8 DEF d

\* A keyword change is read back: its sets of keywords travel as lists.
LEMMA KeywordReadBack ==
    ASSUME NEW v \in KeywordMutations
    PROVE  DecodePendingMutation(EncodePendingMutation(v)) = {v}
<1> DEFINE d == EncodePendingMutation(v)
           base == [kind |-> "keyword", mutationId |-> v.mutationId, accountKey |-> v.accountKey,
                    emailId |-> v.emailId, change |-> v.change, lifecycle |-> PendingLifecycle]
<1>1. v \in [kind : {"keyword"}, mutationId : STRING, accountKey : STRING, emailId : ScopedIds,
             change : [add : SUBSET STRING, remove : SUBSET STRING], lifecycle : UpdateLifecycles]
  BY DEF KeywordMutations
<1>2. /\ d.kind = "keyword" /\ d.mutationId = v.mutationId /\ d.accountKey = v.accountKey
      /\ d.emailId = EncodeScopedEmailId(v.emailId)
      /\ d.change.add = SetToSeq(v.change.add) /\ d.change.remove = SetToSeq(v.change.remove)
      /\ d.lifecycle = EncodeUpdateLifecycle(v.lifecycle)
  BY <1>1 DEF EncodePendingMutation
<1> HIDE DEF d
<1>3. DecodeScopedEmailId(d.emailId) = v.emailId
  BY <1>1, <1>2, ScopedIdsReadBack
<1>4. DecodeUpdateLifecycle(d.lifecycle) = {v.lifecycle}
  BY <1>1, <1>2, UpdateLifecycleReadBack
<1>5. ToSet(d.change.add) = v.change.add /\ ToSet(d.change.remove) = v.change.remove
  BY <1>2, SetReadBack DEF KeywordMutations
<1>6. KeywordChange(v.change.add, v.change.remove) = {[add |-> v.change.add, remove |-> v.change.remove]}
  BY DEF KeywordMutations, KeywordChange
<1>7. v.change = [add |-> v.change.add, remove |-> v.change.remove]
  BY <1>1
<1>8. KeywordMutation(v.mutationId, v.accountKey, v.emailId, v.change.add, v.change.remove) = {base}
  BY <1>6, <1>7 DEF KeywordMutation, KeywordMutations
<1>9. [base EXCEPT !.lifecycle = v.lifecycle] = v
  BY <1>1
<1>10. DecodePendingMutation(d) = {[b EXCEPT !.lifecycle = l] : b \in {base}, l \in {v.lifecycle}}
  <2> HIDE DEF base
  <2> QED
    BY <1>2, <1>3, <1>4, <1>5, <1>8 DEF DecodePendingMutation
<1> HIDE DEF base
<1> QED
  BY <1>9, <1>10 DEF d

\* A move between Mailboxes is read back, its lists in their order.
LEMMA MembershipReadBack ==
    ASSUME NEW v \in MailboxMembershipMutations
    PROVE  DecodePendingMutation(EncodePendingMutation(v)) = {v}
<1> DEFINE d == EncodePendingMutation(v)
           base == [kind |-> "mailboxMembership", mutationId |-> v.mutationId, accountKey |-> v.accountKey,
                    emailId |-> v.emailId, change |-> v.change, lifecycle |-> PendingLifecycle]
<1>1. v \in [kind : {"mailboxMembership"}, mutationId : STRING, accountKey : STRING, emailId : ScopedIds,
             change : [add : Seq(ScopedIds), remove : Seq(ScopedIds)], lifecycle : UpdateLifecycles]
  BY DEF MailboxMembershipMutations
<1>2. /\ d.kind = "mailboxMembership" /\ d.mutationId = v.mutationId /\ d.accountKey = v.accountKey
      /\ d.emailId = EncodeScopedEmailId(v.emailId)
      /\ d.change.add = MapSeq(EncodeScopedMailboxId, v.change.add)
      /\ d.change.remove = MapSeq(EncodeScopedMailboxId, v.change.remove)
      /\ d.lifecycle = EncodeUpdateLifecycle(v.lifecycle)
  BY <1>1 DEF EncodePendingMutation
<1> HIDE DEF d
<1>3. DecodeScopedEmailId(d.emailId) = v.emailId
  BY <1>1, <1>2, ScopedIdsReadBack
<1>4. DecodeUpdateLifecycle(d.lifecycle) = {v.lifecycle}
  BY <1>1, <1>2, UpdateLifecycleReadBack
<1>5. /\ MapSeq(DecodeScopedMailboxId, d.change.add) = v.change.add
      /\ MapSeq(DecodeScopedMailboxId, d.change.remove) = v.change.remove
  BY <1>1, <1>2, MailboxListReadBack
<1>6. MailboxMembershipChange(v.change.add, v.change.remove) = {[add |-> v.change.add, remove |-> v.change.remove]}
  BY DEF MailboxMembershipMutations, MailboxMembershipChange
<1>7. v.change = [add |-> v.change.add, remove |-> v.change.remove]
  BY <1>1
<1>8. MailboxMembershipMutation(v.mutationId, v.accountKey, v.emailId, v.change.add, v.change.remove) = {base}
  BY <1>6, <1>7 DEF MailboxMembershipMutation, MailboxMembershipMutations
<1>9. [base EXCEPT !.lifecycle = v.lifecycle] = v
  BY <1>1
<1>10. DecodePendingMutation(d) = {[b EXCEPT !.lifecycle = l] : b \in {base}, l \in {v.lifecycle}}
  <2> HIDE DEF base
  <2> QED
    BY <1>2, <1>3, <1>4, <1>5, <1>8 DEF DecodePendingMutation
<1> HIDE DEF base
<1> QED
  BY <1>9, <1>10 DEF d

\* The codecs lose nothing of a mutation, whatever its kind and its lifecycle.
LEMMA MutationReadBack ==
    ASSUME NEW v \in PendingMutations
    PROVE  /\ DecodePendingMutation(EncodePendingMutation(v)) = {v}
           /\ Mutation(EncodePendingMutation(v)) = v
<1>1. DecodePendingMutation(EncodePendingMutation(v)) = {v}
  BY SendReadBack, KeywordReadBack, MembershipReadBack DEF PendingMutations
<1> QED
  BY <1>1 DEF Mutation

\* What the DTO of a mutation says without being decoded.
LEMMA MutationEncoded ==
    ASSUME NEW v \in PendingMutations
    PROVE  /\ EncodePendingMutation(v).mutationId = v.mutationId
           /\ EncodePendingMutation(v).lifecycle.status = v.lifecycle.status
           /\ EncodePendingMutation(v).lifecycle.attemptCount = v.lifecycle.attemptCount
<1>1. CASE v \in SendMutations
  <2>1. v \in [kind : {"send"}, mutationId : STRING, accountKey : STRING, intent : SendIntents,
               lifecycle : SendLifecycles]
    BY <1>1 DEF SendMutations
  <2>2. /\ EncodePendingMutation(v).mutationId = v.mutationId
        /\ EncodePendingMutation(v).lifecycle = EncodeSendLifecycle(v.lifecycle)
    BY <2>1 DEF EncodePendingMutation
  <2>3. CASE v.lifecycle.status = "confirmed"
    BY <2>2, <2>3 DEF EncodeSendLifecycle
  <2>4. CASE v.lifecycle.status # "confirmed"
    <3>1. v.lifecycle \in UpdateLifecycles
      BY <2>1, <2>4 DEF SendLifecycles, UpdateLifecycles
    <3> QED
      BY <2>2, <2>4, <3>1, UpdateLifecycleEncoded DEF EncodeSendLifecycle
  <2> QED
    BY <2>3, <2>4
<1>2. CASE v \in KeywordMutations
  <2>1. v \in [kind : {"keyword"}, mutationId : STRING, accountKey : STRING, emailId : ScopedIds,
               change : [add : SUBSET STRING, remove : SUBSET STRING], lifecycle : UpdateLifecycles]
    BY <1>2 DEF KeywordMutations
  <2>2. /\ EncodePendingMutation(v).mutationId = v.mutationId
        /\ EncodePendingMutation(v).lifecycle = EncodeUpdateLifecycle(v.lifecycle)
    BY <2>1 DEF EncodePendingMutation
  <2> QED
    BY <2>1, <2>2, UpdateLifecycleEncoded
<1>3. CASE v \in MailboxMembershipMutations
  <2>1. v \in [kind : {"mailboxMembership"}, mutationId : STRING, accountKey : STRING, emailId : ScopedIds,
               change : [add : Seq(ScopedIds), remove : Seq(ScopedIds)], lifecycle : UpdateLifecycles]
    BY <1>3 DEF MailboxMembershipMutations
  <2>2. /\ EncodePendingMutation(v).mutationId = v.mutationId
        /\ EncodePendingMutation(v).lifecycle = EncodeUpdateLifecycle(v.lifecycle)
    BY <2>1 DEF EncodePendingMutation
  <2> QED
    BY <2>1, <2>2, UpdateLifecycleEncoded
<1> QED
  BY <1>1, <1>2, <1>3 DEF PendingMutations

\* A view is read by the engine as it was sent, and from the engine as it was stored, if it is valid.
LEMMA ViewReadBack ==
    ASSUME NEW v \in ViewInputs
    PROVE  /\ RawView(EncodeMailboxView(v)) = v
           /\ DecodeMailboxView(EncodeMailboxView(v)) = MailboxView(v)
<1> DEFINE d == EncodeMailboxView(v)
           Sent(item) == [position |-> item.position, emailId |-> EncodeScopedEmailId(item.emailId)]
           Got(item) == [position |-> item.position, emailId |-> DecodeScopedEmailId(item.emailId)]
<1>1. /\ d.spec.mailboxId = EncodeScopedMailboxId(v.mailboxId) /\ d.total = v.total
      /\ d.coverage = v.coverage /\ d.items = MapSeq(Sent, v.items)
  BY DEF EncodeMailboxView
<1>2. DecodeScopedMailboxId(d.spec.mailboxId) = v.mailboxId
  BY <1>1, ScopedIdsReadBack DEF ViewInputs
<1>3. v.items \in Seq([position : Nat, emailId : ScopedIds])
  BY DEF ViewInputs
<1>4. ASSUME NEW i \in DOMAIN v.items PROVE Got(Sent(v.items[i])) = v.items[i]
  <2>1. v.items[i] \in [position : Nat, emailId : ScopedIds]
    BY <1>3, ElementOf
  <2> QED
    BY <2>1, ScopedIdsReadBack
<1>5. v.items = [i \in DOMAIN v.items |-> v.items[i]]
  BY <1>3
<1> HIDE DEF Sent, Got, d
<1>6. MapSeq(Got, d.items) = v.items
  BY <1>1, <1>4, <1>5 DEF MapSeq
<1>7. v = [mailboxId |-> v.mailboxId, total |-> v.total, coverage |-> v.coverage, items |-> v.items]
  BY DEF ViewInputs
<1>8. RawView(d) = v
  BY <1>1, <1>2, <1>6, <1>7 DEF RawView, Got
<1>9. DecodeMailboxView(d) = MailboxView(v)
  BY <1>1, <1>2, <1>6, <1>7 DEF DecodeMailboxView, Got
<1> QED
  BY <1>8, <1>9 DEF d

-----------------------------------------------------------------------------
(* The loops of mailboxView(). *)

\* A nonempty set of numbers has a least one.
LEMMA LeastNumber ==
    ASSUME NEW S, S \subseteq Nat, S # {}
    PROVE  \E k \in S : \A j \in S : k <= j
<1>1. PICK k \in S : \A j \in S : ~(<<j, k>> \in OpToRel(<, Nat))
  BY NatLessThanWellFounded, WFMin
<1>2. ASSUME NEW j \in S PROVE k <= j
  <2>1. <<j, k>> \in Nat \X Nat
    OBVIOUS
  <2>2. ~(j < k)
    BY <1>1, <2>1 DEF OpToRel
  <2> QED
    BY <2>2
<1> QED
  BY <1>2

\* What one turn of the loop over the ranges has checked when it does not throw.
LEMMA RangeCovered ==
    ASSUME NEW items, NEW at, NEW range, CoverRange(items, at, range) # 0
    PROVE  LET next == CoverRange(items, at, range) IN
           /\ at > 0
           /\ \A i \in at..(next - 1) : items[i].position = range.start + (i - at)
           /\ range.start + (next - at) = range.endExclusive
BY DEF CoverRange

\* The loops of mailboxView() decide a set equation: the items stand at exactly the
\* positions that the coverage declares known.
LEMMA CoverageIsExact ==
    ASSUME NEW v \in MailboxViews
    PROVE  {v.items[i].position : i \in DOMAIN v.items} =
               UNION {v.coverage[i].start..(v.coverage[i].endExclusive - 1) : i \in DOMAIN v.coverage}
<1> DEFINE items == v.items
           coverage == v.coverage
           n == Len(items)
           m == Len(coverage)
<1>1. /\ items \in Seq([position : Nat, emailId : ScopedIds])
      /\ coverage \in Seq([start : Nat, endExclusive : Nat])
  BY DEF MailboxViews, ViewInputs
<1>2. /\ n \in Nat /\ DOMAIN items = 1..n
      /\ m \in Nat /\ DOMAIN coverage = 1..m
  BY <1>1
<1>3. ASSUME NEW k \in 1..m
      PROVE  /\ coverage[k].start \in Nat /\ coverage[k].endExclusive \in Nat
             /\ coverage[k].start < coverage[k].endExclusive
  <2>1. coverage[k] \in [start : Nat, endExclusive : Nat]
    BY <1>1, <1>2, ElementOf
  <2>2. coverage[k].start < coverage[k].endExclusive
    BY <1>2 DEF MailboxViews, MailboxView, ValidCoverage
  <2> QED
    BY <2>1, <2>2
<1>4. PICK at \in [0..m -> 0..(n + 1)] :
         /\ at[0] = 1
         /\ \A k \in 1..m : at[k] = CoverRange(items, at[k - 1], coverage[k])
         /\ at[m] = n + 1
  BY DEF MailboxViews, MailboxView, ValidCoverageItems, Coverings
<1> HIDE DEF items, coverage, n, m
\* A turn that throws is not followed by one that succeeds.
<1>5. ASSUME NEW k \in 0..m PROVE at[k] # 0
  <2> SUFFICES ASSUME at[k] = 0 PROVE FALSE
    OBVIOUS
  <2> DEFINE S == {j \in k..m : at[j] # 0}
  <2>1. m \in S /\ S \subseteq Nat
    BY <1>2, <1>4
  <2>2. PICK j \in S : \A i \in S : j <= i
    BY <2>1, LeastNumber
  <2>3. j # k /\ j \in 1..m /\ j - 1 \in k..m /\ j - 1 \notin S
    BY <1>2, <2>2
  <2>4. at[j - 1] = 0 /\ at[j] = CoverRange(items, at[j - 1], coverage[j]) /\ at[j] # 0
    BY <1>4, <2>2, <2>3
  <2> QED
    BY <2>4, RangeCovered
<1>6. ASSUME NEW k \in 1..m
      PROVE  /\ at[k - 1] \in 1..(n + 1) /\ at[k] \in 1..(n + 1)
             /\ \A i \in at[k - 1]..(at[k] - 1) : items[i].position = coverage[k].start + (i - at[k - 1])
             /\ coverage[k].start + (at[k] - at[k - 1]) = coverage[k].endExclusive
  <2>1. k - 1 \in 0..m /\ k \in 0..m
    BY <1>2
  <2>2. at[k - 1] # 0 /\ at[k] # 0 /\ at[k] = CoverRange(items, at[k - 1], coverage[k])
    BY <1>4, <1>5, <2>1
  <2>3. at[k - 1] \in 0..(n + 1) /\ at[k] \in 0..(n + 1)
    BY <1>4, <2>1
  <2> QED
    BY <1>2, <2>2, <2>3, RangeCovered
<1>7. ASSUME NEW i \in 1..n
      PROVE  \E k \in 1..m : items[i].position \in coverage[k].start..(coverage[k].endExclusive - 1)
  <2> DEFINE S == {k \in 0..m : at[k] > i}
  <2>1. m \in S /\ S \subseteq Nat
    BY <1>2, <1>4
  <2>2. PICK k \in S : \A j \in S : k <= j
    BY <2>1, LeastNumber
  <2>3. k \in 1..m /\ k - 1 \in 0..m /\ k - 1 \notin S
    BY <1>2, <1>4, <2>2
  <2>4. at[k - 1] <= i /\ i <= at[k] - 1
    BY <1>2, <1>6, <2>2, <2>3
  <2>5. i \in at[k - 1]..(at[k] - 1)
    BY <1>2, <1>6, <2>3, <2>4
  <2>6. items[i].position = coverage[k].start + (i - at[k - 1])
    BY <1>6, <2>3, <2>5
  <2> DEFINE a == at[k - 1]
             b == at[k]
             s == coverage[k].start
             e == coverage[k].endExclusive
  <2>9. a \in 1..(n + 1) /\ b \in 1..(n + 1) /\ s + (b - a) = e
    BY <1>6, <2>3
  <2>10. s \in Nat /\ e \in Nat
    BY <1>3, <2>3
  <2>11. a <= i /\ i <= b - 1 /\ items[i].position = s + (i - a)
    BY <2>4, <2>6
  <2>7. /\ a \in Nat /\ b \in Nat /\ s \in Nat /\ e \in Nat /\ i \in Nat
        /\ a <= i /\ i <= b - 1 /\ s + (b - a) = e /\ items[i].position = s + (i - a)
    <3> HIDE DEF a, b, s, e
    <3> QED
      BY <1>2, <2>9, <2>10, <2>11
  <2> HIDE DEF a, b, s, e
  <2>8. items[i].position \in s..(e - 1)
    BY <2>7
  <2> QED
    BY <2>3, <2>8 DEF s, e
<1>8. ASSUME NEW k \in 1..m, NEW p \in coverage[k].start..(coverage[k].endExclusive - 1)
      PROVE  \E i \in 1..n : items[i].position = p
  <2> DEFINE a == at[k - 1]
             b == at[k]
             s == coverage[k].start
             e == coverage[k].endExclusive
             i == a + (p - s)
  <2>3. a \in 1..(n + 1) /\ b \in 1..(n + 1) /\ s \in Nat /\ e \in Nat /\ s + (b - a) = e /\ p \in s..(e - 1)
    BY <1>3, <1>6
  <2> HIDE DEF a, b, s, e
  <2>4. i \in a..(b - 1) /\ i \in 1..n /\ s + (i - a) = p
    BY <1>2, <2>3
  <2>1. i \in at[k - 1]..(at[k] - 1) /\ i \in 1..n /\ coverage[k].start + (i - at[k - 1]) = p
    BY <2>4 DEF a, b, s
  <2> HIDE DEF i
  <2>2. items[i].position = p
    BY <1>6, <2>1
  <2> QED
    BY <2>1, <2>2
<1>9. {items[i].position : i \in 1..n} =
          UNION {coverage[i].start..(coverage[i].endExclusive - 1) : i \in 1..m}
  <2> DEFINE R(k) == coverage[k].start..(coverage[k].endExclusive - 1)
  <2>1. \A i \in 1..n : \E k \in 1..m : items[i].position \in R(k)
    BY <1>7
  <2>2. \A k \in 1..m : \A p \in R(k) : \E i \in 1..n : items[i].position = p
    BY <1>8
  <2> HIDE DEF R
  <2>3. {items[i].position : i \in 1..n} = UNION {R(k) : k \in 1..m}
    BY <2>1, <2>2
  <2> QED
    BY <2>3 DEF R
<1> QED
  BY <1>2, <1>9 DEF items, coverage

-----------------------------------------------------------------------------
(* What a write changes, and what it says of it. *)

\* Two stores that differ at most in the maps named in F.
SameExcept(s, t, F) == DOMAIN t = DOMAIN s /\ \A f \in DOMAIN s \ F : t[f] = s[f]

Tables == {"accounts", "mailboxes", "identities", "emails", "memberships", "bodies", "attachments",
           "views", "cursors", "mutations"}

QueryKinds == {"accounts", "account", "mailboxes", "identities", "email", "memberships", "body",
               "attachments", "view", "cursor", "mutations"}

\* The part of the store that a read depends on.
SameFor(s, t, q) ==
    LET k == q.key
        Same(name) == /\ k \in DOMAIN s[name] <=> k \in DOMAIN t[name]
                      /\ k \in DOMAIN s[name] => s[name][k] = t[name][k]
    IN  CASE q.kind \in {"accounts", "account"} -> s.accounts = t.accounts
          [] q.kind = "mailboxes" -> s.accounts = t.accounts /\ Owned(s.mailboxes, k) = Owned(t.mailboxes, k)
          [] q.kind = "identities" -> s.accounts = t.accounts /\ Owned(s.identities, k) = Owned(t.identities, k)
          [] q.kind = "email" -> Same("emails")
          [] q.kind = "memberships" -> Same("emails") /\ Same("memberships")
          [] q.kind = "body" -> Same("emails") /\ (k \in s.bodies <=> k \in t.bodies)
          [] q.kind = "attachments" -> Same("emails") /\ (k \in s.attachments <=> k \in t.attachments)
          [] q.kind = "view" -> (k \in s.mailboxes <=> k \in t.mailboxes) /\ Same("views")
          [] q.kind = "cursor" -> s.accounts = t.accounts /\ Same("cursors")
          [] q.kind = "mutations" -> s.accounts = t.accounts /\ ValuesOf(s.mutations, k) = ValuesOf(t.mutations, k)

\* A read answers alike from two stores that agree on what it depends on.
LEMMA ReadDepends ==
    \A s, t, q : q.kind \in QueryKinds /\ SameFor(s, t, q) => Read(s, q) = Read(t, q)
<1> SUFFICES ASSUME NEW s, NEW t, NEW q, q.kind \in QueryKinds, SameFor(s, t, q)
             PROVE  Read(s, q) = Read(t, q)
  OBVIOUS
<1> USE DEF SameFor, QueryKinds, Read, OwnedBy
<1>1. CASE q.kind = "accounts"
  BY <1>1
<1>2. CASE q.kind = "account"
  BY <1>2
<1>3. CASE q.kind = "mailboxes"
  BY <1>3
<1>4. CASE q.kind = "identities"
  BY <1>4
<1>5. CASE q.kind = "email"
  BY <1>5
<1>6. CASE q.kind = "memberships"
  BY <1>6
<1>7. CASE q.kind = "body"
  BY <1>7
<1>8. CASE q.kind = "attachments"
  BY <1>8
<1>9. CASE q.kind = "view"
  BY <1>9
<1>10. CASE q.kind = "cursor"
  BY <1>10
<1>11. CASE q.kind = "mutations"
  BY <1>11
<1> QED
  BY <1>1, <1>2, <1>3, <1>4, <1>5, <1>6, <1>7, <1>8, <1>9, <1>10, <1>11

\* The maps of a store.
LEMMA StoreTables == ASSUME NEW s, IsStore(s) PROVE DOMAIN s = Tables
BY DEF IsStore, MemoryState, Tables

\* The effect of registering an account.
LEMMA RegisterEffect ==
    \A s, account : IsStore(s) =>
        LET o == RegisterAccount(s, account) IN
        /\ SameExcept(s, o.db, {"accounts"})
        /\ o.db = s \/ o.hints = {Hint("accounts", None)}
BY StoreTables DEF RegisterAccount, Committed, Conflict, SameExcept, Tables

\* The effect of a collection commit: only rows of its own account and its cursor.
LEMMA CommitEffect ==
    \A s, c : IsStore(s) /\ c.mode \in {"replace", "delta"} /\ c.kind \in {"email", "mailbox", "identity"} =>
        LET o == ApplyCollectionSync(s, c)
            t == o.db
        IN  \/ o = Conflict(s)
            \/ /\ c.kind = "email" => SameExcept(s, t, {"emails", "memberships", "cursors"})
               /\ c.kind = "mailbox" => SameExcept(s, t, {"mailboxes", "cursors"})
               /\ c.kind = "identity" => SameExcept(s, t, {"identities", "cursors"})
               /\ c.kind = "email" =>
                     /\ t.emails = CommitEmails(s, c).emails
                     /\ t.memberships = CommitEmails(s, c).memberships
               /\ c.kind = "mailbox" => t.mailboxes = CommitMailboxes(s, c).mailboxes
               /\ c.kind = "identity" => t.identities = CommitIdentities(s, c).identities
               /\ t.cursors = With(s.cursors, Entry(<<c.account, c.kind>>, c.next))
               /\ o.hints = CommitHints(c)
               /\ ValidateCommit(c)
<1> TAKE s, c
<1> HAVE IsStore(s) /\ c.mode \in {"replace", "delta"} /\ c.kind \in {"email", "mailbox", "identity"}
<1> DEFINE o == ApplyCollectionSync(s, c)
<1> SUFFICES ASSUME o # Conflict(s)
             PROVE  /\ c.kind = "email" => SameExcept(s, o.db, {"emails", "memberships", "cursors"})
                    /\ c.kind = "mailbox" => SameExcept(s, o.db, {"mailboxes", "cursors"})
                    /\ c.kind = "identity" => SameExcept(s, o.db, {"identities", "cursors"})
                    /\ c.kind = "email" =>
                          /\ o.db.emails = CommitEmails(s, c).emails
                          /\ o.db.memberships = CommitEmails(s, c).memberships
                    /\ c.kind = "mailbox" => o.db.mailboxes = CommitMailboxes(s, c).mailboxes
                    /\ c.kind = "identity" => o.db.identities = CommitIdentities(s, c).identities
                    /\ o.db.cursors = With(s.cursors, Entry(<<c.account, c.kind>>, c.next))
                    /\ o.hints = CommitHints(c)
                    /\ ValidateCommit(c)
  OBVIOUS
<1> DEFINE u == CASE c.kind = "email"    -> CommitEmails(s, c)
                  [] c.kind = "mailbox"  -> CommitMailboxes(s, c)
                  [] c.kind = "identity" -> CommitIdentities(s, c)
<1>1. /\ o = Committed([u EXCEPT !.cursors = With(@, Entry(<<c.account, c.kind>>, c.next))], CommitHints(c))
      /\ ValidateCommit(c)
  BY DEF ApplyCollectionSync
<1>2. /\ o.db = [u EXCEPT !.cursors = With(@, Entry(<<c.account, c.kind>>, c.next))]
      /\ o.hints = CommitHints(c)
  BY <1>1 DEF Committed
<1>3. /\ c.kind = "email" => SameExcept(s, u, {"emails", "memberships"}) /\ u = CommitEmails(s, c)
      /\ c.kind = "mailbox" => SameExcept(s, u, {"mailboxes"}) /\ u = CommitMailboxes(s, c)
      /\ c.kind = "identity" => SameExcept(s, u, {"identities"}) /\ u = CommitIdentities(s, c)
  <2>1. CASE c.kind = "email"
    BY <2>1, StoreTables DEF CommitEmails, SameExcept, Tables
  <2>2. CASE c.kind = "mailbox"
    BY <2>2, StoreTables DEF CommitMailboxes, SameExcept, Tables
  <2>3. CASE c.kind = "identity"
    BY <2>3, StoreTables DEF CommitIdentities, SameExcept, Tables
  <2> QED
    BY <2>1, <2>2, <2>3
<1> HIDE DEF o, u
<1>4. /\ DOMAIN u = Tables /\ DOMAIN s = Tables /\ u.cursors = s.cursors
  BY <1>3, StoreTables DEF SameExcept, Tables
<1>5. /\ DOMAIN o.db = Tables
      /\ \A f \in Tables \ {"cursors"} : o.db[f] = u[f]
      /\ o.db.cursors = With(s.cursors, Entry(<<c.account, c.kind>>, c.next))
  BY <1>2, <1>4 DEF Tables
<1> QED
  BY <1>1, <1>2, <1>3, <1>4, <1>5 DEF SameExcept, Tables

\* The effect of caching a body or a list of attachments.
LEMMA CacheEffect ==
    \A s, id : IsStore(s) =>
           /\ LET o == CacheEmailBody(s, id) IN
              \/ o = Conflict(s)
              \/ /\ SameExcept(s, o.db, {"bodies"}) /\ o.db.bodies = s.bodies \cup {id}
                 /\ o.hints = {Hint("emailBody", id)}
           /\ LET o == ReplaceAttachmentRefs(s, id) IN
              \/ o = Conflict(s)
              \/ /\ SameExcept(s, o.db, {"attachments"}) /\ o.db.attachments = s.attachments \cup {id}
                 /\ o.hints = {Hint("attachmentRefs", id)}
BY StoreTables DEF CacheEmailBody, ReplaceAttachmentRefs, Committed, SameExcept, Tables

\* The effect of replacing a view: only a valid one is stored.
LEMMA ViewEffect ==
    \A s, v : IsStore(s) =>
           LET o == ReplaceMailboxView(s, v) IN
           \/ o.db = s /\ o.hints = {} /\ o.result # "ok"
           \/ /\ SameExcept(s, o.db, {"views"}) /\ o.db.views = With(s.views, Entry(v.mailboxId, v))
              /\ MailboxView(v) # {}
              /\ o.hints = {Hint("mailboxView", v.mailboxId)}
BY StoreTables DEF ReplaceMailboxView, Committed, Conflict, Thrown, SameExcept, Tables

\* The effect of staging a mutation: the optimistic change of its Email, and its row.
LEMMA StageEffect ==
    \A s, v : \A op \in StagingOps : IsStore(s) =>
           LET o == Perform(s, op, v) IN
           \/ o = Conflict(s)
           \/ /\ CanStage(s, v) /\ o.db.mutations = Staged(s, v)
              /\ Hint("pendingMutations", v.accountKey) \in o.hints
              /\ op = "stageSendMutation" => SameExcept(s, o.db, {"mutations"})
              /\ op = "applyOptimisticKeywordMutation" =>
                    /\ SameExcept(s, o.db, {"emails", "mutations"})
                    /\ DOMAIN o.db.emails = DOMAIN s.emails
                    /\ \A k \in DOMAIN s.emails \ {v.emailId} : o.db.emails[k] = s.emails[k]
                    /\ Hint("emails", v.accountKey) \in o.hints
              /\ op = "applyOptimisticMailboxMembershipMutation" =>
                    /\ SameExcept(s, o.db, {"memberships", "mutations"})
                    /\ DOMAIN o.db.memberships = DOMAIN s.memberships
                    /\ \A k \in DOMAIN s.memberships \ {v.emailId} : o.db.memberships[k] = s.memberships[k]
                    /\ Hint("emailMemberships", v.accountKey) \in o.hints
<1> TAKE s, v
<1> TAKE op \in StagingOps
<1> HAVE IsStore(s)
<1>1. CASE op = "stageSendMutation"
  BY <1>1, StoreTables DEF Perform, StageSendMutation, Committed, SameExcept, Tables
<1>2. CASE op = "applyOptimisticKeywordMutation"
  <2>1. Perform(s, op, v) = ApplyOptimisticKeywordMutation(s, v)
    BY <1>2 DEF Perform
  <2> DEFINE t == [s EXCEPT !.emails[v.emailId] = (@ \cup v.change.add) \ v.change.remove,
                            !.mutations = Staged(s, v)]
  <2>2. SUFFICES ASSUME Perform(s, op, v) # Conflict(s)
                 PROVE  /\ CanStage(s, v) /\ t.mutations = Staged(s, v)
                        /\ SameExcept(s, t, {"emails", "mutations"})
                        /\ DOMAIN t.emails = DOMAIN s.emails
                        /\ \A k \in DOMAIN s.emails \ {v.emailId} : t.emails[k] = s.emails[k]
    <3>1. \/ Perform(s, op, v) = Conflict(s)
          \/ Perform(s, op, v) = Committed(t, {Hint("emails", v.accountKey), Hint("pendingMutations", v.accountKey)})
      BY <2>1 DEF ApplyOptimisticKeywordMutation
    <3> HIDE DEF t
    <3>2. CASE Perform(s, op, v) = Conflict(s)
      BY <3>2
    <3>3. CASE Perform(s, op, v) = Committed(t, {Hint("emails", v.accountKey), Hint("pendingMutations", v.accountKey)})
      <4>1. /\ Perform(s, op, v).db = t
            /\ Perform(s, op, v).hints = {Hint("emails", v.accountKey), Hint("pendingMutations", v.accountKey)}
        BY <3>3 DEF Committed
      <4> QED
        BY <1>2, <4>1
    <3> QED
      BY <3>1, <3>2, <3>3
  <2>3. CanStage(s, v)
    BY <2>1, <2>2 DEF ApplyOptimisticKeywordMutation
  <2> QED
    BY <2>3, StoreTables DEF SameExcept, Tables
<1>3. CASE op = "applyOptimisticMailboxMembershipMutation"
  <2>1. Perform(s, op, v) = ApplyOptimisticMailboxMembershipMutation(s, v)
    BY <1>3 DEF Perform
  <2> DEFINE next == (s.memberships[v.emailId] \ ToSet(v.change.remove)) \cup ToSet(v.change.add)
             t == [s EXCEPT !.memberships[v.emailId] = next, !.mutations = Staged(s, v)]
  <2>2. SUFFICES ASSUME Perform(s, op, v) # Conflict(s)
                 PROVE  /\ CanStage(s, v) /\ t.mutations = Staged(s, v)
                        /\ SameExcept(s, t, {"memberships", "mutations"})
                        /\ DOMAIN t.memberships = DOMAIN s.memberships
                        /\ \A k \in DOMAIN s.memberships \ {v.emailId} : t.memberships[k] = s.memberships[k]
    <3>1. \/ Perform(s, op, v) = Conflict(s)
          \/ Perform(s, op, v)
               = Committed(t, {Hint("emailMemberships", v.accountKey), Hint("pendingMutations", v.accountKey)})
      BY <2>1 DEF ApplyOptimisticMailboxMembershipMutation
    <3> HIDE DEF t
    <3>2. CASE Perform(s, op, v) = Conflict(s)
      BY <3>2
    <3>3. CASE Perform(s, op, v)
                 = Committed(t, {Hint("emailMemberships", v.accountKey), Hint("pendingMutations", v.accountKey)})
      <4>1. /\ Perform(s, op, v).db = t
            /\ Perform(s, op, v).hints = {Hint("emailMemberships", v.accountKey), Hint("pendingMutations", v.accountKey)}
        BY <3>3 DEF Committed
      <4> QED
        BY <1>3, <4>1
    <3> QED
      BY <3>1, <3>2, <3>3
  <2>3. CanStage(s, v)
    BY <2>1, <2>2 DEF ApplyOptimisticMailboxMembershipMutation
  <2> HIDE DEF next
  <2> QED
    BY <2>3, StoreTables DEF SameExcept, Tables
<1> QED
  BY <1>1, <1>2, <1>3 DEF StagingOps

\* The fields that every mutation has.
LEMMA MutationFields ==
    ASSUME NEW v \in PendingMutations
    PROVE  /\ v.mutationId \in STRING /\ v.accountKey \in STRING
           /\ {"mutationId", "accountKey", "lifecycle", "kind"} \subseteq DOMAIN v
           /\ v.lifecycle \in SendLifecycles \cup UpdateLifecycles
           /\ v.kind \in {"send", "keyword", "mailboxMembership"}
<1>1. CASE v \in SendMutations
  BY <1>1 DEF SendMutations
<1>2. CASE v \in KeywordMutations
  BY <1>2 DEF KeywordMutations
<1>3. CASE v \in MailboxMembershipMutations
  BY <1>3 DEF MailboxMembershipMutations
<1> QED
  BY <1>1, <1>2, <1>3 DEF PendingMutations

\* Mutations that differ at most in their lifecycle have the same key.
LEMMA SameImmutableKey ==
    ASSUME NEW v \in PendingMutations, NEW w \in PendingMutations, SameImmutableMutation(v, w)
    PROVE  v.accountKey = w.accountKey /\ v.mutationId = w.mutationId /\ MutationKey(v) = MutationKey(w)
<1>1. [v EXCEPT !.lifecycle = PendingLifecycle] = [w EXCEPT !.lifecycle = PendingLifecycle]
  BY DEF SameImmutableMutation, MutationsEqual
<1>2. /\ [v EXCEPT !.lifecycle = PendingLifecycle].accountKey = v.accountKey
      /\ [v EXCEPT !.lifecycle = PendingLifecycle].mutationId = v.mutationId
      /\ [w EXCEPT !.lifecycle = PendingLifecycle].accountKey = w.accountKey
      /\ [w EXCEPT !.lifecycle = PendingLifecycle].mutationId = w.mutationId
  BY MutationFields
<1> QED
  BY <1>1, <1>2 DEF MutationKey

\* The effect of moving a row on: the row that the caller saw, and no other.
LEMMA ReplaceEffect ==
    \A s : \A v, w \in PendingMutations : IsStore(s) =>
           LET o == ReplacePendingMutationIfCurrent(s, v, w) IN
           \/ o = Conflict(s)
           \/ /\ SameExcept(s, o.db, {"mutations"})
              /\ MutationKey(v) \in DOMAIN s.mutations /\ s.mutations[MutationKey(v)] = v
              /\ MutationKey(w) = MutationKey(v) /\ ValidTransition(v.lifecycle, w.lifecycle)
              /\ o.db.mutations = [s.mutations EXCEPT ![MutationKey(v)] = w]
              /\ o.hints = {Hint("pendingMutations", v.accountKey)}
BY StoreTables, SameImmutableKey
   DEF ReplacePendingMutationIfCurrent, Committed, SameExcept, Tables, MutationsEqual

\* The effect of removing a confirmed row.
LEMMA RemoveEffect ==
    \A s, key : IsStore(s) =>
           LET o == RemoveConfirmedMutation(s, key) IN
           \/ o = Conflict(s)
           \/ /\ SameExcept(s, o.db, {"mutations"}) /\ key \in DOMAIN s.mutations
              /\ o.db.mutations = Without(s.mutations, {key})
              /\ o.hints = {Hint("pendingMutations", key[1])}
BY StoreTables DEF RemoveConfirmedMutation, Committed, SameExcept, Tables

\* g is f with the row v under k.
Added(f, g, k, v) ==
    /\ DOMAIN g = DOMAIN f \cup {k}
    /\ g[k] = v
    /\ \A j \in DOMAIN f \ {k} : g[j] = f[j]

\* The rows of a map to which one is added.
LEMMA WithEntry == \A f, g, k, v : g = With(f, Entry(k, v)) => Added(f, g, k, v)
BY DEF With, Entry, Added

\* A refused write leaves the store alone.
LEMMA ConflictEffect == \A s : Conflict(s).db = s /\ Conflict(s).hints = {} /\ Conflict(s).result = "conflict"
BY DEF Conflict

\* A store stays one when neither its views nor its mutations change.
LEMMA SameKeepsStore ==
    ASSUME NEW s, NEW t, IsStore(s), NEW F, SameExcept(s, t, F), "views" \notin F, "mutations" \notin F
    PROVE  IsStore(t)
<1>1. t.views = s.views /\ t.mutations = s.mutations /\ DOMAIN t = DOMAIN s
  BY StoreTables DEF SameExcept, Tables
<1> QED
  BY <1>1 DEF IsStore

\* A store stays one when its mutations are replaced by rows that are valid under their keys.
LEMMA RowsKeepStore ==
    ASSUME NEW s, NEW t, IsStore(s), NEW F, SameExcept(s, t, F), "views" \notin F,
           \A k \in DOMAIN t.mutations : t.mutations[k] \in PendingMutations /\ MutationKey(t.mutations[k]) = k
    PROVE  IsStore(t)
<1>1. t.views = s.views /\ DOMAIN t = DOMAIN s
  BY StoreTables DEF SameExcept, Tables
<1> QED
  BY <1>1 DEF IsStore

\* Every write leaves a store: valid rows under their own keys.
LEMMA PerformKeepsStore ==
    ASSUME NEW s, IsStore(s), NEW op, NEW arg, IsWrite(op), IsArgument(op, arg)
    PROVE  IsStore(Perform(s, op, arg).db)
<1> DEFINE t == Perform(s, op, arg).db
<1>1. CASE op = "registerAccount"
  <2>1. SameExcept(s, t, {"accounts"})
    BY <1>1, RegisterEffect DEF Perform
  <2> HIDE DEF t
  <2> QED
    BY <2>1, SameKeepsStore DEF t
<1>2. CASE op = "applyCollectionSync"
  <2>1. arg.mode \in {"replace", "delta"} /\ arg.kind \in {"email", "mailbox", "identity"}
    BY <1>2 DEF IsArgument, IsCommit
  <2>2. t = ApplyCollectionSync(s, arg).db
    BY <1>2 DEF Perform
  <2> HIDE DEF t
  <2>3. \/ t = s
        \/ SameExcept(s, t, {"emails", "memberships", "cursors"})
        \/ SameExcept(s, t, {"mailboxes", "cursors"})
        \/ SameExcept(s, t, {"identities", "cursors"})
    <3>1. \/ ApplyCollectionSync(s, arg) = Conflict(s)
          \/ /\ arg.kind = "email" => SameExcept(s, ApplyCollectionSync(s, arg).db, {"emails", "memberships", "cursors"})
             /\ arg.kind = "mailbox" => SameExcept(s, ApplyCollectionSync(s, arg).db, {"mailboxes", "cursors"})
             /\ arg.kind = "identity" => SameExcept(s, ApplyCollectionSync(s, arg).db, {"identities", "cursors"})
      BY <2>1, CommitEffect, Zenon
    <3> QED
      BY <2>1, <2>2, <3>1 DEF Conflict
  <2>4. CASE t = s
    BY <2>4 DEF t
  <2>5. CASE SameExcept(s, t, {"emails", "memberships", "cursors"})
    BY <2>5, SameKeepsStore DEF t
  <2>6. CASE SameExcept(s, t, {"mailboxes", "cursors"})
    BY <2>6, SameKeepsStore DEF t
  <2>7. CASE SameExcept(s, t, {"identities", "cursors"})
    BY <2>7, SameKeepsStore DEF t
  <2> QED
    BY <2>3, <2>4, <2>5, <2>6, <2>7
<1>3. CASE op = "cacheEmailBody"
  <2>1. t = s \/ SameExcept(s, t, {"bodies"})
    BY <1>3, CacheEffect DEF Perform, Conflict
  <2> HIDE DEF t
  <2> QED
    BY <2>1, SameKeepsStore DEF t
<1>4. CASE op = "replaceAttachmentRefs"
  <2>1. t = s \/ SameExcept(s, t, {"attachments"})
    BY <1>4, CacheEffect DEF Perform, Conflict
  <2> HIDE DEF t
  <2> QED
    BY <2>1, SameKeepsStore DEF t
<1>5. CASE op = "replaceMailboxView"
  <2>1. \/ t = s
        \/ /\ SameExcept(s, t, {"views"}) /\ t.views = With(s.views, Entry(arg.mailboxId, arg))
           /\ MailboxView(arg) # {}
    BY <1>5, ViewEffect DEF Perform
  <2>2. arg \in ViewInputs
    BY <1>5 DEF IsArgument
  <2> HIDE DEF t
  <2>3. CASE t = s
    BY <2>3 DEF t
  <2>4. CASE t # s
    <3>1. DOMAIN t = DOMAIN s /\ t.mutations = s.mutations
      BY <2>1, <2>4, StoreTables DEF SameExcept, Tables
    <3>2. arg \in MailboxViews
      BY <2>1, <2>2, <2>4 DEF MailboxViews
    <3>4. /\ DOMAIN t.views = DOMAIN s.views \cup {arg.mailboxId} /\ t.views[arg.mailboxId] = arg
          /\ \A m \in DOMAIN s.views \ {arg.mailboxId} : t.views[m] = s.views[m]
      <4>1. t.views = With(s.views, Entry(arg.mailboxId, arg))
        BY <2>1, <2>4, Zenon
      <4>2. Added(s.views, t.views, arg.mailboxId, arg)
        BY <4>1, WithEntry
      <4> QED
        BY <4>2 DEF Added
    <3>3. \A m \in DOMAIN t.views : t.views[m] \in MailboxViews /\ t.views[m].mailboxId = m
      BY <3>2, <3>4 DEF IsStore
    <3> QED
      BY <3>1, <3>3 DEF IsStore, t
  <2> QED
    BY <2>3, <2>4
<1>6. CASE op \in StagingOps
  <2>1. arg \in PendingMutations
    BY <1>6 DEF StagingOps, IsArgument, PendingMutations
  <2>2. \/ t = s
        \/ /\ t.mutations = With(s.mutations, Entry(MutationKey(arg), arg))
           /\ \E F \in {{"mutations"}, {"emails", "mutations"}, {"memberships", "mutations"}} : SameExcept(s, t, F)
    BY <1>6, StageEffect DEF Conflict, Staged, StagingOps
  <2> HIDE DEF t
  <2>3. CASE t = s
    BY <2>3 DEF t
  <2>4. CASE t # s
    <3>1. \A k \in DOMAIN t.mutations : t.mutations[k] \in PendingMutations /\ MutationKey(t.mutations[k]) = k
      <4> DEFINE key == MutationKey(arg)
      <4>1. /\ DOMAIN t.mutations = DOMAIN s.mutations \cup {key} /\ t.mutations[key] = arg
            /\ \A k \in DOMAIN s.mutations \ {key} : t.mutations[k] = s.mutations[k]
        <5>1. t.mutations = With(s.mutations, Entry(key, arg))
          BY <2>2, <2>4, Zenon
        <5>2. Added(s.mutations, t.mutations, key, arg)
          BY <5>1, WithEntry
        <5> QED
          BY <5>2 DEF Added
      <4> QED
        BY <2>1, <4>1 DEF IsStore
    <3>2. PICK F \in {{"mutations"}, {"emails", "mutations"}, {"memberships", "mutations"}} : SameExcept(s, t, F)
      BY <2>2, <2>4
    <3> QED
      BY <3>1, <3>2, RowsKeepStore DEF t
  <2> QED
    BY <2>3, <2>4
<1>7. CASE op = "replacePendingMutationIfCurrent"
  <2>1. arg.expected \in PendingMutations /\ arg.next \in PendingMutations
    BY <1>7 DEF IsArgument
  <2>2. \/ t = s
        \/ /\ SameExcept(s, t, {"mutations"})
           /\ MutationKey(arg.next) = MutationKey(arg.expected)
           /\ t.mutations = [s.mutations EXCEPT ![MutationKey(arg.expected)] = arg.next]
    BY <1>7, <2>1, ReplaceEffect DEF Perform, Conflict
  <2> HIDE DEF t
  <2>3. CASE t = s
    BY <2>3 DEF t
  <2>4. CASE t # s
    <3>1. \A k \in DOMAIN t.mutations : t.mutations[k] \in PendingMutations /\ MutationKey(t.mutations[k]) = k
      BY <2>1, <2>2, <2>4 DEF IsStore
    <3> QED
      BY <2>2, <2>4, <3>1, RowsKeepStore DEF t
  <2> QED
    BY <2>3, <2>4
<1>8. CASE op = "removeConfirmedMutation"
  <2>2. \/ t = s
        \/ SameExcept(s, t, {"mutations"}) /\ t.mutations = Without(s.mutations, {arg})
    <3>1. Perform(s, op, arg) = RemoveConfirmedMutation(s, arg)
      BY <1>8 DEF Perform
    <3>2. \/ Perform(s, op, arg) = Conflict(s)
          \/ SameExcept(s, t, {"mutations"}) /\ t.mutations = Without(s.mutations, {arg})
      BY <3>1, RemoveEffect, Zenon
    <3>3. Perform(s, op, arg) = Conflict(s) => t = s
      BY ConflictEffect, Zenon
    <3> QED
      BY <3>2, <3>3, Zenon
  <2> HIDE DEF t
  <2>3. CASE t = s
    BY <2>3 DEF t
  <2>4. CASE t # s
    <3>1. \A k \in DOMAIN t.mutations : t.mutations[k] \in PendingMutations /\ MutationKey(t.mutations[k]) = k
      BY <2>2, <2>4 DEF IsStore, Without
    <3> QED
      BY <2>2, <2>4, <3>1, RowsKeepStore DEF t
  <2> QED
    BY <2>3, <2>4
<1> QED
  BY <1>1, <1>2, <1>3, <1>4, <1>5, <1>6, <1>7, <1>8 DEF IsWrite

\* A commit leaves the rows of the other accounts alone.
LEMMA CommitIsLocal ==
    ASSUME NEW s, IsStore(s), NEW c, c.mode \in {"replace", "delta"}, ValidateCommit(c), NEW x,
           x.accountKey # c.account
    PROVE  /\ LET e == CommitEmails(s, c) IN
              /\ x \in DOMAIN e.emails <=> x \in DOMAIN s.emails
              /\ x \in DOMAIN s.emails => e.emails[x] = s.emails[x]
              /\ x \in DOMAIN e.memberships <=> x \in DOMAIN s.memberships
              /\ x \in DOMAIN s.memberships => e.memberships[x] = s.memberships[x]
           /\ x \in CommitMailboxes(s, c).mailboxes <=> x \in s.mailboxes
           /\ x \in CommitIdentities(s, c).identities <=> x \in s.identities
<1>1. x \notin DOMAIN c.changed /\ (c.mode = "delta" => x \notin c.destroyed)
  BY DEF ValidateCommit
<1>2. \A present : x \notin Dropped(present, c)
  BY <1>1 DEF Dropped, Owned
<1>3. /\ CommitEmails(s, c).emails = With(Without(s.emails, Dropped(DOMAIN s.emails, c)),
                                          [id \in DOMAIN c.changed |-> c.changed[id].keywords])
      /\ CommitEmails(s, c).memberships = With(Without(s.memberships, Dropped(DOMAIN s.emails, c)),
                                          [id \in DOMAIN c.changed |-> c.changed[id].mailboxes])
      /\ CommitMailboxes(s, c).mailboxes = (s.mailboxes \ Dropped(s.mailboxes, c)) \cup DOMAIN c.changed
      /\ CommitIdentities(s, c).identities = (s.identities \ Dropped(s.identities, c)) \cup DOMAIN c.changed
  BY StoreTables DEF CommitEmails, CommitMailboxes, CommitIdentities, Tables
<1>4. \A f, S, g : x \notin S /\ x \notin DOMAIN g =>
         /\ x \in DOMAIN With(Without(f, S), g) <=> x \in DOMAIN f
         /\ x \in DOMAIN f => With(Without(f, S), g)[x] = f[x]
  BY DEF With, Without
<1> QED
  BY <1>1, <1>2, <1>3, <1>4

\* Whatever a read tells apart before and after, a hint of the step covers.
CoversRead(s, t, hints, q) == Read(s, q) # Read(t, q) => \E h \in hints : Covers(h, q)

\* A collection commit announces every change of its collection, the destroyed rows included.
LEMMA CommitCovers ==
    ASSUME NEW s, IsStore(s), NEW c, c.mode \in {"replace", "delta"}, c.kind \in {"email", "mailbox", "identity"},
           NEW kind \in QueryKinds, NEW key
    PROVE  CoversRead(s, ApplyCollectionSync(s, c).db, ApplyCollectionSync(s, c).hints, Query(kind, key))
<1> DEFINE o == ApplyCollectionSync(s, c)
           t == o.db
           q == Query(kind, key)
<1>1. CASE o = Conflict(s)
  <2>1. t = s
    BY <1>1, ConflictEffect, Zenon
  <2> QED
    BY <2>1 DEF CoversRead
<1>2. CASE o # Conflict(s)
  <2>1. /\ c.kind = "email" => SameExcept(s, t, {"emails", "memberships", "cursors"})
        /\ c.kind = "mailbox" => SameExcept(s, t, {"mailboxes", "cursors"})
        /\ c.kind = "identity" => SameExcept(s, t, {"identities", "cursors"})
        /\ c.kind = "email" =>
              /\ t.emails = CommitEmails(s, c).emails
              /\ t.memberships = CommitEmails(s, c).memberships
        /\ c.kind = "mailbox" => t.mailboxes = CommitMailboxes(s, c).mailboxes
        /\ c.kind = "identity" => t.identities = CommitIdentities(s, c).identities
        /\ t.cursors = With(s.cursors, Entry(<<c.account, c.kind>>, c.next))
        /\ o.hints = CommitHints(c)
        /\ ValidateCommit(c)
    BY <1>2, CommitEffect, Zenon
  <2>2. q.kind = kind /\ q.key = key
    BY DEF Query
  <2>3. DOMAIN s = Tables
    BY StoreTables
  <2> DEFINE cursor == <<c.account, c.kind>>
  <2>4. Added(s.cursors, t.cursors, cursor, c.next)
    BY <2>1, WithEntry
  <2> HIDE DEF o, t, q
  <2>5. /\ Hint("syncCursor", cursor) \in o.hints
        /\ c.kind = "email" => Hint("emails", c.account) \in o.hints
        /\ c.kind = "mailbox" => Hint("mailboxes", c.account) \in o.hints
        /\ c.kind = "identity" => Hint("identities", c.account) \in o.hints
    BY <2>1 DEF CommitHints
  <2> HIDE DEF cursor
  <2>6. ASSUME NEW h \in o.hints, Covers(h, q) PROVE CoversRead(s, t, o.hints, q)
    BY <2>6 DEF CoversRead
  <2>7. CoversRead(s, t, o.hints, q)
    <3>7. CASE kind = "cursor" /\ key = cursor
      <4>1. Covers(Hint("syncCursor", cursor), q)
        BY <3>7 DEF q, Query, Hint, Covers
      <4> QED
        BY <2>5, <2>6, <4>1
    <3>8. CASE c.kind = "email" /\ kind \in {"email", "memberships", "body", "attachments"} /\ key.accountKey = c.account
      <4>1. Covers(Hint("emails", c.account), q)
        BY <3>8 DEF q, Query, Hint, Covers
      <4> QED
        BY <2>5, <2>6, <3>8, <4>1
    <3>9. CASE c.kind = "mailbox" /\ kind = "mailboxes" /\ key = c.account
      <4>1. Covers(Hint("mailboxes", c.account), q)
        BY <3>9 DEF q, Query, Hint, Covers
      <4> QED
        BY <2>5, <2>6, <3>9, <4>1
    <3>10. CASE c.kind = "mailbox" /\ kind = "view" /\ key.accountKey = c.account
      <4>1. Covers(Hint("mailboxes", c.account), q)
        BY <3>10 DEF q, Query, Hint, Covers
      <4> QED
        BY <2>5, <2>6, <3>10, <4>1
    <3>11. CASE c.kind = "identity" /\ kind = "identities" /\ key = c.account
      <4>1. Covers(Hint("identities", c.account), q)
        BY <3>11 DEF q, Query, Hint, Covers
      <4> QED
        BY <2>5, <2>6, <3>11, <4>1
    <3>12. CASE /\ ~(kind = "cursor" /\ key = cursor)
                /\ ~(c.kind = "email" /\ kind \in {"email", "memberships", "body", "attachments"} /\ key.accountKey = c.account)
                /\ ~(c.kind = "mailbox" /\ kind = "mailboxes" /\ key = c.account)
                /\ ~(c.kind = "mailbox" /\ kind = "view" /\ key.accountKey = c.account)
                /\ ~(c.kind = "identity" /\ kind = "identities" /\ key = c.account)
      <4>1. SameFor(s, t, q)
        <5>1. CASE c.kind = "email"
          <6>1. \A f \in Tables \ {"emails", "memberships", "cursors"} : t[f] = s[f]
            BY <5>1, <2>1, <2>3 DEF SameExcept
          <6>2. key.accountKey # c.account =>
                  /\ key \in DOMAIN t.emails <=> key \in DOMAIN s.emails
                  /\ key \in DOMAIN s.emails => t.emails[key] = s.emails[key]
                  /\ key \in DOMAIN t.memberships <=> key \in DOMAIN s.memberships
                  /\ key \in DOMAIN s.memberships => t.memberships[key] = s.memberships[key]
            BY <5>1, <2>1, CommitIsLocal
          <6> QED
            BY <5>1, <6>1, <6>2, <2>2, <2>4, <3>12 DEF SameFor, QueryKinds, Tables, Added
        <5>2. CASE c.kind = "mailbox"
          <6>1. \A f \in Tables \ {"mailboxes", "cursors"} : t[f] = s[f]
            BY <5>2, <2>1, <2>3 DEF SameExcept
          <6>2. \A x : x.accountKey # c.account => (x \in t.mailboxes <=> x \in s.mailboxes)
            BY <5>2, <2>1, CommitIsLocal
          <6>3. key # c.account => Owned(s.mailboxes, key) = Owned(t.mailboxes, key)
            BY <6>2 DEF Owned
          <6> QED
            BY <5>2, <6>1, <6>2, <6>3, <2>2, <2>4, <3>12 DEF SameFor, QueryKinds, Tables, Added
        <5>3. CASE c.kind = "identity"
          <6>1. \A f \in Tables \ {"identities", "cursors"} : t[f] = s[f]
            BY <5>3, <2>1, <2>3 DEF SameExcept
          <6>2. \A x : x.accountKey # c.account => (x \in t.identities <=> x \in s.identities)
            BY <5>3, <2>1, CommitIsLocal
          <6>3. key # c.account => Owned(s.identities, key) = Owned(t.identities, key)
            BY <6>2 DEF Owned
          <6> QED
            BY <5>3, <6>1, <6>2, <6>3, <2>2, <2>4, <3>12 DEF SameFor, QueryKinds, Tables, Added
        <5> QED
          BY <5>1, <5>2, <5>3
      <4>2. q.kind \in QueryKinds
        BY <2>2
      <4> QED
        BY <4>1, <4>2, ReadDepends, Zenon DEF CoversRead
    <3> QED
      BY <3>7, <3>8, <3>9, <3>10, <3>11, <3>12
  <2> QED
    BY <2>7, Zenon DEF o, t, q
<1> QED
  BY <1>1, <1>2

\* A read is covered when it answers alike, or when a hint says otherwise.
LEMMA CoveredOrSame ==
    \A s, t, hints, q :
        q.kind \in QueryKinds /\ (SameFor(s, t, q) \/ \E h \in hints : Covers(h, q)) => CoversRead(s, t, hints, q)
<1> TAKE s, t, hints, q
<1> HAVE q.kind \in QueryKinds /\ (SameFor(s, t, q) \/ \E h \in hints : Covers(h, q))
<1>1. SameFor(s, t, q) => Read(s, q) = Read(t, q)
  BY ReadDepends, Zenon
<1> QED
  BY <1>1, Zenon DEF CoversRead

\* Registering an account announces everything.
LEMMA RegisterCovers ==
    \A s, account, q : IsStore(s) /\ q.kind \in QueryKinds =>
        CoversRead(s, RegisterAccount(s, account).db, RegisterAccount(s, account).hints, q)
<1> TAKE s, account, q
<1> HAVE IsStore(s) /\ q.kind \in QueryKinds
<1> DEFINE o == RegisterAccount(s, account)
<1>1. o.db = s \/ o.hints = {Hint("accounts", None)}
  BY RegisterEffect
<1>2. Covers(Hint("accounts", None), q)
  BY DEF Covers, Hint
<1> HIDE DEF o
<1>3. CoversRead(s, o.db, o.hints, q)
  BY <1>1, <1>2 DEF CoversRead
<1> QED
  BY <1>3 DEF o

\* A cached body, and a cached list of attachments, are announced.
LEMMA CacheCovers ==
    \A s, id : \A kind \in QueryKinds : \A key : IsStore(s) =>
        LET q == Query(kind, key) IN
        /\ CoversRead(s, CacheEmailBody(s, id).db, CacheEmailBody(s, id).hints, q)
        /\ CoversRead(s, ReplaceAttachmentRefs(s, id).db, ReplaceAttachmentRefs(s, id).hints, q)
<1> TAKE s, id
<1> TAKE kind \in QueryKinds
<1> TAKE key
<1> HAVE IsStore(s)
<1> DEFINE q == Query(kind, key)
           o == CacheEmailBody(s, id)
           p == ReplaceAttachmentRefs(s, id)
<1>1. q.kind = kind /\ q.key = key
  BY DEF Query
<1>2. DOMAIN s = Tables
  BY StoreTables
<1>3. \/ o.db = s
      \/ /\ SameExcept(s, o.db, {"bodies"}) /\ o.db.bodies = s.bodies \cup {id}
         /\ o.hints = {Hint("emailBody", id)}
  BY CacheEffect, ConflictEffect, Zenon
<1>4. \/ p.db = s
      \/ /\ SameExcept(s, p.db, {"attachments"}) /\ p.db.attachments = s.attachments \cup {id}
         /\ p.hints = {Hint("attachmentRefs", id)}
  BY CacheEffect, ConflictEffect, Zenon
<1> HIDE DEF o, p
<1>5. CoversRead(s, o.db, o.hints, q)
  <2>1. CASE kind = "body" /\ key = id
    <3>1. Covers(Hint("emailBody", id), q)
      BY <2>1 DEF Covers, Hint
    <3> QED
      BY <1>3, <3>1 DEF CoversRead
  <2>2. CASE ~(kind = "body" /\ key = id) /\ o.db # s
    <3>1. SameFor(s, o.db, q)
      BY <1>1, <1>2, <1>3, <2>2 DEF SameFor, SameExcept, Tables, QueryKinds
    <3> HIDE DEF q
    <3> QED
      BY <1>1, <3>1, CoveredOrSame, Zenon
  <2>3. CASE o.db = s
    BY <2>3 DEF CoversRead
  <2> QED
    BY <2>1, <2>2, <2>3
<1>6. CoversRead(s, p.db, p.hints, q)
  <2>1. CASE kind = "attachments" /\ key = id
    <3>1. Covers(Hint("attachmentRefs", id), q)
      BY <2>1 DEF Covers, Hint
    <3> QED
      BY <1>4, <3>1 DEF CoversRead
  <2>2. CASE ~(kind = "attachments" /\ key = id) /\ p.db # s
    <3>1. SameFor(s, p.db, q)
      BY <1>1, <1>2, <1>4, <2>2 DEF SameFor, SameExcept, Tables, QueryKinds
    <3> HIDE DEF q
    <3> QED
      BY <1>1, <3>1, CoveredOrSame, Zenon
  <2>3. CASE p.db = s
    BY <2>3 DEF CoversRead
  <2> QED
    BY <2>1, <2>2, <2>3
<1> QED
  BY <1>5, <1>6, Zenon DEF o, p

\* A replaced view is announced.
LEMMA ViewCovers ==
    \A s, v : \A kind \in QueryKinds : \A key : IsStore(s) =>
        CoversRead(s, ReplaceMailboxView(s, v).db, ReplaceMailboxView(s, v).hints, Query(kind, key))
<1> TAKE s, v
<1> TAKE kind \in QueryKinds
<1> TAKE key
<1> HAVE IsStore(s)
<1> DEFINE q == Query(kind, key)
           o == ReplaceMailboxView(s, v)
<1>1. q.kind = kind /\ q.key = key
  BY DEF Query
<1>2. DOMAIN s = Tables
  BY StoreTables
<1>3. \/ o.db = s
      \/ /\ SameExcept(s, o.db, {"views"}) /\ o.db.views = With(s.views, Entry(v.mailboxId, v))
         /\ o.hints = {Hint("mailboxView", v.mailboxId)}
  BY ViewEffect, Zenon
<1> DEFINE m == v.mailboxId
<1>4. \/ o.db = s
      \/ /\ SameExcept(s, o.db, {"views"}) /\ Added(s.views, o.db.views, m, v)
         /\ o.hints = {Hint("mailboxView", m)}
  BY <1>3, WithEntry, Zenon
<1> HIDE DEF o, m
<1>5. CoversRead(s, o.db, o.hints, q)
  <2>1. CASE kind = "view" /\ key = m
    <3>1. Covers(Hint("mailboxView", m), q)
      BY <2>1 DEF Covers, Hint
    <3> QED
      BY <1>4, <3>1 DEF CoversRead
  <2>2. CASE ~(kind = "view" /\ key = m) /\ o.db # s
    <3>1. SameFor(s, o.db, q)
      BY <1>1, <1>2, <1>4, <2>2 DEF SameFor, SameExcept, Tables, QueryKinds, Added
    <3> HIDE DEF q
    <3> QED
      BY <1>1, <3>1, CoveredOrSame, Zenon
  <2>3. CASE o.db = s
    BY <2>3 DEF CoversRead
  <2> QED
    BY <2>1, <2>2, <2>3
<1> QED
  BY <1>5, Zenon DEF o

\* The rows of an account are the same when the others' rows alone change.
LEMMA OtherRows ==
    \A s, t, a, key :
        /\ IsStore(s) /\ IsStore(t) /\ a # key[1]
        /\ \A k : k # key => /\ k \in DOMAIN s.mutations <=> k \in DOMAIN t.mutations
                             /\ k \in DOMAIN s.mutations => s.mutations[k] = t.mutations[k]
        => ValuesOf(s.mutations, a) = ValuesOf(t.mutations, a)
<1> TAKE s, t, a, key
<1> HAVE /\ IsStore(s) /\ IsStore(t) /\ a # key[1]
         /\ \A k : k # key => /\ k \in DOMAIN s.mutations <=> k \in DOMAIN t.mutations
                              /\ k \in DOMAIN s.mutations => s.mutations[k] = t.mutations[k]
<1>1. \A k \in DOMAIN s.mutations : s.mutations[k].accountKey = k[1]
  BY DEF IsStore, MutationKey
<1>2. \A k \in DOMAIN t.mutations : t.mutations[k].accountKey = k[1]
  BY DEF IsStore, MutationKey
<1>3. {x \in DOMAIN s.mutations : s.mutations[x].accountKey = a}
        = {x \in DOMAIN t.mutations : t.mutations[x].accountKey = a}
  BY <1>1, <1>2
<1>4. \A x \in DOMAIN s.mutations : s.mutations[x].accountKey = a => t.mutations[x] = s.mutations[x]
  BY <1>1
<1> QED
  BY <1>3, <1>4 DEF ValuesOf

\* What a write of a mutation may do: its slot, and the Email of the optimistic change.
RowStep(s, t, hints, slot) ==
    /\ IsStore(s) /\ IsStore(t)
    /\ SameExcept(s, t, {"emails", "memberships", "mutations"})
    /\ \A k : k # slot => /\ k \in DOMAIN s.mutations <=> k \in DOMAIN t.mutations
                          /\ k \in DOMAIN s.mutations => s.mutations[k] = t.mutations[k]
    /\ Hint("pendingMutations", slot[1]) \in hints
    /\ \/ t.emails = s.emails /\ t.memberships = s.memberships
       \/ /\ DOMAIN t.emails = DOMAIN s.emails /\ DOMAIN t.memberships = DOMAIN s.memberships
          /\ \A k \in DOMAIN s.emails : k.accountKey # slot[1] => t.emails[k] = s.emails[k]
          /\ \A k \in DOMAIN s.memberships : k.accountKey # slot[1] => t.memberships[k] = s.memberships[k]
          /\ {Hint("emails", slot[1]), Hint("emailMemberships", slot[1])} \cap hints # {}

\* The changes of such a write are announced.
LEMMA RowCovers ==
    \A s, t, hints, slot : \A kind \in QueryKinds : \A key :
        RowStep(s, t, hints, slot) => CoversRead(s, t, hints, Query(kind, key))
<1> TAKE s, t, hints, slot
<1> TAKE kind \in QueryKinds
<1> TAKE key
<1> HAVE RowStep(s, t, hints, slot)
<1> DEFINE q == Query(kind, key)
           a == slot[1]
<1> SUFFICES CoversRead(s, t, hints, q)
  OBVIOUS
<1>1. q.kind = kind /\ q.key = key
  BY DEF Query
<1>2. DOMAIN s = Tables
  BY StoreTables DEF RowStep
<1>3. \A f \in Tables \ {"emails", "memberships", "mutations"} : t[f] = s[f]
  BY <1>2 DEF RowStep, SameExcept
<1>4. CASE kind = "mutations" /\ key = a
  <2>1. Covers(Hint("pendingMutations", a), q)
    BY <1>4 DEF Covers, Hint, Query
  <2> QED
    BY <2>1, <1>4, <1>1, CoveredOrSame DEF RowStep
<1>5. CASE kind = "mutations" /\ key # a
  <2>1. ValuesOf(s.mutations, key) = ValuesOf(t.mutations, key)
    BY <1>5, OtherRows DEF RowStep
  <2>2. SameFor(s, t, q)
    BY <2>1, <1>1, <1>3, <1>5 DEF SameFor, Tables
  <2> QED
    BY <2>2, <1>1, CoveredOrSame, Zenon
<1>6. CASE kind \in {"email", "memberships", "body", "attachments"} /\ key.accountKey = a /\ {Hint("emails", a), Hint("emailMemberships", a)} \cap hints # {}
  <2>1. Covers(Hint("emails", a), q) /\ Covers(Hint("emailMemberships", a), q)
    BY <1>6 DEF Covers, Hint, Query
  <2> QED
    BY <2>1, <1>6, <1>1, CoveredOrSame
<1>7. CASE /\ kind # "mutations"
           /\ ~(kind \in {"email", "memberships", "body", "attachments"} /\ key.accountKey = a /\ {Hint("emails", a), Hint("emailMemberships", a)} \cap hints # {})
  <2>1. SameFor(s, t, q)
    <3>1. CASE kind \in {"email", "memberships", "body", "attachments"}
      <4>1. /\ key \in DOMAIN s.emails <=> key \in DOMAIN t.emails
            /\ key \in DOMAIN s.emails => s.emails[key] = t.emails[key]
            /\ key \in DOMAIN s.memberships <=> key \in DOMAIN t.memberships
            /\ key \in DOMAIN s.memberships => s.memberships[key] = t.memberships[key]
        BY <3>1, <1>7 DEF RowStep
      <4> QED
        BY <4>1, <3>1, <1>1, <1>3 DEF SameFor, Tables
    <3>2. CASE kind \notin {"email", "memberships", "body", "attachments"}
      BY <3>2, <1>7, <1>1, <1>3 DEF SameFor, Tables, QueryKinds
    <3> QED
      BY <3>1, <3>2
  <2> QED
    BY <2>1, <1>1, CoveredOrSame, Zenon
<1> QED
  BY <1>4, <1>5, <1>6, <1>7

\* Staging is such a write, or refused.
LEMMA StageIsRowStep ==
    \A s : \A op \in StagingOps : \A v :
        IsStore(s) /\ IsArgument(op, v) =>
            LET o == Perform(s, op, v) IN o.db = s \/ RowStep(s, o.db, o.hints, MutationKey(v))
<1> TAKE s
<1> TAKE op \in StagingOps
<1> TAKE v
<1> HAVE IsStore(s) /\ IsArgument(op, v)
<1> DEFINE o == Perform(s, op, v)
           t == o.db
           slot == MutationKey(v)
<1> SUFFICES ASSUME o.db # s PROVE RowStep(s, t, o.hints, slot)
  OBVIOUS
<1>0. IsStore(t)
  BY PerformKeepsStore DEF IsWrite
<1>1. o # Conflict(s)
  BY ConflictEffect, Zenon
<1>2. /\ CanStage(s, v) /\ t.mutations = Staged(s, v)
      /\ Hint("pendingMutations", v.accountKey) \in o.hints
      /\ op = "stageSendMutation" => SameExcept(s, o.db, {"mutations"})
      /\ op = "applyOptimisticKeywordMutation" =>
            /\ SameExcept(s, o.db, {"emails", "mutations"})
            /\ DOMAIN o.db.emails = DOMAIN s.emails
            /\ \A k \in DOMAIN s.emails \ {v.emailId} : o.db.emails[k] = s.emails[k]
            /\ Hint("emails", v.accountKey) \in o.hints
      /\ op = "applyOptimisticMailboxMembershipMutation" =>
            /\ SameExcept(s, o.db, {"memberships", "mutations"})
            /\ DOMAIN o.db.memberships = DOMAIN s.memberships
            /\ \A k \in DOMAIN s.memberships \ {v.emailId} : o.db.memberships[k] = s.memberships[k]
            /\ Hint("emailMemberships", v.accountKey) \in o.hints
  BY <1>1, StageEffect, Zenon
<1>3. Added(s.mutations, t.mutations, slot, v)
  BY <1>2, WithEntry DEF Staged
<1>4. slot[1] = v.accountKey
  BY DEF MutationKey
<1>5. op # "stageSendMutation" => v.emailId.accountKey = v.accountKey
  BY DEF IsArgument, StagingOps, KeywordMutations, MailboxMembershipMutations
<1>6. DOMAIN s = Tables
  BY StoreTables
<1> HIDE DEF o, slot
<1>7. \A k : k # slot => /\ k \in DOMAIN s.mutations <=> k \in DOMAIN t.mutations
                         /\ k \in DOMAIN s.mutations => s.mutations[k] = t.mutations[k]
  BY <1>3 DEF Added
<1>8. SameExcept(s, t, {"emails", "memberships", "mutations"})
  BY <1>2 DEF SameExcept, StagingOps
<1>9. Hint("pendingMutations", slot[1]) \in o.hints
  BY <1>2, <1>4
<1>10. CASE op = "stageSendMutation"
  <2>1. t.emails = s.emails /\ t.memberships = s.memberships
    BY <1>2, <1>6, <1>10 DEF SameExcept, Tables
  <2> QED
    BY <1>0, <1>7, <1>8, <1>9, <2>1 DEF RowStep
<1>11. CASE op = "applyOptimisticKeywordMutation"
  <2>1. /\ t.memberships = s.memberships /\ DOMAIN t.emails = DOMAIN s.emails
        /\ \A k \in DOMAIN s.emails : k.accountKey # slot[1] => t.emails[k] = s.emails[k]
        /\ Hint("emails", slot[1]) \in o.hints
    BY <1>2, <1>4, <1>5, <1>6, <1>11 DEF SameExcept, Tables
  <2> QED
    BY <1>0, <1>7, <1>8, <1>9, <2>1 DEF RowStep
<1>12. CASE op = "applyOptimisticMailboxMembershipMutation"
  <2>1. /\ t.emails = s.emails /\ DOMAIN t.memberships = DOMAIN s.memberships
        /\ \A k \in DOMAIN s.memberships : k.accountKey # slot[1] => t.memberships[k] = s.memberships[k]
        /\ Hint("emailMemberships", slot[1]) \in o.hints
    BY <1>2, <1>4, <1>5, <1>6, <1>12 DEF SameExcept, Tables
  <2> QED
    BY <1>0, <1>7, <1>8, <1>9, <2>1 DEF RowStep
<1> QED
  BY <1>10, <1>11, <1>12 DEF StagingOps

\* So is moving a slot on, and removing one.
LEMMA MoveIsRowStep ==
    \A s : IsStore(s) =>
        /\ \A v, w \in PendingMutations :
              LET o == ReplacePendingMutationIfCurrent(s, v, w) IN
              o.db = s \/ RowStep(s, o.db, o.hints, MutationKey(v))
        /\ \A key : LET o == RemoveConfirmedMutation(s, key) IN
              o.db = s \/ RowStep(s, o.db, o.hints, key)
<1> TAKE s
<1> HAVE IsStore(s)
<1>0. DOMAIN s = Tables
  BY StoreTables
<1>1. ASSUME NEW v \in PendingMutations, NEW w \in PendingMutations,
             ReplacePendingMutationIfCurrent(s, v, w).db # s
      PROVE  RowStep(s, ReplacePendingMutationIfCurrent(s, v, w).db,
                        ReplacePendingMutationIfCurrent(s, v, w).hints, MutationKey(v))
  <2> DEFINE o == ReplacePendingMutationIfCurrent(s, v, w)
             t == o.db
             slot == MutationKey(v)
  <2>1. o # Conflict(s)
    BY <1>1, ConflictEffect, Zenon
  <2>2. /\ SameExcept(s, t, {"mutations"})
        /\ slot \in DOMAIN s.mutations
        /\ MutationKey(w) = slot
        /\ t.mutations = [s.mutations EXCEPT ![slot] = w]
        /\ o.hints = {Hint("pendingMutations", v.accountKey)}
    BY <2>1, ReplaceEffect
  <2>3. slot[1] = v.accountKey
    BY DEF MutationKey
  <2> HIDE DEF o, slot
  <2>4. \A k \in DOMAIN t.mutations : t.mutations[k] \in PendingMutations /\ MutationKey(t.mutations[k]) = k
    BY <2>2 DEF IsStore
  <2>5. IsStore(t)
    BY <2>2, <2>4, RowsKeepStore
  <2>6. t.emails = s.emails /\ t.memberships = s.memberships
    BY <2>2, <1>0 DEF SameExcept, Tables
  <2>7. SameExcept(s, t, {"emails", "memberships", "mutations"})
    BY <2>2 DEF SameExcept
  <2>8. RowStep(s, t, o.hints, slot)
    BY <2>2, <2>3, <2>5, <2>6, <2>7 DEF RowStep
  <2> QED
    BY <2>8, Zenon DEF o, slot
<1>2. ASSUME NEW key, RemoveConfirmedMutation(s, key).db # s
      PROVE  RowStep(s, RemoveConfirmedMutation(s, key).db, RemoveConfirmedMutation(s, key).hints, key)
  <2> DEFINE o == RemoveConfirmedMutation(s, key)
             t == o.db
  <2>1. o # Conflict(s)
    BY <1>2, ConflictEffect, Zenon
  <2>2. /\ SameExcept(s, t, {"mutations"})
        /\ t.mutations = Without(s.mutations, {key})
        /\ o.hints = {Hint("pendingMutations", key[1])}
    BY <2>1, RemoveEffect, Zenon
  <2> HIDE DEF o
  <2>3. /\ DOMAIN t.mutations = DOMAIN s.mutations \ {key}
        /\ \A k \in DOMAIN t.mutations : t.mutations[k] = s.mutations[k]
    BY <2>2 DEF Without
  <2>4. \A k \in DOMAIN t.mutations : t.mutations[k] \in PendingMutations /\ MutationKey(t.mutations[k]) = k
    BY <2>3 DEF IsStore
  <2>5. IsStore(t)
    BY <2>2, <2>4, RowsKeepStore
  <2>6. t.emails = s.emails /\ t.memberships = s.memberships
    BY <2>2, <1>0 DEF SameExcept, Tables
  <2>7. SameExcept(s, t, {"emails", "memberships", "mutations"})
    BY <2>2 DEF SameExcept
  <2>8. RowStep(s, t, o.hints, key)
    BY <2>2, <2>3, <2>5, <2>6, <2>7 DEF RowStep
  <2> QED
    BY <2>8, Zenon DEF o
<1> QED
  BY <1>1, <1>2, Zenon

\* Every write announces whatever it changes.
LEMMA PerformCovers ==
    ASSUME NEW s, IsStore(s), NEW op, NEW arg, IsWrite(op), IsArgument(op, arg),
           NEW kind \in QueryKinds, NEW key
    PROVE  CoversRead(s, Perform(s, op, arg).db, Perform(s, op, arg).hints, Query(kind, key))
<1> DEFINE o == Perform(s, op, arg)
           q == Query(kind, key)
<1>0. q.kind \in QueryKinds
  BY DEF Query
<1>1. CASE op = "registerAccount"
  <2>1. o = RegisterAccount(s, arg)
    BY <1>1 DEF Perform
  <2> HIDE DEF o, q
  <2>2. CoversRead(s, o.db, o.hints, q)
    BY <2>1, <1>0, RegisterCovers, Zenon
  <2> QED
    BY <2>2, Zenon DEF o, q
<1>2. CASE op = "applyCollectionSync"
  <2>1. o = ApplyCollectionSync(s, arg)
    BY <1>2 DEF Perform
  <2>2. arg.mode \in {"replace", "delta"} /\ arg.kind \in {"email", "mailbox", "identity"}
    BY <1>2 DEF IsArgument, IsCommit
  <2> HIDE DEF o
  <2>3. CoversRead(s, o.db, o.hints, q)
    BY <2>1, <2>2, CommitCovers
  <2> QED
    BY <2>3, Zenon DEF o
<1>3. CASE op \in {"cacheEmailBody", "replaceAttachmentRefs"}
  <2>1. \/ o = CacheEmailBody(s, arg)
        \/ o = ReplaceAttachmentRefs(s, arg)
    BY <1>3 DEF Perform
  <2> HIDE DEF o
  <2>3. CoversRead(s, o.db, o.hints, q)
    BY <2>1, CacheCovers, Zenon
  <2> QED
    BY <2>3, Zenon DEF o
<1>4. CASE op = "replaceMailboxView"
  <2>1. o = ReplaceMailboxView(s, arg)
    BY <1>4 DEF Perform
  <2> HIDE DEF o
  <2>3. CoversRead(s, o.db, o.hints, q)
    BY <2>1, ViewCovers, Zenon
  <2> QED
    BY <2>3, Zenon DEF o
<1> DEFINE Row(slot) == o.db = s \/ RowStep(s, o.db, o.hints, slot)
<1>5. ASSUME NEW slot, Row(slot) PROVE CoversRead(s, o.db, o.hints, q)
  <2> HIDE DEF o
  <2>1. CASE o.db = s
    BY <2>1 DEF CoversRead
  <2>2. CASE RowStep(s, o.db, o.hints, slot)
    BY <2>2, RowCovers, Zenon
  <2> QED
    BY <1>5, <2>1, <2>2
<1>6. CASE op \in StagingOps
  <2>1. Row(MutationKey(arg))
    BY <1>6, StageIsRowStep, Zenon
  <2> QED
    BY <2>1, <1>5
<1>7. CASE op = "replacePendingMutationIfCurrent"
  <2>1. o = ReplacePendingMutationIfCurrent(s, arg.expected, arg.next)
    BY <1>7 DEF Perform
  <2>2. arg.expected \in PendingMutations /\ arg.next \in PendingMutations
    BY <1>7 DEF IsArgument, StagingOps
  <2> HIDE DEF o
  <2>3. Row(MutationKey(arg.expected))
    BY <2>1, <2>2, MoveIsRowStep, Zenon
  <2> QED
    BY <2>3, <1>5, Zenon DEF o
<1>8. CASE op = "removeConfirmedMutation"
  <2>1. o = RemoveConfirmedMutation(s, arg)
    BY <1>8 DEF Perform
  <2> HIDE DEF o
  <2>3. Row(arg)
    BY <2>1, MoveIsRowStep, Zenon
  <2> QED
    BY <2>3, <1>5, Zenon DEF o
<1> QED
  BY <1>1, <1>2, <1>3, <1>4, <1>6, <1>7, <1>8 DEF IsWrite

-----------------------------------------------------------------------------
(* The clients' calls: the inductive invariant. *)

ReadOps == {"readPendingMutation", "readMailboxView"}
MoveOp == "replacePendingMutationIfCurrent"

\* What the engine will read in a call is what the caller meant.
GoodWrite(k) ==
    LET arg == DecodeArgument(k.op, k.dto) IN
    /\ IsWrite(k.op)
    /\ k.phase \in {"sent", "ok", "conflict", "unexpected"}
    /\ IsArgument(k.op, arg)
    /\ k.op \in StagingOps \cup {MoveOp} => k.dto = Encode(k.op, arg)

\* What a read brings back encodes what it found, which was a valid row.
GoodRead(k) ==
    /\ k.op \in ReadOps
    /\ k.phase \in {"sent", "ok"}
    /\ k.phase = "ok" =>
          \/ /\ k.op = "readPendingMutation"
             /\ k.found \subseteq PendingMutations
             /\ k.dto = {EncodePendingMutation(v) : v \in k.found}
          \/ /\ k.op = "readMailboxView"
             /\ k.found \subseteq MailboxViews
             /\ k.dto = {EncodeMailboxView(v) : v \in k.found}

GoodCall(k) ==
    /\ DOMAIN k = {"phase", "op", "dto", "found"}
    /\ k = Idle \/ GoodWrite(k) \/ GoodRead(k)

PortInv ==
    /\ IsStore(db)
    /\ DOMAIN call = Clients /\ DOMAIN row = Clients /\ DOMAIN result = Clients /\ DOMAIN origin = Clients
    /\ \A c \in Clients :
          /\ GoodCall(call[c])
          /\ row[c] \subseteq origin[c] /\ row[c] \subseteq PendingMutations \cup MailboxViews
          /\ result[c] # "corruptState"

\* A start that was committed: acknowledged, or its answer still on the way.
Starting(k) == k.op = MoveOp /\ k.phase = "ok" /\ StartsAttempt(k.dto)
Start(c, k) == <<c, k.dto.next.mutationId, k.dto.next.lifecycle.attemptCount>>
IsStart(x) == x \in started \/ \E c \in Clients : Starting(call[c]) /\ x = Start(c, call[c])

Staging(k) == k.phase = "sent" /\ k.op \in StagingOps

\* Every mutation has an id of its own, and a start is never ahead of its row.
StartInv ==
    /\ \A k \in DOMAIN db.mutations : db.mutations[k].mutationId \in issued
    /\ \A j, k \in DOMAIN db.mutations : db.mutations[j].mutationId = db.mutations[k].mutationId => j = k
    /\ \A c \in Clients : Staging(call[c]) =>
          LET id == call[c].dto.mutationId IN
          /\ id \in issued
          /\ \A k \in DOMAIN db.mutations : db.mutations[k].mutationId # id
          /\ \A d \in Clients : Staging(call[d]) /\ call[d].dto.mutationId = id => d = c
          /\ \A x : IsStart(x) => x[2] # id
    /\ \A x : IsStart(x) =>
          /\ x[2] \in issued /\ x[3] \in Nat
          /\ \A k \in DOMAIN db.mutations :
                db.mutations[k].mutationId = x[2] => db.mutations[k].lifecycle.attemptCount >= x[3]
    /\ \A x, y : IsStart(x) /\ IsStart(y) /\ x[2] = y[2] /\ x[3] = y[3] => x[1] = y[1]

-----------------------------------------------------------------------------
(* The clients' calls: what the engine reads in a request. *)

\* An id survives the encoding of its collection.
LEMMA IdReadBack ==
    \A kind \in {"email", "mailbox", "identity"} : \A id \in ScopedIds : DecodeId(kind, EncodeId(kind, id)) = id
BY ScopedIdsReadBack DEF DecodeId, EncodeId

\* A commit is read as a commit of the same account and kind, on the same ids.
LEMMA CommitReadBack ==
    ASSUME NEW c, IsCommit(c)
    PROVE  IsCommit(DecodeCollectionSyncCommit(EncodeCollectionSyncCommit(c)))
<1> DEFINE d == EncodeCollectionSyncCommit(c)
           e == DecodeCollectionSyncCommit(d)
           S == SetToSeq(DOMAIN c.changed)
           T == SetToSeq(c.destroyed)
           fields == {"account", "kind", "mode", "expected", "next", "changed", "destroyed"}
<1>1. /\ DOMAIN d = fields /\ d.account = c.account /\ d.kind = c.kind /\ d.mode = c.mode
      /\ d.changed = [i \in DOMAIN S |-> [id |-> EncodeId(c.kind, S[i]), record |-> EncodeRecord(c.kind, c.changed[S[i]])]]
      /\ d.destroyed = [i \in DOMAIN T |-> EncodeId(c.kind, T[i])]
  BY DEF EncodeCollectionSyncCommit, MapSeq, IsCommit
<1>2. ToSet(S) = DOMAIN c.changed /\ ToSet(T) = c.destroyed
  BY SetReadBack DEF IsCommit
<1> HIDE DEF d, S, T
<1>3. {DecodeId(d.kind, d.changed[i].id) : i \in DOMAIN d.changed} = DOMAIN c.changed
  <2>1. \A i \in DOMAIN S : S[i] \in ScopedIds
    BY <1>2 DEF ToSet, IsCommit
  <2>2. \A i \in DOMAIN d.changed : DecodeId(d.kind, d.changed[i].id) = S[i]
    BY <1>1, <2>1, IdReadBack DEF IsCommit
  <2>3. DOMAIN d.changed = DOMAIN S
    BY <1>1
  <2> QED
    BY <1>2, <2>2, <2>3 DEF ToSet
<1>4. {DecodeId(d.kind, d.destroyed[i]) : i \in DOMAIN d.destroyed} = c.destroyed
  <2>1. \A i \in DOMAIN T : T[i] \in ScopedIds
    BY <1>2 DEF ToSet, IsCommit
  <2>2. \A i \in DOMAIN d.destroyed : DecodeId(d.kind, d.destroyed[i]) = T[i]
    BY <1>1, <2>1, IdReadBack DEF IsCommit
  <2>3. DOMAIN d.destroyed = DOMAIN T
    BY <1>1
  <2> QED
    BY <1>2, <2>2, <2>3 DEF ToSet
<1>5. /\ DOMAIN e = fields /\ e.account = d.account /\ e.kind = d.kind /\ e.mode = d.mode
      /\ DOMAIN e.changed = {DecodeId(d.kind, d.changed[i].id) : i \in DOMAIN d.changed}
      /\ e.destroyed = {DecodeId(d.kind, d.destroyed[i]) : i \in DOMAIN d.destroyed}
  BY <1>1 DEF DecodeCollectionSyncCommit
<1> HIDE DEF e
<1>6. IsCommit(e)
  BY <1>1, <1>3, <1>4, <1>5 DEF IsCommit
<1> QED
  BY <1>6 DEF e, d

\* A write that a client encodes is one the engine can run; a mutation is read as it was written.
LEMMA ArgumentReadBack ==
    ASSUME NEW op, NEW arg, IsWrite(op), IsArgument(op, arg)
    PROVE  /\ IsArgument(op, DecodeArgument(op, Encode(op, arg)))
           /\ op \in StagingOps \cup {MoveOp} => DecodeArgument(op, Encode(op, arg)) = arg
<1> DEFINE got == DecodeArgument(op, Encode(op, arg))
<1>1. CASE op \in {"registerAccount", "removeConfirmedMutation"}
  <2>1. got = arg
    BY <1>1 DEF DecodeArgument, Encode, StagingOps
  <2> HIDE DEF got
  <2> QED
    BY <1>1, <2>1 DEF got
<1>2. CASE op = "applyCollectionSync"
  <2>1. got = DecodeCollectionSyncCommit(EncodeCollectionSyncCommit(arg))
    BY <1>2 DEF DecodeArgument, Encode, StagingOps
  <2>2. IsCommit(arg)
    BY <1>2 DEF IsArgument
  <2>3. IsCommit(got)
    BY <2>1, <2>2, CommitReadBack
  <2> HIDE DEF got
  <2>4. IsArgument(op, got)
    BY <1>2, <2>3 DEF IsArgument
  <2> QED
    BY <2>4, <1>2 DEF got, StagingOps, MoveOp
<1>3. CASE op \in {"cacheEmailBody", "replaceAttachmentRefs"}
  <2>1. got = DecodeScopedEmailId(EncodeScopedEmailId(arg))
    BY <1>3 DEF DecodeArgument, Encode, StagingOps
  <2>2. arg \in ScopedIds
    BY <1>3 DEF IsArgument
  <2>3. got = arg
    BY <2>1, <2>2, ScopedIdsReadBack
  <2> HIDE DEF got
  <2> QED
    BY <2>3 DEF got
<1>4. CASE op = "replaceMailboxView"
  <2>1. got = RawView(EncodeMailboxView(arg))
    BY <1>4 DEF DecodeArgument, Encode, StagingOps
  <2>2. arg \in ViewInputs
    BY <1>4 DEF IsArgument
  <2>3. got = arg
    BY <2>1, <2>2, ViewReadBack
  <2> HIDE DEF got
  <2> QED
    BY <2>3 DEF got
<1>5. CASE op \in StagingOps
  <2>1. got = Mutation(EncodePendingMutation(arg))
    BY <1>5 DEF DecodeArgument, Encode, StagingOps
  <2>2. arg \in PendingMutations
    BY <1>5 DEF IsArgument, StagingOps, PendingMutations
  <2>3. got = arg
    BY <2>1, <2>2, MutationReadBack
  <2> HIDE DEF got
  <2> QED
    BY <2>3 DEF got
<1>6. CASE op = MoveOp
  <2>1. got = [expected |-> Mutation(EncodePendingMutation(arg.expected)), next |-> Mutation(EncodePendingMutation(arg.next))]
    BY <1>6 DEF DecodeArgument, Encode, StagingOps, MoveOp
  <2>2. arg \in [expected : PendingMutations, next : PendingMutations]
    BY <1>6 DEF IsArgument, StagingOps, MoveOp
  <2>3. got = arg
    BY <2>1, <2>2, MutationReadBack
  <2> HIDE DEF got
  <2> QED
    BY <2>3 DEF got
<1> QED
  BY <1>1, <1>2, <1>3, <1>4, <1>5, <1>6 DEF IsWrite, MoveOp

\* The states a mutation may be moved to are valid ones.
LEMMA SuccessorsAreValid ==
    ASSUME NEW v \in PendingMutations, NEW l \in Successors(v)
    PROVE  [v EXCEPT !.lifecycle = l] \in PendingMutations
<1>0. /\ v.lifecycle \in SendLifecycles \cup UpdateLifecycles /\ v.accountKey \in STRING
      /\ v.kind \in {"send", "keyword", "mailboxMembership"}
  BY MutationFields
<1>1. v.lifecycle.attemptCount \in Nat /\ (v.lifecycle.status = "inFlight" => v.lifecycle.attemptCount \in Attempts)
  BY <1>0 DEF SendLifecycles, UpdateLifecycles, OpenLifecycles, PendingLifecycle, Attempts
<1>2. CASE v \in SendMutations
  <2>1. v \in [kind : {"send"}, mutationId : STRING, accountKey : STRING, intent : SendIntents,
               lifecycle : SendLifecycles]
    BY <1>2 DEF SendMutations
  <2>2. ScopedId(v.accountKey, "sent") \in ScopedIds /\ ScopedId(v.accountKey, "sent").accountKey = v.accountKey
    BY <1>0, LiteralsAssumption DEF ScopedIds, ScopedId
  <2> DEFINE sent == ScopedId(v.accountKey, "sent")
  <2> HIDE DEF sent
  <2>3. \/ l = [status |-> "inFlight", attemptCount |-> v.lifecycle.attemptCount + 1]
        \/ /\ v.lifecycle.status = "inFlight"
           /\ \/ l = [status |-> "retrying", attemptCount |-> v.lifecycle.attemptCount, nextAttemptAt |-> "later"]
              \/ l = [status |-> "failedTerminal", attemptCount |-> v.lifecycle.attemptCount]
              \/ l = [status |-> "confirmed", attemptCount |-> v.lifecycle.attemptCount, confirmation |-> sent]
    BY <2>1 DEF Successors, sent
  <2>4. l \in SendLifecycles /\ (l.status = "confirmed" => l.confirmation.accountKey = v.accountKey)
    BY <1>1, <2>2, <2>3, LiteralsAssumption DEF SendLifecycles, OpenLifecycles, Attempts, sent
  <2>5. [v EXCEPT !.lifecycle = l] \in SendMutations
    BY <1>2, <2>1, <2>4 DEF SendMutations
  <2> QED
    BY <2>5 DEF PendingMutations
<1>3. ASSUME v.kind # "send" PROVE l \in UpdateLifecycles
  <2>1. \/ l = [status |-> "inFlight", attemptCount |-> v.lifecycle.attemptCount + 1]
        \/ /\ v.lifecycle.status = "inFlight"
           /\ \/ l = [status |-> "retrying", attemptCount |-> v.lifecycle.attemptCount, nextAttemptAt |-> "later"]
              \/ l = [status |-> "failedTerminal", attemptCount |-> v.lifecycle.attemptCount]
              \/ l = [status |-> "confirmed", attemptCount |-> v.lifecycle.attemptCount]
    BY <1>3 DEF Successors
  <2> QED
    BY <1>1, <2>1, LiteralsAssumption DEF UpdateLifecycles, OpenLifecycles, Attempts
<1>4. CASE v \in KeywordMutations
  <2>1. v \in [kind : {"keyword"}, mutationId : STRING, accountKey : STRING, emailId : ScopedIds,
               change : [add : SUBSET STRING, remove : SUBSET STRING], lifecycle : UpdateLifecycles]
    BY <1>4 DEF KeywordMutations
  <2>2. l \in UpdateLifecycles
    BY <1>3, <2>1
  <2>3. [v EXCEPT !.lifecycle = l] \in KeywordMutations
    BY <1>4, <2>1, <2>2 DEF KeywordMutations
  <2> QED
    BY <2>3 DEF PendingMutations
<1>5. CASE v \in MailboxMembershipMutations
  <2>1. v \in [kind : {"mailboxMembership"}, mutationId : STRING, accountKey : STRING, emailId : ScopedIds,
               change : [add : Seq(ScopedIds), remove : Seq(ScopedIds)], lifecycle : UpdateLifecycles]
    BY <1>5 DEF MailboxMembershipMutations
  <2>2. l \in UpdateLifecycles
    BY <1>3, <2>1
  <2>3. [v EXCEPT !.lifecycle = l] \in MailboxMembershipMutations
    BY <1>5, <2>1, <2>2 DEF MailboxMembershipMutations
  <2> QED
    BY <2>3 DEF PendingMutations
<1> QED
  BY <1>2, <1>4, <1>5 DEF PendingMutations

\* A write is sent as the caller meant it.
LEMMA WriteIsGood ==
    \A op, arg : IsWrite(op) /\ IsArgument(op, arg) =>
        GoodCall([Idle EXCEPT !.phase = "sent", !.op = op, !.dto = Encode(op, arg)])
<1> TAKE op, arg
<1> HAVE IsWrite(op) /\ IsArgument(op, arg)
<1> DEFINE d == Encode(op, arg)
           k == [Idle EXCEPT !.phase = "sent", !.op = op, !.dto = d]
<1>1. /\ IsArgument(op, DecodeArgument(op, d))
      /\ op \in StagingOps \cup {MoveOp} => DecodeArgument(op, d) = arg
  BY ArgumentReadBack
<1>2. /\ DOMAIN k = {"phase", "op", "dto", "found"}
      /\ k.phase = "sent" /\ k.op = op /\ k.dto = d
  BY DEF Idle
<1>3. op \in StagingOps \cup {MoveOp} => d = Encode(op, DecodeArgument(op, d))
  BY <1>1, Zenon
<1> HIDE DEF k, d
<1>4. GoodWrite(k)
  BY <1>1, <1>2, <1>3 DEF GoodWrite
<1> QED
  BY <1>2, <1>4 DEF GoodCall, k, d

\* What a client sends leaves the rest alone.
LEMMA SendKeepsPort ==
    ASSUME PortInv, NEW c \in Clients, NEW op, NEW d, Send(c, op, d), db' = db, row' = row, origin' = origin,
           GoodCall([Idle EXCEPT !.phase = "sent", !.op = op, !.dto = d])
    PROVE  PortInv'
<1> DEFINE k == [Idle EXCEPT !.phase = "sent", !.op = op, !.dto = d]
<1>1. call' = [call EXCEPT ![c] = k] /\ result' = [result EXCEPT ![c] = "none"]
  BY DEF Send
<1> HIDE DEF k
<1>2. \A e \in Clients : GoodCall(call'[e])
  BY <1>1 DEF PortInv, k
<1>3. \A e \in Clients : result'[e] # "corruptState"
  BY <1>1 DEF PortInv
<1> QED
  BY <1>1, <1>2, <1>3 DEF PortInv

\* A call that ran has answered, and is still the call that was made.
LEMMA RunIsGood ==
    ASSUME NEW k, GoodCall(k), k.phase = "sent", k.op \notin ReadOps,
           NEW phase \in {"ok", "conflict", "unexpected"}
    PROVE  GoodCall([k EXCEPT !.phase = phase])
<1>1. GoodWrite(k)
  BY DEF GoodCall, GoodRead, Idle
<1> DEFINE l == [k EXCEPT !.phase = phase]
<1>2. DOMAIN l = DOMAIN k /\ l.phase = phase /\ l.op = k.op /\ l.dto = k.dto
  BY DEF GoodCall
<1> HIDE DEF l
<1>3. GoodWrite(l)
  BY <1>1, <1>2 DEF GoodWrite
<1> QED
  BY <1>2, <1>3 DEF GoodCall, l

\* The phases that an execution may end in.
LEMMA OutcomeResults ==
    ASSUME NEW s, NEW op, NEW arg, IsWrite(op)
    PROVE  Perform(s, op, arg).result \in {"ok", "conflict", "unexpected"}
<1> DEFINE Ends(o) == o.result \in {"ok", "conflict", "unexpected"}
<1>0. \A t, hints : Ends(Committed(t, hints)) /\ Ends(Conflict(t)) /\ Ends(Thrown(t))
  BY DEF Committed, Conflict, Thrown
<1> HIDE DEF Ends
<1>1. Ends(RegisterAccount(s, arg)) /\ Ends(ApplyCollectionSync(s, arg))
  BY <1>0 DEF RegisterAccount, ApplyCollectionSync
<1>2. Ends(CacheEmailBody(s, arg)) /\ Ends(ReplaceAttachmentRefs(s, arg))
  BY <1>0 DEF CacheEmailBody, ReplaceAttachmentRefs
<1>3. Ends(ReplaceMailboxView(s, arg)) /\ Ends(StageSendMutation(s, arg))
  BY <1>0 DEF ReplaceMailboxView, StageSendMutation
<1>4. Ends(ApplyOptimisticKeywordMutation(s, arg)) /\ Ends(ApplyOptimisticMailboxMembershipMutation(s, arg))
  BY <1>0 DEF ApplyOptimisticKeywordMutation, ApplyOptimisticMailboxMembershipMutation
<1>5. Ends(ReplacePendingMutationIfCurrent(s, arg.expected, arg.next)) /\ Ends(RemoveConfirmedMutation(s, arg))
  BY <1>0 DEF ReplacePendingMutationIfCurrent, RemoveConfirmedMutation
<1>6. Ends(Perform(s, op, arg))
  BY <1>1, <1>2, <1>3, <1>4, <1>5 DEF Perform, IsWrite, StagingOps
<1> QED
  BY <1>6 DEF Ends

\* What a read found is decoded as what was found.
LEMMA FoundIsDecoded ==
    ASSUME NEW k, GoodRead(k), k.phase = "ok"
    PROVE  UNION {Decode(k.op, d) : d \in k.dto} = k.found
<1>1. CASE k.op = "readPendingMutation"
  <2>1. k.found \subseteq PendingMutations /\ k.dto = {EncodePendingMutation(v) : v \in k.found}
    BY <1>1 DEF GoodRead
  <2>2. \A v \in k.found : Decode(k.op, EncodePendingMutation(v)) = {v}
    BY <1>1, <2>1, MutationReadBack DEF Decode
  <2> QED
    BY <2>1, <2>2
<1>2. CASE k.op = "readMailboxView"
  <2>1. k.found \subseteq MailboxViews /\ k.dto = {EncodeMailboxView(v) : v \in k.found}
    BY <1>2 DEF GoodRead
  <2>2. \A v \in k.found : Decode(k.op, EncodeMailboxView(v)) = {v}
    BY <1>2, <2>1, ViewReadBack DEF Decode, MailboxViews, MailboxView
  <2> QED
    BY <2>1, <2>2
<1> QED
  BY <1>1, <1>2 DEF GoodRead, ReadOps

\* The port starts idle on the store that was opened.
LEMMA PortInit == EngineInit => PortInv
<1> SUFFICES ASSUME EngineInit PROVE PortInv
  OBVIOUS
<1>1. IsStore(db)
  BY StoreAssumption DEF EngineInit
<1>2. GoodCall(Idle)
  BY DEF GoodCall, Idle
<1>3. DOMAIN call = Clients /\ DOMAIN row = Clients /\ DOMAIN result = Clients /\ DOMAIN origin = Clients
  BY DEF EngineInit
<1>4. \A c \in Clients : call[c] = Idle /\ row[c] = {} /\ result[c] = "none" /\ origin[c] = {}
  BY DEF EngineInit
<1> QED
  BY <1>1, <1>2, <1>3, <1>4 DEF PortInv

\* A client writes.
LEMMA WriteKeepsPort == ASSUME PortInv, NEW c \in Clients, Write(c) PROVE PortInv'
<1>1. PICK r \in Requests : Send(c, r.op, Encode(r.op, r.arg))
  BY DEF Write
<1>2. IsWrite(r.op) /\ IsArgument(r.op, r.arg)
  BY RequestsAssumption
<1> DEFINE op == r.op
           d == Encode(r.op, r.arg)
<1>3. GoodCall([Idle EXCEPT !.phase = "sent", !.op = op, !.dto = d])
  BY <1>2, WriteIsGood, Zenon
<1>4. Send(c, op, d)
  BY <1>1
<1> HIDE DEF op, d
<1>5. db' = db /\ row' = row /\ origin' = origin
  BY DEF Write
<1> QED
  BY <1>3, <1>4, <1>5, SendKeepsPort

\* A client reads.
LEMMA ReadQueryKeepsPort == ASSUME PortInv, NEW c \in Clients, ReadQuery(c) PROVE PortInv'
<1>1. \E op \in ReadOps : \E d : Send(c, op, d)
  BY DEF ReadQuery, ReadOps
<1>2. PICK op \in ReadOps : \E d : Send(c, op, d)
  BY <1>1
<1>d. PICK d : Send(c, op, d)
  BY <1>2
<1> DEFINE k == [Idle EXCEPT !.phase = "sent", !.op = op, !.dto = d]
<1>3. DOMAIN k = {"phase", "op", "dto", "found"} /\ k.phase = "sent" /\ k.op = op
  BY DEF Idle
<1> HIDE DEF k
<1>4. GoodCall(k)
  BY <1>3 DEF GoodCall, GoodRead
<1>5. db' = db /\ row' = row /\ origin' = origin
  BY DEF ReadQuery
<1> QED
  BY <1>d, <1>4, <1>5, SendKeepsPort DEF k

\* What an executor may read and move on is a mutation, not a view.
LEMMA RowsAreMutations ==
    ASSUME PortInv, NEW c \in Clients, NEW v \in row[c], "lifecycle" \in DOMAIN v PROVE v \in PendingMutations
<1>1. \A w \in ViewInputs : "lifecycle" \notin DOMAIN w
  BY DEF ViewInputs
<1> QED
  BY <1>1 DEF PortInv, MailboxViews

\* An executor moves a mutation on.
LEMMA AdvanceKeepsPort == ASSUME PortInv, NEW c \in Clients, Advance(c) PROVE PortInv'
<1>1. \E op, arg : IsWrite(op) /\ IsArgument(op, arg) /\ Send(c, op, Encode(op, arg))
  <2>1. PICK v \in row[c] :
          /\ "lifecycle" \in DOMAIN v
          /\ \/ \E l \in Successors(v) :
                   Send(c, MoveOp, Encode(MoveOp, [expected |-> v, next |-> [v EXCEPT !.lifecycle = l]]))
             \/ /\ v.lifecycle.status = "confirmed"
                /\ Send(c, "removeConfirmedMutation", MutationKey(v))
    BY Zenon DEF Advance, MoveOp
  <2>2. v \in PendingMutations
    BY <2>1, RowsAreMutations
  <2>3. CASE \E l \in Successors(v) :
               Send(c, MoveOp, Encode(MoveOp, [expected |-> v, next |-> [v EXCEPT !.lifecycle = l]]))
    <3>1. PICK l \in Successors(v) :
            Send(c, MoveOp, Encode(MoveOp, [expected |-> v, next |-> [v EXCEPT !.lifecycle = l]]))
      BY <2>3
    <3> DEFINE w == [v EXCEPT !.lifecycle = l]
               arg == [expected |-> v, next |-> w]
    <3>2. w \in PendingMutations
      BY <2>2, SuccessorsAreValid
    <3> HIDE DEF w
    <3>3. IsArgument(MoveOp, arg) /\ IsWrite(MoveOp)
      BY <2>2, <3>2 DEF IsArgument, MoveOp, StagingOps, IsWrite
    <3>4. Send(c, MoveOp, Encode(MoveOp, arg))
      BY <3>1, Zenon DEF w
    <3> HIDE DEF arg
    <3> QED
      BY <3>3, <3>4
  <2>4. CASE Send(c, "removeConfirmedMutation", MutationKey(v))
    <3> DEFINE arg == MutationKey(v)
    <3>1. arg \in STRING \X STRING
      BY <2>2, MutationFields DEF MutationKey
    <3> HIDE DEF arg
    <3>2. /\ IsArgument("removeConfirmedMutation", arg) /\ IsWrite("removeConfirmedMutation")
          /\ Encode("removeConfirmedMutation", arg) = arg
      BY <3>1 DEF IsArgument, StagingOps, IsWrite, Encode
    <3> QED
      BY <2>4, <3>2 DEF arg
  <2> QED
    BY <2>1, <2>3, <2>4
<1>2. PICK op, arg : IsWrite(op) /\ IsArgument(op, arg) /\ Send(c, op, Encode(op, arg))
  BY <1>1
<1> DEFINE d == Encode(op, arg)
<1>3. GoodCall([Idle EXCEPT !.phase = "sent", !.op = op, !.dto = d])
  BY <1>2, WriteIsGood, Zenon
<1>4. db' = db /\ row' = row /\ origin' = origin
  BY DEF Advance
<1> HIDE DEF d
<1> QED
  BY <1>2, <1>3, <1>4, SendKeepsPort DEF d

\* A call in progress that is not a read is a write that means something.
LEMMA SentWrite ==
    ASSUME PortInv, NEW c \in Clients, call[c].phase = "sent", call[c].op \notin ReadOps
    PROVE  /\ GoodWrite(call[c]) /\ IsWrite(call[c].op)
           /\ IsArgument(call[c].op, DecodeArgument(call[c].op, call[c].dto))
<1>1. GoodCall(call[c]) /\ call[c] # Idle
  BY DEF PortInv, Idle
<1> QED
  BY <1>1 DEF GoodCall, GoodRead, GoodWrite

\* The engine runs a write.
LEMMA RunWriteKeepsPort == ASSUME PortInv, NEW c \in Clients, RunWrite(c) PROVE PortInv'
<1> DEFINE op == call[c].op
           arg == DecodeArgument(call[c].op, call[c].dto)
           phase == Perform(db, op, arg).result
<1>1. call[c].phase = "sent" /\ call[c].op \notin ReadOps
  BY DEF RunWrite, ReadOps
<1>2. /\ db' = Perform(db, op, arg).db
      /\ call' = [call EXCEPT ![c] = [call[c] EXCEPT !.phase = phase]]
      /\ row' = row /\ result' = result /\ origin' = origin
  BY Zenon DEF RunWrite, Execute
<1>3. IsWrite(op) /\ IsArgument(op, arg)
  BY <1>1, SentWrite
<1>4. phase \in {"ok", "conflict", "unexpected"}
  BY <1>3, OutcomeResults
<1>5. IsStore(db')
  <2> HIDE DEF op, arg, phase
  <2>1. IsStore(Perform(db, op, arg).db)
    BY <1>3, PerformKeepsStore DEF PortInv
  <2> QED
    BY <1>2, <2>1, Zenon
<1> HIDE DEF phase
<1> DEFINE k == call[c]
<1>6. GoodCall([call[c] EXCEPT !.phase = phase])
  <2>1. GoodCall(k) /\ k.phase = "sent" /\ k.op \notin ReadOps
    BY <1>1 DEF PortInv
  <2> HIDE DEF k
  <2>2. GoodCall([k EXCEPT !.phase = phase])
    BY <1>4, <2>1, RunIsGood
  <2> QED
    BY <2>2 DEF k
<1> DEFINE l == [call[c] EXCEPT !.phase = phase]
<1>7. GoodCall(l) /\ call' = [call EXCEPT ![c] = l]
  BY <1>2, <1>6
<1> HIDE DEF l
<1>8. \A e \in Clients : GoodCall(call'[e])
  BY <1>7 DEF PortInv
<1> QED
  BY <1>2, <1>5, <1>7, <1>8 DEF PortInv

\* The engine answers a read.
LEMMA RunReadKeepsPort == ASSUME PortInv, NEW c \in Clients, RunRead(c) PROVE PortInv'
<1> DEFINE k == call[c]
           key == IF k.op = "readMailboxView" THEN DecodeScopedMailboxId(k.dto) ELSE k.dto
           table == IF k.op = "readMailboxView" THEN db.views ELSE db.mutations
           found == {table[x] : x \in DOMAIN table \cap {key}}
           dto == {IF k.op = "readMailboxView" THEN EncodeMailboxView(v) ELSE EncodePendingMutation(v) : v \in found}
           l == [k EXCEPT !.phase = "ok", !.found = found, !.dto = dto]
<1>1. k.op \in ReadOps
  BY DEF RunRead, ReadOps
<1>2. call' = [call EXCEPT ![c] = l] /\ db' = db /\ row' = row /\ result' = result /\ origin' = origin
  BY DEF RunRead, PortInv
<1>3. DOMAIN k = {"phase", "op", "dto", "found"}
  BY DEF PortInv, GoodCall
<1>4. CASE k.op = "readMailboxView"
  <2>1. found \subseteq MailboxViews
    BY <1>4 DEF PortInv, IsStore
  <2>2. dto = {EncodeMailboxView(v) : v \in found}
    BY <1>4
  <2> HIDE DEF found, dto, k
  <2>3. DOMAIN l = DOMAIN k /\ l.op = k.op /\ l.phase = "ok" /\ l.found = found /\ l.dto = dto
    BY <1>3
  <2> HIDE DEF l
  <2>4. GoodCall(l)
    BY <1>1, <1>3, <1>4, <2>1, <2>2, <2>3 DEF GoodCall, GoodRead
  <2>5. \A e \in Clients : GoodCall(call'[e])
    BY <1>2, <2>4 DEF PortInv
  <2> QED
    BY <1>2, <2>5 DEF PortInv
<1>5. CASE k.op = "readPendingMutation"
  <2>1. found \subseteq PendingMutations
    BY <1>5 DEF PortInv, IsStore
  <2>2. dto = {EncodePendingMutation(v) : v \in found}
    BY <1>5
  <2> HIDE DEF found, dto, k
  <2>3. DOMAIN l = DOMAIN k /\ l.op = k.op /\ l.phase = "ok" /\ l.found = found /\ l.dto = dto
    BY <1>3
  <2> HIDE DEF l
  <2>4. GoodCall(l)
    BY <1>1, <1>3, <1>5, <2>1, <2>2, <2>3 DEF GoodCall, GoodRead
  <2>5. \A e \in Clients : GoodCall(call'[e])
    BY <1>2, <2>4 DEF PortInv
  <2> QED
    BY <1>2, <2>5 DEF PortInv
<1> QED
  BY <1>1, <1>4, <1>5 DEF ReadOps

\* A call comes back, or does not.
LEMMA ReturnsKeepsPort ==
    ASSUME PortInv, NEW c \in Clients, NEW envelope \in {"whole", "malformed", "lost"}, Returns(c, envelope)
    PROVE  PortInv'
<1> DEFINE k == call[c]
           answered == PortResult(k.phase, envelope)
           isRead == k.op \in ReadOps
           decoded == UNION {Decode(k.op, d) : d \in k.dto}
<1>1. /\ k.phase \notin {"idle", "sent"} /\ GoodCall(k) /\ k # Idle
  BY DEF Returns, PortInv, Idle
<1>2. /\ call' = [call EXCEPT ![c] = Idle] /\ db' = db
      /\ row' = [row EXCEPT ![c] = IF isRead /\ answered = "ok" THEN decoded
                                   ELSE IF isRead \/ answered = "ok" THEN {} ELSE @]
      /\ origin' = [origin EXCEPT ![c] = IF isRead THEN k.found ELSE @]
      /\ result' = [result EXCEPT ![c] =
            IF isRead /\ answered = "ok" /\ decoded = {} /\ k.dto # {} THEN "corruptState" ELSE answered]
  BY DEF Returns, ReadOps
<1>3. answered \in {"unavailable", "unexpected", "ok", "conflict"} /\ (answered = "ok" => k.phase = "ok")
  BY <1>1 DEF PortResult, GoodCall, GoodRead, GoodWrite
<1>4. isRead => GoodRead(k) /\ k.phase = "ok"
  BY <1>1 DEF GoodCall, GoodRead, GoodWrite, IsWrite, StagingOps, ReadOps
<1>5. isRead => decoded = k.found /\ k.found \subseteq PendingMutations \cup MailboxViews /\ (k.found = {} => k.dto = {})
  <2>1. isRead => decoded = k.found
    BY <1>4, FoundIsDecoded
  <2>2. isRead => k.found \subseteq PendingMutations \cup MailboxViews /\ (k.found = {} => k.dto = {})
    BY <1>4 DEF GoodRead
  <2> QED
    BY <2>1, <2>2
<1>6. GoodCall(Idle)
  BY DEF GoodCall, Idle
<1> HIDE DEF answered, decoded, isRead, k
<1>7. \A e \in Clients : GoodCall(call'[e])
  BY <1>2, <1>6 DEF PortInv
<1>8. \A e \in Clients : row'[e] \subseteq origin'[e] /\ row'[e] \subseteq PendingMutations \cup MailboxViews
  BY <1>2, <1>5 DEF PortInv
<1>9. \A e \in Clients : result'[e] # "corruptState"
  BY <1>2, <1>3, <1>5 DEF PortInv
<1> QED
  BY <1>2, <1>7, <1>8, <1>9 DEF PortInv

\* The invariant of the ports holds always.
THEOREM PortsHold == EngineSpec => []PortInv
<1>1. EngineInit => PortInv
  BY PortInit
<1>2. PortInv /\ [EngineNext]_engineVars => PortInv'
  <2> SUFFICES ASSUME PortInv, [EngineNext]_engineVars PROVE PortInv'
    OBVIOUS
  <2>1. CASE EngineNext
    BY <2>1, WriteKeepsPort, ReadQueryKeepsPort, AdvanceKeepsPort, RunWriteKeepsPort, RunReadKeepsPort,
       ReturnsKeepsPort DEF EngineNext
  <2>2. CASE UNCHANGED engineVars
    BY <2>2 DEF engineVars, PortInv
  <2> QED
    BY <2>1, <2>2
<1> QED
  BY <1>1, <1>2, PTL DEF EngineSpec

\* Whatever the engine stored is read back as the very value stored, and never as a corrupt one
\* (domain-ipc-codecs.ts): for every kind of mutation, lifecycle and view.
THEOREM ReadBackHolds == EngineSpec => []ReadBack
<1>1. PortInv => ReadBack
  BY DEF PortInv, ReadBack
<1> QED
  BY <1>1, PortsHold, PTL

\* A stored view lists an Email at exactly the positions that its coverage declares known.
THEOREM ViewsAreExactHolds == EngineSpec => []ViewsAreExact
<1>1. PortInv => ViewsAreExact
  BY CoverageIsExact DEF PortInv, IsStore, ViewsAreExact
<1> QED
  BY <1>1, PortsHold, PTL

\* Whatever a write changes in what some read answers, one of the hints it publishes covers
\* (local-change-source.ts).
THEOREM HintsCoverChangesHolds == EngineSpec => HintsCoverChanges
<1> DEFINE Covered == \A q \in Queries : Read(db, q) # Read(db', q) => \E h \in published' : Covers(h, q)
<1>1. PortInv /\ [EngineNext]_engineVars => [Covered]_engineVars
  <2> SUFFICES ASSUME PortInv, EngineNext, NEW q \in Queries, Read(db, q) # Read(db', q)
               PROVE  \E h \in published' : Covers(h, q)
    OBVIOUS
  <2>1. PICK c \in Clients : RunWrite(c)
    <3>1. db' # db
      OBVIOUS
    <3> QED
      BY <3>1 DEF EngineNext, Write, ReadQuery, Advance, RunRead, Returns
  <2> DEFINE op == call[c].op
             arg == DecodeArgument(call[c].op, call[c].dto)
             o == Perform(db, op, arg)
  <2>2. call[c].phase = "sent" /\ call[c].op \notin ReadOps
    BY <2>1 DEF RunWrite, ReadOps
  <2>3. db' = o.db /\ published' = o.hints
    BY <2>1, Zenon DEF RunWrite, Execute
  <2>4. IsWrite(op) /\ IsArgument(op, arg) /\ IsStore(db)
    BY <2>2, SentWrite DEF PortInv
  <2>5. \E kind \in QueryKinds : \E key : q = Query(kind, key)
    BY DEF Queries, Query, QueryKinds
  <2> HIDE DEF op, arg
  <2>k. PICK kind \in QueryKinds : \E key : q = Query(kind, key)
    BY <2>5
  <2>6. PICK key : q = Query(kind, key)
    BY <2>k
  <2>7. CoversRead(db, o.db, o.hints, Query(kind, key))
    BY <2>4, PerformCovers
  <2> HIDE DEF o
  <2> QED
    BY <2>3, <2>6, <2>7, Zenon DEF CoversRead
<1>2. EngineSpec => [][EngineNext]_engineVars
  BY PTL DEF EngineSpec
<1> QED
  BY <1>1, <1>2, PortsHold, PTL DEF HintsCoverChanges

-----------------------------------------------------------------------------
(* One starter per attempt. *)

\* No call is under way, and the rows that were found have ids of their own.
LEMMA StartInit == EngineInit => StartInv
<1> SUFFICES ASSUME EngineInit PROVE StartInv
  OBVIOUS
<1>1. \A c \in Clients : ~Starting(call[c]) /\ ~Staging(call[c])
  BY DEF EngineInit, Idle, Starting, Staging, MoveOp
<1>2. \A x : ~IsStart(x)
  BY <1>1 DEF EngineInit, IsStart
<1>3. \A k \in DOMAIN db.mutations : db.mutations[k].mutationId \in issued
  BY DEF EngineInit
<1>4. \A j, k \in DOMAIN db.mutations : db.mutations[j].mutationId = db.mutations[k].mutationId => j = k
  BY UniqueIdsAssumption DEF EngineInit
<1> QED
  BY <1>1, <1>2, <1>3, <1>4 DEF StartInv

\* A step that stages nothing, starts nothing and moves no row on.
LEMMA QuietKeepsStarts ==
    ASSUME StartInv, issued' = issued, \A x : IsStart(x)' => IsStart(x),
           \A e \in Clients : Staging(call'[e]) => call'[e] = call[e],
           \A k \in DOMAIN db'.mutations : k \in DOMAIN db.mutations /\ db'.mutations[k] = db.mutations[k]
    PROVE  StartInv'
<1>1. /\ \A k \in DOMAIN db'.mutations : db'.mutations[k].mutationId \in issued'
      /\ \A j, k \in DOMAIN db'.mutations : db'.mutations[j].mutationId = db'.mutations[k].mutationId => j = k
  BY DEF StartInv
<1>2. ASSUME NEW c \in Clients, Staging(call'[c]), NEW id, id = call'[c].dto.mutationId
      PROVE  /\ id \in issued'
             /\ \A k \in DOMAIN db'.mutations : db'.mutations[k].mutationId # id
             /\ \A d \in Clients : Staging(call'[d]) /\ call'[d].dto.mutationId = id => d = c
             /\ \A x : IsStart(x)' => x[2] # id
  <2>1. Staging(call[c]) /\ id = call[c].dto.mutationId
    BY <1>2
  <2>2. /\ id \in issued
        /\ \A k \in DOMAIN db.mutations : db.mutations[k].mutationId # id
        /\ \A d \in Clients : Staging(call[d]) /\ call[d].dto.mutationId = id => d = c
        /\ \A x : IsStart(x) => x[2] # id
    BY <2>1 DEF StartInv
  <2> QED
    BY <2>2
<1>3. ASSUME NEW x, IsStart(x)'
      PROVE  /\ x[2] \in issued' /\ x[3] \in Nat
             /\ \A k \in DOMAIN db'.mutations :
                   db'.mutations[k].mutationId = x[2] => db'.mutations[k].lifecycle.attemptCount >= x[3]
  BY <1>3 DEF StartInv
<1>4. \A x, y : IsStart(x)' /\ IsStart(y)' /\ x[2] = y[2] /\ x[3] = y[3] => x[1] = y[1]
  BY DEF StartInv
<1> QED
  BY <1>1, <1>2, <1>3, <1>4 DEF StartInv

\* Sending starts nothing.
LEMMA SendStartsNothing ==
    ASSUME PortInv, NEW c \in Clients, NEW op, NEW d, Send(c, op, d), started' = started
    PROVE  /\ \A x : IsStart(x)' => IsStart(x)
           /\ \A e \in Clients : Staging(call'[e]) /\ e # c => call'[e] = call[e]
           /\ call'[c].phase = "sent" /\ call'[c].op = op /\ call'[c].dto = d
           /\ call[c].phase = "idle"
<1>1. call' = [call EXCEPT ![c] = [Idle EXCEPT !.phase = "sent", !.op = op, !.dto = d]] /\ call[c].phase = "idle"
  BY DEF Send
<1>2. call'[c].phase = "sent" /\ call'[c].op = op /\ call'[c].dto = d
  BY <1>1 DEF PortInv, Idle
<1>3. \A e \in Clients \ {c} : call'[e] = call[e]
  BY <1>1 DEF PortInv
<1>4. ~Starting(call'[c])
  BY <1>2 DEF Starting
<1>5. \A x : IsStart(x)' => IsStart(x)
  BY <1>3, <1>4 DEF IsStart
<1> QED
  BY <1>1, <1>2, <1>3, <1>5

\* The id that a staging call will be stored under.
LEMMA StagingId ==
    ASSUME NEW op \in StagingOps, NEW arg, IsArgument(op, arg)
    PROVE  /\ arg \in PendingMutations /\ arg.mutationId = Encode(op, arg).mutationId
<1>1. arg \in PendingMutations
  BY DEF IsArgument, StagingOps, PendingMutations
<1>2. Encode(op, arg) = EncodePendingMutation(arg)
  BY DEF Encode, StagingOps
<1> QED
  BY <1>1, <1>2, MutationEncoded

\* A client writes: a mutation gets an id that was never issued.
LEMMA WriteKeepsStarts == ASSUME PortInv, StartInv, NEW c \in Clients, Write(c) PROVE StartInv'
<1>1. PICK r \in Requests :
         /\ (IF r.op \in StagingOps THEN {r.arg.mutationId} ELSE {}) \cap issued = {}
         /\ issued' = issued \cup (IF r.op \in StagingOps THEN {r.arg.mutationId} ELSE {})
         /\ Send(c, r.op, Encode(r.op, r.arg))
  BY DEF Write
<1>2. started' = started /\ db' = db
  BY DEF Write
<1> DEFINE op == r.op
           d == Encode(r.op, r.arg)
<1>3. /\ \A x : IsStart(x)' => IsStart(x)
      /\ \A e \in Clients : Staging(call'[e]) /\ e # c => call'[e] = call[e]
      /\ call'[c].phase = "sent" /\ call'[c].op = op /\ call'[c].dto = d
      /\ call[c].phase = "idle"
  <2>1. Send(c, op, d)
    BY <1>1
  <2> HIDE DEF op, d
  <2> QED
    BY <1>2, <2>1, SendStartsNothing
<1>4. CASE r.op \notin StagingOps
  <2>1. issued' = issued
    BY <1>1, <1>4
  <2>2. \A e \in Clients : Staging(call'[e]) => call'[e] = call[e]
    BY <1>3, <1>4 DEF Staging
  <2> QED
    BY <1>2, <1>3, <2>1, <2>2, QuietKeepsStarts
<1>5. CASE r.op \in StagingOps
  <2> DEFINE id == r.arg.mutationId
  <2>1. id \notin issued /\ issued' = issued \cup {id}
    BY <1>1, <1>5
  <2>2. d.mutationId = id
    BY <1>5, RequestsAssumption, StagingId
  <2>3. Staging(call'[c]) /\ call'[c].dto.mutationId = id
    BY <1>3, <1>5, <2>2 DEF Staging
  <2> HIDE DEF id, d
  <2>4. \A e \in Clients : Staging(call'[e]) /\ e # c =>
           Staging(call[e]) /\ call'[e] = call[e] /\ call'[e].dto.mutationId \in issued
    BY <1>3 DEF StartInv
  <2>5. /\ \A k \in DOMAIN db'.mutations : db'.mutations[k].mutationId \in issued
        /\ \A j, k \in DOMAIN db'.mutations : db'.mutations[j].mutationId = db'.mutations[k].mutationId => j = k
    BY <1>2 DEF StartInv
  <2>6. \A x : IsStart(x)' => x[2] \in issued
    BY <1>3 DEF StartInv
  <2>7. ASSUME NEW e \in Clients, Staging(call'[e]), NEW i, i = call'[e].dto.mutationId
        PROVE  /\ i \in issued'
               /\ \A k \in DOMAIN db'.mutations : db'.mutations[k].mutationId # i
               /\ \A f \in Clients : Staging(call'[f]) /\ call'[f].dto.mutationId = i => f = e
               /\ \A x : IsStart(x)' => x[2] # i
    <3>1. CASE e = c
      BY <2>7, <3>1, <2>1, <2>3, <2>4, <2>5, <2>6
    <3>2. CASE e # c
      <4>1. Staging(call[e]) /\ i = call[e].dto.mutationId /\ i \in issued
        BY <2>7, <3>2, <2>4
      <4>2. /\ \A k \in DOMAIN db.mutations : db.mutations[k].mutationId # i
            /\ \A f \in Clients : Staging(call[f]) /\ call[f].dto.mutationId = i => f = e
            /\ \A x : IsStart(x) => x[2] # i
        BY <4>1 DEF StartInv
      <4> QED
        BY <4>1, <4>2, <1>2, <1>3, <2>1, <2>3, <2>4
    <3> QED
      BY <3>1, <3>2
  <2>8. ASSUME NEW x, IsStart(x)'
        PROVE  /\ x[2] \in issued' /\ x[3] \in Nat
               /\ \A k \in DOMAIN db'.mutations :
                     db'.mutations[k].mutationId = x[2] => db'.mutations[k].lifecycle.attemptCount >= x[3]
    BY <2>8, <1>2, <1>3, <2>1 DEF StartInv
  <2>9. \A x, y : IsStart(x)' /\ IsStart(y)' /\ x[2] = y[2] /\ x[3] = y[3] => x[1] = y[1]
    BY <1>3 DEF StartInv
  <2> QED
    BY <2>1, <2>5, <2>7, <2>8, <2>9 DEF StartInv
<1> QED
  BY <1>4, <1>5

\* Reads and moves are sent without an id of their own.
LEMMA OtherSendKeepsStarts ==
    ASSUME PortInv, StartInv, NEW c \in Clients, ReadQuery(c) \/ Advance(c) PROVE StartInv'
<1>1. \E op, d : op \notin StagingOps /\ Send(c, op, d)
  BY Zenon DEF ReadQuery, Advance, StagingOps
<1>2. PICK op, d : op \notin StagingOps /\ Send(c, op, d)
  BY <1>1
<1>3. started' = started /\ db' = db /\ issued' = issued
  BY DEF ReadQuery, Advance
<1>4. /\ \A x : IsStart(x)' => IsStart(x)
      /\ \A e \in Clients : Staging(call'[e]) /\ e # c => call'[e] = call[e]
      /\ call'[c].op = op
  BY <1>2, <1>3, SendStartsNothing
<1>5. \A e \in Clients : Staging(call'[e]) => call'[e] = call[e]
  BY <1>2, <1>4 DEF Staging
<1> QED
  BY <1>3, <1>4, <1>5, QuietKeepsStarts

\* An answer only records a start that was committed.
LEMMA ReturnsKeepsStarts ==
    ASSUME PortInv, StartInv, NEW c \in Clients, NEW envelope \in {"whole", "malformed", "lost"}, Returns(c, envelope)
    PROVE  StartInv'
<1>1. /\ call' = [call EXCEPT ![c] = Idle] /\ db' = db /\ issued' = issued
      /\ started' = IF /\ call[c].op = MoveOp /\ PortResult(call[c].phase, envelope) = "ok"
                       /\ StartsAttempt(call[c].dto)
                    THEN started \cup {Start(c, call[c])} ELSE started
  BY DEF Returns, MoveOp, Start
<1>2. PortResult(call[c].phase, envelope) = "ok" => call[c].phase = "ok"
  BY DEF PortResult
<1>3. ~Starting(call'[c]) /\ ~Staging(call'[c]) /\ \A e \in Clients \ {c} : call'[e] = call[e]
  BY <1>1 DEF PortInv, Starting, Staging, Idle, MoveOp
<1>4. \A x : x \in started' => x \in started \/ (Starting(call[c]) /\ x = Start(c, call[c]))
  BY <1>1, <1>2 DEF Starting
<1>5. \A x : IsStart(x)' => IsStart(x)
  BY <1>3, <1>4 DEF IsStart
<1> QED
  BY <1>1, <1>3, <1>5, QuietKeepsStarts

\* A read that runs starts nothing.
LEMMA RunReadKeepsStarts == ASSUME PortInv, StartInv, NEW c \in Clients, RunRead(c) PROVE StartInv'
<1>1. /\ \A e \in Clients \ {c} : call'[e] = call[e]
      /\ call'[c].op = call[c].op /\ call[c].op \in ReadOps
      /\ db' = db /\ issued' = issued /\ started' = started
  BY DEF RunRead, ReadOps, PortInv, GoodCall
<1>2. ~Starting(call'[c]) /\ ~Staging(call'[c])
  BY <1>1 DEF Starting, Staging, ReadOps, MoveOp, StagingOps
<1>3. \A x : IsStart(x)' => IsStart(x)
  BY <1>1, <1>2 DEF IsStart
<1> QED
  BY <1>1, <1>2, <1>3, QuietKeepsStarts

\* The writes of the other tables leave the mutations alone.
LEMMA OthersKeepRows ==
    ASSUME NEW s, IsStore(s), NEW op, NEW arg, IsWrite(op), IsArgument(op, arg),
           op \notin StagingOps \cup {MoveOp, "removeConfirmedMutation"}
    PROVE  Perform(s, op, arg).db.mutations = s.mutations
<1> DEFINE t == Perform(s, op, arg).db
<1>0. \A F : SameExcept(s, t, F) /\ "mutations" \notin F => t.mutations = s.mutations
  BY StoreTables DEF SameExcept, Tables
<1>c. \A F : t = s => SameExcept(s, t, F)
  BY DEF SameExcept
<1>1. CASE op = "registerAccount"
  <2>1. SameExcept(s, t, {"accounts"})
    BY <1>1, RegisterEffect DEF Perform
  <2> QED
    BY <1>0, <2>1
<1>2. CASE op = "applyCollectionSync"
  <2>1. t = ApplyCollectionSync(s, arg).db
    BY <1>2 DEF Perform
  <2>2. arg.mode \in {"replace", "delta"} /\ arg.kind \in {"email", "mailbox", "identity"}
    BY <1>2 DEF IsArgument, IsCommit
  <2> HIDE DEF t
  <2>3. \/ t = s
        \/ SameExcept(s, t, {"emails", "memberships", "cursors"})
        \/ SameExcept(s, t, {"mailboxes", "cursors"})
        \/ SameExcept(s, t, {"identities", "cursors"})
    <3> DEFINE o == ApplyCollectionSync(s, arg)
    <3>1. \/ o = Conflict(s)
          \/ /\ arg.kind = "email" => SameExcept(s, o.db, {"emails", "memberships", "cursors"})
             /\ arg.kind = "mailbox" => SameExcept(s, o.db, {"mailboxes", "cursors"})
             /\ arg.kind = "identity" => SameExcept(s, o.db, {"identities", "cursors"})
      BY <2>2, CommitEffect, Zenon
    <3>2. t = o.db
      BY <2>1
    <3> HIDE DEF o
    <3>3. o = Conflict(s) => t = s
      BY <3>2, ConflictEffect, Zenon
    <3> QED
      BY <2>2, <3>1, <3>2, <3>3
  <2> QED
    BY <1>0, <2>3 DEF t
<1>3. CASE op \in {"cacheEmailBody", "replaceAttachmentRefs"}
  <2>1. \/ t = s
        \/ SameExcept(s, t, {"bodies"})
        \/ SameExcept(s, t, {"attachments"})
    <3>1. t = CacheEmailBody(s, arg).db \/ t = ReplaceAttachmentRefs(s, arg).db
      BY <1>3 DEF Perform
    <3>2. /\ CacheEmailBody(s, arg).db = s \/ SameExcept(s, CacheEmailBody(s, arg).db, {"bodies"})
          /\ ReplaceAttachmentRefs(s, arg).db = s \/ SameExcept(s, ReplaceAttachmentRefs(s, arg).db, {"attachments"})
      BY CacheEffect, ConflictEffect, Zenon
    <3> HIDE DEF t
    <3>3. \/ t = s
          \/ SameExcept(s, t, {"bodies"})
          \/ SameExcept(s, t, {"attachments"})
      BY <3>1, <3>2
    <3> QED
      BY <3>3, Zenon DEF t
  <2> QED
    BY <1>0, <2>1
<1>4. CASE op = "replaceMailboxView"
  <2>1. \/ t = s
        \/ SameExcept(s, t, {"views"})
    <3>1. t = ReplaceMailboxView(s, arg).db
      BY <1>4 DEF Perform
    <3> HIDE DEF t
    <3> QED
      BY <3>1, ViewEffect, Zenon
  <2> QED
    BY <1>0, <2>1
<1> QED
  BY <1>1, <1>2, <1>3, <1>4 DEF IsWrite, MoveOp

\* What the engine runs, and what else the step leaves alone.
LEMMA RunStep ==
    ASSUME PortInv, NEW c \in Clients, RunWrite(c),
           NEW op, op = call[c].op, NEW arg, arg = DecodeArgument(call[c].op, call[c].dto)
    PROVE  /\ IsStore(db) /\ IsWrite(op) /\ IsArgument(op, arg)
           /\ db' = Perform(db, op, arg).db
           /\ call'[c].phase = Perform(db, op, arg).result /\ call'[c].op = op /\ call'[c].dto = call[c].dto
           /\ op \in StagingOps \cup {MoveOp} => call[c].dto = Encode(op, arg)
           /\ call[c].phase = "sent" /\ call'[c].phase # "sent"
           /\ \A e \in Clients \ {c} : call'[e] = call[e]
           /\ started' = started /\ issued' = issued
<1>1. call[c].phase = "sent" /\ call[c].op \notin ReadOps
  BY DEF RunWrite, ReadOps
<1>2. IsWrite(op) /\ IsArgument(op, arg) /\ GoodWrite(call[c])
  BY <1>1, SentWrite
<1>3. op \in StagingOps \cup {MoveOp} => call[c].dto = Encode(op, arg)
  BY <1>2 DEF GoodWrite
<1>4. /\ db' = Perform(db, op, arg).db /\ call' = [call EXCEPT ![c].phase = Perform(db, op, arg).result]
      /\ started' = started /\ issued' = issued
  BY Zenon DEF RunWrite, Execute
<1> DEFINE phase == Perform(db, op, arg).result
<1>5. phase \in {"ok", "conflict", "unexpected"}
  BY <1>2, OutcomeResults
<1> HIDE DEF phase
<1>6. /\ call'[c].phase = phase /\ call'[c].op = op /\ call'[c].dto = call[c].dto
      /\ \A e \in Clients \ {c} : call'[e] = call[e]
  BY <1>4 DEF PortInv, GoodCall, phase
<1> QED
  BY <1>1, <1>2, <1>3, <1>4, <1>5, <1>6 DEF PortInv, phase

\* A write that is refused, or moves no row, keeps the starts as they were.
LEMMA IdleRunKeepsStarts ==
    ASSUME PortInv, StartInv, NEW c \in Clients, RunWrite(c), ~Starting(call'[c]),
           \A k \in DOMAIN db'.mutations : k \in DOMAIN db.mutations /\ db'.mutations[k] = db.mutations[k]
    PROVE  StartInv'
<1>1. /\ call'[c].phase # "sent" /\ \A e \in Clients \ {c} : call'[e] = call[e]
      /\ started' = started /\ issued' = issued
  BY RunStep
<1>2. \A x : IsStart(x)' => IsStart(x)
  BY <1>1 DEF IsStart
<1>3. \A e \in Clients : Staging(call'[e]) => call'[e] = call[e]
  BY <1>1 DEF Staging
<1> QED
  BY <1>1, <1>2, <1>3, QuietKeepsStarts

\* A mutation is staged: nobody has started one with its id.
LEMMA StageKeepsStarts ==
    ASSUME PortInv, StartInv, NEW c \in Clients, RunWrite(c), call[c].op \in StagingOps PROVE StartInv'
<1> DEFINE op == call[c].op
           arg == DecodeArgument(call[c].op, call[c].dto)
           o == Perform(db, op, arg)
           place == MutationKey(arg)
           id == arg.mutationId
<1>1. /\ IsStore(db) /\ IsArgument(op, arg)
      /\ db' = o.db
      /\ call[c].dto = Encode(op, arg)
      /\ call[c].phase = "sent" /\ call'[c].phase # "sent" /\ call'[c].op = op
      /\ \A e \in Clients \ {c} : call'[e] = call[e]
      /\ started' = started /\ issued' = issued
  BY RunStep
<1>2. ~Starting(call'[c])
  BY <1>1 DEF Starting, MoveOp, StagingOps
<1>3. CASE o = Conflict(db)
  <2>1. db' = db
    BY <1>1, <1>3, ConflictEffect, Zenon
  <2> QED
    BY <1>2, <2>1, IdleRunKeepsStarts
<1>4. CASE o # Conflict(db)
  <2>1. db'.mutations = With(db.mutations, Entry(place, arg))
    <3>0. op \in StagingOps
      OBVIOUS
    <3> HIDE DEF op, arg
    <3>1. o.db.mutations = Staged(db, arg)
      BY <1>1, <1>4, <3>0, StageEffect
    <3>2. Staged(db, arg) = With(db.mutations, Entry(place, arg))
      BY Zenon DEF Staged
    <3> QED
      BY <1>1, <3>1, <3>2, Zenon
  <2>2. Added(db.mutations, db'.mutations, place, arg)
    BY <2>1, WithEntry, Zenon
  <2>3. arg \in PendingMutations /\ id = call[c].dto.mutationId
    BY <1>1, StagingId
  <2>4. Staging(call[c])
    BY <1>1 DEF Staging
  <2>5. /\ id \in issued
        /\ \A k \in DOMAIN db.mutations : db.mutations[k].mutationId # id
        /\ \A d \in Clients : Staging(call[d]) /\ call[d].dto.mutationId = id => d = c
        /\ \A x : IsStart(x) => x[2] # id
    BY <2>3, <2>4 DEF StartInv
  <2>6. \A x : IsStart(x)' => IsStart(x)
    BY <1>1, <1>2 DEF IsStart
  <2> HIDE DEF op, o, place
  <2>7. \A k \in DOMAIN db'.mutations :
           \/ k = place /\ db'.mutations[k].mutationId = id
           \/ k # place /\ k \in DOMAIN db.mutations /\ db'.mutations[k] = db.mutations[k]
    BY <2>2 DEF Added
  <2> HIDE DEF arg, id
  <2>8. /\ \A k \in DOMAIN db'.mutations : db'.mutations[k].mutationId \in issued'
        /\ \A j, k \in DOMAIN db'.mutations : db'.mutations[j].mutationId = db'.mutations[k].mutationId => j = k
    BY <1>1, <2>5, <2>7 DEF StartInv
  <2>9. ASSUME NEW e \in Clients, Staging(call'[e]), NEW i, i = call'[e].dto.mutationId
        PROVE  /\ i \in issued'
               /\ \A k \in DOMAIN db'.mutations : db'.mutations[k].mutationId # i
               /\ \A f \in Clients : Staging(call'[f]) /\ call'[f].dto.mutationId = i => f = e
               /\ \A x : IsStart(x)' => x[2] # i
    <3>1. e # c /\ call'[e] = call[e] /\ Staging(call[e]) /\ i = call[e].dto.mutationId
      BY <2>9, <1>1 DEF Staging
    <3>2. /\ i \in issued
          /\ \A k \in DOMAIN db.mutations : db.mutations[k].mutationId # i
          /\ \A f \in Clients : Staging(call[f]) /\ call[f].dto.mutationId = i => f = e
          /\ \A x : IsStart(x) => x[2] # i
      BY <3>1 DEF StartInv
    <3>3. i # id
      BY <2>5, <3>1
    <3>4. \A f \in Clients : Staging(call'[f]) => call'[f] = call[f]
      BY <1>1 DEF Staging
    <3> QED
      BY <1>1, <2>6, <2>7, <3>2, <3>3, <3>4
  <2>10. ASSUME NEW x, IsStart(x)'
         PROVE  /\ x[2] \in issued' /\ x[3] \in Nat
                /\ \A k \in DOMAIN db'.mutations :
                      db'.mutations[k].mutationId = x[2] => db'.mutations[k].lifecycle.attemptCount >= x[3]
    <3>1. /\ x[2] \in issued /\ x[3] \in Nat /\ x[2] # id
          /\ \A k \in DOMAIN db.mutations :
                db.mutations[k].mutationId = x[2] => db.mutations[k].lifecycle.attemptCount >= x[3]
      BY <2>5, <2>6, <2>10 DEF StartInv
    <3> QED
      BY <1>1, <2>7, <3>1
  <2>11. \A x, y : IsStart(x)' /\ IsStart(y)' /\ x[2] = y[2] /\ x[3] = y[3] => x[1] = y[1]
    BY <2>6 DEF StartInv
  <2> QED
    BY <2>8, <2>9, <2>10, <2>11 DEF StartInv
<1> QED
  BY <1>3, <1>4

\* The attempt counts of a step of the lifecycle.
LEMMA TransitionCounts ==
    ASSUME NEW v \in PendingMutations, NEW w \in PendingMutations, ValidTransition(v.lifecycle, w.lifecycle)
    PROVE  /\ v.lifecycle.attemptCount \in Nat /\ w.lifecycle.attemptCount \in Nat
           /\ w.lifecycle.attemptCount >= v.lifecycle.attemptCount
           /\ w.lifecycle.status = "inFlight" => w.lifecycle.attemptCount > v.lifecycle.attemptCount
<1>1. \A l \in SendLifecycles \cup UpdateLifecycles : l.attemptCount \in Nat /\ (l.status = "pending" => l.attemptCount = 0)
  BY DEF SendLifecycles, UpdateLifecycles, OpenLifecycles, PendingLifecycle, Attempts
<1>2. v.lifecycle \in SendLifecycles \cup UpdateLifecycles /\ w.lifecycle \in SendLifecycles \cup UpdateLifecycles
  BY MutationFields
<1> QED
  BY <1>1, <1>2 DEF ValidTransition

\* A row is moved on: a start gets a number that no earlier start of the mutation has.
LEMMA MoveKeepsStarts ==
    ASSUME PortInv, StartInv, NEW c \in Clients, RunWrite(c), call[c].op = MoveOp PROVE StartInv'
<1> DEFINE op == call[c].op
           arg == DecodeArgument(call[c].op, call[c].dto)
           v == arg.expected
           w == arg.next
           o == ReplacePendingMutationIfCurrent(db, v, w)
           place == MutationKey(v)
           id == v.mutationId
           n == w.lifecycle.attemptCount
<1>1. /\ IsStore(db) /\ IsArgument(op, arg)
      /\ db' = Perform(db, op, arg).db
      /\ call'[c].phase = Perform(db, op, arg).result /\ call'[c].op = op /\ call'[c].dto = call[c].dto
      /\ call[c].dto = Encode(op, arg)
      /\ call'[c].phase # "sent"
      /\ \A e \in Clients \ {c} : call'[e] = call[e]
      /\ started' = started /\ issued' = issued
  BY RunStep
<1>2. v \in PendingMutations /\ w \in PendingMutations
  BY <1>1 DEF IsArgument, StagingOps, MoveOp
<1>3. Perform(db, op, arg) = o
  BY DEF Perform, MoveOp
<1>4. call[c].dto.next = EncodePendingMutation(w)
  BY <1>1 DEF Encode, StagingOps, MoveOp
<1>5. CASE o = Conflict(db)
  <2>1. db' = db /\ call'[c].phase = "conflict"
    <3>1. Perform(db, op, arg) = Conflict(db)
      BY <1>3, <1>5, Zenon
    <3> HIDE DEF op, arg
    <3> QED
      BY <1>1, <3>1 DEF Conflict
  <2>2. ~Starting(call'[c])
    BY <2>1 DEF Starting
  <2> QED
    BY <2>1, <2>2, IdleRunKeepsStarts
<1>6. CASE o # Conflict(db)
  <2>1. /\ place \in DOMAIN db.mutations /\ db.mutations[place] = v
        /\ MutationKey(w) = MutationKey(v) /\ ValidTransition(v.lifecycle, w.lifecycle)
        /\ o.db.mutations = [db.mutations EXCEPT ![place] = w]
    BY <1>1, <1>2, <1>6, ReplaceEffect
  <2>2. db'.mutations = [db.mutations EXCEPT ![place] = w]
    BY <1>1, <1>3, <2>1, Zenon
  <2>3. w.mutationId = id
    BY <2>1 DEF MutationKey
  <2>4. /\ call[c].dto.next.mutationId = id
        /\ call[c].dto.next.lifecycle.status = w.lifecycle.status
        /\ call[c].dto.next.lifecycle.attemptCount = n
    BY <1>2, <1>4, <2>3, MutationEncoded
  <2>5. /\ v.lifecycle.attemptCount \in Nat /\ n \in Nat /\ n >= v.lifecycle.attemptCount
        /\ w.lifecycle.status = "inFlight" => n > v.lifecycle.attemptCount
    BY <1>2, <2>1, TransitionCounts
  <2>6. \A x : IsStart(x)' => IsStart(x) \/ (w.lifecycle.status = "inFlight" /\ x = <<c, id, n>>)
    <3>1. Start(c, call'[c]) = <<c, id, n>>
      BY <1>1, <2>4 DEF Start
    <3>2. Starting(call'[c]) => w.lifecycle.status = "inFlight"
      BY <1>1, <2>4 DEF Starting, StartsAttempt
    <3> QED
      BY <1>1, <3>1, <3>2 DEF IsStart
  <2> DEFINE m == v.lifecycle.attemptCount
             starts == w.lifecycle.status = "inFlight"
  <2>7. \A k \in DOMAIN db'.mutations :
           /\ k \in DOMAIN db.mutations
           /\ db'.mutations[k].mutationId = db.mutations[k].mutationId
           /\ k # place => db'.mutations[k] = db.mutations[k]
           /\ k = place => db'.mutations[k].lifecycle.attemptCount = n
    BY <2>1, <2>2, <2>3
  <2>8. db.mutations[place].mutationId = id /\ db.mutations[place].lifecycle.attemptCount = m /\ place \in DOMAIN db.mutations
    BY <2>1
  <2> HIDE DEF op, arg, v, w, o, place, id, n, m, starts
  <2>9. id \in issued /\ \A k \in DOMAIN db.mutations : db.mutations[k].mutationId = id => k = place
    BY <2>8 DEF StartInv
  <2>10. \A x : IsStart(x) /\ x[2] = id => x[3] \in Nat /\ m >= x[3]
    BY <2>8 DEF StartInv
  <2>11. m \in Nat /\ n \in Nat /\ n >= m /\ (starts => n > m)
    BY <2>5 DEF m, starts
  <2>12. \A x : IsStart(x)' => IsStart(x) \/ (starts /\ x[1] = c /\ x[2] = id /\ x[3] = n)
    BY <2>6 DEF starts
  <2>13. /\ \A k \in DOMAIN db'.mutations : db'.mutations[k].mutationId \in issued'
         /\ \A j, k \in DOMAIN db'.mutations : db'.mutations[j].mutationId = db'.mutations[k].mutationId => j = k
    BY <1>1, <2>7 DEF StartInv
  <2>14. ASSUME NEW e \in Clients, Staging(call'[e]), NEW i, i = call'[e].dto.mutationId
         PROVE  /\ i \in issued'
                /\ \A k \in DOMAIN db'.mutations : db'.mutations[k].mutationId # i
                /\ \A f \in Clients : Staging(call'[f]) /\ call'[f].dto.mutationId = i => f = e
                /\ \A x : IsStart(x)' => x[2] # i
    <3>1. e # c /\ call'[e] = call[e] /\ Staging(call[e]) /\ i = call[e].dto.mutationId
      BY <2>14, <1>1 DEF Staging
    <3>2. /\ i \in issued
          /\ \A k \in DOMAIN db.mutations : db.mutations[k].mutationId # i
          /\ \A f \in Clients : Staging(call[f]) /\ call[f].dto.mutationId = i => f = e
          /\ \A x : IsStart(x) => x[2] # i
      BY <3>1 DEF StartInv
    <3>3. i # id
      BY <2>8, <3>2
    <3>4. \A f \in Clients : Staging(call'[f]) => call'[f] = call[f]
      BY <1>1 DEF Staging
    <3> QED
      BY <1>1, <2>7, <2>12, <3>2, <3>3, <3>4
  <2>15. ASSUME NEW x, IsStart(x)'
         PROVE  /\ x[2] \in issued' /\ x[3] \in Nat
                /\ \A k \in DOMAIN db'.mutations :
                      db'.mutations[k].mutationId = x[2] => db'.mutations[k].lifecycle.attemptCount >= x[3]
    <3>1. CASE IsStart(x)
      <4>1. /\ x[2] \in issued /\ x[3] \in Nat
            /\ \A k \in DOMAIN db.mutations :
                  db.mutations[k].mutationId = x[2] => db.mutations[k].lifecycle.attemptCount >= x[3]
        BY <3>1 DEF StartInv
      <4>2. x[2] = id => n >= x[3]
        BY <3>1, <2>10, <2>11
      <4> QED
        BY <1>1, <2>7, <2>8, <4>1, <4>2
    <3>2. CASE starts /\ x[1] = c /\ x[2] = id /\ x[3] = n
      BY <1>1, <2>7, <2>9, <2>11, <3>2
    <3> QED
      BY <2>12, <2>15, <3>1, <3>2
  <2>16. \A x, y : IsStart(x)' /\ IsStart(y)' /\ x[2] = y[2] /\ x[3] = y[3] => x[1] = y[1]
    <3>1. \A x : IsStart(x) /\ starts => ~(x[2] = id /\ x[3] = n)
      BY <2>10, <2>11
    <3>2. \A x, y : IsStart(x) /\ IsStart(y) /\ x[2] = y[2] /\ x[3] = y[3] => x[1] = y[1]
      BY DEF StartInv
    <3> QED
      BY <2>12, <3>1, <3>2
  <2> QED
    BY <2>13, <2>14, <2>15, <2>16 DEF StartInv
<1> QED
  BY <1>5, <1>6

\* The engine runs a write.
LEMMA RunWriteKeepsStarts == ASSUME PortInv, StartInv, NEW c \in Clients, RunWrite(c) PROVE StartInv'
<1> DEFINE op == call[c].op
           arg == DecodeArgument(call[c].op, call[c].dto)
<1>1. CASE op \in StagingOps
  BY <1>1, StageKeepsStarts
<1>2. CASE op = MoveOp
  BY <1>2, MoveKeepsStarts
<1>3. CASE op \notin StagingOps \cup {MoveOp}
  <2>1. /\ IsStore(db) /\ IsWrite(op) /\ IsArgument(op, arg)
        /\ db' = Perform(db, op, arg).db /\ call'[c].op = op
    BY RunStep
  <2>2. ~Starting(call'[c])
    BY <1>3, <2>1 DEF Starting
  <2>3. CASE op = "removeConfirmedMutation"
    <3>1. db' = RemoveConfirmedMutation(db, arg).db
      BY <2>1, <2>3 DEF Perform
    <3> HIDE DEF op, arg
    <3> DEFINE o == RemoveConfirmedMutation(db, arg)
    <3>r. \/ o = Conflict(db)
          \/ o.db.mutations = Without(db.mutations, {arg})
      BY <2>1, RemoveEffect
    <3> HIDE DEF o
    <3>2. db' = db \/ db'.mutations = Without(db.mutations, {arg})
      BY <3>1, <3>r, ConflictEffect DEF o
    <3>3. \A k \in DOMAIN db'.mutations : k \in DOMAIN db.mutations /\ db'.mutations[k] = db.mutations[k]
      BY <3>2 DEF Without
    <3> QED
      BY <2>2, <3>3, IdleRunKeepsStarts
  <2>4. CASE op # "removeConfirmedMutation"
    <3> HIDE DEF op, arg
    <3>1. Perform(db, op, arg).db.mutations = db.mutations
      BY <1>3, <2>1, <2>4, OthersKeepRows
    <3>2. db'.mutations = db.mutations
      BY <2>1, <3>1, Zenon
    <3> QED
      BY <2>2, <3>2, IdleRunKeepsStarts
  <2> QED
    BY <2>3, <2>4
<1> QED
  BY <1>1, <1>2, <1>3

\* Of the clients that read the same mutation at most one is told that it started an attempt
\* (replacePendingMutationIfCurrent), whatever answers get lost and however often it is tried.
THEOREM OneStarterPerAttemptHolds == EngineSpec => []OneStarterPerAttempt
<1>1. EngineInit => StartInv
  BY StartInit
<1>2. PortInv /\ StartInv /\ [EngineNext]_engineVars => StartInv'
  <2> SUFFICES ASSUME PortInv, StartInv, [EngineNext]_engineVars PROVE StartInv'
    OBVIOUS
  <2>1. CASE EngineNext
    BY <2>1, WriteKeepsStarts, OtherSendKeepsStarts, RunWriteKeepsStarts, RunReadKeepsStarts, ReturnsKeepsStarts
       DEF EngineNext
  <2>2. CASE UNCHANGED engineVars
    <3>1. \A x : IsStart(x)' => IsStart(x)
      BY <2>2 DEF engineVars, IsStart
    <3> QED
      BY <2>2, <3>1, QuietKeepsStarts DEF engineVars
  <2> QED
    BY <2>1, <2>2
<1>3. StartInv => OneStarterPerAttempt
  BY DEF StartInv, IsStart, OneStarterPerAttempt
<1> QED
  BY <1>1, <1>2, <1>3, PortsHold, PTL DEF EngineSpec

-----------------------------------------------------------------------------
(* The controller: the inductive invariant of its stores and its tasks. *)

Owners == {"initialize", "retry", "flush", "user", "body"}
ReadingAts == {"accounts", "mailboxes", "view", "emails", "body", "statuses", "materialize", "subscribe"}
WindowAts == {"view", "emails"}
TaskFields == {"owner", "at", "key", "fresh", "phase", "res", "view", "then"}

\* A list of frames that do what D allows.
Frames(q, D) == \E T : q \in Seq(T) /\ \A f \in T : f.do \in D
PlainFrames == {"statuses", "demand", "ready"}

\* The ids a view lists.
Listed(views) == UNION {{v.items[k].emailId : k \in DOMAIN v.items} : v \in views}

\* What a read that task t awaits may be answered with.
GoodAnswer(t, r) ==
    CASE t.at = "mailboxes" ->
            /\ r.kind \in {"present", "ownerAbsent", "failed"}
            /\ r.kind = "present" => \A m \in r.value : m \in ToSet(MailboxOrder) /\ m.accountKey = t.key.accountKey
      [] t.at = "view" ->
            /\ r.kind \in {"present", "absent", "ownerAbsent", "failed"}
            /\ r.kind = "present" => r.value.mailboxId = t.key
      [] t.at = "emails" ->
            r.kind \in {"present", "failed"} /\ (r.kind = "present" => DOMAIN r.value \subseteq Listed(t.view))
      [] OTHER -> TRUE

\* The attempt on Email e is this task's: it fetches the body, or rereads it afterwards.
Carries(t, e) ==
    /\ t.owner = "body"
    /\ \/ t.at = "materialize" /\ t.key = e /\ t.then = <<>>
       \/ t.at \in {"body", "return"} /\ t.then = <<Frame("reread", e)>>

GoodTask(t) ==
    /\ DOMAIN t = TaskFields
    /\ t.owner \in Owners
    /\ t.at \in ReadingAts \cup {"return"}
    /\ t.phase \in {"asked", "fetching", "answered", "run"}
    /\ (t.phase = "run" <=> t.at = "return") /\ (t.phase = "fetching" => t.at = "materialize")
    /\ t.at = "return" => t.then # <<>>
    /\ t.at = "emails" => \A v \in t.view : v.mailboxId = t.key
    /\ t.phase = "answered" => GoodAnswer(t, t.res)
    /\ IF t.owner = "body" THEN \E e : Carries(t, e) ELSE t.at # "materialize" /\ Frames(t.then, PlainFrames)

Shown(s) ==
    /\ \A m \in s.mailboxes : m.accountKey = s.account
    /\ s.mailbox # NoId => s.mailbox.accountKey = s.account
    /\ \A v \in s.view : v.mailboxId = s.mailbox
    /\ DOMAIN s.emails \subseteq Listed(s.view)
    /\ s.bodyState = "cached" => s.body = s.email

\* Every attempt in the map is carried by its task; a spinner has an attempt behind it.
Attempted(s, S) ==
    /\ \A x \in s.attempts : x[2] \in DOMAIN s.tasks /\ s.tasks[x[2]].owner = "body"
    /\ \A x \in s.attempts : x[2] \in S => Carries(s.tasks[x[2]], x[1])
    /\ s.materializing /\ ~s.disposed => \E x \in s.attempts : x[1] = s.email

\* A list that loads is awaited by a call that is current, and so is a body that loads.
WindowServed(s, S) ==
    s.loadState = "loading" =>
        s.mailbox # NoId /\ \E j \in S : s.tasks[j].at \in WindowAts /\ s.tasks[j].fresh /\ s.tasks[j].key = s.mailbox
BodyServed(s, S) ==
    s.bodyState = "loading" =>
        s.email # NoId /\ \E j \in S : s.tasks[j].at = "body" /\ s.tasks[j].fresh /\ s.tasks[j].key = s.email

AppFields == {"accounts", "account", "mailbox", "email", "loadState", "mailboxes", "view", "emails", "body",
              "bodyState", "materializing", "bodyError", "statuses", "local", "subscribed", "disposed",
              "attempts", "tasks", "missed"}
Shape(s) == DOMAIN s = AppFields /\ IsFiniteSet(DOMAIN s.tasks)

GoodApp(s) ==
    /\ Shape(s) /\ Shown(s)
    /\ \A j \in DOMAIN s.tasks : GoodTask(s.tasks[j])
    /\ Attempted(s, DOMAIN s.tasks) /\ WindowServed(s, DOMAIN s.tasks) /\ BodyServed(s, DOMAIN s.tasks)

\* The invariant while task i runs, on behalf of the attempt on e if it is one's.
Others(s, i) == DOMAIN s.tasks \ {i}

Running(s, i, e) ==
    /\ Shape(s) /\ Shown(s)
    /\ i \in DOMAIN s.tasks /\ DOMAIN s.tasks[i] = TaskFields /\ s.tasks[i].owner \in Owners
    /\ IF s.tasks[i].owner = "body"
       THEN s.tasks[i].then \in {<<>>, <<Frame("reread", e)>>}
       ELSE Frames(s.tasks[i].then, PlainFrames)
    /\ \A j \in Others(s, i) : GoodTask(s.tasks[j])
    /\ Attempted(s, Others(s, i))
    /\ \A x \in s.attempts : x[2] = i => x[1] = e

ViewInv ==
    /\ IsStore(db) /\ db.mailboxes \subseteq ToSet(MailboxOrder)
    /\ GoodApp(app)

\* Frames are pushed and popped.
LEMMA NoFrames == \A D : Frames(<<>>, D)
<1> TAKE D
<1> DEFINE T == {}
<1>1. <<>> \in Seq(T) /\ \A f \in T : f.do \in D
  OBVIOUS
<1> HIDE DEF T
<1> QED
  BY <1>1 DEF Frames

\* Pushing an allowed frame leaves a list of allowed frames.
LEMMA PushFrame == \A q, D, f : Frames(q, D) /\ f.do \in D => Frames(<<f>> \o q, D)
<1> TAKE q, D, f
<1> HAVE Frames(q, D) /\ f.do \in D
<1>1. PICK T : q \in Seq(T) /\ \A g \in T : g.do \in D
  BY DEF Frames
<1> DEFINE U == T \cup {f}
<1>2. q \in Seq(U)
  BY <1>1
<1>3. <<f>> \in Seq(U)
  OBVIOUS
<1>4. <<f>> \o q \in Seq(U) /\ \A g \in U : g.do \in D
  BY <1>1, <1>2, <1>3
<1> QED
  BY <1>4 DEF Frames

\* So does popping one, and the frame popped is an allowed one.
LEMMA PopFrame == \A q, D : Frames(q, D) /\ q # <<>> => Frames(Tail(q), D) /\ Head(q).do \in D
<1> TAKE q, D
<1> HAVE Frames(q, D) /\ q # <<>>
<1>1. PICK T : q \in Seq(T) /\ \A g \in T : g.do \in D
  BY DEF Frames
<1>2. Tail(q) \in Seq(T) /\ Head(q) \in T
  BY <1>1
<1> QED
  BY <1>1, <1>2 DEF Frames

\* A list on which a frame was pushed is not empty.
LEMMA PushIsNotEmpty == \A q, D, f : Frames(q, D) => <<f>> \o q # <<>>
<1> TAKE q, D, f
<1> HAVE Frames(q, D)
<1>1. PICK T : q \in Seq(T)
  BY DEF Frames
<1>2. q \in Seq(T \cup {f}) /\ <<f>> \in Seq(T \cup {f})
  BY <1>1
<1> QED
  BY <1>2

\* The task number that is handed out is free.
LEMMA NextTaskIsFree == \A s : Shape(s) => NextTask(s) \notin DOMAIN s.tasks
<1> TAKE s
<1> HAVE Shape(s)
<1> DEFINE D == DOMAIN s.tasks
           n == Cardinality(D)
           I == 1..(n + 1)
<1>1. IsFiniteSet(D) /\ n \in Nat
  BY FS_CardinalityType DEF Shape
<1>2. IsFiniteSet(I) /\ Cardinality(I) = n + 1
  BY <1>1, FS_Interval
<1>3. ~(I \subseteq D)
  <2> SUFFICES ASSUME I \subseteq D PROVE FALSE
    OBVIOUS
  <2>1. Cardinality(I) <= Cardinality(D)
    BY <1>1, FS_Subset
  <2> QED
    BY <1>1, <1>2, <2>1
<1>4. \E i \in I : i \notin D
  BY <1>3
<1> QED
  BY <1>4 DEF NextTask

\* A task whose generation alone was superseded is the same task.
Outdated(a, b) == DOMAIN b = TaskFields /\ \A f \in TaskFields \ {"fresh"} : b[f] = a[f]

\* It stays a good task, and carries the attempts it carried.
LEMMA OutdatedIsGood ==
    \A a, b : GoodTask(a) /\ Outdated(a, b) => GoodTask(b) /\ \A e : Carries(a, e) => Carries(b, e)
<1> TAKE a, b
<1> HAVE GoodTask(a) /\ Outdated(a, b)
<1>1. /\ b.owner = a.owner /\ b.at = a.at /\ b.key = a.key /\ b.phase = a.phase /\ b.res = a.res
      /\ b.view = a.view /\ b.then = a.then /\ DOMAIN b = TaskFields
  BY DEF Outdated, TaskFields
<1>2. \A e : Carries(a, e) => Carries(b, e)
  BY <1>1 DEF Carries
<1>3. a.phase = "answered" => GoodAnswer(b, b.res)
  BY <1>1 DEF GoodTask, GoodAnswer
<1> QED
  BY <1>1, <1>2, <1>3 DEF GoodTask

\* What Supersede does to a task.
LEMMA Superseded ==
    \A s, g : Shape(s) /\ (\A j \in DOMAIN s.tasks : DOMAIN s.tasks[j] = TaskFields) =>
        LET t == Supersede(s, g) IN
        /\ DOMAIN t = AppFields /\ DOMAIN t.tasks = DOMAIN s.tasks
        /\ \A f \in AppFields \ {"tasks"} : t[f] = s[f]
        /\ \A j \in DOMAIN s.tasks : Outdated(s.tasks[j], t.tasks[j])
        /\ \A j \in DOMAIN s.tasks : Generation(s.tasks[j].at, s.tasks[j].key) # g => t.tasks[j] = s.tasks[j]
        /\ \A j \in DOMAIN s.tasks : Generation(s.tasks[j].at, s.tasks[j].key) = g => ~t.tasks[j].fresh
<1> TAKE s, g
<1> HAVE Shape(s) /\ (\A j \in DOMAIN s.tasks : DOMAIN s.tasks[j] = TaskFields)
<1> DEFINE t == Supersede(s, g)
           tasks == [j \in DOMAIN s.tasks |->
                        IF Generation(s.tasks[j].at, s.tasks[j].key) = g
                        THEN [s.tasks[j] EXCEPT !.fresh = FALSE]
                        ELSE s.tasks[j]]
<1>1. t = [s EXCEPT !.tasks = tasks]
  BY DEF Supersede
<1>2. /\ DOMAIN tasks = DOMAIN s.tasks
      /\ \A j \in DOMAIN s.tasks : Outdated(s.tasks[j], tasks[j])
      /\ \A j \in DOMAIN s.tasks : Generation(s.tasks[j].at, s.tasks[j].key) # g => tasks[j] = s.tasks[j]
      /\ \A j \in DOMAIN s.tasks : Generation(s.tasks[j].at, s.tasks[j].key) = g => ~tasks[j].fresh
  BY DEF Outdated, TaskFields
<1> HIDE DEF tasks
<1>3. DOMAIN t = AppFields /\ t.tasks = tasks /\ \A f \in AppFields \ {"tasks"} : t[f] = s[f]
  BY <1>1 DEF Shape, AppFields
<1> HIDE DEF t
<1>4. /\ DOMAIN t = AppFields /\ DOMAIN t.tasks = DOMAIN s.tasks
      /\ \A f \in AppFields \ {"tasks"} : t[f] = s[f]
      /\ \A j \in DOMAIN s.tasks : Outdated(s.tasks[j], t.tasks[j])
      /\ \A j \in DOMAIN s.tasks : Generation(s.tasks[j].at, s.tasks[j].key) # g => t.tasks[j] = s.tasks[j]
      /\ \A j \in DOMAIN s.tasks : Generation(s.tasks[j].at, s.tasks[j].key) = g => ~t.tasks[j].fresh
  BY <1>2, <1>3
<1> QED
  BY <1>4, Zenon DEF t

\* The generations of the window and of the body guard their own reads only.
LEMMA Generations ==
    \A at \in ReadingAts \cup {"run", "return"} : \A key :
        /\ at \in WindowAts => Generation(at, key) = Window
        /\ at = "body" => Generation(at, key) = <<"body", None>>
        /\ at \notin WindowAts => Generation(at, key) # Window
        /\ at # "body" => Generation(at, key) # <<"body", None>>
BY DEF Generation, Window, WindowAts, ReadingAts

\* The tasks of a state in which one runs.
LEMMA RunningTasks ==
    \A s, i, e : Running(s, i, e) => Shape(s) /\ i \in DOMAIN s.tasks /\ \A j \in DOMAIN s.tasks : DOMAIN s.tasks[j] = TaskFields
BY DEF Running, GoodTask, Others

\* When the running task has ended.
LEMMA EndedIsGood ==
    \A s, i, e :
        /\ Running(s, i, e) /\ WindowServed(s, Others(s, i)) /\ BodyServed(s, Others(s, i))
        /\ \/ s.tasks[i].owner # "body"
           \/ ~(s.materializing /\ ~s.disposed /\ s.email = e)
        => GoodApp(End(s, i))
<1> TAKE s, i, e
<1> HAVE /\ Running(s, i, e) /\ WindowServed(s, Others(s, i)) /\ BodyServed(s, Others(s, i))
         /\ \/ s.tasks[i].owner # "body"
            \/ ~(s.materializing /\ ~s.disposed /\ s.email = e)
<1> DEFINE t == End(s, i)
<1>1. DOMAIN s = AppFields
  BY DEF Running, Shape
<1>2. /\ DOMAIN t = AppFields /\ \A f \in AppFields \ {"tasks", "attempts"} : t[f] = s[f]
      /\ t.tasks = Without(s.tasks, {i}) /\ t.attempts = {x \in s.attempts : x[2] # i}
  BY <1>1 DEF End, AppFields
<1>3. DOMAIN t.tasks = Others(s, i) /\ \A j \in Others(s, i) : t.tasks[j] = s.tasks[j]
  BY <1>2 DEF Without, Others
<1> HIDE DEF t
<1>4. Shape(t)
  <2>1. IsFiniteSet(DOMAIN s.tasks)
    BY DEF Running, Shape
  <2>2. IsFiniteSet(DOMAIN t.tasks)
    BY <1>3, <2>1, FS_Subset DEF Others
  <2> QED
    BY <1>2, <2>2 DEF Shape
<1>5. Shown(t)
  BY <1>2 DEF Running, Shown, AppFields
<1>6. \A j \in DOMAIN t.tasks : GoodTask(t.tasks[j])
  BY <1>3 DEF Running
<1>7. Attempted(t, DOMAIN t.tasks)
  <2>1. \A x \in t.attempts : x \in s.attempts /\ x[2] # i
    BY <1>2
  <2>2. \A x \in t.attempts : x[2] \in DOMAIN t.tasks /\ t.tasks[x[2]].owner = "body" /\ Carries(t.tasks[x[2]], x[1])
    BY <1>3, <2>1 DEF Running, Attempted, Others
  <2>3. ASSUME t.materializing /\ ~t.disposed PROVE \E x \in t.attempts : x[1] = t.email
    <3>1. s.materializing /\ ~s.disposed /\ t.email = s.email
      BY <1>2, <2>3 DEF AppFields
    <3>2. PICK x \in s.attempts : x[1] = s.email
      BY <3>1 DEF Running, Attempted
    <3>3. x[2] # i
      BY <3>1, <3>2 DEF Running, Attempted
    <3> QED
      BY <1>2, <3>1, <3>2, <3>3
  <2> QED
    BY <2>2, <2>3 DEF Attempted
<1>8. WindowServed(t, DOMAIN t.tasks)
  BY <1>2, <1>3 DEF WindowServed, AppFields
<1>9. BodyServed(t, DOMAIN t.tasks)
  BY <1>2, <1>3 DEF BodyServed, AppFields
<1>10. GoodApp(t)
  BY <1>4, <1>5, <1>6, <1>7, <1>8, <1>9 DEF GoodApp
<1> QED
  BY <1>10 DEF t

\* When the running task waits again.
LEMMA SuspendedIsGood ==
    \A s, t, i, e :
        /\ Running(s, i, e) /\ SameExcept(s, t, {"tasks", "missed"}) /\ DOMAIN t.tasks = DOMAIN s.tasks
        /\ \A j \in Others(s, i) : Outdated(s.tasks[j], t.tasks[j])
        /\ GoodTask(t.tasks[i]) /\ t.tasks[i].owner = s.tasks[i].owner
        /\ s.tasks[i].owner = "body" => Carries(t.tasks[i], e)
        /\ WindowServed(t, DOMAIN t.tasks) /\ BodyServed(t, DOMAIN t.tasks)
        => GoodApp(t)
<1> TAKE s, t, i, e
<1> HAVE /\ Running(s, i, e) /\ SameExcept(s, t, {"tasks", "missed"}) /\ DOMAIN t.tasks = DOMAIN s.tasks
         /\ \A j \in Others(s, i) : Outdated(s.tasks[j], t.tasks[j])
         /\ GoodTask(t.tasks[i]) /\ t.tasks[i].owner = s.tasks[i].owner
         /\ s.tasks[i].owner = "body" => Carries(t.tasks[i], e)
         /\ WindowServed(t, DOMAIN t.tasks) /\ BodyServed(t, DOMAIN t.tasks)
<1>1. DOMAIN s = AppFields /\ DOMAIN t = AppFields /\ \A f \in AppFields \ {"tasks", "missed"} : t[f] = s[f]
  BY DEF Running, Shape, SameExcept
<1>2. Shape(t)
  BY <1>1 DEF Running, Shape
<1>3. Shown(t)
  BY <1>1 DEF Running, Shown, AppFields
<1>4. \A j \in Others(s, i) : GoodTask(s.tasks[j])
  BY DEF Running
<1>5. \A j \in DOMAIN t.tasks : GoodTask(t.tasks[j])
  BY <1>4, OutdatedIsGood DEF Others
<1>6. Attempted(t, DOMAIN t.tasks)
  <2>1. t.attempts = s.attempts /\ t.materializing = s.materializing /\ t.disposed = s.disposed /\ t.email = s.email
    BY <1>1 DEF AppFields
  <2>2. ASSUME NEW x \in t.attempts
        PROVE  x[2] \in DOMAIN t.tasks /\ t.tasks[x[2]].owner = "body" /\ Carries(t.tasks[x[2]], x[1])
    <3>1. x[2] \in DOMAIN s.tasks /\ s.tasks[x[2]].owner = "body"
      BY <2>1, <2>2 DEF Running, Attempted
    <3>2. CASE x[2] = i
      <4>1. x[1] = e
        BY <2>1, <2>2, <3>2 DEF Running
      <4> QED
        BY <3>1, <3>2, <4>1
    <3>3. CASE x[2] # i
      <4>1. x[2] \in Others(s, i)
        BY <3>1, <3>3 DEF Others
      <4>2. Carries(s.tasks[x[2]], x[1])
        BY <2>1, <4>1 DEF Running, Attempted
      <4>3. Carries(t.tasks[x[2]], x[1])
        BY <1>4, <4>1, <4>2, OutdatedIsGood
      <4> QED
        BY <3>1, <4>3 DEF Carries
    <3> QED
      BY <3>2, <3>3
  <2>3. s.materializing /\ ~s.disposed => \E x \in s.attempts : x[1] = s.email
    BY DEF Running, Attempted
  <2> QED
    BY <2>1, <2>2, <2>3 DEF Attempted
<1> QED
  BY <1>2, <1>3, <1>5, <1>6 DEF GoodApp

\* A task that did not change is an outdated one as well.
LEMMA SameIsOutdated == \A a, b : DOMAIN a = TaskFields /\ b = a => Outdated(a, b)
BY DEF Outdated

\* When an async function returns to the one that awaits it.
LEMMA FinishedIsGood ==
    \A s, i, e, value :
        /\ Running(s, i, e) /\ WindowServed(s, Others(s, i)) /\ BodyServed(s, Others(s, i))
        /\ s.tasks[i].owner = "body" => s.tasks[i].then # <<>>
        => GoodApp(Finish(s, i, value))
<1> TAKE s, i, e, value
<1> HAVE /\ Running(s, i, e) /\ WindowServed(s, Others(s, i)) /\ BodyServed(s, Others(s, i))
         /\ s.tasks[i].owner = "body" => s.tasks[i].then # <<>>
<1>1. CASE s.tasks[i].then = <<>>
  <2>1. Finish(s, i, value) = End(s, i)
    BY <1>1 DEF Finish
  <2>2. GoodApp(End(s, i))
    BY <1>1, EndedIsGood
  <2> QED
    BY <2>1, <2>2, Zenon
<1>2. CASE s.tasks[i].then # <<>>
  <2> DEFINE new == [s.tasks[i] EXCEPT !.at = "return", !.key = NoId, !.fresh = FALSE, !.phase = "run",
                                       !.res = value, !.view = {}]
             t == [s EXCEPT !.tasks[i] = new]
  <2>1. Finish(s, i, value) = t
    BY <1>2 DEF Finish
  <2>2. /\ Shape(s) /\ i \in DOMAIN s.tasks /\ \A j \in DOMAIN s.tasks : DOMAIN s.tasks[j] = TaskFields
    BY RunningTasks
  <2>3. /\ DOMAIN new = TaskFields /\ new.at = "return" /\ new.owner = s.tasks[i].owner /\ new.then = s.tasks[i].then
        /\ new.phase = "run"
    BY <2>2 DEF TaskFields
  <2> HIDE DEF new
  <2>4. /\ SameExcept(s, t, {"tasks"}) /\ DOMAIN t.tasks = DOMAIN s.tasks /\ t.tasks[i] = new
        /\ \A j \in Others(s, i) : t.tasks[j] = s.tasks[j]
        /\ t.loadState = s.loadState /\ t.mailbox = s.mailbox /\ t.bodyState = s.bodyState /\ t.email = s.email
    BY <2>2 DEF SameExcept, Shape, AppFields, Others
  <2> HIDE DEF t
  <2>5. \A j \in Others(s, i) : Outdated(s.tasks[j], t.tasks[j])
    BY <2>2, <2>4, SameIsOutdated DEF Others
  <2>6. s.tasks[i].owner = "body" => Carries(new, e)
    BY <1>2, <2>3 DEF Carries, Running
  <2>7. GoodTask(new)
    <3>1. new.owner = "body" => \E f : Carries(new, f)
      BY <2>3, <2>6
    <3>2. new.owner # "body" => Frames(new.then, PlainFrames)
      BY <2>3 DEF Running
    <3>3. new.owner \in Owners
      BY <2>3 DEF Running
    <3> QED
      BY <1>2, <2>3, <3>1, <3>2, <3>3 DEF GoodTask
  <2>8. Others(s, i) \subseteq DOMAIN t.tasks
    BY <2>4 DEF Others
  <2>9. WindowServed(t, DOMAIN t.tasks)
    BY <2>4, <2>8 DEF WindowServed
  <2>10. BodyServed(t, DOMAIN t.tasks)
    BY <2>4, <2>8 DEF BodyServed
  <2>11. SameExcept(s, t, {"tasks", "missed"})
    BY <2>4 DEF SameExcept
  <2>12. GoodApp(t)
    BY <2>3, <2>4, <2>5, <2>6, <2>7, <2>9, <2>10, <2>11, SuspendedIsGood
  <2> QED
    BY <2>1, <2>12
<1> QED
  BY <1>1, <1>2

\* What Await changes.
LEMMA AwaitEffects ==
    \A s, i, at, key :
        Shape(s) /\ i \in DOMAIN s.tasks /\ (\A j \in DOMAIN s.tasks : DOMAIN s.tasks[j] = TaskFields) =>
        LET t == Await(s, i, at, key) IN
        /\ SameExcept(s, t, {"tasks", "missed"}) /\ DOMAIN t.tasks = DOMAIN s.tasks
        /\ t.missed = s.missed \ {<<at, key.accountKey>>}
        /\ \A j \in Others(s, i) : Outdated(s.tasks[j], t.tasks[j])
        /\ \A j \in Others(s, i) :
              Generation(s.tasks[j].at, s.tasks[j].key) # Generation(at, key) => t.tasks[j] = s.tasks[j]
        /\ \A j \in Others(s, i) :
              Generation(s.tasks[j].at, s.tasks[j].key) = Generation(at, key) => ~t.tasks[j].fresh
        /\ t.tasks[i].at = at /\ t.tasks[i].key = key /\ t.tasks[i].fresh /\ t.tasks[i].phase = "asked"
        /\ t.tasks[i].view = {} /\ t.tasks[i].owner = s.tasks[i].owner /\ t.tasks[i].then = s.tasks[i].then
        /\ DOMAIN t.tasks[i] = TaskFields
<1> TAKE s, i, at, key
<1> HAVE Shape(s) /\ i \in DOMAIN s.tasks /\ (\A j \in DOMAIN s.tasks : DOMAIN s.tasks[j] = TaskFields)
<1>0. /\ Shape(s) /\ i \in DOMAIN s.tasks /\ \A j \in DOMAIN s.tasks : DOMAIN s.tasks[j] = TaskFields
  OBVIOUS
<1> DEFINE g == Generation(at, key)
           u == Supersede(s, g)
           new == [u.tasks[i] EXCEPT !.at = at, !.key = key, !.fresh = TRUE, !.phase = "asked", !.res = None, !.view = {}]
           less == u.missed \ {<<at, key.accountKey>>}
           t == [u EXCEPT !.missed = less, !.tasks[i] = new]
<1>1. Await(s, i, at, key) = t
  BY DEF Await
<1>2. /\ DOMAIN u = AppFields /\ DOMAIN u.tasks = DOMAIN s.tasks
      /\ \A f \in AppFields \ {"tasks"} : u[f] = s[f]
      /\ \A j \in DOMAIN s.tasks : Outdated(s.tasks[j], u.tasks[j])
      /\ \A j \in DOMAIN s.tasks : Generation(s.tasks[j].at, s.tasks[j].key) # g => u.tasks[j] = s.tasks[j]
      /\ \A j \in DOMAIN s.tasks : Generation(s.tasks[j].at, s.tasks[j].key) = g => ~u.tasks[j].fresh
  BY <1>0, Superseded, Zenon
<1> HIDE DEF u, g
<1>3. /\ DOMAIN new = TaskFields /\ new.at = at /\ new.key = key /\ new.fresh /\ new.phase = "asked" /\ new.view = {}
      /\ new.owner = s.tasks[i].owner /\ new.then = s.tasks[i].then
  BY <1>0, <1>2 DEF Outdated, TaskFields
<1> HIDE DEF new
<1>6. less = s.missed \ {<<at, key.accountKey>>}
  BY <1>2 DEF AppFields
<1> HIDE DEF less
<1>4. /\ t.missed = less
      /\ SameExcept(s, t, {"tasks", "missed"}) /\ DOMAIN t.tasks = DOMAIN s.tasks /\ t.tasks[i] = new
      /\ \A j \in Others(s, i) : t.tasks[j] = u.tasks[j]
  BY <1>0, <1>2 DEF SameExcept, Shape, AppFields, Others
<1> HIDE DEF t
<1>5. /\ t.missed = s.missed \ {<<at, key.accountKey>>}
      /\ SameExcept(s, t, {"tasks", "missed"}) /\ DOMAIN t.tasks = DOMAIN s.tasks
      /\ \A j \in Others(s, i) : Outdated(s.tasks[j], t.tasks[j])
      /\ \A j \in Others(s, i) : Generation(s.tasks[j].at, s.tasks[j].key) # g => t.tasks[j] = s.tasks[j]
      /\ \A j \in Others(s, i) : Generation(s.tasks[j].at, s.tasks[j].key) = g => ~t.tasks[j].fresh
      /\ t.tasks[i].at = at /\ t.tasks[i].key = key /\ t.tasks[i].fresh /\ t.tasks[i].phase = "asked"
      /\ t.tasks[i].view = {} /\ t.tasks[i].owner = s.tasks[i].owner /\ t.tasks[i].then = s.tasks[i].then
      /\ DOMAIN t.tasks[i] = TaskFields
  BY <1>2, <1>3, <1>4, <1>6 DEF Others
<1> QED
  BY <1>1, <1>5, Zenon DEF g

\* What it changes in a state in which a task runs.
LEMMA Awaited ==
    \A s, i, e, at, key : Running(s, i, e) =>
        LET t == Await(s, i, at, key) IN
        /\ SameExcept(s, t, {"tasks", "missed"}) /\ DOMAIN t.tasks = DOMAIN s.tasks
        /\ t.missed = s.missed \ {<<at, key.accountKey>>}
        /\ \A j \in Others(s, i) : Outdated(s.tasks[j], t.tasks[j])
        /\ \A j \in Others(s, i) :
              Generation(s.tasks[j].at, s.tasks[j].key) # Generation(at, key) => t.tasks[j] = s.tasks[j]
        /\ t.tasks[i].at = at /\ t.tasks[i].key = key /\ t.tasks[i].fresh /\ t.tasks[i].phase = "asked"
        /\ t.tasks[i].view = {} /\ t.tasks[i].owner = s.tasks[i].owner /\ t.tasks[i].then = s.tasks[i].then
        /\ DOMAIN t.tasks[i] = TaskFields
<1> TAKE s, i, e, at, key
<1> HAVE Running(s, i, e)
<1>1. Shape(s) /\ i \in DOMAIN s.tasks /\ \A j \in DOMAIN s.tasks : DOMAIN s.tasks[j] = TaskFields
  BY RunningTasks
<1> DEFINE t == Await(s, i, at, key)
<1>2. /\ SameExcept(s, t, {"tasks", "missed"}) /\ DOMAIN t.tasks = DOMAIN s.tasks
      /\ t.missed = s.missed \ {<<at, key.accountKey>>}
      /\ \A j \in Others(s, i) : Outdated(s.tasks[j], t.tasks[j])
      /\ \A j \in Others(s, i) :
            Generation(s.tasks[j].at, s.tasks[j].key) # Generation(at, key) => t.tasks[j] = s.tasks[j]
      /\ t.tasks[i].at = at /\ t.tasks[i].key = key /\ t.tasks[i].fresh /\ t.tasks[i].phase = "asked"
      /\ t.tasks[i].view = {} /\ t.tasks[i].owner = s.tasks[i].owner /\ t.tasks[i].then = s.tasks[i].then
      /\ DOMAIN t.tasks[i] = TaskFields
  BY <1>1, AwaitEffects
<1> QED
  BY <1>2, Zenon

\* When the running task awaits a read.
LEMMA AwaitedIsGood ==
    \A s, i, e, key : \A at \in ReadingAts \ {"emails"} :
        /\ Running(s, i, e)
        /\ at = "materialize" \/ s.tasks[i].owner # "body" \/ (at = "body" /\ s.tasks[i].then # <<>>)
        /\ at = "materialize" => s.tasks[i].owner = "body" /\ s.tasks[i].then = <<>> /\ key = e
        /\ at = "view" => key = s.mailbox /\ key # NoId
        /\ at = "body" => key = s.email /\ key # NoId
        /\ at = "view" \/ WindowServed(s, Others(s, i))
        /\ at = "body" \/ BodyServed(s, Others(s, i))
        => GoodApp(Await(s, i, at, key))
<1> TAKE s, i, e, key
<1> TAKE at \in ReadingAts \ {"emails"}
<1> HAVE /\ Running(s, i, e)
         /\ at = "materialize" \/ s.tasks[i].owner # "body" \/ (at = "body" /\ s.tasks[i].then # <<>>)
         /\ at = "materialize" => s.tasks[i].owner = "body" /\ s.tasks[i].then = <<>> /\ key = e
         /\ at = "view" => key = s.mailbox /\ key # NoId
         /\ at = "body" => key = s.email /\ key # NoId
         /\ at = "view" \/ WindowServed(s, Others(s, i))
         /\ at = "body" \/ BodyServed(s, Others(s, i))
<1> DEFINE t == Await(s, i, at, key)
           g == Generation(at, key)
<1>1. /\ SameExcept(s, t, {"tasks", "missed"}) /\ DOMAIN t.tasks = DOMAIN s.tasks
      /\ \A j \in Others(s, i) : Outdated(s.tasks[j], t.tasks[j])
      /\ \A j \in Others(s, i) : Generation(s.tasks[j].at, s.tasks[j].key) # g => t.tasks[j] = s.tasks[j]
      /\ t.tasks[i].at = at /\ t.tasks[i].key = key /\ t.tasks[i].fresh /\ t.tasks[i].phase = "asked"
      /\ t.tasks[i].view = {} /\ t.tasks[i].owner = s.tasks[i].owner /\ t.tasks[i].then = s.tasks[i].then
      /\ DOMAIN t.tasks[i] = TaskFields
  BY Awaited
<1>2. /\ Shape(s) /\ i \in DOMAIN s.tasks
  BY RunningTasks
<1> HIDE DEF t
<1>3. /\ t.loadState = s.loadState /\ t.mailbox = s.mailbox /\ t.bodyState = s.bodyState /\ t.email = s.email
  BY <1>1, <1>2 DEF SameExcept, Shape, AppFields
<1>4. s.tasks[i].owner = "body" => Carries(t.tasks[i], e)
  BY <1>1 DEF Carries, Running
<1>5. GoodTask(t.tasks[i])
  <2>1. t.tasks[i].owner = "body" => \E f : Carries(t.tasks[i], f)
    BY <1>1, <1>4
  <2>2. t.tasks[i].owner # "body" => t.tasks[i].at # "materialize" /\ Frames(t.tasks[i].then, PlainFrames)
    BY <1>1 DEF Running
  <2>3. t.tasks[i].owner \in Owners
    BY <1>1 DEF Running
  <2> QED
    BY <1>1, <2>1, <2>2, <2>3 DEF GoodTask, ReadingAts
<1>6. \A j \in Others(s, i) : s.tasks[j].at \in ReadingAts \cup {"return"}
  BY DEF Running, GoodTask
<1>7. Others(s, i) \subseteq DOMAIN t.tasks /\ i \in DOMAIN t.tasks
  BY <1>1, <1>2 DEF Others
<1>8. WindowServed(t, DOMAIN t.tasks)
  <2>1. CASE at = "view"
    BY <1>1, <1>3, <1>7, <2>1 DEF WindowServed, WindowAts
  <2>2. CASE at # "view"
    <3>1. g # Window
      BY <2>2, Generations DEF WindowAts
    <3>2. \A j \in Others(s, i) : s.tasks[j].at \in WindowAts => t.tasks[j] = s.tasks[j]
      BY <1>1, <1>6, <3>1, Generations
    <3> QED
      BY <1>3, <1>7, <2>2, <3>2 DEF WindowServed
  <2> QED
    BY <2>1, <2>2
<1>9. BodyServed(t, DOMAIN t.tasks)
  <2>1. CASE at = "body"
    BY <1>1, <1>3, <1>7, <2>1 DEF BodyServed
  <2>2. CASE at # "body"
    <3>1. g # <<"body", None>>
      BY <2>2, Generations
    <3>2. \A j \in Others(s, i) : s.tasks[j].at = "body" => t.tasks[j] = s.tasks[j]
      BY <1>1, <1>6, <3>1, Generations
    <3> QED
      BY <1>3, <1>7, <2>2, <3>2 DEF BodyServed
  <2> QED
    BY <2>1, <2>2
<1>10. GoodApp(t)
  BY <1>1, <1>4, <1>5, <1>8, <1>9, SuspendedIsGood
<1> QED
  BY <1>10 DEF t

\* What the setters of the stores change.
LEMMA SetterEffects ==
    \A s : DOMAIN s = AppFields =>
        /\ \A e : LET t == StoreSelectEmail(s, e) IN
              /\ SameExcept(s, t, {"email", "body", "bodyState", "materializing", "bodyError"})
              /\ t.email = e /\ t.bodyState = (IF e = NoId THEN "idle" ELSE "loading") /\ t.materializing = FALSE
        /\ \A m : LET t == StoreSelectMailbox(s, m) IN
              /\ SameExcept(s, t, {"email", "body", "bodyState", "materializing", "bodyError",
                                   "mailbox", "view", "emails", "loadState"})
              /\ t.mailbox = m /\ t.view = {} /\ t.emails = Empty /\ t.loadState = "idle"
              /\ t.bodyState = "idle" /\ t.materializing = FALSE
        /\ \A a : LET t == StoreSelectAccount(s, a) IN
              /\ SameExcept(s, t, {"email", "body", "bodyState", "materializing", "bodyError",
                                   "mailbox", "view", "emails", "loadState", "account", "mailboxes"})
              /\ t.mailbox = NoId /\ t.view = {} /\ t.emails = Empty /\ t.loadState = "idle"
              /\ t.bodyState = "idle" /\ t.materializing = FALSE /\ t.account = a /\ t.mailboxes = {}
        /\ \A body, state : LET t == SetEmailBody(s, body, state) IN
              /\ SameExcept(s, t, {"body", "bodyState", "materializing", "bodyError"})
              /\ t.body = body /\ t.bodyState = state /\ (t.materializing => s.materializing)
        /\ \A view, emails, state : LET t == SetWindow(s, view, emails, state) IN
              /\ SameExcept(s, t, {"view", "emails", "loadState"})
              /\ t.view = view /\ t.emails = emails /\ t.loadState = state
<1> TAKE s
<1> HAVE DOMAIN s = AppFields
<1>1. ASSUME NEW e
      PROVE  LET t == StoreSelectEmail(s, e) IN
             /\ SameExcept(s, t, {"email", "body", "bodyState", "materializing", "bodyError"})
             /\ t.email = e /\ t.bodyState = (IF e = NoId THEN "idle" ELSE "loading") /\ t.materializing = FALSE
  BY DEF StoreSelectEmail, SameExcept, AppFields
<1>2. ASSUME NEW m
      PROVE  LET t == StoreSelectMailbox(s, m) IN
             /\ SameExcept(s, t, {"email", "body", "bodyState", "materializing", "bodyError",
                                  "mailbox", "view", "emails", "loadState"})
             /\ t.mailbox = m /\ t.view = {} /\ t.emails = Empty /\ t.loadState = "idle"
             /\ t.bodyState = "idle" /\ t.materializing = FALSE
  <2> DEFINE u == StoreSelectEmail(s, NoId)
             t == StoreSelectMailbox(s, m)
  <2>1. /\ SameExcept(s, u, {"email", "body", "bodyState", "materializing", "bodyError"})
        /\ u.bodyState = "idle" /\ u.materializing = FALSE
    BY <1>1, Zenon
  <2>2. t = [u EXCEPT !.mailbox = m, !.view = {}, !.emails = Empty, !.loadState = "idle"]
    BY DEF StoreSelectMailbox
  <2> HIDE DEF u
  <2> QED
    BY <2>1, <2>2 DEF SameExcept, AppFields
<1>3. ASSUME NEW a
      PROVE  LET t == StoreSelectAccount(s, a) IN
             /\ SameExcept(s, t, {"email", "body", "bodyState", "materializing", "bodyError",
                                  "mailbox", "view", "emails", "loadState", "account", "mailboxes"})
             /\ t.mailbox = NoId /\ t.view = {} /\ t.emails = Empty /\ t.loadState = "idle"
             /\ t.bodyState = "idle" /\ t.materializing = FALSE /\ t.account = a /\ t.mailboxes = {}
  <2> DEFINE u == StoreSelectMailbox(s, NoId)
             t == StoreSelectAccount(s, a)
  <2>1. /\ SameExcept(s, u, {"email", "body", "bodyState", "materializing", "bodyError",
                             "mailbox", "view", "emails", "loadState"})
        /\ u.mailbox = NoId /\ u.view = {} /\ u.emails = Empty /\ u.loadState = "idle"
        /\ u.bodyState = "idle" /\ u.materializing = FALSE
    BY <1>2, Zenon
  <2>2. t = [u EXCEPT !.account = a, !.mailboxes = {}]
    BY DEF StoreSelectAccount
  <2> HIDE DEF u
  <2> QED
    BY <2>1, <2>2 DEF SameExcept, AppFields
<1>4. ASSUME NEW body, NEW state
      PROVE  LET t == SetEmailBody(s, body, state) IN
             /\ SameExcept(s, t, {"body", "bodyState", "materializing", "bodyError"})
             /\ t.body = body /\ t.bodyState = state /\ (t.materializing => s.materializing)
  BY DEF SetEmailBody, SameExcept, AppFields
<1>5. ASSUME NEW view, NEW emails, NEW state
      PROVE  LET t == SetWindow(s, view, emails, state) IN
             /\ SameExcept(s, t, {"view", "emails", "loadState"})
             /\ t.view = view /\ t.emails = emails /\ t.loadState = state
  BY DEF SetWindow, SameExcept, AppFields
<1> QED
  BY <1>1, <1>2, <1>3, <1>4, <1>5, Zenon

\* A state that keeps the tasks, the attempts and the spinner of one in which a task runs.
LEMMA StillRunning ==
    \A s, t, i, e :
        /\ Running(s, i, e) /\ DOMAIN t = AppFields
        /\ t.tasks = s.tasks /\ t.attempts = s.attempts /\ t.disposed = s.disposed
        /\ Shown(t) /\ (t.materializing => s.materializing /\ t.email = s.email)
        => Running(t, i, e) /\ Others(t, i) = Others(s, i)
BY DEF Running, Shape, Others, Attempted

\* The Email is selected.
LEMMA SelectEmailRuns ==
    \A s, i, e, f : Running(s, i, e) =>
        LET t == StoreSelectEmail(s, f) IN
        /\ Running(t, i, e) /\ Others(t, i) = Others(s, i) /\ t.tasks = s.tasks
        /\ t.email = f
        /\ WindowServed(s, Others(s, i)) => WindowServed(t, Others(s, i))
<1> TAKE s, i, e, f
<1> HAVE Running(s, i, e)
<1> DEFINE t == StoreSelectEmail(s, f)
<1>1. DOMAIN s = AppFields
  BY DEF Running, Shape
<1>2. /\ SameExcept(s, t, {"email", "body", "bodyState", "materializing", "bodyError"})
      /\ t.email = f /\ t.bodyState = (IF f = NoId THEN "idle" ELSE "loading") /\ t.materializing = FALSE
  BY <1>1, SetterEffects
<1> HIDE DEF t
<1>3. /\ DOMAIN t = AppFields /\ t.tasks = s.tasks /\ t.attempts = s.attempts /\ t.disposed = s.disposed
      /\ t.mailboxes = s.mailboxes /\ t.account = s.account /\ t.mailbox = s.mailbox /\ t.view = s.view
      /\ t.emails = s.emails /\ t.loadState = s.loadState
  BY <1>1, <1>2 DEF SameExcept, AppFields
<1>4. Shown(t)
  BY <1>2, <1>3 DEF Running, Shown
<1>5. Running(t, i, e) /\ Others(t, i) = Others(s, i)
  BY <1>2, <1>3, <1>4, StillRunning
<1>6. WindowServed(s, Others(s, i)) => WindowServed(t, Others(s, i))
  BY <1>3 DEF WindowServed
<1>7. /\ Running(t, i, e) /\ Others(t, i) = Others(s, i) /\ t.tasks = s.tasks /\ t.email = f
      /\ WindowServed(s, Others(s, i)) => WindowServed(t, Others(s, i))
  BY <1>2, <1>3, <1>5, <1>6
<1> QED
  BY <1>7, Zenon DEF t

\* A Mailbox of the account is selected, or none.
LEMMA SelectMailboxRuns ==
    \A s, i, e, m : Running(s, i, e) /\ (m # NoId => m.accountKey = s.account) =>
        LET t == StoreSelectMailbox(s, m) IN
        /\ Running(t, i, e) /\ Others(t, i) = Others(s, i) /\ t.tasks = s.tasks
        /\ t.mailbox = m /\ t.account = s.account
        /\ t.loadState = "idle" /\ t.bodyState = "idle"
        /\ SameExcept(s, t, {"email", "body", "bodyState", "materializing", "bodyError",
                             "mailbox", "view", "emails", "loadState"})
<1> TAKE s, i, e, m
<1> HAVE Running(s, i, e) /\ (m # NoId => m.accountKey = s.account)
<1> DEFINE t == StoreSelectMailbox(s, m)
<1>1. DOMAIN s = AppFields
  BY DEF Running, Shape
<1>2. /\ SameExcept(s, t, {"email", "body", "bodyState", "materializing", "bodyError",
                           "mailbox", "view", "emails", "loadState"})
      /\ t.mailbox = m /\ t.view = {} /\ t.emails = Empty /\ t.loadState = "idle"
      /\ t.bodyState = "idle" /\ t.materializing = FALSE
  BY <1>1, SetterEffects
<1> HIDE DEF t
<1>3. /\ DOMAIN t = AppFields /\ t.tasks = s.tasks /\ t.attempts = s.attempts /\ t.disposed = s.disposed
      /\ t.mailboxes = s.mailboxes /\ t.account = s.account
  BY <1>1, <1>2 DEF SameExcept, AppFields
<1>4. DOMAIN Empty = {}
  BY DEF Empty
<1>5. Shown(t)
  BY <1>2, <1>3, <1>4 DEF Running, Shown
<1>6. Running(t, i, e) /\ Others(t, i) = Others(s, i)
  BY <1>2, <1>3, <1>5, StillRunning
<1>7. /\ Running(t, i, e) /\ Others(t, i) = Others(s, i) /\ t.tasks = s.tasks
      /\ t.mailbox = m /\ t.account = s.account /\ t.loadState = "idle" /\ t.bodyState = "idle"
      /\ SameExcept(s, t, {"email", "body", "bodyState", "materializing", "bodyError",
                           "mailbox", "view", "emails", "loadState"})
  BY <1>2, <1>3, <1>6
<1> QED
  BY <1>7, Zenon DEF t

\* An account is selected, or none.
LEMMA SelectAccountRuns ==
    \A s, i, e, a : Running(s, i, e) =>
        LET t == StoreSelectAccount(s, a) IN
        /\ Running(t, i, e) /\ Others(t, i) = Others(s, i) /\ t.tasks = s.tasks
        /\ t.loadState = "idle" /\ t.bodyState = "idle" /\ t.account = a
<1> TAKE s, i, e, a
<1> HAVE Running(s, i, e)
<1> DEFINE t == StoreSelectAccount(s, a)
<1>1. DOMAIN s = AppFields
  BY DEF Running, Shape
<1>2. /\ SameExcept(s, t, {"email", "body", "bodyState", "materializing", "bodyError",
                           "mailbox", "view", "emails", "loadState", "account", "mailboxes"})
      /\ t.mailbox = NoId /\ t.view = {} /\ t.emails = Empty /\ t.loadState = "idle"
      /\ t.bodyState = "idle" /\ t.materializing = FALSE /\ t.account = a /\ t.mailboxes = {}
  BY <1>1, SetterEffects
<1> HIDE DEF t
<1>3. DOMAIN t = AppFields /\ t.tasks = s.tasks /\ t.attempts = s.attempts /\ t.disposed = s.disposed
  BY <1>1, <1>2 DEF SameExcept, AppFields
<1>4. DOMAIN Empty = {}
  BY DEF Empty
<1>5. Shown(t)
  BY <1>2, <1>4 DEF Shown
<1>6. Running(t, i, e) /\ Others(t, i) = Others(s, i)
  BY <1>2, <1>3, <1>5, StillRunning
<1>7. /\ Running(t, i, e) /\ Others(t, i) = Others(s, i) /\ t.tasks = s.tasks
      /\ t.loadState = "idle" /\ t.bodyState = "idle" /\ t.account = a
  BY <1>2, <1>3, <1>6
<1> QED
  BY <1>7, Zenon DEF t

\* The body is shown, or its state.
LEMMA SetBodyRuns ==
    \A s, i, e, body, state : Running(s, i, e) /\ (state = "cached" => body = s.email) =>
        LET t == SetEmailBody(s, body, state) IN
        /\ Running(t, i, e) /\ Others(t, i) = Others(s, i) /\ t.tasks = s.tasks
        /\ t.email = s.email /\ t.bodyState = state /\ (t.materializing => s.materializing)
        /\ WindowServed(s, Others(s, i)) => WindowServed(t, Others(s, i))
<1> TAKE s, i, e, body, state
<1> HAVE Running(s, i, e) /\ (state = "cached" => body = s.email)
<1> DEFINE t == SetEmailBody(s, body, state)
<1>1. DOMAIN s = AppFields
  BY DEF Running, Shape
<1>2. /\ SameExcept(s, t, {"body", "bodyState", "materializing", "bodyError"})
      /\ t.body = body /\ t.bodyState = state /\ (t.materializing => s.materializing)
  BY <1>1, SetterEffects
<1> HIDE DEF t
<1>3. /\ DOMAIN t = AppFields /\ t.tasks = s.tasks /\ t.attempts = s.attempts /\ t.disposed = s.disposed
      /\ t.mailboxes = s.mailboxes /\ t.account = s.account /\ t.mailbox = s.mailbox /\ t.view = s.view
      /\ t.emails = s.emails /\ t.loadState = s.loadState /\ t.email = s.email
  BY <1>1, <1>2 DEF SameExcept, AppFields
<1>4. Shown(t)
  BY <1>2, <1>3 DEF Running, Shown
<1>5. Running(t, i, e) /\ Others(t, i) = Others(s, i)
  BY <1>2, <1>3, <1>4, StillRunning
<1>6. WindowServed(s, Others(s, i)) => WindowServed(t, Others(s, i))
  BY <1>3 DEF WindowServed
<1>7. /\ Running(t, i, e) /\ Others(t, i) = Others(s, i) /\ t.tasks = s.tasks
      /\ t.email = s.email /\ t.bodyState = state /\ (t.materializing => s.materializing)
      /\ WindowServed(s, Others(s, i)) => WindowServed(t, Others(s, i))
  BY <1>2, <1>3, <1>5, <1>6
<1> QED
  BY <1>7, Zenon DEF t

\* The list is shown, or its state.
LEMMA SetWindowRuns ==
    \A s, i, e, shown, emails, state :
        /\ Running(s, i, e) /\ state # "loading"
        /\ \A v \in shown : v.mailboxId = s.mailbox
        /\ DOMAIN emails \subseteq Listed(shown)
        => LET t == SetWindow(s, shown, emails, state) IN
           /\ Running(t, i, e) /\ Others(t, i) = Others(s, i) /\ t.tasks = s.tasks
           /\ t.email = s.email /\ t.loadState = state
           /\ BodyServed(s, Others(s, i)) => BodyServed(t, Others(s, i))
<1> TAKE s, i, e, shown, emails, state
<1> HAVE /\ Running(s, i, e) /\ state # "loading"
         /\ \A v \in shown : v.mailboxId = s.mailbox
         /\ DOMAIN emails \subseteq Listed(shown)
<1> DEFINE t == SetWindow(s, shown, emails, state)
<1>1. DOMAIN s = AppFields
  BY DEF Running, Shape
<1>2. /\ SameExcept(s, t, {"view", "emails", "loadState"})
      /\ t.view = shown /\ t.emails = emails /\ t.loadState = state
  BY <1>1, SetterEffects
<1> HIDE DEF t
<1>3. /\ DOMAIN t = AppFields /\ t.tasks = s.tasks /\ t.attempts = s.attempts /\ t.disposed = s.disposed
      /\ t.mailboxes = s.mailboxes /\ t.account = s.account /\ t.mailbox = s.mailbox
      /\ t.email = s.email /\ t.body = s.body /\ t.bodyState = s.bodyState /\ t.materializing = s.materializing
  BY <1>1, <1>2 DEF SameExcept, AppFields
<1>4. Shown(t)
  BY <1>2, <1>3 DEF Running, Shown
<1>5. Running(t, i, e) /\ Others(t, i) = Others(s, i)
  BY <1>3, <1>4, StillRunning
<1>6. BodyServed(s, Others(s, i)) => BodyServed(t, Others(s, i))
  BY <1>3 DEF BodyServed
<1>7. /\ Running(t, i, e) /\ Others(t, i) = Others(s, i) /\ t.tasks = s.tasks
      /\ t.email = s.email /\ t.loadState = state
      /\ BodyServed(s, Others(s, i)) => BodyServed(t, Others(s, i))
  BY <1>2, <1>3, <1>5, <1>6
<1> QED
  BY <1>7, Zenon DEF t

\* A frame is pushed on the running task.
LEMMA PushRuns ==
    \A s, i, e, frame :
        /\ Running(s, i, e)
        /\ IF s.tasks[i].owner = "body"
           THEN s.tasks[i].then = <<>> /\ frame = Frame("reread", e)
           ELSE frame.do \in PlainFrames
        => LET t == Push(s, i, frame) IN
           /\ Running(t, i, e) /\ Others(t, i) = Others(s, i) /\ SameExcept(s, t, {"tasks"})
           /\ t.tasks[i].owner = s.tasks[i].owner /\ t.tasks[i].then # <<>>
           /\ WindowServed(s, Others(s, i)) => WindowServed(t, Others(s, i))
           /\ BodyServed(s, Others(s, i)) => BodyServed(t, Others(s, i))
<1> TAKE s, i, e, frame
<1> HAVE /\ Running(s, i, e)
         /\ IF s.tasks[i].owner = "body"
            THEN s.tasks[i].then = <<>> /\ frame = Frame("reread", e)
            ELSE frame.do \in PlainFrames
<1> DEFINE new == [s.tasks[i] EXCEPT !.then = <<frame>> \o @]
           t == [s EXCEPT !.tasks[i] = new]
<1>1. /\ Shape(s) /\ i \in DOMAIN s.tasks /\ \A j \in DOMAIN s.tasks : DOMAIN s.tasks[j] = TaskFields
  BY RunningTasks
<1>2. Push(s, i, frame) = t
  BY <1>1 DEF Push, Shape, AppFields, TaskFields
<1>3. /\ DOMAIN new = TaskFields /\ new.owner = s.tasks[i].owner /\ new.then = <<frame>> \o s.tasks[i].then
  BY <1>1 DEF TaskFields
<1> HIDE DEF new
<1>4. /\ SameExcept(s, t, {"tasks"}) /\ DOMAIN t.tasks = DOMAIN s.tasks /\ t.tasks[i] = new
      /\ \A j \in Others(s, i) : t.tasks[j] = s.tasks[j]
      /\ DOMAIN t = AppFields
  BY <1>1 DEF SameExcept, Shape, AppFields, Others
<1> HIDE DEF t
<1>5. /\ t.loadState = s.loadState /\ t.mailbox = s.mailbox /\ t.bodyState = s.bodyState /\ t.email = s.email
      /\ t.mailboxes = s.mailboxes /\ t.account = s.account /\ t.view = s.view /\ t.emails = s.emails
      /\ t.body = s.body /\ t.attempts = s.attempts /\ t.materializing = s.materializing /\ t.disposed = s.disposed
  BY <1>1, <1>4 DEF SameExcept, Shape, AppFields
<1>6. Others(t, i) = Others(s, i)
  BY <1>4 DEF Others
<1>7. /\ new.owner = "body" => new.then = <<Frame("reread", e)>>
      /\ new.owner # "body" => Frames(new.then, PlainFrames)
      /\ new.then # <<>>
  <2> DEFINE q == s.tasks[i].then
  <2>1. new.then = <<frame>> \o q
    BY <1>3
  <2>2. CASE new.owner = "body"
    <3>1. q = <<>> /\ frame = Frame("reread", e)
      BY <1>3, <2>2
    <3> HIDE DEF q
    <3>2. <<frame>> \o q = <<frame>>
      BY <3>1
    <3>3. <<frame>> # <<>>
      OBVIOUS
    <3> QED
      BY <2>1, <2>2, <3>1, <3>2, <3>3, Zenon
  <2>3. CASE new.owner # "body"
    <3>1. Frames(q, PlainFrames) /\ frame.do \in PlainFrames
      BY <1>3, <2>3 DEF Running
    <3> HIDE DEF q
    <3>2. Frames(<<frame>> \o q, PlainFrames)
      BY <3>1, PushFrame, Zenon
    <3>3. <<frame>> \o q # <<>>
      BY <3>1, PushIsNotEmpty, Zenon
    <3> QED
      BY <2>1, <2>3, <3>2, <3>3, Zenon
  <2> QED
    BY <2>2, <2>3
<1>9. Attempted(t, Others(s, i))
  <2>1. \A x \in s.attempts : x[2] \in DOMAIN s.tasks /\ s.tasks[x[2]].owner = "body"
    BY DEF Running, Attempted
  <2>2. \A x \in t.attempts : x[2] \in DOMAIN t.tasks /\ t.tasks[x[2]].owner = "body"
    BY <1>3, <1>4, <1>5, <2>1 DEF Others
  <2>3. \A x \in t.attempts : x[2] \in Others(s, i) => Carries(t.tasks[x[2]], x[1])
    BY <1>4, <1>5 DEF Running, Attempted
  <2>4. t.materializing /\ ~t.disposed => \E x \in t.attempts : x[1] = t.email
    BY <1>5 DEF Running, Attempted
  <2> QED
    BY <2>2, <2>3, <2>4 DEF Attempted
<1>10. Running(t, i, e)
  <2>1. Shape(t)
    BY <1>4 DEF Running, Shape
  <2>2. Shown(t)
    BY <1>5 DEF Running, Shown
  <2>3. \A j \in Others(t, i) : GoodTask(t.tasks[j])
    BY <1>4, <1>6 DEF Running
  <2>4. \A x \in t.attempts : x[2] = i => x[1] = e
    BY <1>5 DEF Running
  <2>5. i \in DOMAIN t.tasks /\ DOMAIN t.tasks[i] = TaskFields /\ t.tasks[i].owner \in Owners
    BY <1>1, <1>3, <1>4 DEF Running
  <2>6. IF t.tasks[i].owner = "body"
        THEN t.tasks[i].then \in {<<>>, <<Frame("reread", e)>>}
        ELSE Frames(t.tasks[i].then, PlainFrames)
    BY <1>4, <1>7
  <2> QED
    BY <1>6, <1>9, <2>1, <2>2, <2>3, <2>4, <2>5, <2>6 DEF Running
<1>11. WindowServed(s, Others(s, i)) => WindowServed(t, Others(s, i))
  BY <1>4, <1>5 DEF WindowServed
<1>12. BodyServed(s, Others(s, i)) => BodyServed(t, Others(s, i))
  BY <1>4, <1>5 DEF BodyServed
<1>13. /\ Running(t, i, e) /\ Others(t, i) = Others(s, i) /\ SameExcept(s, t, {"tasks"})
       /\ t.tasks[i].owner = s.tasks[i].owner /\ t.tasks[i].then # <<>>
       /\ WindowServed(s, Others(s, i)) => WindowServed(t, Others(s, i))
       /\ BodyServed(s, Others(s, i)) => BodyServed(t, Others(s, i))
  BY <1>3, <1>4, <1>6, <1>7, <1>10, <1>11, <1>12
<1> HIDE DEF new
<1> QED
  BY <1>2, <1>13

SameCaller(s, t, i) == t.tasks[i].owner = s.tasks[i].owner /\ t.tasks[i].then = s.tasks[i].then

\* The reads of a generation are superseded.
LEMMA SupersedeRuns ==
    \A s, i, e, g : Running(s, i, e) =>
        LET t == Supersede(s, g) IN
        /\ Running(t, i, e) /\ Others(t, i) = Others(s, i) /\ SameExcept(s, t, {"tasks"})
        /\ SameCaller(s, t, i)
        /\ g # Window /\ WindowServed(s, Others(s, i)) => WindowServed(t, Others(s, i))
        /\ g # <<"body", None>> /\ BodyServed(s, Others(s, i)) => BodyServed(t, Others(s, i))
<1> TAKE s, i, e, g
<1> HAVE Running(s, i, e)
<1> DEFINE t == Supersede(s, g)
<1>1. /\ Shape(s) /\ i \in DOMAIN s.tasks /\ \A j \in DOMAIN s.tasks : DOMAIN s.tasks[j] = TaskFields
  BY RunningTasks
<1>2. /\ DOMAIN t = AppFields /\ DOMAIN t.tasks = DOMAIN s.tasks
      /\ \A f \in AppFields \ {"tasks"} : t[f] = s[f]
      /\ \A j \in DOMAIN s.tasks : Outdated(s.tasks[j], t.tasks[j])
      /\ \A j \in DOMAIN s.tasks : Generation(s.tasks[j].at, s.tasks[j].key) # g => t.tasks[j] = s.tasks[j]
  BY <1>1, Superseded, Zenon
<1> HIDE DEF t
<1>3. /\ t.loadState = s.loadState /\ t.mailbox = s.mailbox /\ t.bodyState = s.bodyState /\ t.email = s.email
      /\ t.mailboxes = s.mailboxes /\ t.account = s.account /\ t.view = s.view /\ t.emails = s.emails
      /\ t.body = s.body /\ t.attempts = s.attempts /\ t.materializing = s.materializing /\ t.disposed = s.disposed
  BY <1>2 DEF AppFields
<1>4. Others(t, i) = Others(s, i) /\ SameExcept(s, t, {"tasks"})
  BY <1>1, <1>2 DEF Others, SameExcept, Shape
<1>5. \A j \in DOMAIN s.tasks :
         t.tasks[j].owner = s.tasks[j].owner /\ t.tasks[j].then = s.tasks[j].then /\ DOMAIN t.tasks[j] = TaskFields
  BY <1>2 DEF Outdated, TaskFields
<1>6. \A j \in Others(s, i) : GoodTask(s.tasks[j])
  BY DEF Running
<1>7. \A j \in Others(s, i) : GoodTask(t.tasks[j]) /\ \A f : Carries(s.tasks[j], f) => Carries(t.tasks[j], f)
  BY <1>2, <1>6, OutdatedIsGood DEF Others
<1>8. Attempted(t, Others(s, i))
  <2>1. \A x \in t.attempts : x[2] \in DOMAIN t.tasks /\ t.tasks[x[2]].owner = "body"
    BY <1>2, <1>3, <1>5 DEF Running, Attempted
  <2>2. \A x \in t.attempts : x[2] \in Others(s, i) => Carries(t.tasks[x[2]], x[1])
    BY <1>3, <1>7 DEF Running, Attempted
  <2>3. t.materializing /\ ~t.disposed => \E x \in t.attempts : x[1] = t.email
    BY <1>3 DEF Running, Attempted
  <2> QED
    BY <2>1, <2>2, <2>3 DEF Attempted
<1>9. Running(t, i, e)
  <2>1. Shape(t)
    BY <1>1, <1>2 DEF Shape
  <2>2. Shown(t)
    BY <1>3 DEF Running, Shown
  <2>3. \A j \in Others(t, i) : GoodTask(t.tasks[j])
    BY <1>4, <1>7
  <2>4. \A x \in t.attempts : x[2] = i => x[1] = e
    BY <1>3 DEF Running
  <2>5. i \in DOMAIN t.tasks /\ DOMAIN t.tasks[i] = TaskFields /\ t.tasks[i].owner \in Owners
    BY <1>1, <1>2, <1>5 DEF Running
  <2>6. IF t.tasks[i].owner = "body"
        THEN t.tasks[i].then \in {<<>>, <<Frame("reread", e)>>}
        ELSE Frames(t.tasks[i].then, PlainFrames)
    BY <1>1, <1>5 DEF Running
  <2> QED
    BY <1>4, <1>8, <2>1, <2>2, <2>3, <2>4, <2>5, <2>6 DEF Running
<1>10. \A j \in Others(s, i) : j \in DOMAIN s.tasks /\ s.tasks[j].at \in ReadingAts \cup {"return"}
  BY <1>6 DEF GoodTask, Others
<1>11. ASSUME g # Window, WindowServed(s, Others(s, i)) PROVE WindowServed(t, Others(s, i))
  <2>1. \A j \in Others(s, i) : s.tasks[j].at \in WindowAts => t.tasks[j] = s.tasks[j]
    BY <1>2, <1>10, <1>11, Generations
  <2> QED
    BY <1>3, <1>11, <2>1 DEF WindowServed
<1>12. ASSUME g # <<"body", None>>, BodyServed(s, Others(s, i)) PROVE BodyServed(t, Others(s, i))
  <2>1. \A j \in Others(s, i) : s.tasks[j].at = "body" => t.tasks[j] = s.tasks[j]
    BY <1>2, <1>10, <1>12, Generations
  <2> QED
    BY <1>3, <1>12, <2>1 DEF BodyServed
<1>13. /\ Running(t, i, e) /\ Others(t, i) = Others(s, i) /\ SameExcept(s, t, {"tasks"})
       /\ SameCaller(s, t, i)
       /\ g # Window /\ WindowServed(s, Others(s, i)) => WindowServed(t, Others(s, i))
       /\ g # <<"body", None>> /\ BodyServed(s, Others(s, i)) => BodyServed(t, Others(s, i))
  BY <1>1, <1>4, <1>5, <1>9, <1>11, <1>12 DEF SameCaller
<1> QED
  BY <1>13, Zenon DEF t

\* An update of the fields that the invariant says nothing of.
Neutral == {"accounts", "bodyError", "statuses", "local", "subscribed", "missed"}

\* Such an update leaves the running state one.
LEMMA NeutralRuns ==
    \A s, t, i, e : Running(s, i, e) /\ SameExcept(s, t, Neutral) =>
        /\ Running(t, i, e) /\ Others(t, i) = Others(s, i) /\ t.tasks = s.tasks
        /\ WindowServed(s, Others(s, i)) => WindowServed(t, Others(s, i))
        /\ BodyServed(s, Others(s, i)) => BodyServed(t, Others(s, i))
<1> TAKE s, t, i, e
<1> HAVE Running(s, i, e) /\ SameExcept(s, t, Neutral)
<1>1. DOMAIN s = AppFields
  BY DEF Running, Shape
<1>2. /\ DOMAIN t = AppFields /\ t.tasks = s.tasks
      /\ t.loadState = s.loadState /\ t.mailbox = s.mailbox /\ t.bodyState = s.bodyState /\ t.email = s.email
      /\ t.mailboxes = s.mailboxes /\ t.account = s.account /\ t.view = s.view /\ t.emails = s.emails
      /\ t.body = s.body /\ t.attempts = s.attempts /\ t.materializing = s.materializing /\ t.disposed = s.disposed
  BY <1>1 DEF SameExcept, Neutral, AppFields
<1>3. Shown(t)
  BY <1>2 DEF Running, Shown
<1>4. Running(t, i, e) /\ Others(t, i) = Others(s, i)
  BY <1>2, <1>3, StillRunning
<1>5. WindowServed(s, Others(s, i)) => WindowServed(t, Others(s, i))
  BY <1>2 DEF WindowServed
<1>6. BodyServed(s, Others(s, i)) => BodyServed(t, Others(s, i))
  BY <1>2 DEF BodyServed
<1> QED
  BY <1>2, <1>4, <1>5, <1>6

\* The first in an order of those that the order places.
LEMMA FirstIsIn ==
    \A order, T, S : order \in Seq(T) /\ S \subseteq ToSet(order) /\ S # {} => First(order, S) \in S
<1> TAKE order, T, S
<1> HAVE order \in Seq(T) /\ S \subseteq ToSet(order) /\ S # {}
<1> DEFINE I == {k \in 1..Len(order) : order[k] \in S}
<1>1. I # {} /\ I \subseteq Nat
  BY DEF ToSet
<1>2. \E k \in I : \A j \in I : k <= j
  BY <1>1, LeastNumber
<1>3. Min(I) \in I
  BY <1>1, <1>2 DEF Min
<1>4. order[Min(I)] \in S
  BY <1>3
<1>5. First(order, S) = order[Min(I)]
  BY <1>1 DEF First, SelectInSeq
<1> QED
  BY <1>4, <1>5

-----------------------------------------------------------------------------
(* The functions that start a read. *)

\* The counters of the window, the body and the Mailboxes are three.
LEMMA TwoGenerations == Window # <<"body", None>> /\ Window # <<"mailboxes", None>> /\ <<"body", None>> # <<"mailboxes", None>>
BY DEF Window

\* The body is reread: the owner of an attempt does so while its frame waits.
LEMMA RefreshBodyIsGood ==
    \A s, i, e :
        /\ Running(s, i, e) /\ WindowServed(s, Others(s, i))
        /\ s.tasks[i].owner = "body" => s.tasks[i].then # <<>>
        => GoodApp(RefreshSelectedBody(s, i))
<1> TAKE s, i, e
<1> HAVE /\ Running(s, i, e) /\ WindowServed(s, Others(s, i))
         /\ s.tasks[i].owner = "body" => s.tasks[i].then # <<>>
<1>1. CASE s.email = NoId
  <2> DEFINE u == Supersede(s, <<"body", None>>)
             t == SetEmailBody(u, NoId, "idle")
  <2>1. /\ Running(u, i, e) /\ Others(u, i) = Others(s, i)
        /\ SameCaller(s, u, i) /\ WindowServed(u, Others(s, i))
    BY TwoGenerations, SupersedeRuns, Zenon
  <2>2. RefreshSelectedBody(s, i) = Finish(t, i, "stale")
    BY <1>1 DEF RefreshSelectedBody
  <2> HIDE DEF u
  <2>3. /\ Running(t, i, e) /\ Others(t, i) = Others(u, i) /\ t.tasks = u.tasks
        /\ t.bodyState = "idle" /\ WindowServed(t, Others(u, i))
    BY <2>1, SetBodyRuns
  <2> HIDE DEF t
  <2>4. BodyServed(t, Others(t, i)) /\ WindowServed(t, Others(t, i))
    BY <2>1, <2>3 DEF BodyServed
  <2>5. t.tasks[i].owner = "body" => t.tasks[i].then # <<>>
    BY <2>1, <2>3 DEF SameCaller
  <2>6. GoodApp(Finish(t, i, "stale"))
    BY <2>3, <2>4, <2>5, FinishedIsGood
  <2> QED
    BY <2>2, <2>6, Zenon
<1>2. CASE s.email # NoId
  <2> DEFINE t == SetEmailBody(s, NoId, "loading")
  <2>1. RefreshSelectedBody(s, i) = Await(t, i, "body", s.email)
    BY <1>2 DEF RefreshSelectedBody
  <2>2. /\ Running(t, i, e) /\ Others(t, i) = Others(s, i) /\ t.tasks = s.tasks
        /\ t.email = s.email /\ WindowServed(t, Others(s, i))
    BY SetBodyRuns
  <2> HIDE DEF t
  <2>3. GoodApp(Await(t, i, "body", t.email))
    <3>1. "body" \in ReadingAts \ {"emails"}
      BY DEF ReadingAts
    <3>2. t.tasks[i].owner # "body" \/ t.tasks[i].then # <<>>
      BY <2>2
    <3> QED
      BY <1>2, <2>2, <3>1, <3>2, AwaitedIsGood
  <2> QED
    BY <2>1, <2>2, <2>3
<1> QED
  BY <1>1, <1>2

\* The list is reread.
LEMMA RefreshWindowIsGood ==
    \A s, i, e :
        /\ Running(s, i, e) /\ BodyServed(s, Others(s, i)) /\ s.tasks[i].owner # "body"
        /\ s.loadState = "loading" => s.mailbox # NoId
        => GoodApp(RefreshMailboxWindow(s, i))
<1> TAKE s, i, e
<1> HAVE /\ Running(s, i, e) /\ BodyServed(s, Others(s, i)) /\ s.tasks[i].owner # "body"
         /\ s.loadState = "loading" => s.mailbox # NoId
<1>0. DOMAIN s = AppFields
  BY DEF Running, Shape
<1>1. CASE s.mailbox = NoId
  <2> DEFINE t == Supersede(s, Window)
  <2>1. RefreshMailboxWindow(s, i) = Finish(t, i, None)
    BY <1>1 DEF RefreshMailboxWindow
  <2>2. /\ Running(t, i, e) /\ Others(t, i) = Others(s, i) /\ SameExcept(s, t, {"tasks"})
        /\ SameCaller(s, t, i) /\ BodyServed(t, Others(s, i))
    BY TwoGenerations, SupersedeRuns, Zenon
  <2> HIDE DEF t
  <2>3. t.loadState = s.loadState
    BY <1>0, <2>2 DEF SameExcept, AppFields
  <2>4. WindowServed(t, Others(t, i)) /\ BodyServed(t, Others(t, i))
    BY <1>1, <2>2, <2>3 DEF WindowServed
  <2>5. GoodApp(Finish(t, i, None))
    BY <2>2, <2>4, FinishedIsGood DEF SameCaller
  <2> QED
    BY <2>1, <2>5, Zenon
<1>2. CASE s.mailbox # NoId
  <2> DEFINE t == [s EXCEPT !.loadState = "loading"]
  <2>1. RefreshMailboxWindow(s, i) = Await(t, i, "view", s.mailbox)
    BY <1>2 DEF RefreshMailboxWindow
  <2>2. /\ DOMAIN t = AppFields /\ t.tasks = s.tasks /\ t.attempts = s.attempts /\ t.disposed = s.disposed
        /\ t.mailboxes = s.mailboxes /\ t.account = s.account /\ t.mailbox = s.mailbox /\ t.view = s.view
        /\ t.emails = s.emails /\ t.bodyState = s.bodyState /\ t.email = s.email /\ t.body = s.body
        /\ t.materializing = s.materializing
    BY <1>0 DEF AppFields
  <2> HIDE DEF t
  <2>3. Shown(t)
    BY <2>2 DEF Running, Shown
  <2>4. Running(t, i, e) /\ Others(t, i) = Others(s, i)
    BY <2>2, <2>3, StillRunning
  <2>5. BodyServed(t, Others(t, i))
    BY <2>2, <2>4 DEF BodyServed
  <2>6. "view" \in ReadingAts \ {"emails"}
    BY DEF ReadingAts
  <2>7. GoodApp(Await(t, i, "view", t.mailbox))
    BY <1>2, <2>2, <2>4, <2>5, <2>6, AwaitedIsGood
  <2> QED
    BY <2>1, <2>2, <2>7
<1> QED
  BY <1>1, <1>2

\* The other reads leave the list and the body alone.
LEMMA OtherReadIsGood ==
    \A s, i, e, key : \A at \in {"accounts", "mailboxes", "statuses", "subscribe"} :
        /\ Running(s, i, e) /\ s.tasks[i].owner # "body"
        /\ WindowServed(s, Others(s, i)) /\ BodyServed(s, Others(s, i))
        => GoodApp(Await(s, i, at, key))
<1> TAKE s, i, e, key
<1> TAKE at \in {"accounts", "mailboxes", "statuses", "subscribe"}
<1>1. at \in ReadingAts \ {"emails"} /\ at # "view" /\ at # "body" /\ at # "materialize"
  BY DEF ReadingAts
<1> QED
  BY <1>1, AwaitedIsGood

\* The Mailboxes are reread, or nothing is when no account is selected.
LEMMA RefreshMailboxesIsGood ==
    \A s, i, e :
        /\ Running(s, i, e) /\ s.tasks[i].owner # "body"
        /\ WindowServed(s, Others(s, i)) /\ BodyServed(s, Others(s, i))
        => GoodApp(RefreshMailboxes(s, i))
<1> TAKE s, i, e
<1> HAVE /\ Running(s, i, e) /\ s.tasks[i].owner # "body"
         /\ WindowServed(s, Others(s, i)) /\ BodyServed(s, Others(s, i))
<1>1. CASE s.account = None
  <2> DEFINE t == Supersede(s, <<"mailboxes", None>>)
  <2>1. RefreshMailboxes(s, i) = Finish(t, i, None)
    BY <1>1 DEF RefreshMailboxes
  <2>2. /\ Running(t, i, e) /\ Others(t, i) = Others(s, i) /\ SameCaller(s, t, i)
        /\ WindowServed(t, Others(s, i)) /\ BodyServed(t, Others(s, i))
    BY TwoGenerations, SupersedeRuns, Zenon
  <2> HIDE DEF t
  <2>3. GoodApp(Finish(t, i, None))
    BY <2>2, FinishedIsGood DEF SameCaller
  <2> QED
    BY <2>1, <2>3, Zenon
<1>2. CASE s.account # None
  <2>1. RefreshMailboxes(s, i) = Await(s, i, "mailboxes", OfAccount(s.account))
    BY <1>2 DEF RefreshMailboxes
  <2>2. \A key : GoodApp(Await(s, i, "mailboxes", key))
    BY OtherReadIsGood
  <2> QED
    BY <2>1, <2>2, Zenon
<1> QED
  BY <1>1, <1>2

\* The Mailboxes of an account, then its statuses.
LEMMA ShowAccountIsGood ==
    \A s, i, e, a :
        /\ Running(s, i, e) /\ s.tasks[i].owner # "body"
        /\ WindowServed(s, Others(s, i)) /\ BodyServed(s, Others(s, i))
        => GoodApp(ShowAccount(s, i, a))
<1> TAKE s, i, e, a
<1> HAVE /\ Running(s, i, e) /\ s.tasks[i].owner # "body"
         /\ WindowServed(s, Others(s, i)) /\ BodyServed(s, Others(s, i))
<1> DEFINE t == Push(s, i, Frame("statuses", OfAccount(a)))
<1>1. Frame("statuses", OfAccount(a)).do \in PlainFrames
  BY DEF Frame, PlainFrames
<1>2. /\ Running(t, i, e) /\ Others(t, i) = Others(s, i) /\ t.tasks[i].owner = s.tasks[i].owner
      /\ WindowServed(t, Others(s, i)) /\ BodyServed(t, Others(s, i))
  BY <1>1, PushRuns, Zenon
<1>3. ShowAccount(s, i, a) = RefreshMailboxes(t, i)
  BY DEF ShowAccount
<1> HIDE DEF t
<1>4. GoodApp(RefreshMailboxes(t, i))
  BY <1>2, RefreshMailboxesIsGood
<1> QED
  BY <1>3, <1>4, Zenon

-----------------------------------------------------------------------------
(* The handlers of the answers. *)

\* A task of the invariant, when it is resumed.
LEMMA TaskRuns ==
    \A s, i, e :
        /\ GoodApp(s) /\ i \in DOMAIN s.tasks
        /\ s.tasks[i].owner = "body" => Carries(s.tasks[i], e)
        => Running(s, i, e)
<1> TAKE s, i, e
<1> HAVE /\ GoodApp(s) /\ i \in DOMAIN s.tasks
         /\ s.tasks[i].owner = "body" => Carries(s.tasks[i], e)
<1>1. GoodTask(s.tasks[i]) /\ \A j \in Others(s, i) : GoodTask(s.tasks[j])
  BY DEF GoodApp, Others
<1>2. IF s.tasks[i].owner = "body"
      THEN s.tasks[i].then \in {<<>>, <<Frame("reread", e)>>}
      ELSE Frames(s.tasks[i].then, PlainFrames)
  BY <1>1 DEF GoodTask, Carries
<1>3. ASSUME NEW x \in s.attempts, x[2] = i PROVE x[1] = e
  <2>1. s.tasks[i].owner = "body" /\ Carries(s.tasks[i], x[1])
    BY <1>3 DEF GoodApp, Attempted
  <2>2. Carries(s.tasks[i], e)
    BY <2>1
  <2>3. CASE s.tasks[i].at = "materialize"
    BY <2>1, <2>2, <2>3 DEF Carries
  <2>4. CASE s.tasks[i].at # "materialize"
    <3>1. <<Frame("reread", x[1])>> = <<Frame("reread", e)>>
      BY <2>1, <2>2, <2>4 DEF Carries
    <3> QED
      BY <3>1 DEF Frame
  <2> QED
    BY <2>3, <2>4
<1>4. Attempted(s, Others(s, i))
  BY DEF GoodApp, Attempted, Others
<1>5. DOMAIN s.tasks[i] = TaskFields /\ s.tasks[i].owner \in Owners
  BY <1>1 DEF GoodTask
<1> QED
  BY <1>1, <1>2, <1>3, <1>4, <1>5 DEF GoodApp, Running

\* When the task that is resumed is not the one that serves the list, or the body.
LEMMA OthersServe ==
    \A s, i : GoodApp(s) =>
        /\ WindowServed(s, Others(s, i))
           \/ (s.tasks[i].at \in WindowAts /\ s.tasks[i].fresh /\ s.tasks[i].key = s.mailbox)
        /\ BodyServed(s, Others(s, i))
           \/ (s.tasks[i].at = "body" /\ s.tasks[i].fresh /\ s.tasks[i].key = s.email)
BY DEF GoodApp, WindowServed, BodyServed, Others

\* An update of the fields that the invariant says nothing of, or that ends the loading.
LEMMA NeutralIsGood ==
    \A s, t :
        /\ GoodApp(s) /\ SameExcept(s, t, Neutral \cup {"loadState"})
        /\ t.loadState = "loading" => s.loadState = "loading"
        => GoodApp(t)
<1> TAKE s, t
<1> HAVE /\ GoodApp(s) /\ SameExcept(s, t, Neutral \cup {"loadState"})
         /\ t.loadState = "loading" => s.loadState = "loading"
<1>1. DOMAIN s = AppFields
  BY DEF GoodApp, Shape
<1>2. /\ DOMAIN t = AppFields /\ t.tasks = s.tasks
      /\ t.mailbox = s.mailbox /\ t.bodyState = s.bodyState /\ t.email = s.email
      /\ t.mailboxes = s.mailboxes /\ t.account = s.account /\ t.view = s.view /\ t.emails = s.emails
      /\ t.body = s.body /\ t.attempts = s.attempts /\ t.materializing = s.materializing /\ t.disposed = s.disposed
  BY <1>1 DEF SameExcept, Neutral, AppFields
<1>3. Shape(t) /\ Shown(t) /\ Attempted(t, DOMAIN t.tasks)
  BY <1>2 DEF GoodApp, Shape, Shown, Attempted
<1>4. WindowServed(t, DOMAIN t.tasks) /\ BodyServed(t, DOMAIN t.tasks)
  BY <1>2 DEF GoodApp, WindowServed, BodyServed
<1>5. \A j \in DOMAIN t.tasks : GoodTask(t.tasks[j])
  BY <1>2 DEF GoodApp
<1> QED
  BY <1>3, <1>4, <1>5 DEF GoodApp

\* A failed read that nothing below the call's owner catches.
LEMMA ThrowIsGood ==
    \A s, i, e, what :
        /\ Running(s, i, e) /\ WindowServed(s, Others(s, i)) /\ BodyServed(s, Others(s, i))
        /\ s.tasks[i].owner # "body"
        => GoodApp(Throw(s, i, what))
<1> TAKE s, i, e, what
<1> HAVE /\ Running(s, i, e) /\ WindowServed(s, Others(s, i)) /\ BodyServed(s, Others(s, i))
         /\ s.tasks[i].owner # "body"
<1> DEFINE u == End(s, i)
           skipped == {<<"statuses", f.key.accountKey>> :
                          f \in {g \in ToSet(s.tasks[i].then) : g.do = "statuses"}}
           all == u.missed \cup skipped \cup {<<what, s.tasks[i].key.accountKey>>}
           caught == [u EXCEPT !.missed = all]
           loud == [caught EXCEPT !.local = "error", !.loadState = "error"]
           shown == [caught EXCEPT !.local = "error"]
<1>1. GoodApp(u)
  BY EndedIsGood
<1>2. s.tasks[i].owner \in {"initialize", "retry", "flush", "user"}
  BY DEF Running, Owners
<1>3. Throw(s, i, what) \in {caught, loud, shown}
  BY <1>2 DEF Throw
<1> HIDE DEF all, u
<1>4. DOMAIN u = AppFields
  BY <1>1 DEF GoodApp, Shape
<1>5. /\ SameExcept(u, caught, Neutral \cup {"loadState"}) /\ caught.loadState = u.loadState
      /\ SameExcept(u, loud, Neutral \cup {"loadState"}) /\ loud.loadState = "error"
      /\ SameExcept(u, shown, Neutral \cup {"loadState"}) /\ shown.loadState = u.loadState
  BY <1>4 DEF SameExcept, Neutral, AppFields
<1> HIDE DEF caught, loud, shown
<1>6. GoodApp(caught) /\ GoodApp(loud) /\ GoodApp(shown)
  BY <1>1, <1>5, NeutralIsGood
<1> QED
  BY <1>3, <1>6

\* The handler of a body.
LEMMA BodyReadIsGood ==
    \A s, i, r : GoodApp(s) /\ i \in DOMAIN s.tasks /\ s.tasks[i].at = "body" => GoodApp(BodyRead(s, i, r))
<1> TAKE s, i, r
<1> HAVE GoodApp(s) /\ i \in DOMAIN s.tasks /\ s.tasks[i].at = "body"
<1>1. PICK e : s.tasks[i].owner = "body" => Carries(s.tasks[i], e)
  BY DEF GoodApp, GoodTask
<1>2. Running(s, i, e)
  BY <1>1, TaskRuns, Zenon
<1>3. s.tasks[i].owner = "body" => s.tasks[i].then # <<>>
  BY <1>1 DEF Carries
<1>4. WindowServed(s, Others(s, i))
  BY OthersServe DEF WindowAts
<1>5. CASE ~s.tasks[i].fresh \/ s.email # s.tasks[i].key
  <2>1. BodyRead(s, i, r) = Finish(s, i, "stale")
    BY <1>5 DEF BodyRead
  <2>2. BodyServed(s, Others(s, i))
    BY <1>5, OthersServe
  <2>3. GoodApp(Finish(s, i, "stale"))
    BY <1>2, <1>3, <1>4, <2>2, FinishedIsGood
  <2> QED
    BY <2>1, <2>3, Zenon
<1>6. CASE s.tasks[i].fresh /\ s.email = s.tasks[i].key
  <2> DEFINE state == CASE r.kind = "failed" -> "error"
                        [] r.kind = "present" -> "cached"
                        [] r.kind = "absent" -> "notCached"
                        [] OTHER -> "ownerAbsent"
             value == IF r.kind = "failed" THEN "failed" ELSE state
             body == IF state = "cached" THEN s.email ELSE NoId
             t == SetEmailBody(s, body, state)
  <2>1. BodyRead(s, i, r) = Finish(t, i, value)
    BY <1>6 DEF BodyRead
  <2>2. state # "loading" /\ (state = "cached" => body = s.email)
    OBVIOUS
  <2> HIDE DEF state, body, value
  <2>3. /\ Running(t, i, e) /\ Others(t, i) = Others(s, i) /\ t.tasks = s.tasks
        /\ t.bodyState = state /\ WindowServed(t, Others(s, i))
    BY <1>2, <1>4, <2>2, SetBodyRuns
  <2> HIDE DEF t
  <2>4. BodyServed(t, Others(t, i))
    BY <2>2, <2>3 DEF BodyServed
  <2>5. GoodApp(Finish(t, i, value))
    BY <1>3, <2>3, <2>4, FinishedIsGood
  <2> QED
    BY <2>1, <2>5, Zenon
<1> QED
  BY <1>5, <1>6

\* No attempt on a body awaits any of these.
LEMMA ReaderIsNoAttempt ==
    \A s, i, e :
        /\ GoodApp(s) /\ i \in DOMAIN s.tasks
        /\ s.tasks[i].at \in ReadingAts \ {"body", "materialize"}
        => s.tasks[i].owner # "body" /\ Running(s, i, e)
<1> TAKE s, i, e
<1> HAVE /\ GoodApp(s) /\ i \in DOMAIN s.tasks
         /\ s.tasks[i].at \in ReadingAts \ {"body", "materialize"}
<1>1. s.tasks[i].owner # "body"
  BY DEF GoodApp, GoodTask, Carries, ReadingAts
<1> QED
  BY <1>1, TaskRuns

\* The list loads no more.
LEMMA LoadedRuns ==
    \A s, i, e, state : Running(s, i, e) /\ state # "loading" =>
        LET t == [s EXCEPT !.loadState = state] IN
        /\ Running(t, i, e) /\ Others(t, i) = Others(s, i) /\ t.tasks = s.tasks
        /\ WindowServed(t, Others(s, i))
        /\ BodyServed(s, Others(s, i)) => BodyServed(t, Others(s, i))
<1> TAKE s, i, e, state
<1> HAVE Running(s, i, e) /\ state # "loading"
<1> DEFINE t == [s EXCEPT !.loadState = state]
<1>1. DOMAIN s = AppFields
  BY DEF Running, Shape
<1>2. /\ DOMAIN t = AppFields /\ t.tasks = s.tasks /\ t.attempts = s.attempts /\ t.disposed = s.disposed
      /\ t.mailboxes = s.mailboxes /\ t.account = s.account /\ t.mailbox = s.mailbox /\ t.view = s.view
      /\ t.emails = s.emails /\ t.bodyState = s.bodyState /\ t.email = s.email /\ t.body = s.body
      /\ t.materializing = s.materializing /\ t.loadState = state
  BY <1>1 DEF AppFields
<1> HIDE DEF t
<1>3. Shown(t)
  BY <1>2 DEF Running, Shown
<1>4. Running(t, i, e) /\ Others(t, i) = Others(s, i)
  BY <1>2, <1>3, StillRunning
<1>5. WindowServed(t, Others(s, i)) /\ (BodyServed(s, Others(s, i)) => BodyServed(t, Others(s, i)))
  BY <1>2 DEF WindowServed, BodyServed
<1>6. /\ Running(t, i, e) /\ Others(t, i) = Others(s, i) /\ t.tasks = s.tasks
      /\ WindowServed(t, Others(s, i))
      /\ BodyServed(s, Others(s, i)) => BodyServed(t, Others(s, i))
  BY <1>2, <1>4, <1>5
<1> QED
  BY <1>6, Zenon DEF t

\* A view that is shown asks for its Emails.
LEMMA EmailsAskedIsGood ==
    \A s, i, shown :
        /\ GoodApp(s) /\ i \in DOMAIN s.tasks /\ s.tasks[i].at = "view"
        /\ shown.mailboxId = s.tasks[i].key
        => GoodApp([s EXCEPT !.tasks[i] =
                       [@ EXCEPT !.at = "emails", !.phase = "asked", !.res = None, !.view = {shown}]])
<1> TAKE s, i, shown
<1> HAVE /\ GoodApp(s) /\ i \in DOMAIN s.tasks /\ s.tasks[i].at = "view"
         /\ shown.mailboxId = s.tasks[i].key
<1> DEFINE new == [s.tasks[i] EXCEPT !.at = "emails", !.phase = "asked", !.res = None, !.view = {shown}]
           t == [s EXCEPT !.tasks[i] = new]
<1>1. \A e : s.tasks[i].owner # "body" /\ Running(s, i, e)
  BY ReaderIsNoAttempt DEF ReadingAts
<1>2. /\ Shape(s) /\ \A j \in DOMAIN s.tasks : DOMAIN s.tasks[j] = TaskFields
  BY <1>1, RunningTasks
<1>3. /\ DOMAIN new = TaskFields /\ new.at = "emails" /\ new.owner = s.tasks[i].owner /\ new.then = s.tasks[i].then
      /\ new.phase = "asked" /\ new.view = {shown} /\ new.key = s.tasks[i].key /\ new.fresh = s.tasks[i].fresh
  BY <1>2 DEF TaskFields
<1> HIDE DEF new
<1>4. /\ SameExcept(s, t, {"tasks"}) /\ DOMAIN t.tasks = DOMAIN s.tasks /\ t.tasks[i] = new
      /\ \A j \in Others(s, i) : t.tasks[j] = s.tasks[j]
      /\ t.loadState = s.loadState /\ t.mailbox = s.mailbox /\ t.bodyState = s.bodyState /\ t.email = s.email
  BY <1>2 DEF SameExcept, Shape, AppFields, Others
<1> HIDE DEF t
<1>5. \A j \in Others(s, i) : Outdated(s.tasks[j], t.tasks[j])
  BY <1>2, <1>4, SameIsOutdated DEF Others
<1>6. GoodTask(new)
  BY <1>1, <1>3 DEF GoodApp, GoodTask, ReadingAts
<1>7. WindowServed(t, DOMAIN t.tasks)
  <2>1. ASSUME s.loadState = "loading",
               NEW j \in DOMAIN s.tasks, s.tasks[j].at \in WindowAts, s.tasks[j].fresh, s.tasks[j].key = s.mailbox
        PROVE  t.tasks[j].at \in WindowAts /\ t.tasks[j].fresh /\ t.tasks[j].key = t.mailbox
    BY <1>3, <1>4, <2>1 DEF Others, WindowAts
  <2> QED
    BY <1>4, <2>1 DEF GoodApp, WindowServed
<1>8. BodyServed(t, DOMAIN t.tasks)
  <2>1. ASSUME s.bodyState = "loading",
               NEW j \in DOMAIN s.tasks, s.tasks[j].at = "body", s.tasks[j].fresh, s.tasks[j].key = s.email
        PROVE  t.tasks[j].at = "body" /\ t.tasks[j].fresh /\ t.tasks[j].key = t.email
    BY <1>3, <1>4, <2>1 DEF Others
  <2> QED
    BY <1>4, <2>1 DEF GoodApp, BodyServed
<1>9. SameExcept(s, t, {"tasks", "missed"})
  BY <1>4 DEF SameExcept
<1>10. GoodApp(t)
  BY <1>1, <1>3, <1>4, <1>5, <1>6, <1>7, <1>8, <1>9, SuspendedIsGood
<1> HIDE DEF new
<1> QED
  BY <1>10 DEF t, new

\* The handler of a view: it asks for the Emails that the view lists.
LEMMA ViewReadIsGood ==
    \A s, i, r :
        /\ GoodApp(s) /\ i \in DOMAIN s.tasks /\ s.tasks[i].at = "view" /\ GoodAnswer(s.tasks[i], r)
        => GoodApp(ViewRead(s, i, r))
<1> TAKE s, i, r
<1> HAVE GoodApp(s) /\ i \in DOMAIN s.tasks /\ s.tasks[i].at = "view" /\ GoodAnswer(s.tasks[i], r)
<1>1. PICK e : s.tasks[i].owner # "body" /\ Running(s, i, e)
  BY ReaderIsNoAttempt DEF ReadingAts
<1>2. BodyServed(s, Others(s, i))
  BY OthersServe
<1>3. /\ r.kind \in {"present", "absent", "ownerAbsent", "failed"}
      /\ r.kind = "present" => r.value.mailboxId = s.tasks[i].key
  BY DEF GoodAnswer
<1>4. CASE ~WindowIsCurrent(s, s.tasks[i])
  <2>1. ViewRead(s, i, r) = Finish(s, i, None)
    BY <1>4 DEF ViewRead
  <2>2. WindowServed(s, Others(s, i))
    BY <1>4, OthersServe DEF WindowIsCurrent
  <2>3. GoodApp(Finish(s, i, None))
    BY <1>1, <1>2, <2>2, FinishedIsGood
  <2> QED
    BY <2>1, <2>3, Zenon
<1>5. CASE WindowIsCurrent(s, s.tasks[i]) /\ r.kind = "failed"
  <2> DEFINE t == [s EXCEPT !.loadState = "error"]
  <2>1. ViewRead(s, i, r) = Finish(t, i, None)
    BY <1>5 DEF ViewRead
  <2>2. /\ Running(t, i, e) /\ Others(t, i) = Others(s, i) /\ t.tasks = s.tasks
        /\ WindowServed(t, Others(s, i))
        /\ BodyServed(s, Others(s, i)) => BodyServed(t, Others(s, i))
    BY <1>1, LoadedRuns, Zenon
  <2> HIDE DEF t
  <2>3. GoodApp(Finish(t, i, None))
    BY <1>1, <1>2, <2>2, FinishedIsGood
  <2> QED
    BY <2>1, <2>3, Zenon
<1>6. CASE WindowIsCurrent(s, s.tasks[i]) /\ r.kind \in {"ownerAbsent", "absent"}
  <2> DEFINE state == IF r.kind = "ownerAbsent" THEN "error" ELSE "notCached"
             t == SetWindow(s, {}, Empty, state)
  <2>1. ViewRead(s, i, r) = Finish(t, i, None)
    BY <1>6 DEF ViewRead
  <2>2. state # "loading" /\ DOMAIN Empty \subseteq Listed({})
    BY DEF Empty
  <2> HIDE DEF state
  <2>3. /\ Running(t, i, e) /\ Others(t, i) = Others(s, i) /\ t.tasks = s.tasks
        /\ t.email = s.email /\ t.loadState = state
        /\ BodyServed(s, Others(s, i)) => BodyServed(t, Others(s, i))
    <3>1. \A v \in {} : v.mailboxId = s.mailbox
      OBVIOUS
    <3> QED
      BY <1>1, <2>2, <3>1, SetWindowRuns
  <2> HIDE DEF t
  <2>4. WindowServed(t, Others(t, i))
    BY <2>2, <2>3 DEF WindowServed
  <2>5. GoodApp(Finish(t, i, None))
    BY <1>1, <1>2, <2>3, <2>4, FinishedIsGood
  <2> QED
    BY <2>1, <2>5, Zenon
<1>7. CASE WindowIsCurrent(s, s.tasks[i]) /\ r.kind = "present"
  <2> DEFINE shown == r.value
  <2>1. ViewRead(s, i, r) =
            [s EXCEPT !.tasks[i] = [@ EXCEPT !.at = "emails", !.phase = "asked", !.res = None, !.view = {shown}]]
    BY <1>7 DEF ViewRead
  <2>2. shown.mailboxId = s.tasks[i].key
    BY <1>3, <1>7
  <2> HIDE DEF shown
  <2>3. GoodApp([s EXCEPT !.tasks[i] =
                    [@ EXCEPT !.at = "emails", !.phase = "asked", !.res = None, !.view = {shown}]])
    BY <2>2, EmailsAskedIsGood, Zenon
  <2> QED
    BY <2>1, <2>3, Zenon
<1> QED
  BY <1>3, <1>4, <1>5, <1>6, <1>7

\* The body that follows the selection, with the demand for it when the selection moved.
LEMMA DemandedIsGood ==
    \A s, i, e, frame :
        /\ Running(s, i, e) /\ WindowServed(s, Others(s, i)) /\ s.tasks[i].owner # "body"
        /\ frame.do \in PlainFrames
        => GoodApp(RefreshSelectedBody(Push(s, i, frame), i))
<1> TAKE s, i, e, frame
<1> HAVE /\ Running(s, i, e) /\ WindowServed(s, Others(s, i)) /\ s.tasks[i].owner # "body"
         /\ frame.do \in PlainFrames
<1> DEFINE t == Push(s, i, frame)
<1>1. /\ Running(t, i, e) /\ Others(t, i) = Others(s, i) /\ SameExcept(s, t, {"tasks"})
      /\ t.tasks[i].owner = s.tasks[i].owner /\ t.tasks[i].then # <<>>
      /\ WindowServed(s, Others(s, i)) => WindowServed(t, Others(s, i))
      /\ BodyServed(s, Others(s, i)) => BodyServed(t, Others(s, i))
  BY PushRuns, Zenon
<1> HIDE DEF t
<1>2. GoodApp(RefreshSelectedBody(t, i))
  BY <1>1, RefreshBodyIsGood
<1> QED
  BY <1>2, Zenon DEF t

\* The handler of the Emails: it shows the list, and may select another Email.
LEMMA EmailsReadIsGood ==
    \A s, i, r :
        /\ GoodApp(s) /\ i \in DOMAIN s.tasks /\ s.tasks[i].at = "emails" /\ GoodAnswer(s.tasks[i], r)
        => GoodApp(EmailsRead(s, i, r))
<1> TAKE s, i, r
<1> HAVE GoodApp(s) /\ i \in DOMAIN s.tasks /\ s.tasks[i].at = "emails" /\ GoodAnswer(s.tasks[i], r)
<1>1. PICK e : s.tasks[i].owner # "body" /\ Running(s, i, e)
  BY ReaderIsNoAttempt DEF ReadingAts
<1>2. BodyServed(s, Others(s, i))
  BY OthersServe
<1>3. /\ r.kind \in {"present", "failed"}
      /\ r.kind = "present" => DOMAIN r.value \subseteq Listed(s.tasks[i].view)
  BY DEF GoodAnswer
<1>4. \A v \in s.tasks[i].view : v.mailboxId = s.tasks[i].key
  BY DEF GoodApp, GoodTask
<1>5. CASE ~WindowIsCurrent(s, s.tasks[i])
  <2>1. EmailsRead(s, i, r) = Finish(s, i, None)
    BY <1>5 DEF EmailsRead
  <2>2. WindowServed(s, Others(s, i))
    BY <1>5, OthersServe DEF WindowIsCurrent
  <2>3. GoodApp(Finish(s, i, None))
    BY <1>1, <1>2, <2>2, FinishedIsGood
  <2> QED
    BY <2>1, <2>3, Zenon
<1>6. CASE WindowIsCurrent(s, s.tasks[i])
  <2> DEFINE t == s.tasks[i]
             ids == UNION {{v.items[k].emailId : k \in DOMAIN v.items} : v \in t.view}
             kept == s.email # NoId /\ s.email \in ids
             next == IF kept THEN s.email
                     ELSE IF ids = {} THEN NoId ELSE (CHOOSE v \in t.view : TRUE).items[1].emailId
             shown == SetWindow(s, t.view, r.value, "ready")
             failed == SetWindow(s, t.view, Empty, "error")
             chosen == StoreSelectEmail(shown, next)
  <2>1. \/ EmailsRead(s, i, r) = Finish(failed, i, None)
        \/ /\ r.kind # "failed"
           /\ \/ EmailsRead(s, i, r) = RefreshSelectedBody(shown, i)
              \/ EmailsRead(s, i, r) = RefreshSelectedBody(chosen, i)
              \/ EmailsRead(s, i, r) = RefreshSelectedBody(Push(chosen, i, Frame("demand", next)), i)
    BY <1>6, Zenon DEF EmailsRead
  <2>2. \A v \in t.view : v.mailboxId = s.mailbox
    BY <1>4, <1>6 DEF WindowIsCurrent
  <2> DEFINE views == t.view
             found == r.value
  <2>3. /\ \A v \in views : v.mailboxId = s.mailbox
        /\ shown = SetWindow(s, views, found, "ready") /\ failed = SetWindow(s, views, Empty, "error")
    BY <2>2
  <2>4. DOMAIN Empty \subseteq Listed(views) /\ (r.kind # "failed" => DOMAIN found \subseteq Listed(views))
    BY <1>3 DEF Empty
  <2> HIDE DEF views, found, shown, failed, next
  <2>5. GoodApp(Finish(failed, i, None))
    <3> DEFINE state == "error"
    <3>0. state # "loading"
      OBVIOUS
    <3> HIDE DEF state
    <3>1. /\ Running(failed, i, e) /\ Others(failed, i) = Others(s, i) /\ failed.tasks = s.tasks
          /\ failed.email = s.email /\ failed.loadState = state
          /\ BodyServed(s, Others(s, i)) => BodyServed(failed, Others(s, i))
      <4> DEFINE nothing == Empty
                 u == SetWindow(s, views, nothing, state)
      <4>1. failed = u /\ DOMAIN nothing \subseteq Listed(views)
        BY <2>3, <2>4 DEF state
      <4> HIDE DEF nothing
      <4>2. /\ Running(u, i, e) /\ Others(u, i) = Others(s, i) /\ u.tasks = s.tasks
            /\ u.email = s.email /\ u.loadState = state
            /\ BodyServed(s, Others(s, i)) => BodyServed(u, Others(s, i))
        BY <1>1, <2>3, <3>0, <4>1, SetWindowRuns
      <4> HIDE DEF u
      <4> QED
        BY <4>1, <4>2
    <3>2. WindowServed(failed, Others(failed, i))
      BY <3>0, <3>1 DEF WindowServed
    <3> QED
      BY <1>1, <1>2, <3>1, <3>2, FinishedIsGood
  <2>6. ASSUME r.kind # "failed"
        PROVE  /\ GoodApp(RefreshSelectedBody(shown, i)) /\ GoodApp(RefreshSelectedBody(chosen, i))
               /\ GoodApp(RefreshSelectedBody(Push(chosen, i, Frame("demand", next)), i))
    <3>1. /\ Running(shown, i, e) /\ Others(shown, i) = Others(s, i) /\ shown.tasks = s.tasks
          /\ shown.loadState = "ready"
      BY <1>1, <2>3, <2>4, <2>6, SetWindowRuns
    <3>2. WindowServed(shown, Others(shown, i))
      BY <3>1 DEF WindowServed
    <3>3. GoodApp(RefreshSelectedBody(shown, i))
      BY <1>1, <3>1, <3>2, RefreshBodyIsGood
    <3>4. /\ Running(chosen, i, e) /\ Others(chosen, i) = Others(shown, i) /\ chosen.tasks = shown.tasks
          /\ WindowServed(chosen, Others(shown, i))
      BY <3>1, <3>2, SelectEmailRuns
    <3> HIDE DEF chosen
    <3>5. GoodApp(RefreshSelectedBody(chosen, i))
      BY <1>1, <3>1, <3>4, RefreshBodyIsGood
    <3>6. Frame("demand", next).do \in PlainFrames
      BY DEF Frame, PlainFrames
    <3>7. chosen.tasks[i].owner # "body" /\ WindowServed(chosen, Others(chosen, i))
      BY <1>1, <3>1, <3>4
    <3>8. GoodApp(RefreshSelectedBody(Push(chosen, i, Frame("demand", next)), i))
      BY <3>4, <3>6, <3>7, DemandedIsGood, Zenon
    <3> QED
      BY <3>3, <3>5, <3>8
  <2> HIDE DEF chosen
  <2> QED
    BY <2>1, <2>5, <2>6, Zenon
<1> QED
  BY <1>5, <1>6

\* The Mailboxes of the account are shown.
LEMMA KnownMailboxesRun ==
    \A s, i, e, known : Running(s, i, e) /\ (\A m \in known : m.accountKey = s.account) =>
        LET t == [s EXCEPT !.mailboxes = known] IN
        /\ Running(t, i, e) /\ Others(t, i) = Others(s, i) /\ SameExcept(s, t, {"mailboxes"})
        /\ t.mailboxes = known
        /\ WindowServed(s, Others(s, i)) => WindowServed(t, Others(s, i))
        /\ BodyServed(s, Others(s, i)) => BodyServed(t, Others(s, i))
<1> TAKE s, i, e, known
<1> HAVE Running(s, i, e) /\ (\A m \in known : m.accountKey = s.account)
<1> DEFINE t == [s EXCEPT !.mailboxes = known]
<1>1. DOMAIN s = AppFields
  BY DEF Running, Shape
<1>2. /\ DOMAIN t = AppFields /\ t.tasks = s.tasks /\ t.attempts = s.attempts /\ t.disposed = s.disposed
      /\ t.mailboxes = known /\ t.account = s.account /\ t.mailbox = s.mailbox /\ t.view = s.view
      /\ t.emails = s.emails /\ t.bodyState = s.bodyState /\ t.email = s.email /\ t.body = s.body
      /\ t.materializing = s.materializing /\ t.loadState = s.loadState
      /\ SameExcept(s, t, {"mailboxes"})
  BY <1>1 DEF AppFields, SameExcept
<1> HIDE DEF t
<1>3. Shown(t)
  BY <1>2 DEF Running, Shown
<1>4. Running(t, i, e) /\ Others(t, i) = Others(s, i)
  BY <1>2, <1>3, StillRunning
<1>5. /\ WindowServed(s, Others(s, i)) => WindowServed(t, Others(s, i))
      /\ BodyServed(s, Others(s, i)) => BodyServed(t, Others(s, i))
  BY <1>2 DEF WindowServed, BodyServed
<1>6. /\ Running(t, i, e) /\ Others(t, i) = Others(s, i) /\ SameExcept(s, t, {"mailboxes"})
      /\ t.mailboxes = known
      /\ WindowServed(s, Others(s, i)) => WindowServed(t, Others(s, i))
      /\ BodyServed(s, Others(s, i)) => BodyServed(t, Others(s, i))
  BY <1>2, <1>4, <1>5
<1> QED
  BY <1>6, Zenon DEF t

\* After a selection was dropped, nothing loads.
LEMMA DroppedRuns ==
    \A s, t, i, e :
        /\ Running(s, i, e) /\ SameExcept(s, t, Neutral \cup {"mailboxes", "loadState"})
        /\ t.mailboxes \subseteq s.mailboxes /\ t.loadState # "loading" /\ s.bodyState = "idle"
        => /\ Running(t, i, e) /\ Others(t, i) = Others(s, i) /\ t.tasks = s.tasks
           /\ WindowServed(t, Others(s, i)) /\ BodyServed(t, Others(s, i))
<1> TAKE s, t, i, e
<1> HAVE /\ Running(s, i, e) /\ SameExcept(s, t, Neutral \cup {"mailboxes", "loadState"})
         /\ t.mailboxes \subseteq s.mailboxes /\ t.loadState # "loading" /\ s.bodyState = "idle"
<1>1. DOMAIN s = AppFields
  BY DEF Running, Shape
<1>2. /\ DOMAIN t = AppFields /\ t.tasks = s.tasks /\ t.attempts = s.attempts /\ t.disposed = s.disposed
      /\ t.account = s.account /\ t.mailbox = s.mailbox /\ t.view = s.view
      /\ t.emails = s.emails /\ t.bodyState = s.bodyState /\ t.email = s.email /\ t.body = s.body
      /\ t.materializing = s.materializing
  BY <1>1 DEF SameExcept, Neutral, AppFields
<1>3. Shown(t)
  BY <1>2 DEF Running, Shown
<1>4. Running(t, i, e) /\ Others(t, i) = Others(s, i)
  BY <1>2, <1>3, StillRunning
<1>5. WindowServed(t, Others(s, i)) /\ BodyServed(t, Others(s, i))
  BY <1>2 DEF WindowServed, BodyServed
<1> QED
  BY <1>2, <1>4, <1>5

\* The handler of the Mailboxes: it may select another one, and reads its view.
LEMMA MailboxesReadIsGood ==
    \A s, i, r :
        /\ GoodApp(s) /\ i \in DOMAIN s.tasks /\ s.tasks[i].at = "mailboxes" /\ GoodAnswer(s.tasks[i], r)
        => GoodApp(MailboxesRead(s, i, r))
<1> TAKE s, i, r
<1> HAVE GoodApp(s) /\ i \in DOMAIN s.tasks /\ s.tasks[i].at = "mailboxes" /\ GoodAnswer(s.tasks[i], r)
<1>1. PICK e : s.tasks[i].owner # "body" /\ Running(s, i, e)
  BY ReaderIsNoAttempt DEF ReadingAts
<1>2. WindowServed(s, Others(s, i)) /\ BodyServed(s, Others(s, i))
  BY OthersServe DEF WindowAts
<1>3. /\ r.kind \in {"present", "ownerAbsent", "failed"}
      /\ r.kind = "present" => \A m \in r.value : m \in ToSet(MailboxOrder) /\ m.accountKey = s.tasks[i].key.accountKey
  BY DEF GoodAnswer
<1>0. DOMAIN s = AppFields
  BY DEF GoodApp, Shape
<1>4. CASE ~s.tasks[i].fresh \/ s.account # s.tasks[i].key.accountKey
  <2>1. MailboxesRead(s, i, r) = Finish(s, i, None)
    BY <1>4 DEF MailboxesRead
  <2>2. GoodApp(Finish(s, i, None))
    BY <1>1, <1>2, FinishedIsGood
  <2> QED
    BY <2>1, <2>2, Zenon
<1>5. CASE s.tasks[i].fresh /\ s.account = s.tasks[i].key.accountKey /\ r.kind = "failed"
  <2>1. MailboxesRead(s, i, r) = Throw(s, i, "mailboxes")
    BY <1>5 DEF MailboxesRead
  <2>2. GoodApp(Throw(s, i, "mailboxes"))
    BY <1>1, <1>2, ThrowIsGood
  <2> QED
    BY <2>1, <2>2, Zenon
<1>6. CASE s.tasks[i].fresh /\ s.account = s.tasks[i].key.accountKey /\ r.kind = "ownerAbsent"
  <2> DEFINE u == StoreSelectMailbox(s, NoId)
             t == [u EXCEPT !.mailboxes = {}, !.loadState = "error"]
  <2>1. MailboxesRead(s, i, r) = Finish(t, i, None)
    BY <1>6 DEF MailboxesRead
  <2>2. /\ Running(u, i, e) /\ Others(u, i) = Others(s, i) /\ u.tasks = s.tasks /\ u.bodyState = "idle"
    BY <1>1, SelectMailboxRuns
  <2> HIDE DEF u
  <2>3. SameExcept(u, t, Neutral \cup {"mailboxes", "loadState"}) /\ t.mailboxes = {} /\ t.loadState = "error"
    BY <2>2 DEF Running, Shape, SameExcept, AppFields
  <2> HIDE DEF t
  <2>4. /\ Running(t, i, e) /\ Others(t, i) = Others(u, i) /\ t.tasks = u.tasks
        /\ WindowServed(t, Others(u, i)) /\ BodyServed(t, Others(u, i))
    BY <2>2, <2>3, DroppedRuns
  <2>5. GoodApp(Finish(t, i, None))
    BY <1>1, <2>2, <2>4, FinishedIsGood
  <2> QED
    BY <2>1, <2>5, Zenon
<1>7. CASE s.tasks[i].fresh /\ s.account = s.tasks[i].key.accountKey /\ r.kind = "present"
  <2> DEFINE boxes == r.value
             known == [s EXCEPT !.mailboxes = boxes]
             m == First(MailboxOrder, boxes)
             none == StoreSelectMailbox(known, NoId)
             empty == [none EXCEPT !.loadState = "ready"]
             chosen == StoreSelectMailbox(known, m)
  <2>1. MailboxesRead(s, i, r) =
            IF boxes = {} THEN Finish(empty, i, None)
            ELSE IF s.mailbox \in boxes THEN RefreshMailboxWindow(known, i)
            ELSE RefreshMailboxWindow(chosen, i)
    BY <1>7 DEF MailboxesRead
  <2>2. boxes \subseteq ToSet(MailboxOrder) /\ \A b \in boxes : b.accountKey = s.account
    BY <1>3, <1>7
  <2> HIDE DEF boxes
  <2>3. /\ Running(known, i, e) /\ Others(known, i) = Others(s, i) /\ SameExcept(s, known, {"mailboxes"})
        /\ known.mailboxes = boxes
        /\ WindowServed(s, Others(s, i)) => WindowServed(known, Others(s, i))
        /\ BodyServed(s, Others(s, i)) => BodyServed(known, Others(s, i))
    BY <1>1, <2>2, KnownMailboxesRun, Zenon
  <2> HIDE DEF known
  <2>4. /\ known.tasks = s.tasks /\ known.mailbox = s.mailbox /\ known.loadState = s.loadState /\ known.account = s.account
    BY <1>0, <2>3 DEF SameExcept, AppFields
  <2>5. CASE boxes = {}
    <3>1. /\ Running(none, i, e) /\ Others(none, i) = Others(known, i) /\ none.tasks = known.tasks
          /\ none.bodyState = "idle"
      BY <2>3, SelectMailboxRuns
    <3> HIDE DEF none
    <3>2. /\ SameExcept(none, empty, Neutral \cup {"mailboxes", "loadState"})
          /\ empty.mailboxes = none.mailboxes /\ empty.loadState = "ready"
      BY <3>1 DEF Running, Shape, SameExcept, AppFields
    <3> HIDE DEF empty
    <3>3. /\ Running(empty, i, e) /\ Others(empty, i) = Others(none, i) /\ empty.tasks = none.tasks
          /\ WindowServed(empty, Others(none, i)) /\ BodyServed(empty, Others(none, i))
      BY <3>1, <3>2, DroppedRuns
    <3>4. GoodApp(Finish(empty, i, None))
      BY <1>1, <2>4, <3>1, <3>3, FinishedIsGood
    <3> QED
      BY <2>1, <2>5, <3>4, Zenon
  <2>6. CASE boxes # {} /\ s.mailbox \in boxes
    <3>1. known.loadState = "loading" => known.mailbox # NoId
      BY <1>2, <2>4 DEF WindowServed
    <3>2. GoodApp(RefreshMailboxWindow(known, i))
      BY <1>1, <1>2, <2>3, <2>4, <3>1, RefreshWindowIsGood
    <3> QED
      BY <2>1, <2>6, <3>2, Zenon
  <2>7. CASE boxes # {} /\ s.mailbox \notin boxes
    <3>1. m \in boxes
      BY <2>2, <2>7, FirstIsIn, MailboxOrderAssumption
    <3> HIDE DEF m
    <3>2. m # NoId => m.accountKey = known.account
      BY <2>2, <2>4, <3>1
    <3>3. /\ Running(chosen, i, e) /\ Others(chosen, i) = Others(known, i) /\ chosen.tasks = known.tasks
          /\ chosen.loadState = "idle" /\ chosen.bodyState = "idle"
      BY <2>3, <3>2, SelectMailboxRuns
    <3> HIDE DEF chosen
    <3>4. BodyServed(chosen, Others(chosen, i))
      BY <3>3 DEF BodyServed
    <3>5. GoodApp(RefreshMailboxWindow(chosen, i))
      BY <1>1, <2>4, <3>3, <3>4, RefreshWindowIsGood
    <3> QED
      BY <2>1, <2>7, <3>5, Zenon
  <2> QED
    BY <2>5, <2>6, <2>7
<1> QED
  BY <1>3, <1>4, <1>5, <1>6, <1>7

\* An update of such fields before an async function returns.
LEMMA FinishedAfterUpdate ==
    \A s, t, i, e, value :
        /\ Running(s, i, e) /\ WindowServed(s, Others(s, i)) /\ BodyServed(s, Others(s, i))
        /\ s.tasks[i].owner # "body" /\ SameExcept(s, t, Neutral)
        => GoodApp(Finish(t, i, value))
<1> TAKE s, t, i, e, value
<1> HAVE /\ Running(s, i, e) /\ WindowServed(s, Others(s, i)) /\ BodyServed(s, Others(s, i))
         /\ s.tasks[i].owner # "body" /\ SameExcept(s, t, Neutral)
<1>1. /\ Running(t, i, e) /\ Others(t, i) = Others(s, i) /\ t.tasks = s.tasks
      /\ WindowServed(t, Others(s, i)) /\ BodyServed(t, Others(s, i))
  BY NeutralRuns
<1> QED
  BY <1>1, FinishedIsGood

\* The handler of the statuses.
LEMMA StatusesReadIsGood ==
    \A s, i, r : GoodApp(s) /\ i \in DOMAIN s.tasks /\ s.tasks[i].at = "statuses" => GoodApp(StatusesRead(s, i, r))
<1> TAKE s, i, r
<1> HAVE GoodApp(s) /\ i \in DOMAIN s.tasks /\ s.tasks[i].at = "statuses"
<1>1. PICK e : s.tasks[i].owner # "body" /\ Running(s, i, e)
  BY ReaderIsNoAttempt DEF ReadingAts
<1>2. WindowServed(s, Others(s, i)) /\ BodyServed(s, Others(s, i))
  BY OthersServe DEF WindowAts
<1> DEFINE a == s.tasks[i].key.accountKey
           more == s.missed \cup {<<"statuses", a>>}
           fewer == Without(s.statuses, {a})
           new == With(s.statuses, Entry(a, r.value))
           missing == [s EXCEPT !.missed = more]
           absent == [s EXCEPT !.statuses = fewer]
           read == [s EXCEPT !.statuses = new]
<1>3. \/ StatusesRead(s, i, r) = Finish(s, i, None)
      \/ StatusesRead(s, i, r) = Finish(missing, i, None)
      \/ StatusesRead(s, i, r) = Finish(absent, i, None)
      \/ StatusesRead(s, i, r) = Finish(read, i, None)
  BY Zenon DEF StatusesRead
<1>4. DOMAIN s = AppFields
  BY DEF GoodApp, Shape
<1> HIDE DEF more, fewer, new
<1>5. SameExcept(s, s, Neutral) /\ SameExcept(s, missing, Neutral) /\ SameExcept(s, absent, Neutral) /\ SameExcept(s, read, Neutral)
  BY <1>4 DEF SameExcept, AppFields, Neutral
<1> HIDE DEF missing, absent, read
<1>6. /\ GoodApp(Finish(s, i, None)) /\ GoodApp(Finish(missing, i, None))
      /\ GoodApp(Finish(absent, i, None)) /\ GoodApp(Finish(read, i, None))
  BY <1>1, <1>2, <1>5, FinishedAfterUpdate
<1> QED
  BY <1>3, <1>6, Zenon

\* The handler of the accounts: it may select another one, and reads its Mailboxes.
LEMMA AccountsReadIsGood ==
    \A s, i, r : GoodApp(s) /\ i \in DOMAIN s.tasks /\ s.tasks[i].at = "accounts" => GoodApp(AccountsRead(s, i, r))
<1> TAKE s, i, r
<1> HAVE GoodApp(s) /\ i \in DOMAIN s.tasks /\ s.tasks[i].at = "accounts"
<1>1. PICK e : s.tasks[i].owner # "body" /\ Running(s, i, e)
  BY ReaderIsNoAttempt DEF ReadingAts
<1>2. WindowServed(s, Others(s, i)) /\ BodyServed(s, Others(s, i))
  BY OthersServe DEF WindowAts
<1>3. GoodApp(Finish(s, i, None)) /\ GoodApp(Throw(s, i, "accounts"))
  BY <1>1, <1>2, FinishedIsGood, ThrowIsGood
<1>0. DOMAIN s = AppFields
  BY DEF GoodApp, Shape
<1> DEFINE accounts == r.value
           known == [s EXCEPT !.accounts = accounts]
           a == First(AccountOrder, accounts)
           none == StoreSelectAccount(known, None)
           empty == [none EXCEPT !.statuses = Empty, !.loadState = "ready"]
           chosen == StoreSelectAccount(known, a)
<1>4. \/ AccountsRead(s, i, r) = Finish(s, i, None)
      \/ AccountsRead(s, i, r) = Throw(s, i, "accounts")
      \/ AccountsRead(s, i, r) = Finish(empty, i, None)
      \/ AccountsRead(s, i, r) = ShowAccount(known, i, s.account)
      \/ AccountsRead(s, i, r) = ShowAccount(chosen, i, a)
  BY Zenon DEF AccountsRead
<1> HIDE DEF accounts, a
<1>5. SameExcept(s, known, Neutral)
  BY <1>0 DEF SameExcept, AppFields, Neutral
<1> HIDE DEF known
<1>6. /\ Running(known, i, e) /\ Others(known, i) = Others(s, i) /\ known.tasks = s.tasks
      /\ WindowServed(known, Others(s, i)) /\ BodyServed(known, Others(s, i))
  BY <1>1, <1>2, <1>5, NeutralRuns
<1>7. GoodApp(Finish(empty, i, None))
  <2>1. /\ Running(none, i, e) /\ Others(none, i) = Others(known, i) /\ none.tasks = known.tasks
        /\ none.bodyState = "idle"
    BY <1>6, SelectAccountRuns
  <2> HIDE DEF none
  <2>2. /\ SameExcept(none, empty, Neutral \cup {"mailboxes", "loadState"})
        /\ empty.mailboxes = none.mailboxes /\ empty.loadState = "ready"
    BY <2>1 DEF Running, Shape, SameExcept, AppFields, Neutral
  <2> HIDE DEF empty
  <2>3. /\ Running(empty, i, e) /\ Others(empty, i) = Others(none, i) /\ empty.tasks = none.tasks
        /\ WindowServed(empty, Others(none, i)) /\ BodyServed(empty, Others(none, i))
    BY <2>1, <2>2, DroppedRuns
  <2> QED
    BY <1>1, <1>6, <2>1, <2>3, FinishedIsGood
<1>8. \A b : GoodApp(ShowAccount(known, i, b))
  BY <1>1, <1>6, ShowAccountIsGood
<1>9. \A b : GoodApp(ShowAccount(chosen, i, b))
  <2>1. /\ Running(chosen, i, e) /\ Others(chosen, i) = Others(known, i) /\ chosen.tasks = known.tasks
        /\ chosen.loadState = "idle" /\ chosen.bodyState = "idle"
    BY <1>6, SelectAccountRuns
  <2> HIDE DEF chosen
  <2>2. WindowServed(chosen, Others(chosen, i)) /\ BodyServed(chosen, Others(chosen, i))
    BY <2>1 DEF WindowServed, BodyServed
  <2> QED
    BY <1>1, <1>6, <2>1, <2>2, ShowAccountIsGood
<1> HIDE DEF none, empty, chosen
<1> QED
  BY <1>3, <1>4, <1>7, <1>8, <1>9, Zenon

\* The handler of the subscription.
LEMMA SubscribedIsGood ==
    \A s, i, r : GoodApp(s) /\ i \in DOMAIN s.tasks /\ s.tasks[i].at = "subscribe" => GoodApp(Subscribed(s, i, r))
<1> TAKE s, i, r
<1> HAVE GoodApp(s) /\ i \in DOMAIN s.tasks /\ s.tasks[i].at = "subscribe"
<1>1. PICK e : s.tasks[i].owner # "body" /\ Running(s, i, e)
  BY ReaderIsNoAttempt DEF ReadingAts
<1>2. WindowServed(s, Others(s, i)) /\ BodyServed(s, Others(s, i))
  BY OthersServe DEF WindowAts
<1>0. DOMAIN s = AppFields
  BY DEF GoodApp, Shape
<1> DEFINE u == End(s, i)
           failed == [u EXCEPT !.local = "error", !.loadState = "error"]
           heard == [s EXCEPT !.subscribed = TRUE]
           frame == Frame("ready", NoId)
           t == Push(heard, i, frame)
<1>3. \/ Subscribed(s, i, r) = failed
      \/ Subscribed(s, i, r) = RefreshAccounts(t, i)
  BY Zenon DEF Subscribed
<1>4. GoodApp(failed)
  <2>1. GoodApp(u)
    BY <1>1, <1>2, EndedIsGood
  <2> HIDE DEF u
  <2>2. SameExcept(u, failed, Neutral \cup {"loadState"}) /\ failed.loadState = "error"
    BY <2>1 DEF GoodApp, Shape, SameExcept, Neutral, AppFields
  <2> HIDE DEF failed
  <2> QED
    BY <2>1, <2>2, NeutralIsGood
<1>5. GoodApp(RefreshAccounts(t, i))
  <2>1. SameExcept(s, heard, Neutral)
    BY <1>0 DEF SameExcept, AppFields, Neutral
  <2> HIDE DEF heard
  <2>2. /\ Running(heard, i, e) /\ Others(heard, i) = Others(s, i) /\ heard.tasks = s.tasks
        /\ WindowServed(heard, Others(s, i)) /\ BodyServed(heard, Others(s, i))
    BY <1>1, <1>2, <2>1, NeutralRuns
  <2>3. frame.do \in PlainFrames /\ heard.tasks[i].owner # "body"
    BY <1>1, <2>2 DEF Frame, PlainFrames
  <2> HIDE DEF frame
  <2>4. /\ Running(t, i, e) /\ Others(t, i) = Others(heard, i) /\ t.tasks[i].owner = heard.tasks[i].owner
        /\ WindowServed(t, Others(heard, i)) /\ BodyServed(t, Others(heard, i))
    BY <2>2, <2>3, PushRuns
  <2> HIDE DEF t
  <2>5. \A key : GoodApp(Await(t, i, "accounts", key))
    BY <2>3, <2>4, OtherReadIsGood
  <2>6. RefreshAccounts(t, i) = Await(t, i, "accounts", NoId)
    BY DEF RefreshAccounts
  <2> QED
    BY <2>5, <2>6, Zenon
<1> HIDE DEF failed, t
<1> QED
  BY <1>3, <1>4, <1>5, Zenon

-----------------------------------------------------------------------------
(* Attempts on bodies, and the code after an awaited call. *)

\* A body that is not shown, where nothing runs.
LEMMA BodyMissingIsGood ==
    \A s, state : GoodApp(s) /\ state \in {"ownerAbsent", "notCached"} => GoodApp(SetEmailBody(s, NoId, state))
<1> TAKE s, state
<1> HAVE GoodApp(s) /\ state \in {"ownerAbsent", "notCached"}
<1> DEFINE t == SetEmailBody(s, NoId, state)
<1>1. DOMAIN s = AppFields
  BY DEF GoodApp, Shape
<1>2. /\ SameExcept(s, t, {"body", "bodyState", "materializing", "bodyError"})
      /\ t.body = NoId /\ t.bodyState = state /\ (t.materializing => s.materializing)
  BY <1>1, SetterEffects
<1> HIDE DEF t
<1>3. /\ DOMAIN t = AppFields /\ t.tasks = s.tasks /\ t.attempts = s.attempts /\ t.disposed = s.disposed
      /\ t.mailboxes = s.mailboxes /\ t.account = s.account /\ t.mailbox = s.mailbox /\ t.view = s.view
      /\ t.emails = s.emails /\ t.loadState = s.loadState /\ t.email = s.email
  BY <1>1, <1>2 DEF SameExcept, AppFields
<1>4. Shape(t) /\ Shown(t) /\ Attempted(t, DOMAIN t.tasks)
  BY <1>2, <1>3 DEF GoodApp, Shape, Shown, Attempted
<1>5. WindowServed(t, DOMAIN t.tasks) /\ BodyServed(t, DOMAIN t.tasks)
  BY <1>2, <1>3 DEF GoodApp, WindowServed, BodyServed
<1>6. \A j \in DOMAIN t.tasks : GoodTask(t.tasks[j])
  BY <1>3 DEF GoodApp
<1>7. GoodApp(t)
  BY <1>4, <1>5, <1>6 DEF GoodApp
<1> QED
  BY <1>7 DEF t

\* Only the task that carries the selected attempt ends it, and it stops the spinner.
LEMMA FinishBodyIsGood ==
    \A s, i, e, outcome :
        /\ Running(s, i, e) /\ WindowServed(s, Others(s, i)) /\ BodyServed(s, Others(s, i))
        => GoodApp(FinishBodyMaterialization(s, i, e, outcome))
<1> TAKE s, i, e, outcome
<1> HAVE Running(s, i, e) /\ WindowServed(s, Others(s, i)) /\ BodyServed(s, Others(s, i))
<1>0. DOMAIN s = AppFields
  BY DEF Running, Shape
<1> DEFINE done == End(s, i)
           settled == [done EXCEPT !.materializing = FALSE]
           state == IF outcome = "emailAbsent" THEN "ownerAbsent" ELSE "notCached"
           missing == SetEmailBody(settled, NoId, state)
           failed == [missing EXCEPT !.bodyError = TRUE]
<1>1. \/ (s.email # e \/ s.disposed) /\ FinishBodyMaterialization(s, i, e, outcome) = done
      \/ FinishBodyMaterialization(s, i, e, outcome) \in {settled, failed}
  BY DEF FinishBodyMaterialization
<1>2. ASSUME s.email # e \/ s.disposed PROVE GoodApp(done)
  BY <1>2, EndedIsGood
<1>3. GoodApp(settled)
  <2> DEFINE u == [s EXCEPT !.materializing = FALSE]
  <2>1. /\ DOMAIN u = AppFields /\ u.tasks = s.tasks /\ u.attempts = s.attempts /\ u.disposed = s.disposed
        /\ u.mailboxes = s.mailboxes /\ u.account = s.account /\ u.mailbox = s.mailbox /\ u.view = s.view
        /\ u.emails = s.emails /\ u.bodyState = s.bodyState /\ u.email = s.email /\ u.body = s.body
        /\ u.loadState = s.loadState /\ u.materializing = FALSE
        /\ \A f \in AppFields \ {"materializing"} : u[f] = s[f]
    BY <1>0 DEF AppFields
  <2> HIDE DEF u
  <2>2. Shown(u)
    BY <2>1 DEF Running, Shown
  <2>3. Running(u, i, e) /\ Others(u, i) = Others(s, i)
    BY <2>1, <2>2, StillRunning
  <2>4. WindowServed(u, Others(u, i)) /\ BodyServed(u, Others(u, i))
    BY <2>1, <2>3 DEF WindowServed, BodyServed
  <2>5. GoodApp(End(u, i))
    BY <2>1, <2>3, <2>4, EndedIsGood
  <2>6. SameExcept(End(u, i), settled, Neutral \cup {"loadState"}) /\ settled.loadState = End(u, i).loadState
    <3> DEFINE after == End(u, i)
    <3>1. /\ DOMAIN done = AppFields /\ \A f \in AppFields \ {"tasks", "attempts"} : done[f] = s[f]
          /\ done.tasks = Without(s.tasks, {i}) /\ done.attempts = {x \in s.attempts : x[2] # i}
      BY <1>0 DEF End, AppFields
    <3>2. /\ DOMAIN after = AppFields /\ \A f \in AppFields \ {"tasks", "attempts"} : after[f] = u[f]
          /\ after.tasks = Without(s.tasks, {i}) /\ after.attempts = {x \in s.attempts : x[2] # i}
      BY <2>1 DEF End, AppFields
    <3> HIDE DEF done, after
    <3>3. /\ DOMAIN settled = AppFields /\ \A f \in AppFields \ {"materializing"} : settled[f] = done[f]
          /\ settled.materializing = FALSE
      BY <3>1 DEF AppFields
    <3>4. after.materializing = FALSE
      BY <2>1, <3>2 DEF AppFields
    <3> HIDE DEF settled
    <3>5. \A f \in AppFields : settled[f] = after[f]
      <4>1. \A f \in AppFields \ {"tasks", "attempts", "materializing"} : settled[f] = s[f]
        BY <3>1, <3>3
      <4>2. \A f \in AppFields \ {"tasks", "attempts", "materializing"} : after[f] = s[f]
        BY <2>1, <3>2
      <4>3. settled.tasks = done.tasks /\ settled.attempts = done.attempts
        BY <3>3 DEF AppFields
      <4> QED
        BY <3>1, <3>2, <3>3, <3>4, <4>1, <4>2, <4>3
    <3>6. SameExcept(after, settled, Neutral \cup {"loadState"}) /\ settled.loadState = after.loadState
      BY <3>2, <3>3, <3>5 DEF SameExcept, AppFields
    <3> QED
      BY <3>6 DEF after
  <2> HIDE DEF settled
  <2> QED
    BY <2>5, <2>6, NeutralIsGood
<1>4. GoodApp(failed)
  <2>1. state \in {"ownerAbsent", "notCached"}
    OBVIOUS
  <2> HIDE DEF settled, state
  <2>2. GoodApp(missing)
    BY <1>3, <2>1, BodyMissingIsGood
  <2> HIDE DEF missing
  <2>3. SameExcept(missing, failed, Neutral \cup {"loadState"}) /\ failed.loadState = missing.loadState
    BY <2>2 DEF GoodApp, Shape, SameExcept, AppFields, Neutral
  <2> HIDE DEF failed
  <2> QED
    BY <2>2, <2>3, NeutralIsGood
<1> HIDE DEF done, settled, failed
<1> QED
  BY <1>1, <1>2, <1>3, <1>4

\* The handler of a fetched body: it rereads the body, or ends the attempt.
LEMMA MaterializedIsGood ==
    \A s, i, r : GoodApp(s) /\ i \in DOMAIN s.tasks /\ s.tasks[i].at = "materialize" => GoodApp(Materialized(s, i, r))
<1> TAKE s, i, r
<1> HAVE GoodApp(s) /\ i \in DOMAIN s.tasks /\ s.tasks[i].at = "materialize"
<1> DEFINE e == s.tasks[i].key
           frame == Frame("reread", e)
           t == Push(s, i, frame)
<1>1. s.tasks[i].owner = "body" /\ s.tasks[i].then = <<>> /\ Carries(s.tasks[i], e)
  BY DEF GoodApp, GoodTask, Carries
<1>2. WindowServed(s, Others(s, i)) /\ BodyServed(s, Others(s, i))
  BY OthersServe DEF WindowAts
<1>3. \/ s.disposed /\ Materialized(s, i, r) = End(s, i)
      \/ Materialized(s, i, r) = RefreshSelectedBody(t, i)
      \/ Materialized(s, i, r) = FinishBodyMaterialization(s, i, e, r.kind)
  BY Zenon DEF Materialized
<1>4. frame = Frame("reread", e)
  OBVIOUS
<1> HIDE DEF e, frame
<1>5. Running(s, i, e)
  BY <1>1, TaskRuns
<1>6. ASSUME s.disposed PROVE GoodApp(End(s, i))
  BY <1>2, <1>5, <1>6, EndedIsGood
<1>7. /\ Running(t, i, e) /\ Others(t, i) = Others(s, i) /\ t.tasks[i].then # <<>>
      /\ WindowServed(t, Others(s, i))
  BY <1>1, <1>2, <1>4, <1>5, PushRuns
<1> HIDE DEF t
<1>8. GoodApp(RefreshSelectedBody(t, i))
  BY <1>7, RefreshBodyIsGood
<1>9. \A outcome : GoodApp(FinishBodyMaterialization(s, i, e, outcome))
  BY <1>2, <1>5, FinishBodyIsGood
<1> QED
  BY <1>3, <1>6, <1>8, <1>9, Zenon

\* The invariant without the readers.
Resting(s) ==
    /\ Shape(s) /\ Shown(s)
    /\ \A j \in DOMAIN s.tasks : GoodTask(s.tasks[j])
    /\ Attempted(s, DOMAIN s.tasks)

\* A call that starts gets a task of its own.
LEMMA SpawnRuns ==
    \A s, owner, e : Resting(s) /\ owner \in Owners =>
        LET t == Spawn(s, owner)
            n == NextTask(s)
        IN  /\ Running(t, n, e) /\ Others(t, n) = DOMAIN s.tasks /\ SameExcept(s, t, {"tasks"})
            /\ n \notin DOMAIN s.tasks /\ t.tasks[n].owner = owner /\ t.tasks[n].then = <<>>
            /\ \A j \in DOMAIN s.tasks : t.tasks[j] = s.tasks[j]
            /\ WindowServed(s, DOMAIN s.tasks) => WindowServed(t, DOMAIN s.tasks)
            /\ BodyServed(s, DOMAIN s.tasks) => BodyServed(t, DOMAIN s.tasks)
<1> TAKE s, owner, e
<1> HAVE Resting(s) /\ owner \in Owners
<1> DEFINE n == NextTask(s)
           new == [owner |-> owner, at |-> "run", key |-> NoId, fresh |-> FALSE, phase |-> "run",
                   res |-> None, view |-> {}, then |-> <<>>]
           tasks == With(s.tasks, Entry(n, new))
           t == [s EXCEPT !.tasks = tasks]
<1>1. Spawn(s, owner) = t
  BY DEF Spawn
<1>2. n \notin DOMAIN s.tasks
  BY NextTaskIsFree DEF Resting
<1>3. DOMAIN new = TaskFields /\ new.owner = owner /\ new.then = <<>>
  BY DEF TaskFields
<1> HIDE DEF n, new
<1>4. DOMAIN tasks = DOMAIN s.tasks \cup {n} /\ tasks[n] = new /\ \A j \in DOMAIN s.tasks : tasks[j] = s.tasks[j]
  BY <1>2 DEF With, Entry
<1> HIDE DEF tasks
<1>5. DOMAIN s = AppFields
  BY DEF Resting, Shape
<1>6. /\ DOMAIN t = AppFields /\ t.tasks = tasks /\ t.attempts = s.attempts /\ t.disposed = s.disposed
      /\ t.mailboxes = s.mailboxes /\ t.account = s.account /\ t.mailbox = s.mailbox /\ t.view = s.view
      /\ t.emails = s.emails /\ t.bodyState = s.bodyState /\ t.email = s.email /\ t.body = s.body
      /\ t.loadState = s.loadState /\ t.materializing = s.materializing
      /\ SameExcept(s, t, {"tasks"})
  BY <1>5 DEF AppFields, SameExcept
<1> HIDE DEF t
<1>7. Others(t, n) = DOMAIN s.tasks
  BY <1>2, <1>4, <1>6 DEF Others
<1>8. Shape(t)
  <2>1. IsFiniteSet(DOMAIN s.tasks)
    BY DEF Resting, Shape
  <2>2. IsFiniteSet(DOMAIN s.tasks \cup {n})
    BY <2>1, FS_AddElement
  <2> QED
    BY <1>4, <1>6, <2>2 DEF Shape
<1>9. Shown(t)
  BY <1>6 DEF Resting, Shown
<1>10. \A x \in t.attempts : x[2] \in DOMAIN s.tasks
  BY <1>6 DEF Resting, Attempted
<1>11. Attempted(t, DOMAIN s.tasks)
  BY <1>4, <1>6, <1>10 DEF Resting, Attempted
<1>12. IF new.owner = "body" THEN new.then \in {<<>>, <<Frame("reread", e)>>} ELSE Frames(new.then, PlainFrames)
  BY <1>3, NoFrames
<1>13. \A j \in DOMAIN s.tasks : GoodTask(t.tasks[j])
  BY <1>4, <1>6 DEF Resting
<1>14. Running(t, n, e)
  BY <1>2, <1>3, <1>4, <1>6, <1>7, <1>8, <1>9, <1>10, <1>11, <1>12, <1>13 DEF Running
<1>15. /\ WindowServed(s, DOMAIN s.tasks) => WindowServed(t, DOMAIN s.tasks)
       /\ BodyServed(s, DOMAIN s.tasks) => BodyServed(t, DOMAIN s.tasks)
  BY <1>4, <1>6 DEF WindowServed, BodyServed
<1>16. /\ Running(t, n, e) /\ Others(t, n) = DOMAIN s.tasks /\ SameExcept(s, t, {"tasks"})
       /\ n \notin DOMAIN s.tasks /\ t.tasks[n].owner = owner /\ t.tasks[n].then = <<>>
       /\ \A j \in DOMAIN s.tasks : t.tasks[j] = s.tasks[j]
       /\ WindowServed(s, DOMAIN s.tasks) => WindowServed(t, DOMAIN s.tasks)
       /\ BodyServed(s, DOMAIN s.tasks) => BodyServed(t, DOMAIN s.tasks)
  BY <1>2, <1>3, <1>4, <1>6, <1>7, <1>14, <1>15
<1> QED
  BY <1>1, <1>16, Zenon DEF n

\* An attempt that starts: a task of its own, which the map of attempts names.
Started(s, t, n, f) ==
    /\ SameExcept(s, t, {"tasks", "attempts", "materializing", "bodyError", "missed"})
    /\ n \notin DOMAIN s.tasks /\ DOMAIN t.tasks = DOMAIN s.tasks \cup {n}
    /\ \A j \in DOMAIN s.tasks :
          Outdated(s.tasks[j], t.tasks[j]) /\ (s.tasks[j].at # "materialize" => t.tasks[j] = s.tasks[j])
    /\ GoodTask(t.tasks[n]) /\ Carries(t.tasks[n], f)
    /\ t.attempts = s.attempts \cup {<<f, n>>}
    /\ t.materializing => s.materializing \/ s.email = f
    /\ t.bodyError = (s.bodyError /\ s.email # f)
    /\ t.missed = s.missed \ {<<"materialize", f.accountKey>>}
    /\ t.tasks[n].at = "materialize" /\ t.tasks[n].key = f /\ t.tasks[n].phase = "asked" /\ t.tasks[n].then = <<>>

\* An attempt starts unless one on the same Email is under way.
LEMMA MaterializeStarts ==
    \A s, f : Shape(s) /\ (\A j \in DOMAIN s.tasks : DOMAIN s.tasks[j] = TaskFields) =>
        MaterializeBody(s, f) = s \/ \E n : Started(s, MaterializeBody(s, f), n, f)
<1> TAKE s, f
<1> HAVE Shape(s) /\ (\A j \in DOMAIN s.tasks : DOMAIN s.tasks[j] = TaskFields)
<1> DEFINE n == NextTask(s)
           blank == [owner |-> "body", at |-> "run", key |-> NoId, fresh |-> FALSE, phase |-> "run",
                     res |-> None, view |-> {}, then |-> <<>>]
           begun == [s EXCEPT !.tasks = With(@, Entry(n, blank))]
           g == Generation("materialize", f)
           u == Supersede(begun, g)
           new == [u.tasks[n] EXCEPT !.at = "materialize", !.key = f, !.fresh = TRUE, !.phase = "asked",
                                     !.res = None, !.view = {}]
           less == u.missed \ {<<"materialize", f.accountKey>>}
           started_ == [u EXCEPT !.missed = less, !.tasks[n] = new]
           attempts == started_.attempts \cup {<<f, n>>}
           wrong == started_.bodyError /\ s.email # f
           spins == started_.materializing \/ s.email = f
           t == [started_ EXCEPT !.attempts = attempts, !.bodyError = wrong, !.materializing = spins]
<1>1. MaterializeBody(s, f) = s \/ MaterializeBody(s, f) = t
  BY DEF MaterializeBody, Await, Spawn
<1>2. n \notin DOMAIN s.tasks
  BY NextTaskIsFree
<1>3. DOMAIN s = AppFields
  BY DEF Shape
<1> HIDE DEF n
<1>4. /\ DOMAIN begun = AppFields /\ \A x \in AppFields \ {"tasks"} : begun[x] = s[x]
      /\ DOMAIN begun.tasks = DOMAIN s.tasks \cup {n} /\ begun.tasks[n] = blank
      /\ \A j \in DOMAIN s.tasks : begun.tasks[j] = s.tasks[j]
  BY <1>2, <1>3 DEF With, Entry, AppFields
<1>5. DOMAIN blank = TaskFields /\ blank.owner = "body" /\ blank.then = <<>> /\ blank.at = "run"
  BY DEF TaskFields
<1> HIDE DEF blank, begun
<1>6. Shape(begun) /\ \A j \in DOMAIN begun.tasks : DOMAIN begun.tasks[j] = TaskFields
  <2>1. IsFiniteSet(DOMAIN s.tasks)
    BY DEF Shape
  <2>2. IsFiniteSet(DOMAIN s.tasks \cup {n})
    BY <2>1, FS_AddElement
  <2> QED
    BY <1>4, <1>5, <2>2 DEF Shape
<1>7. g = <<"materialize", None>> /\ \A j \in DOMAIN s.tasks :
         s.tasks[j].at # "materialize" => Generation(s.tasks[j].at, s.tasks[j].key) # g
  BY DEF Generation, Window
<1> HIDE DEF g
<1>8. /\ DOMAIN u = AppFields /\ DOMAIN u.tasks = DOMAIN begun.tasks
      /\ \A x \in AppFields \ {"tasks"} : u[x] = begun[x]
      /\ \A j \in DOMAIN begun.tasks : Outdated(begun.tasks[j], u.tasks[j])
      /\ \A j \in DOMAIN begun.tasks :
            Generation(begun.tasks[j].at, begun.tasks[j].key) # g => u.tasks[j] = begun.tasks[j]
  BY <1>6, Superseded, Zenon
<1> HIDE DEF u
<1>9. /\ DOMAIN new = TaskFields /\ new.at = "materialize" /\ new.key = f /\ new.phase = "asked"
      /\ new.owner = "body" /\ new.then = <<>>
  BY <1>4, <1>5, <1>8 DEF Outdated, TaskFields
<1> HIDE DEF new
<1>10. GoodTask(new) /\ Carries(new, f)
  BY <1>9 DEF GoodTask, Carries, ReadingAts, Owners
<1>15. less = s.missed \ {<<"materialize", f.accountKey>>}
  BY <1>4, <1>8 DEF AppFields
<1> HIDE DEF less
<1>11. /\ DOMAIN started_ = AppFields /\ \A x \in AppFields \ {"tasks", "missed"} : started_[x] = s[x]
       /\ started_.missed = less
       /\ DOMAIN started_.tasks = DOMAIN s.tasks \cup {n} /\ started_.tasks[n] = new
       /\ \A j \in DOMAIN s.tasks :
             Outdated(s.tasks[j], started_.tasks[j]) /\ (s.tasks[j].at # "materialize" => started_.tasks[j] = s.tasks[j])
  BY <1>2, <1>4, <1>7, <1>8 DEF AppFields
<1>12. /\ attempts = s.attempts \cup {<<f, n>>} /\ (spins => s.materializing \/ s.email = f)
       /\ wrong = (s.bodyError /\ s.email # f)
  BY <1>11 DEF AppFields
<1> HIDE DEF started_, attempts, wrong, spins
<1>13. /\ SameExcept(s, t, {"tasks", "attempts", "materializing", "bodyError", "missed"})
       /\ t.tasks = started_.tasks /\ t.attempts = attempts /\ t.materializing = spins
       /\ t.bodyError = wrong /\ t.missed = less
  BY <1>3, <1>11 DEF SameExcept, AppFields
<1> HIDE DEF t
<1>14. Started(s, t, n, f)
  BY <1>2, <1>9, <1>10, <1>11, <1>12, <1>13, <1>15 DEF Started
<1> QED
  BY <1>1, <1>14, Zenon

\* What such a start keeps of the invariant, beyond the running task if there is one.
LEMMA StartedKeeps ==
    \A s, t, n, f, S :
        /\ Started(s, t, n, f) /\ Shape(s) /\ S \subseteq DOMAIN s.tasks
        /\ \A j \in S : GoodTask(s.tasks[j])
        /\ \A j \in DOMAIN s.tasks : DOMAIN s.tasks[j] = TaskFields
        /\ Shown(s) /\ Attempted(s, S) /\ WindowServed(s, S) /\ BodyServed(s, S)
        => /\ Shape(t) /\ Shown(t) /\ Attempted(t, S \cup {n}) /\ WindowServed(t, S \cup {n}) /\ BodyServed(t, S \cup {n})
           /\ \A j \in S \cup {n} : GoodTask(t.tasks[j])
<1> TAKE s, t, n, f, S
<1> HAVE /\ Started(s, t, n, f) /\ Shape(s) /\ S \subseteq DOMAIN s.tasks
         /\ \A j \in S : GoodTask(s.tasks[j])
         /\ \A j \in DOMAIN s.tasks : DOMAIN s.tasks[j] = TaskFields
         /\ Shown(s) /\ Attempted(s, S) /\ WindowServed(s, S) /\ BodyServed(s, S)
<1>1. /\ n \notin DOMAIN s.tasks /\ DOMAIN t.tasks = DOMAIN s.tasks \cup {n}
      /\ \A j \in DOMAIN s.tasks : Outdated(s.tasks[j], t.tasks[j])
      /\ \A j \in DOMAIN s.tasks : s.tasks[j].at # "materialize" => t.tasks[j] = s.tasks[j]
      /\ GoodTask(t.tasks[n]) /\ Carries(t.tasks[n], f)
      /\ t.attempts = s.attempts \cup {<<f, n>>}
      /\ t.materializing => s.materializing \/ s.email = f
      /\ SameExcept(s, t, {"tasks", "attempts", "materializing", "bodyError", "missed"})
  BY Zenon DEF Started
<1>2. /\ DOMAIN t = AppFields /\ t.disposed = s.disposed
      /\ t.mailboxes = s.mailboxes /\ t.account = s.account /\ t.mailbox = s.mailbox /\ t.view = s.view
      /\ t.emails = s.emails /\ t.bodyState = s.bodyState /\ t.email = s.email /\ t.body = s.body
      /\ t.loadState = s.loadState
  BY <1>1 DEF Shape, SameExcept, AppFields
<1>3. Shape(t)
  <2>1. IsFiniteSet(DOMAIN s.tasks \cup {n})
    BY FS_AddElement DEF Shape
  <2> QED
    BY <1>1, <1>2, <2>1 DEF Shape
<1>4. Shown(t)
  BY <1>2 DEF Shown
<1>5. \A j \in S : GoodTask(t.tasks[j]) /\ \A e : Carries(s.tasks[j], e) => Carries(t.tasks[j], e)
  BY <1>1, OutdatedIsGood
<1>6. Attempted(t, S \cup {n})
  <2>1. ASSUME NEW x \in t.attempts
        PROVE  /\ x[2] \in DOMAIN t.tasks /\ t.tasks[x[2]].owner = "body"
               /\ x[2] \in S \cup {n} => Carries(t.tasks[x[2]], x[1])
    <3>1. CASE x = <<f, n>>
      BY <1>1, <3>1 DEF Carries
    <3>2. CASE x \in s.attempts
      <4>1. x[2] \in DOMAIN s.tasks /\ s.tasks[x[2]].owner = "body" /\ (x[2] \in S => Carries(s.tasks[x[2]], x[1]))
        BY <3>2 DEF Attempted
      <4>2. t.tasks[x[2]].owner = "body"
        BY <1>1, <4>1 DEF Outdated, TaskFields
      <4> QED
        BY <1>1, <1>5, <4>1, <4>2
    <3> QED
      BY <1>1, <2>1, <3>1, <3>2
  <2>2. ASSUME t.materializing /\ ~t.disposed PROVE \E x \in t.attempts : x[1] = t.email
    <3>1. CASE s.email = f
      <4>1. <<f, n>> \in t.attempts /\ <<f, n>>[1] = t.email
        BY <1>1, <1>2, <3>1
      <4> QED
        BY <4>1
    <3>2. CASE s.materializing
      BY <1>1, <1>2, <2>2, <3>2 DEF Attempted
    <3> QED
      BY <1>1, <2>2, <3>1, <3>2
  <2> QED
    BY <2>1, <2>2 DEF Attempted
<1>7. WindowServed(t, S \cup {n})
  BY <1>1, <1>2 DEF WindowServed, WindowAts
<1>8. BodyServed(t, S \cup {n})
  BY <1>1, <1>2 DEF BodyServed
<1> QED
  BY <1>1, <1>3, <1>4, <1>5, <1>6, <1>7, <1>8

\* An attempt that a click starts.
LEMMA MaterializeIsGood ==
    \A s, f : GoodApp(s) => GoodApp(MaterializeBody(s, f))
<1> TAKE s, f
<1> HAVE GoodApp(s)
<1> DEFINE t == MaterializeBody(s, f)
<1>1. Shape(s) /\ \A j \in DOMAIN s.tasks : DOMAIN s.tasks[j] = TaskFields
  BY DEF GoodApp, GoodTask
<1>2. t = s \/ \E n : Started(s, t, n, f)
  BY <1>1, MaterializeStarts, Zenon
<1> HIDE DEF t
<1>3. ASSUME NEW n, Started(s, t, n, f) PROVE GoodApp(t)
  <2> DEFINE S == DOMAIN s.tasks
  <2>1. DOMAIN t.tasks = S \cup {n}
    BY <1>3 DEF Started
  <2>2. /\ \A j \in S : GoodTask(s.tasks[j])
        /\ Shown(s) /\ Attempted(s, S) /\ WindowServed(s, S) /\ BodyServed(s, S)
    BY DEF GoodApp
  <2> HIDE DEF S
  <2>3. S \subseteq DOMAIN s.tasks
    BY DEF S
  <2>4. /\ Shape(t) /\ Shown(t) /\ Attempted(t, S \cup {n}) /\ WindowServed(t, S \cup {n}) /\ BodyServed(t, S \cup {n})
        /\ \A j \in S \cup {n} : GoodTask(t.tasks[j])
    BY <1>1, <1>3, <2>2, <2>3, StartedKeeps, Zenon
  <2> QED
    BY <2>1, <2>4 DEF GoodApp
<1>4. GoodApp(t)
  BY <1>2, <1>3, Zenon
<1> QED
  BY <1>4 DEF t

\* An attempt that a running task demands.
LEMMA MaterializeRuns ==
    \A s, i, e, f :
        /\ Running(s, i, e) /\ WindowServed(s, Others(s, i)) /\ BodyServed(s, Others(s, i))
        /\ s.tasks[i].owner # "body"
        => LET t == MaterializeBody(s, f) IN
           Running(t, i, e) /\ WindowServed(t, Others(t, i)) /\ BodyServed(t, Others(t, i)) /\ SameCaller(s, t, i)
<1> TAKE s, i, e, f
<1> HAVE /\ Running(s, i, e) /\ WindowServed(s, Others(s, i)) /\ BodyServed(s, Others(s, i))
         /\ s.tasks[i].owner # "body"
<1> DEFINE t == MaterializeBody(s, f)
<1>1. Shape(s) /\ i \in DOMAIN s.tasks /\ \A j \in DOMAIN s.tasks : DOMAIN s.tasks[j] = TaskFields
  BY RunningTasks
<1>2. t = s \/ \E n : Started(s, t, n, f)
  BY <1>1, MaterializeStarts, Zenon
<1> HIDE DEF t
<1>3. ASSUME NEW n, Started(s, t, n, f)
      PROVE  Running(t, i, e) /\ WindowServed(t, Others(t, i)) /\ BodyServed(t, Others(t, i)) /\ SameCaller(s, t, i)
  <2> DEFINE S == Others(s, i)
  <2>1. /\ n \notin DOMAIN s.tasks /\ DOMAIN t.tasks = DOMAIN s.tasks \cup {n}
        /\ Outdated(s.tasks[i], t.tasks[i]) /\ t.attempts = s.attempts \cup {<<f, n>>}
    BY <1>1, <1>3 DEF Started
  <2>2. Others(t, i) = S \cup {n}
    BY <1>1, <2>1 DEF Others
  <2>3. SameCaller(s, t, i) /\ DOMAIN t.tasks[i] = TaskFields
    BY <2>1 DEF Outdated, TaskFields, SameCaller
  <2>4. /\ \A j \in S : GoodTask(s.tasks[j])
        /\ Shown(s) /\ Attempted(s, S) /\ WindowServed(s, S) /\ BodyServed(s, S)
    BY DEF Running
  <2>5. S \subseteq DOMAIN s.tasks
    BY DEF Others
  <2> HIDE DEF S
  <2>6. /\ Shape(t) /\ Shown(t) /\ Attempted(t, S \cup {n}) /\ WindowServed(t, S \cup {n}) /\ BodyServed(t, S \cup {n})
        /\ \A j \in S \cup {n} : GoodTask(t.tasks[j])
    BY <1>1, <1>3, <2>4, <2>5, StartedKeeps, Zenon
  <2>7. ASSUME NEW x \in t.attempts, x[2] = i PROVE x[1] = e
    <3>1. x \in s.attempts
      BY <1>1, <2>1, <2>7
    <3>2. s.tasks[x[2]].owner = "body"
      BY <3>1 DEF Running, Attempted
    <3> QED
      BY <2>7, <3>2
  <2>8. t.tasks[i].owner \in Owners \ {"body"} /\ Frames(t.tasks[i].then, PlainFrames)
    BY <2>3 DEF SameCaller, Running
  <2>9. Running(t, i, e)
    BY <1>1, <2>1, <2>2, <2>3, <2>6, <2>7, <2>8 DEF Running
  <2> QED
    BY <2>2, <2>3, <2>6, <2>9
<1>4. SameCaller(s, s, i)
  BY DEF SameCaller
<1>5. Running(t, i, e) /\ WindowServed(t, Others(t, i)) /\ BodyServed(t, Others(t, i)) /\ SameCaller(s, t, i)
  BY <1>2, <1>3, <1>4, Zenon
<1> QED
  BY <1>5 DEF t

\* The frame that continues is taken off.
LEMMA PopRuns ==
    \A s, i, e : Running(s, i, e) /\ s.tasks[i].then # <<>> =>
        LET t == [s EXCEPT !.tasks[i].then = Tail(@)] IN
        /\ Running(t, i, e) /\ Others(t, i) = Others(s, i) /\ SameExcept(s, t, {"tasks"})
        /\ t.tasks[i].owner = s.tasks[i].owner
        /\ WindowServed(s, Others(s, i)) => WindowServed(t, Others(s, i))
        /\ BodyServed(s, Others(s, i)) => BodyServed(t, Others(s, i))
<1> TAKE s, i, e
<1> HAVE Running(s, i, e) /\ s.tasks[i].then # <<>>
<1> DEFINE rest == Tail(s.tasks[i].then)
           new == [s.tasks[i] EXCEPT !.then = rest]
           t == [s EXCEPT !.tasks[i] = new]
<1>1. /\ Shape(s) /\ i \in DOMAIN s.tasks /\ \A j \in DOMAIN s.tasks : DOMAIN s.tasks[j] = TaskFields
  BY RunningTasks
<1>2. [s EXCEPT !.tasks[i].then = Tail(@)] = t
  BY <1>1 DEF Shape, AppFields, TaskFields
<1>3. IF s.tasks[i].owner = "body" THEN rest = <<>> ELSE Frames(rest, PlainFrames)
  <2> DEFINE q == s.tasks[i].then
  <2>1. CASE s.tasks[i].owner = "body"
    <3>1. q = <<Frame("reread", e)>>
      BY <2>1 DEF Running
    <3> HIDE DEF q
    <3>2. Tail(q) = <<>>
      BY <3>1
    <3> QED
      BY <2>1, <3>2 DEF q
  <2>2. CASE s.tasks[i].owner # "body"
    <3>1. Frames(q, PlainFrames) /\ q # <<>>
      BY <2>2 DEF Running
    <3> HIDE DEF q
    <3>2. Frames(Tail(q), PlainFrames)
      BY <3>1, PopFrame, Zenon
    <3> QED
      BY <2>2, <3>2 DEF q
  <2> QED
    BY <2>1, <2>2
<1> HIDE DEF rest
<1>4. /\ DOMAIN new = TaskFields /\ new.owner = s.tasks[i].owner /\ new.then = rest
  BY <1>1 DEF TaskFields
<1> HIDE DEF new
<1>5. /\ SameExcept(s, t, {"tasks"}) /\ DOMAIN t.tasks = DOMAIN s.tasks /\ t.tasks[i] = new
      /\ \A j \in Others(s, i) : t.tasks[j] = s.tasks[j]
      /\ DOMAIN t = AppFields
  BY <1>1 DEF SameExcept, Shape, AppFields, Others
<1> HIDE DEF t
<1>6. /\ t.loadState = s.loadState /\ t.mailbox = s.mailbox /\ t.bodyState = s.bodyState /\ t.email = s.email
      /\ t.mailboxes = s.mailboxes /\ t.account = s.account /\ t.view = s.view /\ t.emails = s.emails
      /\ t.body = s.body /\ t.attempts = s.attempts /\ t.materializing = s.materializing /\ t.disposed = s.disposed
  BY <1>1, <1>5 DEF SameExcept, Shape, AppFields
<1>7. Others(t, i) = Others(s, i)
  BY <1>5 DEF Others
<1>8. Attempted(t, Others(s, i))
  <2>1. \A x \in s.attempts : x[2] \in DOMAIN s.tasks /\ s.tasks[x[2]].owner = "body"
    BY DEF Running, Attempted
  <2>2. \A x \in t.attempts : x[2] \in DOMAIN t.tasks /\ t.tasks[x[2]].owner = "body"
    BY <1>4, <1>5, <1>6, <2>1 DEF Others
  <2>3. \A x \in t.attempts : x[2] \in Others(s, i) => Carries(t.tasks[x[2]], x[1])
    BY <1>5, <1>6 DEF Running, Attempted
  <2>4. t.materializing /\ ~t.disposed => \E x \in t.attempts : x[1] = t.email
    BY <1>6 DEF Running, Attempted
  <2> QED
    BY <2>2, <2>3, <2>4 DEF Attempted
<1>9. Running(t, i, e)
  <2>1. Shape(t)
    BY <1>5 DEF Running, Shape
  <2>2. Shown(t)
    BY <1>6 DEF Running, Shown
  <2>3. \A j \in Others(t, i) : GoodTask(t.tasks[j])
    BY <1>5, <1>7 DEF Running
  <2>4. \A x \in t.attempts : x[2] = i => x[1] = e
    BY <1>6 DEF Running
  <2>5. i \in DOMAIN t.tasks /\ DOMAIN t.tasks[i] = TaskFields /\ t.tasks[i].owner \in Owners
    BY <1>1, <1>4, <1>5 DEF Running
  <2>6. IF t.tasks[i].owner = "body"
        THEN t.tasks[i].then \in {<<>>, <<Frame("reread", e)>>}
        ELSE Frames(t.tasks[i].then, PlainFrames)
    BY <1>3, <1>4, <1>5
  <2> QED
    BY <1>7, <1>8, <2>1, <2>2, <2>3, <2>4, <2>5, <2>6 DEF Running
<1>10. WindowServed(s, Others(s, i)) => WindowServed(t, Others(s, i))
  BY <1>5, <1>6 DEF WindowServed
<1>11. BodyServed(s, Others(s, i)) => BodyServed(t, Others(s, i))
  BY <1>5, <1>6 DEF BodyServed
<1>12. /\ Running(t, i, e) /\ Others(t, i) = Others(s, i) /\ SameExcept(s, t, {"tasks"})
       /\ t.tasks[i].owner = s.tasks[i].owner
       /\ WindowServed(s, Others(s, i)) => WindowServed(t, Others(s, i))
       /\ BodyServed(s, Others(s, i)) => BodyServed(t, Others(s, i))
  BY <1>4, <1>5, <1>7, <1>9, <1>10, <1>11
<1> QED
  BY <1>2, <1>12

\* The code after an awaited call.
LEMMA ReturnIsGood ==
    \A s, i : GoodApp(s) /\ i \in DOMAIN s.tasks /\ s.tasks[i].at = "return" => GoodApp(Return(s, i))
<1> TAKE s, i
<1> HAVE GoodApp(s) /\ i \in DOMAIN s.tasks /\ s.tasks[i].at = "return"
<1>1. PICK e : s.tasks[i].owner = "body" => Carries(s.tasks[i], e)
  BY DEF GoodApp, GoodTask
<1>2. Running(s, i, e)
  BY <1>1, TaskRuns, Zenon
<1>3. WindowServed(s, Others(s, i)) /\ BodyServed(s, Others(s, i))
  BY OthersServe DEF WindowAts
<1>4. s.tasks[i].then # <<>>
  BY DEF GoodApp, GoodTask
<1> DEFINE f == Head(s.tasks[i].then)
           key == f.key
           pop == [s EXCEPT !.tasks[i].then = Tail(@)]
           outcome == CASE s.tasks[i].res \in {"failed", "notCached"} -> "local"
                        [] s.tasks[i].res = "ownerAbsent" -> "emailAbsent"
                        [] OTHER -> "ok"
           ready == [pop EXCEPT !.local = "ready"]
<1>5. IF s.tasks[i].owner = "body" THEN f.do = "reread" /\ key = e ELSE f.do \in PlainFrames
  <2> DEFINE q == s.tasks[i].then
  <2>1. CASE s.tasks[i].owner = "body"
    <3>1. q = <<Frame("reread", e)>>
      BY <1>1, <2>1 DEF Carries
    <3> HIDE DEF q
    <3>2. Head(q) = Frame("reread", e)
      BY <3>1
    <3>3. Head(q).do = "reread" /\ Head(q).key = e
      BY <3>2 DEF Frame
    <3> QED
      BY <2>1, <3>3 DEF q
  <2>2. CASE s.tasks[i].owner # "body"
    <3>1. Frames(q, PlainFrames) /\ q # <<>>
      BY <1>2, <1>4, <2>2 DEF Running
    <3> HIDE DEF q
    <3>2. Head(q).do \in PlainFrames
      BY <3>1, PopFrame, Zenon
    <3> QED
      BY <2>2, <3>2 DEF q
  <2> QED
    BY <2>1, <2>2
<1>6. /\ f.do = "statuses" => Return(s, i) = RefreshMutationStatuses(pop, i, key.accountKey)
      /\ f.do = "demand" => Return(s, i) = Finish(DemandSelectedBody(pop, key), i, None)
      /\ f.do = "ready" => Return(s, i) = Finish(ready, i, None)
      /\ f.do = "reread" => Return(s, i) = FinishBodyMaterialization(pop, i, key, outcome)
  BY DEF Return
<1> HIDE DEF f, key, outcome
<1>7. /\ Running(pop, i, e) /\ Others(pop, i) = Others(s, i) /\ pop.tasks[i].owner = s.tasks[i].owner
      /\ WindowServed(pop, Others(s, i)) /\ BodyServed(pop, Others(s, i))
  BY <1>2, <1>3, <1>4, PopRuns
<1> HIDE DEF pop
<1>8. CASE s.tasks[i].owner = "body"
  <2>1. \A x : GoodApp(FinishBodyMaterialization(pop, i, e, x))
    BY <1>7, FinishBodyIsGood
  <2> QED
    BY <1>5, <1>6, <1>8, <2>1, Zenon
<1>9. CASE s.tasks[i].owner # "body" /\ f.do = "statuses"
  <2>1. \A x : GoodApp(Await(pop, i, "statuses", x))
    BY <1>7, <1>9, OtherReadIsGood
  <2>2. Return(s, i) = Await(pop, i, "statuses", OfAccount(key.accountKey))
    BY <1>6, <1>9, Zenon DEF RefreshMutationStatuses
  <2> QED
    BY <2>1, <2>2, Zenon
<1>10. CASE s.tasks[i].owner # "body" /\ f.do = "demand"
  <2> DEFINE t == MaterializeBody(pop, key)
             d == DemandSelectedBody(pop, key)
  <2>1. Running(t, i, e) /\ WindowServed(t, Others(t, i)) /\ BodyServed(t, Others(t, i)) /\ SameCaller(pop, t, i)
    BY <1>7, <1>10, MaterializeRuns
  <2>2. d = t \/ d = pop
    BY DEF DemandSelectedBody
  <2> HIDE DEF t, d
  <2>3. Running(d, i, e) /\ WindowServed(d, Others(d, i)) /\ BodyServed(d, Others(d, i)) /\ d.tasks[i].owner # "body"
    BY <1>7, <1>10, <2>1, <2>2 DEF SameCaller
  <2>4. GoodApp(Finish(d, i, None))
    BY <2>3, FinishedIsGood
  <2> QED
    BY <1>6, <1>10, <2>4, Zenon DEF d
<1>11. CASE s.tasks[i].owner # "body" /\ f.do = "ready"
  <2>1. SameExcept(pop, ready, Neutral)
    BY <1>7 DEF Running, Shape, SameExcept, AppFields, Neutral
  <2> HIDE DEF ready
  <2>2. GoodApp(Finish(ready, i, None))
    BY <1>7, <1>11, <2>1, FinishedAfterUpdate
  <2> QED
    BY <1>6, <1>11, <2>2, Zenon
<1> QED
  BY <1>5, <1>8, <1>9, <1>10, <1>11 DEF PlainFrames

\* Every handler of an answer keeps the invariant.
LEMMA ResumeIsGood ==
    \A s, i, r :
        /\ GoodApp(s) /\ i \in DOMAIN s.tasks /\ s.tasks[i].at \in ReadingAts /\ GoodAnswer(s.tasks[i], r)
        => GoodApp(Resume(s, i, r))
<1> TAKE s, i, r
<1> HAVE GoodApp(s) /\ i \in DOMAIN s.tasks /\ s.tasks[i].at \in ReadingAts /\ GoodAnswer(s.tasks[i], r)
<1> DEFINE at == s.tasks[i].at
<1>1. /\ at = "accounts" => Resume(s, i, r) = AccountsRead(s, i, r)
      /\ at = "mailboxes" => Resume(s, i, r) = MailboxesRead(s, i, r)
      /\ at = "view" => Resume(s, i, r) = ViewRead(s, i, r)
      /\ at = "emails" => Resume(s, i, r) = EmailsRead(s, i, r)
      /\ at = "body" => Resume(s, i, r) = BodyRead(s, i, r)
      /\ at = "statuses" => Resume(s, i, r) = StatusesRead(s, i, r)
      /\ at = "materialize" => Resume(s, i, r) = Materialized(s, i, r)
      /\ at = "subscribe" => Resume(s, i, r) = Subscribed(s, i, r)
  BY DEF Resume
<1>2. /\ at = "accounts" => GoodApp(AccountsRead(s, i, r))
      /\ at = "mailboxes" => GoodApp(MailboxesRead(s, i, r))
      /\ at = "view" => GoodApp(ViewRead(s, i, r))
      /\ at = "emails" => GoodApp(EmailsRead(s, i, r))
      /\ at = "body" => GoodApp(BodyRead(s, i, r))
      /\ at = "statuses" => GoodApp(StatusesRead(s, i, r))
      /\ at = "materialize" => GoodApp(Materialized(s, i, r))
      /\ at = "subscribe" => GoodApp(Subscribed(s, i, r))
  BY AccountsReadIsGood, MailboxesReadIsGood, ViewReadIsGood, EmailsReadIsGood, BodyReadIsGood,
     StatusesReadIsGood, MaterializedIsGood, SubscribedIsGood
<1>3. at \in {"accounts", "mailboxes", "view", "emails", "body", "statuses", "materialize", "subscribe"}
  BY DEF ReadingAts
<1> HIDE DEF at
<1> QED
  BY <1>1, <1>2, <1>3

-----------------------------------------------------------------------------
(* What the store answers, before and after a commit. *)

\* Every Mailbox that the store comes to hold is one that the writes name.
LEMMA MailboxesStayPlaced ==
    ASSUME NEW s, IsStore(s), NEW op, NEW arg, IsWrite(op), IsArgument(op, arg), NEW P, s.mailboxes \subseteq P,
           op = "applyCollectionSync" /\ arg.kind = "mailbox" => DOMAIN arg.changed \subseteq P
    PROVE  Perform(s, op, arg).db.mailboxes \subseteq P
<1> DEFINE t == Perform(s, op, arg).db
<1>0. \A F : SameExcept(s, t, F) /\ "mailboxes" \notin F => t.mailboxes = s.mailboxes
  BY StoreTables DEF SameExcept, Tables
<1>1. CASE op = "applyCollectionSync"
  <2> DEFINE o == ApplyCollectionSync(s, arg)
  <2>1. t = o.db
    BY <1>1 DEF Perform
  <2>2. arg.mode \in {"replace", "delta"} /\ arg.kind \in {"email", "mailbox", "identity"}
    BY <1>1 DEF IsArgument, IsCommit
  <2>3. \/ o = Conflict(s)
        \/ /\ arg.kind = "email" => SameExcept(s, o.db, {"emails", "memberships", "cursors"})
           /\ arg.kind = "identity" => SameExcept(s, o.db, {"identities", "cursors"})
           /\ arg.kind = "mailbox" => o.db.mailboxes = CommitMailboxes(s, arg).mailboxes
    BY <2>2, CommitEffect, Zenon
  <2>4. CASE o = Conflict(s)
    <3>1. o.db = s
      BY <2>4, ConflictEffect, Zenon
    <3> HIDE DEF o
    <3> QED
      BY <2>1, <3>1
  <2> HIDE DEF o
  <2>5. CASE arg.kind = "mailbox" /\ o # Conflict(s)
    <3>1. CommitMailboxes(s, arg).mailboxes = (s.mailboxes \ Dropped(s.mailboxes, arg)) \cup DOMAIN arg.changed
      BY StoreTables DEF CommitMailboxes, Tables
    <3>2. DOMAIN arg.changed \subseteq P
      BY <1>1, <2>5
    <3> QED
      BY <2>1, <2>3, <2>5, <3>1, <3>2
  <2>6. CASE arg.kind # "mailbox" /\ o # Conflict(s)
    <3> HIDE DEF t
    <3>1. \/ SameExcept(s, t, {"emails", "memberships", "cursors"})
          \/ SameExcept(s, t, {"identities", "cursors"})
      BY <2>1, <2>2, <2>3, <2>6
    <3>2. t.mailboxes = s.mailboxes
      BY <1>0, <3>1
    <3>3. t.mailboxes \subseteq P
      BY <3>2
    <3> QED
      BY <3>3 DEF t
  <2> QED
    BY <2>4, <2>5, <2>6
<1>2. CASE op # "applyCollectionSync"
  <2>1. \/ t = s
        \/ \E F : SameExcept(s, t, F) /\ "mailboxes" \notin F
    <3>1. CASE op = "registerAccount"
      <4>1. SameExcept(s, t, {"accounts"})
        BY <3>1, RegisterEffect DEF Perform
      <4> QED
        BY <4>1
    <3>2. CASE op = "cacheEmailBody"
      <4>1. t = s \/ SameExcept(s, t, {"bodies"})
        BY <3>2, CacheEffect DEF Perform, Conflict
      <4> QED
        BY <4>1
    <3>3. CASE op = "replaceAttachmentRefs"
      <4>1. t = s \/ SameExcept(s, t, {"attachments"})
        BY <3>3, CacheEffect DEF Perform, Conflict
      <4> QED
        BY <4>1
    <3>4. CASE op = "replaceMailboxView"
      <4>1. t = s \/ SameExcept(s, t, {"views"})
        BY <3>4, ViewEffect DEF Perform
      <4> QED
        BY <4>1
    <3>5. CASE op \in StagingOps
      <4>1. t = s \/ \E F \in {{"mutations"}, {"emails", "mutations"}, {"memberships", "mutations"}} : SameExcept(s, t, F)
        BY <3>5, StageEffect DEF Conflict, StagingOps
      <4> QED
        BY <4>1
    <3>6. CASE op = "replacePendingMutationIfCurrent"
      <4>0. arg.expected \in PendingMutations /\ arg.next \in PendingMutations
        BY <3>6 DEF IsArgument
      <4>1. Perform(s, op, arg) = ReplacePendingMutationIfCurrent(s, arg.expected, arg.next)
        BY <3>6 DEF Perform
      <4> DEFINE v == arg.expected
                 w == arg.next
                 o == ReplacePendingMutationIfCurrent(s, v, w)
      <4>2. v \in PendingMutations /\ w \in PendingMutations
        BY <4>0
      <4> HIDE DEF v, w
      <4>3. o = Conflict(s) \/ SameExcept(s, o.db, {"mutations"})
        BY <4>2, ReplaceEffect
      <4>4. o = Conflict(s) => o.db = s
        BY ConflictEffect
      <4>5. t = o.db
        BY <4>1 DEF v, w
      <4> HIDE DEF o, t
      <4>6. t = s \/ SameExcept(s, t, {"mutations"})
        BY <4>3, <4>4, <4>5
      <4>7. t = s \/ \E F : SameExcept(s, t, F) /\ "mailboxes" \notin F
        BY <4>6
      <4> QED
        BY <4>7 DEF t
    <3>7. CASE op = "removeConfirmedMutation"
      <4>1. Perform(s, op, arg) = RemoveConfirmedMutation(s, arg)
        BY <3>7 DEF Perform
      <4>2. Perform(s, op, arg) = Conflict(s) \/ SameExcept(s, t, {"mutations"})
        BY <4>1, RemoveEffect, Zenon
      <4>3. Perform(s, op, arg) = Conflict(s) => t = s
        BY ConflictEffect, Zenon
      <4> HIDE DEF t
      <4>4. t = s \/ SameExcept(s, t, {"mutations"})
        BY <4>2, <4>3, Zenon DEF t
      <4>5. t = s \/ \E F : SameExcept(s, t, F) /\ "mailboxes" \notin F
        BY <4>4
      <4> QED
        BY <4>5 DEF t
    <3> QED
      BY <1>2, <3>1, <3>2, <3>3, <3>4, <3>5, <3>6, <3>7 DEF IsWrite
  <2> HIDE DEF t
  <2>2. t.mailboxes = s.mailboxes
    BY <1>0, <2>1
  <2>3. t.mailboxes \subseteq P
    BY <2>2
  <2> QED
    BY <2>3 DEF t
<1> QED
  BY <1>1, <1>2

\* The store answers every read with rows of what was asked for.
LEMMA FoundIsGood ==
    ASSUME IsStore(db), db.mailboxes \subseteq ToSet(MailboxOrder), NEW t
    PROVE  t.at \in ReadingAts \ {"materialize"} => GoodAnswer(t, Found(t))
<1> SUFFICES ASSUME t.at \in ReadingAts \ {"materialize"} PROVE GoodAnswer(t, Found(t))
  OBVIOUS
<1>1. CASE t.at = "mailboxes"
  <2> DEFINE k == t.key.accountKey
             r == OwnedBy(k \in DOMAIN db.accounts, TRUE, Owned(db.mailboxes, k))
  <2>1. Found(t) = r
    BY <1>1 DEF Found, Read, Query
  <2>2. r.kind \in {"present", "ownerAbsent"} /\ (r.kind = "present" => r.value = Owned(db.mailboxes, k))
    BY DEF OwnedBy, Answer
  <2> HIDE DEF r
  <2>3. \A m \in Owned(db.mailboxes, k) : m \in ToSet(MailboxOrder) /\ m.accountKey = k
    BY DEF Owned
  <2>4. GoodAnswer(t, r)
    BY <1>1, <2>2, <2>3 DEF GoodAnswer
  <2> QED
    BY <2>1, <2>4
<1>2. CASE t.at = "view"
  <2> DEFINE k == t.key
             r == OwnedBy(k \in db.mailboxes, k \in DOMAIN db.views, IF k \in DOMAIN db.views THEN db.views[k] ELSE None)
  <2>1. Found(t) = r
    BY <1>2 DEF Found, Read, Query
  <2>2. r.kind \in {"present", "absent", "ownerAbsent"}
        /\ (r.kind = "present" => k \in DOMAIN db.views /\ r.value = db.views[k])
    BY DEF OwnedBy, Answer
  <2> HIDE DEF r
  <2>3. r.kind = "present" => r.value.mailboxId = k
    BY <2>2 DEF IsStore
  <2>4. GoodAnswer(t, r)
    BY <1>2, <2>2, <2>3 DEF GoodAnswer
  <2> QED
    BY <2>1, <2>4
<1>3. CASE t.at = "emails"
  <2> DEFINE wanted == Listed(t.view)
             r == Answer("present", [e \in wanted \cap DOMAIN db.emails |-> db.emails[e]])
  <2>1. Found(t) = r
    BY <1>3 DEF Found, Listed
  <2>2. r.kind = "present" /\ DOMAIN r.value \subseteq wanted
    BY DEF Answer
  <2> HIDE DEF r
  <2>3. GoodAnswer(t, r)
    BY <1>3, <2>2 DEF GoodAnswer
  <2> QED
    BY <2>1, <2>3
<1>4. CASE t.at \notin {"mailboxes", "view", "emails"}
  BY <1>4 DEF GoodAnswer
<1> QED
  BY <1>1, <1>2, <1>3, <1>4

\* A task whose read was answered, or whose body is being fetched.
AnsweredBy(a, b) ==
    /\ DOMAIN b = TaskFields /\ \A f \in TaskFields \ {"phase", "res"} : b[f] = a[f]
    /\ a.phase \in {"asked", "fetching"} /\ GoodAnswer(a, b.res)
    /\ b.phase = "answered" \/ (b.phase = "fetching" /\ a.at = "materialize")

\* It stays a good task, and carries the attempts it carried.
LEMMA AnsweredTask ==
    \A a, b : GoodTask(a) /\ AnsweredBy(a, b) => GoodTask(b) /\ \A e : Carries(a, e) => Carries(b, e)
<1> TAKE a, b
<1> HAVE GoodTask(a) /\ AnsweredBy(a, b)
<1>1. /\ b.owner = a.owner /\ b.at = a.at /\ b.key = a.key /\ b.fresh = a.fresh /\ b.view = a.view /\ b.then = a.then
      /\ DOMAIN b = TaskFields /\ a.phase \in {"asked", "fetching"} /\ GoodAnswer(a, b.res)
      /\ b.phase = "answered" \/ (b.phase = "fetching" /\ a.at = "materialize")
  BY DEF AnsweredBy, TaskFields
<1>2. \A e : Carries(a, e) => Carries(b, e)
  BY <1>1 DEF Carries
<1>3. GoodAnswer(b, b.res)
  BY <1>1 DEF GoodAnswer
<1> QED
  BY <1>1, <1>2, <1>3 DEF GoodTask

\* Answers that arrive, before they are resumed.
LEMMA AnsweredIsGood ==
    \A s, t :
        /\ GoodApp(s) /\ SameExcept(s, t, {"tasks"}) /\ DOMAIN t.tasks = DOMAIN s.tasks
        /\ \A j \in DOMAIN s.tasks : t.tasks[j] = s.tasks[j] \/ AnsweredBy(s.tasks[j], t.tasks[j])
        => GoodApp(t)
<1> TAKE s, t
<1> HAVE /\ GoodApp(s) /\ SameExcept(s, t, {"tasks"}) /\ DOMAIN t.tasks = DOMAIN s.tasks
         /\ \A j \in DOMAIN s.tasks : t.tasks[j] = s.tasks[j] \/ AnsweredBy(s.tasks[j], t.tasks[j])
<1>1. /\ DOMAIN t = AppFields /\ t.attempts = s.attempts /\ t.disposed = s.disposed
      /\ t.mailboxes = s.mailboxes /\ t.account = s.account /\ t.mailbox = s.mailbox /\ t.view = s.view
      /\ t.emails = s.emails /\ t.bodyState = s.bodyState /\ t.email = s.email /\ t.body = s.body
      /\ t.materializing = s.materializing /\ t.loadState = s.loadState
  BY DEF GoodApp, Shape, SameExcept, AppFields
<1>2. Shape(t) /\ Shown(t)
  BY <1>1 DEF GoodApp, Shape, Shown
<1>3. \A j \in DOMAIN s.tasks : GoodTask(s.tasks[j])
  BY DEF GoodApp
<1>4. \A j \in DOMAIN t.tasks : GoodTask(t.tasks[j]) /\ \A e : Carries(s.tasks[j], e) => Carries(t.tasks[j], e)
  BY <1>3, AnsweredTask
<1>5. \A j \in DOMAIN t.tasks :
         /\ t.tasks[j].at = s.tasks[j].at /\ t.tasks[j].fresh = s.tasks[j].fresh
         /\ t.tasks[j].key = s.tasks[j].key /\ t.tasks[j].owner = s.tasks[j].owner
  BY DEF AnsweredBy, TaskFields
<1>6. Attempted(t, DOMAIN t.tasks)
  BY <1>1, <1>4, <1>5 DEF GoodApp, Attempted
<1>7. WindowServed(t, DOMAIN t.tasks) /\ BodyServed(t, DOMAIN t.tasks)
  BY <1>1, <1>5 DEF GoodApp, WindowServed, BodyServed
<1> QED
  BY <1>2, <1>4, <1>6, <1>7 DEF GoodApp

-----------------------------------------------------------------------------
(* Clicks and hints: calls that start. *)

\* A selection between the calls.
LEMMA StillResting ==
    \A s, t :
        /\ Resting(s) /\ DOMAIN t = AppFields
        /\ t.tasks = s.tasks /\ t.attempts = s.attempts /\ t.disposed = s.disposed
        /\ Shown(t) /\ (t.materializing => s.materializing /\ t.email = s.email)
        => Resting(t)
BY DEF Resting, Shape, Attempted

\* The task number depends on the tasks alone.
LEMMA SameNextTask == \A s, t : t.tasks = s.tasks => NextTask(t) = NextTask(s)
BY DEF NextTask

\* The user selects an account.
LEMMA AccountSelected ==
    \A s, a : GoodApp(s) =>
        LET t == StoreSelectAccount(s, a) IN GoodApp(t) /\ t.tasks = s.tasks
<1> TAKE s, a
<1> HAVE GoodApp(s)
<1> DEFINE t == StoreSelectAccount(s, a)
<1>1. DOMAIN s = AppFields
  BY DEF GoodApp, Shape
<1>2. /\ SameExcept(s, t, {"email", "body", "bodyState", "materializing", "bodyError",
                           "mailbox", "view", "emails", "loadState", "account", "mailboxes"})
      /\ t.mailbox = NoId /\ t.view = {} /\ t.emails = Empty /\ t.loadState = "idle"
      /\ t.bodyState = "idle" /\ t.materializing = FALSE /\ t.account = a /\ t.mailboxes = {}
  BY <1>1, SetterEffects
<1> HIDE DEF t
<1>3. DOMAIN t = AppFields /\ t.tasks = s.tasks /\ t.attempts = s.attempts /\ t.disposed = s.disposed
  BY <1>1, <1>2 DEF SameExcept, AppFields
<1>4. DOMAIN Empty = {}
  BY DEF Empty
<1>5. Shown(t)
  BY <1>2, <1>4 DEF Shown
<1>6. Resting(t)
  BY <1>2, <1>3, <1>5, StillResting DEF GoodApp, Resting
<1>7. WindowServed(t, DOMAIN t.tasks) /\ BodyServed(t, DOMAIN t.tasks)
  BY <1>2 DEF WindowServed, BodyServed
<1>8. GoodApp(t) /\ t.tasks = s.tasks
  BY <1>3, <1>6, <1>7 DEF GoodApp, Resting
<1> QED
  BY <1>8, Zenon DEF t

\* The user selects a Mailbox of the account.
LEMMA MailboxSelected ==
    \A s, m : GoodApp(s) /\ m.accountKey = s.account =>
        LET t == StoreSelectMailbox(s, m) IN GoodApp(t) /\ t.tasks = s.tasks
<1> TAKE s, m
<1> HAVE GoodApp(s) /\ m.accountKey = s.account
<1> DEFINE t == StoreSelectMailbox(s, m)
<1>1. DOMAIN s = AppFields
  BY DEF GoodApp, Shape
<1>2. /\ SameExcept(s, t, {"email", "body", "bodyState", "materializing", "bodyError",
                           "mailbox", "view", "emails", "loadState"})
      /\ t.mailbox = m /\ t.view = {} /\ t.emails = Empty /\ t.loadState = "idle"
      /\ t.bodyState = "idle" /\ t.materializing = FALSE
  BY <1>1, SetterEffects
<1> HIDE DEF t
<1>3. /\ DOMAIN t = AppFields /\ t.tasks = s.tasks /\ t.attempts = s.attempts /\ t.disposed = s.disposed
      /\ t.mailboxes = s.mailboxes /\ t.account = s.account
  BY <1>1, <1>2 DEF SameExcept, AppFields
<1>4. DOMAIN Empty = {}
  BY DEF Empty
<1>5. Shown(t)
  BY <1>2, <1>3, <1>4 DEF GoodApp, Shown
<1>6. Resting(t)
  BY <1>2, <1>3, <1>5, StillResting DEF GoodApp, Resting
<1>7. WindowServed(t, DOMAIN t.tasks) /\ BodyServed(t, DOMAIN t.tasks)
  BY <1>2 DEF WindowServed, BodyServed
<1>8. GoodApp(t) /\ t.tasks = s.tasks
  BY <1>3, <1>6, <1>7 DEF GoodApp, Resting
<1> QED
  BY <1>8, Zenon DEF t

\* The user selects an Email: its body is not yet read.
LEMMA EmailSelected ==
    \A s, e : GoodApp(s) =>
        LET t == StoreSelectEmail(s, e) IN Resting(t) /\ WindowServed(t, DOMAIN t.tasks) /\ t.tasks = s.tasks
<1> TAKE s, e
<1> HAVE GoodApp(s)
<1> DEFINE t == StoreSelectEmail(s, e)
<1>1. DOMAIN s = AppFields
  BY DEF GoodApp, Shape
<1>2. /\ SameExcept(s, t, {"email", "body", "bodyState", "materializing", "bodyError"})
      /\ t.bodyState = (IF e = NoId THEN "idle" ELSE "loading") /\ t.materializing = FALSE
  BY <1>1, SetterEffects
<1> HIDE DEF t
<1>3. /\ DOMAIN t = AppFields /\ t.tasks = s.tasks /\ t.attempts = s.attempts /\ t.disposed = s.disposed
      /\ t.mailboxes = s.mailboxes /\ t.account = s.account /\ t.mailbox = s.mailbox /\ t.view = s.view
      /\ t.emails = s.emails /\ t.loadState = s.loadState
  BY <1>1, <1>2 DEF SameExcept, AppFields
<1>4. Shown(t)
  BY <1>2, <1>3 DEF GoodApp, Shown
<1>5. Resting(t)
  BY <1>2, <1>3, <1>4, StillResting DEF GoodApp, Resting
<1>6. WindowServed(t, DOMAIN t.tasks)
  BY <1>3 DEF GoodApp, WindowServed
<1>7. Resting(t) /\ WindowServed(t, DOMAIN t.tasks) /\ t.tasks = s.tasks
  BY <1>3, <1>5, <1>6
<1> QED
  BY <1>7, Zenon DEF t

\* A call begins in a state that is good.
LEMMA CallBegins ==
    \A s, owner, e : GoodApp(s) /\ owner \in Owners =>
        LET t == Spawn(s, owner)
            n == NextTask(s)
        IN  /\ Running(t, n, e) /\ WindowServed(t, Others(t, n)) /\ BodyServed(t, Others(t, n))
            /\ t.tasks[n].owner = owner /\ t.tasks[n].then = <<>>
<1> TAKE s, owner, e
<1> HAVE GoodApp(s) /\ owner \in Owners
<1> DEFINE t == Spawn(s, owner)
           n == NextTask(s)
           S == DOMAIN s.tasks
<1>1. Resting(s) /\ WindowServed(s, S) /\ BodyServed(s, S)
  BY DEF GoodApp, Resting
<1>2. /\ Running(t, n, e) /\ Others(t, n) = S /\ t.tasks[n].owner = owner /\ t.tasks[n].then = <<>>
      /\ WindowServed(s, S) => WindowServed(t, S)
      /\ BodyServed(s, S) => BodyServed(t, S)
  BY <1>1, SpawnRuns
<1> HIDE DEF t, n, S
<1>3. /\ Running(t, n, e) /\ WindowServed(t, Others(t, n)) /\ BodyServed(t, Others(t, n))
      /\ t.tasks[n].owner = owner /\ t.tasks[n].then = <<>>
  BY <1>1, <1>2
<1> QED
  BY <1>3, Zenon DEF t, n

\* The calls that the clicks start keep the invariant.
LEMMA ShowAccountStarts ==
    \A s, a : GoodApp(s) => GoodApp(ShowAccount(Spawn(s, "user"), NextTask(s), a))
<1> TAKE s, a
<1> HAVE GoodApp(s)
<1> DEFINE t == Spawn(s, "user")
           n == NextTask(s)
<1>1. "user" \in Owners /\ "user" # "body"
  BY DEF Owners
<1>2. /\ Running(t, n, NoId) /\ WindowServed(t, Others(t, n)) /\ BodyServed(t, Others(t, n))
      /\ t.tasks[n].owner = "user"
  BY <1>1, CallBegins
<1> HIDE DEF t, n
<1>3. GoodApp(ShowAccount(t, n, a))
  BY <1>2, ShowAccountIsGood
<1> QED
  BY <1>3 DEF t, n

\* The click on a Mailbox.
LEMMA WindowReadStarts ==
    \A s : GoodApp(s) => GoodApp(RefreshMailboxWindow(Spawn(s, "user"), NextTask(s)))
<1> TAKE s
<1> HAVE GoodApp(s)
<1> DEFINE t == Spawn(s, "user")
           n == NextTask(s)
<1>1. "user" \in Owners /\ "user" # "body"
  BY DEF Owners
<1>2. /\ Running(t, n, NoId) /\ WindowServed(t, Others(t, n)) /\ BodyServed(t, Others(t, n))
      /\ t.tasks[n].owner = "user"
  BY <1>1, CallBegins
<1> HIDE DEF t, n
<1>3. GoodApp(RefreshMailboxWindow(t, n))
  BY <1>2, RefreshWindowIsGood DEF WindowServed
<1> QED
  BY <1>3 DEF t, n

\* The click on an Email.
LEMMA BodyReadStarts ==
    \A s, frame : Resting(s) /\ WindowServed(s, DOMAIN s.tasks) /\ frame.do \in PlainFrames =>
        GoodApp(RefreshSelectedBody(Push(Spawn(s, "user"), NextTask(s), frame), NextTask(s)))
<1> TAKE s, frame
<1> HAVE Resting(s) /\ WindowServed(s, DOMAIN s.tasks) /\ frame.do \in PlainFrames
<1> DEFINE t == Spawn(s, "user")
           n == NextTask(s)
           S == DOMAIN s.tasks
<1>1. "user" \in Owners /\ "user" # "body"
  BY DEF Owners
<1>2. WindowServed(s, S)
  OBVIOUS
<1>3. Running(t, n, NoId) /\ Others(t, n) = S /\ t.tasks[n].owner = "user" /\ (WindowServed(s, S) => WindowServed(t, S))
  BY <1>1, SpawnRuns
<1> HIDE DEF t, n, S
<1>4. GoodApp(RefreshSelectedBody(Push(t, n, frame), n))
  BY <1>2, <1>3, DemandedIsGood
<1> QED
  BY <1>4 DEF t, n

\* The rereads that the hints call for keep the invariant.
LEMMA InvalidateIsGood ==
    \A s, hints : GoodApp(s) => GoodApp(Invalidate(s, hints))
<1> TAKE s, hints
<1> HAVE GoodApp(s)
<1> DEFINE n == NextTask(s)
           flush == Spawn(s, "flush")
           frame == Frame("statuses", OfAccount(s.account))
           pushed == Push(flush, n, frame)
           statuses == s.account # None /\ Hinted(hints, {"pendingMutations"}, s.account)
           before == IF statuses THEN pushed ELSE flush
           key == OfAccount(s.account)
<1>1. "flush" \in Owners /\ "flush" # "body" /\ frame.do \in PlainFrames
  BY DEF Owners, Frame, PlainFrames
<1>2. \/ Invalidate(s, hints) = Await(before, n, "accounts", NoId)
      \/ Invalidate(s, hints) = RefreshMailboxes(before, n)
      \/ Invalidate(s, hints) = RefreshMailboxWindow(before, n)
      \/ Invalidate(s, hints) = RefreshSelectedBody(before, n)
      \/ Invalidate(s, hints) = Await(flush, n, "statuses", key)
      \/ Invalidate(s, hints) = s
  BY Zenon DEF Invalidate, RefreshAccounts, RefreshMutationStatuses
<1> HIDE DEF frame
<1>3. /\ Running(flush, n, NoId) /\ WindowServed(flush, Others(flush, n)) /\ BodyServed(flush, Others(flush, n))
      /\ flush.tasks[n].owner = "flush" /\ flush.tasks[n].then = <<>>
  BY <1>1, CallBegins
<1> HIDE DEF flush, n
<1>4. /\ Running(pushed, n, NoId) /\ Others(pushed, n) = Others(flush, n)
      /\ pushed.tasks[n].owner = flush.tasks[n].owner
      /\ WindowServed(pushed, Others(flush, n)) /\ BodyServed(pushed, Others(flush, n))
  BY <1>1, <1>3, PushRuns
<1> HIDE DEF pushed, statuses
<1>5. before \in {flush, pushed}
  OBVIOUS
<1> HIDE DEF before, key
<1>6. /\ Running(before, n, NoId) /\ before.tasks[n].owner # "body"
      /\ WindowServed(before, Others(before, n)) /\ BodyServed(before, Others(before, n))
  BY <1>1, <1>3, <1>4, <1>5
<1>7. GoodApp(Await(before, n, "accounts", NoId))
  BY <1>6, OtherReadIsGood
<1>8. GoodApp(RefreshMailboxes(before, n))
  BY <1>6, RefreshMailboxesIsGood
<1>9. GoodApp(RefreshMailboxWindow(before, n))
  BY <1>6, RefreshWindowIsGood DEF WindowServed
<1>10. GoodApp(RefreshSelectedBody(before, n))
  BY <1>6, RefreshBodyIsGood
<1>11. GoodApp(Await(flush, n, "statuses", key))
  BY <1>1, <1>3, OtherReadIsGood
<1> QED
  BY <1>2, <1>7, <1>8, <1>9, <1>10, <1>11, Zenon

\* So do the two ways in which the error screen tries again.
LEMMA RetryIsGood ==
    \A s : GoodApp(s) =>
        /\ GoodApp(Await(Push(Spawn(s, "retry"), NextTask(s), Frame("ready", NoId)), NextTask(s), "accounts", NoId))
        /\ GoodApp(Await(Spawn(s, "initialize"), NextTask(s), "subscribe", NoId))
<1> TAKE s
<1> HAVE GoodApp(s)
<1> DEFINE n == NextTask(s)
           t == Spawn(s, "retry")
           u == Spawn(s, "initialize")
           frame == Frame("ready", NoId)
           pushed == Push(t, n, frame)
<1>1. {"retry", "initialize"} \subseteq Owners \ {"body"} /\ frame.do \in PlainFrames
  BY DEF Owners, Frame, PlainFrames
<1> HIDE DEF frame
<1>2. /\ Running(t, n, NoId) /\ WindowServed(t, Others(t, n)) /\ BodyServed(t, Others(t, n))
      /\ t.tasks[n].owner = "retry"
  BY <1>1, CallBegins
<1>3. /\ Running(u, n, NoId) /\ WindowServed(u, Others(u, n)) /\ BodyServed(u, Others(u, n))
      /\ u.tasks[n].owner = "initialize"
  BY <1>1, CallBegins
<1> HIDE DEF t, u, n
<1>4. /\ Running(pushed, n, NoId) /\ Others(pushed, n) = Others(t, n)
      /\ pushed.tasks[n].owner = t.tasks[n].owner
      /\ WindowServed(pushed, Others(t, n)) /\ BodyServed(pushed, Others(t, n))
  BY <1>1, <1>2, PushRuns
<1> HIDE DEF pushed
<1>5. GoodApp(Await(pushed, n, "accounts", NoId))
  BY <1>1, <1>2, <1>4, OtherReadIsGood
<1>6. GoodApp(Await(u, n, "subscribe", NoId))
  BY <1>1, <1>3, OtherReadIsGood
<1> QED
  BY <1>5, <1>6 DEF pushed, t, u, n, frame

\* The stores before the controller initializes.
LEMMA MailStateIsGood == GoodApp(MailState) /\ NextTask(MailState) = 1
<1> DEFINE s == MailState
<1>1. /\ DOMAIN s = AppFields /\ s.mailboxes = {} /\ s.mailbox = NoId /\ s.view = {} /\ s.emails = Empty
      /\ s.bodyState = "idle" /\ s.loadState = "idle" /\ s.materializing = FALSE /\ s.attempts = {} /\ s.tasks = Empty
  BY DEF MailState, AppFields
<1>2. DOMAIN Empty = {}
  BY DEF Empty
<1>3. IsFiniteSet({}) /\ Cardinality({}) = 0
  BY FS_EmptySet
<1> HIDE DEF s
<1>4. Shape(s)
  BY <1>1, <1>2, <1>3 DEF Shape
<1>5. Shown(s)
  BY <1>1, <1>2 DEF Shown
<1>6. \A j \in DOMAIN s.tasks : GoodTask(s.tasks[j])
  BY <1>1, <1>2
<1>7. Attempted(s, DOMAIN s.tasks) /\ WindowServed(s, DOMAIN s.tasks) /\ BodyServed(s, DOMAIN s.tasks)
  BY <1>1, <1>2 DEF Attempted, WindowServed, BodyServed
<1>8. NextTask(s) = 1
  <2>1. DOMAIN s.tasks = {} /\ Cardinality(DOMAIN s.tasks) + 1 = 1
    BY <1>1, <1>2, <1>3
  <2>2. NextTask(s) = CHOOSE j \in 1..1 : j \notin {}
    BY <2>1 DEF NextTask
  <2>3. \E j \in 1..1 : j \notin {}
    OBVIOUS
  <2> QED
    BY <2>2, <2>3
<1> QED
  BY <1>4, <1>5, <1>6, <1>7, <1>8 DEF GoodApp, s

\* A dispose forgets the attempts, and with them the spinner.
LEMMA DisposeIsGood ==
    \A s : GoodApp(s) =>
        GoodApp([s EXCEPT !.disposed = TRUE, !.subscribed = FALSE, !.statuses = Empty,
                          !.materializing = FALSE, !.attempts = {}])
<1> TAKE s
<1> HAVE GoodApp(s)
<1> DEFINE t == [s EXCEPT !.disposed = TRUE, !.subscribed = FALSE, !.statuses = Empty,
                          !.materializing = FALSE, !.attempts = {}]
<1>1. DOMAIN s = AppFields
  BY DEF GoodApp, Shape
<1>2. /\ DOMAIN t = AppFields /\ t.tasks = s.tasks /\ t.attempts = {} /\ t.materializing = FALSE
      /\ t.mailboxes = s.mailboxes /\ t.account = s.account /\ t.mailbox = s.mailbox /\ t.view = s.view
      /\ t.emails = s.emails /\ t.bodyState = s.bodyState /\ t.email = s.email /\ t.body = s.body
      /\ t.loadState = s.loadState
  BY <1>1 DEF AppFields
<1> HIDE DEF t
<1>3. Shape(t) /\ Shown(t)
  BY <1>2 DEF GoodApp, Shape, Shown
<1>4. Attempted(t, DOMAIN t.tasks)
  BY <1>2 DEF Attempted
<1>5. WindowServed(t, DOMAIN t.tasks) /\ BodyServed(t, DOMAIN t.tasks)
  BY <1>2 DEF GoodApp, WindowServed, BodyServed
<1>6. GoodApp(t)
  BY <1>2, <1>3, <1>4, <1>5 DEF GoodApp
<1> QED
  BY <1>6 DEF t

-----------------------------------------------------------------------------
(* The invariant of the specification. *)

\* The reads that the store answers before a commit.
LEMMA AnsweredEarly ==
    ASSUME ViewInv, NEW early \in SUBSET Asked
    PROVE  LET t == Answered(early) IN
           /\ SameExcept(app, t, {"tasks"}) /\ DOMAIN t.tasks = DOMAIN app.tasks
           /\ \A j \in DOMAIN app.tasks :
                 /\ j \in early => AnsweredBy(app.tasks[j], t.tasks[j])
                 /\ j \notin early => t.tasks[j] = app.tasks[j]
<1> DEFINE tasks == [j \in DOMAIN app.tasks |->
                        IF j \in early
                        THEN [app.tasks[j] EXCEPT !.phase = "answered", !.res = Found(app.tasks[j])]
                        ELSE app.tasks[j]]
           t == [app EXCEPT !.tasks = tasks]
<1>1. Answered(early) = t
  BY DEF Answered
<1>2. ASSUME NEW j \in DOMAIN app.tasks, j \in early PROVE AnsweredBy(app.tasks[j], tasks[j])
  <2> DEFINE a == app.tasks[j]
             found == Found(a)
             b == [a EXCEPT !.phase = "answered", !.res = found]
  <2>1. GoodTask(a) /\ a.phase = "asked" /\ a.at # "materialize"
    BY <1>2 DEF ViewInv, GoodApp, Asked
  <2>2. tasks[j] = b
    BY <1>2
  <2> HIDE DEF a
  <2>3. a.at \in ReadingAts \ {"materialize"}
    BY <2>1 DEF GoodTask
  <2>4. GoodAnswer(a, found)
    BY <2>3, FoundIsGood DEF ViewInv
  <2> HIDE DEF found
  <2>5. /\ DOMAIN b = TaskFields /\ \A f \in TaskFields \ {"phase", "res"} : b[f] = a[f]
        /\ b.phase = "answered" /\ b.res = found
    BY <2>1 DEF GoodTask, TaskFields
  <2> HIDE DEF b
  <2>6. GoodAnswer(a, b.res)
    BY <2>4, <2>5
  <2>7. AnsweredBy(a, b)
    BY <2>1, <2>5, <2>6 DEF AnsweredBy
  <2> QED
    BY <2>2, <2>7 DEF a, b
<1>3. DOMAIN tasks = DOMAIN app.tasks /\ \A j \in DOMAIN app.tasks : j \notin early => tasks[j] = app.tasks[j]
  OBVIOUS
<1> HIDE DEF tasks
<1>4. DOMAIN app = AppFields
  BY DEF ViewInv, GoodApp, Shape
<1>5. SameExcept(app, t, {"tasks"}) /\ t.tasks = tasks
  BY <1>4 DEF SameExcept, AppFields
<1> HIDE DEF t
<1>6. /\ SameExcept(app, t, {"tasks"}) /\ DOMAIN t.tasks = DOMAIN app.tasks
      /\ \A j \in DOMAIN app.tasks :
            /\ j \in early => AnsweredBy(app.tasks[j], t.tasks[j])
            /\ j \notin early => t.tasks[j] = app.tasks[j]
  BY <1>2, <1>3, <1>5
<1> QED
  BY <1>1, <1>6

\* A commit of another part of the application.
LEMMA CommitKeeps == ASSUME ViewInv, Commit PROVE ViewInv'
<1>1. PICK w \in Writes, early \in SUBSET Asked :
         db' = Perform(db, w.op, w.arg).db /\ app' = Answered(early)
  BY DEF Commit, Change
<1>2. IsWrite(w.op) /\ IsArgument(w.op, w.arg)
  BY WritesAssumption
<1>3. IsStore(db')
  BY <1>1, <1>2, PerformKeepsStore DEF ViewInv
<1>4. db'.mailboxes \subseteq ToSet(MailboxOrder)
  <2> DEFINE P == ToSet(MailboxOrder)
  <2>1. w.op = "applyCollectionSync" /\ w.arg.kind = "mailbox" => DOMAIN w.arg.changed \subseteq P
    BY MailboxOrderAssumption
  <2>2. IsStore(db) /\ db.mailboxes \subseteq P
    BY DEF ViewInv
  <2> HIDE DEF P
  <2>3. Perform(db, w.op, w.arg).db.mailboxes \subseteq P
    BY <1>2, <2>1, <2>2, MailboxesStayPlaced
  <2> QED
    BY <1>1, <2>3 DEF P
<1>5. /\ SameExcept(app, app', {"tasks"}) /\ DOMAIN app'.tasks = DOMAIN app.tasks
      /\ \A j \in DOMAIN app.tasks : app'.tasks[j] = app.tasks[j] \/ AnsweredBy(app.tasks[j], app'.tasks[j])
  BY <1>1, AnsweredEarly
<1>6. GoodApp(app')
  BY <1>5, AnsweredIsGood DEF ViewInv
<1> QED
  BY <1>3, <1>4, <1>6 DEF ViewInv

\* The cache is looked into: the body is there, or is fetched next.
LEMMA ReadCachedBodyKeeps == ASSUME ViewInv, NEW i \in DOMAIN app.tasks, ReadCachedBody(i) PROVE ViewInv'
<1> DEFINE a == app.tasks[i]
           found == Read(db, Query("body", a.key)).kind
           phase == IF found = "absent" THEN "fetching" ELSE "answered"
           told == CASE found = "absent" -> None
                     [] found = "present" -> Answer("ok", None)
                     [] found = "ownerAbsent" -> Answer("emailAbsent", None)
           b == [a EXCEPT !.phase = phase, !.res = told]
<1>1. /\ app' = [app EXCEPT !.tasks[i].phase = phase, !.tasks[i].res = told]
      /\ a.phase = "asked" /\ a.at = "materialize" /\ UNCHANGED db
  BY DEF ReadCachedBody
<1>2. phase \in {"fetching", "answered"}
  OBVIOUS
<1> HIDE DEF phase, told
<1>3. GoodTask(a) /\ DOMAIN app = AppFields
  BY DEF ViewInv, GoodApp, Shape
<1>4. GoodAnswer(a, told)
  BY <1>1 DEF GoodAnswer
<1>5. app' = [app EXCEPT !.tasks[i] = b]
  BY <1>1, <1>3 DEF AppFields, GoodTask, TaskFields
<1>6. AnsweredBy(a, b)
  BY <1>1, <1>2, <1>3, <1>4 DEF AnsweredBy, GoodTask, TaskFields
<1> HIDE DEF b
<1>7. /\ SameExcept(app, app', {"tasks"}) /\ DOMAIN app'.tasks = DOMAIN app.tasks
      /\ app'.tasks[i] = b /\ \A j \in DOMAIN app.tasks \ {i} : app'.tasks[j] = app.tasks[j]
  BY <1>3, <1>5 DEF SameExcept, AppFields
<1>8. \A j \in DOMAIN app.tasks : app'.tasks[j] = app.tasks[j] \/ AnsweredBy(app.tasks[j], app'.tasks[j])
  BY <1>6, <1>7
<1>9. GoodApp(app')
  BY <1>7, <1>8, AnsweredIsGood DEF ViewInv
<1> QED
  BY <1>1, <1>9 DEF ViewInv

\* A body that is fetched and cached.
LEMMA FetchBodyKeeps == ASSUME ViewInv, NEW i \in DOMAIN app.tasks, FetchBody(i) PROVE ViewInv'
<1> DEFINE o == CacheEmailBody(db, app.tasks[i].key)
           told == Answer(IF o.result = "ok" THEN "ok" ELSE "emailAbsent", None)
<1>1. PICK early \in SUBSET Asked :
         /\ app' = [Answered(early) EXCEPT !.tasks[i].phase = "answered", !.tasks[i].res = told]
         /\ db' = o.db \/ db' = db
  BY DEF FetchBody, Change
<1>2. app.tasks[i].phase = "fetching" /\ app.tasks[i].at = "materialize"
  BY DEF FetchBody, ViewInv, GoodApp, GoodTask
<1>3. o = Conflict(db) \/ SameExcept(db, o.db, {"bodies"})
  BY CacheEffect DEF ViewInv
<1>4. o = Conflict(db) => o.db = db
  BY ConflictEffect
<1> HIDE DEF o, told
<1>5. db' = db \/ SameExcept(db, db', {"bodies"})
  BY <1>1, <1>3, <1>4
<1>6. IsStore(db')
  BY <1>5, SameKeepsStore DEF ViewInv
<1>7. db'.mailboxes = db.mailboxes
  BY <1>5, StoreTables DEF ViewInv, SameExcept, Tables
<1> DEFINE t == Answered(early)
           a == t.tasks[i]
           b == [a EXCEPT !.phase = "answered", !.res = told]
<1>8. /\ SameExcept(app, t, {"tasks"}) /\ DOMAIN t.tasks = DOMAIN app.tasks
      /\ \A j \in DOMAIN app.tasks :
            /\ j \in early => AnsweredBy(app.tasks[j], t.tasks[j])
            /\ j \notin early => t.tasks[j] = app.tasks[j]
  BY AnsweredEarly
<1>9. i \notin early
  BY <1>2 DEF Asked
<1>10. GoodTask(app.tasks[i]) /\ DOMAIN app = AppFields
  BY DEF ViewInv, GoodApp, Shape
<1>11. a = app.tasks[i] /\ DOMAIN a = TaskFields
  BY <1>8, <1>9, <1>10 DEF GoodTask
<1>12. app' = [t EXCEPT !.tasks[i] = b]
  BY <1>1, <1>8, <1>10, <1>11 DEF SameExcept, AppFields, TaskFields
<1>13. GoodAnswer(a, told)
  BY <1>2, <1>11 DEF GoodAnswer
<1> HIDE DEF t
<1>14. AnsweredBy(app.tasks[i], b)
  BY <1>2, <1>11, <1>13 DEF AnsweredBy, TaskFields
<1> HIDE DEF a, b
<1>15. /\ SameExcept(app, app', {"tasks"}) /\ DOMAIN app'.tasks = DOMAIN app.tasks
       /\ app'.tasks[i] = b /\ \A j \in DOMAIN app.tasks \ {i} : app'.tasks[j] = t.tasks[j]
  BY <1>8, <1>10, <1>12 DEF SameExcept, AppFields
<1>16. \A j \in DOMAIN app.tasks : app'.tasks[j] = app.tasks[j] \/ AnsweredBy(app.tasks[j], app'.tasks[j])
  BY <1>8, <1>14, <1>15
<1>17. GoodApp(app')
  BY <1>15, <1>16, AnsweredIsGood DEF ViewInv
<1> QED
  BY <1>6, <1>7, <1>17 DEF ViewInv

\* An answer that is resumed, or an awaited function that returns.
LEMMA ResumeTaskKeeps == ASSUME ViewInv, NEW i \in DOMAIN app.tasks, ResumeTask(i) PROVE ViewInv'
<1> DEFINE a == app.tasks[i]
<1>1. GoodTask(a) /\ GoodApp(app) /\ UNCHANGED db
  BY DEF ViewInv, GoodApp, ResumeTask
<1>2. \/ i \in Asked /\ app' = Resume(app, i, Found(a))
      \/ a.phase = "answered" /\ app' = Resume(app, i, a.res)
      \/ a.at = "return" /\ app' = Return(app, i)
  BY DEF ResumeTask
<1>3. CASE i \in Asked /\ app' = Resume(app, i, Found(a))
  <2>1. a.at \in ReadingAts \ {"materialize"}
    BY <1>1, <1>3 DEF Asked, GoodTask
  <2>2. GoodAnswer(a, Found(a))
    BY <2>1, FoundIsGood DEF ViewInv
  <2> DEFINE r == Found(a)
  <2> HIDE DEF r
  <2>3. GoodAnswer(app.tasks[i], r) /\ app.tasks[i].at \in ReadingAts
    BY <2>1, <2>2 DEF r
  <2>4. GoodApp(Resume(app, i, r))
    BY <1>1, <2>3, ResumeIsGood
  <2> QED
    BY <1>1, <1>3, <2>4 DEF r, ViewInv
<1>4. CASE a.phase = "answered" /\ app' = Resume(app, i, a.res)
  <2> DEFINE r == a.res
  <2>1. GoodAnswer(app.tasks[i], r) /\ app.tasks[i].at \in ReadingAts
    BY <1>1, <1>4 DEF GoodTask
  <2> HIDE DEF r
  <2>2. GoodApp(Resume(app, i, r))
    BY <1>1, <2>1, ResumeIsGood
  <2> QED
    BY <1>1, <1>4, <2>2 DEF r, ViewInv
<1>5. CASE a.at = "return" /\ app' = Return(app, i)
  <2>1. GoodApp(Return(app, i))
    BY <1>1, <1>5, ReturnIsGood
  <2> QED
    BY <1>1, <1>5, <2>1 DEF ViewInv
<1> QED
  BY <1>2, <1>3, <1>4, <1>5

\* A call that fails.
LEMMA ResumeFailsKeeps == ASSUME ViewInv, NEW i \in DOMAIN app.tasks, ResumeFails(i) PROVE ViewInv'
<1>1. PICK kind \in Failures(app.tasks[i]) : app' = Resume(app, i, Answer(kind, None))
  BY DEF ResumeFails
<1> DEFINE r == Answer(kind, None)
<1>2. r.kind = kind
  BY DEF Answer
<1>3. app.tasks[i].phase \in {"asked", "fetching"} /\ GoodTask(app.tasks[i]) /\ GoodApp(app) /\ UNCHANGED db
  BY <1>1 DEF Failures, ResumeFails, ViewInv, GoodApp
<1>4. app.tasks[i].at \in ReadingAts
  BY <1>3 DEF GoodTask
<1>5. app' = Resume(app, i, r)
  BY <1>1
<1> HIDE DEF r
<1>6. GoodAnswer(app.tasks[i], r)
  <2>1. app.tasks[i].at # "materialize" => kind = "failed"
    BY <1>1, <1>3 DEF Failures, GoodTask
  <2> QED
    BY <1>2, <2>1 DEF GoodAnswer
<1>7. GoodApp(Resume(app, i, r))
  BY <1>3, <1>4, <1>6, ResumeIsGood
<1> QED
  BY <1>3, <1>5, <1>7 DEF ViewInv

\* A flush of the hints.
LEMMA FlushKeeps == ASSUME ViewInv, FlushInvalidations PROVE ViewInv'
<1>1. app' = Invalidate(app, pending) /\ UNCHANGED db
  BY DEF FlushInvalidations
<1>2. GoodApp(Invalidate(app, pending))
  BY InvalidateIsGood DEF ViewInv
<1> QED
  BY <1>1, <1>2 DEF ViewInv

\* The clicks on a list.
LEMMA SelectAccountKeeps == ASSUME ViewInv, NEW a, SelectAccount(a) PROVE ViewInv'
<1> DEFINE s == IF app.account = a THEN app ELSE StoreSelectAccount(app, a)
<1>1. app' = ShowAccount(Spawn(s, "user"), NextTask(app), a) /\ UNCHANGED db
  BY DEF SelectAccount, Click
<1>2. GoodApp(app)
  BY DEF ViewInv
<1>3. GoodApp(s) /\ s.tasks = app.tasks
  BY <1>2, AccountSelected
<1> HIDE DEF s
<1>4. NextTask(s) = NextTask(app)
  BY <1>3, SameNextTask
<1>5. GoodApp(ShowAccount(Spawn(s, "user"), NextTask(s), a))
  BY <1>3, ShowAccountStarts
<1> QED
  BY <1>1, <1>4, <1>5 DEF ViewInv

\* A Mailbox is clicked.
LEMMA SelectMailboxKeeps == ASSUME ViewInv, NEW m \in app.mailboxes, SelectMailbox(m) PROVE ViewInv'
<1> DEFINE s == IF app.mailbox = m THEN app ELSE StoreSelectMailbox(app, m)
<1>1. app' = RefreshMailboxWindow(Spawn(s, "user"), NextTask(app)) /\ UNCHANGED db
  BY DEF SelectMailbox, Click
<1>2. GoodApp(app) /\ m.accountKey = app.account
  BY DEF ViewInv, GoodApp, Shown
<1>3. GoodApp(s) /\ s.tasks = app.tasks
  BY <1>2, MailboxSelected
<1> HIDE DEF s
<1>4. NextTask(s) = NextTask(app)
  BY <1>3, SameNextTask
<1>5. GoodApp(RefreshMailboxWindow(Spawn(s, "user"), NextTask(s)))
  BY <1>3, WindowReadStarts
<1> QED
  BY <1>1, <1>4, <1>5 DEF ViewInv

\* An Email is clicked.
LEMMA SelectEmailKeeps == ASSUME ViewInv, NEW e, SelectEmail(e) PROVE ViewInv'
<1> DEFINE s == IF app.email = e THEN app ELSE StoreSelectEmail(app, e)
           frame == Frame("demand", e)
<1>1. app' = RefreshSelectedBody(Push(Spawn(s, "user"), NextTask(app), frame), NextTask(app)) /\ UNCHANGED db
  BY DEF SelectEmail, Click
<1>2. GoodApp(app)
  BY DEF ViewInv
<1>3. Resting(app) /\ WindowServed(app, DOMAIN app.tasks)
  BY <1>2 DEF GoodApp, Resting
<1>4. Resting(s) /\ WindowServed(s, DOMAIN s.tasks) /\ s.tasks = app.tasks
  BY <1>2, <1>3, EmailSelected
<1>5. frame.do \in PlainFrames
  BY DEF Frame, PlainFrames
<1> HIDE DEF s, frame
<1>6. NextTask(s) = NextTask(app)
  BY <1>4, SameNextTask
<1>7. GoodApp(RefreshSelectedBody(Push(Spawn(s, "user"), NextTask(s), frame), NextTask(s)))
  BY <1>4, <1>5, BodyReadStarts
<1> QED
  BY <1>1, <1>2, <1>6, <1>7 DEF ViewInv

\* The buttons that try again.
LEMMA RetryBodyKeeps == ASSUME ViewInv, RetryBody PROVE ViewInv'
<1>1. app' = MaterializeBody(app, app.email) /\ UNCHANGED db
  BY DEF RetryBody, Click
<1>2. GoodApp(MaterializeBody(app, app.email))
  BY MaterializeIsGood DEF ViewInv
<1> QED
  BY <1>1, <1>2 DEF ViewInv

\* The error screen tries again.
LEMMA RetryKeeps == ASSUME ViewInv, Retry PROVE ViewInv'
<1> DEFINE s == [app EXCEPT !.local = "opening"]
           n == NextTask(app)
           again == Await(Push(Spawn(s, "retry"), n, Frame("ready", NoId)), n, "accounts", NoId)
           anew == Await(Spawn(s, "initialize"), n, "subscribe", NoId)
<1>1. app' \in {again, anew} /\ UNCHANGED db
  BY DEF Retry, Click, RefreshAccounts
<1>2. GoodApp(app) /\ DOMAIN app = AppFields
  BY DEF ViewInv, GoodApp, Shape
<1>3. SameExcept(app, s, Neutral \cup {"loadState"}) /\ s.loadState = app.loadState /\ s.tasks = app.tasks
  BY <1>2 DEF SameExcept, Neutral, AppFields
<1> HIDE DEF s
<1>4. GoodApp(s)
  BY <1>2, <1>3, NeutralIsGood
<1>5. n = NextTask(s)
  BY <1>3, SameNextTask
<1> HIDE DEF n
<1>6. GoodApp(again) /\ GoodApp(anew)
  BY <1>4, <1>5, RetryIsGood
<1> HIDE DEF again, anew
<1> QED
  BY <1>1, <1>6 DEF ViewInv

\* The end of the session.
LEMMA DisposeKeeps == ASSUME ViewInv, Dispose PROVE ViewInv'
BY DisposeIsGood DEF Dispose, Click, ViewInv

\* The first state.
LEMMA ViewInit == Init => ViewInv
<1> SUFFICES ASSUME Init PROVE ViewInv
  OBVIOUS
<1> DEFINE t == Spawn(MailState, "initialize")
           n == NextTask(MailState)
<1>1. IsStore(db) /\ db.mailboxes \subseteq ToSet(MailboxOrder)
  BY StoreAssumption, MailboxOrderAssumption DEF Init
<1>2. "initialize" \in Owners /\ "initialize" # "body"
  BY DEF Owners
<1>3. GoodApp(MailState) /\ n = 1
  BY MailStateIsGood
<1>4. /\ Running(t, n, NoId) /\ WindowServed(t, Others(t, n)) /\ BodyServed(t, Others(t, n))
      /\ t.tasks[n].owner = "initialize"
  BY <1>2, <1>3, CallBegins
<1>5. app = Await(t, n, "subscribe", NoId)
  BY <1>3 DEF Init
<1> HIDE DEF t, n
<1>6. GoodApp(Await(t, n, "subscribe", NoId))
  BY <1>2, <1>4, OtherReadIsGood
<1> QED
  BY <1>1, <1>5, <1>6 DEF ViewInv

\* The stores and the suspended calls of the controller (application.ts) stay consistent: every spinner,
\* list and body that loads has a call behind it that is current, whatever answers, hints, clicks and
\* commits overlap.
THEOREM ViewHolds == Spec => []ViewInv
<1>1. Init => ViewInv
  BY ViewInit
<1>2. ViewInv /\ [Next]_vars => ViewInv'
  <2> SUFFICES ASSUME ViewInv, [Next]_vars PROVE ViewInv'
    OBVIOUS
  <2>1. ASSUME NEW i \in DOMAIN app.tasks, ReadCachedBody(i) \/ FetchBody(i) \/ ResumeTask(i) \/ ResumeFails(i) PROVE ViewInv'
    BY <2>1, ReadCachedBodyKeeps, FetchBodyKeeps, ResumeTaskKeeps, ResumeFailsKeeps
  <2>2. CASE Commit
    BY <2>2, CommitKeeps
  <2>3. CASE Deliver
    BY <2>3 DEF Deliver, ViewInv
  <2>4. CASE FlushInvalidations
    BY <2>4, FlushKeeps
  <2>5. ASSUME NEW a \in app.accounts, SelectAccount(a) PROVE ViewInv'
    BY <2>5, SelectAccountKeeps
  <2>6. ASSUME NEW m \in app.mailboxes, SelectMailbox(m) PROVE ViewInv'
    BY <2>6, SelectMailboxKeeps
  <2>7. ASSUME NEW e \in DOMAIN app.emails, SelectEmail(e) PROVE ViewInv'
    BY <2>7, SelectEmailKeeps
  <2>8. CASE RetryBody \/ Retry \/ Dispose
    BY <2>8, RetryBodyKeeps, RetryKeeps, DisposeKeeps
  <2>9. CASE UNCHANGED vars
    BY <2>9 DEF vars, ViewInv
  <2> QED
    BY <2>1, <2>2, <2>3, <2>4, <2>5, <2>6, <2>7, <2>8, <2>9, Zenon DEF Next
<1> QED
  BY <1>1, <1>2, PTL DEF Spec

\* The Mailboxes, the list and the body on the screen belong to the current selection, whatever answers
\* arrive late (application.ts, stores/mail.ts): none is left over from, or lands in, another one.
THEOREM ShownIsSelectedHolds == Spec => []ShownIsSelected
<1>1. ViewInv => ShownIsSelected
  BY DEF ViewInv, GoodApp, Shown, Listed, ShownIsSelected
<1> QED
  BY <1>1, ViewHolds, PTL

\* Once every call has ended and every hint was used, no part of the screen still says that it is
\* loading (application.ts): no generation is superseded without a read that takes its place.
THEOREM QuietMeansSettledHolds == Spec => []QuietMeansSettled
<1>1. ViewInv => QuietMeansSettled
  <2> SUFFICES ASSUME ViewInv, Quiet PROVE app.loadState # "loading" /\ app.bodyState # "loading" /\ ~app.materializing
    BY DEF QuietMeansSettled
  <2>1. DOMAIN app.tasks = {} /\ ~app.disposed
    BY DEF Quiet, Empty
  <2> QED
    BY <2>1 DEF ViewInv, GoodApp, WindowServed, BodyServed, Attempted
<1> QED
  BY <1>1, ViewHolds, PTL

=============================================================================
