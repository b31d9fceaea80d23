----------------------------- MODULE MCLocalEngine -----------------------------
(* One account with two Mailboxes and one Email, a second account to register. *)
EXTENDS LocalEngine

Interchangeable == Permutations(Clients)

a1 == "a1"
a2 == "a2"
m1 == ScopedId(a1, "m1")
m2 == ScopedId(a1, "m2")
e1 == ScopedId(a1, "e1")
e2 == ScopedId(a1, "e2")
f1 == ScopedId(a2, "f1")
i1 == ScopedId(a1, "i1")

Commit(kind, mode, expected, next, changed, destroyed) ==
    [account |-> a1, kind |-> kind, mode |-> mode, expected |-> expected, next |-> next,
     changed |-> changed, destroyed |-> destroyed]

Mail(keywords) == [keywords |-> keywords, mailboxes |-> {m1}]

Commits ==
    {Commit("email", "delta", "s1", "s2", Entry(e2, Mail({"seen"})), {e1}),
     Commit("email", "delta", "s1", "s2", Entry(e1, Mail({})), {e1}),
     Commit("email", "replace", "s2", "s3", Entry(e1, Mail({})), {}),
     Commit("email", "delta", "s1", "s2", Entry(f1, Mail({})), {}),
     Commit("mailbox", "replace", "s1", "s2", Entry(m1, None), {}),
     Commit("identity", "replace", None, "s1", Entry(i1, None), {})}

Span(s, e) == [start |-> s, endExclusive |-> e]
Item(p, e) == [position |-> p, emailId |-> e]
View(total, coverage, items) == [mailboxId |-> m2, total |-> total, coverage |-> coverage, items |-> items]

Views ==
    {View(3, <<>>, <<>>),
     View(3, <<Span(0, 2)>>, <<Item(0, e1), Item(1, e2)>>),
     View(3, <<Span(0, 1), Span(2, 3)>>, <<Item(0, e1), Item(2, e2)>>),
     View(3, <<Span(0, 1)>>, <<Item(0, e1), Item(2, e2)>>),
     View(3, <<Span(0, 2)>>, <<Item(0, e1), Item(2, e2)>>),
     View(3, <<Span(0, 1), Span(1, 2)>>, <<Item(0, e1), Item(1, e2)>>)}

Me == [id |-> i1, name |-> "me", email |-> "a@x", replyTo |-> <<>>, bcc |-> <<[name |-> None, email |-> "b@x"]>>]
Intent == CHOOSE i \in SendIntent(Me, <<>>, <<>>, <<[name |-> "b", email |-> "b@x"]>>) : TRUE

\* A keyword change that waits for its second attempt, and a send whose first one is out.
Retrying == {[v EXCEPT !.lifecycle = [status |-> "retrying", attemptCount |-> 1, nextAttemptAt |-> "soon"]] :
                v \in KeywordMutation("k", a1, e1, {"seen"}, {})}
Sending == {[v EXCEPT !.lifecycle = [status |-> "inFlight", attemptCount |-> 1]] : v \in SendMutation("s", a1, Intent)}

MCInitialDb ==
    [MemoryState EXCEPT
        !.accounts = Entry(a1, "r1"), !.mailboxes = {m1, m2},
        !.emails = Entry(e1, {"seen"}), !.memberships = Entry(e1, {m1}),
        !.cursors = With(Entry(<<a1, "email">>, "s1"), Entry(<<a1, "mailbox">>, "s1")),
        !.mutations = [key \in {MutationKey(v) : v \in Retrying \cup Sending} |->
                          CHOOSE v \in Retrying \cup Sending : MutationKey(v) = key]]

MCRequests ==
    {[op |-> "registerAccount", arg |-> [key |-> a2, remoteRef |-> "r2"]],
     [op |-> "registerAccount", arg |-> [key |-> a1, remoteRef |-> "r2"]],
     [op |-> "cacheEmailBody", arg |-> e1],
     [op |-> "replaceAttachmentRefs", arg |-> e1]}
    \cup {[op |-> "applyCollectionSync", arg |-> c] : c \in Commits}
    \cup {[op |-> "replaceMailboxView", arg |-> v] : v \in Views}
    \cup {[op |-> "stageSendMutation", arg |-> v] : v \in SendMutation("s2", a1, Intent)}
    \cup {[op |-> "applyOptimisticKeywordMutation", arg |-> v] :
            v \in KeywordMutation("k2", a1, e1, {"flagged"}, {"seen"})}
    \cup {[op |-> "applyOptimisticMailboxMembershipMutation", arg |-> v] :
            v \in MailboxMembershipMutation("x", a1, e1, <<m2>>, <<m1>>)}

=============================================================================
