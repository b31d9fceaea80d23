------------------------------ MODULE MCMailView ------------------------------
(* Account a1 with an inbox of two Emails and an empty Mailbox; account a2 with *)
(* one Mailbox that was never queried.                                         *)
EXTENDS MailView

a1 == "a1"
a2 == "a2"
inbox == ScopedId(a1, "inbox")
other == ScopedId(a1, "other")
box2 == ScopedId(a2, "inbox")
e1 == ScopedId(a1, "e1")
e2 == ScopedId(a1, "e2")

MCAccountOrder == <<a1, a2>>
MCMailboxOrder == <<inbox, other, box2>>

View(m, ids) ==
    [mailboxId |-> m, total |-> Len(ids),
     coverage |-> IF ids = <<>> THEN <<>> ELSE <<[start |-> 0, endExclusive |-> Len(ids)]>>,
     items |-> [i \in DOMAIN ids |-> [position |-> i - 1, emailId |-> ids[i]]]]

MCInitialDb ==
    [MemoryState EXCEPT
        !.accounts = Entry(a1, "r1"), !.mailboxes = {inbox, other, box2},
        !.emails = [e \in {e1, e2} |-> {}], !.memberships = [e \in {e1, e2} |-> {inbox}],
        !.bodies = {e2},
        !.views = With(Entry(inbox, View(inbox, <<e1, e2>>)), Entry(other, View(other, <<>>))),
        !.cursors = [k \in {<<a1, "email">>, <<a1, "mailbox">>} |-> "s1"]]

Collection(kind, changed, destroyed) ==
    [account |-> a1, kind |-> kind, mode |-> "delta", expected |-> "s1", next |-> "s2",
     changed |-> changed, destroyed |-> destroyed]

MCWrites ==
    {[op |-> "registerAccount", arg |-> [key |-> a2, remoteRef |-> "r2"]],
     [op |-> "cacheEmailBody", arg |-> e1],
     [op |-> "replaceMailboxView", arg |-> View(inbox, <<e2>>)],
     [op |-> "applyCollectionSync", arg |-> Collection("email", Empty, {e1})],
     [op |-> "applyCollectionSync", arg |-> Collection("mailbox", Empty, {inbox})]}
    \cup {[op |-> "applyOptimisticKeywordMutation", arg |-> v] :
            v \in KeywordMutation("k", a1, e2, {"seen"}, {})}

=============================================================================
