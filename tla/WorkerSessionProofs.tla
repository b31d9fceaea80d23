------------------------- MODULE WorkerSessionProofs -------------------------
(***************************************************************************)
(* Proofs about WorkerSession, for any number of requests and however far   *)
(* the main thread is behind.                                               *)
(***************************************************************************)
EXTENDS WorkerSession, SequenceTheorems, TLAPS

(***************************************************************************)
(* The invariant.                                                           *)
(***************************************************************************)
Statuses == {"anonymous", "connecting", "authenticated", "error", "expired"}

\* The steps at which a send waits for a persistence call.
Waiting == {"claim", "confirm", "retrying", "failedTerminal"}

Values == {"ok", "conflict", "unavailable"}

WorkerMsgs == [type : {"request"}, id : Request]
              \cup [type : {"IPC_INVOKE_RESULT"}, id : Request, ok : BOOLEAN, value : Values]

MainMsgs == [type : Answers \cup {"IPC_INVOKE"}, id : Request]
            \cup [type : {"SESSION_TEARDOWN"}, id : {None}]
            \cup [type : {"CONNECTION_STATUS"}, status : Statuses]

Tasks == [at : Waiting \cup {"idle", "syncing", "submit"}, client : Request \cup {None},
          session : {"keep", "expire"}]

\* The messages in a queue.
Msgs(q) == {q[k] : k \in 1..Len(q)}

SessionTypes ==
    /\ token \in Request \cup {None} /\ client \in Request \cup {None}
    /\ session \in Request \cup {None} /\ generation \in Nat
    /\ opening \in [Request -> Int]

WorkTypes ==
    /\ kind \in [Request -> Kinds \cup {"none"}]
    /\ calls \subseteq Request
    /\ toWorker \in Seq(WorkerMsgs) /\ toMain \in Seq(MainMsgs)
    /\ task \in [Request -> Tasks]
    /\ row \in {"pending", "inFlight", "retrying", "failedTerminal", "removed"}
    /\ deliveries \in Nat
    /\ settled \in [Request -> {"no", "sent", "over"}]

\* At most one message about a request is on its way to the Worker, and at most
\* one call of a request on its way to the main thread.
OnceToWorker(q) == \A j, k \in 1..Len(q) : q[j].id = q[k].id => j = k

OnceToMain(q) == \A j, k \in 1..Len(q) : q[j].type = "IPC_INVOKE" /\ q[j] = q[k] => j = k

\* The call of a send is in one place: posted, running, or answered.
LinkInv ==
    /\ OnceToWorker(toWorker) /\ OnceToMain(toMain)
    /\ \A r \in Request : kind[r] = "none" => task[r] = Idle
    /\ \A m \in Msgs(toWorker) :
          /\ m.type = "request" => kind[m.id] # "none" /\ task[m.id] = Idle
          /\ m.type = "IPC_INVOKE_RESULT" =>
                 /\ task[m.id].at \in Waiting
                 /\ m.id \notin calls /\ Msg("IPC_INVOKE", m.id) \notin Msgs(toMain)
    /\ \A t \in calls : task[t].at \in Waiting /\ Msg("IPC_INVOKE", t) \notin Msgs(toMain)
    /\ \A t \in Request : Msg("IPC_INVOKE", t) \in Msgs(toMain) => task[t].at \in Waiting

\* A client has its token, unless an empty one replaced it; a session is its
\* client's, and the current open is over when there is a session.
ClientInv ==
    /\ token # None => kind[token] \in InitKinds
    /\ client # None => token = client \/ EmptyToken
    /\ session # None => client = session
    /\ \A i \in Request : opening[i] <= generation
    /\ \A i, j \in Request : opening[i] = opening[j] /\ opening[i] # -1 => i = j
    /\ session # None => \A i \in Request : opening[i] # generation

\* The last status in a queue of messages to the main thread.
NoStatus(q) == \A k \in 1..Len(q) : q[k].type # "CONNECTION_STATUS"

LastStatus(q, s) ==
    \E k \in 1..Len(q) : /\ q[k] = Status(s)
                         /\ \A j \in (k + 1)..Len(q) : q[j].type # "CONNECTION_STATUS"

\* What the main thread shows once it has read its queue is true.
Agrees(s) == s = "authenticated" <=> session # None

ToldInv == ~disposed /\ ~EmptyToken =>
               \/ NoStatus(toMain) /\ Agrees(shown)
               \/ \E s \in Statuses : LastStatus(toMain, s) /\ Agrees(s)

\* The send that holds the claim of the mutation.
HasAnswer(t) == \E m \in Msgs(toWorker) : m.id = t

Owns(t) ==
    \/ task[t].at = "submit"
    \/ task[t].at = "claim" /\ InvokeResult(t, TRUE, "ok") \in Msgs(toWorker)
    \/ task[t].at \in {"confirm", "retrying", "failedTerminal"} /\ ~HasAnswer(t)

OwnerInv ==
    /\ \A t, u \in Request : Owns(t) /\ Owns(u) => t = u
    /\ \A t \in Request : Owns(t) => row = "inFlight"
    /\ row \in {"pending", "retrying"} => deliveries = 0
    /\ \A t \in Request : Owns(t) /\ task[t].at # "confirm" => deliveries = 0
    /\ \A t \in Request : task[t].at = "confirm" => deliveries = 1
    /\ deliveries <= 1
    /\ \A r \in Request : Msg("sent", r) \in Msgs(toMain) \/ settled[r] = "sent" => deliveries = 1

(***************************************************************************)
(* Queues.                                                                  *)
(***************************************************************************)
\* What is in a queue after a message was appended.
LEMMA AppendMsgs ==
    ASSUME NEW S, NEW q \in Seq(S), NEW m \in S
    PROVE  /\ Append(q, m) \in Seq(S)
           /\ Msgs(Append(q, m)) = Msgs(q) \cup {m}
<1>1. /\ Append(q, m) \in Seq(S) /\ Len(Append(q, m)) = Len(q) + 1 /\ Len(q) \in Nat
      /\ \A k \in 1..Len(q) : Append(q, m)[k] = q[k]
      /\ Append(q, m)[Len(q) + 1] = m
  BY AppendProperties, LenProperties
<1> QED
  BY <1>1 DEF Msgs

\* What is in a queue after its head was taken.
LEMMA TailMsgs ==
    ASSUME NEW S, NEW q \in Seq(S), q # <<>>
    PROVE  /\ Head(q) \in S /\ Tail(q) \in Seq(S) /\ Head(q) \in Msgs(q)
           /\ Msgs(q) = Msgs(Tail(q)) \cup {Head(q)}
<1>1. /\ Head(q) \in S /\ Tail(q) \in Seq(S) /\ Len(Tail(q)) = Len(q) - 1
      /\ \A k \in 1..Len(Tail(q)) : Tail(q)[k] = q[k + 1]
      /\ Len(q) \in Nat /\ Len(q) >= 1 /\ Head(q) = q[1]
  BY HeadTailProperties, LenProperties, EmptySeq
<1>2. Msgs(Tail(q)) \subseteq Msgs(q) /\ Head(q) \in Msgs(q)
  BY <1>1 DEF Msgs
<1>3. ASSUME NEW k \in 1..Len(q) PROVE q[k] \in Msgs(Tail(q)) \cup {Head(q)}
  <2>1. CASE k = 1
    BY <1>1, <2>1
  <2>2. CASE k # 1
    <3>1. k - 1 \in 1..Len(Tail(q)) /\ Tail(q)[k - 1] = q[k]
      BY <1>1, <2>2
    <3> QED
      BY <3>1 DEF Msgs
  <2> QED
    BY <2>1, <2>2
<1> QED
  BY <1>1, <1>2, <1>3 DEF Msgs

\* What is in a queue after several messages were posted to it.
LEMMA ConcatMsgs ==
    ASSUME NEW S, NEW q \in Seq(S), NEW r \in Seq(S)
    PROVE  q \o r \in Seq(S) /\ Msgs(q \o r) = Msgs(q) \cup Msgs(r)
<1>1. /\ q \o r \in Seq(S) /\ Len(q \o r) = Len(q) + Len(r)
      /\ Len(q) \in Nat /\ Len(r) \in Nat
      /\ \A k \in 1..(Len(q) + Len(r)) :
             (q \o r)[k] = IF k <= Len(q) THEN q[k] ELSE r[k - Len(q)]
  BY ConcatProperties, LenProperties
<1>2. ASSUME NEW k \in 1..Len(r) PROVE r[k] \in Msgs(q \o r)
  <2>1. Len(q) + k \in 1..Len(q \o r) /\ (q \o r)[Len(q) + k] = r[k]
    BY <1>1
  <2> QED
    BY <2>1 DEF Msgs
<1>3. ASSUME NEW k \in 1..Len(q) PROVE q[k] \in Msgs(q \o r)
  <2>1. k \in 1..Len(q \o r) /\ (q \o r)[k] = q[k]
    BY <1>1
  <2> QED
    BY <2>1 DEF Msgs
<1>4. ASSUME NEW k \in 1..Len(q \o r) PROVE (q \o r)[k] \in Msgs(q) \cup Msgs(r)
  <2>1. CASE k <= Len(q)
    BY <1>1, <2>1 DEF Msgs
  <2>2. CASE ~(k <= Len(q))
    <3>1. k - Len(q) \in 1..Len(r) /\ (q \o r)[k] = r[k - Len(q)]
      BY <1>1, <2>2
    <3> QED
      BY <3>1 DEF Msgs
  <2> QED
    BY <2>1, <2>2
<1> QED
  BY <1>1, <1>2, <1>3, <1>4 DEF Msgs

\* The contents of the short lists that handlers post.
LEMMA TupleMsgs ==
    /\ Msgs(<<>>) = {}
    /\ \A a : Msgs(<<a>>) = {a}
    /\ \A a, b : Msgs(<<a, b>>) = {a, b}
    /\ \A a, b, c : Msgs(<<a, b, c>>) = {a, b, c}
BY DEF Msgs

\* A message about a request with none on its way keeps the queue unambiguous.
LEMMA AppendOnce ==
    ASSUME NEW q \in Seq(WorkerMsgs), NEW m \in WorkerMsgs, OnceToWorker(q),
           \A n \in Msgs(q) : n.id # m.id
    PROVE  OnceToWorker(Append(q, m))
<1>1. /\ Len(Append(q, m)) = Len(q) + 1 /\ Len(q) \in Nat
      /\ \A k \in 1..Len(q) : Append(q, m)[k] = q[k] /\ q[k].id # m.id
      /\ Append(q, m)[Len(q) + 1] = m
  BY AppendProperties, LenProperties DEF Msgs
<1> QED
  BY <1>1 DEF OnceToWorker

\* The head of the Worker's queue is the only message about its request.
LEMMA TailOnce ==
    ASSUME NEW q \in Seq(WorkerMsgs), q # <<>>, OnceToWorker(q)
    PROVE  OnceToWorker(Tail(q)) /\ \A m \in Msgs(Tail(q)) : m.id # Head(q).id
<1>1. /\ Tail(q) \in Seq(WorkerMsgs) /\ Len(Tail(q)) = Len(q) - 1
      /\ \A k \in 1..Len(Tail(q)) : Tail(q)[k] = q[k + 1]
      /\ Len(q) \in Nat /\ Len(q) >= 1 /\ Head(q) = q[1]
  BY HeadTailProperties, LenProperties, EmptySeq
<1>2. OnceToWorker(Tail(q))
  <2> SUFFICES ASSUME NEW j \in 1..Len(Tail(q)), NEW k \in 1..Len(Tail(q)),
                      Tail(q)[j].id = Tail(q)[k].id
               PROVE  j = k
    BY DEF OnceToWorker
  <2>1. q[j + 1].id = q[k + 1].id /\ j + 1 \in 1..Len(q) /\ k + 1 \in 1..Len(q)
    BY <1>1
  <2>2. j + 1 = k + 1
    BY <2>1 DEF OnceToWorker
  <2> QED
    BY <2>2
<1>3. ASSUME NEW k \in 1..Len(Tail(q)) PROVE Tail(q)[k].id # Head(q).id
  <2>1. k + 1 \in 1..Len(q) /\ 1 \in 1..Len(q) /\ k + 1 # 1
    BY <1>1
  <2>2. q[k + 1].id # q[1].id
    BY <2>1 DEF OnceToWorker
  <2> QED
    BY <1>1, <2>2
<1> QED
  BY <1>2, <1>3 DEF Msgs

\* A call is posted only if it is not on its way already.
LEMMA PostOnce ==
    ASSUME NEW q \in Seq(MainMsgs), NEW r \in Seq(MainMsgs), OnceToMain(q), OnceToMain(r),
           \A m \in Msgs(r) : m.type = "IPC_INVOKE" => m \notin Msgs(q)
    PROVE  OnceToMain(q \o r)
<1>1. /\ Len(q \o r) = Len(q) + Len(r) /\ Len(q) \in Nat /\ Len(r) \in Nat
      /\ \A k \in 1..(Len(q) + Len(r)) :
             (q \o r)[k] = IF k <= Len(q) THEN q[k] ELSE r[k - Len(q)]
  BY ConcatProperties, LenProperties
<1> SUFFICES ASSUME NEW j \in 1..Len(q \o r), NEW k \in 1..Len(q \o r),
                    (q \o r)[j].type = "IPC_INVOKE", (q \o r)[j] = (q \o r)[k]
             PROVE  j = k
  BY DEF OnceToMain
<1>2. CASE j <= Len(q) /\ k <= Len(q)
  BY <1>1, <1>2 DEF OnceToMain
<1>3. CASE j > Len(q) /\ k > Len(q)
  <2>1. /\ j - Len(q) \in 1..Len(r) /\ k - Len(q) \in 1..Len(r)
        /\ r[j - Len(q)] = r[k - Len(q)] /\ r[j - Len(q)].type = "IPC_INVOKE"
    BY <1>1, <1>3
  <2>2. j - Len(q) = k - Len(q)
    BY <2>1 DEF OnceToMain
  <2> QED
    BY <1>1, <2>2
<1>4. CASE j <= Len(q) /\ k > Len(q)
  <2>1. k - Len(q) \in 1..Len(r) /\ r[k - Len(q)] = q[j] /\ j \in 1..Len(q)
        /\ q[j].type = "IPC_INVOKE"
    BY <1>1, <1>4
  <2>2. r[k - Len(q)] \in Msgs(r) /\ q[j] \in Msgs(q)
    BY <2>1 DEF Msgs
  <2> QED
    BY <2>1, <2>2
<1>5. CASE j > Len(q) /\ k <= Len(q)
  <2>1. j - Len(q) \in 1..Len(r) /\ r[j - Len(q)] = q[k] /\ k \in 1..Len(q)
        /\ q[k].type = "IPC_INVOKE"
    BY <1>1, <1>5
  <2>2. r[j - Len(q)] \in Msgs(r) /\ q[k] \in Msgs(q)
    BY <2>1 DEF Msgs
  <2> QED
    BY <2>1, <2>2
<1> QED
  BY <1>1, <1>2, <1>3, <1>4, <1>5

\* A call that the main thread takes is not in its queue any more.
LEMMA TakeOnce ==
    ASSUME NEW q \in Seq(MainMsgs), q # <<>>, OnceToMain(q)
    PROVE  /\ OnceToMain(Tail(q))
           /\ Head(q).type = "IPC_INVOKE" => Head(q) \notin Msgs(Tail(q))
<1>1. /\ Tail(q) \in Seq(MainMsgs) /\ Len(Tail(q)) = Len(q) - 1
      /\ \A k \in 1..Len(Tail(q)) : Tail(q)[k] = q[k + 1]
      /\ Len(q) \in Nat /\ Len(q) >= 1 /\ Head(q) = q[1]
  BY HeadTailProperties, LenProperties, EmptySeq
<1>2. OnceToMain(Tail(q))
  <2> SUFFICES ASSUME NEW j \in 1..Len(Tail(q)), NEW k \in 1..Len(Tail(q)),
                      Tail(q)[j].type = "IPC_INVOKE", Tail(q)[j] = Tail(q)[k]
               PROVE  j = k
    BY DEF OnceToMain
  <2>1. /\ q[j + 1] = q[k + 1] /\ q[j + 1].type = "IPC_INVOKE"
        /\ j + 1 \in 1..Len(q) /\ k + 1 \in 1..Len(q)
    BY <1>1
  <2>2. j + 1 = k + 1
    BY <2>1 DEF OnceToMain
  <2> QED
    BY <2>2
<1>3. ASSUME Head(q).type = "IPC_INVOKE", NEW k \in 1..Len(Tail(q)), Tail(q)[k] = Head(q)
      PROVE  FALSE
  <2>1. /\ q[1].type = "IPC_INVOKE" /\ q[1] = q[k + 1]
        /\ 1 \in 1..Len(q) /\ k + 1 \in 1..Len(q) /\ k + 1 # 1
    BY <1>1, <1>3
  <2> QED
    BY <2>1 DEF OnceToMain
<1> QED
  BY <1>2, <1>3 DEF Msgs

\* A list of messages ends with the status that it ends with, whatever was before.
LEMMA PostStatus ==
    ASSUME NEW q \in Seq(MainMsgs), NEW r \in Seq(MainMsgs), NEW s, LastStatus(r, s)
    PROVE  LastStatus(q \o r, s)
<1>1. /\ Len(q \o r) = Len(q) + Len(r) /\ Len(q) \in Nat /\ Len(r) \in Nat
      /\ \A k \in 1..(Len(q) + Len(r)) :
             (q \o r)[k] = IF k <= Len(q) THEN q[k] ELSE r[k - Len(q)]
  BY ConcatProperties, LenProperties
<1>2. PICK k \in 1..Len(r) : /\ r[k] = Status(s)
                             /\ \A j \in (k + 1)..Len(r) : r[j].type # "CONNECTION_STATUS"
  BY DEF LastStatus
<1>3. Len(q) + k \in 1..Len(q \o r) /\ (q \o r)[Len(q) + k] = Status(s)
  BY <1>1, <1>2
<1>4. ASSUME NEW j \in (Len(q) + k + 1)..Len(q \o r)
      PROVE  (q \o r)[j].type # "CONNECTION_STATUS"
  <2>1. j - Len(q) \in (k + 1)..Len(r) /\ (q \o r)[j] = r[j - Len(q)]
    BY <1>1
  <2> QED
    BY <1>2, <2>1
<1> QED
  BY <1>3, <1>4 DEF LastStatus

\* Messages that carry no status leave the last one alone.
LEMMA PostNoStatus ==
    ASSUME NEW q \in Seq(MainMsgs), NEW r \in Seq(MainMsgs), NoStatus(r)
    PROVE  /\ NoStatus(q) => NoStatus(q \o r)
           /\ \A s : LastStatus(q, s) => LastStatus(q \o r, s)
<1>1. /\ Len(q \o r) = Len(q) + Len(r) /\ Len(q) \in Nat /\ Len(r) \in Nat
      /\ \A k \in 1..(Len(q) + Len(r)) :
             (q \o r)[k] = IF k <= Len(q) THEN q[k] ELSE r[k - Len(q)]
  BY ConcatProperties, LenProperties
<1>2. ASSUME NEW k \in 1..Len(q \o r), k > Len(q)
      PROVE  (q \o r)[k].type # "CONNECTION_STATUS"
  <2>1. k - Len(q) \in 1..Len(r) /\ (q \o r)[k] = r[k - Len(q)]
    BY <1>1, <1>2
  <2> QED
    BY <2>1 DEF NoStatus
<1>3. NoStatus(q) => NoStatus(q \o r)
  BY <1>1, <1>2 DEF NoStatus
<1>4. ASSUME NEW s, LastStatus(q, s) PROVE LastStatus(q \o r, s)
  <2>1. PICK k \in 1..Len(q) : /\ q[k] = Status(s)
                               /\ \A j \in (k + 1)..Len(q) : q[j].type # "CONNECTION_STATUS"
    BY <1>4 DEF LastStatus
  <2>2. k \in 1..Len(q \o r) /\ (q \o r)[k] = Status(s)
    BY <1>1, <2>1
  <2>3. ASSUME NEW j \in (k + 1)..Len(q \o r) PROVE (q \o r)[j].type # "CONNECTION_STATUS"
    <3>1. CASE j <= Len(q)
      BY <1>1, <2>1, <3>1
    <3>2. CASE j > Len(q)
      BY <1>1, <1>2, <2>1, <3>2
    <3> QED
      BY <1>1, <2>1, <3>1, <3>2
  <2> QED
    BY <2>2, <2>3 DEF LastStatus
<1> QED
  BY <1>3, <1>4

\* Taking the head leaves the last status, or was it.
LEMMA TakeStatus ==
    ASSUME NEW q \in Seq(MainMsgs), q # <<>>
    PROVE  /\ NoStatus(q) => NoStatus(Tail(q)) /\ Head(q).type # "CONNECTION_STATUS"
           /\ \A s : LastStatus(q, s) => \/ LastStatus(Tail(q), s)
                                         \/ Head(q) = Status(s) /\ NoStatus(Tail(q))
<1>1. /\ Tail(q) \in Seq(MainMsgs) /\ Len(Tail(q)) = Len(q) - 1
      /\ \A k \in 1..Len(Tail(q)) : Tail(q)[k] = q[k + 1]
      /\ Len(q) \in Nat /\ Len(q) >= 1 /\ Head(q) = q[1]
  BY HeadTailProperties, LenProperties, EmptySeq
<1>2. NoStatus(q) => NoStatus(Tail(q)) /\ Head(q).type # "CONNECTION_STATUS"
  BY <1>1 DEF NoStatus
<1>3. ASSUME NEW s, LastStatus(q, s)
      PROVE  LastStatus(Tail(q), s) \/ (Head(q) = Status(s) /\ NoStatus(Tail(q)))
  <2>1. PICK k \in 1..Len(q) : /\ q[k] = Status(s)
                               /\ \A j \in (k + 1)..Len(q) : q[j].type # "CONNECTION_STATUS"
    BY <1>3 DEF LastStatus
  <2>2. CASE k = 1
    BY <1>1, <2>1, <2>2 DEF NoStatus
  <2>3. CASE k # 1
    <3>1. k - 1 \in 1..Len(Tail(q)) /\ Tail(q)[k - 1] = Status(s)
      BY <1>1, <2>1, <2>3
    <3>2. ASSUME NEW j \in (k - 1 + 1)..Len(Tail(q))
          PROVE  Tail(q)[j].type # "CONNECTION_STATUS"
      <4>1. j + 1 \in (k + 1)..Len(q) /\ Tail(q)[j] = q[j + 1]
        BY <1>1, <2>1
      <4> QED
        BY <2>1, <4>1
    <3> QED
      BY <3>1, <3>2 DEF LastStatus
  <2> QED
    BY <2>2, <2>3
<1> QED
  BY <1>2, <1>3

\* The fields of messages.
LEMMA MsgFields ==
    /\ \A a, i : Msg(a, i).type = a /\ Msg(a, i).id = i
    /\ \A s : Status(s).type = "CONNECTION_STATUS" /\ Status(s).status = s
    /\ \A i, o, v : LET m == InvokeResult(i, o, v)
                    IN  /\ m.type = "IPC_INVOKE_RESULT" /\ m.id = i
                        /\ m.ok = o /\ m.value = v
BY DEF Msg, Status, InvokeResult

\* The messages that handlers post are messages of the protocol.
LEMMA MsgTypes ==
    /\ \A a \in Answers \cup {"IPC_INVOKE"}, i \in Request : Msg(a, i) \in MainMsgs
    /\ Msg("SESSION_TEARDOWN", None) \in MainMsgs
    /\ \A s \in Statuses : Status(s) \in MainMsgs
    /\ \A i \in Request : Msg("request", i) \in WorkerMsgs
    /\ \A i \in Request, o \in BOOLEAN, v \in Values : InvokeResult(i, o, v) \in WorkerMsgs
BY DEF Msg, Status, InvokeResult, MainMsgs, WorkerMsgs

\* One answer, or the call of a send.
LEMMA AnswerPost ==
    ASSUME NEW a \in Answers \cup {"IPC_INVOKE"}, NEW i \in Request
    PROVE  LET r == <<Msg(a, i)>>
           IN  /\ r \in Seq(MainMsgs) /\ NoStatus(r) /\ Msgs(r) = {Msg(a, i)} /\ OnceToMain(r)
<1>1. Msg(a, i) \in MainMsgs
  BY MsgTypes
<1>2. "CONNECTION_STATUS" \notin Answers \cup {"IPC_INVOKE"}
  BY DEF Answers
<1>3. Msg(a, i).type # "CONNECTION_STATUS"
  BY <1>2, MsgFields
<1> QED
  BY <1>1, <1>3, TupleMsgs DEF NoStatus, OnceToMain

\* The announcement that the session is gone.
LEMMA TeardownPost ==
    LET r == <<Msg("SESSION_TEARDOWN", None)>>
    IN  /\ r \in Seq(MainMsgs) /\ NoStatus(r) /\ Msgs(r) = {Msg("SESSION_TEARDOWN", None)}
<1>1. Msg("SESSION_TEARDOWN", None) \in MainMsgs /\ Msg("SESSION_TEARDOWN", None).type = "SESSION_TEARDOWN"
  BY MsgTypes, MsgFields
<1> QED
  BY <1>1, TupleMsgs DEF NoStatus

\* One status.
LEMMA StatusPost ==
    ASSUME NEW s \in Statuses
    PROVE  LET r == <<Status(s)>>
           IN  r \in Seq(MainMsgs) /\ LastStatus(r, s) /\ Msgs(r) = {Status(s)}
<1>1. Status(s) \in MainMsgs
  BY MsgTypes
<1>2. Msgs(<<Status(s)>>) = {Status(s)}
  BY TupleMsgs
<1>3. LastStatus(<<Status(s)>>, s)
  BY DEF LastStatus
<1> QED
  BY <1>1, <1>2, <1>3

\* A status and an answer.
LEMMA StatusAnswerPost ==
    ASSUME NEW s \in Statuses, NEW a \in Answers, NEW i \in Request
    PROVE  LET r == <<Status(s), Msg(a, i)>>
           IN  r \in Seq(MainMsgs) /\ LastStatus(r, s) /\ Msgs(r) = {Status(s), Msg(a, i)}
<1> DEFINE r == <<Status(s), Msg(a, i)>>
<1>1. Status(s) \in MainMsgs /\ Msg(a, i) \in MainMsgs
  BY MsgTypes
<1>2. Msgs(r) = {Status(s), Msg(a, i)}
  BY TupleMsgs
<1>3. Msg(a, i).type # "CONNECTION_STATUS"
  BY MsgFields DEF Answers
<1>4. LastStatus(r, s)
  <2>1. Len(r) = 2 /\ r[1] = Status(s) /\ r[2] = Msg(a, i)
    OBVIOUS
  <2>2. 1 \in 1..Len(r) /\ \A j \in (1 + 1)..Len(r) : r[j].type # "CONNECTION_STATUS"
    BY <1>3, <2>1
  <2> QED
    BY <2>1, <2>2 DEF LastStatus
<1> QED
  BY <1>1, <1>2, <1>4

(***************************************************************************)
(* What handlers do.                                                        *)
(***************************************************************************)
\* The session is gone and its token with it.
SessionReset == token' = None /\ timer' = FALSE /\ ResetToAnonymous

\* invalidate() resets the session and the status is the last it says.
LEMMA InvalidatePost ==
    ASSUME NEW s \in Statuses, NEW announce \in BOOLEAN, NEW answer \in Seq(MainMsgs),
           NoStatus(answer), Invalidate(s, announce, answer)
    PROVE  /\ SessionReset
           /\ \E r \in Seq(MainMsgs) :
                 /\ toMain' = toMain \o r /\ LastStatus(r, s)
                 /\ Msgs(r) \subseteq {Status(s), Msg("SESSION_TEARDOWN", None)} \cup Msgs(answer)
<1> DEFINE u == IF announce THEN <<Msg("SESSION_TEARDOWN", None)>> ELSE <<>>
           r == <<Status(s)>> \o u \o answer
<1>1. /\ u \in Seq(MainMsgs) /\ NoStatus(u) /\ Msgs(u) \subseteq {Msg("SESSION_TEARDOWN", None)}
  <2>1. CASE announce
    BY <2>1, TeardownPost
  <2>2. CASE ~announce
    BY <2>2, TupleMsgs DEF NoStatus
  <2> QED
    BY <2>1, <2>2
<1>2. <<Status(s)>> \in Seq(MainMsgs) /\ LastStatus(<<Status(s)>>, s)
      /\ Msgs(<<Status(s)>>) = {Status(s)}
  BY StatusPost
<1> DEFINE v == <<Status(s)>> \o u
<1> HIDE DEF u
<1> DEFINE w == <<Status(s)>>
<1> HIDE DEF w
<1>3. v \in Seq(MainMsgs) /\ LastStatus(v, s) /\ Msgs(v) = {Status(s)} \cup Msgs(u)
  <2>1. w \in Seq(MainMsgs) /\ LastStatus(w, s) /\ Msgs(w) = {Status(s)} /\ v = w \o u
    BY <1>2 DEF w
  <2>2. w \o u \in Seq(MainMsgs) /\ Msgs(w \o u) = Msgs(w) \cup Msgs(u)
    BY <1>1, <2>1, ConcatMsgs
  <2>3. LastStatus(w \o u, s)
    BY <1>1, <2>1, PostNoStatus
  <2> HIDE DEF v
  <2> QED
    BY <2>1, <2>2, <2>3
<1> HIDE DEF v
<1>4. /\ v \o answer \in Seq(MainMsgs) /\ LastStatus(v \o answer, s)
      /\ Msgs(v \o answer) = Msgs(v) \cup Msgs(answer)
  BY <1>3, ConcatMsgs, PostNoStatus
<1>5. r \in Seq(MainMsgs) /\ LastStatus(r, s)
      /\ Msgs(r) \subseteq {Status(s), Msg("SESSION_TEARDOWN", None)} \cup Msgs(answer)
  BY <1>1, <1>3, <1>4 DEF v
<1>6. toMain' = toMain \o r
  BY DEF Invalidate, Post, u, v
<1>7. SessionReset
  BY DEF Invalidate, SessionReset
<1> HIDE DEF r
<1> QED
  BY <1>5, <1>6, <1>7

\* An operation ends: it answers, and a refusal of its own client may end the
\* session.
Ends(t, r) ==
    /\ task' = [task EXCEPT ![t] = Idle]
    /\ toMain' = toMain \o r /\ r \in Seq(MainMsgs)
    /\ \A m \in Msgs(r) : /\ m.type # "IPC_INVOKE"
                          /\ m.type = "sent" => task[t].at = "confirm"
    /\ \/ NoStatus(r) /\ UNCHANGED sessionVars
       \/ LastStatus(r, "expired") /\ SessionReset /\ client = task[t].client

\* The catch of an operation, and its plain answers.
LEMMA RejectEnds ==
    ASSUME NEW t \in Request, NEW a \in Answers, a = "sent" => task[t].at = "confirm",
           Reject(t, a)
    PROVE  \E r \in Seq(MainMsgs) : Ends(t, r)
<1> DEFINE r == <<Msg(a, t)>>
<1>1. /\ r \in Seq(MainMsgs) /\ NoStatus(r) /\ Msgs(r) = {Msg(a, t)}
  BY AnswerPost
<1>2. a # "IPC_INVOKE" /\ Msg(a, t).type = a
  BY MsgFields DEF Answers
<1>3. Ends(t, r)
  BY <1>1, <1>2 DEF Ends, Reject, EndTask, Post
<1> QED
  BY <1>1, <1>3

\* invalidateOnAuthError, then the answer.
LEMMA AuthErrorEnds ==
    ASSUME NEW t \in Request, NEW d, NEW a \in {"SYNC_ERROR", "SEND_ERROR"},
           InvalidateOnAuthError(t, d, a), EndTask(t)
    PROVE  \E r \in Seq(MainMsgs) : Ends(t, r)
<1>0. a \in Answers /\ a # "sent" /\ Msg(a, t).type = a
  BY MsgFields DEF Answers
<1>1. CASE d = "expire" /\ client = task[t].client
  <2>1. Invalidate("expired", TRUE, <<Msg(a, t)>>)
    BY <1>1 DEF InvalidateOnAuthError
  <2>2. <<Msg(a, t)>> \in Seq(MainMsgs) /\ NoStatus(<<Msg(a, t)>>)
        /\ Msgs(<<Msg(a, t)>>) = {Msg(a, t)}
    BY <1>0, AnswerPost
  <2>3. "expired" \in Statuses
    BY DEF Statuses
  <2>4. /\ SessionReset
        /\ \E r \in Seq(MainMsgs) :
              /\ toMain' = toMain \o r /\ LastStatus(r, "expired")
              /\ Msgs(r) \subseteq {Status("expired"), Msg("SESSION_TEARDOWN", None)}
                                   \cup Msgs(<<Msg(a, t)>>)
    BY <2>1, <2>2, <2>3, InvalidatePost
  <2>5. PICK r \in Seq(MainMsgs) :
              /\ toMain' = toMain \o r /\ LastStatus(r, "expired")
              /\ Msgs(r) \subseteq {Status("expired"), Msg("SESSION_TEARDOWN", None)}
                                   \cup {Msg(a, t)}
    BY <2>2, <2>4
  <2>6. \A m \in Msgs(r) : m.type \in {"CONNECTION_STATUS", "SESSION_TEARDOWN", a}
    BY <1>0, <2>5, MsgFields
  <2>7. Ends(t, r)
    BY <1>0, <1>1, <2>4, <2>5, <2>6 DEF Ends, EndTask
  <2> QED
    BY <2>7
<1>2. CASE ~(d = "expire" /\ client = task[t].client)
  <2>1. Reject(t, a)
    BY <1>2 DEF InvalidateOnAuthError, Reject
  <2> QED
    BY <1>0, <2>1, RejectEnds
<1> QED
  BY <1>1, <1>2

(***************************************************************************)
(* The session: what keeps it, and what ends it.                            *)
(***************************************************************************)
SessionInv == SessionTypes /\ ClientInv /\ ToldInv /\ LoggedOutStaysOut

\* A request keeps its type, and an open that was running runs on or is over.
KindKept == \A q \in Request : kind[q] # "none" => kind'[q] = kind[q]

OpensEnd == /\ opening' \in [Request -> Int]
            /\ \A q \in Request : opening'[q] \in {opening[q], -1}

\* A step that leaves the session alone and tells the main thread no status.
LEMMA SessionKept ==
    ASSUME WorkTypes, SessionInv, NEW r \in Seq(MainMsgs), toMain' = toMain \o r, NoStatus(r),
           UNCHANGED <<sessionVars, shown, disposed, last>>, KindKept, OpensEnd
    PROVE  SessionInv'
<1> USE DEF SessionInv, sessionVars
<1>1. SessionTypes'
  BY DEF SessionTypes, OpensEnd
<1>2. EmptyToken' <=> EmptyToken
  BY DEF EmptyToken, KindKept, SessionTypes, ClientInv, InitKinds, None
<1>3. ClientInv'
  <2>1. token' # None => kind'[token'] \in InitKinds
    BY DEF ClientInv, KindKept, InitKinds, SessionTypes
  <2>2. /\ client' # None => token' = client' \/ EmptyToken'
        /\ session' # None => client' = session'
    BY <1>2 DEF ClientInv
  <2>3. /\ \A i \in Request : opening'[i] <= generation'
        /\ \A i, j \in Request : opening'[i] = opening'[j] /\ opening'[i] # -1 => i = j
        /\ session' # None => \A i \in Request : opening'[i] # generation'
    BY DEF ClientInv, OpensEnd, SessionTypes
  <2> QED
    BY <2>1, <2>2, <2>3 DEF ClientInv
<1>4. ToldInv'
  <2>1. /\ NoStatus(toMain) => NoStatus(toMain')
        /\ \A s : LastStatus(toMain, s) => LastStatus(toMain', s)
    BY PostNoStatus DEF WorkTypes
  <2>2. \A s : Agrees(s)' <=> Agrees(s)
    BY DEF Agrees
  <2> QED
    BY <1>2, <2>1, <2>2 DEF ToldInv
<1>5. LoggedOutStaysOut'
  BY DEF LoggedOutStaysOut
<1> QED
  BY <1>1, <1>3, <1>4, <1>5

\* A step that ends the session and says so.
LEMMA SessionEnded ==
    ASSUME WorkTypes, SessionInv, NEW r \in Seq(MainMsgs), toMain' = toMain \o r,
           NEW s \in Statuses \ {"authenticated"}, LastStatus(r, s), SessionReset, OpensEnd
    PROVE  SessionInv'
<1> USE DEF SessionInv
<1>1. token' = None /\ client' = None /\ session' = None /\ generation' = generation + 1
  BY DEF SessionReset, ResetToAnonymous
<1>2. SessionTypes'
  BY <1>1 DEF SessionTypes, OpensEnd
<1>3. ClientInv'
  <2>1. ASSUME NEW i \in Request
        PROVE  opening'[i] \in Int /\ opening'[i] <= generation' /\ generation' \in Nat
    BY <1>1 DEF ClientInv, OpensEnd, SessionTypes
  <2>2. ASSUME NEW i \in Request, NEW j \in Request, opening'[i] = opening'[j], opening'[i] # -1
        PROVE  i = j
    BY <2>2 DEF ClientInv, OpensEnd, SessionTypes
  <2> QED
    BY <1>1, <2>1, <2>2 DEF ClientInv
<1>4. LastStatus(toMain', s)
  BY PostStatus DEF WorkTypes
<1>5. ToldInv'
  BY <1>1, <1>4 DEF ToldInv, Agrees
<1>6. LoggedOutStaysOut'
  BY <1>1 DEF LoggedOutStaysOut
<1> QED
  BY <1>2, <1>3, <1>5, <1>6

\* A login: the token is replaced, and unless it is empty the session is too.
LEMMA InitKeepsSession ==
    ASSUME WorkTypes, SessionInv, NEW i \in Request, kind[i] \in InitKinds, HandleInit(i),
           UNCHANGED <<kind, shown, disposed>>
    PROVE  SessionInv'
<1> USE DEF SessionInv
<1>0. token' = i /\ last' = "init" /\ i # None
  BY DEF HandleInit, None, Request
<1>1. LoggedOutStaysOut'
  BY <1>0 DEF LoggedOutStaysOut
<1>2. CASE kind[i] = "initEmpty"
  <2>1. UNCHANGED <<client, session, generation, opening>>
    BY <1>2 DEF HandleInit
  <2>2. EmptyToken'
    BY <1>0, <1>2 DEF EmptyToken
  <2>3. ClientInv'
    BY <1>0, <2>1, <2>2 DEF ClientInv
  <2>4. SessionTypes'
    BY <1>0, <2>1 DEF SessionTypes
  <2> QED
    BY <1>1, <2>2, <2>3, <2>4 DEF ToldInv
<1>3. CASE kind[i] # "initEmpty"
  <2>1. /\ toMain' = toMain \o <<Status("connecting")>>
        /\ generation' = generation + 1 /\ client' = i /\ session' = None
        /\ opening' = [opening EXCEPT ![i] = generation + 1]
    BY <1>3 DEF HandleInit, Post
  <2>2. SessionTypes'
    BY <1>0, <2>1 DEF SessionTypes
  <2>3. ClientInv'
    BY <1>0, <2>1 DEF ClientInv, SessionTypes
  <2>4. LastStatus(toMain', "connecting") /\ "connecting" \in Statuses
    <3>1. "connecting" \in Statuses
      BY DEF Statuses
    <3>2. <<Status("connecting")>> \in Seq(MainMsgs) /\ LastStatus(<<Status("connecting")>>, "connecting")
      BY <3>1, StatusPost
    <3> QED
      BY <2>1, <3>1, <3>2, PostStatus DEF WorkTypes
  <2>5. ToldInv'
    BY <2>1, <2>4 DEF ToldInv, Agrees
  <2> QED
    BY <1>1, <2>2, <2>3, <2>5
<1> QED
  BY <1>2, <1>3

\* open() returns: its session is installed only if it is still the current one.
LEMMA OpenReturnsKeepsSession ==
    ASSUME WorkTypes, SessionInv, NEW i \in Request, opening[i] # -1, OpenReturns(i),
           opening' = [opening EXCEPT ![i] = -1],
           UNCHANGED <<kind, shown, disposed, last>>
    PROVE  SessionInv'
<1> USE DEF SessionInv
<1>0. OpensEnd /\ KindKept
  BY DEF OpensEnd, KindKept, SessionTypes
<1>1. CASE opening[i] = generation /\ client = i /\ token # None
  <2>1. /\ session' = i /\ UNCHANGED <<token, timer, client, generation>>
        /\ toMain' = toMain \o <<Status("authenticated"), Msg("SESSION_READY", i)>>
    BY <1>1 DEF OpenReturns, Post
  <2>2. SessionTypes'
    BY <2>1 DEF SessionTypes
  <2>3. ClientInv'
    BY <1>1, <2>1 DEF ClientInv, SessionTypes, EmptyToken
  <2>4. LastStatus(toMain', "authenticated") /\ "authenticated" \in Statuses
    <3>1. "authenticated" \in Statuses /\ "SESSION_READY" \in Answers
      BY DEF Statuses, Answers
    <3>2. /\ <<Status("authenticated"), Msg("SESSION_READY", i)>> \in Seq(MainMsgs)
          /\ LastStatus(<<Status("authenticated"), Msg("SESSION_READY", i)>>, "authenticated")
      BY <3>1, StatusAnswerPost
    <3> QED
      BY <2>1, <3>1, <3>2, PostStatus DEF WorkTypes
  <2>5. i # None
    BY DEF Request, None
  <2>6. ToldInv'
    BY <2>1, <2>4, <2>5 DEF ToldInv, Agrees
  <2>7. LoggedOutStaysOut'
    BY <1>1, <2>1 DEF LoggedOutStaysOut
  <2> QED
    BY <2>2, <2>3, <2>6, <2>7
<1>2. CASE ~(opening[i] = generation /\ client = i /\ token # None)
  <2>1. UNCHANGED <<toMain, sessionVars>>
    BY <1>2 DEF OpenReturns
  <2>2. toMain' = toMain \o <<>> /\ <<>> \in Seq(MainMsgs) /\ NoStatus(<<>>)
    BY <2>1, ConcatEmptySeq DEF NoStatus, WorkTypes
  <2> QED
    BY <1>0, <2>1, <2>2, SessionKept
<1> QED
  BY <1>1, <1>2

\* The main thread takes a message: if it was the last status, it is shown now.
LEMMA MainKeepsSession ==
    ASSUME WorkTypes, SessionInv, MainReceives
    PROVE  SessionInv'
<1> USE DEF SessionInv
<1> DEFINE msg == Head(toMain)
<1>0. /\ toMain # <<>> /\ toMain' = Tail(toMain)
      /\ UNCHANGED <<sessionVars, kind, disposed, opening, last>>
  BY DEF MainReceives
<1>1. SessionTypes' /\ ClientInv' /\ LoggedOutStaysOut'
  BY <1>0 DEF SessionTypes, ClientInv, EmptyToken, LoggedOutStaysOut, sessionVars
<1>2. (EmptyToken' <=> EmptyToken) /\ \A s : Agrees(s)' <=> Agrees(s)
  BY <1>0 DEF EmptyToken, Agrees, sessionVars
<1>3. /\ NoStatus(toMain) => NoStatus(toMain') /\ msg.type # "CONNECTION_STATUS"
      /\ \A s : LastStatus(toMain, s) => \/ LastStatus(toMain', s)
                                         \/ msg = Status(s) /\ NoStatus(toMain')
  BY <1>0, TakeStatus DEF WorkTypes
<1>4. CASE msg.type = "CONNECTION_STATUS"
  <2>1. shown' = msg.status
    BY <1>4 DEF MainReceives, Answers
  <2>2. \A s : msg = Status(s) => shown' = s
    BY <2>1, MsgFields
  <2> QED
    BY <1>0, <1>1, <1>2, <1>3, <1>4, <2>2 DEF ToldInv
<1>5. CASE msg.type # "CONNECTION_STATUS"
  <2>1. shown' = shown
    BY <1>5 DEF MainReceives
  <2>2. \A s : msg # Status(s)
    BY <1>5, MsgFields
  <2> QED
    BY <1>0, <1>1, <1>2, <1>3, <2>1, <2>2 DEF ToldInv
<1> QED
  BY <1>4, <1>5

(***************************************************************************)
(* The work: where the call of a send is, and who holds the claim.          *)
(***************************************************************************)
WorkInv == WorkTypes /\ LinkInv /\ OwnerInv

\* Steps that touch neither operations nor calls nor the row: requests may be
\* taken from the Worker's queue, and answers posted or delivered.
Quiet ==
    /\ UNCHANGED <<kind, calls, task, row, deliveries>>
    /\ settled' \in [Request -> {"no", "sent", "over"}]
    /\ toWorker' \in Seq(WorkerMsgs) /\ OnceToWorker(toWorker')
    /\ Msgs(toWorker') \subseteq Msgs(toWorker)
    /\ \A m \in Msgs(toWorker) \ Msgs(toWorker') : m.type = "request"
    /\ toMain' \in Seq(MainMsgs) /\ OnceToMain(toMain')
    /\ \A m \in Msgs(toMain') \ Msgs(toMain) : m.type # "IPC_INVOKE"
    /\ \A q \in Request : Msg("sent", q) \in Msgs(toMain') \/ settled'[q] = "sent" =>
                              Msg("sent", q) \in Msgs(toMain) \/ settled[q] = "sent"

\* Steps that are quiet about the work keep its invariant.
LEMMA QuietKeepsWork ==
    ASSUME WorkInv, Quiet
    PROVE  WorkInv'
<1> USE DEF WorkInv
<1>1. WorkTypes'
  BY DEF WorkTypes, Quiet
<1>2. \A t \in Request : Msg("IPC_INVOKE", t) \in Msgs(toMain') => Msg("IPC_INVOKE", t) \in Msgs(toMain)
  BY MsgFields DEF Quiet
<1>3. LinkInv'
  <2>1. \A m \in Msgs(toWorker) : m.id \in Request
    BY DEF WorkTypes, Msgs, WorkerMsgs
  <2>2. ASSUME NEW m \in Msgs(toWorker')
        PROVE  /\ m.type = "request" => kind'[m.id] # "none" /\ task'[m.id] = Idle
               /\ m.type = "IPC_INVOKE_RESULT" =>
                    /\ task'[m.id].at \in Waiting
                    /\ m.id \notin calls' /\ Msg("IPC_INVOKE", m.id) \notin Msgs(toMain')
    BY <1>2, <2>1 DEF LinkInv, Quiet
  <2>3. /\ \A t \in calls' : task'[t].at \in Waiting /\ Msg("IPC_INVOKE", t) \notin Msgs(toMain')
        /\ \A t \in Request : Msg("IPC_INVOKE", t) \in Msgs(toMain') => task'[t].at \in Waiting
    BY <1>2 DEF LinkInv, Quiet, WorkTypes
  <2>4. /\ OnceToWorker(toWorker') /\ OnceToMain(toMain')
        /\ \A q \in Request : kind'[q] = "none" => task'[q] = Idle
    BY DEF LinkInv, Quiet
  <2> QED
    BY <2>2, <2>3, <2>4 DEF LinkInv
<1>4. ASSUME NEW t \in Request PROVE Owns(t)' => Owns(t)
  <2>1. InvokeResult(t, TRUE, "ok") \in Msgs(toWorker') => InvokeResult(t, TRUE, "ok") \in Msgs(toWorker)
    BY DEF Quiet
  <2>2. task[t].at \in {"confirm", "retrying", "failedTerminal"} /\ ~HasAnswer(t)' => ~HasAnswer(t)
    BY DEF Quiet, HasAnswer, LinkInv, Idle
  <2> QED
    BY <2>1, <2>2 DEF Owns, Quiet
<1>5. OwnerInv'
  BY <1>4 DEF OwnerInv, Quiet
<1> QED
  BY <1>1, <1>3, <1>5

\* The operation t has no message, call or result anywhere once it has gone on.
Consumes(t) ==
    /\ toWorker' \in Seq(WorkerMsgs) /\ OnceToWorker(toWorker')
    /\ Msgs(toWorker') = {m \in Msgs(toWorker) : m.id # t}
    /\ t \notin calls /\ Msg("IPC_INVOKE", t) \notin Msgs(toMain)

\* The other operations are where they were.
OthersKept(t) == /\ task' \in [Request -> Tasks]
                 /\ \A u \in Request \ {t} : task'[u] = task[u]

\* An operation that consumed its message leaves the others' calls in place.
LEMMA ConsumeLinks ==
    ASSUME WorkInv, NEW t \in Request, Consumes(t), OthersKept(t), UNCHANGED <<kind, calls>>,
           kind[t] = "none" => task'[t] = Idle,
           NEW r \in Seq(MainMsgs), toMain' = toMain \o r, OnceToMain(r),
           \A m \in Msgs(r) : m.type = "IPC_INVOKE" => m = Msg("IPC_INVOKE", t) /\ task'[t].at \in Waiting
    PROVE  LinkInv' /\ toMain' \in Seq(MainMsgs) /\ Msgs(toMain') = Msgs(toMain) \cup Msgs(r)
<1> USE DEF WorkInv
<1>1. toMain' \in Seq(MainMsgs) /\ Msgs(toMain') = Msgs(toMain) \cup Msgs(r)
  BY ConcatMsgs DEF WorkTypes
<1>2. OnceToMain(toMain')
  BY PostOnce DEF WorkTypes, LinkInv, Consumes
<1>3. \A u \in Request \ {t} : Msg("IPC_INVOKE", u) \in Msgs(toMain') => Msg("IPC_INVOKE", u) \in Msgs(toMain)
  BY <1>1, MsgFields
<1>4. Msg("IPC_INVOKE", t) \in Msgs(toMain') => task'[t].at \in Waiting
  BY <1>1, MsgFields DEF Consumes
<1>5. \A q \in Request : kind'[q] = "none" => task'[q] = Idle
  BY DEF LinkInv, OthersKept
<1>6. ASSUME NEW m \in Msgs(toWorker')
      PROVE  /\ m.type = "request" => kind'[m.id] # "none" /\ task'[m.id] = Idle
             /\ m.type = "IPC_INVOKE_RESULT" =>
                  /\ task'[m.id].at \in Waiting
                  /\ m.id \notin calls' /\ Msg("IPC_INVOKE", m.id) \notin Msgs(toMain')
  <2>1. m \in Msgs(toWorker) /\ m.id # t
    BY DEF Consumes
  <2>2. m.id \in Request
    BY <2>1 DEF WorkTypes, Msgs, WorkerMsgs
  <2> QED
    BY <1>3, <2>1, <2>2 DEF LinkInv, OthersKept
<1>7. \A u \in calls' : task'[u].at \in Waiting /\ Msg("IPC_INVOKE", u) \notin Msgs(toMain')
  BY <1>3 DEF LinkInv, OthersKept, Consumes, WorkTypes
<1>8. \A u \in Request : Msg("IPC_INVOKE", u) \in Msgs(toMain') => task'[u].at \in Waiting
  BY <1>3, <1>4 DEF LinkInv, OthersKept
<1>9. OnceToWorker(toWorker')
  BY DEF Consumes
<1> QED
  BY <1>1, <1>2, <1>5, <1>6, <1>7, <1>8, <1>9 DEF LinkInv

\* Nobody else comes to hold the claim.
LEMMA ConsumeOwners ==
    ASSUME WorkInv, NEW t \in Request, Consumes(t), OthersKept(t)
    PROVE  \A u \in Request \ {t} : Owns(u)' <=> Owns(u)
<1> SUFFICES ASSUME NEW u \in Request \ {t} PROVE Owns(u)' <=> Owns(u)
  OBVIOUS
<1>1. InvokeResult(u, TRUE, "ok") \in Msgs(toWorker') <=> InvokeResult(u, TRUE, "ok") \in Msgs(toWorker)
  <2>1. InvokeResult(u, TRUE, "ok").id # t
    BY DEF InvokeResult
  <2> QED
    BY <2>1 DEF Consumes
<1>2. HasAnswer(u)' <=> HasAnswer(u)
  BY DEF Consumes, HasAnswer
<1>3. task'[u] = task[u]
  BY DEF OthersKept
<1> QED
  BY <1>1, <1>2, <1>3 DEF Owns

\* An operation ends, answered or after a submission of unknown outcome.
LEMMA EndKeepsWork ==
    ASSUME WorkInv, NEW t \in Request, NEW r \in Seq(MainMsgs), Ends(t, r), Consumes(t),
           UNCHANGED <<kind, calls, settled, row>>,
           deliveries' = deliveries \/ (task[t].at = "submit" /\ deliveries' = deliveries + 1)
    PROVE  WorkInv'
<1> USE DEF WorkInv
<1>1. OthersKept(t) /\ task'[t] = Idle
  BY DEF Ends, OthersKept, WorkTypes, Tasks, Idle, None
<1>2. OnceToMain(r)
  BY DEF Ends, OnceToMain, Msgs
<1>3. LinkInv' /\ toMain' \in Seq(MainMsgs) /\ Msgs(toMain') = Msgs(toMain) \cup Msgs(r)
  BY <1>1, <1>2, ConsumeLinks DEF Ends
<1>4. WorkTypes'
  BY <1>1, <1>3 DEF WorkTypes, Consumes, OthersKept
<1>5. \A u \in Request \ {t} : Owns(u)' <=> Owns(u)
  BY <1>1, ConsumeOwners
<1>6. ~Owns(t)' /\ task'[t].at = "idle"
  BY <1>1 DEF Owns, Idle
<1>7. /\ task[t].at = "submit" => deliveries = 0 /\ row = "inFlight"
      /\ \A u \in Request \ {t} : Owns(u) => task[t].at # "submit"
  BY DEF OwnerInv, Owns
<1>8. \A q \in Request : Msg("sent", q) \in Msgs(toMain') => deliveries = 1
  <2>1. \A q \in Request : Msg("sent", q) \in Msgs(r) => task[t].at = "confirm"
    BY MsgFields DEF Ends
  <2> QED
    BY <1>3, <2>1 DEF OwnerInv
<1>9. OwnerInv'
  <2>1. CASE deliveries' = deliveries
    BY <1>1, <1>5, <1>6, <1>8, <2>1 DEF OwnerInv, OthersKept
  <2>2. CASE task[t].at = "submit" /\ deliveries' = deliveries + 1
    <3>1. deliveries = 0 /\ deliveries' = 1 /\ row' = "inFlight"
      BY <1>7, <2>2
    <3>2. \A u \in Request : ~Owns(u)'
      BY <1>5, <1>6, <1>7, <2>2
    <3> QED
      BY <3>1, <3>2 DEF OwnerInv
  <2> QED
    BY <2>1, <2>2
<1> QED
  BY <1>3, <1>4, <1>9

\* A sync or a send starts: it has no claim yet.
LEMMA StartKeepsWork ==
    ASSUME WorkInv, NEW t \in Request, client \in Request \cup {None}, kind[t] \in {"sync", "send"},
           session # None, HandleTask(t), Consumes(t), UNCHANGED <<kind, calls, settled>>
    PROVE  WorkInv'
<1> USE DEF WorkInv
<1>0. /\ UNCHANGED <<row, deliveries>> /\ kind[t] # "none"
      /\ task' = [task EXCEPT ![t] = [Idle EXCEPT !.at = IF kind[t] = "sync" THEN "syncing" ELSE "claim",
                                                  !.client = client]]
      /\ IF kind[t] = "sync" THEN toMain' = toMain ELSE toMain' = toMain \o <<Msg("IPC_INVOKE", t)>>
  BY DEF HandleTask, Post
<1>1. /\ OthersKept(t)
      /\ task'[t].at = IF kind[t] = "sync" THEN "syncing" ELSE "claim"
  BY <1>0 DEF OthersKept, WorkTypes, Tasks, Idle, None, Waiting
<1>2. PICK r \in Seq(MainMsgs) :
          /\ toMain' = toMain \o r /\ OnceToMain(r)
          /\ \A m \in Msgs(r) : m = Msg("IPC_INVOKE", t) /\ task'[t].at = "claim"
  <2>1. CASE kind[t] = "sync"
    <3>1. toMain' = toMain \o <<>> /\ <<>> \in Seq(MainMsgs)
      BY <1>0, <2>1, ConcatEmptySeq DEF WorkTypes
    <3>2. OnceToMain(<<>>)
      BY DEF OnceToMain
    <3> QED
      BY <3>1, <3>2, TupleMsgs
  <2>2. CASE kind[t] = "send"
    <3>1. toMain' = toMain \o <<Msg("IPC_INVOKE", t)>> /\ task'[t].at = "claim"
      BY <1>0, <1>1, <2>2
    <3>2. /\ <<Msg("IPC_INVOKE", t)>> \in Seq(MainMsgs) /\ OnceToMain(<<Msg("IPC_INVOKE", t)>>)
          /\ Msgs(<<Msg("IPC_INVOKE", t)>>) = {Msg("IPC_INVOKE", t)}
      BY AnswerPost
    <3> QED
      BY <3>1, <3>2
  <2> QED
    BY <2>1, <2>2
<1>3. LinkInv' /\ toMain' \in Seq(MainMsgs) /\ Msgs(toMain') = Msgs(toMain) \cup Msgs(r)
  BY <1>0, <1>1, <1>2, ConsumeLinks DEF Waiting
<1>4. WorkTypes'
  BY <1>0, <1>1, <1>3 DEF WorkTypes, Consumes, OthersKept
<1>5. \A u \in Request \ {t} : Owns(u)' <=> Owns(u)
  BY <1>1, ConsumeOwners
<1>6. ~Owns(t)' /\ task'[t].at # "confirm"
  <2>1. InvokeResult(t, TRUE, "ok").id = t
    BY DEF InvokeResult
  <2>2. InvokeResult(t, TRUE, "ok") \notin Msgs(toWorker')
    BY <2>1 DEF Consumes
  <2> QED
    BY <1>1, <2>2 DEF Owns
<1>7. \A q \in Request : Msg("sent", q) \in Msgs(toMain') => Msg("sent", q) \in Msgs(toMain)
  BY <1>2, <1>3, MsgFields
<1>8. OwnerInv'
  BY <1>0, <1>1, <1>5, <1>6, <1>7 DEF OwnerInv, OthersKept
<1> QED
  BY <1>3, <1>4, <1>8

\* The send that holds the claim goes on to its submission, or from there to
\* recording what became of it; a submission is counted as it is accepted.
LEMMA OwnerKeepsWork ==
    ASSUME WorkInv, NEW t \in Request, Owns(t), task[t].at # "confirm", Consumes(t), OthersKept(t),
           UNCHANGED <<kind, calls, settled, row>>,
           NEW r \in Seq(MainMsgs), toMain' = toMain \o r, OnceToMain(r),
           \A m \in Msgs(r) : m = Msg("IPC_INVOKE", t),
           \/ task'[t].at = "submit" /\ deliveries' = deliveries /\ Msgs(r) = {}
           \/ task'[t].at \in {"retrying", "failedTerminal"} /\ deliveries' = deliveries
           \/ task'[t].at = "confirm" /\ deliveries' = deliveries + 1
    PROVE  WorkInv'
<1> USE DEF WorkInv
<1>1. kind[t] # "none"
  <2>1. task[t].at # "idle"
    BY DEF Owns
  <2>2. task[t] # Idle
    BY <2>1 DEF Idle
  <2> QED
    BY <2>2 DEF LinkInv
<1>2. \A m \in Msgs(r) : task'[t].at \in Waiting
  BY DEF Waiting
<1>3. LinkInv' /\ toMain' \in Seq(MainMsgs) /\ Msgs(toMain') = Msgs(toMain) \cup Msgs(r)
  BY <1>1, <1>2, ConsumeLinks
<1>4. WorkTypes'
  BY <1>3 DEF WorkTypes, Consumes, OthersKept
<1>5. \A u \in Request \ {t} : Owns(u)' <=> Owns(u)
  BY ConsumeOwners
<1>6. deliveries = 0 /\ row = "inFlight" /\ \A u \in Request \ {t} : ~Owns(u) /\ task[u].at # "confirm"
  BY DEF OwnerInv
<1>7. \A q \in Request : Msg("sent", q) \notin Msgs(toMain') /\ settled'[q] # "sent"
  <2>1. \A q \in Request : Msg("sent", q) \notin Msgs(toMain) /\ settled[q] # "sent"
    BY <1>6 DEF OwnerInv
  <2> QED
    BY <1>3, <2>1, MsgFields
<1>8. /\ \A u \in Request \ {t} : ~Owns(u)' /\ task'[u].at # "confirm"
      /\ row' = "inFlight" /\ deliveries' \in {0, 1}
      /\ task'[t].at = "confirm" <=> deliveries' = 1
  BY <1>5, <1>6 DEF OthersKept
<1>9. OwnerInv'
  BY <1>7, <1>8 DEF OwnerInv
<1> QED
  BY <1>3, <1>4, <1>9

\* The main thread takes a call of the Worker.
LEMMA CallKeepsWork ==
    ASSUME WorkInv, toMain # <<>>, toMain' = Tail(toMain), Head(toMain).type = "IPC_INVOKE",
           calls' = calls \cup {Head(toMain).id},
           UNCHANGED <<kind, settled, toWorker, task, row, deliveries>>
    PROVE  WorkInv'
<1> USE DEF WorkInv
<1> DEFINE t == Head(toMain).id
<1>1. /\ Head(toMain) \in MainMsgs /\ toMain' \in Seq(MainMsgs) /\ Head(toMain) \in Msgs(toMain)
      /\ Msgs(toMain) = Msgs(toMain') \cup {Head(toMain)}
  BY TailMsgs DEF WorkTypes
<1>2. t \in Request /\ Head(toMain) = Msg("IPC_INVOKE", t)
  BY <1>1 DEF MainMsgs, Msg
<1>3. OnceToMain(toMain') /\ Head(toMain) \notin Msgs(toMain')
  BY TakeOnce DEF WorkTypes, LinkInv
<1> HIDE DEF t
<1>4. calls' = calls \cup {t}
  BY DEF t
<1>5. task[t].at \in Waiting /\ Msg("IPC_INVOKE", t) \in Msgs(toMain)
  BY <1>1, <1>2 DEF LinkInv
<1>6. ASSUME NEW m \in Msgs(toWorker'), m.type = "IPC_INVOKE_RESULT"
      PROVE  m.id \notin calls'
  BY <1>4, <1>5, <1>6 DEF LinkInv
<1>7. LinkInv'
  BY <1>1, <1>2, <1>3, <1>4, <1>5, <1>6 DEF LinkInv
<1>8. WorkTypes'
  BY <1>1, <1>2, <1>4 DEF WorkTypes
<1>9. \A u \in Request : Owns(u)' <=> Owns(u)
  BY DEF Owns, HasAnswer
<1>10. OwnerInv'
  BY <1>1, <1>9 DEF OwnerInv
<1> QED
  BY <1>7, <1>8, <1>10

\* The operation whose message the Worker takes has nothing else on its way.
LEMMA HeadConsumed ==
    ASSUME WorkInv, toWorker # <<>>, toWorker' = Tail(toWorker)
    PROVE  /\ Head(toWorker) \in Msgs(toWorker) /\ Head(toWorker) \in WorkerMsgs
           /\ Head(toWorker).id \in Request /\ Consumes(Head(toWorker).id)
<1> USE DEF WorkInv
<1> DEFINE m == Head(toWorker)
<1>1. /\ m \in WorkerMsgs /\ toWorker' \in Seq(WorkerMsgs) /\ m \in Msgs(toWorker)
      /\ Msgs(toWorker) = Msgs(toWorker') \cup {m}
  BY TailMsgs DEF WorkTypes
<1>2. OnceToWorker(toWorker') /\ \A n \in Msgs(toWorker') : n.id # m.id
  BY TailOnce DEF WorkTypes, LinkInv
<1>3. Msgs(toWorker') = {n \in Msgs(toWorker) : n.id # m.id}
  BY <1>1, <1>2
<1> HIDE DEF m
<1>4. m.id \in Request /\ m.type \in {"request", "IPC_INVOKE_RESULT"}
  BY <1>1 DEF WorkerMsgs
<1>5. m.id \notin calls /\ Msg("IPC_INVOKE", m.id) \notin Msgs(toMain)
  <2>1. CASE m.type = "request"
    <3>1. task[m.id] = Idle
      BY <1>1, <2>1 DEF LinkInv
    <3>2. task[m.id].at \notin Waiting
      BY <3>1 DEF Idle, Waiting
    <3> QED
      BY <1>4, <3>2 DEF LinkInv
  <2>2. CASE m.type = "IPC_INVOKE_RESULT"
    BY <1>1, <2>2 DEF LinkInv
  <2> QED
    BY <1>4, <2>1, <2>2
<1> QED
  BY <1>1, <1>2, <1>3, <1>4, <1>5 DEF Consumes, m

\* An operation that waits for the network has nothing on its way.
LEMMA NothingToConsume ==
    ASSUME WorkInv, NEW t \in Request, task[t].at \in {"syncing", "submit"}, UNCHANGED toWorker
    PROVE  Consumes(t)
<1> USE DEF WorkInv
<1>1. task[t] # Idle /\ task[t].at \notin Waiting
  BY DEF Idle, Waiting
<1>2. ASSUME NEW m \in Msgs(toWorker) PROVE m.id # t
  <2>1. m.type \in {"request", "IPC_INVOKE_RESULT"}
    BY DEF Msgs, WorkTypes, WorkerMsgs
  <2> QED
    BY <1>1, <2>1 DEF LinkInv
<1>3. t \notin calls /\ Msg("IPC_INVOKE", t) \notin Msgs(toMain)
  BY <1>1 DEF LinkInv
<1> QED
  BY <1>2, <1>3 DEF Consumes, WorkTypes, LinkInv

\* The result of a call that was running is the only message about its request.
LEMMA ResultIsAlone ==
    ASSUME WorkInv, NEW t \in Request, task[t].at \in Waiting, t \in calls
    PROVE  ~HasAnswer(t)
<1> USE DEF WorkInv
<1>1. task[t] # Idle
  BY DEF Idle, Waiting
<1>2. ASSUME NEW m \in Msgs(toWorker) PROVE m.id # t
  <2>1. m.type \in {"request", "IPC_INVOKE_RESULT"}
    BY DEF Msgs, WorkTypes, WorkerMsgs
  <2> QED
    BY <1>1, <2>1 DEF LinkInv
<1> QED
  BY <1>2 DEF HasAnswer

\* A persistence call returns: the claim is won at most once, and a record of
\* the attempt is the last that its send does while it holds the claim.
LEMMA ReplyKeepsWork ==
    ASSUME WorkInv, NEW t \in Request, t \in calls, calls' = calls \ {t},
           NEW ok \in BOOLEAN, NEW value \in Values,
           toWorker' = Append(toWorker, InvokeResult(t, ok, value)),
           \/ row' = row /\ ~(task[t].at = "claim" /\ InvokeResult(t, ok, value) = InvokeResult(t, TRUE, "ok"))
           \/ task[t].at = "claim" /\ row \in {"pending", "retrying"} /\ row' = "inFlight"
           \/ task[t].at # "claim" /\ row' \in {"removed", "failedTerminal"}
           \/ task[t].at \in {"retrying", "failedTerminal"} /\ row' = "retrying",
           UNCHANGED <<kind, settled, toMain, task, deliveries>>
    PROVE  WorkInv'
<1> USE DEF WorkInv
<1> DEFINE m == InvokeResult(t, ok, value)
<1>0. m \in WorkerMsgs /\ m.id = t /\ m.type = "IPC_INVOKE_RESULT"
  BY MsgTypes DEF InvokeResult
<1> HIDE DEF m
<1>1. toWorker' \in Seq(WorkerMsgs) /\ Msgs(toWorker') = Msgs(toWorker) \cup {m}
  BY <1>0, AppendMsgs DEF WorkTypes, m
<1>2. task[t].at \in Waiting /\ Msg("IPC_INVOKE", t) \notin Msgs(toMain)
  BY DEF LinkInv
<1>3. ~HasAnswer(t)
  BY <1>2, ResultIsAlone
<1>4. OnceToWorker(toWorker')
  BY <1>0, <1>3, AppendOnce DEF WorkTypes, LinkInv, HasAnswer, m
<1>5. WorkTypes'
  BY <1>1 DEF WorkTypes
<1>6. LinkInv'
  BY <1>0, <1>1, <1>2, <1>4 DEF LinkInv
<1>7. ASSUME NEW u \in Request \ {t} PROVE Owns(u)' <=> Owns(u)
  <2>1. HasAnswer(u)' <=> HasAnswer(u)
    BY <1>0, <1>1 DEF HasAnswer
  <2>2. InvokeResult(u, TRUE, "ok").id = u
    BY DEF InvokeResult
  <2>3. InvokeResult(u, TRUE, "ok") \in Msgs(toWorker') <=> InvokeResult(u, TRUE, "ok") \in Msgs(toWorker)
    BY <1>0, <1>1, <2>2
  <2> QED
    BY <2>1, <2>3 DEF Owns
<1>8. HasAnswer(t)'
  BY <1>0, <1>1 DEF HasAnswer
<1>9. InvokeResult(t, TRUE, "ok") \notin Msgs(toWorker)
  <2>1. InvokeResult(t, TRUE, "ok").id = t
    BY DEF InvokeResult
  <2> QED
    BY <1>3, <2>1 DEF HasAnswer
<1>10. CASE task[t].at = "claim"
  <2>1. ~Owns(t)
    BY <1>9, <1>10 DEF Owns
  <2>2. CASE row' = row /\ m # InvokeResult(t, TRUE, "ok")
    <3>1. ~Owns(t)'
      BY <1>1, <1>9, <1>10, <2>2 DEF Owns
    <3> QED
      BY <1>5, <1>6, <1>7, <2>1, <2>2, <3>1 DEF OwnerInv
  <2>3. CASE row \in {"pending", "retrying"} /\ row' = "inFlight"
    <3>1. \A u \in Request : ~Owns(u)
      BY <2>3 DEF OwnerInv
    <3>2. \A u \in Request \ {t} : ~Owns(u)'
      BY <1>7, <3>1
    <3> QED
      BY <1>5, <1>6, <1>10, <2>3, <3>2 DEF OwnerInv
  <2> QED
    BY <1>10, <2>2, <2>3 DEF m
<1>11. CASE task[t].at # "claim"
  <2>1. Owns(t) /\ ~Owns(t)'
    BY <1>2, <1>3, <1>8, <1>11 DEF Owns, Waiting
  <2>2. \A u \in Request : ~Owns(u)'
    BY <1>7, <2>1 DEF OwnerInv
  <2>3. row' \in {"pending", "retrying"} => deliveries = 0
    BY <1>11, <2>1 DEF OwnerInv
  <2> QED
    BY <1>5, <1>6, <2>2, <2>3 DEF OwnerInv
<1> QED
  BY <1>10, <1>11

\* A request is posted: nothing was known of it.
LEMMA RequestKeepsWork ==
    ASSUME WorkInv, NEW t \in Request, NEW k \in Kinds, SendRequest(t, k)
    PROVE  WorkInv'
<1> USE DEF WorkInv
<1> DEFINE m == Msg("request", t)
<1>0. /\ kind[t] = "none" /\ kind' = [kind EXCEPT ![t] = k] /\ toWorker' = Append(toWorker, m)
      /\ UNCHANGED <<settled, calls, toMain, task, row, deliveries>>
  BY DEF SendRequest
<1>1. m \in WorkerMsgs /\ m.id = t /\ m.type = "request"
  BY MsgTypes, MsgFields
<1> HIDE DEF m
<1>2. toWorker' \in Seq(WorkerMsgs) /\ Msgs(toWorker') = Msgs(toWorker) \cup {m}
  BY <1>0, <1>1, AppendMsgs DEF WorkTypes
<1>3. task[t] = Idle /\ task[t].at = "idle"
  BY <1>0 DEF LinkInv, Idle
<1>4. ASSUME NEW n \in Msgs(toWorker) PROVE n.id # t /\ n.id \in Request
  <2>1. n.type \in {"request", "IPC_INVOKE_RESULT"} /\ n.id \in Request
    BY DEF Msgs, WorkTypes, WorkerMsgs
  <2> QED
    BY <1>0, <1>3, <2>1 DEF LinkInv, Waiting
<1>5. OnceToWorker(toWorker')
  BY <1>0, <1>1, <1>4, AppendOnce DEF WorkTypes, LinkInv
<1>6. WorkTypes'
  BY <1>0, <1>2 DEF WorkTypes
<1>7. k # "none"
  BY DEF Kinds, InitKinds
<1>8. \A q \in Request : kind'[q] = IF q = t THEN k ELSE kind[q]
  BY <1>0 DEF WorkTypes
<1>9. LinkInv'
  BY <1>0, <1>1, <1>2, <1>3, <1>4, <1>5, <1>7, <1>8 DEF LinkInv
<1>10. ASSUME NEW u \in Request PROVE Owns(u)' => Owns(u)
  <2>1. m # InvokeResult(u, TRUE, "ok")
    <3>1. InvokeResult(u, TRUE, "ok").type = "IPC_INVOKE_RESULT"
      BY DEF InvokeResult
    <3> QED
      BY <1>1, <3>1
  <2> QED
    BY <1>0, <1>1, <1>2, <1>3, <2>1 DEF Owns, HasAnswer
<1>11. OwnerInv'
  BY <1>0, <1>10 DEF OwnerInv
<1> QED
  BY <1>6, <1>9, <1>11

\* A step that posts answers and statuses only, and may take a request.
LEMMA PostKeepsWork ==
    ASSUME WorkInv, UNCHANGED <<kind, calls, settled, task, row, deliveries>>,
           \/ UNCHANGED toWorker
           \/ toWorker # <<>> /\ toWorker' = Tail(toWorker) /\ Head(toWorker).type = "request",
           NEW r \in Seq(MainMsgs), toMain' = toMain \o r,
           \A m \in Msgs(r) : m.type \notin {"IPC_INVOKE", "sent"}
    PROVE  WorkInv'
<1> USE DEF WorkInv
<1>1. toMain' \in Seq(MainMsgs) /\ Msgs(toMain') = Msgs(toMain) \cup Msgs(r)
  BY ConcatMsgs DEF WorkTypes
<1>2. OnceToMain(r)
  BY DEF OnceToMain, Msgs
<1>3. OnceToMain(toMain')
  BY <1>2, PostOnce DEF WorkTypes, LinkInv
<1>4. /\ toWorker' \in Seq(WorkerMsgs) /\ OnceToWorker(toWorker')
      /\ Msgs(toWorker') \subseteq Msgs(toWorker)
      /\ \A m \in Msgs(toWorker) \ Msgs(toWorker') : m.type = "request"
  <2>1. CASE UNCHANGED toWorker
    BY <2>1 DEF WorkTypes, LinkInv
  <2>2. CASE toWorker # <<>> /\ toWorker' = Tail(toWorker) /\ Head(toWorker).type = "request"
    BY <2>2, TailMsgs, TailOnce DEF WorkTypes, LinkInv
  <2> QED
    BY <2>1, <2>2
<1>5. \A q \in Request : Msg("sent", q) \in Msgs(toMain') => Msg("sent", q) \in Msgs(toMain)
  BY <1>1, MsgFields
<1>6. settled' \in [Request -> {"no", "sent", "over"}]
  BY DEF WorkTypes
<1>7. Quiet
  BY <1>1, <1>3, <1>4, <1>5, <1>6 DEF Quiet
<1> QED
  BY <1>7, QuietKeepsWork

(***************************************************************************)
(* Every step keeps the invariant.                                          *)
(***************************************************************************)
Inv == WorkInv /\ SessionInv

\* The initial states satisfy it.
LEMMA InitInv == Init => Inv
<1> SUFFICES ASSUME Init PROVE Inv
  OBVIOUS
<1>1. Msgs(toWorker) = {} /\ Msgs(toMain) = {}
  BY TupleMsgs DEF Init
<1>2. WorkTypes
  BY DEF Init, WorkTypes, Tasks, Idle, None
<1>3. OnceToWorker(toWorker) /\ OnceToMain(toMain)
  BY DEF Init, OnceToWorker, OnceToMain
<1>4. LinkInv
  BY <1>1, <1>3 DEF Init, LinkInv
<1>5. \A t \in Request : ~Owns(t) /\ task[t].at = "idle"
  BY DEF Init, Owns, Idle
<1>6. OwnerInv
  BY <1>1, <1>5 DEF Init, OwnerInv
<1>7. SessionTypes
  BY DEF Init, SessionTypes
<1>8. ClientInv
  BY DEF Init, ClientInv
<1>9. ToldInv
  BY DEF Init, ToldInv, NoStatus, Agrees
<1>10. LoggedOutStaysOut
  BY DEF Init, LoggedOutStaysOut
<1> QED
  BY <1>2, <1>4, <1>6, <1>7, <1>8, <1>9, <1>10 DEF Inv, WorkInv, SessionInv

\* The end of an operation, whatever ended it.
LEMMA EndInv ==
    ASSUME Inv, NEW t \in Request, NEW r \in Seq(MainMsgs), Ends(t, r), Consumes(t),
           UNCHANGED <<kind, calls, settled, row, shown, disposed, opening, last>>,
           deliveries' = deliveries \/ (task[t].at = "submit" /\ deliveries' = deliveries + 1)
    PROVE  Inv'
<1> USE DEF Inv
<1>1. WorkInv'
  BY EndKeepsWork
<1>2. KindKept /\ OpensEnd
  BY DEF KindKept, OpensEnd, SessionInv, SessionTypes
<1>3. toMain' = toMain \o r
  BY DEF Ends
<1>4. CASE NoStatus(r) /\ UNCHANGED sessionVars
  BY <1>1, <1>2, <1>3, <1>4, SessionKept DEF WorkInv
<1>5. CASE LastStatus(r, "expired") /\ SessionReset
  <2>1. "expired" \in Statuses \ {"authenticated"}
    BY DEF Statuses
  <2> QED
    BY <1>1, <1>2, <1>3, <1>5, <2>1, SessionEnded DEF WorkInv
<1> QED
  BY <1>4, <1>5 DEF Ends

\* INIT_SESSION.
LEMMA HandleInitInv ==
    ASSUME Inv, toWorker # <<>>, toWorker' = Tail(toWorker), Head(toWorker).type = "request",
           kind[Head(toWorker).id] \in InitKinds, HandleInit(Head(toWorker).id), UNCHANGED mainVars
    PROVE  Inv'
<1> USE DEF Inv, mainVars
<1> DEFINE i == Head(toWorker).id
<1>1. i \in Request
  BY HeadConsumed
<1>2. SessionInv'
  BY <1>1, InitKeepsSession DEF WorkInv
<1>3. UNCHANGED <<task, row, deliveries>>
  BY DEF HandleInit
<1>4. PICK r \in Seq(MainMsgs) : /\ toMain' = toMain \o r
                                 /\ \A m \in Msgs(r) : m.type \notin {"IPC_INVOKE", "sent"}
  <2>1. /\ Status("connecting") \in MainMsgs /\ Status("error") \in MainMsgs
        /\ Msg("SESSION_ERROR", i) \in MainMsgs
    BY <1>1, MsgTypes DEF Statuses, Answers
  <2>2. /\ Status("connecting").type = "CONNECTION_STATUS" /\ Status("error").type = "CONNECTION_STATUS"
        /\ Msg("SESSION_ERROR", i).type = "SESSION_ERROR"
    BY MsgFields
  <2>3. CASE kind[i] = "initEmpty"
    <3> DEFINE r == <<Status("connecting"), Status("error"), Msg("SESSION_ERROR", i)>>
    <3>1. toMain' = toMain \o r
      BY <2>3 DEF HandleInit, Post
    <3>2. r \in Seq(MainMsgs)
      BY <2>1
    <3>3. Msgs(r) = {Status("connecting"), Status("error"), Msg("SESSION_ERROR", i)}
      BY TupleMsgs
    <3>4. \A m \in Msgs(r) : m.type \notin {"IPC_INVOKE", "sent"}
      BY <2>2, <3>3
    <3> HIDE DEF r
    <3> QED
      BY <3>1, <3>2, <3>4
  <2>4. CASE kind[i] # "initEmpty"
    <3> DEFINE r == <<Status("connecting")>>
    <3>1. toMain' = toMain \o r
      BY <2>4 DEF HandleInit, Post
    <3>2. r \in Seq(MainMsgs)
      BY <2>1
    <3>3. Msgs(r) = {Status("connecting")}
      BY TupleMsgs
    <3>4. \A m \in Msgs(r) : m.type \notin {"IPC_INVOKE", "sent"}
      BY <2>2, <3>3
    <3> HIDE DEF r
    <3> QED
      BY <3>1, <3>2, <3>4
  <2> QED
    BY <2>3, <2>4
<1>5. WorkInv'
  BY <1>3, <1>4, PostKeepsWork
<1> QED
  BY <1>2, <1>5

\* TEARDOWN_SESSION.
LEMMA HandleTeardownInv ==
    ASSUME Inv, toWorker # <<>>, toWorker' = Tail(toWorker), Head(toWorker).type = "request",
           HandleTeardown(Head(toWorker).id), UNCHANGED mainVars
    PROVE  Inv'
<1> USE DEF Inv, mainVars
<1> DEFINE i == Head(toWorker).id
           a == <<Msg("TEARDOWN_COMPLETE", i)>>
<1>1. i \in Request
  BY HeadConsumed
<1>2. /\ Invalidate("anonymous", FALSE, a) /\ UNCHANGED <<opening, task, row, deliveries>>
  BY DEF HandleTeardown
<1>3. "TEARDOWN_COMPLETE" \in Answers /\ "anonymous" \in Statuses \ {"authenticated"}
  BY DEF Answers, Statuses
<1>4. a \in Seq(MainMsgs) /\ NoStatus(a) /\ Msgs(a) = {Msg("TEARDOWN_COMPLETE", i)}
  BY <1>1, <1>3, AnswerPost
<1> HIDE DEF a, i
<1>5. SessionReset /\ \E r \in Seq(MainMsgs) :
          /\ toMain' = toMain \o r /\ LastStatus(r, "anonymous")
          /\ Msgs(r) \subseteq {Status("anonymous"), Msg("SESSION_TEARDOWN", None)} \cup Msgs(a)
  BY <1>2, <1>3, <1>4, InvalidatePost
<1>6. PICK r \in Seq(MainMsgs) :
          /\ toMain' = toMain \o r /\ LastStatus(r, "anonymous")
          /\ Msgs(r) \subseteq {Status("anonymous"), Msg("SESSION_TEARDOWN", None)} \cup Msgs(a)
  BY <1>5
<1>7. \A m \in Msgs(r) : m.type \notin {"IPC_INVOKE", "sent"}
  BY <1>4, <1>6, MsgFields
<1>8. WorkInv'
  BY <1>2, <1>6, <1>7, PostKeepsWork
<1>9. OpensEnd
  BY <1>2 DEF OpensEnd, SessionInv, SessionTypes
<1>10. SessionInv'
  BY <1>3, <1>5, <1>6, <1>9, SessionEnded DEF WorkInv
<1> QED
  BY <1>8, <1>10

\* The token's expiry timer.
LEMMA TokenExpiresInv ==
    ASSUME Inv, TokenExpires
    PROVE  Inv'
<1> USE DEF Inv
<1>1. /\ Invalidate("expired", TRUE, <<>>)
      /\ UNCHANGED <<mainVars, toWorker, opening, task, row, deliveries, last>>
  BY DEF TokenExpires
<1>2. "expired" \in Statuses \ {"authenticated"} /\ <<>> \in Seq(MainMsgs) /\ NoStatus(<<>>)
  BY DEF Statuses, NoStatus
<1>3. SessionReset /\ \E r \in Seq(MainMsgs) :
          /\ toMain' = toMain \o r /\ LastStatus(r, "expired")
          /\ Msgs(r) \subseteq {Status("expired"), Msg("SESSION_TEARDOWN", None)} \cup Msgs(<<>>)
  BY <1>1, <1>2, InvalidatePost
<1>4. PICK r \in Seq(MainMsgs) :
          /\ toMain' = toMain \o r /\ LastStatus(r, "expired")
          /\ Msgs(r) \subseteq {Status("expired"), Msg("SESSION_TEARDOWN", None)}
  BY <1>3, TupleMsgs
<1>5. \A m \in Msgs(r) : m.type \notin {"IPC_INVOKE", "sent"}
  BY <1>4, MsgFields
<1>6. WorkInv'
  BY <1>1, <1>4, <1>5, PostKeepsWork DEF mainVars
<1>7. OpensEnd
  BY <1>1 DEF OpensEnd, SessionInv, SessionTypes
<1>8. SessionInv'
  BY <1>2, <1>3, <1>4, <1>7, SessionEnded DEF WorkInv
<1> QED
  BY <1>6, <1>8

\* SYNC_ACCOUNT and SEND_EMAIL.
LEMMA HandleTaskInv ==
    ASSUME Inv, toWorker # <<>>, toWorker' = Tail(toWorker), Head(toWorker).type = "request",
           kind[Head(toWorker).id] \in {"sync", "send"}, HandleTask(Head(toWorker).id),
           UNCHANGED mainVars
    PROVE  Inv'
<1> USE DEF Inv, mainVars
<1> DEFINE t == Head(toWorker).id
<1>1. t \in Request /\ Consumes(t)
  BY HeadConsumed
<1>2. HandleTask(t) /\ kind[t] \in {"sync", "send"}
      /\ UNCHANGED <<sessionVars, opening, row, deliveries, last>>
  BY DEF HandleTask
<1> HIDE DEF t
<1>3. KindKept /\ OpensEnd
  BY <1>2 DEF KindKept, OpensEnd, SessionInv, SessionTypes
<1>4. CASE session = None
  <2> DEFINE a == IF kind[t] = "sync" THEN "SYNC_ERROR" ELSE "SEND_ERROR"
             r == <<Msg(a, t)>>
  <2>1. toMain' = toMain \o r /\ task' = task
    BY <1>2, <1>4 DEF HandleTask, Post
  <2>2. a \in Answers /\ a \notin {"IPC_INVOKE", "sent"}
    BY DEF Answers
  <2> HIDE DEF a
  <2>3. r \in Seq(MainMsgs) /\ NoStatus(r) /\ Msgs(r) = {Msg(a, t)}
    BY <1>1, <2>2, AnswerPost
  <2> HIDE DEF r
  <2>4. \A m \in Msgs(r) : m.type \notin {"IPC_INVOKE", "sent"}
    BY <2>2, <2>3, MsgFields
  <2>5. WorkInv'
    BY <1>2, <2>1, <2>3, <2>4, PostKeepsWork
  <2>6. SessionInv'
    BY <1>2, <1>3, <2>1, <2>3, SessionKept DEF WorkInv
  <2> QED
    BY <2>5, <2>6
<1>5. CASE session # None
  <2>1. WorkInv'
    BY <1>1, <1>2, <1>5, StartKeepsWork DEF SessionInv, SessionTypes
  <2>2. PICK r \in Seq(MainMsgs) : toMain' = toMain \o r /\ NoStatus(r)
    <3>1. CASE kind[t] = "sync"
      <4>1. toMain' = toMain \o <<>> /\ <<>> \in Seq(MainMsgs) /\ NoStatus(<<>>)
        BY <1>2, <1>5, <3>1, ConcatEmptySeq DEF HandleTask, WorkInv, WorkTypes, NoStatus
      <4> QED
        BY <4>1
    <3>2. CASE kind[t] # "sync"
      <4>1. toMain' = toMain \o <<Msg("IPC_INVOKE", t)>>
        BY <1>2, <1>5, <3>2 DEF HandleTask, Post
      <4>2. <<Msg("IPC_INVOKE", t)>> \in Seq(MainMsgs) /\ NoStatus(<<Msg("IPC_INVOKE", t)>>)
        BY <1>1, AnswerPost
      <4> QED
        BY <4>1, <4>2
    <3> QED
      BY <3>1, <3>2
  <2>3. SessionInv'
    BY <1>2, <1>3, <2>2, SessionKept DEF WorkInv
  <2> QED
    BY <2>1, <2>3
<1> QED
  BY <1>4, <1>5

\* What the continuation of a send does: it ends, or it goes on with the claim won.
LEMMA ResumeCases ==
    ASSUME NEW t \in Request, NEW ok \in BOOLEAN, NEW value, task[t].at \in Waiting,
           ResumeSend(t, ok, value)
    PROVE  \/ \E r \in Seq(MainMsgs) : Ends(t, r)
           \/ /\ ok = TRUE /\ value = "ok" /\ task[t].at = "claim"
              /\ task' = [task EXCEPT ![t].at = "submit"] /\ UNCHANGED <<toMain, sessionVars>>
<1>1. \/ \E a \in Answers : Reject(t, a) /\ (a = "sent" => task[t].at = "confirm")
      \/ InvalidateOnAuthError(t, task[t].session, "SEND_ERROR") /\ EndTask(t)
      \/ /\ ok = TRUE /\ value = "ok" /\ task[t].at = "claim"
         /\ task' = [task EXCEPT ![t].at = "submit"] /\ UNCHANGED <<toMain, sessionVars>>
  <2>0. {"SEND_ERROR", "skipped", "sent"} \subseteq Answers
    BY DEF Answers
  <2>1. CASE ok = FALSE
    BY <2>0, <2>1 DEF ResumeSend, Waiting
  <2>2. CASE ok = TRUE /\ task[t].at = "claim"
    <3>1. IF value = "ok"
          THEN task' = [task EXCEPT ![t].at = "submit"] /\ UNCHANGED <<toMain, sessionVars>>
          ELSE Reject(t, "skipped")
      BY <2>2 DEF ResumeSend, Claimed
    <3> QED
      BY <2>0, <2>2, <3>1
  <2>3. CASE ok = TRUE /\ task[t].at = "confirm"
    <3>1. Reject(t, IF value = "ok" THEN "sent" ELSE "SEND_ERROR")
      BY <2>3 DEF ResumeSend
    <3> QED
      BY <2>0, <2>3, <3>1
  <2>4. CASE ok = TRUE /\ task[t].at \in {"retrying", "failedTerminal"}
    <3>1. IF value = "ok"
          THEN InvalidateOnAuthError(t, task[t].session, "SEND_ERROR") /\ EndTask(t)
          ELSE Reject(t, "SEND_ERROR")
      BY <2>4 DEF ResumeSend
    <3> QED
      BY <2>0, <3>1
  <2> QED
    BY <2>1, <2>2, <2>3, <2>4 DEF Waiting
<1> QED
  BY <1>1, RejectEnds, AuthErrorEnds

\* The continuation of a send after a persistence call.
LEMMA ResumeSendInv ==
    ASSUME Inv, toWorker # <<>>, toWorker' = Tail(toWorker), Head(toWorker).type = "IPC_INVOKE_RESULT",
           ResumeSend(Head(toWorker).id, Head(toWorker).ok, Head(toWorker).value),
           UNCHANGED <<opening, row, deliveries, last>>, UNCHANGED mainVars
    PROVE  Inv'
<1> USE DEF Inv, mainVars
<1> DEFINE msg == Head(toWorker)
           t == msg.id
<1>1. t \in Request /\ Consumes(t) /\ msg \in Msgs(toWorker) /\ msg \in WorkerMsgs
  BY HeadConsumed
<1>2. msg = InvokeResult(t, msg.ok, msg.value) /\ msg.ok \in BOOLEAN
  BY <1>1 DEF WorkerMsgs, InvokeResult
<1>3. task[t].at \in Waiting
  BY <1>1 DEF WorkInv, LinkInv
<1>4. ResumeSend(t, msg.ok, msg.value)
  OBVIOUS
<1> HIDE DEF msg, t
<1>5. \/ \E r \in Seq(MainMsgs) : Ends(t, r)
      \/ /\ msg.ok = TRUE /\ msg.value = "ok" /\ task[t].at = "claim"
         /\ task' = [task EXCEPT ![t].at = "submit"] /\ UNCHANGED <<toMain, sessionVars>>
  BY <1>1, <1>2, <1>3, <1>4, ResumeCases
<1>6. CASE \E r \in Seq(MainMsgs) : Ends(t, r)
  BY <1>1, <1>6, EndInv
<1>7. CASE /\ msg.ok = TRUE /\ msg.value = "ok" /\ task[t].at = "claim"
           /\ task' = [task EXCEPT ![t].at = "submit"] /\ UNCHANGED <<toMain, sessionVars>>
  <2>1. Owns(t)
    BY <1>1, <1>2, <1>7 DEF Owns
  <2>2. OthersKept(t) /\ task'[t].at = "submit"
    BY <1>1, <1>7 DEF OthersKept, WorkInv, WorkTypes, Tasks
  <2>3. toMain' = toMain \o <<>> /\ <<>> \in Seq(MainMsgs) /\ NoStatus(<<>>)
        /\ OnceToMain(<<>>) /\ Msgs(<<>>) = {}
    BY <1>7, ConcatEmptySeq, TupleMsgs DEF WorkInv, WorkTypes, NoStatus, OnceToMain
  <2>4. WorkInv'
    BY <1>1, <1>7, <2>1, <2>2, <2>3, OwnerKeepsWork
  <2>5. KindKept /\ OpensEnd
    BY DEF KindKept, OpensEnd, SessionInv, SessionTypes
  <2>6. SessionInv'
    BY <1>7, <2>3, <2>5, SessionKept DEF WorkInv
  <2> QED
    BY <2>4, <2>6
<1> QED
  BY <1>5, <1>6, <1>7

\* open() ends.
LEMMA OpenInv ==
    ASSUME Inv, NEW i \in Request, NEW error, Open(i, error)
    PROVE  Inv'
<1> USE DEF Inv
<1>1. /\ opening[i] # -1 /\ opening' = [opening EXCEPT ![i] = -1]
      /\ UNCHANGED <<mainVars, toWorker, task, row, deliveries, last>>
      /\ OpenReturns(i) \/ OpenFails(i)
  BY DEF Open
<1>2. OpensEnd /\ KindKept
  BY <1>1 DEF OpensEnd, KindKept, SessionInv, SessionTypes, mainVars
<1>3. /\ \A s : Status(s).type \notin {"IPC_INVOKE", "sent"}
      /\ \A a \in Answers \ {"sent"} : Msg(a, i).type \notin {"IPC_INVOKE", "sent"}
  BY MsgFields DEF Answers
<1>4. {"SESSION_READY", "SESSION_ERROR"} \subseteq Answers \ {"sent"}
      /\ {"authenticated", "error"} \subseteq Statuses
  BY DEF Answers, Statuses
<1>5. CASE UNCHANGED <<toMain, sessionVars>>
  <2>1. toMain' = toMain \o <<>> /\ <<>> \in Seq(MainMsgs) /\ NoStatus(<<>>) /\ Msgs(<<>>) = {}
    BY <1>5, ConcatEmptySeq, TupleMsgs DEF WorkInv, WorkTypes, NoStatus
  <2>2. WorkInv'
    BY <1>1, <2>1, PostKeepsWork DEF mainVars
  <2>3. SessionInv'
    BY <1>1, <1>2, <1>5, <2>1, SessionKept DEF WorkInv, mainVars
  <2> QED
    BY <2>2, <2>3
<1>6. CASE OpenReturns(i) /\ ~UNCHANGED <<toMain, sessionVars>>
  <2> DEFINE r == <<Status("authenticated"), Msg("SESSION_READY", i)>>
  <2>1. toMain' = toMain \o r
    BY <1>6 DEF OpenReturns, Post
  <2>2. r \in Seq(MainMsgs) /\ Msgs(r) = {Status("authenticated"), Msg("SESSION_READY", i)}
    BY <1>4, StatusAnswerPost
  <2> HIDE DEF r
  <2>3. WorkInv'
    BY <1>1, <1>3, <1>4, <2>1, <2>2, PostKeepsWork DEF mainVars
  <2>4. SessionInv'
    BY <1>1, <1>6, OpenReturnsKeepsSession DEF WorkInv, mainVars
  <2> QED
    BY <2>3, <2>4
<1>7. CASE OpenFails(i) /\ ~UNCHANGED <<toMain, sessionVars>>
  <2> DEFINE r == <<Status("error"), Msg("SESSION_ERROR", i)>>
  <2>1. toMain' = toMain \o r /\ SessionReset
    BY <1>7 DEF OpenFails, Post, SessionReset
  <2>2. r \in Seq(MainMsgs) /\ Msgs(r) = {Status("error"), Msg("SESSION_ERROR", i)}
        /\ LastStatus(r, "error")
    BY <1>4, StatusAnswerPost
  <2> HIDE DEF r
  <2>3. WorkInv'
    BY <1>1, <1>3, <1>4, <2>1, <2>2, PostKeepsWork DEF mainVars
  <2>4. SessionInv'
    BY <1>2, <1>4, <2>1, <2>2, SessionEnded DEF WorkInv
  <2> QED
    BY <2>3, <2>4
<1> QED
  BY <1>1, <1>5, <1>6, <1>7

\* A sync ends with an answer, and a refusal of its own client ends the session.
LEMMA SyncCases ==
    ASSUME NEW t \in Request, SyncEnds(t)
    PROVE  \E r \in Seq(MainMsgs) : Ends(t, r)
<1>1. EndTask(t)
  BY DEF SyncEnds
<1>2. \/ Reject(t, "SYNC_SUCCESS")
      \/ \E d : InvalidateOnAuthError(t, d, "SYNC_ERROR")
  BY <1>1 DEF SyncEnds, Reject
<1>3. "SYNC_SUCCESS" \in Answers
  BY DEF Answers
<1> QED
  BY <1>1, <1>2, <1>3, RejectEnds, AuthErrorEnds

\* A sync ends.
LEMMA SyncEndsInv ==
    ASSUME Inv, NEW t \in Request, SyncEnds(t)
    PROVE  Inv'
<1> USE DEF Inv
<1>1. /\ task[t].at = "syncing"
      /\ UNCHANGED <<mainVars, toWorker, opening, row, deliveries, last>>
  BY DEF SyncEnds
<1>2. Consumes(t)
  BY <1>1, NothingToConsume
<1>3. \E r \in Seq(MainMsgs) : Ends(t, r)
  BY SyncCases
<1> QED
  BY <1>1, <1>2, <1>3, EndInv DEF mainVars

\* What toRemoteError answers is a session disposition.
LEMMA Dispositions ==
    ASSUME NEW e \in {JmapAuthError, JmapMethodError("networkOrServerFail"), JmapMethodError("tooLarge")}
    PROVE  ToRemoteError(e, "knownNotApplied").session \in {"keep", "expire"}
<1>1. e.class \in {"auth", "method"}
  BY DEF JmapAuthError, JmapMethodError, Jmap
<1>2. CASE e.class = "auth"
  BY <1>2 DEF ToRemoteError, RemoteError
<1>3. CASE e.class = "method"
  BY <1>3 DEF ToRemoteError, RemoteError
<1> QED
  BY <1>1, <1>2, <1>3

\* A submission returns.
LEMMA SubmitReturnsInv ==
    ASSUME Inv, NEW t \in Request, SubmitReturns(t)
    PROVE  Inv'
<1> USE DEF Inv
<1>1. task[t].at = "submit" /\ UNCHANGED <<mainVars, toWorker, opening, row, last>>
  BY DEF SubmitReturns
<1>2. Consumes(t) /\ Owns(t)
  BY <1>1, NothingToConsume DEF Owns
<1>3. KindKept /\ OpensEnd
  BY <1>1 DEF KindKept, OpensEnd, SessionInv, SessionTypes, mainVars
<1> DEFINE r == <<Msg("IPC_INVOKE", t)>>
<1>4. r \in Seq(MainMsgs) /\ NoStatus(r) /\ Msgs(r) = {Msg("IPC_INVOKE", t)} /\ OnceToMain(r)
  BY AnswerPost
<1> HIDE DEF r
<1>5. CASE Invoke(t, "confirm") /\ deliveries' = deliveries + 1
  <2>1. task' = [task EXCEPT ![t].at = "confirm"] /\ toMain' = toMain \o r /\ UNCHANGED sessionVars
    BY <1>5 DEF Invoke, Post, r
  <2>2. OthersKept(t) /\ task'[t].at = "confirm"
    BY <2>1 DEF OthersKept, WorkInv, WorkTypes, Tasks, Waiting
  <2>3. WorkInv'
    BY <1>1, <1>2, <1>4, <1>5, <2>1, <2>2, OwnerKeepsWork DEF mainVars
  <2>4. SessionInv'
    BY <1>1, <1>3, <1>4, <2>1, SessionKept DEF WorkInv, mainVars
  <2> QED
    BY <2>3, <2>4
<1>6. CASE Reject(t, "needsReconciliation") /\ deliveries' \in {deliveries, deliveries + 1}
  <2>1. "needsReconciliation" \in Answers
    BY DEF Answers
  <2>2. \E q \in Seq(MainMsgs) : Ends(t, q)
    BY <1>6, <2>1, RejectEnds
  <2> QED
    BY <1>1, <1>2, <1>6, <2>2, EndInv DEF mainVars
<1>7. ASSUME NEW e \in {JmapAuthError, JmapMethodError("networkOrServerFail"), JmapMethodError("tooLarge")},
             task' = [task EXCEPT
                 ![t].at = IF ToRemoteError(e, "knownNotApplied").retry = "safeBackoff"
                           THEN "retrying" ELSE "failedTerminal",
                 ![t].session = ToRemoteError(e, "knownNotApplied").session],
             Post(<<Msg("IPC_INVOKE", t)>>), UNCHANGED <<sessionVars, deliveries>>
      PROVE  Inv'
  <2> DEFINE re == ToRemoteError(e, "knownNotApplied")
             at == IF re.retry = "safeBackoff" THEN "retrying" ELSE "failedTerminal"
  <2>1. re.session \in {"keep", "expire"} /\ at \in {"retrying", "failedTerminal"}
    BY Dispositions
  <2>2. task' = [task EXCEPT ![t].at = at, ![t].session = re.session]
    BY <1>7
  <2> HIDE DEF re, at
  <2>3. OthersKept(t) /\ task'[t].at = at
    <3> DEFINE T == [task EXCEPT ![t].at = at]
    <3>1. T \in [Request -> Tasks] /\ T[t].at = at /\ \A u \in Request \ {t} : T[u] = task[u]
      BY <2>1 DEF WorkInv, WorkTypes, Tasks, Waiting
    <3>2. task' = [T EXCEPT ![t].session = re.session]
      BY <2>2
    <3> HIDE DEF T
    <3>3. task' \in [Request -> Tasks] /\ task'[t].at = at /\ \A u \in Request \ {t} : task'[u] = T[u]
      BY <2>1, <3>1, <3>2 DEF Tasks
    <3> QED
      BY <3>1, <3>3 DEF OthersKept
  <2>4. toMain' = toMain \o r /\ UNCHANGED <<sessionVars, deliveries>>
    BY <1>7 DEF Post, r
  <2>5. WorkInv'
    BY <1>1, <1>2, <1>4, <2>1, <2>3, <2>4, OwnerKeepsWork DEF mainVars
  <2>6. SessionInv'
    BY <1>1, <1>3, <1>4, <2>4, SessionKept DEF WorkInv, mainVars
  <2> QED
    BY <2>5, <2>6
<1> QED
  BY <1>5, <1>6, <1>7 DEF SubmitReturns

\* The main thread takes a message.
LEMMA MainReceivesInv ==
    ASSUME Inv, MainReceives
    PROVE  Inv'
<1> USE DEF Inv
<1> DEFINE msg == Head(toMain)
<1>0. /\ toMain # <<>> /\ toMain' = Tail(toMain)
      /\ UNCHANGED <<kind, toWorker, task, row, deliveries>>
  BY DEF MainReceives
<1>1. SessionInv'
  BY MainKeepsSession DEF WorkInv
<1>2. CASE msg.type = "IPC_INVOKE"
  <2>1. calls' = calls \cup {msg.id} /\ UNCHANGED settled
    BY <1>2 DEF MainReceives, Answers
  <2>2. WorkInv'
    BY <1>0, <1>2, <2>1, CallKeepsWork
  <2> QED
    BY <1>1, <2>2
<1>3. CASE msg.type # "IPC_INVOKE"
  <2>1. /\ msg \in MainMsgs /\ toMain' \in Seq(MainMsgs) /\ msg \in Msgs(toMain)
        /\ Msgs(toMain) = Msgs(toMain') \cup {msg}
    BY <1>0, TailMsgs DEF WorkInv, WorkTypes
  <2>2. OnceToMain(toMain')
    BY <1>0, TakeOnce DEF WorkInv, WorkTypes, LinkInv
  <2>3. calls' = calls
    BY <1>3 DEF MainReceives
  <2>4. /\ settled' \in [Request -> {"no", "sent", "over"}]
        /\ \A q \in Request : settled'[q] = "sent" =>
               Msg("sent", q) \in Msgs(toMain) \/ settled[q] = "sent"
    <3>0. settled \in [Request -> {"no", "sent", "over"}]
      BY DEF WorkInv, WorkTypes
    <3>1. CASE msg.type \in Answers
      <4>1. msg.id \in Request /\ msg = Msg(msg.type, msg.id)
        BY <2>1, <3>1 DEF MainMsgs, Msg, Answers
      <4>2. SettleRequest(msg.id, IF msg.type = "sent" THEN "sent" ELSE "over")
        BY <3>1 DEF MainReceives, Answers
      <4> QED
        BY <2>1, <3>0, <4>1, <4>2 DEF SettleRequest
    <3>2. CASE msg.type \notin Answers
      <4>1. settled' = settled
        BY <3>2 DEF MainReceives
      <4> QED
        BY <3>0, <4>1
    <3> QED
      BY <3>1, <3>2
  <2>5. toWorker' \in Seq(WorkerMsgs) /\ OnceToWorker(toWorker')
    BY <1>0 DEF WorkInv, WorkTypes, LinkInv
  <2> HIDE DEF msg
  <2>6. Quiet
    BY <1>0, <2>1, <2>2, <2>3, <2>4, <2>5 DEF Quiet
  <2>7. WorkInv'
    BY <2>6, QuietKeepsWork
  <2> QED
    BY <1>1, <2>7
<1> QED
  BY <1>2, <1>3

\* What the engine answers to a call, by the step that made it.
LEMMA EngineCases ==
    ASSUME NEW t \in Request, task[t].at \in Waiting
    PROVE  /\ Engine(t).value \in {"ok", "conflict"}
           /\ Engine(t).value = "conflict" => Engine(t).next = row
           /\ Engine(t).value = "ok" =>
                \/ task[t].at = "claim" /\ row \in {"pending", "retrying"} /\ Engine(t).next = "inFlight"
                \/ task[t].at = "confirm" /\ Engine(t).next = "removed"
                \/ task[t].at \in {"retrying", "failedTerminal"} /\ Engine(t).next = task[t].at
<1>1. CASE task[t].at = "claim"
  BY <1>1 DEF Engine
<1>2. CASE task[t].at = "confirm"
  BY <1>2 DEF Engine
<1>3. CASE task[t].at = "retrying"
  BY <1>3 DEF Engine
<1>4. CASE task[t].at = "failedTerminal"
  BY <1>4 DEF Engine
<1> QED
  BY <1>1, <1>2, <1>3, <1>4 DEF Waiting

\* A persistence call returns.
LEMMA InvokeReturnsInv ==
    ASSUME Inv, NEW t \in Request, InvokeReturns(t)
    PROVE  Inv'
<1> USE DEF Inv
<1>1. /\ t \in calls /\ calls' = calls \ {t}
      /\ UNCHANGED <<kind, settled, shown, disposed, toMain, sessionVars, opening, task, deliveries, last>>
  BY DEF InvokeReturns
<1>2. task[t].at \in Waiting
  BY <1>1 DEF WorkInv, LinkInv
<1>3. WorkInv'
  <2>1. CASE row' = Engine(t).next /\ toWorker' = Append(toWorker, InvokeResult(t, TRUE, Engine(t).value))
    <3> DEFINE value == Engine(t).value
    <3>1. /\ value \in {"ok", "conflict"} /\ value \in Values
          /\ value = "conflict" => row' = row
          /\ value = "ok" =>
               \/ task[t].at = "claim" /\ row \in {"pending", "retrying"} /\ row' = "inFlight"
               \/ task[t].at = "confirm" /\ row' = "removed"
               \/ task[t].at \in {"retrying", "failedTerminal"} /\ row' = task[t].at
      BY <1>2, <2>1, EngineCases DEF Values
    <3>2. InvokeResult(t, TRUE, value) = InvokeResult(t, TRUE, "ok") => value = "ok"
      BY DEF InvokeResult
    <3> HIDE DEF value
    <3>3. \/ row' = row /\ ~(task[t].at = "claim" /\ InvokeResult(t, TRUE, value) = InvokeResult(t, TRUE, "ok"))
          \/ task[t].at = "claim" /\ row \in {"pending", "retrying"} /\ row' = "inFlight"
          \/ task[t].at # "claim" /\ row' \in {"removed", "failedTerminal"}
          \/ task[t].at \in {"retrying", "failedTerminal"} /\ row' = "retrying"
      BY <3>1, <3>2
    <3>4. toWorker' = Append(toWorker, InvokeResult(t, TRUE, value)) /\ TRUE \in BOOLEAN
      BY <2>1 DEF value
    <3> QED
      BY <1>1, <3>1, <3>3, <3>4, ReplyKeepsWork
  <2>2. CASE row' = row /\ toWorker' = Append(toWorker, InvokeResult(t, FALSE, "unavailable"))
    <3>1. "unavailable" \in Values /\ FALSE \in BOOLEAN
      BY DEF Values
    <3>2. InvokeResult(t, FALSE, "unavailable") # InvokeResult(t, TRUE, "ok")
      <4>1. InvokeResult(t, FALSE, "unavailable").value # InvokeResult(t, TRUE, "ok").value
        BY DEF InvokeResult
      <4> QED
        BY <4>1
    <3> QED
      BY <1>1, <2>2, <3>1, <3>2, ReplyKeepsWork
  <2> QED
    BY <2>1, <2>2 DEF InvokeReturns
<1>4. KindKept /\ OpensEnd
  BY <1>1 DEF KindKept, OpensEnd, SessionInv, SessionTypes
<1>5. toMain' = toMain \o <<>> /\ <<>> \in Seq(MainMsgs) /\ NoStatus(<<>>)
  BY <1>1, ConcatEmptySeq DEF WorkInv, WorkTypes, NoStatus
<1>6. SessionInv'
  BY <1>1, <1>4, <1>5, SessionKept DEF WorkInv
<1> QED
  BY <1>3, <1>6

\* A request is posted, or given up.
LEMMA RequestsInv ==
    ASSUME Inv, NEW t \in Request, TimeOut(t) \/ \E k \in Kinds : SendRequest(t, k)
    PROVE  Inv'
<1> USE DEF Inv
<1>1. /\ UNCHANGED <<shown, disposed, toMain, sessionVars, opening, last>>
      /\ kind' = kind \/ (kind[t] = "none" /\ \E k \in Kinds : kind' = [kind EXCEPT ![t] = k])
  BY DEF TimeOut, SendRequest
<1>2. KindKept /\ OpensEnd
  BY <1>1 DEF KindKept, OpensEnd, SessionInv, SessionTypes, WorkInv, WorkTypes
<1>3. toMain' = toMain \o <<>> /\ <<>> \in Seq(MainMsgs) /\ NoStatus(<<>>)
  BY <1>1, ConcatEmptySeq DEF WorkInv, WorkTypes, NoStatus
<1>4. SessionInv'
  BY <1>1, <1>2, <1>3, SessionKept DEF WorkInv
<1>5. CASE \E k \in Kinds : SendRequest(t, k)
  BY <1>4, <1>5, RequestKeepsWork
<1>6. CASE TimeOut(t)
  <2>1. /\ settled' = [settled EXCEPT ![t] = "over"]
        /\ UNCHANGED <<kind, calls, toWorker, toMain, task, row, deliveries>>
    BY <1>6 DEF TimeOut
  <2>2. Quiet
    BY <2>1 DEF Quiet, WorkInv, WorkTypes, LinkInv
  <2> QED
    BY <1>4, <2>2, QuietKeepsWork
<1> QED
  BY <1>5, <1>6

\* The Worker is terminated.
LEMMA DisposeInv ==
    ASSUME Inv, Dispose
    PROVE  Inv'
<1> USE DEF Inv
<1>1. /\ disposed' = TRUE /\ calls' = {} /\ toWorker' = <<>> /\ toMain' = <<>>
      /\ settled' = [r \in Request |-> IF r \in pending THEN "over" ELSE settled[r]]
      /\ opening' = [r \in Request |-> -1] /\ task' = [r \in Request |-> Idle]
      /\ token' = None /\ client' = None /\ session' = None /\ generation' = 0
      /\ UNCHANGED <<kind, row, deliveries, last>>
  BY DEF Dispose
<1>2. Msgs(toWorker') = {} /\ Msgs(toMain') = {}
  BY <1>1, TupleMsgs
<1>3. WorkTypes'
  BY <1>1 DEF WorkInv, WorkTypes, Tasks, Idle, None
<1>4. OnceToWorker(toWorker') /\ OnceToMain(toMain')
  BY <1>1 DEF OnceToWorker, OnceToMain
<1>5. LinkInv'
  BY <1>1, <1>2, <1>4 DEF LinkInv
<1>6. \A t \in Request : ~Owns(t)' /\ task'[t].at = "idle"
  BY <1>1 DEF Owns, Idle
<1>7. \A t \in Request : settled'[t] = "sent" => settled[t] = "sent"
  BY <1>1
<1>8. OwnerInv'
  BY <1>1, <1>2, <1>6, <1>7 DEF WorkInv, OwnerInv
<1>9. SessionTypes'
  BY <1>1 DEF SessionTypes
<1>10. ClientInv'
  BY <1>1 DEF ClientInv
<1>11. ToldInv'
  BY <1>1 DEF ToldInv
<1>12. LoggedOutStaysOut'
  BY <1>1 DEF LoggedOutStaysOut
<1> QED
  BY <1>3, <1>5, <1>8, <1>9, <1>10, <1>11, <1>12 DEF WorkInv, SessionInv

\* Nothing happens.
LEMMA StutterInv ==
    ASSUME Inv, UNCHANGED vars
    PROVE  Inv'
<1> USE DEF Inv, vars, mainVars, sessionVars
<1>1. WorkInv'
  BY DEF WorkInv, WorkTypes, LinkInv, OwnerInv, Owns, HasAnswer
<1>2. SessionInv'
  BY DEF SessionInv, SessionTypes, ClientInv, ToldInv, EmptyToken, Agrees, LoggedOutStaysOut
<1> QED
  BY <1>1, <1>2

\* Every step keeps the invariant.
LEMMA NextInv == Inv /\ [Next]_vars => Inv'
<1> SUFFICES ASSUME Inv, [Next]_vars PROVE Inv'
  OBVIOUS
<1>1. CASE WorkerReceives
  BY <1>1, HandleInitInv, HandleTeardownInv, HandleTaskInv, ResumeSendInv DEF WorkerReceives
<1>2. ASSUME NEW r \in Request, NEW error \in OpenErrors, Open(r, error) PROVE Inv'
  BY <1>2, OpenInv
<1>3. ASSUME NEW r \in Request, SyncEnds(r) \/ SubmitReturns(r) PROVE Inv'
  BY <1>3, SyncEndsInv, SubmitReturnsInv
<1>4. CASE MainReceives
  BY <1>4, MainReceivesInv
<1>5. ASSUME NEW r \in Request, InvokeReturns(r) PROVE Inv'
  BY <1>5, InvokeReturnsInv
<1>6. CASE TokenExpires
  BY <1>6, TokenExpiresInv
<1>7. CASE Dispose
  BY <1>7, DisposeInv
<1>8. ASSUME NEW r \in Request, TimeOut(r) \/ \E k \in Kinds : SendRequest(r, k) PROVE Inv'
  BY <1>8, RequestsInv
<1>9. CASE UNCHANGED vars
  BY <1>9, StutterInv
<1> QED
  BY <1>1, <1>2, <1>3, <1>4, <1>5, <1>6, <1>7, <1>8, <1>9 DEF Next, WorkerStep, MainStep

(***************************************************************************)
(* Theorems.                                                                *)
(***************************************************************************)
\* The safety part of the specification.
LEMMA SafetyPart == Spec => Init /\ [][Next]_vars
BY PTL DEF Spec

\* The invariant holds throughout.
LEMMA WorkerInvariant == Spec => []Inv
BY InitInv, NextInv, SafetyPart, PTL

\* After a logout nothing that was under way brings a session back.
THEOREM LogoutIsFinal == Spec => []LoggedOutStaysOut
<1>1. Inv => LoggedOutStaysOut
  BY DEF Inv, SessionInv
<1> QED
  BY <1>1, WorkerInvariant, PTL

\* A session is usable only with its own token in memory, except after a login
\* with an empty token.
THEOREM SessionsHoldTheirToken == Spec => []SessionHoldsItsToken
<1>1. Inv => SessionHoldsItsToken
  BY DEF Inv, SessionInv, ClientInv, SessionHoldsItsToken
<1> QED
  BY <1>1, WorkerInvariant, PTL

\* The status that the main thread shows, once it has read what was posted, is
\* the state of the Worker's session, whatever the two are in the middle of.
THEOREM ShownStatusIsTrue == Spec => []StatusIsTrue
<1>1. Inv => StatusIsTrue
  <2> SUFFICES ASSUME Inv, ~disposed, ~EmptyToken, NoStatus(toMain)
               PROVE  (shown = "authenticated") = (session # None)
    BY DEF StatusIsTrue, NoStatus
  <2>1. \A s : ~LastStatus(toMain, s)
    BY MsgFields DEF NoStatus, LastStatus
  <2>2. Agrees(shown)
    BY <2>1 DEF Inv, SessionInv, ToldInv
  <2> QED
    BY <2>2 DEF Agrees
<1> QED
  BY <1>1, WorkerInvariant, PTL

\* However many requests are made for one mutation, and whichever of them time
\* out, it is submitted once, and "sent" is answered only if it was.
THEOREM WorkerSendsOnce == Spec => []SendsOnce
<1>1. Inv => SendsOnce
  BY DEF Inv, WorkInv, OwnerInv, SendsOnce
<1> QED
  BY <1>1, WorkerInvariant, PTL

\* The end of an operation ends the session only if the session was its own.
LEMMA EndIsOwn ==
    ASSUME Inv, NEW t \in Request, NEW r, Ends(t, r), task[t] # Idle,
           session # None, session' = None
    PROVE  task[t].client = session /\ task'[t] # task[t]
<1>1. client = session
  BY DEF Inv, SessionInv, ClientInv
<1>2. client = task[t].client
  BY DEF Ends, sessionVars
<1>3. task'[t] = Idle
  BY DEF Ends, Inv, WorkInv, WorkTypes
<1> QED
  BY <1>1, <1>2, <1>3

\* The session is ended by a login or logout, its token's expiry or the refusal of an
\* operation of its own, never by an older session's late failure.
THEOREM OldSessionsDoNoHarm == Spec => LateFailuresAreHarmless
<1> DEFINE Harmless ==
        session # None /\ session' = None /\ ~disposed' =>
          \/ /\ toWorker # <<>> /\ toWorker' = Tail(toWorker) /\ Head(toWorker).type = "request"
             /\ kind[Head(toWorker).id] \in InitKinds \cup {"teardown"}
          \/ timer /\ UNCHANGED <<task, opening>>
          \/ \E t \in Request : task[t].client = session /\ task'[t] # task[t]
<1>1. Inv /\ [Next]_vars => [Harmless]_vars
  <2> SUFFICES ASSUME Inv, Next, session # None, session' = None, ~disposed'
               PROVE  \/ /\ toWorker # <<>> /\ toWorker' = Tail(toWorker) /\ Head(toWorker).type = "request"
                         /\ kind[Head(toWorker).id] \in InitKinds \cup {"teardown"}
                      \/ timer /\ UNCHANGED <<task, opening>>
                      \/ \E t \in Request : task[t].client = session /\ task'[t] # task[t]
    OBVIOUS
  <2>1. CASE WorkerReceives
    <3>1. CASE Head(toWorker).type = "request"
      <4>1. CASE kind[Head(toWorker).id] \in InitKinds \cup {"teardown"}
        BY <2>1, <3>1, <4>1 DEF WorkerReceives
      <4>2. CASE kind[Head(toWorker).id] \in {"sync", "send"}
        <5>1. HandleTask(Head(toWorker).id)
          BY <2>1, <3>1, <4>2 DEF WorkerReceives, InitKinds
        <5> QED
          BY <5>1 DEF HandleTask, sessionVars
      <4> QED
        BY <2>1, <3>1, <4>1, <4>2 DEF WorkerReceives
    <3>2. CASE Head(toWorker).type # "request"
      <4> DEFINE msg == Head(toWorker)
                 t == msg.id
      <4>1. /\ toWorker # <<>> /\ toWorker' = Tail(toWorker) /\ msg.type = "IPC_INVOKE_RESULT"
            /\ ResumeSend(t, msg.ok, msg.value)
        BY <2>1, <3>2 DEF WorkerReceives
      <4>2. t \in Request /\ msg \in Msgs(toWorker) /\ msg \in WorkerMsgs
        BY <4>1, HeadConsumed DEF Inv
      <4>3. msg.ok \in BOOLEAN /\ task[t].at \in Waiting
        BY <4>1, <4>2 DEF WorkerMsgs, Inv, WorkInv, LinkInv
      <4> HIDE DEF msg, t
      <4>4. PICK r \in Seq(MainMsgs) : Ends(t, r)
        BY <4>1, <4>2, <4>3, ResumeCases DEF sessionVars
      <4>5. task[t] # Idle
        BY <4>3 DEF Idle, Waiting
      <4> QED
        BY <4>2, <4>4, <4>5, EndIsOwn
    <3> QED
      BY <3>1, <3>2
  <2>2. ASSUME NEW i \in Request, NEW error \in OpenErrors, Open(i, error) PROVE FALSE
    <3>1. opening[i] # generation
      BY DEF Inv, SessionInv, ClientInv
    <3>2. i # None
      BY DEF Request, None
    <3> QED
      BY <2>2, <3>1, <3>2 DEF Open, OpenReturns, OpenFails, sessionVars
  <2>3. ASSUME NEW t \in Request, SyncEnds(t)
        PROVE  task[t].client = session /\ task'[t] # task[t]
    <3>1. PICK r \in Seq(MainMsgs) : Ends(t, r)
      BY <2>3, SyncCases
    <3>2. task[t] # Idle
      BY <2>3 DEF SyncEnds, Idle
    <3> QED
      BY <3>1, <3>2, EndIsOwn
  <2>4. ASSUME NEW t \in Request, SubmitReturns(t) PROVE FALSE
    BY <2>4 DEF SubmitReturns, Invoke, Reject, sessionVars
  <2>5. CASE MainReceives
    BY <2>5 DEF MainReceives, sessionVars
  <2>6. ASSUME NEW t \in Request, InvokeReturns(t) PROVE FALSE
    BY <2>6 DEF InvokeReturns, sessionVars
  <2>7. CASE TokenExpires
    BY <2>7 DEF TokenExpires
  <2>8. CASE Dispose
    BY <2>8 DEF Dispose
  <2>9. ASSUME NEW t \in Request, TimeOut(t) \/ \E k \in Kinds : SendRequest(t, k) PROVE FALSE
    BY <2>9 DEF TimeOut, SendRequest, sessionVars
  <2> QED
    BY <2>1, <2>2, <2>3, <2>4, <2>5, <2>6, <2>7, <2>8, <2>9 DEF Next, WorkerStep, MainStep
<1> QED
  BY <1>1, WorkerInvariant, SafetyPart, PTL DEF LateFailuresAreHarmless

=============================================================================
