------------------------- MODULE MutationOutboxProofs -------------------------
(***************************************************************************)
(* Proofs about MutationOutbox, for any set of mutations, executors and     *)
(* refreshes and any bound on attempts.                                     *)
(***************************************************************************)
EXTENDS MutationOutbox, TLAPS

\* The states of a run that has claimed an attempt and not yet lost track of it.
Owning == {"call", "await", "accepted", "retry", "terminal"}

\* Those of them in which the remote effect is known not to have happened.
Unsent == {"call", "retry", "terminal"}

\* The runs of a refresh carry no mutation, or a keyword mutation.
Refreshing == {"refresh", "fetch", "commit"}

Owner(e, m) == job[e] = m /\ pc[e] \in Owning

NoWire(m) == \A r \in wire : r.m # m

\* Where an actor is determines what it works on, and bounds its refresh.
ControlOK ==
    \A e \in Actor :
        /\ pc[e] \notin {"idle"} \cup Refreshing => job[e] \in Mutation /\ e \in Executor
        /\ pc[e] \in Refreshing => job[e] \in Keyword \cup {None}
        /\ pc[e] = "evidence" => job[e] \in Keyword
        /\ e \in Refresher => job[e] = None
        /\ pc[e] = "idle" => fetch[e].tries = 0
        /\ pc[e] = "refresh" => fetch[e].tries < 2

TypeInv == TypeOK /\ ControlOK

\* One owner per mutation; nothing is sent before an attempt is claimed nor
\* after it was given up.
OwnershipOK(m) ==
    /\ \A e, f \in Actor : Owner(e, m) /\ Owner(f, m) => e = f
    /\ \A e \in Actor : Owner(e, m) =>
           row[m].status \in {"inFlight", "confirmed", "removed"}
    /\ row[m].status \in {"unstaged", "pending", "retrying", "failedTerminal"} =>
           effect[m] = 0 /\ NoWire(m)

\* How the wire and the server stand, by where the owner is.
WireOK(m) ==
    /\ effect[m] \in {0, 1}
    /\ effect[m] = 1 => NoWire(m)
    /\ \A r, q \in wire : r.m = m /\ q.m = m => r = q
    /\ \A e \in Actor : job[e] = m =>
           /\ pc[e] \in Unsent => effect[m] = 0 /\ NoWire(m)
           /\ pc[e] = "await" => /\ effect[m] = 0
                                 /\ \A r \in wire : r.m = m => r = RequestOf(e)
           /\ pc[e] \in {"accepted", "confirm"} => effect[m] = 1

ReportOK(m) == Reported(m) => effect[m] = 1

OnceOK(m) == OwnershipOK(m) /\ WireOK(m) /\ ReportOK(m)

IInv == TypeInv /\ \A m \in Once : OnceOK(m)

(***************************************************************************)
(* Type correctness and control.                                            *)
(***************************************************************************)
\* The domain functions of pending-mutation.ts return well-formed lifecycles.
LEMMA LifecycleTypes ==
    ASSUME NEW r \in Row
    PROVE  /\ StartMutationAttempt(r) \in Row
           /\ ScheduleMutationRetry(r) \in Row
           /\ ConfirmMutation(r) \in Row
           /\ FailMutationTerminal(r) \in Row
           /\ RemoveMutation(r) \in Row
BY DEF Row, Status, StartMutationAttempt, ScheduleMutationRetry, ConfirmMutation,
       FailMutationTerminal, RemoveMutation

\* So do an absent row and the lifecycle of a freshly staged mutation.
LEMMA ConstantRows == Absent \in Row /\ PendingLifecycle \in Row
BY DEF Row, Status, Absent, PendingLifecycle

\* The refresh record of an actor that refreshes nothing is well formed.
LEMMA NoFetchType == NoFetch \in Fetch /\ NoFetch.tries = 0
BY DEF NoFetch, Fetch, Flag

\* An empty queue with idle actors has its types, and no run owns a mutation it
\* has not read.
LEMMA TypeInit == Init => TypeInv
<1> SUFFICES ASSUME Init PROVE TypeInv
  OBVIOUS
<1>1. TypeOK
  BY ConstantRows, NoFetchType DEF Init, TypeOK, PC, Flag
<1>2. ControlOK
  BY NoFetchType DEF Init, ControlOK, Refreshing
<1> QED
  BY <1>1, <1>2 DEF TypeInv

\* Every action keeps the types, and keeps each run's control state consistent
\* with what it holds: a run that will write a row has a mutation to write, and
\* the second try of a refresh is its last.
LEMMA TypeStep == TypeInv /\ [Next]_vars => TypeInv'
<1> SUFFICES ASSUME TypeInv, [Next]_vars PROVE TypeInv'
  OBVIOUS
<1> USE DEF TypeInv, TypeOK, ControlOK, Mutation, Once, Executor, Actor
<1>1. ASSUME NEW m \in Mutation, StageSend(m) PROVE TypeInv'
  BY <1>1, LifecycleTypes, ConstantRows, NoFetchType, WantAssumption DEF StageSend,
       Insert, mailVars, PC, Refreshing, Fetch, Flag
<1>2. ASSUME NEW m \in Mutation, StageMembership(m) PROVE TypeInv'
  BY <1>2, LifecycleTypes, ConstantRows, NoFetchType, WantAssumption DEF
       StageMembership, Insert, mailVars, PC, Refreshing, Fetch, Flag
<1>3. ASSUME NEW m \in Mutation, StageKeyword(m) PROVE TypeInv'
  BY <1>3, LifecycleTypes, ConstantRows, NoFetchType, WantAssumption DEF StageKeyword,
       Insert, mailVars, PC, Refreshing, Fetch, Flag
<1>4. ASSUME NEW e \in Executor, NEW m \in Mutation, RunClaim(e, m) PROVE TypeInv'
  BY <1>4, KindsDisjoint, ActorsDisjoint DEF RunClaim, Begin, Goto, Startable,
       mailVars, PC, Refreshing, Fetch, Flag
<1>5. ASSUME NEW e \in Executor, NEW m \in Mutation, RunReconcile(e, m) PROVE TypeInv'
  BY <1>5, KindsDisjoint, ActorsDisjoint DEF RunReconcile, Begin, Goto, Startable,
       mailVars, PC, Refreshing, Fetch, Flag
<1>6. ASSUME NEW e \in Executor, NEW m \in Mutation, RunCleanup(e, m) PROVE TypeInv'
  BY <1>6, KindsDisjoint, ActorsDisjoint DEF RunCleanup, Begin, Goto, Startable,
       mailVars, PC, Refreshing, Fetch, Flag
<1>7. ASSUME NEW e \in Executor, NEW m \in Mutation, WorkerClaim(e, m) PROVE TypeInv'
  BY <1>7, KindsDisjoint, ActorsDisjoint DEF WorkerClaim, Begin, Goto, Startable,
       mailVars, PC, Refreshing, Fetch, Flag
<1>8. ASSUME NEW e \in Refresher, StartRefresh(e) PROVE TypeInv'
  BY <1>8, ActorsDisjoint DEF StartRefresh, Goto, mailVars, PC, Refreshing, Fetch, Flag
<1>9. ASSUME NEW e \in Actor, Claim(e) PROVE TypeInv'
  BY <1>9, LifecycleTypes, ConstantRows, NoFetchType, KindsDisjoint, ActorsDisjoint
       DEF Claim, Goto, Return, ReplaceIfCurrent, Conflict, IsCurrent, AfterClaim,
       mailVars, PC, Refreshing, Fetch, Flag
<1>10. ASSUME NEW e \in Actor, Call(e) PROVE TypeInv'
  <2>1. pc[e] = "call" /\ RequestOf(e) \in Request
    BY <1>10 DEF Call, RequestOf, Request, Row, Refreshing
  <2> QED
    BY <1>10, <2>1 DEF Call, Goto, mailVars, PC, Refreshing
<1>11. ASSUME NEW e \in Actor, ReplyAccepted(e) PROVE TypeInv'
  BY <1>11, LifecycleTypes, ConstantRows, NoFetchType, KindsDisjoint, ActorsDisjoint
       DEF ReplyAccepted, Goto, Return, mailVars, PC, Refreshing, Fetch, Flag
<1>12. ASSUME NEW e \in Actor, ReplyKnownFailure(e) PROVE TypeInv'
  <2>1. PICK where \in {"retry", "terminal"} :
            \/ pc' = [pc EXCEPT ![e] = where] /\ UNCHANGED connected
            \/ connected' = FALSE /\ pc' = [CancelAwaiting EXCEPT ![e] = where]
    BY <1>12 DEF ReplyKnownFailure, Goto
  <2>2. CancelAwaiting \in [Actor -> PC]
    BY DEF CancelAwaiting, PC
  <2>3. pc' \in [Actor -> PC] /\ connected' \in BOOLEAN
    BY <2>1, <2>2 DEF PC
  <2>4. pc[e] = "await" /\ wire' \subseteq wire /\ UNCHANGED <<row, job, exp, effect, mailVars, fetch>>
    BY <1>12 DEF ReplyKnownFailure
  <2>5. \A x \in Actor :
            \/ pc'[x] = pc[x]
            \/ pc'[x] = "cancelled" /\ pc[x] \in {"await", "accepted"}
            \/ x = e /\ pc'[x] \in {"retry", "terminal"}
    <3>1. \A x \in Actor :
              \/ CancelAwaiting[x] = pc[x]
              \/ /\ CancelAwaiting[x] = "cancelled"
                 /\ pc[x] \in {"await", "accepted"}
      BY DEF CancelAwaiting
    <3>2. CASE pc' = [pc EXCEPT ![e] = where]
      BY <2>1, <3>2
    <3>3. CASE pc' = [CancelAwaiting EXCEPT ![e] = where]
      BY <2>1, <2>2, <3>1, <3>3
    <3> QED
      BY <2>1, <3>2, <3>3
  <2>6. ControlOK'
    BY <2>4, <2>5 DEF Refreshing
  <2> QED
    BY <2>3, <2>4, <2>6 DEF mailVars
<1>13. ASSUME NEW e \in Actor, ReplyUnknown(e) PROVE TypeInv'
  BY <1>13, LifecycleTypes, ConstantRows, NoFetchType, KindsDisjoint, ActorsDisjoint
       DEF ReplyUnknown, Goto, Return, mailVars, PC, Refreshing, Fetch, Flag
<1>14. ASSUME NEW e \in Actor, SettleConfirm(e) PROVE TypeInv'
  BY <1>14, LifecycleTypes, ConstantRows, NoFetchType, KindsDisjoint, ActorsDisjoint
       DEF SettleConfirm, Goto, Return, ReplaceIfCurrent, Conflict, IsCurrent,
       mailVars, PC, Refreshing, Fetch, Flag
<1>15. ASSUME NEW e \in Actor, SettleRetry(e) PROVE TypeInv'
  BY <1>15, LifecycleTypes, ConstantRows, NoFetchType, KindsDisjoint, ActorsDisjoint
       DEF SettleRetry, Goto, Return, ReplaceIfCurrent, Conflict, IsCurrent, mailVars,
       PC, Refreshing, Fetch, Flag
<1>16. ASSUME NEW e \in Actor, SettleTerminal(e) PROVE TypeInv'
  BY <1>16, LifecycleTypes, ConstantRows, NoFetchType, KindsDisjoint, ActorsDisjoint
       DEF SettleTerminal, Goto, Return, ReplaceIfCurrent, Conflict, IsCurrent,
       mailVars, PC, Refreshing, Fetch, Flag
<1>17. ASSUME NEW e \in Actor, RemoveConfirmed(e) PROVE TypeInv'
  BY <1>17, LifecycleTypes, ConstantRows, NoFetchType, KindsDisjoint, ActorsDisjoint
       DEF RemoveConfirmed, Goto, Return, mailVars, PC, Refreshing, Fetch, Flag
<1>18. ASSUME NEW e \in Actor, Reconcile(e) PROVE TypeInv'
  BY <1>18, LifecycleTypes, ConstantRows, NoFetchType, KindsDisjoint, ActorsDisjoint
       DEF Reconcile, Goto, Return, mailVars, PC, Refreshing, Fetch, Flag
<1>19. ASSUME NEW e \in Actor, RefreshReadCursor(e) PROVE TypeInv'
  BY <1>19, LifecycleTypes, ConstantRows, NoFetchType, KindsDisjoint, ActorsDisjoint
       DEF RefreshReadCursor, Goto, Return, mailVars, PC, Refreshing, Fetch, Flag
<1>20. ASSUME NEW e \in Actor, RefreshFetch(e) PROVE TypeInv'
  BY <1>20, LifecycleTypes, ConstantRows, NoFetchType, KindsDisjoint, ActorsDisjoint
       DEF RefreshFetch, Goto, Return, mailVars, PC, Refreshing, Fetch, Flag
<1>21. ASSUME NEW e \in Actor, RefreshCommit(e) PROVE TypeInv'
  BY <1>21, LifecycleTypes, ConstantRows, NoFetchType, KindsDisjoint, ActorsDisjoint
       DEF RefreshCommit, Goto, Return, mailVars, PC, Refreshing, Fetch, Flag
<1>22. ASSUME NEW e \in Actor, Evidence(e) PROVE TypeInv'
  BY <1>22, LifecycleTypes, ConstantRows, NoFetchType, KindsDisjoint, ActorsDisjoint
       DEF Evidence, Goto, Return, mailVars, PC, Refreshing, Fetch, Flag
<1>23. ASSUME NEW e \in Actor, StorageFails(e) PROVE TypeInv'
  BY <1>23, LifecycleTypes, ConstantRows, NoFetchType, KindsDisjoint, ActorsDisjoint
       DEF StorageFails, Goto, Return, mailVars, PC, Refreshing, Fetch, Flag
<1>24. ASSUME NEW r \in wire, ServerApply(r) PROVE TypeInv'
  BY <1>24, WantAssumption DEF ServerApply, Applied, NoteServer, RequestOf, Request,
       mailVars, PC, Refreshing, Fetch, Flag
<1>25. ASSUME NEW r \in wire, ServerLose(r) PROVE TypeInv'
  BY <1>25, WantAssumption DEF ServerLose, mailVars, PC, Refreshing, Fetch, Flag
<1>26. ASSUME NEW value \in Flag, ExternalChange(value) PROVE TypeInv'
  BY <1>26 DEF ExternalChange, NoteServer, mailVars, PC, Refreshing, Fetch, Flag
<1>27. CASE Connect
  BY <1>27, ConstantRows, NoFetchType DEF Connect, mailVars, PC, Refreshing, Fetch, Flag
<1>28. CASE Disconnect
  BY <1>28, ConstantRows, NoFetchType DEF Disconnect, CancelAwaiting, mailVars, PC,
       Refreshing, Fetch, Flag
<1>29. CASE Crash
  BY <1>29, ConstantRows, NoFetchType DEF Crash, mailVars, PC, Refreshing, Fetch, Flag
<1>30. CASE UNCHANGED vars
  BY <1>30 DEF vars
<1> QED
  BY <1>1, <1>2, <1>3, <1>4, <1>5, <1>6, <1>7, <1>8, <1>9, <1>10, <1>11, <1>12, <1>13,
       <1>14, <1>15, <1>16, <1>17, <1>18, <1>19, <1>20, <1>21, <1>22, <1>23, <1>24,
       <1>25, <1>26, <1>27, <1>28, <1>29, <1>30 DEF Next, Step

(***************************************************************************)
(* At most one effect per mutation.                                         *)
(***************************************************************************)
\* Nothing was sent and nothing applied before the first mutation is staged.
LEMMA OnceInit == Init => \A m \in Once : OnceOK(m)
BY DEF Init, Once, Mutation, OnceOK, OwnershipOK, WireOK, ReportOK, Owner, Owning,
     Unsent,
       NoWire, Reported, Absent

\* A step that leaves m's row and effect alone, sends nothing, and moves no run
\* of m into a state that says something about m.
LEMMA QuietStep ==
    ASSUME NEW m \in Once, OnceOK(m),
           row'[m] = row[m], effect'[m] = effect[m], wire' \subseteq wire,
           \A x \in Actor :
               job'[x] = m /\ pc'[x] \in Owning \cup {"confirm"} =>
                   job[x] = m /\ pc'[x] = pc[x] /\ exp'[x] = exp[x]
    PROVE  OnceOK(m)'
<1>1. OwnershipOK(m)'
  BY DEF OnceOK, OwnershipOK, Owner, NoWire
<1>2. WireOK(m)'
  BY DEF OnceOK, WireOK, Owning, Unsent, NoWire, RequestOf
<1>3. ReportOK(m)'
  BY DEF OnceOK, ReportOK, Reported
<1> QED
  BY <1>1, <1>2, <1>3 DEF OnceOK

\* Every action keeps the bookkeeping of each once-only mutation: its owner, its
\* requests, what a run is about to report, and the number of its effects.
LEMMA OnceStep == IInv /\ [Next]_vars => \A m \in Once : OnceOK(m)'
<1> SUFFICES ASSUME IInv, [Next]_vars, NEW m \in Once PROVE OnceOK(m)'
  OBVIOUS
<1>a. OnceOK(m) /\ TypeOK /\ ControlOK /\ m \in Mutation
  BY DEF IInv, TypeInv, Once, Mutation
<1>b. m \notin Keyword /\ m # None
  BY KindsDisjoint DEF Once, Mutation
<1>1. ASSUME NEW x \in Mutation, StageSend(x) PROVE OnceOK(m)'
  <2>1. CASE x = m
    BY <1>1, <2>1, <1>a DEF StageSend, Insert, TypeOK, OnceOK, OwnershipOK, WireOK,
         ReportOK, Owner,
       NoWire, Reported, RequestOf, Absent, PendingLifecycle
  <2>2. CASE x # m
    BY <1>1, <2>2, <1>a, <1>b, QuietStep DEF StageSend, Insert, TypeOK
  <2> QED
    BY <2>1, <2>2
<1>2. ASSUME NEW x \in Mutation, StageMembership(x) PROVE OnceOK(m)'
  <2>1. CASE x = m
    BY <1>2, <2>1, <1>a DEF StageMembership, Insert, TypeOK, OnceOK, OwnershipOK,
         WireOK, ReportOK, Owner,
       NoWire, Reported, RequestOf, Absent, PendingLifecycle
  <2>2. CASE x # m
    BY <1>2, <2>2, <1>a, <1>b, QuietStep DEF StageMembership, Insert, TypeOK
  <2> QED
    BY <2>1, <2>2
<1>3. ASSUME NEW x \in Mutation, StageKeyword(x) PROVE OnceOK(m)'
  BY <1>3, <1>a, <1>b, QuietStep DEF StageKeyword, Insert, TypeOK
<1>4. ASSUME NEW e \in Executor, NEW x \in Mutation, RunClaim(e, x) PROVE OnceOK(m)'
  BY <1>4, <1>a, <1>b, QuietStep DEF RunClaim, Begin, Goto, TypeOK, Owning, Executor,
       Actor
<1>5. ASSUME NEW e \in Executor, NEW x \in Mutation, RunReconcile(e, x) PROVE OnceOK(m)'
  BY <1>5, <1>a, <1>b, QuietStep DEF RunReconcile, Begin, Goto, TypeOK, Owning,
       Executor, Actor
<1>6. ASSUME NEW e \in Executor, NEW x \in Mutation, RunCleanup(e, x) PROVE OnceOK(m)'
  BY <1>6, <1>a, <1>b, QuietStep DEF RunCleanup, Begin, Goto, TypeOK, Owning,
       Executor, Actor
<1>7. ASSUME NEW e \in Executor, NEW x \in Mutation, WorkerClaim(e, x) PROVE OnceOK(m)'
  BY <1>7, <1>a, <1>b, QuietStep DEF WorkerClaim, Begin, Goto, TypeOK, Owning,
       Executor, Actor
<1>8. ASSUME NEW e \in Refresher, StartRefresh(e) PROVE OnceOK(m)'
  BY <1>8, <1>a, <1>b, QuietStep DEF StartRefresh, Goto, TypeOK, Owning, Actor
<1>9. ASSUME NEW e \in Actor, Claim(e) PROVE OnceOK(m)'
  <2> DEFINE next == StartMutationAttempt(exp[e])
  <2>1. CASE Conflict(e, next)
    BY <1>9, <2>1, <1>a, QuietStep DEF Claim, Conflict, Return, Goto, TypeOK, Owning
  <2>2. CASE ReplaceIfCurrent(e, next) /\ job[e] # m
    BY <1>9, <2>2, <1>a, QuietStep DEF Claim, Conflict, ReplaceIfCurrent, Return,
         Goto, TypeOK, Owning
  <2>3. CASE ReplaceIfCurrent(e, next) /\ job[e] = m
    <3>1. row[m].status \in {"pending", "retrying"} /\ row'[m].status = "inFlight"
      BY <2>3, <1>a DEF ReplaceIfCurrent, IsCurrent, ValidTransition, PendingLifecycle,
         StartMutationAttempt, TypeOK
    <3>2. effect[m] = 0 /\ NoWire(m) /\ \A x \in Actor : ~Owner(x, m)
      BY <3>1, <1>a DEF OnceOK, OwnershipOK
    <3>3. UNCHANGED <<wire, effect>> /\ pc'[e] \in Unsent \cup {"idle"}
      BY <1>9, <1>a, <2>3 DEF Claim, Conflict, ReplaceIfCurrent, Return, Goto,
           AfterClaim, Unsent, TypeOK
    <3>4. \A x \in Actor : x # e => pc'[x] = pc[x] /\ job'[x] = job[x]
      BY <1>9, <1>a, <2>3 DEF Claim, Conflict, ReplaceIfCurrent, Return, Goto, TypeOK
    <3>5. OwnershipOK(m)'
      BY <3>1, <3>2, <3>3, <3>4 DEF OwnershipOK, Owner
    <3>6. WireOK(m)'
      BY <1>a, <3>2, <3>3, <3>4 DEF OnceOK, WireOK, Owner, Owning, Unsent, NoWire
    <3> QED
      BY <3>1, <3>5, <3>6 DEF OnceOK, ReportOK, Reported
  <2> QED
    BY <1>9, <2>1, <2>2, <2>3 DEF Claim
<1>10. ASSUME NEW e \in Actor, Call(e) PROVE OnceOK(m)'
  <2>1. CASE job[e] # m
    <3>1. OwnershipOK(m)'
      BY <1>10, <1>a, <2>1 DEF Call, Goto, TypeOK, OnceOK, OwnershipOK, Owner, Owning,
           NoWire, RequestOf
    <3>2. WireOK(m)'
      BY <1>10, <1>a, <2>1 DEF Call, Goto, TypeOK, OnceOK, WireOK, Unsent, NoWire,
           RequestOf
    <3> QED
      BY <1>10, <1>a, <3>1, <3>2 DEF Call, OnceOK, ReportOK, Reported
  <2>2. CASE job[e] = m
    <3>1. /\ effect[m] = 0 /\ NoWire(m) /\ Owner(e, m)
          /\ \A x \in Actor : Owner(x, m) => x = e
      BY <1>10, <1>a, <2>2 DEF Call, OnceOK, OwnershipOK, WireOK, Unsent, Owner, Owning
    <3>2. /\ UNCHANGED <<row, job, exp, effect>>
          /\ \A x \in Actor : x # e => pc'[x] = pc[x]
          /\ \/ pc'[e] = "await" /\ wire' = wire \cup {RequestOf(e)}
             \/ pc'[e] = "retry" /\ wire' = wire
      BY <1>10, <1>a DEF Call, Goto, TypeOK
    <3>3. OwnershipOK(m)'
      BY <1>a, <3>1, <3>2 DEF OnceOK, OwnershipOK, Owner, Owning
    <3>4. WireOK(m)'
      BY <1>a, <2>2, <3>1, <3>2 DEF OnceOK, WireOK, Owner, Owning, Unsent, NoWire,
           RequestOf
    <3> QED
      BY <1>a, <3>2, <3>3, <3>4 DEF OnceOK, ReportOK, Reported
  <2> QED
    BY <2>1, <2>2
<1>11. ASSUME NEW e \in Actor, ReplyAccepted(e) PROVE OnceOK(m)'
  <2>1. UNCHANGED <<row, wire, effect>> /\ pc[e] = "accepted"
    BY <1>11 DEF ReplyAccepted
  <2>2. \/ Goto(e, "confirm") /\ UNCHANGED <<job, exp>>
        \/ Return(e)
    BY <1>11 DEF ReplyAccepted
  <2>3. CASE Return(e)
    BY <1>a, QuietStep, <2>1, <2>3 DEF Return, Goto, TypeOK, Owning
  <2>4. CASE Goto(e, "confirm") /\ UNCHANGED <<job, exp>>
    BY <1>a, <2>1, <2>4 DEF Goto, TypeOK, OnceOK, OwnershipOK, WireOK, ReportOK,
         Owner, Owning, Unsent,
       NoWire, Reported, RequestOf
  <2> QED
    BY <2>2, <2>3, <2>4
<1>12. ASSUME NEW e \in Actor, ReplyKnownFailure(e) PROVE OnceOK(m)'
  <2>1. /\ pc[e] = "await" /\ pc'[e] \in {"retry", "terminal"}
        /\ wire' = wire \ {RequestOf(e)}
        /\ UNCHANGED <<row, job, exp, effect>>
        /\ \A x \in Actor : x # e => pc'[x] \in {pc[x], "cancelled"}
    BY <1>12, <1>a DEF ReplyKnownFailure, Goto, CancelAwaiting, TypeOK
  <2>2. CASE job[e] # m
    BY <1>a, QuietStep, <2>1, <2>2 DEF Owning
  <2>3. CASE job[e] = m
    <3>1. effect[m] = 0 /\ NoWire(m)'
      BY <1>a, <2>1, <2>3 DEF OnceOK, WireOK, NoWire
    <3>2. \A x \in Actor : Owner(x, m)' => Owner(x, m)
      BY <2>1, <2>3 DEF Owner, Owning
    <3>3. OwnershipOK(m)'
      BY <1>a, <2>1, <3>1, <3>2 DEF OnceOK, OwnershipOK
    <3>4. \A x \in Actor : job'[x] = m => pc'[x] \notin {"await", "accepted", "confirm"}
      BY <1>a, <2>1, <2>3, <3>1 DEF OnceOK, OwnershipOK, WireOK, Owner, Owning
    <3>5. WireOK(m)'
      BY <2>1, <3>1, <3>4 DEF WireOK, NoWire
    <3> QED
      BY <1>a, <2>1, <3>3, <3>5 DEF OnceOK, ReportOK, Reported
  <2> QED
    BY <2>2, <2>3
<1>13. ASSUME NEW e \in Actor, ReplyUnknown(e) PROVE OnceOK(m)'
  BY <1>13, <1>a, <1>b, QuietStep DEF ReplyUnknown, Return, Goto, TypeOK, Owning
<1>14. ASSUME NEW e \in Actor, SettleConfirm(e) PROVE OnceOK(m)'
  <2> DEFINE next == ConfirmMutation(exp[e])
  <2>1. CASE Conflict(e, next)
    BY <1>14, <2>1, <1>a, QuietStep DEF SettleConfirm, Conflict, Return, Goto, TypeOK,
         Owning
  <2>2. CASE ReplaceIfCurrent(e, next) /\ job[e] # m
    BY <1>14, <2>2, <1>a, QuietStep DEF SettleConfirm, Conflict, ReplaceIfCurrent,
         Goto, TypeOK, Owning
  <2>3. CASE ReplaceIfCurrent(e, next) /\ job[e] = m
    <3>1. effect[m] = 1 /\ UNCHANGED <<wire, effect, job, exp>> /\ row'[m].status = "confirmed"
      BY <1>14, <2>3, <1>a DEF SettleConfirm, Conflict, ReplaceIfCurrent,
           ConfirmMutation, TypeOK, Row,
         OnceOK, WireOK
    <3>2. \A x \in Actor : pc'[x] = IF x = e THEN "remove" ELSE pc[x]
      BY <1>14, <2>3, <1>a DEF SettleConfirm, Conflict, ReplaceIfCurrent, Goto, TypeOK
    <3>3. OwnershipOK(m)'
      BY <1>a, <3>1, <3>2 DEF OnceOK, OwnershipOK, Owner, Owning
    <3>4. WireOK(m)'
      BY <1>a, <3>1, <3>2 DEF OnceOK, WireOK, Unsent, NoWire, RequestOf
    <3> QED
      BY <3>1, <3>3, <3>4 DEF OnceOK, ReportOK
  <2> QED
    BY <1>14, <2>1, <2>2, <2>3 DEF SettleConfirm
<1>15. ASSUME NEW e \in Actor, SettleRetry(e) PROVE OnceOK(m)'
  <2> DEFINE next == ScheduleMutationRetry(exp[e])
  <2>1. Return(e) /\ UNCHANGED <<wire, effect>> /\ pc[e] \in Unsent
    BY <1>15 DEF SettleRetry, Conflict, Unsent
  <2>2. CASE Conflict(e, next) \/ (ReplaceIfCurrent(e, next) /\ job[e] # m)
    BY <2>1, <2>2, <1>a, QuietStep DEF Conflict, ReplaceIfCurrent, Return, Goto,
         TypeOK, Owning
  <2>3. CASE ReplaceIfCurrent(e, next) /\ job[e] = m
    <3>1. row'[m].status = "retrying"
      BY <2>3, <1>a DEF ReplaceIfCurrent, ScheduleMutationRetry, TypeOK, Row
    <3>2. effect[m] = 0 /\ NoWire(m) /\ \A x \in Actor : Owner(x, m) => x = e
      BY <2>1, <2>3, <1>a DEF OnceOK, OwnershipOK, WireOK, Owner, Owning, Unsent
    <3>3. \A x \in Actor : ~Owner(x, m)'
      BY <2>1, <3>2, <1>a, <1>b DEF Owner, Owning, Return, Goto, TypeOK
    <3>4. OwnershipOK(m)'
      BY <2>1, <3>1, <3>2, <3>3 DEF OwnershipOK, NoWire
    <3>5. WireOK(m)'
      BY <1>a, <1>b, <2>1, <3>2, <3>3 DEF OnceOK, WireOK, Owner, Owning, Unsent,
           NoWire, Return, Goto, TypeOK
    <3> QED
      BY <3>1, <3>4, <3>5 DEF OnceOK, ReportOK, Reported
  <2> QED
    BY <1>15, <2>2, <2>3 DEF SettleRetry
<1>16. ASSUME NEW e \in Actor, SettleTerminal(e) PROVE OnceOK(m)'
  <2> DEFINE next == FailMutationTerminal(exp[e])
  <2>1. Return(e) /\ UNCHANGED <<wire, effect>> /\ pc[e] \in Unsent
    BY <1>16 DEF SettleTerminal, Conflict, Unsent
  <2>2. CASE Conflict(e, next) \/ (ReplaceIfCurrent(e, next) /\ job[e] # m)
    BY <2>1, <2>2, <1>a, QuietStep DEF Conflict, ReplaceIfCurrent, Return, Goto,
         TypeOK, Owning
  <2>3. CASE ReplaceIfCurrent(e, next) /\ job[e] = m
    <3>1. row'[m].status = "failedTerminal"
      BY <2>3, <1>a DEF ReplaceIfCurrent, FailMutationTerminal, TypeOK, Row
    <3>2. effect[m] = 0 /\ NoWire(m) /\ \A x \in Actor : Owner(x, m) => x = e
      BY <2>1, <2>3, <1>a DEF OnceOK, OwnershipOK, WireOK, Owner, Owning, Unsent
    <3>3. \A x \in Actor : ~Owner(x, m)'
      BY <2>1, <3>2, <1>a, <1>b DEF Owner, Owning, Return, Goto, TypeOK
    <3>4. OwnershipOK(m)'
      BY <2>1, <3>1, <3>2, <3>3 DEF OwnershipOK, NoWire
    <3>5. WireOK(m)'
      BY <1>a, <1>b, <2>1, <3>2, <3>3 DEF OnceOK, WireOK, Owner, Owning, Unsent,
           NoWire, Return, Goto, TypeOK
    <3> QED
      BY <3>1, <3>4, <3>5 DEF OnceOK, ReportOK, Reported
  <2> QED
    BY <1>16, <2>2, <2>3 DEF SettleTerminal
<1>17. ASSUME NEW e \in Actor, RemoveConfirmed(e) PROVE OnceOK(m)'
  <2>1. Return(e) /\ UNCHANGED <<wire, effect>>
    BY <1>17 DEF RemoveConfirmed
  <2>2. CASE row'[m] = row[m]
    BY <1>a, QuietStep, <2>1, <2>2 DEF Return, Goto, TypeOK, Owning
  <2>3. CASE row'[m] # row[m]
    <3>1. row[m].status = "confirmed" /\ row'[m].status = "removed"
      BY <1>17, <1>a, <2>3 DEF RemoveConfirmed, RemoveMutation, TypeOK, Row
    <3>2. \A x \in Actor : pc'[x] = (IF x = e THEN "idle" ELSE pc[x])
                           /\ (x # e => job'[x] = job[x] /\ exp'[x] = exp[x])
      BY <1>a, <2>1 DEF Return, Goto, TypeOK
    <3>3. OwnershipOK(m)'
      BY <1>a, <3>1, <3>2, <2>1 DEF OnceOK, OwnershipOK, Owner, Owning
    <3>4. WireOK(m)'
      BY <1>a, <3>1, <3>2, <2>1 DEF OnceOK, WireOK, Unsent, NoWire, RequestOf
    <3> QED
      BY <1>a, <2>1, <3>1, <3>3, <3>4 DEF OnceOK, ReportOK, Reported
  <2> QED
    BY <2>2, <2>3
<1>18. ASSUME NEW e \in Actor, Reconcile(e) PROVE OnceOK(m)'
  <2>1. UNCHANGED <<row, wire, effect>> /\ pc[e] \notin Owning
    BY <1>18 DEF Reconcile, Owning
  <2>2. CASE Return(e)
    BY <1>a, QuietStep, <2>1, <2>2 DEF Return, Goto, TypeOK, Owning
  <2>3. CASE Found(e) /\ Goto(e, "confirm") /\ UNCHANGED <<job, exp>>
    <3>1. job[e] = m => effect[m] = 1
      BY <1>a, <2>3 DEF Found, OnceOK, WireOK
    <3>2. \A x \in Actor : pc'[x] = IF x = e THEN "confirm" ELSE pc[x]
      BY <1>a, <2>3 DEF Goto, TypeOK
    <3>3. OwnershipOK(m)'
      BY <1>a, <2>1, <2>3, <3>2 DEF OnceOK, OwnershipOK, Owner, Owning, NoWire
    <3>4. WireOK(m)'
      BY <1>a, <2>1, <2>3, <3>1, <3>2 DEF OnceOK, WireOK, Unsent, NoWire, RequestOf
    <3> QED
      BY <1>a, <2>1, <3>3, <3>4 DEF OnceOK, ReportOK, Reported
  <2> QED
    BY <1>18, <2>2, <2>3 DEF Reconcile
<1>19. ASSUME NEW e \in Actor, RefreshReadCursor(e) PROVE OnceOK(m)'
  BY <1>19, <1>a, <1>b, QuietStep DEF RefreshReadCursor, Return, Goto, TypeOK, Owning
<1>20. ASSUME NEW e \in Actor, RefreshFetch(e) PROVE OnceOK(m)'
  BY <1>20, <1>a, <1>b, QuietStep DEF RefreshFetch, Return, Goto, TypeOK, Owning
<1>21. ASSUME NEW e \in Actor, RefreshCommit(e) PROVE OnceOK(m)'
  BY <1>21, <1>a, <1>b, QuietStep DEF RefreshCommit, Return, Goto, TypeOK, Owning
<1>22. ASSUME NEW e \in Actor, Evidence(e) PROVE OnceOK(m)'
  <2>1. job[e] # m
    BY <1>22, <1>a, <1>b DEF Evidence, ControlOK
  <2>2. UNCHANGED <<row, job, exp, wire, effect>> /\ \A x \in Actor : x # e => pc'[x] = pc[x]
    BY <1>22, <1>a DEF Evidence, Goto, TypeOK
  <2> QED
    BY <1>a, QuietStep, <2>1, <2>2
<1>23. ASSUME NEW e \in Actor, StorageFails(e) PROVE OnceOK(m)'
  BY <1>23, <1>a, <1>b, QuietStep DEF StorageFails, Return, Goto, TypeOK, Owning
<1>24. ASSUME NEW r \in wire, ServerApply(r) PROVE OnceOK(m)'
  <2>1. r \in Request /\ r.by \in Actor /\ UNCHANGED <<row, job, exp>> /\ wire' = wire \ {r}
    BY <1>24, <1>a DEF ServerApply, TypeOK, Request, Actor
  <2>2. \A x \in Actor : pc'[x] = IF x = r.by /\ pc[x] = "await" /\ RequestOf(x) = r
                                  THEN "accepted" ELSE pc[x]
    BY <1>24, <1>a, <2>1 DEF ServerApply, TypeOK
  <2>3. CASE r.m # m
    <3>1. effect'[m] = effect[m]
      BY <1>24, <1>a, <2>3 DEF ServerApply, TypeOK
    <3>2. \A x \in Actor : job[x] = m => pc'[x] = pc[x]
      BY <2>2, <2>3 DEF RequestOf
    <3> QED
      BY <1>a, QuietStep, <2>1, <3>1, <3>2
  <2>4. CASE r.m = m
    <3>1. effect[m] = 0 /\ effect'[m] = 1 /\ NoWire(m)'
      BY <1>24, <1>a, <2>1, <2>4 DEF ServerApply, TypeOK, OnceOK, WireOK, NoWire
    <3>2. \A x \in Actor : job[x] = m =>
              pc[x] \notin Unsent /\ (pc[x] = "await" => r = RequestOf(x) /\ x = r.by)
      BY <1>a, <2>4 DEF OnceOK, WireOK, NoWire, RequestOf
    <3>3. row[m].status \notin {"unstaged", "pending", "retrying", "failedTerminal"}
      BY <1>a, <2>4 DEF OnceOK, OwnershipOK, NoWire
    <3>4. OwnershipOK(m)'
      BY <1>a, <2>1, <2>2, <3>3 DEF OnceOK, OwnershipOK, Owner, Owning
    <3>5. WireOK(m)'
      BY <1>a, <2>1, <2>2, <3>1, <3>2 DEF WireOK, Unsent, NoWire
    <3> QED
      BY <1>a, <2>1, <3>1, <3>4, <3>5 DEF OnceOK, ReportOK
  <2> QED
    BY <2>3, <2>4
<1>25. ASSUME NEW r \in wire, ServerLose(r) PROVE OnceOK(m)'
  BY <1>25, <1>a, <1>b, QuietStep DEF ServerLose
<1>26. ASSUME NEW value \in Flag, ExternalChange(value) PROVE OnceOK(m)'
  BY <1>26, <1>a, <1>b, QuietStep DEF ExternalChange
<1>27. CASE Connect
  BY <1>27, <1>a, <1>b, QuietStep DEF Connect
<1>28. CASE Disconnect
  BY <1>28, <1>a, <1>b, QuietStep DEF Disconnect, CancelAwaiting, TypeOK, Owning
<1>29. CASE Crash
  BY <1>29, <1>a, <1>b, QuietStep DEF Crash, Owning
<1>30. CASE UNCHANGED vars
  BY <1>30, <1>a, <1>b, QuietStep DEF vars
<1> QED
  BY <1>1, <1>2, <1>3, <1>4, <1>5, <1>6, <1>7, <1>8, <1>9, <1>10, <1>11, <1>12, <1>13,
       <1>14, <1>15, <1>16, <1>17, <1>18, <1>19, <1>20, <1>21, <1>22, <1>23, <1>24,
       <1>25, <1>26, <1>27, <1>28, <1>29, <1>30 DEF Next, Step

(***************************************************************************)
(* The theorems about Spec.                                                 *)
(***************************************************************************)
\* The inductive invariant holds in every reachable state: no interleaving of
\* runs, crashes and late applications breaks the ownership of an attempt.
THEOREM InductiveInvariant == Spec => []IInv
<1>1. Init => IInv
  BY TypeInit, OnceInit DEF IInv
<1>2. IInv /\ [Next]_vars => IInv'
  BY TypeStep, OnceStep DEF IInv
<1> QED
  BY <1>1, <1>2, PTL DEF Spec

\* Every variable of the outbox keeps its type, whatever interleaves.
THEOREM TypeCorrect == Spec => []TypeOK
<1>1. IInv => TypeOK
  BY DEF IInv, TypeInv
<1> QED
  BY <1>1, InductiveInvariant, PTL

\* No submission and no MOVE is applied twice.
THEOREM AtMostOnce == Spec => []NoReplay
<1>1. IInv => NoReplay
  BY DEF IInv, OnceOK, WireOK, NoReplay
<1> QED
  BY <1>1, InductiveInvariant, PTL

\* What a run reports as confirmed was applied, and once.
THEOREM HonestReports == Spec => []ConfirmedMeansApplied
<1>1. IInv => ConfirmedMeansApplied
  BY DEF IInv, OnceOK, OwnershipOK, ReportOK, NoWire, ConfirmedMeansApplied
<1> QED
  BY <1>1, InductiveInvariant, PTL

\* What failed terminally was not applied and has no request left that could be.
THEOREM TerminalFailuresAreTrue == Spec => []TerminalMeansNotApplied
<1>1. IInv => TerminalMeansNotApplied
  BY DEF IInv, OnceOK, OwnershipOK, ReportOK, NoWire, TerminalMeansNotApplied
<1> QED
  BY <1>1, InductiveInvariant, PTL

(***************************************************************************)
(* Refinement of DeliveryContract.                                          *)
(***************************************************************************)
phaseBar == [m \in Once |-> Phase(m)]

\* A step that changes the phase of no mutation stutters in the contract.
LEMMA PhaseUnchanged ==
    ASSUME \A m \in Once : row'[m] = row[m] /\ effect'[m] = effect[m]
    PROVE  UNCHANGED phaseBar
<1>1. \A m \in Once : Phase(m)' = Phase(m)
  BY DEF Phase, Reported
<1> QED
  BY <1>1 DEF phaseBar

\* A step that changes the phase of one mutation is a Move of the contract.
LEMMA PhaseMove ==
    ASSUME NEW m \in Once, NEW from, NEW to,
           Phase(m) = from, Phase(m)' = to,
           \A x \in Once \ {m} : row'[x] = row[x] /\ effect'[x] = effect[x]
    PROVE  Contract!Move(m, from, to)
<1>1. \A x \in Once \ {m} : Phase(x)' = Phase(x)
  BY DEF Phase, Reported
<1> QED
  BY <1>1 DEF Contract!Move

\* Before anything is staged the contract is in its initial state.
LEMMA DeliveryInit == Init => Contract!Init
BY DEF Init, Contract!Init, Phase, Reported, Absent, Once, Mutation

\* Every step of the outbox is Accept, Deliver, Complete or Abandon of one
\* mutation in the contract, or changes no phase.
LEMMA DeliveryStep == IInv /\ [Next]_vars => [Contract!Next]_phaseBar
<1> SUFFICES ASSUME IInv, [Next]_vars PROVE Contract!Next \/ UNCHANGED phaseBar
  OBVIOUS
<1>a. TypeOK /\ Once \subseteq Mutation
  BY DEF IInv, TypeInv, Once, Mutation
<1>q. UNCHANGED <<row, effect>> => UNCHANGED phaseBar
  BY PhaseUnchanged
<1>1. ASSUME NEW m \in Mutation, StageSend(m) PROVE Contract!Next \/ UNCHANGED phaseBar
  <2>1. m \in Once /\ row[m] = Absent /\ row'[m] = PendingLifecycle /\ effect'[m] = effect[m]
    BY <1>1, <1>a DEF StageSend, Insert, TypeOK, Once
  <2>2. Phase(m) = "unstaged" /\ Phase(m)' = "open"
    BY <2>1 DEF IInv, OnceOK, OwnershipOK, Phase, Reported, Absent, PendingLifecycle
  <2>3. Contract!Accept(m)
    BY <1>1, <1>a, <2>1, <2>2, PhaseMove DEF StageSend, Insert, TypeOK, Contract!Accept
  <2> QED
    BY <2>1, <2>3 DEF Contract!Next
<1>2. ASSUME NEW m \in Mutation, StageMembership(m) PROVE Contract!Next \/ UNCHANGED phaseBar
  <2>1. m \in Once /\ row[m] = Absent /\ row'[m] = PendingLifecycle /\ effect'[m] = effect[m]
    BY <1>2, <1>a DEF StageMembership, Insert, TypeOK, Once
  <2>2. Phase(m) = "unstaged" /\ Phase(m)' = "open"
    BY <2>1 DEF IInv, OnceOK, OwnershipOK, Phase, Reported, Absent, PendingLifecycle
  <2>3. Contract!Accept(m)
    BY <1>2, <1>a, <2>1, <2>2, PhaseMove DEF StageMembership, Insert, TypeOK,
         Contract!Accept
  <2> QED
    BY <2>1, <2>3 DEF Contract!Next
<1>3. ASSUME NEW m \in Mutation, StageKeyword(m) PROVE Contract!Next \/ UNCHANGED phaseBar
  BY <1>3, <1>a, KindsDisjoint, PhaseUnchanged DEF StageKeyword, Insert, TypeOK, Once
<1>4. ASSUME NEW e \in Executor, NEW m \in Mutation, RunClaim(e, m) PROVE Contract!Next \/ UNCHANGED phaseBar
  BY <1>4, <1>q DEF RunClaim
<1>5. ASSUME NEW e \in Executor, NEW m \in Mutation, RunReconcile(e, m) PROVE Contract!Next \/ UNCHANGED phaseBar
  BY <1>5, <1>q DEF RunReconcile
<1>6. ASSUME NEW e \in Executor, NEW m \in Mutation, RunCleanup(e, m) PROVE Contract!Next \/ UNCHANGED phaseBar
  BY <1>6, <1>q DEF RunCleanup
<1>7. ASSUME NEW e \in Executor, NEW m \in Mutation, WorkerClaim(e, m) PROVE Contract!Next \/ UNCHANGED phaseBar
  BY <1>7, <1>q DEF WorkerClaim
<1>8. ASSUME NEW e \in Refresher, StartRefresh(e) PROVE Contract!Next \/ UNCHANGED phaseBar
  BY <1>8, <1>q DEF StartRefresh
<1>9. ASSUME NEW e \in Actor, Call(e) PROVE Contract!Next \/ UNCHANGED phaseBar
  BY <1>9, <1>q DEF Call
<1>10. ASSUME NEW e \in Actor, ReplyAccepted(e) PROVE Contract!Next \/ UNCHANGED phaseBar
  BY <1>10, <1>q DEF ReplyAccepted
<1>11. ASSUME NEW e \in Actor, ReplyKnownFailure(e) PROVE Contract!Next \/ UNCHANGED phaseBar
  BY <1>11, <1>q DEF ReplyKnownFailure
<1>12. ASSUME NEW e \in Actor, ReplyUnknown(e) PROVE Contract!Next \/ UNCHANGED phaseBar
  BY <1>12, <1>q DEF ReplyUnknown
<1>13. ASSUME NEW e \in Actor, Reconcile(e) PROVE Contract!Next \/ UNCHANGED phaseBar
  BY <1>13, <1>q DEF Reconcile
<1>14. ASSUME NEW e \in Actor, RefreshReadCursor(e) PROVE Contract!Next \/ UNCHANGED phaseBar
  BY <1>14, <1>q DEF RefreshReadCursor
<1>15. ASSUME NEW e \in Actor, RefreshFetch(e) PROVE Contract!Next \/ UNCHANGED phaseBar
  BY <1>15, <1>q DEF RefreshFetch
<1>16. ASSUME NEW e \in Actor, RefreshCommit(e) PROVE Contract!Next \/ UNCHANGED phaseBar
  BY <1>16, <1>q DEF RefreshCommit
<1>17. ASSUME NEW e \in Actor, Evidence(e) PROVE Contract!Next \/ UNCHANGED phaseBar
  BY <1>17, <1>q DEF Evidence
<1>18. ASSUME NEW e \in Actor, StorageFails(e) PROVE Contract!Next \/ UNCHANGED phaseBar
  BY <1>18, <1>q DEF StorageFails
<1>19. ASSUME NEW e \in Actor, Claim(e) PROVE Contract!Next \/ UNCHANGED phaseBar
  <2> DEFINE next == StartMutationAttempt(exp[e])
  <2>1. UNCHANGED effect /\ (UNCHANGED row \/ ReplaceIfCurrent(e, next))
    BY <1>19 DEF Claim, Conflict
  <2>2. CASE ReplaceIfCurrent(e, next) /\ job[e] \in Once
    <3>0. PICK m \in Once : m = job[e]
      BY <2>2
    <3>1. row'[m] = next /\ row[m] = exp[e] /\ \A x \in Once \ {m} : row'[x] = row[x]
      BY <2>2, <3>0, <1>a DEF ReplaceIfCurrent, IsCurrent, TypeOK
    <3>2. row[m].status \in {"pending", "inFlight", "retrying"}
          /\ row'[m].status \in {"pending", "inFlight", "retrying"}
      BY <2>2, <3>0, <3>1, <1>a DEF ReplaceIfCurrent, IsCurrent, ValidTransition,
           PendingLifecycle,
         StartMutationAttempt, ScheduleMutationRetry, TypeOK, Row
    <3>3. \A x \in Once : Phase(x)' = Phase(x)
      BY <2>1, <3>1, <3>2 DEF Phase, Reported
    <3> QED
      BY <3>3 DEF phaseBar
  <2>3. CASE ReplaceIfCurrent(e, next) /\ job[e] \notin Once
    BY <2>1, <2>3, <1>a, PhaseUnchanged DEF ReplaceIfCurrent, TypeOK
  <2> QED
    BY <2>1, <2>2, <2>3, <1>q
<1>20. ASSUME NEW e \in Actor, SettleRetry(e) PROVE Contract!Next \/ UNCHANGED phaseBar
  <2> DEFINE next == ScheduleMutationRetry(exp[e])
  <2>1. UNCHANGED effect /\ (UNCHANGED row \/ ReplaceIfCurrent(e, next))
    BY <1>20 DEF SettleRetry, Conflict
  <2>2. CASE ReplaceIfCurrent(e, next) /\ job[e] \in Once
    <3>0. PICK m \in Once : m = job[e]
      BY <2>2
    <3>1. row'[m] = next /\ row[m] = exp[e] /\ \A x \in Once \ {m} : row'[x] = row[x]
      BY <2>2, <3>0, <1>a DEF ReplaceIfCurrent, IsCurrent, TypeOK
    <3>2. row[m].status \in {"pending", "inFlight", "retrying"}
          /\ row'[m].status \in {"pending", "inFlight", "retrying"}
      BY <2>2, <3>0, <3>1, <1>a DEF ReplaceIfCurrent, IsCurrent, ValidTransition,
           PendingLifecycle,
         StartMutationAttempt, ScheduleMutationRetry, TypeOK, Row
    <3>3. \A x \in Once : Phase(x)' = Phase(x)
      BY <2>1, <3>1, <3>2 DEF Phase, Reported
    <3> QED
      BY <3>3 DEF phaseBar
  <2>3. CASE ReplaceIfCurrent(e, next) /\ job[e] \notin Once
    BY <2>1, <2>3, <1>a, PhaseUnchanged DEF ReplaceIfCurrent, TypeOK
  <2> QED
    BY <2>1, <2>2, <2>3, <1>q
<1>21. ASSUME NEW e \in Actor, SettleConfirm(e) PROVE Contract!Next \/ UNCHANGED phaseBar
  <2> DEFINE next == ConfirmMutation(exp[e])
  <2>1. UNCHANGED effect /\ (UNCHANGED row \/ ReplaceIfCurrent(e, next))
    BY <1>21 DEF SettleConfirm, Conflict
  <2>2. CASE ReplaceIfCurrent(e, next) /\ job[e] \in Once
    <3>0. PICK m \in Once : m = job[e]
      BY <2>2
    <3>1. row'[m] = next /\ row[m] = exp[e] /\ \A x \in Once \ {m} : row'[x] = row[x]
      BY <2>2, <3>0, <1>a DEF ReplaceIfCurrent, IsCurrent, TypeOK
    <3>2. row[m].status = "inFlight" /\ row'[m].status = "confirmed" /\ effect[m] = 1
      BY <1>21, <2>2, <3>0, <3>1, <1>a DEF SettleConfirm, ReplaceIfCurrent, IsCurrent,
           ValidTransition, PendingLifecycle,
         ConfirmMutation, TypeOK, Row, IInv, TypeInv, ControlOK, OnceOK, WireOK, Unsent
    <3>3. Phase(m) = "delivered" /\ Phase(m)' = "done"
      BY <2>1, <3>2 DEF Phase, Reported
    <3>4. Contract!Complete(m)
      BY <2>1, <2>2, <3>1, <3>3, <1>a, PhaseMove DEF TypeOK, Contract!Complete
    <3> QED
      BY <2>2, <3>4 DEF Contract!Next
  <2>3. CASE ReplaceIfCurrent(e, next) /\ job[e] \notin Once
    BY <2>1, <2>3, <1>a, PhaseUnchanged DEF ReplaceIfCurrent, TypeOK
  <2> QED
    BY <2>1, <2>2, <2>3, <1>q
<1>22. ASSUME NEW e \in Actor, SettleTerminal(e) PROVE Contract!Next \/ UNCHANGED phaseBar
  <2> DEFINE next == FailMutationTerminal(exp[e])
  <2>1. UNCHANGED effect /\ (UNCHANGED row \/ ReplaceIfCurrent(e, next))
    BY <1>22 DEF SettleTerminal, Conflict
  <2>2. CASE ReplaceIfCurrent(e, next) /\ job[e] \in Once
    <3>0. PICK m \in Once : m = job[e]
      BY <2>2
    <3>1. row'[m] = next /\ row[m] = exp[e] /\ \A x \in Once \ {m} : row'[x] = row[x]
      BY <2>2, <3>0, <1>a DEF ReplaceIfCurrent, IsCurrent, TypeOK
    <3>2. row[m].status = "inFlight" /\ row'[m].status = "failedTerminal" /\ effect[m] = 0
      BY <1>22, <2>2, <3>0, <3>1, <1>a DEF SettleTerminal, ReplaceIfCurrent,
           IsCurrent, ValidTransition, PendingLifecycle,
         FailMutationTerminal, TypeOK, Row, IInv, TypeInv, ControlOK, OnceOK, WireOK, Unsent
    <3>3. Phase(m) = "open" /\ Phase(m)' = "failed"
      BY <2>1, <3>2 DEF Phase, Reported
    <3>4. Contract!Abandon(m)
      BY <2>1, <2>2, <3>1, <3>3, <1>a, PhaseMove DEF TypeOK, Contract!Abandon
    <3> QED
      BY <2>2, <3>4 DEF Contract!Next
  <2>3. CASE ReplaceIfCurrent(e, next) /\ job[e] \notin Once
    BY <2>1, <2>3, <1>a, PhaseUnchanged DEF ReplaceIfCurrent, TypeOK
  <2> QED
    BY <2>1, <2>2, <2>3, <1>q
<1>23. ASSUME NEW e \in Actor, RemoveConfirmed(e) PROVE Contract!Next \/ UNCHANGED phaseBar
  <2>1. UNCHANGED effect /\ \A m \in Once : row'[m] = row[m] \/ (Reported(m) /\ Reported(m)')
    BY <1>23, <1>a DEF RemoveConfirmed, RemoveMutation, Reported, TypeOK, Row
  <2>2. \A m \in Once : Phase(m)' = Phase(m)
    BY <2>1 DEF Phase, Reported
  <2> QED
    BY <2>2 DEF phaseBar
<1>24. ASSUME NEW r \in wire, ServerApply(r) PROVE Contract!Next \/ UNCHANGED phaseBar
  <2>1. CASE r.m \notin Once
    BY <1>24, <2>1, <1>a, PhaseUnchanged DEF ServerApply, TypeOK
  <2>2. CASE r.m \in Once
    <3> DEFINE m == r.m
    <3>1. effect[m] = 0 /\ row[m].status = "inFlight"
      BY <1>a, <2>2 DEF IInv, OnceOK, OwnershipOK, WireOK, ReportOK, Reported, NoWire,
           TypeOK, Row, Status
    <3>2. effect'[m] = 1 /\ UNCHANGED row /\ \A x \in Once \ {m} : effect'[x] = effect[x]
      BY <1>24, <1>a, <2>2, <3>1 DEF ServerApply, TypeOK
    <3>3. Phase(m) = "open" /\ Phase(m)' = "delivered"
      BY <3>1, <3>2 DEF Phase, Reported
    <3>4. Contract!Deliver(m)
      BY <2>2, <3>2, <3>3, PhaseMove DEF Contract!Deliver
    <3> QED
      BY <2>2, <3>4 DEF Contract!Next
  <2> QED
    BY <2>1, <2>2
<1>25. ASSUME NEW r \in wire, ServerLose(r) PROVE Contract!Next \/ UNCHANGED phaseBar
  BY <1>25, <1>q DEF ServerLose
<1>26. ASSUME NEW value \in Flag, ExternalChange(value) PROVE Contract!Next \/ UNCHANGED phaseBar
  BY <1>26, <1>q DEF ExternalChange
<1>27. CASE Connect
  BY <1>27, <1>q DEF Connect
<1>28. CASE Disconnect
  BY <1>28, <1>q DEF Disconnect
<1>29. CASE Crash
  BY <1>29, <1>q DEF Crash
<1>30. CASE UNCHANGED vars
  BY <1>30, <1>q DEF vars
<1> QED
  BY <1>1, <1>2, <1>3, <1>4, <1>5, <1>6, <1>7, <1>8, <1>9, <1>10, <1>11, <1>12, <1>13,
       <1>14, <1>15, <1>16, <1>17, <1>18, <1>19, <1>20, <1>21, <1>22, <1>23, <1>24,
       <1>25, <1>26, <1>27, <1>28, <1>29, <1>30 DEF Next, Step

\* Every behaviour of the executors, the table and the wire is one of
\* DeliveryContract: delivered at most once, done only if delivered, failed only
\* if never delivered, and no way back.
THEOREM ImplementsDelivery == Spec => Delivery
<1>1. IInv /\ [Next]_vars => [Contract!Next]_[m \in Once |-> Phase(m)]
  BY DeliveryStep DEF phaseBar
<1> QED
  BY <1>1, DeliveryInit, InductiveInvariant, PTL DEF Spec, Delivery, Contract!Spec

=============================================================================
