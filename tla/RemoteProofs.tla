---------------------------- MODULE RemoteProofs ----------------------------
(***************************************************************************)
(* Proofs about the remote side: the session that a user binds to an        *)
(* account (RemoteLifecycle), for any number of connects, refreshes and     *)
(* users, whatever accounts the servers offer; and the writes of the JMAP   *)
(* adapter (JmapWrites), for any number of attempts and any values of the   *)
(* property that a patch changes.                                           *)
(***************************************************************************)
EXTENDS RemoteLifecycle, JmapWrites, FiniteSetTheorems, TLAPS

-----------------------------------------------------------------------------
(* The session of an account. *)

\* The connect holds an open session and has not decided about it.
Deciding == {"reading", "registering", "registered", "conflict"}

Activated == {"activating", "lookup", "done"}

Pcs == Deciding \cup Activated \cup {"new", "authenticating", "opening", "closing"}

TypeInv ==
    /\ generation \in Nat /\ pendingConnect \in Nat /\ capGeneration \in Nat
    /\ active \in Connect \cup {None}
    /\ auth \in {"anonymous", "authenticating", "authenticated", "expired"}
    /\ cap \in [session : Connect \cup {None}, generation : Nat]
    /\ account \in Remote \cup {None}
    /\ session \in [Connect -> {"none", "open", "closed", "expired"}]
    /\ call \in [Connect -> [pc : Pcs, generation : Nat, capGeneration : Nat]]
    /\ refresh \in [Refresh -> [pc : {"idle", "sync", "close"}, session : Connect \cup {None}]]

\* A pending connect excludes a session, and a status that claims one.
PendingInv == pendingConnect # 0 => active = None /\ auth = "authenticating"

\* Each call knows where it is: generation 0 is nobody's, an undecided session
\* is open, a registered one belongs to a connect that activated it.
CallInv ==
    /\ \A c \in Connect : call[c].pc # "new" => call[c].generation # 0
    /\ \A c \in Connect : call[c].pc \in Deciding => session[c] = "open"
    /\ active # None => call[active].pc \in Activated
    /\ \A r \in Refresh : refresh[r].pc = "sync" => refresh[r].session # None
    /\ \A c \in Connect : session[c] = "expired" => call[c].pc \in Activated

\* Only a server that shows one account registers it.
RegisteringInv ==
    \A c \in Connect : call[c].pc = "registering" => Cardinality(Offers[c]) = 1

CapInv == cap # NoCap => cap.session \in Connect

\* Only the connect whose session is registered, or has expired, can still publish
\* a capability.
GenerationInv ==
    /\ \A c \in Connect : call[c].capGeneration <= capGeneration
    /\ \A c \in Connect :
          call[c].pc \in {"activating", "lookup"} /\ call[c].capGeneration = capGeneration =>
              disposed \/ active = c \/ session[c] = "expired"
    /\ cap # NoCap => disposed \/ cap.session = active \/ session[cap.session] = "expired"

SessionInv == /\ PendingInv /\ CallInv /\ RegisteringInv /\ CapInv
              /\ StatusMatchesSession /\ NoLeakedSession /\ ServesBoundAccount

\* The record sets of the model: every variable keeps its type.
LEMMA TypeStep == TypeInv /\ [Next]_vars => TypeInv'
<1> SUFFICES ASSUME TypeInv, [Next]_vars PROVE TypeInv'
  OBVIOUS
<1> USE OffersAssumption
    DEF TypeInv, Pcs, Deciding, Activated, NoCap, Goto, core, capability
<1>1. ASSUME NEW c \in Connect, ConnectStart(c) PROVE TypeInv'
  BY <1>1 DEF ConnectStart
<1>2. ASSUME NEW c \in Connect, ConnectOpen(c) PROVE TypeInv'
  <2>1. CASE Goto(c, "opening") /\ UNCHANGED core
    BY <1>2, <2>1 DEF ConnectOpen
  <2>2. CASE ConnectRejects(c)
    BY <1>2, <2>2 DEF ConnectOpen, ConnectRejects
  <2> QED
    BY <1>2, <2>1, <2>2 DEF ConnectOpen
<1>3. ASSUME NEW c \in Connect, OpenReturns(c) PROVE TypeInv'
  <2>1. CASE Goto(c, "reading") /\ session' = [session EXCEPT ![c] = "open"] /\ UNCHANGED core
    BY <1>3, <2>1 DEF OpenReturns
  <2>2. CASE Abort(c)
    BY <1>3, <2>2 DEF OpenReturns, Abort, Close
  <2>3. CASE ConnectRejects(c) /\ UNCHANGED session
    BY <1>3, <2>3 DEF OpenReturns, ConnectRejects
  <2> QED
    BY <1>3, <2>1, <2>2, <2>3 DEF OpenReturns
<1>4. ASSUME NEW c \in Connect, ReadAccount(c) PROVE TypeInv'
  <2>1. CASE Activate(c)
    BY <1>4, <2>1 DEF ReadAccount, Activate
  <2>2. CASE Goto(c, "registering") /\ UNCHANGED <<core, session>>
    BY <1>4, <2>2 DEF ReadAccount
  <2>3. CASE Abort(c)
    <3>1. session' \in [Connect -> {"none", "open", "closed", "expired"}]
      BY <2>3 DEF Abort, Close
    <3>2. call' \in [Connect -> [pc : Pcs, generation : Nat, capGeneration : Nat]]
      BY <2>3 DEF Abort
    <3> QED
      BY <1>4, <2>3, <3>1, <3>2 DEF ReadAccount, Abort
  <2> QED
    BY <1>4, <2>1, <2>2, <2>3 DEF ReadAccount
<1>5. ASSUME NEW c \in Connect, RegisterCommit(c) PROVE TypeInv'
  <2>1. account' \in Remote \cup {None}
    BY <1>5 DEF RegisterCommit
  <2>2. call' \in [Connect -> [pc : Pcs, generation : Nat, capGeneration : Nat]]
    BY <1>5 DEF RegisterCommit
  <2> QED
    BY <1>5, <2>1, <2>2 DEF RegisterCommit
<1>6. ASSUME NEW c \in Connect, RegisterReturns(c) PROVE TypeInv'
  <2>1. CASE Activate(c)
    BY <1>6, <2>1 DEF RegisterReturns, Activate
  <2>2. CASE Abort(c)
    <3>1. session' \in [Connect -> {"none", "open", "closed", "expired"}]
      BY <2>2 DEF Abort, Close
    <3>2. call' \in [Connect -> [pc : Pcs, generation : Nat, capGeneration : Nat]]
      BY <2>2 DEF Abort
    <3> QED
      BY <1>6, <2>2, <3>1, <3>2 DEF RegisterReturns, Abort
  <2> QED
    BY <1>6, <2>1, <2>2 DEF RegisterReturns
<1>7. ASSUME NEW c \in Connect, CloseReturns(c) PROVE TypeInv'
  BY <1>7 DEF CloseReturns, ConnectRejects
<1>8. ASSUME NEW c \in Connect, LookupBinding(c) PROVE TypeInv'
  BY <1>8 DEF LookupBinding
<1>9. ASSUME NEW c \in Connect, PublishCapability(c) PROVE TypeInv'
  BY <1>9 DEF PublishCapability
<1>10. ASSUME NEW r \in Refresh, RefreshStart(r) PROVE TypeInv'
  BY <1>10 DEF RefreshStart
<1>11. ASSUME NEW r \in Refresh, RefreshReturns(r) PROVE TypeInv'
  BY <1>11 DEF RefreshReturns, RefreshRejects, RefreshDone, Invalidate, IsCurrent
<1>12. ASSUME NEW r \in Refresh, RefreshExpires(r) PROVE TypeInv'
  <2>1. session' \in [Connect -> {"none", "open", "closed", "expired"}]
    BY <1>12 DEF RefreshExpires
  <2>2. refresh' \in [Refresh -> [pc : {"idle", "sync", "close"}, session : Connect \cup {None}]]
    BY <1>12 DEF RefreshExpires
  <2> QED
    BY <1>12, <2>1, <2>2 DEF RefreshExpires, IsCurrent
<1>13. ASSUME NEW r \in Refresh, RefreshCloses(r) PROVE TypeInv'
  BY <1>13 DEF RefreshCloses, RefreshRejects, RefreshDone, Invalidate
<1>14. ASSUME NEW u \in User, UseStart(u) PROVE TypeInv'
  BY <1>14 DEF UseStart
<1>15. ASSUME NEW u \in User, UseReturns(u) PROVE TypeInv'
  BY <1>15 DEF UseReturns, UseDone
<1>16. ASSUME NEW u \in User, UseExpires(u) PROVE TypeInv'
  BY <1>16 DEF UseExpires, UseDone, Invalidate
<1>17. CASE Disconnect
  BY <1>17 DEF Disconnect, Invalidate, Close
<1>18. CASE Dispose
  BY <1>18 DEF Dispose, Close
<1>19. CASE UNCHANGED vars
  BY <1>19 DEF vars
<1> QED
  BY <1>1, <1>2, <1>3, <1>4, <1>5, <1>6, <1>7, <1>8, <1>9, <1>10, <1>11,
     <1>12, <1>13, <1>14, <1>15, <1>16, <1>17, <1>18, <1>19 DEF Next, ConnectStep

\* Registration binds an unbound row and finds a bound one unchanged: the server
\* shows exactly one account.
LEMMA ReboundStep ==
    ASSUME TypeInv, RegisteringInv, [Next]_vars PROVE account # None => account' = account
<1> DEFINE Kept == account # None => account' = account
<1> SUFFICES Kept
  OBVIOUS
<1>1. ASSUME NEW c \in Connect, ConnectStart(c) PROVE Kept
  BY <1>1 DEF ConnectStart
<1>2. ASSUME NEW c \in Connect, ConnectOpen(c) PROVE Kept
  BY <1>2 DEF ConnectOpen
<1>3. ASSUME NEW c \in Connect, OpenReturns(c) PROVE Kept
  BY <1>3 DEF OpenReturns
<1>4. ASSUME NEW c \in Connect, ReadAccount(c) PROVE Kept
  BY <1>4 DEF ReadAccount
<1>5. ASSUME NEW c \in Connect, RegisterCommit(c) PROVE Kept
  <2>1. PICK a : Offers[c] = {a}
    BY <1>5, FS_Singleton, FiniteOffersAssumption DEF RegisterCommit, RegisteringInv
  <2> QED
    BY <1>5, <2>1 DEF RegisterCommit
<1>6. ASSUME NEW c \in Connect, RegisterReturns(c) PROVE Kept
  BY <1>6 DEF RegisterReturns
<1>7. ASSUME NEW c \in Connect, CloseReturns(c) PROVE Kept
  BY <1>7 DEF CloseReturns
<1>8. ASSUME NEW c \in Connect, LookupBinding(c) PROVE Kept
  BY <1>8 DEF LookupBinding
<1>9. ASSUME NEW c \in Connect, PublishCapability(c) PROVE Kept
  BY <1>9 DEF PublishCapability
<1>10. ASSUME NEW r \in Refresh, RefreshStart(r) PROVE Kept
  BY <1>10 DEF RefreshStart
<1>11. ASSUME NEW r \in Refresh, RefreshReturns(r) PROVE Kept
  BY <1>11 DEF RefreshReturns
<1>12. ASSUME NEW r \in Refresh, RefreshExpires(r) PROVE Kept
  BY <1>12 DEF RefreshExpires
<1>13. ASSUME NEW r \in Refresh, RefreshCloses(r) PROVE Kept
  BY <1>13 DEF RefreshCloses
<1>14. ASSUME NEW u \in User, UseStart(u) PROVE Kept
  BY <1>14 DEF UseStart
<1>15. ASSUME NEW u \in User, UseReturns(u) PROVE Kept
  BY <1>15 DEF UseReturns
<1>16. ASSUME NEW u \in User, UseExpires(u) PROVE Kept
  BY <1>16 DEF UseExpires
<1>17. CASE Disconnect
  BY <1>17 DEF Disconnect
<1>18. CASE Dispose
  BY <1>18 DEF Dispose
<1>19. CASE UNCHANGED vars
  BY <1>19 DEF vars
<1> QED
  BY <1>1, <1>2, <1>3, <1>4, <1>5, <1>6, <1>7, <1>8, <1>9, <1>10, <1>11,
     <1>12, <1>13, <1>14, <1>15, <1>16, <1>17, <1>18, <1>19 DEF Next, ConnectStep

\* Status, registry and sessions change together.
LEMMA SessionStep ==
    ASSUME TypeInv, SessionInv, [Next]_vars
    PROVE  /\ PendingInv' /\ CallInv' /\ RegisteringInv' /\ CapInv'
           /\ StatusMatchesSession' /\ NoLeakedSession'
<1> DEFINE Main == /\ PendingInv /\ CallInv /\ RegisteringInv /\ CapInv
                   /\ StatusMatchesSession /\ NoLeakedSession
<1> SUFFICES Main'
  OBVIOUS
<1> USE NoneAssumption
    DEF TypeInv, SessionInv, PendingInv, CallInv, RegisteringInv, CapInv, StatusMatchesSession,
        NoLeakedSession, Pcs, Deciding, Activated, NoCap, Goto, core, capability
<1>1. ASSUME NEW c \in Connect, ConnectStart(c) PROVE Main'
  BY <1>1 DEF ConnectStart
<1>2. ASSUME NEW c \in Connect, ConnectOpen(c) PROVE Main'
  <2>1. CASE Goto(c, "opening") /\ UNCHANGED core
    BY <1>2, <2>1 DEF ConnectOpen
  <2>2. CASE ConnectRejects(c)
    BY <1>2, <2>2 DEF ConnectOpen, ConnectRejects, HasConnectAuthority
  <2> QED
    BY <1>2, <2>1, <2>2 DEF ConnectOpen
<1>3. ASSUME NEW c \in Connect, OpenReturns(c) PROVE Main'
  <2>1. CASE /\ HasConnectAuthority(c) /\ Goto(c, "reading") /\ UNCHANGED core
             /\ session' = [session EXCEPT ![c] = "open"]
    BY <1>3, <2>1 DEF OpenReturns
  <2>2. CASE Abort(c)
    BY <1>3, <2>2 DEF OpenReturns, Abort, Close
  <2>3. CASE ConnectRejects(c) /\ UNCHANGED session
    BY <1>3, <2>3 DEF OpenReturns, ConnectRejects, HasConnectAuthority
  <2> QED
    BY <1>3, <2>1, <2>2, <2>3 DEF OpenReturns
<1>4. ASSUME NEW c \in Connect, ReadAccount(c) PROVE Main'
  <2>1. CASE HasConnectAuthority(c) /\ Activate(c)
    BY <1>4, <2>1 DEF ReadAccount, Activate, HasConnectAuthority
  <2>2. CASE /\ Cardinality(Offers[c]) = 1 /\ Goto(c, "registering")
             /\ UNCHANGED <<core, session>>
    BY <1>4, <2>2 DEF ReadAccount
  <2>3. CASE Abort(c)
    BY <1>4, <2>3 DEF ReadAccount, Abort, Close
  <2> QED
    BY <1>4, <2>1, <2>2, <2>3 DEF ReadAccount
<1>5. ASSUME NEW c \in Connect, RegisterCommit(c) PROVE Main'
  <2>1. CASE Goto(c, "registered")
    BY <1>5, <2>1 DEF RegisterCommit
  <2>2. CASE Goto(c, "conflict")
    BY <1>5, <2>2 DEF RegisterCommit
  <2> QED
    BY <1>5, <2>1, <2>2 DEF RegisterCommit
<1>6. ASSUME NEW c \in Connect, RegisterReturns(c) PROVE Main'
  <2>1. CASE HasConnectAuthority(c) /\ Activate(c)
    BY <1>6, <2>1 DEF RegisterReturns, Activate, HasConnectAuthority
  <2>2. CASE Abort(c)
    BY <1>6, <2>2 DEF RegisterReturns, Abort, Close
  <2> QED
    BY <1>6, <2>1, <2>2 DEF RegisterReturns
<1>7. ASSUME NEW c \in Connect, CloseReturns(c) PROVE Main'
  BY <1>7 DEF CloseReturns, ConnectRejects, HasConnectAuthority
<1>8. ASSUME NEW c \in Connect, LookupBinding(c) PROVE Main'
  BY <1>8 DEF LookupBinding
<1>9. ASSUME NEW c \in Connect, PublishCapability(c) PROVE Main'
  BY <1>9 DEF PublishCapability
<1>10. ASSUME NEW r \in Refresh, RefreshStart(r) PROVE Main'
  BY <1>10 DEF RefreshStart
<1>11. ASSUME NEW r \in Refresh, RefreshReturns(r) PROVE Main'
  BY <1>11 DEF RefreshReturns, RefreshRejects, RefreshDone, Invalidate, IsCurrent
<1>12. ASSUME NEW r \in Refresh, RefreshExpires(r) PROVE Main'
  BY <1>12 DEF RefreshExpires, Close, IsCurrent
<1>13. ASSUME NEW r \in Refresh, RefreshCloses(r) PROVE Main'
  BY <1>13 DEF RefreshCloses, RefreshRejects, RefreshDone, Invalidate
<1>14. ASSUME NEW u \in User, UseStart(u) PROVE Main'
  BY <1>14 DEF UseStart
<1>15. ASSUME NEW u \in User, UseReturns(u) PROVE Main'
  BY <1>15 DEF UseReturns, UseDone
<1>16. ASSUME NEW u \in User, UseExpires(u) PROVE Main'
  BY <1>16 DEF UseExpires, UseDone, Invalidate
<1>17. CASE Disconnect
  BY <1>17 DEF Disconnect, Invalidate, Close
<1>18. CASE Dispose
  BY <1>18 DEF Dispose, Close
<1>19. CASE UNCHANGED vars
  BY <1>19 DEF vars
<1> QED
  BY <1>1, <1>2, <1>3, <1>4, <1>5, <1>6, <1>7, <1>8, <1>9, <1>10, <1>11,
     <1>12, <1>13, <1>14, <1>15, <1>16, <1>17, <1>18, <1>19 DEF Next, ConnectStep

\* A session is registered, and a capability published, for the bound account
\* only, and the binding stays.
LEMMA ServesStep ==
    ASSUME TypeInv, SessionInv, [Next]_vars PROVE ServesBoundAccount'
<1>0. account # None => account' = account
  BY ReboundStep DEF SessionInv
<1> USE <1>0, OffersAssumption, NoneAssumption
    DEF TypeInv, SessionInv, CapInv, ServesBoundAccount, NoCap, core, capability
<1>1. ASSUME NEW c \in Connect, ConnectStart(c) PROVE ServesBoundAccount'
  BY <1>1 DEF ConnectStart
<1>2. ASSUME NEW c \in Connect, ConnectOpen(c) PROVE ServesBoundAccount'
  BY <1>2 DEF ConnectOpen, ConnectRejects
<1>3. ASSUME NEW c \in Connect, OpenReturns(c) PROVE ServesBoundAccount'
  BY <1>3 DEF OpenReturns, ConnectRejects, Abort, core
<1>4. ASSUME NEW c \in Connect, ReadAccount(c) PROVE ServesBoundAccount'
  BY <1>4 DEF ReadAccount, Activate, Abort, Close
<1>5. ASSUME NEW c \in Connect, RegisterCommit(c) PROVE ServesBoundAccount'
  BY <1>5 DEF RegisterCommit
<1>6. ASSUME NEW c \in Connect, RegisterReturns(c) PROVE ServesBoundAccount'
  BY <1>6 DEF RegisterReturns, Activate, Abort, Close
<1>7. ASSUME NEW c \in Connect, CloseReturns(c) PROVE ServesBoundAccount'
  BY <1>7 DEF CloseReturns, ConnectRejects
<1>8. ASSUME NEW c \in Connect, LookupBinding(c) PROVE ServesBoundAccount'
  BY <1>8 DEF LookupBinding
<1>9. ASSUME NEW c \in Connect, PublishCapability(c) PROVE ServesBoundAccount'
  BY <1>9 DEF PublishCapability
<1>10. ASSUME NEW r \in Refresh, RefreshStart(r) PROVE ServesBoundAccount'
  BY <1>10 DEF RefreshStart
<1>11. ASSUME NEW r \in Refresh, RefreshReturns(r) PROVE ServesBoundAccount'
  BY <1>11 DEF RefreshReturns, RefreshRejects, RefreshDone, Invalidate, IsCurrent
<1>12. ASSUME NEW r \in Refresh, RefreshExpires(r) PROVE ServesBoundAccount'
  BY <1>12 DEF RefreshExpires, Close, IsCurrent
<1>13. ASSUME NEW r \in Refresh, RefreshCloses(r) PROVE ServesBoundAccount'
  BY <1>13 DEF RefreshCloses, RefreshRejects, RefreshDone, Invalidate
<1>14. ASSUME NEW u \in User, UseStart(u) PROVE ServesBoundAccount'
  BY <1>14 DEF UseStart
<1>15. ASSUME NEW u \in User, UseReturns(u) PROVE ServesBoundAccount'
  BY <1>15 DEF UseReturns, UseDone
<1>16. ASSUME NEW u \in User, UseExpires(u) PROVE ServesBoundAccount'
  BY <1>16 DEF UseExpires, UseDone, Invalidate
<1>17. CASE Disconnect
  BY <1>17 DEF Disconnect, Invalidate, Close
<1>18. CASE Dispose
  BY <1>18 DEF Dispose, Close
<1>19. CASE UNCHANGED vars
  BY <1>19 DEF vars
<1> QED
  BY <1>1, <1>2, <1>3, <1>4, <1>5, <1>6, <1>7, <1>8, <1>9, <1>10, <1>11,
     <1>12, <1>13, <1>14, <1>15, <1>16, <1>17, <1>18, <1>19 DEF Next, ConnectStep

\* Nothing is connected at first.
LEMMA SessionInit == Init => TypeInv /\ SessionInv
<1> SUFFICES ASSUME Init PROVE TypeInv /\ SessionInv
  OBVIOUS
<1> USE DEF Init, NoCap
<1>1. TypeInv
  BY DEF TypeInv, Pcs, Deciding, Activated
<1>2. PendingInv /\ CallInv /\ RegisteringInv /\ CapInv
  BY DEF PendingInv, CallInv, RegisteringInv, CapInv, Deciding, Activated
<1>3. StatusMatchesSession /\ NoLeakedSession /\ ServesBoundAccount
  BY DEF StatusMatchesSession, NoLeakedSession, ServesBoundAccount
<1> QED
  BY <1>1, <1>2, <1>3 DEF SessionInv

\* The three facts together, on every behaviour.
LEMMA SessionAlways == Spec => [](TypeInv /\ SessionInv)
<1>1. TypeInv /\ SessionInv /\ [Next]_vars => (TypeInv /\ SessionInv)'
  BY TypeStep, SessionStep, ServesStep DEF SessionInv
<1> QED
  BY <1>1, SessionInit, PTL DEF Spec

\* However connects, refreshes, disconnects and dispose overlap, "authenticated"
\* is published exactly while an open session is registered.
THEOREM StatusIsHonest == Spec => []StatusMatchesSession
<1>1. SessionInv => StatusMatchesSession
  BY DEF SessionInv
<1> QED
  BY <1>1, SessionAlways, PTL

\* No interleaving leaves a session open that is neither registered nor in the
\* hands of the connect that opened it.
THEOREM SessionsAreClosed == Spec => []NoLeakedSession
<1>1. SessionInv => NoLeakedSession
  BY DEF SessionInv
<1> QED
  BY <1>1, SessionAlways, PTL

\* Whichever connects raced to register the account, the session and the
\* capability serve the remote account it is bound to.
THEOREM BoundAccountIsServed == Spec => []ServesBoundAccount
<1>1. SessionInv => ServesBoundAccount
  BY DEF SessionInv
<1> QED
  BY <1>1, SessionAlways, PTL

\* resolveBinding and register_account never rebind an account row.
THEOREM BindingIsStable == Spec => NeverRebound
<1>1. TypeInv /\ SessionInv /\ [Next]_vars => [account # None => account' = account]_vars
  BY ReboundStep DEF SessionInv
<1> QED
  BY <1>1, SessionAlways, PTL DEF Spec, NeverRebound

\* A connect that lost its session to a disconnect finds the store's generation
\* moved on.
LEMMA GenerationStep ==
    ASSUME TypeInv, SessionInv, GenerationInv, [Next]_vars PROVE GenerationInv'
<1> USE NoneAssumption
    DEF TypeInv, SessionInv, PendingInv, CallInv, CapInv, GenerationInv, Pcs, Deciding,
        Activated, NoCap, Goto, core, capability
<1>1. ASSUME NEW c \in Connect, ConnectStart(c) PROVE GenerationInv'
  BY <1>1 DEF ConnectStart
<1>2. ASSUME NEW c \in Connect, ConnectOpen(c) PROVE GenerationInv'
  <2>1. CASE Goto(c, "opening") /\ UNCHANGED core
    BY <1>2, <2>1 DEF ConnectOpen
  <2>2. CASE ConnectRejects(c)
    BY <1>2, <2>2 DEF ConnectOpen, ConnectRejects
  <2> QED
    BY <1>2, <2>1, <2>2 DEF ConnectOpen
<1>3. ASSUME NEW c \in Connect, OpenReturns(c) PROVE GenerationInv'
  <2>1. CASE Goto(c, "reading") /\ session' = [session EXCEPT ![c] = "open"] /\ UNCHANGED core
    BY <1>3, <2>1 DEF OpenReturns
  <2>2. CASE Abort(c)
    BY <1>3, <2>2 DEF OpenReturns, Abort, Close
  <2>3. CASE ConnectRejects(c) /\ UNCHANGED session
    BY <1>3, <2>3 DEF OpenReturns, ConnectRejects
  <2> QED
    BY <1>3, <2>1, <2>2, <2>3 DEF OpenReturns
<1>4. ASSUME NEW c \in Connect, ReadAccount(c) PROVE GenerationInv'
  <2>1. CASE HasConnectAuthority(c) /\ Activate(c)
    BY <1>4, <2>1 DEF ReadAccount, Activate, HasConnectAuthority
  <2>2. CASE Goto(c, "registering") /\ UNCHANGED <<core, session>>
    BY <1>4, <2>2 DEF ReadAccount
  <2>3. CASE Abort(c)
    BY <1>4, <2>3 DEF ReadAccount, Abort, Close
  <2> QED
    BY <1>4, <2>1, <2>2, <2>3 DEF ReadAccount
<1>5. ASSUME NEW c \in Connect, RegisterCommit(c) PROVE GenerationInv'
  <2>1. CASE Goto(c, "registered")
    BY <1>5, <2>1 DEF RegisterCommit
  <2>2. CASE Goto(c, "conflict")
    BY <1>5, <2>2 DEF RegisterCommit
  <2> QED
    BY <1>5, <2>1, <2>2 DEF RegisterCommit
<1>6. ASSUME NEW c \in Connect, RegisterReturns(c) PROVE GenerationInv'
  <2>1. CASE HasConnectAuthority(c) /\ Activate(c)
    BY <1>6, <2>1 DEF RegisterReturns, Activate, HasConnectAuthority
  <2>2. CASE Abort(c)
    BY <1>6, <2>2 DEF RegisterReturns, Abort, Close
  <2> QED
    BY <1>6, <2>1, <2>2 DEF RegisterReturns
<1>7. ASSUME NEW c \in Connect, CloseReturns(c) PROVE GenerationInv'
  BY <1>7 DEF CloseReturns, ConnectRejects
<1>8. ASSUME NEW c \in Connect, LookupBinding(c) PROVE GenerationInv'
  BY <1>8 DEF LookupBinding
<1>9. ASSUME NEW c \in Connect, PublishCapability(c) PROVE GenerationInv'
  BY <1>9 DEF PublishCapability
<1>10. ASSUME NEW r \in Refresh, RefreshStart(r) PROVE GenerationInv'
  BY <1>10 DEF RefreshStart
<1>11. ASSUME NEW r \in Refresh, RefreshReturns(r) PROVE GenerationInv'
  BY <1>11 DEF RefreshReturns, RefreshRejects, RefreshDone, Invalidate, IsCurrent
<1>12. ASSUME NEW r \in Refresh, RefreshExpires(r) PROVE GenerationInv'
  BY <1>12 DEF RefreshExpires, IsCurrent
<1>13. ASSUME NEW r \in Refresh, RefreshCloses(r) PROVE GenerationInv'
  BY <1>13 DEF RefreshCloses, RefreshRejects, RefreshDone, Invalidate
<1>14. ASSUME NEW u \in User, UseStart(u) PROVE GenerationInv'
  BY <1>14 DEF UseStart
<1>15. ASSUME NEW u \in User, UseReturns(u) PROVE GenerationInv'
  BY <1>15 DEF UseReturns, UseDone
<1>16. ASSUME NEW u \in User, UseExpires(u) PROVE GenerationInv'
  BY <1>16 DEF UseExpires, UseDone, Invalidate
<1>17. CASE Disconnect
  BY <1>17 DEF Disconnect, Invalidate, Close
<1>18. CASE Dispose
  BY <1>18 DEF Dispose, Close
<1>19. CASE UNCHANGED vars
  BY <1>19 DEF vars
<1> QED
  BY <1>1, <1>2, <1>3, <1>4, <1>5, <1>6, <1>7, <1>8, <1>9, <1>10, <1>11,
     <1>12, <1>13, <1>14, <1>15, <1>16, <1>17, <1>18, <1>19 DEF Next, ConnectStep

\* Bodies and mutations use the session that the application registered: every
\* capability whose answers are accepted belongs to it, or to a session that a
\* refresh found expired, however connects, disconnects and expiries overlap.
THEOREM CapabilityIsOfActiveSession == Spec => []CapabilityIsActiveSession
<1>1. Init => GenerationInv
  BY DEF Init, GenerationInv, NoCap
<1>2. TypeInv /\ SessionInv /\ GenerationInv /\ [Next]_vars => GenerationInv'
  BY GenerationStep
<1>3. GenerationInv => CapabilityIsActiveSession
  BY DEF GenerationInv, CapabilityIsActiveSession, CapabilityIsCurrent
<1> QED
  BY <1>1, <1>2, <1>3, SessionAlways, PTL DEF Spec

-----------------------------------------------------------------------------
(* The writes of the JMAP adapter. *)

Entries == {"done", "error", "partial", "absent"} \cup SetErrors

WriteTypeInv ==
    /\ op \in {"send", "patch"}
    /\ status \in {"pending", "inFlight", "retrying", "failedTerminal", "confirmed"}
    /\ at \in {"none", "drafts", "batch", "patch"}
    /\ wire \in Nat /\ drafts \in Nat /\ sent \in Nat
    /\ answer = NoAnswer \/ answer \in [x : Exchanges, first : Entries, second : Entries]
    /\ result \in {NoResult, Resolved} \/ result.outcome \in {"knownNotApplied", "unknown"}

\* A call runs inside a claimed attempt; its answer and its result do not meet.
WriteCallInv ==
    /\ at # "none" => status = "inFlight" /\ result = NoResult
    /\ status # "inFlight" => result = NoResult
    /\ answer # NoAnswer => at \in {"batch", "patch"}
    /\ at \in {"drafts", "batch"} => op = "send"
    /\ at = "patch" => op = "patch"

Unsent == sent = 0 /\ wire = 0

\* What an answer to the batch that arrives says of the server.
AnswerIsTrue ==
    /\ answer.x = "401/403" => sent = 0
    /\ answer.x = "answered" =>
          /\ answer.first = "done" => drafts >= 1
          /\ answer.first # "done" => sent = 0
          /\ answer.second = "done" => sent = 1
          /\ answer.second \in SetErrors \cup {"error"} => sent = 0
          /\ answer.second # "absent"

SendInv == op = "send" =>
    /\ sent + wire <= 1
    /\ status \in {"pending", "retrying"} \/ at = "drafts" => Unsent
    /\ at = "batch" /\ answer = NoAnswer => sent = 0
    /\ at = "batch" /\ answer # NoAnswer => wire = 0 /\ AnswerIsTrue
    /\ result.outcome = "knownNotApplied" => Unsent \/ (untold /\ result.retry = "never")
    /\ result = Resolved \/ status = "confirmed" => sent = 1 /\ drafts >= 1
    /\ status = "failedTerminal" => Unsent \/ untold

\* The property took the new value; nothing gives it another one.
Done == property = change.add

PatchInv == op = "patch" =>
    /\ answer # NoAnswer /\ answer.x = "answered" /\ answer.first \notin SetErrors \cup {"error"} =>
           Done
    /\ result = Resolved \/ status = "confirmed" => untold \/ Done
    /\ change.add \cap change.remove = {}

WriteInv == WriteTypeInv /\ WriteCallInv /\ SendInv /\ PatchInv

(***************************************************************************)
(* The classification of failures.                                          *)
(***************************************************************************)
CallResult(e) == IF e = NoError THEN Resolved ELSE ToRemoteError(e, Outcome(e))

\* fetchJmapRaw: three outcomes of an exchange.
LEMMA FetchCases ==
    ASSUME NEW x \in Exchanges
    PROVE  /\ x = "401/403" => FetchJmapRaw(x) = JmapAuthError
           /\ x = "answered" => FetchJmapRaw(x) = NoError
           /\ x \notin {"401/403", "answered"} => FetchJmapRaw(x) = JmapNetworkError
BY DEF Exchanges, FetchJmapRaw

\* The errors of jmap/errors.ts are told apart by their class.
LEMMA ErrorsDiffer ==
    /\ JmapAuthError # NoError /\ JmapNetworkError # NoError
    /\ JmapSubmissionAmbiguousError # NoError /\ JmapAuthError # JmapNetworkError
    /\ \A t : JmapMethodError(t) # NoError
<1>1. /\ JmapAuthError.class = "auth" /\ JmapNetworkError.class = "network"
      /\ JmapSubmissionAmbiguousError.class = "ambiguous" /\ NoError.class = "none"
      /\ \A t : JmapMethodError(t).class = "method"
  BY DEF JmapAuthError, JmapNetworkError, JmapSubmissionAmbiguousError, NoError,
         JmapMethodError, Jmap
<1> QED
  BY <1>1

\* submitEmail: what it throws for each end of the batch.
LEMMA SubmitCases ==
    ASSUME NEW x \in Exchanges, NEW first \in Entries, NEW second \in Entries
    PROVE  /\ x = "401/403" => SubmitError(x, first, second) = JmapAuthError
           /\ x \notin {"401/403", "answered"} =>
                  SubmitError(x, first, second) = JmapSubmissionAmbiguousError
           /\ x = "answered" /\ first \in SetErrors =>
                  SubmitError(x, first, second) = JmapMethodError(first)
           /\ x = "answered" /\ first \notin SetErrors /\ second \in SetErrors =>
                  SubmitError(x, first, second) = JmapMethodError(second)
           /\ x = "answered" /\ first \notin SetErrors /\ second \notin SetErrors =>
                  SubmitError(x, first, second) =
                      IF first = "done" /\ second = "done" THEN NoError
                      ELSE JmapMethodError("unknown")
<1>1. CASE x = "401/403"
  BY <1>1, FetchCases, ErrorsDiffer DEF SubmitError
<1>2. CASE x \notin {"401/403", "answered"}
  <2>1. FetchJmapRaw(x) = JmapNetworkError
    BY <1>2, FetchCases
  <2> QED
    BY <1>2, <2>1, ErrorsDiffer DEF SubmitError
<1>3. CASE x = "answered"
  <2>1. FetchJmapRaw(x) = NoError
    BY <1>3, FetchCases
  <2>2. CASE first \in SetErrors
    BY <1>3, <2>1, <2>2, ErrorsDiffer DEF SubmitError
  <2>3. CASE first \notin SetErrors /\ second \in SetErrors
    BY <1>3, <2>1, <2>3, ErrorsDiffer DEF SubmitError
  <2>4. CASE first \notin SetErrors /\ second \notin SetErrors
    BY <1>3, <2>1, <2>4, ErrorsDiffer DEF SubmitError
  <2> QED
    BY <1>3, <2>2, <2>3, <2>4
<1> QED
  BY <1>1, <1>2, <1>3

\* patchEmailKeywords and patchEmailMailboxes succeed only on an answer, and
\* only if it has no SetError for the Email.
LEMMA PatchCases ==
    ASSUME NEW x \in Exchanges, NEW entry \in Entries
    PROVE  /\ x # "answered" => PatchError(x, entry) = JmapMethodError("networkOrServerFail")
           /\ x = "answered" /\ entry \in SetErrors => PatchError(x, entry) = JmapMethodError(entry)
           /\ x = "answered" /\ entry \notin SetErrors => PatchError(x, entry) = NoError
<1>1. CASE x = "answered"
  BY <1>1, FetchCases, ErrorsDiffer DEF PatchError
<1>2. CASE x # "answered"
  <2>1. FetchJmapRaw(x) # NoError
    BY <1>2, FetchCases, ErrorsDiffer
  <2> QED
    BY <1>2, <2>1 DEF PatchError
<1> QED
  BY <1>1, <1>2

\* toRemoteError on the errors of a write.
LEMMA RemoteCases ==
    ASSUME NEW o
    PROVE  /\ ToRemoteError(JmapAuthError, o) =
                  RemoteError("auth", "never", "expire", "knownNotApplied")
           /\ ToRemoteError(JmapSubmissionAmbiguousError, o) =
                  RemoteError("network", "reconcile", "keep", "unknown")
           /\ \A t : /\ ToRemoteError(JmapMethodError(t), o).outcome = o
                     /\ ToRemoteError(JmapMethodError(t), o).retry =
                            IF t \in RETRYABLE_METHOD_ERROR_TYPES THEN "safeBackoff" ELSE "never"
<1>1. ToRemoteError(JmapAuthError, o) = RemoteError("auth", "never", "expire", "knownNotApplied")
  BY DEF ToRemoteError, JmapAuthError, Jmap
<1>2. ToRemoteError(JmapSubmissionAmbiguousError, o) =
          RemoteError("network", "reconcile", "keep", "unknown")
  BY DEF ToRemoteError, JmapSubmissionAmbiguousError, Jmap
<1>3. ASSUME NEW t
      PROVE  /\ ToRemoteError(JmapMethodError(t), o).outcome = o
             /\ ToRemoteError(JmapMethodError(t), o).retry =
                    IF t \in RETRYABLE_METHOD_ERROR_TYPES THEN "safeBackoff" ELSE "never"
  <2> DEFINE e == JmapMethodError(t)
  <2>1. e.class = "method" /\ e.type = t
    BY DEF JmapMethodError, Jmap
  <2>2. IsRetryable(e) <=> t \in RETRYABLE_METHOD_ERROR_TYPES
    <3>1. e # JmapNetworkError
      BY <2>1 DEF JmapNetworkError, Jmap
    <3> QED
      BY <2>1, <3>1 DEF IsRetryable
  <2>3. ToRemoteError(e, o) = RemoteError(MethodErrorKind(e),
            IF IsRetryable(e) THEN "safeBackoff" ELSE "never", "keep", o)
    <3> HIDE DEF e
    <3> QED
      BY <2>1 DEF ToRemoteError
  <2> HIDE DEF e
  <2>4. /\ ToRemoteError(e, o).outcome = o
        /\ ToRemoteError(e, o).retry = IF IsRetryable(e) THEN "safeBackoff" ELSE "never"
    BY <2>3 DEF RemoteError
  <2> QED
    BY <2>2, <2>4 DEF e
<1> QED
  BY <1>1, <1>2, <1>3

\* How the end of the batch is classified, against what it says of the server.
LEMMA BatchResult ==
    ASSUME NEW x \in Exchanges, NEW first \in Entries, NEW second \in Entries, op = "send"
    PROVE  LET r == CallResult(SubmitError(x, first, second))
           IN  /\ r = Resolved \/ r.outcome \in {"knownNotApplied", "unknown"}
               /\ r = Resolved => x = "answered" /\ first = "done" /\ second = "done"
               /\ r.outcome = "knownNotApplied" =>
                      \/ r.retry = "never" /\ x = "401/403"
                      \/ x = "answered" /\ (first \in SetErrors \/ second \in SetErrors)
                      \/ /\ r.retry = "never" /\ x = "answered"
                         /\ first # "done" \/ second # "done"
<1> DEFINE e == SubmitError(x, first, second)
           r == CallResult(e)
<1>1. CASE x = "401/403"
  <2>1. e = JmapAuthError
    BY <1>1, SubmitCases
  <2>2. r = RemoteError("auth", "never", "expire", "knownNotApplied")
    BY <2>1, ErrorsDiffer, RemoteCases DEF CallResult
  <2>3. r.retry = "never" /\ r.outcome = "knownNotApplied" /\ r # Resolved
    BY <2>2 DEF RemoteError, Resolved
  <2> QED
    BY <1>1, <2>3
<1>2. CASE x \notin {"401/403", "answered"}
  <2>1. e = JmapSubmissionAmbiguousError
    BY <1>2, SubmitCases
  <2>2. r = RemoteError("network", "reconcile", "keep", "unknown")
    BY <2>1, ErrorsDiffer, RemoteCases DEF CallResult
  <2>3. r.outcome = "unknown" /\ r # Resolved
    BY <2>2 DEF RemoteError, Resolved
  <2> QED
    BY <2>3
<1>3. ASSUME x = "answered", NEW t, e = JmapMethodError(t)
      PROVE  /\ r.outcome = "knownNotApplied" /\ r # Resolved
             /\ t \notin RETRYABLE_METHOD_ERROR_TYPES => r.retry = "never"
  <2>1. Outcome(e) = "knownNotApplied"
    BY <1>3 DEF Outcome, JmapMethodError, Jmap
  <2>2. r = ToRemoteError(e, "knownNotApplied")
    BY <1>3, <2>1, ErrorsDiffer DEF CallResult
  <2>3. r.outcome = "knownNotApplied"
    BY <1>3, <2>2, RemoteCases
  <2>4. t \notin RETRYABLE_METHOD_ERROR_TYPES => r.retry = "never"
    BY <1>3, <2>2, RemoteCases
  <2>5. Resolved.outcome = "applied"
    BY DEF Resolved, RemoteError
  <2> QED
    BY <2>3, <2>4, <2>5
<1>4. CASE x = "answered" /\ (first \in SetErrors \/ second \in SetErrors)
  <2>1. e = JmapMethodError(first) \/ e = JmapMethodError(second)
    BY <1>4, SubmitCases
  <2> HIDE DEF e, r
  <2> QED
    BY <1>3, <1>4, <2>1 DEF e, r
<1>5. CASE x = "answered" /\ first \notin SetErrors /\ second \notin SetErrors
  <2>1. CASE first = "done" /\ second = "done"
    <3>1. e = NoError
      BY <1>5, <2>1, SubmitCases
    <3>2. r = Resolved /\ Resolved.outcome = "applied"
      BY <3>1 DEF CallResult, Resolved, RemoteError
    <3> QED
      BY <1>5, <2>1, <3>2
  <2>2. CASE ~(first = "done" /\ second = "done")
    <3>1. e = JmapMethodError("unknown")
      BY <1>5, <2>2, SubmitCases
    <3>2. r.outcome = "knownNotApplied" /\ r # Resolved /\ r.retry = "never"
      BY <1>3, <1>5, <3>1 DEF RETRYABLE_METHOD_ERROR_TYPES
    <3> QED
      BY <1>5, <2>2, <3>2
  <2> QED
    BY <2>1, <2>2
<1> QED
  BY <1>1, <1>2, <1>4, <1>5

\* A patch is reported done only on an answer without a SetError.
LEMMA PatchResult ==
    ASSUME NEW x \in Exchanges, NEW entry \in Entries, op = "patch"
    PROVE  LET r == CallResult(PatchError(x, entry))
           IN  /\ r = Resolved \/ r.outcome \in {"knownNotApplied", "unknown"}
               /\ r = Resolved => x = "answered" /\ entry \notin SetErrors
<1> DEFINE e == PatchError(x, entry)
           r == CallResult(e)
<1>1. ASSUME NEW t, e = JmapMethodError(t) PROVE r.outcome = "knownNotApplied" /\ r # Resolved
  <2>1. r = ToRemoteError(e, "knownNotApplied")
    BY <1>1, ErrorsDiffer DEF CallResult, Outcome
  <2>2. r.outcome = "knownNotApplied"
    BY <1>1, <2>1, RemoteCases
  <2>3. Resolved.outcome = "applied"
    BY DEF Resolved, RemoteError
  <2> QED
    BY <2>2, <2>3
<1>2. CASE x = "answered" /\ entry \notin SetErrors
  <2>1. e = NoError
    BY <1>2, PatchCases
  <2> QED
    BY <1>2, <2>1 DEF CallResult
<1>3. CASE ~(x = "answered" /\ entry \notin SetErrors)
  <2>1. e = JmapMethodError("networkOrServerFail") \/ e = JmapMethodError(entry)
    BY <1>3, PatchCases
  <2> HIDE DEF e, r
  <2> QED
    BY <1>1, <2>1 DEF e, r
<1> QED
  BY <1>2, <1>3

\* A failed search for Drafts is reported known, whatever it was.
LEMMA DraftsResult ==
    ASSUME NEW x \in Exchanges, NEW entry, DraftsError(x, entry) # NoError
    PROVE  ToRemoteError(DraftsError(x, entry), "knownNotApplied").outcome = "knownNotApplied"
<1> DEFINE e == DraftsError(x, entry)
<1>1. e = JmapAuthError \/ \E t : e = JmapMethodError(t)
  <2>1. \/ FetchJmapRaw(x) = JmapAuthError
        \/ FetchJmapRaw(x) = JmapNetworkError
        \/ FetchJmapRaw(x) = NoError
    BY FetchCases
  <2> QED
    BY <2>1, ErrorsDiffer DEF DraftsError
<1>2. CASE e = JmapAuthError
  BY <1>2, RemoteCases DEF RemoteError
<1>3. ASSUME NEW t, e = JmapMethodError(t)
      PROVE  ToRemoteError(e, "knownNotApplied").outcome = "knownNotApplied"
  BY <1>3, RemoteCases
<1> QED
  BY <1>1, <1>2, <1>3

(***************************************************************************)
(* The inductive step.                                                      *)
(***************************************************************************)
\* The results that are no errors.
LEMMA ResultFields ==
    /\ NoResult.outcome = "none" /\ Resolved.outcome = "applied"
    /\ NoResult # Resolved /\ NoAnswer.x = "none"
BY DEF NoResult, Resolved, RemoteError, NoAnswer

\* An answer on its way is not taken for none.
LEMMA ReplyIsAnswer ==
    ASSUME NEW x \in Exchanges, NEW first \in Entries, NEW second \in Entries
    PROVE  LET a == [x |-> x, first |-> first, second |-> second]
           IN  /\ a # NoAnswer /\ a \in [x : Exchanges, first : Entries, second : Entries]
               /\ a.x = x /\ a.first = first /\ a.second = second
<1> DEFINE a == [x |-> x, first |-> first, second |-> second]
<1>1. a.x = x /\ x # "none"
  BY DEF Exchanges
<1> QED
  BY <1>1 DEF NoAnswer

\* A claim starts from a mutation that was not sent.
LEMMA StartStep == ASSUME WriteInv, Start PROVE WriteInv'
<1> USE ResultFields DEF WriteInv, WriteTypeInv, WriteCallInv, SendInv, PatchInv, Unsent, Done, fixed
<1>1. answer = NoAnswer /\ result = NoResult /\ at = "none" /\ status' = "inFlight"
  BY DEF Start
<1>2. CASE op = "send" /\ at' = "drafts" /\ UNCHANGED <<result, wire>>
  BY <1>1, <1>2 DEF Start
<1>3. CASE /\ op = "send" /\ End(RemoteError("unsupported", "never", "keep", "knownNotApplied"))
           /\ UNCHANGED wire
  <2>1. result'.outcome = "knownNotApplied" /\ at' = "none"
    BY <1>3 DEF End, RemoteError
  <2>2. result' # Resolved
    BY <2>1
  <2> QED
    BY <1>1, <1>3, <2>1, <2>2 DEF Start
<1>4. CASE op = "patch" /\ at' = "patch" /\ wire' = wire + 1 /\ UNCHANGED result
  BY <1>1, <1>4 DEF Start
<1> QED
  BY <1>2, <1>3, <1>4 DEF Start

\* The batch is sent only after the search for Drafts.
LEMMA DraftsStep ==
    ASSUME WriteInv, NEW x \in Exchanges, NEW entry, FindDrafts(x, entry) PROVE WriteInv'
<1> USE ResultFields DEF WriteInv, WriteTypeInv, WriteCallInv, SendInv, PatchInv, Unsent, fixed
<1>1. op = "send" /\ answer = NoAnswer /\ sent = 0 /\ wire = 0 /\ status = "inFlight"
  BY DEF FindDrafts
<1>2. CASE DraftsError(x, entry) = NoError
  <2>1. at' = "batch" /\ wire' = 1 /\ UNCHANGED result
    BY <1>1, <1>2 DEF FindDrafts
  <2> QED
    BY <1>1, <2>1 DEF FindDrafts
<1>3. CASE DraftsError(x, entry) # NoError
  <2>1. /\ at' = "none" /\ UNCHANGED wire
        /\ result' = ToRemoteError(DraftsError(x, entry), "knownNotApplied")
    BY <1>3 DEF FindDrafts, End
  <2>2. result'.outcome = "knownNotApplied"
    BY <1>3, <2>1, DraftsResult
  <2>3. result' # Resolved
    BY <2>2
  <2> QED
    BY <1>1, <2>1, <2>2, <2>3 DEF FindDrafts
<1> QED
  BY <1>2, <1>3

\* The classification of an answer agrees with what the server did.
LEMMA ReceiveStep == ASSUME WriteInv, Receive PROVE WriteInv'
<1> USE ResultFields DEF WriteInv, WriteTypeInv, WriteCallInv, SendInv, PatchInv, Unsent, fixed, server
<1>1. /\ answer # NoAnswer /\ answer' = NoAnswer /\ status = "inFlight" /\ at' = "none"
      /\ answer.x \in Exchanges /\ answer.first \in Entries /\ answer.second \in Entries
  BY DEF Receive, Finish, End
<1>2. result' = CallResult(CallError(answer.x, answer.first, answer.second))
  BY DEF Receive, Finish, End, CallResult
<1>3. CASE op = "send"
  <2>1. at = "batch" /\ wire = 0 /\ AnswerIsTrue
    BY <1>1, <1>3 DEF Receive
  <2>2. result' = CallResult(SubmitError(answer.x, answer.first, answer.second))
    BY <1>2, <2>1 DEF CallError
  <2>3. /\ result' = Resolved \/ result'.outcome \in {"knownNotApplied", "unknown"}
        /\ result' = Resolved => answer.x = "answered" /\ answer.first = "done"
                                 /\ answer.second = "done"
        /\ result'.outcome = "knownNotApplied" =>
              \/ result'.retry = "never" /\ answer.x = "401/403"
              \/ /\ answer.x = "answered"
                 /\ answer.first \in SetErrors \/ answer.second \in SetErrors
              \/ /\ result'.retry = "never" /\ answer.x = "answered"
                 /\ answer.first # "done" \/ answer.second # "done"
    BY <1>1, <1>3, <2>2, BatchResult
  <2>4. result' = Resolved => sent = 1 /\ drafts >= 1
    BY <2>1, <2>3 DEF AnswerIsTrue
  <2>5. result'.outcome = "knownNotApplied" => sent = 0 \/ (untold' /\ result'.retry = "never")
    <3>1. answer.x = "answered" /\ answer.second = "partial" => untold'
      BY <1>3 DEF Receive
    <3>2. "done" \notin SetErrors
      BY DEF SetErrors
    <3> QED
      BY <1>1, <2>1, <2>3, <3>1, <3>2 DEF AnswerIsTrue, Entries
  <2> QED
    BY <1>1, <1>3, <2>1, <2>3, <2>4, <2>5 DEF Receive
<1>4. CASE op = "patch"
  <2>1. result' = CallResult(PatchError(answer.x, answer.first))
    BY <1>2, <1>4 DEF CallError, Receive
  <2>2. /\ result' = Resolved \/ result'.outcome \in {"knownNotApplied", "unknown"}
        /\ result' = Resolved => answer.x = "answered" /\ answer.first \notin SetErrors
    BY <1>1, <1>4, <2>1, PatchResult
  <2>3. answer.x = "answered" /\ answer.first = "error" => untold'
    BY <1>4 DEF Receive
  <2>4. result' = Resolved => untold' \/ Done
    BY <1>1, <1>4, <2>2, <2>3
  <2> QED
    BY <1>1, <1>4, <2>2, <2>4 DEF Receive, Done
<1> QED
  BY <1>3, <1>4

\* A lost exchange of a submission is ambiguous, that of a patch a known failure.
LEMMA LoseStep == ASSUME WriteInv, Lose PROVE WriteInv'
<1> USE ResultFields DEF WriteInv, WriteTypeInv, WriteCallInv, SendInv, PatchInv, Unsent, fixed, server
<1>1. /\ answer' = NoAnswer /\ status = "inFlight" /\ at' = "none"
      /\ "lost" \in Exchanges /\ "absent" \in Entries
  BY DEF Lose, Finish, End, Exchanges, Entries
<1>2. result' = CallResult(CallError("lost", "absent", "absent"))
  BY DEF Lose, Finish, End, CallResult
<1>3. CASE op = "send"
  <2>1. result' = CallResult(SubmitError("lost", "absent", "absent"))
    BY <1>2, <1>3 DEF CallError, Lose
  <2>2. result'.outcome = "unknown" /\ result' # Resolved
    BY <1>1, <1>3, <2>1, BatchResult
  <2> QED
    BY <1>1, <1>3, <2>2 DEF Lose
<1>4. CASE op = "patch"
  <2>1. result' = CallResult(PatchError("lost", "absent"))
    BY <1>2, <1>4 DEF CallError, Lose
  <2>2. result'.outcome \in {"knownNotApplied", "unknown"} /\ result' # Resolved
    BY <1>1, <1>4, <2>1, PatchResult
  <2> QED
    BY <1>1, <1>4, <2>2 DEF Lose
<1> QED
  BY <1>3, <1>4

\* The server makes a submission at most once per batch, and its answer is true.
LEMMA ServeBatchStep ==
    ASSUME WriteInv, NEW x \in Exchanges,
           NEW first \in {"done", "error", "partial"} \cup SetErrors,
           NEW second \in {"done", "error", "partial"} \cup SetErrors,
           ServeBatch(x, first, second)
    PROVE  WriteInv'
<1> USE ResultFields DEF WriteInv, WriteTypeInv, WriteCallInv, SendInv, PatchInv, Unsent, fixed
<1>1. PICK d \in {0, 1}, s \in {0, 1} :
          /\ x = "401/403" => d = 0
          /\ x = "answered" => /\ (first = "done") = (d = 1)
                               /\ second = "done" => s = 1
                               /\ second \in SetErrors \cup {"error"} => s = 0
          /\ s <= d
          /\ drafts' = drafts + d
          /\ sent' = sent + s
  BY DEF ServeBatch
<1>2. /\ op = "send" /\ op' = "send" /\ wire = 1 /\ wire' = 0 /\ sent = 0
      /\ UNCHANGED <<status, at, result, untold>> /\ at # "drafts"
      /\ status \notin {"pending", "retrying", "confirmed"} /\ result # Resolved
  BY DEF ServeBatch
<1>3. /\ at = "batch" => answer = NoAnswer
      /\ at = "none" => answer = NoAnswer
  BY <1>2
<1>4. CASE at = "batch"
  <2>1. answer' = [x |-> x, first |-> first, second |-> second]
    BY <1>3, <1>4 DEF ServeBatch, Reply
  <2>2. first \in Entries /\ second \in Entries /\ second # "absent"
    BY DEF Entries, SetErrors
  <2>3. /\ answer' # NoAnswer /\ answer' \in [x : Exchanges, first : Entries, second : Entries]
        /\ answer'.x = x /\ answer'.first = first /\ answer'.second = second
    BY <2>1, <2>2, ReplyIsAnswer
  <2>4. AnswerIsTrue'
    BY <1>1, <1>2, <2>2, <2>3 DEF AnswerIsTrue
  <2> QED
    BY <1>1, <1>2, <1>4, <2>3, <2>4
<1>5. CASE at = "none"
  <2>1. answer' = NoAnswer
    BY <1>3, <1>5 DEF ServeBatch, Reply
  <2> QED
    BY <1>1, <1>2, <1>5, <2>1
<1> QED
  BY <1>2, <1>4, <1>5

\* The property takes no value but the one that the patch gives it.
LEMMA ServePatchStep ==
    ASSUME WriteInv, NEW x \in Exchanges, NEW entry \in {"done", "error"} \cup SetErrors,
           ServePatch(x, entry)
    PROVE  WriteInv'
<1> USE ResultFields DEF WriteInv, WriteTypeInv, WriteCallInv, SendInv, PatchInv, fixed, Done
<1>1. /\ op = "patch" /\ wire' \in Nat
      /\ UNCHANGED <<op, change, status, at, result, untold, drafts, sent>>
      /\ property' = property \/ Done'
      /\ x = "answered" /\ entry \notin SetErrors \cup {"error"} => Done'
  BY DEF ServePatch, SetErrors
<1>2. CASE at = "none" \/ answer # NoAnswer
  <2>1. UNCHANGED answer
    BY <1>2 DEF ServePatch, Reply
  <2> QED
    BY <1>1, <2>1
<1>3. CASE ~(at = "none" \/ answer # NoAnswer)
  <2>1. answer' = [x |-> x, first |-> entry, second |-> "absent"]
    BY <1>3 DEF ServePatch, Reply
  <2>2. entry \in Entries /\ "absent" \in Entries
    BY DEF Entries
  <2>3. /\ answer' # NoAnswer /\ answer' \in [x : Exchanges, first : Entries, second : Entries]
        /\ answer'.x = x /\ answer'.first = entry
    BY <2>1, <2>2, ReplyIsAnswer
  <2> QED
    BY <1>1, <1>3, <2>3
<1> QED
  BY <1>2, <1>3

\* A request that is dropped is not served; the outbox settles known results.
LEMMA SettleStep == ASSUME WriteInv, DropRequest \/ Settle PROVE WriteInv'
<1> USE ResultFields
    DEF WriteInv, WriteTypeInv, WriteCallInv, SendInv, PatchInv, Unsent, Done, fixed, server
<1>1. CASE DropRequest
  <2>1. wire' \in Nat /\ wire' = wire - 1 /\ wire > 0
    BY <1>1 DEF DropRequest
  <2> QED
    BY <1>1, <2>1 DEF DropRequest, AnswerIsTrue
<1>2. CASE Settle /\ SettleConfirmed
  BY <1>2 DEF Settle, SettleConfirmed
<1>3. CASE Settle /\ SettleKnownFailure
  <2>1. result.outcome = "knownNotApplied" /\ status' \in {"retrying", "failedTerminal"}
    BY <1>3 DEF Settle, SettleKnownFailure, IsAmbiguousSubmissionFailure
  <2>2. status' = "retrying" => result.retry # "never"
    BY <1>3 DEF Settle, SettleKnownFailure, IsRetryableRemoteFailure
  <2>3. at = "none" /\ answer = NoAnswer
    BY <1>3, <2>1
  <2> QED
    BY <1>3, <2>1, <2>2, <2>3 DEF Settle
<1> QED
  BY <1>1, <1>2, <1>3 DEF Settle

\* Nothing has been requested at first.
LEMMA WriteInit == JmapInit => WriteInv
BY ResultFields DEF JmapInit, WriteInv, WriteTypeInv, WriteCallInv, SendInv, PatchInv, Unsent

\* Every step keeps the invariant.
LEMMA WriteStep == WriteInv /\ [JmapNext]_jmapVars => WriteInv'
<1>1. ASSUME WriteInv, UNCHANGED jmapVars PROVE WriteInv'
  BY <1>1 DEF jmapVars, WriteInv, WriteTypeInv, WriteCallInv, SendInv, PatchInv, Unsent, AnswerIsTrue, Done
<1> QED
  BY <1>1, StartStep, DraftsStep, ReceiveStep, LoseStep, ServeBatchStep, ServePatchStep,
     SettleStep DEF JmapNext

\* However the exchanges of all attempts break, submitEmail and the outbox submit
\* the message once.
THEOREM JmapSubmitsOnce == JmapSpec => []SubmittedAtMostOnce
<1>1. WriteInv => SubmittedAtMostOnce
  BY DEF WriteInv, SendInv, SubmittedAtMostOnce
<1> QED
  BY <1>1, WriteInit, WriteStep, PTL DEF JmapSpec

\* A submission reported failed was not and will not be made, unless the
\* submission call itself was answered with a method error.
THEOREM JmapFailuresAreTrue == JmapSpec => []FailedMeansNotSubmitted
<1>1. WriteInv => FailedMeansNotSubmitted
  BY DEF WriteInv, SendInv, Unsent, FailedMeansNotSubmitted
<1> QED
  BY <1>1, WriteInit, WriteStep, PTL DEF JmapSpec

\* A mutation reported done was done at the server, except for patches whose set
\* call failed as a whole.
THEOREM JmapConfirmationsAreTrue == JmapSpec => []ConfirmedMeansDone
<1>1. WriteInv => ConfirmedMeansDone
  <2> SUFFICES ASSUME WriteInv, status = "confirmed"
               PROVE  CASE op = "send" -> sent = 1 /\ drafts >= 1
                        [] op = "patch" -> \/ untold
                                           \/ /\ change.add \subseteq property
                                              /\ change.remove \cap property = {}
    BY DEF ConfirmedMeansDone
  <2>1. CASE op = "send"
    BY <2>1 DEF WriteInv, SendInv
  <2>2. CASE op = "patch"
    BY <2>2 DEF WriteInv, PatchInv, Done
  <2> QED
    BY <2>1, <2>2 DEF WriteInv, WriteTypeInv
<1> QED
  BY <1>1, WriteInit, WriteStep, PTL DEF JmapSpec

=============================================================================
