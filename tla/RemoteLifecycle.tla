---------------------------- MODULE RemoteLifecycle ----------------------------
(***************************************************************************)
(* The remote session of one local account: connect, disconnect,            *)
(* refreshAccount and dispose of DefaultRemoteApplication, the wrapper that *)
(* publishes the session as a capability (remote-runtime-composition.ts),   *)
(* and the bodies and mutations that use the capability                     *)
(* (remote-body-source.ts, body-materializer.ts).  Accounts do not share    *)
(* state, except that dispose ends all of them.                             *)
(*                                                                         *)
(* Each await is a boundary between two actions.  A session is named after  *)
(* the connect call that opened it.  Connectivity and lastError are left    *)
(* out of the status: nothing in the lifecycle reads them.                  *)
(***************************************************************************)
EXTENDS Integers, FiniteSets

CONSTANTS
    Connect,        \* connect() calls
    Refresh,        \* refreshAccount() calls
    User,           \* body fetches and mutations that use the capability
    Remote,         \* remote account ids
    Offers,         \* Offers[c]: the remote accounts that connect c's server shows
    None,
    Expires,        \* remote errors may carry session = "expire"
    ReadFails,      \* reads of the local account row may fail
    MaxGeneration   \* bound on the capability generation

ASSUME OffersAssumption == Offers \in [Connect -> SUBSET Remote]
ASSUME FiniteOffersAssumption == \A c \in Connect : IsFiniteSet(Offers[c])
ASSUME NoneAssumption == None \notin Connect \cup Remote
ASSUME FaultsAssumption == Expires \in BOOLEAN /\ ReadFails \in BOOLEAN
ASSUME GenerationAssumption == MaxGeneration \in Nat

VARIABLES
    disposed,       \* dispose() was called
    generation,     \* the account's lifecycle generation
    pendingConnect, \* the generation of the pending connect, 0 for none
    active,         \* the registered session, or None
    auth,           \* the published status
    capGeneration,  \* generation of the capability store
    cap,            \* the published capability: [session, generation], or NoCap
    account,        \* the account row: its remote id, or None
    session,        \* [Connect -> {"none", "open", "closed", "expired"}]; "expired" is
                    \* a session that was closed because an error expired it
    call,           \* [Connect -> [pc, generation, capGeneration]]
    refresh,        \* [Refresh -> [pc, session]]
    user            \* [User -> [pc, cap]]

core == <<disposed, generation, pendingConnect, active, auth>>
capability == <<capGeneration, cap>>
vars == <<disposed, generation, pendingConnect, active, auth, capGeneration, cap,
          account, session, call, refresh, user>>

NoCap == [session |-> None, generation |-> 0]

Init == /\ disposed = FALSE
        /\ generation = 0
        /\ pendingConnect = 0
        /\ active = None
        /\ auth = "anonymous"
        /\ capGeneration = 0
        /\ cap = NoCap
        /\ account \in Remote \cup {None}
        /\ session = [c \in Connect |-> "none"]
        /\ call = [c \in Connect |-> [pc |-> "new", generation |-> 0, capGeneration |-> 0]]
        /\ refresh = [r \in Refresh |-> [pc |-> "idle", session |-> None]]
        /\ user = [u \in User |-> [pc |-> "idle", cap |-> NoCap]]

Goto(c, where) == call' = [call EXCEPT ![c].pc = where]

Close(s) == session' = IF s = None THEN session ELSE [session EXCEPT ![s] = "closed"]

\* invalidate: whoever holds the old capability gets "cancelled" from now on.
Invalidate == /\ cap' = NoCap
              /\ capGeneration' = capGeneration + 1

HasConnectAuthority(c) == /\ ~disposed
                          /\ generation = call[c].generation
                          /\ pendingConnect = call[c].generation

(***************************************************************************)
(* connect.                                                                 *)
(***************************************************************************)
\* Anything else is "busy" or "disposed" and changes nothing.
ConnectStart(c) ==
    /\ call[c].pc = "new"
    /\ ~disposed /\ active = None /\ pendingConnect = 0
    /\ generation' = generation + 1
    /\ pendingConnect' = generation'
    /\ auth' = "authenticating"
    /\ call' = [call EXCEPT ![c] = [pc |-> "authenticating", generation |-> generation',
                                    capGeneration |-> capGeneration]]
    /\ UNCHANGED <<disposed, active, capability, account, session, refresh, user>>

\* The end of the catch and finally blocks: a call that lost its authority says
\* "cancelled" and publishes nothing.
ConnectRejects(c) ==
    /\ Goto(c, "done")
    /\ auth' = IF HasConnectAuthority(c) THEN "anonymous" ELSE auth
    /\ pendingConnect' = IF pendingConnect = call[c].generation THEN 0 ELSE pendingConnect
    /\ UNCHANGED <<disposed, generation, active>>

\* A failure after the session was opened closes it first.
Abort(c) == /\ Close(c)
            /\ Goto(c, "closing")
            /\ UNCHANGED core

ConnectOpen(c) ==
    /\ call[c].pc = "authenticating"
    /\ \/ HasConnectAuthority(c) /\ Goto(c, "opening") /\ UNCHANGED core
       \/ ConnectRejects(c)              \* no authority, or the factory threw
    /\ UNCHANGED <<capability, account, session, refresh, user>>

\* Mutant of OpenReturns: a session that opens too late is dropped, not closed.
OpenReturnsDropped(c) ==
    /\ call[c].pc = "opening"
    /\ session' = [session EXCEPT ![c] = "open"]
    /\ \/ HasConnectAuthority(c) /\ Goto(c, "reading") /\ UNCHANGED core
       \/ ~HasConnectAuthority(c) /\ ConnectRejects(c)
    /\ UNCHANGED <<capability, account, refresh, user>>

OpenReturns(c) ==
    /\ call[c].pc = "opening"
    /\ \/ /\ HasConnectAuthority(c)
          /\ session' = [session EXCEPT ![c] = "open"]
          /\ Goto(c, "reading")
          /\ UNCHANGED core
       \/ ~HasConnectAuthority(c) /\ Abort(c)
       \/ ConnectRejects(c) /\ UNCHANGED session        \* open failed
    /\ UNCHANGED <<capability, account, refresh, user>>

\* resolveBinding succeeded: the session becomes the account's session.
Activate(c) == /\ active' = c
               /\ pendingConnect' = 0
               /\ auth' = "authenticated"
               /\ Goto(c, "activating")
               /\ UNCHANGED <<disposed, generation, session>>

\* resolveBinding: an existing account is never rebound, a new one is
\* registered only for a server that shows exactly one.
ReadAccount(c) ==
    /\ call[c].pc = "reading"
    /\ \/ HasConnectAuthority(c) /\ account \in Offers[c] /\ Activate(c)
       \/ /\ HasConnectAuthority(c) /\ account = None /\ Cardinality(Offers[c]) = 1
          /\ Goto(c, "registering")
          /\ UNCHANGED <<core, session>>
       \/ /\ \/ ReadFails \/ ~HasConnectAuthority(c) \/ account \notin Offers[c] \cup {None}
             \/ account = None /\ Cardinality(Offers[c]) # 1
          /\ Abort(c)
    /\ UNCHANGED <<capability, account, refresh, user>>

\* register_account commits, whoever holds the authority by then.
RegisterCommit(c) ==
    /\ call[c].pc = "registering"
    /\ \/ /\ account \in Offers[c] \cup {None}
          /\ account' \in Offers[c]
          /\ Goto(c, "registered")
       \/ account \notin Offers[c] \cup {None} /\ Goto(c, "conflict") /\ UNCHANGED account
    /\ UNCHANGED <<core, capability, session, refresh, user>>

\* Mutant of RegisterReturns: a conflict is taken for "already registered".
RegisterReturnsUnread(c) ==
    /\ call[c].pc \in {"registered", "conflict"}
    /\ IF HasConnectAuthority(c) THEN Activate(c) ELSE Abort(c)
    /\ UNCHANGED <<capability, account, refresh, user>>

\* Registered, or conflict and the account is read again.
RegisterReturns(c) ==
    /\ call[c].pc \in {"registered", "conflict"}
    /\ \/ HasConnectAuthority(c) /\ account \in Offers[c] /\ Activate(c)
       \/ ReadFails /\ Abort(c)
       \/ (~HasConnectAuthority(c) \/ account \notin Offers[c]) /\ Abort(c)
    /\ UNCHANGED <<capability, account, refresh, user>>

CloseReturns(c) == /\ call[c].pc = "closing"
                   /\ ConnectRejects(c)
                   /\ UNCHANGED <<capability, account, session, refresh, user>>

\* activateAfterBinding: status, account row, then the store's own checks.
LookupBinding(c) ==
    /\ call[c].pc = "activating"
    /\ Goto(c, IF ~disposed /\ auth = "authenticated" THEN "lookup" ELSE "done")
    /\ UNCHANGED <<core, capability, account, session, refresh, user>>

\* Mutant of PublishCapability: the store's generation is not looked at again.
PublishCapabilityStale(c) ==
    /\ call[c].pc = "lookup"
    /\ Goto(c, "done")
    /\ \/ /\ ~disposed /\ auth = "authenticated"
          /\ account \in Offers[c]
          /\ cap' = [session |-> c, generation |-> capGeneration]
       \/ UNCHANGED cap
    /\ UNCHANGED <<core, capGeneration, account, session, refresh, user>>

PublishCapability(c) ==
    /\ call[c].pc = "lookup"
    /\ Goto(c, "done")
    /\ \/ /\ ~disposed /\ auth = "authenticated"
          /\ account \in Offers[c]
          /\ capGeneration = call[c].capGeneration
          /\ cap' = [session |-> c, generation |-> capGeneration]
       \/ /\ \/ ReadFails \/ disposed \/ auth # "authenticated" \/ account \notin Offers[c]
             \/ capGeneration # call[c].capGeneration
          /\ UNCHANGED cap
    /\ UNCHANGED <<core, capGeneration, account, session, refresh, user>>

(***************************************************************************)
(* disconnect, dispose: authority goes first, closing comes after.          *)
(***************************************************************************)
Disconnect ==
    /\ ~disposed
    /\ capGeneration < MaxGeneration
    /\ Invalidate
    /\ Close(active)
    /\ active' = None
    /\ pendingConnect' = 0
    /\ generation' = IF active # None \/ pendingConnect # 0 THEN generation + 1 ELSE generation
    /\ auth' = "anonymous"
    /\ UNCHANGED <<disposed, account, call, refresh, user>>

\* Mutant of Dispose: the registered session is forgotten without being closed.
DisposeForgets ==
    /\ ~disposed
    /\ disposed' = TRUE
    /\ active' = None
    /\ pendingConnect' = 0
    /\ generation' = generation + 1
    /\ auth' = "anonymous"
    /\ UNCHANGED <<capability, account, session, call, refresh, user>>

Dispose ==
    /\ ~disposed
    /\ disposed' = TRUE
    /\ cap' = NoCap
    /\ capGeneration' = IF cap = NoCap THEN capGeneration ELSE capGeneration + 1
    /\ Close(active)
    /\ active' = None
    /\ pendingConnect' = 0
    /\ generation' = generation + 1
    /\ auth' = "anonymous"
    /\ UNCHANGED <<account, call, refresh, user>>

(***************************************************************************)
(* refreshAccount.                                                          *)
(***************************************************************************)
RefreshStart(r) ==
    /\ refresh[r].pc = "idle"
    /\ ~disposed /\ active # None
    /\ refresh' = [refresh EXCEPT ![r] = [pc |-> "sync", session |-> active]]
    /\ UNCHANGED <<core, capability, account, session, call, user>>

IsCurrent(s) == ~disposed /\ active = s /\ generation = call[s].generation

RefreshDone(r) == refresh' = [refresh EXCEPT ![r] = [pc |-> "idle", session |-> None]]

\* The wrapper's catch block: a rejected refresh of an account that is not
\* authenticated now invalidates the capability.
RefreshRejects(r) ==
    /\ RefreshDone(r)
    /\ IF auth # "authenticated" THEN Invalidate ELSE UNCHANGED capability

\* Mutant of RefreshReturns: a late answer publishes the status all the same.
RefreshReturnsLate(r) ==
    /\ refresh[r].pc = "sync"
    /\ auth' = "authenticated"
    /\ RefreshDone(r)
    /\ UNCHANGED <<disposed, generation, pendingConnect, active, capability, account, session,
                   call, user>>

\* syncAccount succeeded, or failed with an error that keeps the session.
RefreshReturns(r) ==
    /\ refresh[r].pc = "sync"
    /\ \/ /\ IsCurrent(refresh[r].session)
          /\ auth' = "authenticated"
          /\ RefreshDone(r)
          /\ UNCHANGED capability
       \/ ~IsCurrent(refresh[r].session) /\ RefreshRejects(r) /\ UNCHANGED auth
    /\ UNCHANGED <<disposed, generation, pendingConnect, active, account, session, call, user>>

\* The session expired: it is forgotten at once, and closed under an await.
RefreshExpires(r) ==
    /\ Expires
    /\ refresh[r].pc = "sync"
    /\ IsCurrent(refresh[r].session)
    /\ session' = [session EXCEPT ![active] = "expired"]
    /\ active' = None
    /\ generation' = generation + 1
    /\ auth' = "expired"
    /\ refresh' = [refresh EXCEPT ![r].pc = "close"]
    /\ UNCHANGED <<disposed, pendingConnect, capability, account, call, user>>

RefreshCloses(r) == /\ refresh[r].pc = "close"
                    /\ RefreshRejects(r)
                    /\ UNCHANGED <<core, account, session, call, user>>

(***************************************************************************)
(* Users of the capability: submit, applyKeywordChange,                     *)
(* applyMembershipChange, reconcileSend, fetchBody.                         *)
(***************************************************************************)
CapabilityIsCurrent(k) == /\ ~disposed
                          /\ cap = k /\ k # NoCap
                          /\ auth = "authenticated"

UseStart(u) == /\ user[u].pc = "idle"
               /\ CapabilityIsCurrent(cap)
               /\ user' = [user EXCEPT ![u] = [pc |-> "await", cap |-> cap]]
               /\ UNCHANGED <<core, capability, account, session, call, refresh>>

UseDone(u) == user' = [user EXCEPT ![u] = [pc |-> "idle", cap |-> NoCap]]

\* An answer is used if the capability is still current; an encrypted body is
\* decrypted first and checked again.
UseReturns(u) ==
    /\ user[u].pc \in {"await", "decrypt"}
    /\ \/ /\ user[u].pc = "await" /\ CapabilityIsCurrent(user[u].cap)
          /\ user' = [user EXCEPT ![u].pc = "decrypt"]
       \/ UseDone(u)                     \* used, cancelled or failed
    /\ UNCHANGED <<core, capability, account, session, call, refresh>>

\* An error that expires the session invalidates the capability, not the session.
UseExpires(u) == /\ Expires
                 /\ user[u].pc = "await"
                 /\ CapabilityIsCurrent(user[u].cap)
                 /\ capGeneration < MaxGeneration
                 /\ Invalidate
                 /\ UseDone(u)
                 /\ UNCHANGED <<core, account, session, call, refresh>>

ConnectStep(c) == \/ ConnectOpen(c) \/ OpenReturns(c) \/ ReadAccount(c)
                  \/ RegisterCommit(c) \/ RegisterReturns(c) \/ CloseReturns(c)
                  \/ LookupBinding(c) \/ PublishCapability(c)

Next == \/ \E c \in Connect : ConnectStart(c) \/ ConnectStep(c)
        \/ \E r \in Refresh : \/ RefreshStart(r) \/ RefreshReturns(r)
                              \/ RefreshExpires(r) \/ RefreshCloses(r)
        \/ \E u \in User : UseStart(u) \/ UseReturns(u) \/ UseExpires(u)
        \/ Disconnect \/ Dispose

Spec == Init /\ [][Next]_vars

\* The awaits of connect resolve: IPC calls return and sockets time out.
FairSpec == Spec /\ \A c \in Connect : WF_vars(ConnectStep(c))

(***************************************************************************)
(* Properties.                                                              *)
(***************************************************************************)
\* The published status is the truth about the registry: "authenticated" is
\* shown exactly while a session is registered, and that session is open.  No
\* late connect or refresh resurrects a session or a status (ADR-010).
StatusMatchesSession ==
    /\ auth = "authenticated" <=> active # None
    /\ active # None => session[active] = "open"

\* No session leaks: one that is open is registered, or the connect that opened
\* it is still deciding about it.
NoLeakedSession ==
    \A c \in Connect : session[c] = "open" =>
        active = c \/ call[c].pc \in {"reading", "registering", "registered", "conflict"}

\* The registered session and the capability serve the remote account that the
\* local account is bound to, whichever connects raced to register it.
ServesBoundAccount ==
    /\ active # None => account \in Offers[active]
    /\ cap # NoCap => account \in Offers[cap.session]

\* The account row is never rebound (ADR-010, "sin rebind silencioso").  Proved in
\* RemoteProofs.
NeverRebound == [][account # None => account' = account]_vars

\* Bodies and mutations use "la misma sesión activa gobernada por
\* RemoteApplication" (PersonaC.md): a capability whose answers are accepted
\* belongs to the registered session, never to one that was cancelled,
\* disconnected or refused.  The exception is a session that a refresh found
\* expired: its capability is only invalidated after the close, and becomes current
\* again when another connect completes before that.
CapabilityIsActiveSession ==
    CapabilityIsCurrent(cap) => cap.session = active \/ session[cap.session] = "expired"

\* Once a connect has returned, its session serves bodies and mutations, unless
\* a later error of theirs expired it ("shares one connected session across
\* body materialization and mutation execution", body-capability.test.ts).
\* Does not hold (see the README).
ConnectedMeansCapable ==
    active # None /\ call[active].pc = "done" => CapabilityIsCurrent(cap)

\* After dispose every session is closed, also one whose open was under way.
DisposeClosesAll == disposed ~> (\A c \in Connect : session[c] # "open"
                                                    /\ call[c].pc \in {"new", "done"})

=============================================================================
