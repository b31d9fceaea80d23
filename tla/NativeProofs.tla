------------------------------ MODULE NativeProofs ------------------------------
(***************************************************************************)
(* Proofs about the two parts of the native side whose state outlives a     *)
(* failure: CacheBootstrap, for any number of processes and keys, with a    *)
(* crash between any two durable writes, and SmtpSubmission, for any number *)
(* of recipients and attempts and wherever a reply line may be unreadable.  *)
(***************************************************************************)
EXTENDS CacheBootstrap, SmtpSubmission, TLAPS

-----------------------------------------------------------------------------
(* CacheBootstrap. *)

\* The steps in which a process works on the files, under the lock.
Working == {"decide", "open", "generate", "store", "mark", "create", "migrate", "unmark",
            "ready", "deleteMain", "deleteSide", "loadDek", "resetMain", "resetSide",
            "resetCredential"}

\* The steps that run while there is no database file.
Vacant == {"generate", "store", "mark", "create", "deleteSide", "resetSide", "loadDek",
           "resetCredential"}

Databases == [state : {"none", "partial", "live"}, key : Nat, data : BOOLEAN]

TypeInv ==
    /\ holder \in Proc \cup {NoProc}
    /\ database \in Databases
    /\ credential \in Nat
    /\ pc \in [Proc -> Working \cup {"down", "lock", "unavailable"}]
    /\ dek \in [Proc -> Nat]
    /\ generated \in Nat

\* The lock file: whoever works on the cache holds it.
LockInv == \A p \in Proc : pc[p] \in Working => holder = p

\* Users wrote only to a database that exists, and none exists in these steps.
VacantInv ==
    /\ database.state = "none" => ~database.data
    /\ \A p \in Proc : pc[p] \in Vacant => database.state = "none"

\* A database under creation has no data, and its creator knows its key.
CreatedInv == \A p \in Proc :
    /\ pc[p] \in {"migrate", "unmark"} => ~database.data
    /\ pc[p] \in {"migrate", "unmark", "ready"} => database.key = dek[p]

\* The key in memory is the stored one, from the moment it is used.
StoredInv == \A p \in Proc :
    pc[p] \in {"mark", "create", "migrate", "unmark", "ready", "open"} =>
        credential = dek[p] \/ (stolen /\ credential = 0)

KeyInv == TypeInv /\ LockInv /\ VacantInv /\ CreatedInv /\ StoredInv /\ NeverLockedOut

\* What each marker says of the steps taken under it, when a reset is requested
\* of a Ready engine only.
MarkerInv ==
    /\ ~(createMarker /\ resetMarker)
    /\ \A p \in Proc :
          /\ pc[p] \in {"open", "mark", "ready"} => ~createMarker
          /\ pc[p] = "mark" => ~resetMarker
          /\ pc[p] = "resetMain" => resetMarker
          /\ pc[p] = "deleteMain" => createMarker

\* What create_new_database and delete_database_artifacts leave behind.
LEMMA DatabaseRecord ==
    ASSUME NEW s \in {"none", "partial", "live"}, NEW k \in Nat, NEW d \in BOOLEAN
    PROVE  [state |-> s, key |-> k, data |-> d] \in Databases
BY DEF Databases

\* Every variable keeps its type.
LEMMA TypeStep == TypeInv /\ [Next]_vars => TypeInv'
<1> SUFFICES ASSUME TypeInv, [Next]_vars PROVE TypeInv'
  OBVIOUS
<1> USE DEF TypeInv, Working, Goto, Fail, files, markers
<1>1. ASSUME NEW p \in Proc, Launch(p) PROVE TypeInv'
  BY <1>1 DEF Launch
<1>2. ASSUME NEW p \in Proc, AcquireLock(p) PROVE TypeInv'
  BY <1>2 DEF AcquireLock
<1>3. ASSUME NEW p \in Proc, Decide(p) PROVE TypeInv'
  BY <1>3 DEF Decide, DatabaseExists
<1>4. ASSUME NEW p \in Proc, OpenExisting(p) PROVE TypeInv'
  BY <1>4 DEF OpenExisting, Databases
<1>5. ASSUME NEW p \in Proc, GenerateDek(p) PROVE TypeInv'
  BY <1>5 DEF GenerateDek
<1>6. ASSUME NEW p \in Proc, StoreDek(p) PROVE TypeInv'
  BY <1>6 DEF StoreDek
<1>7. ASSUME NEW p \in Proc, MarkCreation(p) PROVE TypeInv'
  BY <1>7 DEF MarkCreation
<1>8. ASSUME NEW p \in Proc, CreateFile(p) PROVE TypeInv'
  <2>1. [state |-> "partial", key |-> dek[p], data |-> FALSE] \in Databases
    BY DatabaseRecord
  <2> QED
    BY <1>8, <2>1 DEF CreateFile
<1>9. ASSUME NEW p \in Proc, Migrate(p) PROVE TypeInv'
  BY <1>9 DEF Migrate, Databases
<1>10. ASSUME NEW p \in Proc, RemoveMarker(p) PROVE TypeInv'
  BY <1>10 DEF RemoveMarker
<1>11. ASSUME NEW p \in Proc, DeleteMain(p) PROVE TypeInv'
  <2>1. NoDatabase \in Databases
    BY DatabaseRecord DEF NoDatabase
  <2> QED
    BY <1>11, <2>1 DEF DeleteMain
<1>12. ASSUME NEW p \in Proc, DeleteSidecars(p) PROVE TypeInv'
  BY <1>12 DEF DeleteSidecars
<1>13. ASSUME NEW p \in Proc, LoadDek(p) PROVE TypeInv'
  BY <1>13 DEF LoadDek
<1>14. ASSUME NEW p \in Proc, DeleteCredential(p) PROVE TypeInv'
  BY <1>14 DEF DeleteCredential
<1>15. ASSUME NEW p \in Proc, AuthorizedReset(p) PROVE TypeInv'
  BY <1>15 DEF AuthorizedReset
<1>16. ASSUME NEW p \in Proc, Write(p) PROVE TypeInv'
  BY <1>16 DEF Write, Databases
<1>17. ASSUME NEW p \in Proc, Crash(p) PROVE TypeInv'
  BY <1>17 DEF Crash
<1>18. CASE LoseCredential
  BY <1>18 DEF LoseCredential
<1>19. CASE UNCHANGED vars
  BY <1>19 DEF vars
<1> QED
  BY <1>1, <1>2, <1>3, <1>4, <1>5, <1>6, <1>7, <1>8, <1>9, <1>10, <1>11,
     <1>12, <1>13, <1>14, <1>15, <1>16, <1>17, <1>18, <1>19 DEF Next, Step

\* Only the holder of the lock works on the cache.
LEMMA LockStep == TypeInv /\ LockInv /\ [Next]_vars => LockInv'
<1> SUFFICES ASSUME TypeInv, LockInv, [Next]_vars PROVE LockInv'
  OBVIOUS
<1> USE ProcAssumption DEF TypeInv, LockInv, Working, Goto, Fail, files, markers
<1>1. ASSUME NEW p \in Proc, Launch(p) PROVE LockInv'
  BY <1>1 DEF Launch
<1>2. ASSUME NEW p \in Proc, AcquireLock(p) PROVE LockInv'
  BY <1>2 DEF AcquireLock
<1>3. ASSUME NEW p \in Proc, Decide(p) PROVE LockInv'
  BY <1>3 DEF Decide, DatabaseExists
<1>4. ASSUME NEW p \in Proc, OpenExisting(p) PROVE LockInv'
  BY <1>4 DEF OpenExisting
<1>5. ASSUME NEW p \in Proc, GenerateDek(p) PROVE LockInv'
  BY <1>5 DEF GenerateDek
<1>6. ASSUME NEW p \in Proc, StoreDek(p) PROVE LockInv'
  BY <1>6 DEF StoreDek
<1>7. ASSUME NEW p \in Proc, MarkCreation(p) PROVE LockInv'
  BY <1>7 DEF MarkCreation
<1>8. ASSUME NEW p \in Proc, CreateFile(p) PROVE LockInv'
  BY <1>8 DEF CreateFile
<1>9. ASSUME NEW p \in Proc, Migrate(p) PROVE LockInv'
  BY <1>9 DEF Migrate
<1>10. ASSUME NEW p \in Proc, RemoveMarker(p) PROVE LockInv'
  BY <1>10 DEF RemoveMarker
<1>11. ASSUME NEW p \in Proc, DeleteMain(p) PROVE LockInv'
  BY <1>11 DEF DeleteMain
<1>12. ASSUME NEW p \in Proc, DeleteSidecars(p) PROVE LockInv'
  BY <1>12 DEF DeleteSidecars
<1>13. ASSUME NEW p \in Proc, LoadDek(p) PROVE LockInv'
  BY <1>13 DEF LoadDek
<1>14. ASSUME NEW p \in Proc, DeleteCredential(p) PROVE LockInv'
  BY <1>14 DEF DeleteCredential
<1>15. ASSUME NEW p \in Proc, AuthorizedReset(p) PROVE LockInv'
  BY <1>15 DEF AuthorizedReset
<1>16. ASSUME NEW p \in Proc, Write(p) PROVE LockInv'
  BY <1>16 DEF Write
<1>17. ASSUME NEW p \in Proc, Crash(p) PROVE LockInv'
  BY <1>17 DEF Crash
<1>18. CASE LoseCredential
  BY <1>18 DEF LoseCredential
<1>19. CASE UNCHANGED vars
  BY <1>19 DEF vars
<1> QED
  BY <1>1, <1>2, <1>3, <1>4, <1>5, <1>6, <1>7, <1>8, <1>9, <1>10, <1>11,
     <1>12, <1>13, <1>14, <1>15, <1>16, <1>17, <1>18, <1>19 DEF Next, Step

\* The database under a working process has the key that is stored.
LEMMA KeyStep == KeyInv /\ [Next]_vars => KeyInv'
<1> SUFFICES ASSUME KeyInv, [Next]_vars
             PROVE  VacantInv' /\ CreatedInv' /\ StoredInv' /\ NeverLockedOut'
  BY TypeStep, LockStep DEF KeyInv
<1> DEFINE Rest == VacantInv /\ CreatedInv /\ StoredInv /\ NeverLockedOut
<1> USE ResetAssumption
    DEF KeyInv, TypeInv, Databases, LockInv, Working, Vacant, VacantInv, CreatedInv,
        StoredInv, NeverLockedOut, Goto, Fail, files, markers
<1>1. ASSUME NEW p \in Proc, Launch(p) PROVE Rest'
  BY <1>1 DEF Launch
<1>2. ASSUME NEW p \in Proc, AcquireLock(p) PROVE Rest'
  BY <1>2 DEF AcquireLock
<1>3. ASSUME NEW p \in Proc, Decide(p) PROVE Rest'
  BY <1>3 DEF Decide, DatabaseExists
<1>4. ASSUME NEW p \in Proc, OpenExisting(p) PROVE Rest'
  BY <1>4 DEF OpenExisting
<1>5. ASSUME NEW p \in Proc, GenerateDek(p) PROVE Rest'
  BY <1>5 DEF GenerateDek
<1>6. ASSUME NEW p \in Proc, StoreDek(p) PROVE Rest'
  BY <1>6 DEF StoreDek
<1>7. ASSUME NEW p \in Proc, MarkCreation(p) PROVE Rest'
  BY <1>7 DEF MarkCreation
<1>8. ASSUME NEW p \in Proc, CreateFile(p) PROVE Rest'
  BY <1>8 DEF CreateFile
<1>9. ASSUME NEW p \in Proc, Migrate(p) PROVE Rest'
  BY <1>9 DEF Migrate
<1>10. ASSUME NEW p \in Proc, RemoveMarker(p) PROVE Rest'
  BY <1>10 DEF RemoveMarker
<1>11. ASSUME NEW p \in Proc, DeleteMain(p) PROVE Rest'
  BY <1>11 DEF DeleteMain, NoDatabase
<1>12. ASSUME NEW p \in Proc, DeleteSidecars(p) PROVE Rest'
  BY <1>12 DEF DeleteSidecars
<1>13. ASSUME NEW p \in Proc, LoadDek(p) PROVE Rest'
  BY <1>13 DEF LoadDek
<1>14. ASSUME NEW p \in Proc, DeleteCredential(p) PROVE Rest'
  BY <1>14 DEF DeleteCredential
<1>15. ASSUME NEW p \in Proc, AuthorizedReset(p) PROVE Rest'
  BY <1>15 DEF AuthorizedReset
<1>16. ASSUME NEW p \in Proc, Write(p) PROVE Rest'
  BY <1>16 DEF Write
<1>17. ASSUME NEW p \in Proc, Crash(p) PROVE Rest'
  BY <1>17 DEF Crash
<1>18. CASE LoseCredential
  BY <1>18 DEF LoseCredential
<1>19. CASE UNCHANGED vars
  BY <1>19 DEF vars
<1> QED
  BY <1>1, <1>2, <1>3, <1>4, <1>5, <1>6, <1>7, <1>8, <1>9, <1>10, <1>11,
     <1>12, <1>13, <1>14, <1>15, <1>16, <1>17, <1>18, <1>19 DEF Next, Step

\* A reset requested of a Ready engine never meets a create marker, so the create
\* marker keeps its meaning.
LEMMA MarkerStep ==
    ASSUME ResetFrom \subseteq {"ready"}, KeyInv, MarkerInv, CreateMarkerMeansNeverReady,
           [Next]_vars
    PROVE  MarkerInv' /\ CreateMarkerMeansNeverReady'
<1> DEFINE Both == MarkerInv /\ CreateMarkerMeansNeverReady
<1> SUFFICES Both'
  OBVIOUS
<1> USE DEF KeyInv, TypeInv, Databases, LockInv, Working, Vacant, VacantInv, CreatedInv,
            MarkerInv, CreateMarkerMeansNeverReady, Goto, Fail, files, markers
<1>1. ASSUME NEW p \in Proc, Launch(p) PROVE Both'
  BY <1>1 DEF Launch
<1>2. ASSUME NEW p \in Proc, AcquireLock(p) PROVE Both'
  BY <1>2 DEF AcquireLock
<1>3. ASSUME NEW p \in Proc, Decide(p) PROVE Both'
  BY <1>3 DEF Decide, DatabaseExists
<1>4. ASSUME NEW p \in Proc, OpenExisting(p) PROVE Both'
  BY <1>4 DEF OpenExisting
<1>5. ASSUME NEW p \in Proc, GenerateDek(p) PROVE Both'
  BY <1>5 DEF GenerateDek
<1>6. ASSUME NEW p \in Proc, StoreDek(p) PROVE Both'
  BY <1>6 DEF StoreDek
<1>7. ASSUME NEW p \in Proc, MarkCreation(p) PROVE Both'
  BY <1>7 DEF MarkCreation
<1>8. ASSUME NEW p \in Proc, CreateFile(p) PROVE Both'
  BY <1>8 DEF CreateFile
<1>9. ASSUME NEW p \in Proc, Migrate(p) PROVE Both'
  BY <1>9 DEF Migrate
<1>10. ASSUME NEW p \in Proc, RemoveMarker(p) PROVE Both'
  BY <1>10 DEF RemoveMarker
<1>11. ASSUME NEW p \in Proc, DeleteMain(p) PROVE Both'
  BY <1>11 DEF DeleteMain, NoDatabase
<1>12. ASSUME NEW p \in Proc, DeleteSidecars(p) PROVE Both'
  BY <1>12 DEF DeleteSidecars
<1>13. ASSUME NEW p \in Proc, LoadDek(p) PROVE Both'
  BY <1>13 DEF LoadDek
<1>14. ASSUME NEW p \in Proc, DeleteCredential(p) PROVE Both'
  BY <1>14 DEF DeleteCredential
<1>15. ASSUME NEW p \in Proc, AuthorizedReset(p) PROVE Both'
  BY <1>15 DEF AuthorizedReset
<1>16. ASSUME NEW p \in Proc, Write(p) PROVE Both'
  BY <1>16 DEF Write
<1>17. ASSUME NEW p \in Proc, Crash(p) PROVE Both'
  BY <1>17 DEF Crash
<1>18. CASE LoseCredential
  BY <1>18 DEF LoseCredential
<1>19. CASE UNCHANGED vars
  BY <1>19 DEF vars
<1> QED
  BY <1>1, <1>2, <1>3, <1>4, <1>5, <1>6, <1>7, <1>8, <1>9, <1>10, <1>11,
     <1>12, <1>13, <1>14, <1>15, <1>16, <1>17, <1>18, <1>19 DEF Next, Step

\* A step that destroys what users wrote is the deletion of the main file under
\* the reset marker.
LEMMA LossStep ==
    ASSUME KeyInv, MarkerInv, CreateMarkerMeansNeverReady, [Next]_vars,
           database.data, ~database'.data
    PROVE  resetMarker
<1> USE DEF KeyInv, TypeInv, Databases, LockInv, Working, Vacant, VacantInv, CreatedInv,
            MarkerInv, CreateMarkerMeansNeverReady, Goto, Fail, files, markers
<1>1. ASSUME NEW p \in Proc, Launch(p) PROVE resetMarker
  BY <1>1 DEF Launch
<1>2. ASSUME NEW p \in Proc, AcquireLock(p) PROVE resetMarker
  BY <1>2 DEF AcquireLock
<1>3. ASSUME NEW p \in Proc, Decide(p) PROVE resetMarker
  BY <1>3 DEF Decide, DatabaseExists
<1>4. ASSUME NEW p \in Proc, OpenExisting(p) PROVE resetMarker
  BY <1>4 DEF OpenExisting
<1>5. ASSUME NEW p \in Proc, GenerateDek(p) PROVE resetMarker
  BY <1>5 DEF GenerateDek
<1>6. ASSUME NEW p \in Proc, StoreDek(p) PROVE resetMarker
  BY <1>6 DEF StoreDek
<1>7. ASSUME NEW p \in Proc, MarkCreation(p) PROVE resetMarker
  BY <1>7 DEF MarkCreation
<1>8. ASSUME NEW p \in Proc, CreateFile(p) PROVE resetMarker
  BY <1>8 DEF CreateFile
<1>9. ASSUME NEW p \in Proc, Migrate(p) PROVE resetMarker
  BY <1>9 DEF Migrate
<1>10. ASSUME NEW p \in Proc, RemoveMarker(p) PROVE resetMarker
  BY <1>10 DEF RemoveMarker
<1>11. ASSUME NEW p \in Proc, DeleteMain(p) PROVE resetMarker
  BY <1>11 DEF DeleteMain, NoDatabase
<1>12. ASSUME NEW p \in Proc, DeleteSidecars(p) PROVE resetMarker
  BY <1>12 DEF DeleteSidecars
<1>13. ASSUME NEW p \in Proc, LoadDek(p) PROVE resetMarker
  BY <1>13 DEF LoadDek
<1>14. ASSUME NEW p \in Proc, DeleteCredential(p) PROVE resetMarker
  BY <1>14 DEF DeleteCredential
<1>15. ASSUME NEW p \in Proc, AuthorizedReset(p) PROVE resetMarker
  BY <1>15 DEF AuthorizedReset
<1>16. ASSUME NEW p \in Proc, Write(p) PROVE resetMarker
  BY <1>16 DEF Write
<1>17. ASSUME NEW p \in Proc, Crash(p) PROVE resetMarker
  BY <1>17 DEF Crash
<1>18. CASE LoseCredential
  BY <1>18 DEF LoseCredential
<1>19. CASE UNCHANGED vars
  BY <1>19 DEF vars
<1> QED
  BY <1>1, <1>2, <1>3, <1>4, <1>5, <1>6, <1>7, <1>8, <1>9, <1>10, <1>11,
     <1>12, <1>13, <1>14, <1>15, <1>16, <1>17, <1>18, <1>19 DEF Next, Step

\* Before the first start there is neither a database nor a marker.
LEMMA KeyInit == Init => KeyInv
<1> SUFFICES ASSUME Init PROVE KeyInv
  OBVIOUS
<1>1. database \in Databases
  BY DatabaseRecord DEF Init, NoDatabase
<1>2. TypeInv
  BY <1>1 DEF Init, TypeInv
<1>3. LockInv /\ VacantInv /\ CreatedInv /\ StoredInv /\ NeverLockedOut
  BY DEF Init, NoDatabase, LockInv, Working, VacantInv, Vacant, CreatedInv, StoredInv,
         NeverLockedOut
<1> QED
  BY <1>2, <1>3 DEF KeyInv

\* However many processes start and crash, and whatever the credential store and
\* the marker files do, a database that users wrote to and that is not being
\* reset keeps its key in the store, unless somebody else removed the credential.
THEOREM KeyIsKept == Spec => []NeverLockedOut
<1>1. Init => KeyInv
  BY KeyInit
<1>2. KeyInv /\ [Next]_vars => KeyInv'
  BY KeyStep
<1>3. KeyInv => NeverLockedOut
  BY DEF KeyInv
<1> QED
  BY <1>1, <1>2, <1>3, PTL DEF Spec

\* While a reset is requested only of a Ready engine: a create marker found at
\* startup means that the database never became Ready, so recovery may discard
\* it (recover_incomplete_creation).
THEOREM CreateMarkerIsHonest ==
    ASSUME ResetFrom \subseteq {"ready"} PROVE Spec => []CreateMarkerMeansNeverReady
<1> DEFINE Inv == KeyInv /\ MarkerInv /\ CreateMarkerMeansNeverReady
<1>1. Init => Inv
  BY KeyInit DEF Init, NoDatabase, MarkerInv, CreateMarkerMeansNeverReady
<1>2. Inv /\ [Next]_vars => Inv'
  BY KeyStep, MarkerStep
<1>3. Inv => CreateMarkerMeansNeverReady
  OBVIOUS
<1> QED
  BY <1>1, <1>2, <1>3, PTL DEF Spec

\* Under the same condition no step of startup, recovery or a crash destroys what
\* users wrote: that takes the reset marker.
THEOREM OnlyResetLosesData ==
    ASSUME ResetFrom \subseteq {"ready"} PROVE Spec => DataLostOnlyByReset
<1> DEFINE Inv == KeyInv /\ MarkerInv /\ CreateMarkerMeansNeverReady
<1>1. Init => Inv
  BY KeyInit DEF Init, NoDatabase, MarkerInv, CreateMarkerMeansNeverReady
<1>2. Inv /\ [Next]_vars => Inv'
  BY KeyStep, MarkerStep
<1>3. Inv /\ [Next]_vars => [database.data /\ ~database'.data => resetMarker]_vars
  BY LossStep
<1> QED
  BY <1>1, <1>2, <1>3, PTL DEF Spec, DataLostOnlyByReset

-----------------------------------------------------------------------------
(* SmtpSubmission. *)

Dispositions == {Unavailable, Protocol, Ambiguous, Accepted, NoResult}

SmtpTypeInv ==
    /\ status \in {"pending", "inFlight", "retrying", "failedTerminal", "confirmed"}
    /\ at \in Steps \cup {"none"}
    /\ result \in Dispositions
    /\ deliveries \in Nat

\* A dialogue runs only inside a claimed attempt that has no result yet.
DialogueOK == at # "none" => status = "inFlight" /\ result = NoResult

\* The message is not at the server before its final dot was written.
BeforePayload == at \notin {"none", "payload"} \/ (at = "payload" /\ ~waiting)

\* In the dialogue `taken` is set only while the reply to the payload is awaited,
\* and then counts the deliveries.
AwaitOK ==
    /\ BeforePayload => ~taken
    /\ at = "payload" /\ waiting =>
           /\ deliveries = IF taken THEN 1 ELSE 0
           /\ inbox => ~taken

\* A message that may be sent again has not been and will not be accepted.
ResendOK ==
    \/ status \in {"pending", "retrying"}
    \/ result.retry = "safeBackoff"
    \/ BeforePayload
    => NotApplied

OnceInv == SmtpTypeInv /\ DialogueOK /\ AwaitOK /\ ResendOK /\ DeliveredAtMostOnce

\* Every known failure is true, or its reply was unreadable.
KnownInv == OnceInv /\ KnownMeansNotApplied

USE DEF Unavailable, Transient, Protocol, Rejected, Auth, Ambiguous, Accepted, NoResult, Error

\* Initially nothing was sent.
LEMMA OnceInit == SmtpInit => OnceInv
BY DEF SmtpInit, OnceInv, SmtpTypeInv, Dispositions, DialogueOK, AwaitOK, ResendOK, NotApplied,
       BeforePayload, DeliveredAtMostOnce, Steps

\* Whatever breaks a dialogue, the next attempt starts only from an untouched server.
LEMMA OnceStep == OnceInv /\ [SmtpNext]_smtpVars => OnceInv'
<1> SUFFICES ASSUME OnceInv, [SmtpNext]_smtpVars PROVE OnceInv'
  OBVIOUS
<1> USE DEF OnceInv, SmtpTypeInv, Dispositions, DialogueOK, AwaitOK, ResendOK, NotApplied,
            BeforePayload, DeliveredAtMostOnce, Steps
<1>1. CASE Start
  BY <1>1 DEF Start
<1>2. CASE WriteCommand
  BY <1>2 DEF WriteCommand, Finish, serverVars
<1>3. CASE WritePayload
  <2>1. NotApplied
    BY <1>3 DEF WritePayload
  <2>2. CASE Finish(Ambiguous)
    BY <1>3, <2>1, <2>2 DEF WritePayload, Finish
  <2>3. CASE waiting' = TRUE /\ inbox' = TRUE /\ UNCHANGED <<status, at, result>>
    BY <1>3, <2>1, <2>3 DEF WritePayload
  <2> QED
    BY <1>3, <2>2, <2>3 DEF WritePayload
<1>4. ASSUME NEW reply \in Replies, Possible(reply), ReadReply(reply) PROVE OnceInv'
  <2>1. CASE Understood(reply) /\ at # "payload"
    BY <1>4, <2>1 DEF ReadReply, Understood, AfterReply, serverVars, Finish, Replies
  <2>2. CASE Understood(reply) /\ at = "payload"
    BY <1>4, <2>2 DEF ReadReply, Understood, serverVars, Finish, Possible, Replies
  <2>3. CASE ~Understood(reply)
    BY <1>4, <2>3 DEF ReadReply, ReplyError, serverVars, Finish, Replies, Possible, Understood
  <2> QED
    BY <2>1, <2>2, <2>3
<1>5. CASE ReadFails
  BY <1>5 DEF ReadFails, Finish, serverVars
<1>6. CASE ServerAccept
  <2>0. inbox /\ ~BeforePayload /\ deliveries = 0
    BY <1>6 DEF ServerAccept
  <2>1. ~inbox' /\ deliveries' = 1
    BY <1>6, <2>0 DEF ServerAccept
  <2>2. CASE at = "payload"
    <3>1. taken'
      BY <1>6, <2>2 DEF ServerAccept
    <3> QED
      BY <1>6, <2>0, <2>1, <2>2, <3>1 DEF ServerAccept
  <2>3. CASE at = "none"
    BY <1>6, <2>0, <2>1, <2>3 DEF ServerAccept
  <2> QED
    BY <2>0, <2>2, <2>3
<1>7. CASE ServerDrop
  BY <1>7 DEF ServerDrop
<1>8. CASE Settle
  BY <1>8 DEF Settle, serverVars
<1>9. CASE Reconcile
  BY <1>9 DEF Reconcile, serverVars
<1>10. CASE UNCHANGED smtpVars
  BY <1>10 DEF smtpVars
<1> QED
  BY <1>1, <1>2, <1>3, <1>4, <1>5, <1>6, <1>7, <1>8, <1>9, <1>10 DEF SmtpNext, ServerReplies

\* A known failure stays true: an error that claims knownNotApplied, or the row
\* it was settled on, exists only while the server has not taken the message, or
\* after the reply to the payload was unreadable.
LEMMA KnownStep ==
    ASSUME KnownInv, [SmtpNext]_smtpVars PROVE KnownInv'
<1>0. OnceInv'
  BY OnceStep DEF KnownInv
<1> SUFFICES KnownMeansNotApplied'
  BY <1>0 DEF KnownInv
<1> USE DEF KnownInv, OnceInv, SmtpTypeInv, Dispositions, DialogueOK, AwaitOK, ResendOK, BeforePayload,
            KnownMeansNotApplied, NotApplied, Steps
<1>1. CASE Start
  BY <1>1 DEF Start
<1>2. CASE WriteCommand
  BY <1>2 DEF WriteCommand, Finish, serverVars
<1>3. CASE WritePayload
  BY <1>3 DEF WritePayload, Finish
<1>4. ASSUME NEW reply \in Replies, Possible(reply), ReadReply(reply)
      PROVE KnownMeansNotApplied'
  <2>0. /\ UNCHANGED <<deliveries, inbox>>
        /\ unreadable => unreadable'
        /\ at = "payload" /\ reply = "malformed" => unreadable'
    BY <1>4, Zenon DEF ReadReply
  <2>1. CASE Understood(reply)
    BY <1>4, <2>0, <2>1 DEF ReadReply, Finish
  <2>2. CASE ~Understood(reply) /\ at = "payload"
    <3>1. CASE reply = "malformed"
      BY <1>4, <2>0, <2>2, <3>1 DEF ReadReply, ReplyError, Finish
    <3>2. CASE reply # "malformed"
      BY <1>4, <2>0, <2>2, <3>2 DEF ReadReply, ReplyError, Finish
    <3> QED
      BY <3>1, <3>2
  <2>3. CASE ~Understood(reply) /\ at # "payload"
    BY <1>4, <2>0, <2>3 DEF ReadReply, Finish
  <2> QED
    BY <2>1, <2>2, <2>3
<1>5. CASE ReadFails
  BY <1>5 DEF ReadFails, Finish, serverVars
<1>6. CASE ServerAccept
  BY <1>6 DEF ServerAccept
<1>7. CASE ServerDrop
  BY <1>7 DEF ServerDrop
<1>8. CASE Settle
  BY <1>8 DEF Settle, serverVars
<1>9. CASE Reconcile
  BY <1>9 DEF Reconcile, serverVars
<1>10. CASE UNCHANGED smtpVars
  BY <1>10 DEF smtpVars
<1> QED
  BY <1>1, <1>2, <1>3, <1>4, <1>5, <1>6, <1>7, <1>8, <1>9, <1>10 DEF KnownInv, SmtpNext, ServerReplies

\* However the dialogues of all attempts break, and whatever lines are
\* unreadable, submit and the runner's retries have the message accepted at
\* most once: an attempt is repeated only when the server holds nothing.
THEOREM SentOnce == SmtpSpec => []DeliveredAtMostOnce
<1>1. SmtpInit => OnceInv
  BY OnceInit
<1>2. OnceInv /\ [SmtpNext]_smtpVars => OnceInv'
  BY OnceStep
<1>3. OnceInv => DeliveredAtMostOnce
  BY DEF OnceInv
<1> QED
  BY <1>1, <1>2, <1>3, PTL DEF SmtpSpec

\* Every error that submit reports as knownNotApplied (net/errors.rs) is and stays
\* true of the server, except where the reply to the payload had no code to read;
\* one that the runner retries is true without exception.
THEOREM KnownFailuresAreTrue == SmtpSpec => []KnownMeansNotApplied
<1>1. SmtpInit => KnownInv
  BY OnceInit DEF KnownInv, SmtpInit, KnownMeansNotApplied, NotApplied
<1>2. KnownInv /\ [SmtpNext]_smtpVars => KnownInv'
  BY KnownStep
<1>3. KnownInv => KnownMeansNotApplied
  BY DEF KnownInv
<1> QED
  BY <1>1, <1>2, <1>3, PTL DEF SmtpSpec

=============================================================================
