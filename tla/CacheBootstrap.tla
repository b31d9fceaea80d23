---------------------------- MODULE CacheBootstrap ----------------------------
(***************************************************************************)
(* Startup, crash recovery and authorized reset of the encrypted local      *)
(* cache (bootstrap.rs, reset.rs, markers.rs, cache_lock.rs, ipc/state.rs): *)
(* a database file that only one key opens, the credential store that holds *)
(* that key, and two marker files that say what a crash interrupted.        *)
(*                                                                         *)
(* Every durable write is a step of its own, so a crash falls between any   *)
(* two of them.  The credential store (external) may be unreachable, and    *)
(* somebody may delete the credential.                                      *)
(***************************************************************************)
EXTENDS Integers

CONSTANTS
    Proc,               \* processes of the application
    NoProc,             \* nobody holds the lock file
    MaxKeys,            \* bound on generated keys
    ResetFrom,          \* lifecycle states in which a reset is requested
    LateMarkerFault     \* create_durable may fail after the file exists

ASSUME ProcAssumption == NoProc \notin Proc
ASSUME KeysAssumption == MaxKeys \in Nat
ASSUME ResetAssumption == ResetFrom \subseteq {"ready", "unavailable"}
ASSUME FaultAssumption == LateMarkerFault \in BOOLEAN

VARIABLES
    holder,         \* owner of local-cache-v1.lock
    database,       \* mail-cache.sqlite3: its state, key and whether users wrote to it
    sidecar,        \* a -wal, -shm or -journal file exists
    credential,     \* the stored DEK, 0 for NoEntry
    createMarker,   \* bootstrap-create-v1.marker exists
    resetMarker,    \* cache-reset-v1.marker exists
    pc,             \* the next step of each process
    dek,            \* [Proc -> 0..MaxKeys]: the key a process has in memory
    generated,      \* keys generated so far
    stolen          \* history: somebody else deleted the credential

vars == <<holder, database, sidecar, credential, createMarker, resetMarker, pc, dek,
          generated, stolen>>
files == <<database, sidecar>>
markers == <<createMarker, resetMarker>>

NoDatabase == [state |-> "none", key |-> 0, data |-> FALSE]

Goto(p, where) == pc' = [pc EXCEPT ![p] = where]

\* A failure is classified and installed; the process stays up without an engine.
Fail(p) == Goto(p, "unavailable")

Init == /\ holder = NoProc
        /\ database = NoDatabase
        /\ sidecar = FALSE
        /\ credential = 0
        /\ createMarker = FALSE
        /\ resetMarker = FALSE
        /\ pc = [p \in Proc |-> "down"]
        /\ dek = [p \in Proc |-> 0]
        /\ generated = 0
        /\ stolen = FALSE

(***************************************************************************)
(* initialize_tauri: the process lock, then bootstrap_local_cache.          *)
(***************************************************************************)
Launch(p) == /\ pc[p] = "down"
             /\ Goto(p, "lock")
             /\ UNCHANGED <<holder, files, credential, markers, dek, generated, stolen>>

\* Mutant of AcquireLock: the lock file does not exclude anybody.
AcquireLockShared(p) == /\ pc[p] = "lock"
                        /\ holder' = p
                        /\ Goto(p, "decide")
                        /\ UNCHANGED <<files, credential, markers, dek, generated, stolen>>

AcquireLock(p) == /\ pc[p] = "lock"
                  /\ \/ holder = NoProc /\ holder' = p /\ Goto(p, "decide")
                     \/ holder # NoProc /\ Fail(p) /\ UNCHANGED holder
                  /\ UNCHANGED <<files, credential, markers, dek, generated, stolen>>

DatabaseExists == database.state # "none"
OrphanSidecar == ~DatabaseExists /\ sidecar

\* Mutant of Decide: a database without its key is treated as an unfinished one.
DecideDiscardsKeyless(p) ==
    /\ pc[p] = "decide"
    /\ Goto(p, IF credential = 0 THEN "deleteMain" ELSE "open")
    /\ dek' = [dek EXCEPT ![p] = credential]
    /\ UNCHANGED <<holder, files, credential, markers, generated, stolen>>

\* The bootstrap matrix.  Markers win over everything; an unreachable
\* credential store fails without touching anything.
Decide(p) ==
    /\ pc[p] = "decide"
    /\ \/ resetMarker /\ Goto(p, "resetMain") /\ UNCHANGED dek
       \/ ~resetMarker /\ createMarker /\ Goto(p, "deleteMain") /\ UNCHANGED dek
       \/ /\ ~resetMarker /\ ~createMarker
          /\ \/ Fail(p) /\ UNCHANGED dek          \* store unavailable, or refused below
             \/ /\ ~OrphanSidecar
                /\ \/ /\ credential = 0 /\ ~DatabaseExists
                      /\ Goto(p, "generate") /\ UNCHANGED dek
                   \/ /\ credential # 0
                      /\ dek' = [dek EXCEPT ![p] = credential]
                      /\ Goto(p, IF DatabaseExists THEN "open" ELSE "mark")
    /\ UNCHANGED <<holder, files, credential, markers, generated, stolen>>

\* open_database on an existing file: only its key opens it; opening migrates.
OpenExisting(p) ==
    /\ pc[p] = "open"
    /\ \/ /\ database.key = dek[p]
          /\ database' = [database EXCEPT !.state = "live"]
          /\ Goto(p, "ready")
       \/ Fail(p) /\ UNCHANGED database
    /\ UNCHANGED <<holder, sidecar, credential, markers, dek, generated, stolen>>

GenerateDek(p) ==
    /\ pc[p] = "generate"
    /\ \/ /\ generated < MaxKeys
          /\ generated' = generated + 1
          /\ dek' = [dek EXCEPT ![p] = generated']
          /\ Goto(p, "store")
       \/ Fail(p) /\ UNCHANGED <<generated, dek>>
    /\ UNCHANGED <<holder, files, credential, markers, stolen>>

\* Recovery and reset already have their marker; a first run still needs one.
StoreDek(p) ==
    /\ pc[p] = "store"
    /\ \/ /\ credential' = dek[p]
          /\ Goto(p, IF createMarker \/ resetMarker THEN "create" ELSE "mark")
       \/ Fail(p) /\ UNCHANGED credential
    /\ UNCHANGED <<holder, files, markers, dek, generated, stolen>>

(***************************************************************************)
(* create_new_database.                                                     *)
(***************************************************************************)
MarkCreation(p) ==
    /\ pc[p] = "mark"
    /\ \/ createMarker' = TRUE /\ Goto(p, "create")
       \/ createMarker' \in BOOLEAN /\ Fail(p)
    /\ UNCHANGED <<holder, files, credential, resetMarker, dek, generated, stolen>>

\* The file appears before the schema is in it; opening a leftover file needs
\* its key.
CreateFile(p) ==
    /\ pc[p] = "create"
    /\ \/ /\ database.state = "none"
          /\ database' = [state |-> "partial", key |-> dek[p], data |-> FALSE]
          /\ sidecar' = TRUE
          /\ Goto(p, "migrate")
       \/ /\ database.state # "none" /\ database.key = dek[p]
          /\ Goto(p, "migrate") /\ UNCHANGED files
       \/ Fail(p) /\ UNCHANGED files
    /\ UNCHANGED <<holder, credential, markers, dek, generated, stolen>>

Migrate(p) ==
    /\ pc[p] = "migrate"
    /\ \/ database' = [database EXCEPT !.state = "live"] /\ Goto(p, "unmark")
       \/ Fail(p) /\ UNCHANGED database
    /\ UNCHANGED <<holder, sidecar, credential, markers, dek, generated, stolen>>

\* Mutant of RemoveMarker: the create marker is left behind.
RemoveMarkerOnlyReset(p) ==
    /\ pc[p] = "unmark"
    /\ resetMarker' = FALSE
    /\ Goto(p, "ready")
    /\ UNCHANGED <<holder, files, credential, createMarker, dek, generated, stolen>>

\* remove_durable of the marker this path works under, then Ready.  A failed
\* removal may have removed the file (the directory sync failed).
RemoveMarker(p) ==
    /\ pc[p] = "unmark"
    /\ \/ /\ resetMarker
          /\ UNCHANGED createMarker
          /\ \/ resetMarker' = FALSE /\ Goto(p, "ready")
             \/ resetMarker' \in BOOLEAN /\ Fail(p)
       \/ /\ ~resetMarker
          /\ UNCHANGED resetMarker
          /\ \/ createMarker' = FALSE /\ Goto(p, "ready")
             \/ createMarker' \in BOOLEAN /\ Fail(p)
    /\ UNCHANGED <<holder, files, credential, dek, generated, stolen>>

(***************************************************************************)
(* delete_database_artifacts: the main file first, then its sidecars; used  *)
(* by recover_incomplete_creation and by resume_reset.                      *)
(***************************************************************************)
DeleteMain(p) ==
    /\ pc[p] \in {"deleteMain", "resetMain"}
    /\ \/ /\ database' = NoDatabase
          /\ Goto(p, IF pc[p] = "deleteMain" THEN "deleteSide" ELSE "resetSide")
       \/ Fail(p) /\ UNCHANGED database
    /\ UNCHANGED <<holder, sidecar, credential, markers, dek, generated, stolen>>

DeleteSidecars(p) ==
    /\ pc[p] \in {"deleteSide", "resetSide"}
    /\ \/ /\ sidecar' = FALSE
          /\ Goto(p, IF pc[p] = "deleteSide" THEN "loadDek" ELSE "resetCredential")
       \/ Fail(p) /\ UNCHANGED sidecar
    /\ UNCHANGED <<holder, database, credential, markers, dek, generated, stolen>>

\* recover_incomplete_creation keeps a stored key and generates a missing one.
LoadDek(p) ==
    /\ pc[p] = "loadDek"
    /\ \/ credential = 0 /\ Goto(p, "generate") /\ UNCHANGED dek
       \/ credential # 0 /\ dek' = [dek EXCEPT ![p] = credential] /\ Goto(p, "create")
       \/ Fail(p) /\ UNCHANGED dek
    /\ UNCHANGED <<holder, files, credential, markers, generated, stolen>>

\* resume_reset never keeps the old key.
DeleteCredential(p) ==
    /\ pc[p] = "resetCredential"
    /\ \/ credential' = 0 /\ Goto(p, "generate")
       \/ Fail(p) /\ UNCHANGED credential
    /\ UNCHANGED <<holder, files, markers, dek, generated, stolen>>

(***************************************************************************)
(* authorized_reset: the marker is made durable before the engine is let go *)
(* and the destructive part starts.                                         *)
(***************************************************************************)
AuthorizedReset(p) ==
    /\ pc[p] \in ResetFrom
    /\ holder = p
    /\ \/ resetMarker' = TRUE /\ Goto(p, "resetMain")
       \/ /\ LateMarkerFault                     \* the "?" of create_durable
          /\ resetMarker' = TRUE /\ UNCHANGED pc
    /\ UNCHANGED <<holder, files, credential, createMarker, dek, generated, stolen>>

(***************************************************************************)
(* Use of the cache, crashes, and other software.                           *)
(***************************************************************************)
\* A semantic write commits under an engine lease.
Write(p) == /\ pc[p] = "ready"
            /\ database.state = "live" /\ ~database.data
            /\ database' = [database EXCEPT !.data = TRUE]
            /\ UNCHANGED <<holder, sidecar, credential, markers, pc, dek, generated, stolen>>

\* The process ends, in whatever step it is; the lock goes with its file handle.
Crash(p) == /\ pc[p] # "down"
            /\ Goto(p, "down")
            /\ dek' = [dek EXCEPT ![p] = 0]
            /\ holder' = IF holder = p THEN NoProc ELSE holder
            /\ UNCHANGED <<files, credential, markers, generated, stolen>>

LoseCredential == /\ credential # 0
                  /\ credential' = 0
                  /\ stolen' = TRUE
                  /\ UNCHANGED <<holder, files, markers, pc, dek, generated>>

Step(p) == \/ AcquireLock(p) \/ Decide(p) \/ OpenExisting(p)
           \/ GenerateDek(p) \/ StoreDek(p) \/ MarkCreation(p) \/ CreateFile(p)
           \/ Migrate(p) \/ RemoveMarker(p) \/ DeleteMain(p) \/ DeleteSidecars(p)
           \/ LoadDek(p) \/ DeleteCredential(p)

Next == \/ \E p \in Proc : Launch(p) \/ Step(p) \/ AuthorizedReset(p) \/ Write(p) \/ Crash(p)
        \/ LoseCredential

Spec == Init /\ [][Next]_vars

(***************************************************************************)
(* Properties.                                                              *)
(***************************************************************************)
\* What users wrote is destroyed only under an authorized reset: no crash, no
\* unreachable store and no lost key makes startup delete or replace it.
DataLostOnlyByReset ==
    [][database.data /\ ~database'.data => resetMarker]_vars

\* Wherever a crash falls, a database that users wrote to can still be opened:
\* unless it is being reset, the credential store holds its key (or nothing,
\* if somebody else removed it).
NeverLockedOut ==
    database.data /\ ~resetMarker =>
        credential = database.key \/ (stolen /\ credential = 0)

\* secure-local-cache.md: "No engine becomes Ready while the marker exists"
\* (the reset marker).
\* Does not hold with LateMarkerFault (see the README).
ReadyMeansNoResetMarker == (\E p \in Proc : pc[p] = "ready") => ~resetMarker

\* secure-local-cache.md: "If startup finds the create marker, the previous
\* creation never became Ready": recovery may then discard the database.
CreateMarkerMeansNeverReady == createMarker => ~database.data

=============================================================================
