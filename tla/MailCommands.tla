----------------------------- MODULE MailCommands -----------------------------
(***************************************************************************)
(* The commands of MailApplicationController and the forms that give them: *)
(* connecting and reconnecting an account (with its OAuth credential),     *)
(* refreshing it, writing and sending a message, changing an Email, and    *)
(* running the mutations these stage.  Every await is a point where the    *)
(* user, a hint or another command may step in.                            *)
(*                                                                         *)
(* What the store holds is read by MailView; here a reread of the accounts *)
(* or of the statuses is only started, superseded and answered.  Remote    *)
(* sessions and the runner are used by their results (RemoteLifecycle and  *)
(* MutationOutbox have their steps).  All mutations are of one account.    *)
(***************************************************************************)
EXTENDS Integers, FiniteSets

CONSTANTS Keys,         \* AccountKeys, a finite set of integers: "sorted" is by <
          Commands,     \* ids of the sends and changes that the user makes
          Drafts,       \* contents that the user may write, never the empty one
          Scenes        \* bounds: [store, acts], the accounts at the start with their profiles,
                        \* and how often the user acts on accounts, in the composer and on mail

ASSUME MailKeysAssumption == Keys \subseteq Nat \ {0} /\ IsFiniteSet(Keys)
ASSUME ScenesAssumption == \A scene \in Scenes : DOMAIN scene.store \subseteq Keys

None == 0
Profiles == {"gmail", "local"}

VARIABLES
    \* the store, the credential store and the remote side
    registered,     \* the profile (serviceKey) of each durable account
    creds,          \* accounts with a stored OAuth credential
    forgetting,     \* forget() calls on their way
    stranded,       \* history: accounts whose credential stayed because forget() failed
    status,         \* RemoteApplication.getStatus
    \* accounts on the screen
    accounts,       \* mailStore.accounts
    selected,       \* mailStore.selectedAccountKey
    observed,       \* the account whose remote status is shown
    local,          \* runtimeStore.local
    hinted,         \* a hint of new accounts is on its way
    read,           \* other calls of refreshAccounts: [by, fresh]
    \* the account form, its dialog and the attempt
    form,           \* phase, password typed, and whether its owner went away
    dialog,         \* the account being reconnected, and googleReauthorization
    attempt,        \* the active connection attempt
    waiting,        \* the form that awaits the attempt (at most one), with its screen and profile
    \* refresh
    refreshing,     \* the account of activeRefreshAttempt
    activity,       \* mailStore.refreshActivity
    \* composer and mutations
    composer,       \* content, phase
    command,        \* where each command stands
    row,            \* its mutation in the store
    run,            \* its active run: the step, and what `before` knew
    reads,          \* the reads of the statuses on their way
    shown,          \* mutationStatusStore.byAccount
    flags,          \* .reconciliation
    confirmed,      \* .recentConfirmations
    rowHint,        \* a pendingMutations hint is on its way
    staged,         \* history: what was staged, as [to, content]
    disposed,
    budget

storeVars == <<registered, creds, forgetting, stranded, status>>
screenVars == <<accounts, selected, observed, local, hinted, read>>
formVars == <<form, dialog, attempt, waiting>>
refreshVars == <<refreshing, activity>>
sendVars == <<composer, command, staged>>
runVars == <<row, run, reads, shown, flags, confirmed, rowHint>>
accountVars == <<storeVars, screenVars, formVars, refreshVars>>
mailVars == <<sendVars, runVars>>
vars == <<accountVars, mailVars, disposed, budget>>

NoAttempt == [at |-> "none", target |-> None, key |-> None, profile |-> "local",
              reauthorize |-> FALSE, cred |-> FALSE, fresh |-> FALSE]
ResetForm == [phase |-> "idle", password |-> FALSE, orphaned |-> FALSE]
NoDialog == [key |-> None, reauthorize |-> FALSE]
Lowest(S) == IF S = {} THEN None ELSE CHOOSE k \in S : \A j \in S : k <= j

Init ==
    /\ \E scene \in Scenes : registered = scene.store /\ budget = scene.acts
    /\ creds = {k \in DOMAIN registered : registered[k] = "gmail"}
    /\ forgetting = {} /\ stranded = {} /\ status = [k \in Keys |-> "anonymous"]
    /\ accounts = DOMAIN registered /\ local = "ready" /\ hinted = FALSE /\ read = {}
    /\ selected = Lowest(accounts) /\ observed = selected
    /\ form = ResetForm /\ dialog = NoDialog /\ attempt = NoAttempt /\ waiting = {}
    /\ refreshing = None /\ activity = [k \in Keys |-> "idle"]
    /\ composer = [content |-> None, phase |-> "idle"]
    /\ command = [c \in Commands |-> [at |-> "none", kind |-> "none", to |-> None, content |-> None]]
    /\ staged = {}
    /\ row = [c \in Commands |-> "none"]
    /\ run = [c \in Commands |-> [at |-> "none", known |-> FALSE, outcome |-> "none"]]
    /\ reads = {} /\ shown = row /\ flags = {} /\ confirmed = {} /\ rowHint = FALSE
    /\ disposed = FALSE

RootViewMode == CASE local = "opening" -> "boot"
                  [] local = "error" -> "localError"
                  [] OTHER -> IF accounts = {} THEN "setup" ELSE "shell"

AccountAct == /\ ~disposed /\ budget[1] > 0
              /\ budget' = [budget EXCEPT ![1] = @ - 1]
              /\ UNCHANGED <<mailVars, disposed>>
AccountStep == UNCHANGED <<mailVars, disposed, budget>>
MailAct(i) == /\ ~disposed /\ budget[i] > 0 /\ RootViewMode = "shell"
              /\ budget' = [budget EXCEPT ![i] = @ - 1]
              /\ UNCHANGED <<accountVars, disposed>>
MailStep == UNCHANGED <<accountVars, disposed, budget>>

-----------------------------------------------------------------------------
(* The account form. *)

FormShown == RootViewMode = "setup" \/ (RootViewMode = "shell" /\ dialog.key # None)

\* The dialog leaves the screen: generation += 1, the password is cleared.
Unmounted(f) == [f EXCEPT !.password = FALSE,
                          !.orphaned = @ \/ (f.phase = "connecting" /\ \E w \in waiting : w.by = "shell")]

TypePassword == /\ AccountAct /\ FormShown /\ ~form.password
                /\ form' = [form EXCEPT !.password = TRUE]
                /\ UNCHANGED <<storeVars, screenVars, dialog, attempt, waiting, refreshVars>>

\* canReconnect: not while connecting or connected.
OpenReconnect == /\ AccountAct /\ RootViewMode = "shell" /\ dialog.key = None /\ observed # None
                 /\ status[observed] \in {"anonymous", "expired"}
                 /\ dialog' = [NoDialog EXCEPT !.key = selected]
                 /\ UNCHANGED <<storeVars, screenVars, form, attempt, waiting, refreshVars>>

\* "Cancelar" is disabled while connecting.
CloseDialog == /\ AccountAct /\ RootViewMode = "shell" /\ dialog.key # None /\ form.phase # "connecting"
               /\ dialog' = NoDialog /\ form' = ResetForm
               /\ UNCHANGED <<storeVars, screenVars, attempt, waiting, refreshVars>>

\* validate and the buttons: a password for a "local" account, and not while connecting.
CanSubmit(profile) == FormShown /\ form.phase # "connecting" /\ (profile = "local" => form.password)

\* handleSubmit, and connectAccount of App.vue or reconnect of the dialog, up to the
\* first await.  While an attempt is active the form is connecting and its button is
\* disabled, so that startAccountConnection finds none to join or to refuse.
Submit(profile) ==
    /\ AccountAct /\ CanSubmit(profile)
    /\ form' = [form EXCEPT !.phase = "connecting", !.password = profile = "local"]     \* setProfile
    /\ waiting' = {[by |-> RootViewMode, profile |-> profile]}
    /\ attempt' = [NoAttempt EXCEPT !.at = "accounts", !.target = dialog.key, !.profile = profile,
                                    !.reauthorize = profile = "gmail" /\ dialog.reauthorize]
    /\ UNCHANGED <<storeVars, screenVars, dialog, refreshVars>>

-----------------------------------------------------------------------------
(* performAccountConnection. *)

Forget(cred) == forgetting' = IF cred THEN forgetting \cup {attempt.key} ELSE forgetting

\* The attempt ends, and the forms that await it go on.
Finish(kind) ==
    LET closes == kind = "ok" /\ \E w \in waiting : w.by = "shell"
        settled == IF waiting = {} THEN form ELSE [form EXCEPT !.phase = "idle"]
    IN  /\ attempt' = NoAttempt /\ waiting' = {}
        /\ form' = IF closes THEN Unmounted(settled) ELSE settled
        /\ dialog' = IF closes THEN NoDialog
                     ELSE [dialog EXCEPT !.reauthorize = @ \/ /\ kind = "auth"
                                                              /\ [by |-> "shell", profile |-> "gmail"] \in waiting]

\* Mutant: the account being connected is observed whichever is selected.
ObservesAlways(key) == TRUE

Observes(key) == attempt.target = None \/ selected = key

\* listAccounts returns; a first run takes an account that exists before a new key.
AccountsListed ==
    /\ attempt.at = "accounts"
    /\ LET known == CASE attempt.target # None -> attempt.target
                      [] OTHER -> IF selected \in DOMAIN registered THEN selected
                                  ELSE Lowest(DOMAIN registered)
       IN  \E key \in IF known # None THEN {known} ELSE Keys \ (DOMAIN registered \cup creds \cup forgetting) :
           \/ /\ ~disposed
              /\ attempt.target # None => attempt.profile = registered[key]
              /\ attempt' = [attempt EXCEPT !.key = key,
                    !.at = IF attempt.profile = "gmail" /\ (known = None \/ attempt.reauthorize)
                           THEN "authorize" ELSE "connect"]
              /\ observed' = IF Observes(key) THEN key ELSE observed
              /\ status' = IF attempt'.at = "connect" THEN [status EXCEPT ![key] = "authenticating"] ELSE status
              /\ UNCHANGED <<form, dialog, waiting>>
           \/ /\ \/ disposed                                             \* cancelled
                 \/ TRUE                                                 \* the read fails: local
                 \/ attempt.target # None /\ attempt.profile # registered[key]
              /\ Finish("other")
              /\ UNCHANGED <<observed, status>>
    /\ AccountStep
    /\ UNCHANGED <<registered, creds, forgetting, stranded, accounts, selected, local, hinted, read, refreshVars>>

\* Mutant: what the broker stored after the application went is kept.
AuthorizedKeeps ==
    /\ attempt.at = "authorize"
    /\ \/ /\ creds' = creds \cup {attempt.key} /\ stranded' = stranded \ {attempt.key}
          /\ IF disposed
             THEN Finish("other") /\ UNCHANGED <<status, forgetting>>
             ELSE /\ attempt' = [attempt EXCEPT !.at = "connect", !.cred = TRUE]
                  /\ status' = [status EXCEPT ![attempt.key] = "authenticating"]
                  /\ UNCHANGED <<forgetting, form, dialog, waiting>>
       \/ Finish("auth") /\ UNCHANGED <<creds, forgetting, stranded, status>>
    /\ AccountStep
    /\ UNCHANGED <<registered, screenVars, refreshVars>>

\* broker.authorize returns a stored credential, or fails.
Authorized ==
    /\ attempt.at = "authorize"
    /\ \/ /\ creds' = creds \cup {attempt.key} /\ stranded' = stranded \ {attempt.key}
          /\ IF disposed
             THEN Forget(TRUE) /\ Finish("other") /\ UNCHANGED status
             ELSE /\ attempt' = [attempt EXCEPT !.at = "connect", !.cred = TRUE]
                  /\ status' = [status EXCEPT ![attempt.key] = "authenticating"]
                  /\ UNCHANGED <<forgetting, form, dialog, waiting>>
       \/ Finish("auth") /\ UNCHANGED <<creds, forgetting, stranded, status>>
    /\ AccountStep
    /\ UNCHANGED <<registered, screenVars, refreshVars>>

Superseded == {[r EXCEPT !.fresh = FALSE] : r \in {q \in read : q.by = "retry"}}

\* RemoteApplication.connect resolves: the account is durable and its session active.
\* onAuthenticated clears the password, and the accounts are read again.
ConnectReturns ==
    /\ attempt.at = "connect"
    /\ attempt.profile = "gmail" => attempt.key \in creds
    /\ registered' = [k \in DOMAIN registered \cup {attempt.key} |->
                        IF k \in DOMAIN registered THEN registered[k] ELSE attempt.profile]
    /\ hinted' = (hinted \/ attempt.key \notin DOMAIN registered)
    /\ status' = [status EXCEPT ![attempt.key] = "authenticated"]
    /\ IF disposed
       THEN Forget(attempt.cred) /\ Finish("other") /\ UNCHANGED read
       ELSE /\ attempt' = [attempt EXCEPT !.at = "reread", !.fresh = TRUE]
            /\ read' = Superseded
            /\ form' = [form EXCEPT !.password = FALSE]
            /\ UNCHANGED <<forgetting, dialog, waiting>>
    /\ AccountStep
    /\ UNCHANGED <<creds, stranded, accounts, selected, observed, local, refreshVars>>

\* connect rejects, before or after it registered the account.
ConnectFails(kind) ==
    /\ attempt.at = "connect"
    /\ \/ UNCHANGED <<registered, hinted>>
       \/ /\ kind # "auth"
          /\ registered' = [k \in DOMAIN registered \cup {attempt.key} |->
                              IF k \in DOMAIN registered THEN registered[k] ELSE attempt.profile]
          /\ hinted' = (hinted \/ attempt.key \notin DOMAIN registered)
    /\ status' = [status EXCEPT ![attempt.key] = "anonymous"]
    /\ Forget(attempt.cred)
    /\ Finish(IF disposed THEN "other" ELSE kind)
    /\ AccountStep
    /\ UNCHANGED <<creds, stranded, accounts, selected, observed, local, read, refreshVars>>

\* refreshAccounts stores what it read; an account that is gone is deselected.
ShowAccounts == /\ accounts' = DOMAIN registered
                /\ selected' = IF selected \in DOMAIN registered THEN selected ELSE Lowest(DOMAIN registered)
                /\ observed' = selected'

\* The reread of the attempt: superseded, failed, or stored.  Only the last shows the
\* account; otherwise the attempt counts as failed and its credential is forgotten.
Reread ==
    /\ attempt.at = "reread"
    /\ \/ ~attempt.fresh /\ UNCHANGED <<accounts, selected, observed>>
       \/ attempt.fresh /\ ShowAccounts
       \/ attempt.fresh /\ UNCHANGED <<accounts, selected, observed>>
    /\ \/ /\ ~disposed /\ attempt.key \in accounts' /\ (attempt.fresh => accounts' = DOMAIN registered)
          /\ UNCHANGED forgetting
          /\ Finish("ok")
       \/ /\ disposed \/ attempt.key \notin accounts' \/ attempt.fresh
          /\ Forget(attempt.cred)
          /\ Finish("other")
    /\ AccountStep
    /\ UNCHANGED <<registered, creds, stranded, status, local, hinted, read, refreshVars>>

\* broker.forget ends: the credential is deleted, or the credential store cannot be
\* reached and it stays.  Nobody looks at which.
ForgetDone(k) ==
    /\ k \in forgetting
    /\ forgetting' = forgetting \ {k}
    /\ \/ creds' = creds \ {k} /\ stranded' = stranded \ {k}
       \/ UNCHANGED creds /\ stranded' = stranded \cup ({k} \cap creds)
    /\ AccountStep
    /\ UNCHANGED <<registered, status, screenVars, formVars, refreshVars>>

-----------------------------------------------------------------------------
(* Other rereads of the accounts: a hint, the error screen's button. *)

\* A hint's call that is superseded has nothing left to do.
RefreshAccounts(by) == /\ read' = Superseded \cup {[by |-> by, fresh |-> TRUE]}
                       /\ attempt' = [attempt EXCEPT !.fresh = FALSE]

FlushHint ==
    /\ hinted /\ ~disposed
    /\ hinted' = FALSE /\ RefreshAccounts("hint")
    /\ AccountStep
    /\ UNCHANGED <<storeVars, accounts, selected, observed, local, form, dialog, waiting, refreshVars>>

RetryLocal ==
    /\ AccountAct /\ RootViewMode = "localError"
    /\ local' = "opening" /\ RefreshAccounts("retry")
    /\ UNCHANGED <<storeVars, accounts, selected, observed, hinted, form, dialog, waiting, refreshVars>>

\* The call returns, stored or superseded, or throws before or after it stored the
\* accounts.  The error screen takes the dialog off the screen.
AccountsRead(r) ==
    /\ read' = read \ {r}
    /\ \/ r.fresh /\ ShowAccounts
       \/ UNCHANGED <<accounts, selected, observed>>
    /\ \/ /\ r.fresh => accounts' = DOMAIN registered
          /\ local' = IF r.by = "retry" THEN "ready" ELSE local
          /\ UNCHANGED <<form, dialog, waiting>>
       \/ /\ r.fresh
          /\ local' = "error"
          /\ form' = IF dialog.key # None THEN Unmounted(form) ELSE form
          /\ dialog' = NoDialog
          /\ waiting' = {w \in waiting : w.by # "shell"}
    /\ AccountStep
    /\ UNCHANGED <<storeVars, hinted, attempt, refreshVars>>

SelectAccount(k) ==
    /\ AccountAct /\ RootViewMode = "shell" /\ k \in accounts \ {selected}
    /\ selected' = k /\ observed' = k
    /\ UNCHANGED <<storeVars, accounts, local, hinted, read, formVars, refreshVars>>

\* A session expires (RemoteLifecycle).
Expire(k) == /\ AccountAct /\ status[k] = "authenticated"
             /\ status' = [status EXCEPT ![k] = "expired"]
             /\ UNCHANGED <<registered, creds, forgetting, stranded, screenVars, formVars, refreshVars>>

-----------------------------------------------------------------------------
(* Refresh. *)

\* canRefresh and handleRefresh.
CanRefresh == /\ RootViewMode = "shell" /\ selected # None
              /\ status[observed] = "authenticated" /\ activity[selected] # "refreshing"

\* refreshAccount: one at a time, the other account is refused.
Refresh ==
    /\ AccountAct /\ CanRefresh
    /\ IF refreshing = None
       THEN refreshing' = selected /\ activity' = [activity EXCEPT ![selected] = "refreshing"]
       ELSE /\ activity' = IF refreshing = selected THEN activity ELSE [activity EXCEPT ![selected] = "error"]
            /\ UNCHANGED refreshing
    /\ UNCHANGED <<storeVars, screenVars, formVars>>

\* Mutant: the result goes to the account that is selected by then.
RefreshReturnsToSelected ==
    /\ refreshing # None
    /\ refreshing' = None
    /\ \E phase \in {"idle", "error"} :
          activity' = IF disposed \/ selected = None THEN activity ELSE [activity EXCEPT ![selected] = phase]
    /\ AccountStep
    /\ UNCHANGED <<storeVars, screenVars, formVars>>

\* performRefresh and finishRefresh.
RefreshReturns ==
    /\ refreshing # None
    /\ refreshing' = None
    /\ \E phase \in {"idle", "error"} :
          activity' = IF disposed THEN activity ELSE [activity EXCEPT ![refreshing] = phase]
    /\ AccountStep
    /\ UNCHANGED <<storeVars, screenVars, formVars>>

-----------------------------------------------------------------------------
(* The composer. *)

Closed == [content |-> None, phase |-> "idle"]
SendsInProgress == {c \in Commands : command[c].kind = "send" /\ command[c].at # "done"}

\* open(), and what the user then types; the fields are disabled while queueing.
Compose(draft) ==
    /\ MailAct(2) /\ composer.content = None
    /\ composer' = [content |-> draft, phase |-> "editing"]
    /\ UNCHANGED <<command, staged, runVars>>

\* The close button, Escape and the overlay work in every phase.
CloseComposer ==
    /\ MailAct(2) /\ composer.content # None
    /\ composer' = Closed
    /\ UNCHANGED <<command, staged, runVars>>

\* handleSend and executeSend up to the first await: the recipients are parsed now.
PressSend(c) ==
    /\ MailAct(2) /\ command[c].at = "none"
    /\ composer.content # None /\ composer.phase # "queueing"
    /\ \/ /\ selected # None
          /\ composer' = [composer EXCEPT !.phase = "queueing"]
          /\ command' = [command EXCEPT ![c] = [at |-> "identities", kind |-> "send",
                                                to |-> composer.content, content |-> None]]
       \/ /\ composer' = [composer EXCEPT !.phase = "error"]       \* no recipient, no account
          /\ UNCHANGED command
    /\ UNCHANGED <<staged, runVars>>

\* listIdentities returns: the rest of the SendIntent is what the composer holds by now.
IdentitiesListed(c) ==
    /\ command[c].at = "identities"
    /\ \/ /\ command' = [command EXCEPT ![c].at = "stage", ![c].content = composer.content]
          /\ UNCHANGED composer
       \/ /\ command' = [command EXCEPT ![c].at = "done"]
          /\ composer' = [composer EXCEPT !.phase = "error"]
    /\ MailStep /\ UNCHANGED <<staged, runVars>>

\* handleToggleSeen, handleToggleFlag: toggleKeyword.
Toggle(c) ==
    /\ MailAct(3) /\ command[c].at = "none"
    /\ command' = [command EXCEPT ![c].at = "stage", ![c].kind = "keyword"]
    /\ UNCHANGED <<composer, staged, runVars>>

\* handleDelete and the viewer's buttons: moveEmail reads the memberships first.
Move(c) ==
    /\ MailAct(3) /\ command[c].at = "none"
    /\ command' = [command EXCEPT ![c].at = "memberships", ![c].kind = "move"]
    /\ UNCHANGED <<composer, staged, runVars>>

\* There is something to move, or the Email is in the target only, absent or unreadable.
MembershipsRead(c) ==
    /\ command[c].at = "memberships"
    /\ \E at \in {"stage", "done"} : command' = [command EXCEPT ![c].at = at]
    /\ MailStep /\ UNCHANGED <<composer, staged, runVars>>

-----------------------------------------------------------------------------
(* The runs of the mutations and the statuses shown. *)

NoRows == [c \in Commands |-> "none"]

\* Mutant: a read started later does not supersede the earlier ones.
IssueUnnumbered(what, c) ==
    reads \cup {[for |-> what, of |-> c, answered |-> FALSE, snap |-> NoRows, fresh |-> TRUE]}

\* refreshMutationStatuses up to its await: only the last one started may store, the
\* others return null whatever they are answered, and nobody awaits that of a hint.
Issue(what, c) ==
    {[r EXCEPT !.fresh = FALSE, !.answered = TRUE, !.snap = NoRows] : r \in {q \in reads : q.for # "hint"}}
    \cup {[for |-> what, of |-> c, answered |-> FALSE, snap |-> NoRows, fresh |-> TRUE]}

\* performMutationRun up to its first await.  trackStagedMutation reads the statuses
\* before it, a read that this one supersedes at once.
PerformMutationRun(c) ==
    /\ run' = [run EXCEPT ![c] = [at |-> "before", known |-> FALSE, outcome |-> "none"]]
    /\ reads' = Issue("before", c)

\* The staging call returns.
Staged(c) ==
    /\ command[c].at = "stage"
    /\ command' = [command EXCEPT ![c].at = "done"]
    /\ \/ /\ row' = [row EXCEPT ![c] = "pending"] /\ rowHint' = TRUE
          /\ composer' = IF command[c].kind = "send" THEN Closed ELSE composer
          /\ staged' = IF command[c].kind = "send"
                       THEN staged \cup {[to |-> command[c].to, content |-> command[c].content]} ELSE staged
          /\ PerformMutationRun(c)
       \/ /\ composer' = IF command[c].kind = "send" THEN [composer EXCEPT !.phase = "error"] ELSE composer
          /\ UNCHANGED <<staged, row, rowHint, run, reads>>
    /\ MailStep /\ UNCHANGED <<shown, flags, confirmed>>

\* The retry buttons of the list and of the send status.  runMutation joins a run of the
\* same mutation.
RetryRun(c) ==
    /\ MailAct(3) /\ shown[c] \in {"pending", "retrying", "inFlight"}
    /\ IF run[c].at = "none" THEN PerformMutationRun(c) ELSE UNCHANGED <<run, reads>>
    /\ UNCHANGED <<sendVars, row, shown, flags, confirmed, rowHint>>

FlushRowHint ==
    /\ rowHint /\ ~disposed
    /\ rowHint' = FALSE
    /\ reads' = Issue("hint", None)
    /\ MailStep /\ UNCHANGED <<sendVars, row, run, shown, flags, confirmed>>

\* The store answers listPendingMutations.
Answer(r) ==
    /\ ~r.answered
    /\ reads' = (reads \ {r}) \cup {[r EXCEPT !.answered = TRUE, !.snap = row]}
    /\ MailStep /\ UNCHANGED <<sendVars, row, run, shown, flags, confirmed, rowHint>>

\* performMutationRun goes on with the list that it awaited, or with null.
Continue(r, ok) ==
    CASE r.for = "before" ->
           /\ run' = [run EXCEPT ![r.of] = [@ EXCEPT !.at = IF disposed THEN "none" ELSE "runner",
                                                    !.known = ok /\ r.snap[r.of] # "none"]]
           /\ UNCHANGED confirmed
      [] r.for = "after" ->
           /\ confirmed' = IF run[r.of].outcome = "confirmed" /\ run[r.of].known /\ ok /\ r.snap[r.of] = "none"
                           THEN confirmed \cup {r.of} ELSE confirmed
           /\ run' = [run EXCEPT ![r.of].at = "none"]
      [] OTHER -> UNCHANGED <<run, confirmed>>

SetStatuses(snap) == shown' = snap /\ flags' = {c \in flags : snap[c] # "none"}

\* The rest of refreshMutationStatuses; the read may also have failed.
Resume(r) ==
    /\ r.answered
    /\ reads' = reads \ {r}
    /\ \/ ~disposed /\ r.fresh /\ SetStatuses(r.snap) /\ Continue(r, TRUE)
       \/ UNCHANGED <<shown, flags>> /\ Continue(r, FALSE)
    /\ MailStep /\ UNCHANGED <<sendVars, row, rowHint>>

\* MutationRunner.runMutation claims the attempt.
Claim(c) ==
    /\ run[c].at = "runner" /\ row[c] \in {"pending", "retrying"}
    /\ row' = [row EXCEPT ![c] = "inFlight"] /\ rowHint' = TRUE
    /\ run' = [run EXCEPT ![c].at = "working"]
    /\ MailStep /\ UNCHANGED <<sendVars, reads, shown, flags, confirmed>>

\* What the runner may leave of a mutation and return: it skips, executes what it
\* claimed, or reconciles what it found in flight or confirmed.
RunnerResults(c) ==
    LET skipped == [row |-> row[c], outcome |-> "skipped"]
        doubt == [row |-> row[c], outcome |-> "needsReconciliation"]
        gone == [row |-> "none", outcome |-> "confirmed"]
        settled == {[row |-> s, outcome |-> s] : s \in {"retrying", "failedTerminal"}}
    IN  CASE run[c].at = "runner" /\ row[c] \in {"none", "pending", "retrying", "failedTerminal"} -> {skipped}
          [] row[c] = "confirmed" -> {gone}
          [] row[c] = "inFlight" -> {doubt, gone, [doubt EXCEPT !.row = "confirmed"]} \cup settled
          [] OTHER -> {}

RunnerReturns(c) ==
    /\ run[c].at \in {"runner", "working"}
    /\ \E result \in RunnerResults(c) :
          /\ row' = [row EXCEPT ![c] = result.row]
          /\ rowHint' = (rowHint \/ result.row # row[c])
          /\ run' = [run EXCEPT ![c].at = IF disposed THEN "none" ELSE "after", ![c].outcome = result.outcome]
          /\ flags' = IF result.outcome = "needsReconciliation" /\ ~disposed THEN flags \cup {c} ELSE flags
    /\ reads' = IF disposed THEN reads ELSE Issue("after", c)
    /\ MailStep /\ UNCHANGED <<sendVars, shown, confirmed>>

\* A store call of the runner throws: the statuses are read again and the run ends.
RunnerThrows(c) ==
    /\ run[c].at \in {"runner", "working"}
    /\ run' = [run EXCEPT ![c].at = "after", ![c].outcome = "none"]
    /\ reads' = Issue("after", c)
    /\ MailStep /\ UNCHANGED <<sendVars, row, shown, flags, confirmed, rowHint>>

-----------------------------------------------------------------------------
(* The end of the application, and the specification. *)

\* A reread of the accounts that is on its way still stores what it read.
Dispose ==
    /\ ~disposed /\ disposed' = TRUE
    /\ observed' = None /\ activity' = [k \in Keys |-> "idle"]
    /\ shown' = NoRows /\ flags' = {} /\ confirmed' = {}
    /\ UNCHANGED <<storeVars, accounts, selected, local, hinted, read, formVars, refreshing,
                   sendVars, row, run, reads, rowHint, budget>>

Account ==
    \/ TypePassword \/ OpenReconnect \/ CloseDialog
    \/ \E profile \in Profiles : Submit(profile)
    \/ AccountsListed \/ Authorized \/ ConnectReturns \/ Reread
    \/ \E kind \in {"auth", "other"} : ConnectFails(kind)
    \/ \E k \in Keys : ForgetDone(k) \/ SelectAccount(k) \/ Expire(k)
    \/ FlushHint \/ RetryLocal \/ \E r \in read : AccountsRead(r)
    \/ Refresh \/ RefreshReturns

Mail ==
    \/ \E d \in Drafts : Compose(d)
    \/ CloseComposer
    \/ \E c \in Commands :
          \/ PressSend(c) \/ IdentitiesListed(c) \/ Toggle(c) \/ Move(c) \/ MembershipsRead(c)
          \/ Staged(c) \/ RetryRun(c) \/ Claim(c) \/ RunnerReturns(c) \/ RunnerThrows(c)
    \/ FlushRowHint
    \/ \E r \in reads : Answer(r) \/ Resume(r)

Next == Account \/ Mail \/ Dispose
Spec == Init /\ [][Next]_vars

-----------------------------------------------------------------------------
(* Properties. *)

\* Once every attempt and every forget() is over, an OAuth credential is stored only for
\* an account that exists: each way out of performAccountConnection, the disposal of the
\* application included, forgets what it had authorized.  The exception is a forget()
\* that failed: its rejection is swallowed, and nothing tries again.
CredentialsOwned ==
    attempt.at = "none" /\ forgetting = {} => creds \subseteq DOMAIN registered \cup stranded

\* No spinner outlives its work: the account form shows "connecting", and cannot be sent
\* again, exactly while an attempt is active (or for ever, when the error screen took the
\* dialog away from under one), a composer that is "queueing" has a send
\* in progress, and an account shown as refreshing is the one being refreshed, whatever
\* was selected, closed or superseded meanwhile.
BusyMeansWorking ==
    /\ (attempt.at # "none" \/ form.orphaned) = (form.phase = "connecting")
    /\ waiting # {} => attempt.at # "none"
    /\ composer.phase = "queueing" => SendsInProgress # {}
    /\ \A k \in Keys : activity[k] = "refreshing" => refreshing = k

\* The connection status next to the mail is that of the selected account, also while
\* another account is being reconnected and after the accounts were read again.
StatusIsSelected ==
    RootViewMode = "shell" /\ ~disposed /\ selected # None => observed = selected

\* A mutation reported as sent or synchronised is gone from the store and is never shown
\* as pending again by an older list that arrives late.
ConfirmedStaysConfirmed ==
    \A c \in confirmed : row[c] = "none" /\ shown[c] = "none"

\* What is staged was composed as one message: recipients, security mode, subject and
\* body come from the same draft.
SentAsComposed == \A s \in staged : s.to = s.content

=============================================================================
