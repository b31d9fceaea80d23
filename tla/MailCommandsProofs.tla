-------------------------- MODULE MailCommandsProofs --------------------------
(***************************************************************************)
(* Proofs about MailCommands, for any accounts, commands and drafts, and    *)
(* however often the user acts.  Commands on accounts and commands on mail  *)
(* change different variables: each half has its own invariant.             *)
(***************************************************************************)
EXTENDS MailCommands, WellFoundedInduction, TLAPS

Attempts == [at : {"none", "accounts", "authorize", "connect", "reread"},
             target : Keys \cup {None}, key : Keys \cup {None}, profile : Profiles,
             reauthorize : BOOLEAN, cred : BOOLEAN, fresh : BOOLEAN]

\* The accounts: what is shown is durable, and an attempt that went on has its key.
AccountInv ==
    /\ attempt \in Attempts
    /\ attempt.at \notin {"none", "accounts"} => attempt.key \in Keys
    /\ dialog \in [key : Keys \cup {None}, reauthorize : BOOLEAN]
    /\ DOMAIN registered \subseteq Keys
    /\ accounts \subseteq DOMAIN registered
    /\ selected \in DOMAIN registered \cup {None}
    /\ ~disposed /\ selected # None => observed = selected

\* A credential is an account's, is being forgotten, could not be, or is in an attempt's
\* hands.
CredentialInv ==
    \A k \in creds : \/ k \in DOMAIN registered \/ k \in forgetting \/ k \in stranded
                     \/ attempt.at = "connect" /\ attempt.cred /\ k = attempt.key

\* The form and the attempt: the attempt is awaited by the form, or its form went away.
Forms == [phase : {"idle", "connecting"}, password : BOOLEAN, orphaned : BOOLEAN]

FormInv ==
    /\ form \in Forms
    /\ form.phase = "connecting" <=> attempt.at # "none" \/ form.orphaned
    /\ waiting # {} => attempt.at # "none" /\ ~form.orphaned
    /\ attempt.at # "none" /\ waiting = {} => form.orphaned
    /\ \A w \in waiting : waiting = {w}
    /\ \A w \in waiting : w.by = "shell" => dialog.key # None

\* The account shown as refreshing, as long as something is shown.
ActivityInv ==
    /\ activity \in [Keys -> {"idle", "refreshing", "error"}]
    /\ \A k \in Keys : activity[k] = "refreshing" => refreshing = k /\ ~disposed

\* The composer waits for a send that has not ended.
CommandTypes == [at : {"none", "identities", "memberships", "stage", "done"},
                 kind : {"none", "send", "keyword", "move"},
                 to : Drafts \cup {None}, content : Drafts \cup {None}]

SendInv ==
    /\ command \in [Commands -> CommandTypes]
    /\ composer \in [content : Drafts \cup {None}, phase : {"idle", "editing", "queueing", "error"}]
    /\ composer.phase = "queueing" => SendsInProgress # {}
    /\ \A c \in Commands : /\ command[c].at = "none" => command[c].kind = "none"
                           /\ command[c].at = "memberships" => command[c].kind = "move"

\* Runs and reads of the statuses.
Rows == {"none", "pending", "inFlight", "retrying", "failedTerminal", "confirmed"}
Runs == [at : {"none", "before", "runner", "working", "after"}, known : BOOLEAN,
         outcome : {"none", "skipped", "needsReconciliation", "confirmed", "retrying", "failedTerminal"}]
Reads == [for : {"before", "after", "hint"}, of : Commands \cup {None}, answered : BOOLEAN,
          snap : [Commands -> Rows], fresh : BOOLEAN]

\* A mutation that was reported as confirmed, or whose run is about to.
Gone(c) == c \in confirmed \/ (run[c].at = "after" /\ run[c].outcome = "confirmed")

RunTypes ==
    /\ row \in [Commands -> Rows] /\ shown \in [Commands -> Rows]
    /\ run \in [Commands -> Runs] /\ reads \subseteq Reads /\ confirmed \subseteq Commands

\* A run awaits one read of the statuses at a time.
ReadsInv ==
    /\ \A r \in reads : r.for # "hint" => r.of \in Commands /\ run[r.of].at = r.for
    /\ \A r, q \in reads : r.for # "hint" /\ r.for = q.for /\ r.of = q.of => r = q

\* Nothing is known of a mutation before it is staged.
UnstagedInv ==
    \A c \in Commands : command[c].at # "done" =>
        /\ row[c] = "none" /\ shown[c] = "none" /\ run[c].at = "none" /\ c \notin confirmed
        /\ \A r \in reads : r.snap[c] = "none"

\* No list that may still be stored is older than the confirmation.
GoneInv ==
    /\ \A c \in Commands : Gone(c) =>
           /\ row[c] = "none"
           /\ \A r \in reads : r.fresh /\ r.answered => r.snap[c] = "none"
    /\ \A c \in confirmed : shown[c] = "none"

RunInv == RunTypes /\ ReadsInv /\ UnstagedInv /\ GoneInv

(***************************************************************************)
(* Operators.                                                               *)
(***************************************************************************)
\* The lowest of a set of AccountKeys is one of them.
LEMMA LowestIsMember ==
    ASSUME NEW S, S \subseteq Keys, S # {}
    PROVE  Lowest(S) \in S
<1>1. S \subseteq Nat
  BY MailKeysAssumption
<1>2. PICK k \in S : \A j \in S : ~(<<j, k>> \in OpToRel(<, Nat))
  BY <1>1, NatLessThanWellFounded, WFMin
<1>3. ASSUME NEW j \in S PROVE k <= j
  <2>1. <<j, k>> \in Nat \X Nat
    BY <1>1
  <2>2. ~(j < k)
    BY <1>2, <2>1 DEF OpToRel
  <2> QED
    BY <1>1, <2>2
<1> QED
  BY <1>3 DEF Lowest

\* No account has the key that stands for none.
LEMMA NoneIsNoKey == None \notin Keys
BY MailKeysAssumption DEF None

\* Commands on mail and commands on accounts keep out of each other's way.
LEMMA MailLeavesAccounts == Mail => UNCHANGED <<accountVars, disposed>>
BY DEF Mail, MailAct, MailStep, Compose, CloseComposer, PressSend, IdentitiesListed, Toggle, Move,
       MembershipsRead, Staged, RetryRun, Claim, RunnerReturns, RunnerThrows, FlushRowHint, Answer, Resume

\* The same, the other way round.
LEMMA AccountLeavesMail == Account => UNCHANGED <<mailVars, disposed>>
BY DEF Account, AccountAct, AccountStep, TypePassword, OpenReconnect, CloseDialog, Submit, AccountsListed,
       Authorized, ConnectReturns, Reread, ConnectFails, ForgetDone, SelectAccount, Expire, FlushHint,
       RetryLocal, AccountsRead, Refresh, RefreshReturns

(***************************************************************************)
(* The accounts.                                                            *)
(***************************************************************************)
\* The end of an attempt.
LEMMA FinishEnds ==
    ASSUME AccountInv, FormInv, NEW kind, Finish(kind)
    PROVE  /\ attempt' = NoAttempt /\ waiting' = {}
           /\ dialog' \in [key : Keys \cup {None}, reauthorize : BOOLEAN]
           /\ form' \in Forms
           /\ form'.phase = "connecting" <=> form'.orphaned
<1> USE DEF Finish
<1>1. attempt' = NoAttempt /\ waiting' = {}
  OBVIOUS
<1>2. dialog' \in [key : Keys \cup {None}, reauthorize : BOOLEAN]
  BY DEF AccountInv, NoDialog
<1> DEFINE settled == IF waiting = {} THEN form ELSE [form EXCEPT !.phase = "idle"]
<1>3. settled \in Forms
  BY DEF FormInv, Forms
<1>4. settled.phase = "connecting" <=> settled.orphaned
  BY DEF FormInv, Forms
<1>5. form' = settled \/ (form' = Unmounted(settled) /\ waiting # {})
  OBVIOUS
<1>6. CASE form' = settled
  BY <1>1, <1>2, <1>3, <1>4, <1>6
<1>7. CASE form' = Unmounted(settled) /\ waiting # {}
  <2>1. settled.phase = "idle" /\ ~settled.orphaned
    BY <1>7 DEF FormInv, Forms
  <2> HIDE DEF settled
  <2>2. Unmounted(settled) = [settled EXCEPT !.password = FALSE, !.orphaned = FALSE]
    BY <1>3, <2>1 DEF Unmounted, Forms
  <2>3. /\ [settled EXCEPT !.password = FALSE, !.orphaned = FALSE] \in Forms
        /\ [settled EXCEPT !.password = FALSE, !.orphaned = FALSE].phase = "idle"
        /\ [settled EXCEPT !.password = FALSE, !.orphaned = FALSE].orphaned = FALSE
    BY <1>3, <2>1 DEF Forms
  <2> QED
    BY <1>1, <1>2, <1>7, <2>2, <2>3
<1> QED
  BY <1>5, <1>6, <1>7

\* The key of an account is one that exists, or a new one.
LEMMA ListedKeys ==
    ASSUME AccountInv, AccountsListed
    PROVE  \/ \E kind : Finish(kind) /\ UNCHANGED <<observed, status>>
           \/ \E key \in Keys :
                 /\ ~disposed /\ UNCHANGED <<form, dialog, waiting>>
                 /\ \E at \in {"authorize", "connect"} : attempt' = [attempt EXCEPT !.key = key, !.at = at]
                 /\ observed' = IF Observes(key) THEN key ELSE observed
                 /\ attempt.target = None /\ selected # None => key = selected
<1> DEFINE low == IF selected \in DOMAIN registered THEN selected ELSE Lowest(DOMAIN registered)
           known == CASE attempt.target # None -> attempt.target [] OTHER -> low
<1>1. low \in Keys \cup {None} /\ (selected # None => low = selected)
  <2>1. CASE DOMAIN registered = {}
    BY <2>1 DEF Lowest, AccountInv
  <2>2. CASE DOMAIN registered # {}
    BY <2>2, LowestIsMember DEF AccountInv
  <2> QED
    BY <2>1, <2>2
<1> HIDE DEF low
<1>2. known \in Keys \cup {None} /\ (attempt.target = None => known = low)
  BY <1>1 DEF AccountInv, Attempts
<1>3. PICK key \in IF known # None THEN {known} ELSE Keys \ (DOMAIN registered \cup creds \cup forgetting) :
         \/ /\ ~disposed
            /\ attempt' = [attempt EXCEPT !.key = key,
                  !.at = IF attempt.profile = "gmail" /\ (known = None \/ attempt.reauthorize)
                         THEN "authorize" ELSE "connect"]
            /\ observed' = IF Observes(key) THEN key ELSE observed
            /\ UNCHANGED <<form, dialog, waiting>>
         \/ Finish("other") /\ UNCHANGED <<observed, status>>
  BY DEF AccountsListed, low
<1> HIDE DEF known
<1>4. key \in Keys
  BY <1>2, <1>3
<1>5. attempt.target = None /\ selected # None => key = selected
  BY <1>1, <1>2, <1>3, NoneIsNoKey DEF AccountInv
<1> QED
  BY <1>3, <1>4, <1>5

\* What is shown of the accounts, and the keys of the attempt.
LEMMA AccountKept ==
    ASSUME AccountInv, FormInv, Account
    PROVE  AccountInv'
<1> DEFINE Same == UNCHANGED <<registered, accounts, selected, observed, disposed>>
           AttemptOK == /\ attempt' \in Attempts
                        /\ attempt'.at \notin {"none", "accounts"} => attempt'.key \in Keys
           DialogOK == dialog' \in [key : Keys \cup {None}, reauthorize : BOOLEAN]
<1>0. disposed' = disposed
  BY AccountLeavesMail
<1>1. ASSUME Same, AttemptOK, DialogOK PROVE AccountInv'
  BY <1>1 DEF AccountInv
<1>2. attempt' = attempt => AttemptOK
  BY DEF AccountInv
<1>3. dialog' = dialog => DialogOK
  BY DEF AccountInv
<1>4. NoAttempt \in Attempts /\ NoAttempt.at = "none"
      /\ NoDialog \in [key : Keys \cup {None}, reauthorize : BOOLEAN]
  BY DEF NoAttempt, Attempts, Profiles, NoDialog
<1>5. ASSUME NEW kind, Finish(kind) PROVE AttemptOK /\ DialogOK
  BY <1>4, <1>5, FinishEnds
<1>6. ASSUME NEW f \in BOOLEAN, attempt' = [attempt EXCEPT !.fresh = f] PROVE AttemptOK
  BY <1>6 DEF AccountInv, Attempts
<1>7. DOMAIN registered \subseteq Keys
  BY DEF AccountInv
<1>8. ShowAccounts => /\ accounts' = DOMAIN registered
                      /\ selected' \in DOMAIN registered \cup {None} /\ observed' = selected'
  <2>1. CASE DOMAIN registered = {}
    BY <2>1 DEF ShowAccounts, Lowest, AccountInv
  <2>2. CASE DOMAIN registered # {}
    BY <1>7, <2>2, LowestIsMember DEF ShowAccounts
  <2> QED
    BY <2>1, <2>2
<1>9. ASSUME ShowAccounts \/ UNCHANGED <<accounts, selected, observed>>, registered' = registered,
             AttemptOK, DialogOK
      PROVE  AccountInv'
  <2>1. CASE ShowAccounts
    BY <1>7, <1>8, <1>9, <2>1 DEF AccountInv
  <2>2. CASE UNCHANGED <<accounts, selected, observed>>
    BY <1>0, <1>1, <1>9, <2>2
  <2> QED
    BY <1>9, <2>1, <2>2
<1> HIDE DEF AttemptOK, DialogOK
<1>10. CASE TypePassword \/ \E k \in Keys : ForgetDone(k) \/ Expire(k)
  BY <1>0, <1>1, <1>2, <1>3, <1>10 DEF TypePassword, ForgetDone, Expire, screenVars, storeVars, formVars
<1>11. CASE Refresh \/ RefreshReturns
  BY <1>0, <1>1, <1>2, <1>3, <1>11 DEF Refresh, RefreshReturns, screenVars, storeVars, formVars
<1>12. CASE OpenReconnect
  <2>1. selected \in Keys \cup {None}
    BY DEF AccountInv
  <2>2. DialogOK /\ Same /\ attempt' = attempt
    BY <1>0, <1>12, <2>1 DEF OpenReconnect, NoDialog, DialogOK, screenVars, storeVars
  <2> QED
    BY <1>1, <1>2, <2>2
<1>13. CASE CloseDialog
  BY <1>0, <1>1, <1>2, <1>4, <1>13 DEF CloseDialog, DialogOK, screenVars, storeVars
<1>14. ASSUME NEW profile \in Profiles, Submit(profile) PROVE AccountInv'
  <2>1. dialog.key \in Keys \cup {None} /\ dialog.reauthorize \in BOOLEAN
    BY DEF AccountInv
  <2>2. attempt' = [NoAttempt EXCEPT !.at = "accounts", !.target = dialog.key, !.profile = profile,
                                     !.reauthorize = profile = "gmail" /\ dialog.reauthorize]
    BY <1>14 DEF Submit
  <2>3. AttemptOK
    BY <2>1, <2>2 DEF NoAttempt, Attempts, AttemptOK
  <2> QED
    BY <1>0, <1>1, <1>3, <1>14, <2>3 DEF Submit, screenVars, storeVars
<1>15. CASE AccountsListed
  <2>0. UNCHANGED <<registered, accounts, selected>>
    BY <1>15 DEF AccountsListed
  <2>1. ASSUME NEW kind, Finish(kind), UNCHANGED observed PROVE AccountInv'
    BY <1>0, <1>1, <1>5, <2>0, <2>1
  <2>2. ASSUME NEW key \in Keys, ~disposed, UNCHANGED dialog, NEW at \in {"authorize", "connect"},
               attempt' = [attempt EXCEPT !.key = key, !.at = at],
               observed' = IF Observes(key) THEN key ELSE observed,
               attempt.target = None /\ selected # None => key = selected
        PROVE  AccountInv'
    <3>1. AttemptOK
      BY <2>2 DEF AccountInv, Attempts, AttemptOK
    <3>2. ~disposed' /\ selected' # None => observed' = selected'
      BY <1>0, <2>0, <2>2 DEF AccountInv, Observes
    <3> QED
      BY <1>3, <2>0, <2>2, <3>1, <3>2 DEF AccountInv, AttemptOK, DialogOK
  <2> QED
    BY <1>15, <2>1, <2>2, ListedKeys
<1>16. CASE Authorized
  <2>1. Same
    BY <1>0, <1>16 DEF Authorized, screenVars
  <2>2. AttemptOK /\ DialogOK
    <3>1. ASSUME attempt' = [attempt EXCEPT !.at = "connect", !.cred = TRUE] PROVE AttemptOK
      BY <1>16, <3>1 DEF AccountInv, Attempts, AttemptOK, Authorized
    <3> QED
      BY <1>3, <1>5, <1>16, <3>1 DEF Authorized
  <2> QED
    BY <1>1, <2>1, <2>2
<1>17. CASE ConnectReturns \/ \E kind \in {"auth", "other"} : ConnectFails(kind)
  <2>1. UNCHANGED <<accounts, selected, observed>>
    BY <1>17 DEF ConnectReturns, ConnectFails
  <2>2. attempt.key \in Keys /\ attempt.at = "connect"
    BY <1>17 DEF AccountInv, ConnectReturns, ConnectFails
  <2>3. AttemptOK /\ DialogOK
    <3>1. ASSUME attempt' = [attempt EXCEPT !.at = "reread", !.fresh = TRUE] PROVE AttemptOK
      BY <2>2, <3>1 DEF AccountInv, Attempts, AttemptOK
    <3> QED
      BY <1>3, <1>5, <1>17, <3>1 DEF ConnectReturns, ConnectFails
  <2>4. DOMAIN registered \subseteq DOMAIN registered' /\ DOMAIN registered' \subseteq Keys
    BY <1>7, <1>17, <2>2 DEF ConnectReturns, ConnectFails
  <2> QED
    BY <1>0, <2>1, <2>3, <2>4 DEF AccountInv, AttemptOK, DialogOK
<1>18. CASE Reread
  <2>1. \E kind : Finish(kind)
    BY <1>18 DEF Reread
  <2>2. registered' = registered /\ (ShowAccounts \/ UNCHANGED <<accounts, selected, observed>>)
    BY <1>18 DEF Reread
  <2> QED
    BY <1>5, <1>9, <2>1, <2>2
<1>19. CASE FlushHint \/ RetryLocal
  BY <1>0, <1>1, <1>3, <1>6, <1>19 DEF FlushHint, RetryLocal, RefreshAccounts, storeVars
<1>20. ASSUME NEW r \in read, AccountsRead(r) PROVE AccountInv'
  <2>1. registered' = registered /\ (ShowAccounts \/ UNCHANGED <<accounts, selected, observed>>)
    BY <1>20 DEF AccountsRead, storeVars
  <2>2. AttemptOK /\ DialogOK
    BY <1>2, <1>3, <1>4, <1>20 DEF AccountsRead, DialogOK
  <2> QED
    BY <1>9, <2>1, <2>2
<1>21. ASSUME NEW k \in Keys, SelectAccount(k) PROVE AccountInv'
  BY <1>0, <1>2, <1>3, <1>21 DEF SelectAccount, AccountInv, AttemptOK, DialogOK, storeVars, formVars
<1> QED
  BY <1>10, <1>11, <1>12, <1>13, <1>14, <1>15, <1>16, <1>17, <1>18, <1>19, <1>20, <1>21 DEF Account

\* The form that waits for an attempt is told of its end, or has left the screen.
LEMMA FormKept ==
    ASSUME AccountInv, FormInv, Account
    PROVE  FormInv'
<1>1. ASSUME form' \in Forms, form'.phase = form.phase, form'.orphaned = form.orphaned,
             UNCHANGED <<waiting, dialog>>, attempt'.at = "none" <=> attempt.at = "none"
      PROVE  FormInv'
  BY <1>1 DEF FormInv
<1>2. ASSUME UNCHANGED <<form, waiting, dialog>>, attempt'.at = "none" <=> attempt.at = "none"
      PROVE  FormInv'
  BY <1>2 DEF FormInv
<1>3. ASSUME NEW kind, Finish(kind) PROVE FormInv'
  <2>1. attempt'.at = "none"
    BY <1>3, FinishEnds DEF NoAttempt
  <2> QED
    BY <1>3, <2>1, FinishEnds DEF FormInv
<1>4. CASE \/ \E k \in Keys : ForgetDone(k) \/ Expire(k) \/ SelectAccount(k)
           \/ Refresh \/ RefreshReturns
  BY <1>2, <1>4 DEF ForgetDone, Expire, SelectAccount, Refresh, RefreshReturns, formVars
<1>5. CASE TypePassword
  <2>1. form' = [form EXCEPT !.password = TRUE] /\ UNCHANGED <<waiting, dialog, attempt>>
    BY <1>5 DEF TypePassword
  <2>2. form' \in Forms /\ form'.phase = form.phase /\ form'.orphaned = form.orphaned
    BY <2>1 DEF FormInv, Forms
  <2> QED
    BY <1>1, <2>1, <2>2
<1>6. CASE OpenReconnect
  <2>1. dialog.key = None /\ UNCHANGED <<form, waiting, attempt>>
    BY <1>6 DEF OpenReconnect
  <2>2. \A w \in waiting : w.by # "shell"
    BY <2>1 DEF FormInv
  <2> QED
    BY <2>1, <2>2 DEF FormInv
<1>7. CASE CloseDialog
  <2>1. form.phase # "connecting" /\ form' = ResetForm /\ UNCHANGED <<waiting, attempt>>
    BY <1>7 DEF CloseDialog
  <2>2. attempt.at = "none" /\ waiting = {}
    BY <2>1 DEF FormInv
  <2>3. ResetForm \in Forms /\ ResetForm.phase = "idle" /\ ResetForm.orphaned = FALSE
    BY DEF ResetForm, Forms
  <2> QED
    BY <2>1, <2>2, <2>3 DEF FormInv
<1>8. ASSUME NEW profile \in Profiles, Submit(profile) PROVE FormInv'
  <2>1. /\ FormShown /\ form.phase # "connecting"
        /\ form' = [form EXCEPT !.phase = "connecting", !.password = profile = "local"]
        /\ waiting' = {[by |-> RootViewMode, profile |-> profile]}
        /\ attempt'.at = "accounts" /\ UNCHANGED dialog
    BY <1>8 DEF Submit, CanSubmit, NoAttempt
  <2>2. ~form.orphaned
    BY <2>1 DEF FormInv
  <2>3. form' \in Forms /\ form'.phase = "connecting" /\ form'.orphaned = form.orphaned
    BY <2>1 DEF FormInv, Forms
  <2>4. \A w \in waiting' : waiting' = {w} /\ (w.by = "shell" => dialog'.key # None)
    BY <2>1 DEF FormShown
  <2> QED
    BY <2>1, <2>2, <2>3, <2>4 DEF FormInv
<1>9. CASE AccountsListed
  <2>1. attempt.at = "accounts"
    BY <1>9 DEF AccountsListed
  <2>2. ASSUME NEW key, NEW at \in {"authorize", "connect"}, attempt' = [attempt EXCEPT !.key = key, !.at = at],
               UNCHANGED <<form, dialog, waiting>>
        PROVE  FormInv'
    <3>1. attempt'.at = at
      BY <2>2 DEF AccountInv, Attempts
    <3> QED
      BY <1>2, <2>1, <2>2, <3>1
  <2> QED
    BY <1>3, <1>9, <2>2, ListedKeys
<1>10. CASE Authorized
  <2>1. ASSUME attempt' = [attempt EXCEPT !.at = "connect", !.cred = TRUE], UNCHANGED <<form, dialog, waiting>>
        PROVE  FormInv'
    <3>1. attempt'.at = "connect" /\ attempt.at = "authorize"
      BY <1>10, <2>1 DEF AccountInv, Attempts, Authorized
    <3> QED
      BY <1>2, <2>1, <3>1
  <2> QED
    BY <1>3, <1>10, <2>1 DEF Authorized
<1>11. CASE ConnectReturns
  <2>1. ASSUME attempt' = [attempt EXCEPT !.at = "reread", !.fresh = TRUE],
               form' = [form EXCEPT !.password = FALSE], UNCHANGED <<dialog, waiting>>
        PROVE  FormInv'
    <3>1. attempt'.at = "reread" /\ attempt.at = "connect"
      BY <1>11, <2>1 DEF AccountInv, Attempts, ConnectReturns
    <3>2. form' \in Forms /\ form'.phase = form.phase /\ form'.orphaned = form.orphaned
      BY <2>1 DEF FormInv, Forms
    <3> QED
      BY <1>1, <2>1, <3>1, <3>2
  <2> QED
    BY <1>3, <1>11, <2>1 DEF ConnectReturns
<1>12. CASE Reread \/ \E kind \in {"auth", "other"} : ConnectFails(kind)
  BY <1>3, <1>12 DEF Reread, ConnectFails
<1>13. CASE FlushHint \/ RetryLocal
  <2>1. attempt' = [attempt EXCEPT !.fresh = FALSE] /\ UNCHANGED <<form, dialog, waiting>>
    BY <1>13 DEF FlushHint, RetryLocal, RefreshAccounts
  <2>2. attempt'.at = attempt.at
    BY <2>1 DEF AccountInv, Attempts
  <2> QED
    BY <1>2, <2>1, <2>2
<1>14. ASSUME NEW r \in read, AccountsRead(r) PROVE FormInv'
  <2>0. attempt' = attempt
    BY <1>14 DEF AccountsRead
  <2>1. CASE UNCHANGED <<form, dialog, waiting>>
    BY <1>2, <2>0, <2>1
  <2>2. CASE /\ form' = IF dialog.key # None THEN Unmounted(form) ELSE form
             /\ dialog' = NoDialog /\ waiting' = {w \in waiting : w.by # "shell"}
    <3>1. CASE \E w \in waiting : w.by = "shell"
      <4>1. waiting' = {} /\ dialog.key # None /\ form.phase = "connecting" /\ attempt.at # "none"
        BY <2>2, <3>1 DEF FormInv
      <4>2. form' = [form EXCEPT !.password = FALSE, !.orphaned = TRUE]
        BY <2>2, <3>1, <4>1 DEF Unmounted, FormInv, Forms
      <4>3. form' \in Forms /\ form'.phase = "connecting" /\ form'.orphaned = TRUE
        BY <4>1, <4>2 DEF FormInv, Forms
      <4> QED
        BY <2>0, <4>1, <4>3 DEF FormInv
    <3>2. CASE ~\E w \in waiting : w.by = "shell"
      <4>1. waiting' = waiting
        BY <2>2, <3>2
      <4>2. form' \in Forms /\ form'.phase = form.phase /\ form'.orphaned = form.orphaned
        <5>1. CASE dialog.key = None
          BY <2>2, <5>1 DEF FormInv
        <5>2. CASE dialog.key # None
          <6>1. form' = [form EXCEPT !.password = FALSE, !.orphaned = form.orphaned]
            BY <2>2, <3>2, <5>2 DEF Unmounted, FormInv, Forms
          <6> QED
            BY <6>1 DEF FormInv, Forms
        <5> QED
          BY <5>1, <5>2
      <4> QED
        BY <2>0, <3>2, <4>1, <4>2 DEF FormInv
    <3> QED
      BY <3>1, <3>2
  <2> QED
    BY <1>14, <2>1, <2>2 DEF AccountsRead
<1> QED
  BY <1>4, <1>5, <1>6, <1>7, <1>8, <1>9, <1>10, <1>11, <1>12, <1>13, <1>14 DEF Account

\* Every way out of an attempt leaves the credential with an account or forgets it.
LEMMA CredentialKept ==
    ASSUME AccountInv, FormInv, CredentialInv, Account
    PROVE  CredentialInv'
<1> DEFINE Held == IF attempt.at = "connect" /\ attempt.cred THEN {attempt.key} ELSE {}
<1>0. creds \subseteq DOMAIN registered \cup forgetting \cup stranded \cup Held
  BY DEF CredentialInv
<1>1. ASSUME UNCHANGED <<creds, registered, forgetting, stranded>>, attempt.at # "connect"
      PROVE  CredentialInv'
  BY <1>0, <1>1 DEF CredentialInv
<1>2. ASSUME UNCHANGED <<creds, registered, forgetting, stranded>>, attempt'.at = attempt.at,
             attempt'.cred = attempt.cred, attempt'.key = attempt.key
      PROVE  CredentialInv'
  BY <1>2 DEF CredentialInv
<1>3. CASE TypePassword \/ OpenReconnect \/ CloseDialog \/ Refresh \/ RefreshReturns
           \/ \E k \in Keys : Expire(k) \/ SelectAccount(k)
  BY <1>2, <1>3 DEF TypePassword, OpenReconnect, CloseDialog, Refresh, RefreshReturns, Expire, SelectAccount,
                    storeVars, formVars
<1>4. ASSUME NEW profile \in Profiles, Submit(profile) PROVE CredentialInv'
  BY <1>1, <1>4 DEF Submit, CanSubmit, FormInv, storeVars
<1>5. CASE AccountsListed
  BY <1>1, <1>5 DEF AccountsListed
<1>6. CASE Authorized
  <2>1. registered' = registered /\ attempt.at = "authorize"
    BY <1>6 DEF Authorized
  <2>2. CASE /\ creds' = creds \cup {attempt.key} /\ forgetting' = forgetting \cup {attempt.key}
             /\ stranded' = stranded \ {attempt.key}
    BY <1>0, <2>1, <2>2 DEF CredentialInv
  <2>3. CASE /\ creds' = creds \cup {attempt.key} /\ forgetting' = forgetting
             /\ stranded' = stranded \ {attempt.key}
             /\ attempt' = [attempt EXCEPT !.at = "connect", !.cred = TRUE]
    <3>1. attempt'.at = "connect" /\ attempt'.cred = TRUE /\ attempt'.key = attempt.key
      BY <2>3 DEF AccountInv, Attempts
    <3> QED
      BY <1>0, <2>1, <2>3, <3>1 DEF CredentialInv
  <2>4. CASE UNCHANGED <<creds, forgetting, stranded>>
    BY <1>1, <2>1, <2>4
  <2> QED
    BY <1>6, <2>2, <2>3, <2>4 DEF Authorized, Forget
<1>7. CASE ConnectReturns
  <2>1. /\ UNCHANGED <<creds, stranded>> /\ forgetting \subseteq forgetting'
        /\ DOMAIN registered' = DOMAIN registered \cup {attempt.key}
    BY <1>7 DEF ConnectReturns, Forget
  <2> QED
    BY <1>0, <2>1 DEF CredentialInv
<1>8. ASSUME NEW kind, ConnectFails(kind) PROVE CredentialInv'
  <2>1. UNCHANGED <<creds, stranded>> /\ DOMAIN registered \subseteq DOMAIN registered'
    BY <1>8 DEF ConnectFails
  <2>2. forgetting' = IF attempt.cred THEN forgetting \cup {attempt.key} ELSE forgetting
    BY <1>8 DEF ConnectFails, Forget
  <2> QED
    BY <1>0, <2>1, <2>2 DEF CredentialInv
<1>9. CASE Reread
  <2>1. /\ UNCHANGED <<creds, registered, stranded>> /\ attempt.at = "reread" /\ forgetting \subseteq forgetting'
    BY <1>9 DEF Reread, Forget
  <2> QED
    BY <1>0, <2>1 DEF CredentialInv
<1>10. ASSUME NEW k \in Keys, ForgetDone(k) PROVE CredentialInv'
  BY <1>10 DEF ForgetDone, CredentialInv, formVars
<1>11. CASE FlushHint \/ RetryLocal
  <2>1. attempt' = [attempt EXCEPT !.fresh = FALSE] /\ UNCHANGED <<creds, registered, forgetting, stranded>>
    BY <1>11 DEF FlushHint, RetryLocal, RefreshAccounts, storeVars
  <2>2. attempt'.at = attempt.at /\ attempt'.cred = attempt.cred /\ attempt'.key = attempt.key
    BY <2>1 DEF AccountInv, Attempts
  <2> QED
    BY <1>2, <2>1, <2>2
<1>12. ASSUME NEW r \in read, AccountsRead(r) PROVE CredentialInv'
  BY <1>2, <1>12 DEF AccountsRead, storeVars
<1> QED
  BY <1>3, <1>4, <1>5, <1>6, <1>7, <1>8, <1>9, <1>10, <1>11, <1>12 DEF Account

\* Only the account being refreshed is shown as such.
LEMMA ActivityKept ==
    ASSUME ActivityInv, Account
    PROVE  ActivityInv'
<1>0. disposed' = disposed
  BY AccountLeavesMail
<1>1. CASE UNCHANGED refreshVars
  BY <1>0, <1>1 DEF ActivityInv, refreshVars
<1>2. CASE Refresh
  <2>1. /\ ~disposed
        /\ IF refreshing = None
           THEN refreshing' = selected /\ activity' = [activity EXCEPT ![selected] = "refreshing"]
           ELSE /\ activity' = IF refreshing = selected THEN activity
                               ELSE [activity EXCEPT ![selected] = "error"]
                /\ UNCHANGED refreshing
    BY <1>2 DEF Refresh, AccountAct
  <2>2. CASE refreshing = None
    BY <1>0, <2>1, <2>2, NoneIsNoKey DEF ActivityInv
  <2>3. CASE refreshing # None
    BY <1>0, <2>1, <2>3 DEF ActivityInv
  <2> QED
    BY <2>2, <2>3
<1>3. CASE RefreshReturns
  <2>1. PICK phase \in {"idle", "error"} :
             activity' = IF disposed THEN activity ELSE [activity EXCEPT ![refreshing] = phase]
    BY <1>3 DEF RefreshReturns
  <2> QED
    BY <1>0, <2>1 DEF ActivityInv
<1>4. Refresh \/ RefreshReturns \/ UNCHANGED refreshVars
  BY DEF Account, TypePassword, OpenReconnect, CloseDialog, Submit, AccountsListed, Authorized,
         ConnectReturns, Reread, ConnectFails, ForgetDone, SelectAccount, Expire, FlushHint, RetryLocal,
         AccountsRead
<1> QED
  BY <1>1, <1>2, <1>3, <1>4

(***************************************************************************)
(* The mail.                                                                *)
(***************************************************************************)
\* A composer that is queueing has its send.
LEMMA SendKept ==
    ASSUME SendInv, Mail
    PROVE  SendInv'
<1>1. CASE UNCHANGED sendVars
  BY <1>1 DEF SendInv, SendsInProgress, sendVars
<1>2. ASSUME NEW d \in Drafts, Compose(d) PROVE SendInv'
  BY <1>2 DEF Compose, SendInv, SendsInProgress
<1>3. CASE CloseComposer
  BY <1>3 DEF CloseComposer, SendInv, SendsInProgress, Closed
<1>4. ASSUME NEW c \in Commands, PressSend(c) PROVE SendInv'
  <2>1. CASE /\ composer' = [composer EXCEPT !.phase = "queueing"]
             /\ command' = [command EXCEPT ![c] = [at |-> "identities", kind |-> "send",
                                                   to |-> composer.content, content |-> None]]
    <3>1. command' \in [Commands -> CommandTypes] /\ command'[c].at = "identities" /\ command'[c].kind = "send"
          /\ \A d \in Commands \ {c} : command'[d] = command[d]
      BY <2>1 DEF SendInv, CommandTypes
    <3>2. c \in SendsInProgress'
      BY <3>1 DEF SendsInProgress
    <3> QED
      BY <2>1, <3>1, <3>2 DEF SendInv
  <2>2. CASE composer' = [composer EXCEPT !.phase = "error"] /\ UNCHANGED command
    BY <2>2 DEF SendInv, SendsInProgress
  <2> QED
    BY <1>4, <2>1, <2>2 DEF PressSend
<1>5. ASSUME NEW c \in Commands, IdentitiesListed(c) PROVE SendInv'
  <2>1. CASE /\ command' = [command EXCEPT ![c].at = "stage", ![c].content = composer.content]
             /\ UNCHANGED composer
    <3> DEFINE K == [command EXCEPT ![c].at = "stage"]
    <3>1. K \in [Commands -> CommandTypes] /\ K[c].at = "stage" /\ K[c].kind = command[c].kind
          /\ \A d \in Commands \ {c} : K[d] = command[d]
      BY DEF SendInv, CommandTypes
    <3>2. command' = [K EXCEPT ![c].content = composer.content]
      BY <2>1
    <3> HIDE DEF K
    <3>3. command' \in [Commands -> CommandTypes] /\ command'[c].at = "stage"
          /\ command'[c].kind = command[c].kind /\ \A d \in Commands \ {c} : command'[d] = command[d]
      BY <3>1, <3>2 DEF SendInv, CommandTypes
    <3>4. SendsInProgress \subseteq SendsInProgress'
      BY <3>3 DEF SendsInProgress
    <3> QED
      BY <2>1, <3>3, <3>4 DEF SendInv
  <2>2. CASE command' = [command EXCEPT ![c].at = "done"] /\ composer' = [composer EXCEPT !.phase = "error"]
    BY <2>2 DEF SendInv, CommandTypes
  <2> QED
    BY <1>5, <2>1, <2>2 DEF IdentitiesListed
<1>6. ASSUME NEW c \in Commands, NEW at \in {"stage", "memberships"}, NEW kind \in {"keyword", "move"},
             command[c].at = "none", at = "memberships" => kind = "move",
             command' = [command EXCEPT ![c].at = at, ![c].kind = kind], UNCHANGED composer
      PROVE  SendInv'
  <2> DEFINE K == [command EXCEPT ![c].at = at]
  <2>1. K \in [Commands -> CommandTypes] /\ K[c].at = at /\ \A d \in Commands \ {c} : K[d] = command[d]
    BY DEF SendInv, CommandTypes
  <2>2. command' = [K EXCEPT ![c].kind = kind]
    BY <1>6
  <2> HIDE DEF K
  <2>3. command' \in [Commands -> CommandTypes] /\ command'[c].at = at
        /\ command'[c].kind = kind /\ \A d \in Commands \ {c} : command'[d] = command[d]
    BY <2>1, <2>2 DEF CommandTypes
  <2>4. command[c].kind = "none"
    BY <1>6 DEF SendInv
  <2>5. SendsInProgress \subseteq SendsInProgress'
    BY <2>3, <2>4 DEF SendsInProgress
  <2> QED
    BY <1>6, <2>3, <2>5 DEF SendInv
<1>7. ASSUME NEW c \in Commands, Toggle(c) PROVE SendInv'
  BY <1>6, <1>7 DEF Toggle
<1>8. ASSUME NEW c \in Commands, Move(c) PROVE SendInv'
  BY <1>6, <1>8 DEF Move
<1>9. ASSUME NEW c \in Commands, MembershipsRead(c) PROVE SendInv'
  <2>1. PICK at \in {"stage", "done"} : command' = [command EXCEPT ![c].at = at]
    BY <1>9 DEF MembershipsRead
  <2>2. command[c].kind = "move" /\ UNCHANGED composer
    BY <1>9 DEF MembershipsRead, SendInv
  <2>3. command' \in [Commands -> CommandTypes] /\ command'[c].at = at /\ command'[c].kind = "move"
        /\ \A d \in Commands \ {c} : command'[d] = command[d]
    BY <2>1, <2>2 DEF SendInv, CommandTypes
  <2>4. SendsInProgress \subseteq SendsInProgress'
    BY <2>2, <2>3 DEF SendsInProgress
  <2> QED
    BY <2>2, <2>3, <2>4 DEF SendInv
<1>10. ASSUME NEW c \in Commands, Staged(c) PROVE SendInv'
  <2>1. /\ command' = [command EXCEPT ![c].at = "done"]
        /\ \/ composer' = IF command[c].kind = "send" THEN Closed ELSE composer
           \/ composer' = IF command[c].kind = "send" THEN [composer EXCEPT !.phase = "error"] ELSE composer
    BY <1>10 DEF Staged
  <2>2. command' \in [Commands -> CommandTypes] /\ command'[c].at = "done" /\ command'[c].kind = command[c].kind
        /\ \A d \in Commands \ {c} : command'[d] = command[d]
    BY <2>1 DEF SendInv, CommandTypes
  <2>3. composer' \in [content : Drafts \cup {None}, phase : {"idle", "editing", "queueing", "error"}]
    BY <2>1 DEF SendInv, Closed
  <2>4. CASE command[c].kind = "send"
    <3>1. composer'.phase # "queueing"
      BY <2>1, <2>4 DEF SendInv, Closed
    <3> QED
      BY <2>2, <2>3, <3>1 DEF SendInv
  <2>5. CASE command[c].kind # "send"
    <3>1. SendsInProgress \subseteq SendsInProgress' /\ composer' = composer
      BY <2>1, <2>2, <2>5 DEF SendsInProgress
    <3> QED
      BY <2>2, <2>3, <3>1 DEF SendInv
  <2> QED
    BY <2>4, <2>5
<1>11. \/ UNCHANGED sendVars
       \/ (\E d \in Drafts : Compose(d)) \/ CloseComposer
       \/ \E c \in Commands : PressSend(c) \/ IdentitiesListed(c) \/ Toggle(c) \/ Move(c)
                              \/ MembershipsRead(c) \/ Staged(c)
  BY DEF Mail, RetryRun, Claim, RunnerReturns, RunnerThrows, FlushRowHint, Answer, Resume
<1> QED
  BY <1>1, <1>2, <1>3, <1>4, <1>5, <1>7, <1>8, <1>9, <1>10, <1>11

\* A command that has ended does not start again.
LEMMA CommandsEnd ==
    ASSUME SendInv, Mail
    PROVE  \A c \in Commands : command'[c].at # "done" => command[c].at # "done"
<1>1. CASE UNCHANGED command
  BY <1>1
<1>2. ASSUME NEW c \in Commands, command[c].at # "done", \A d \in Commands \ {c} : command'[d] = command[d]
      PROVE  \A d \in Commands : command'[d].at # "done" => command[d].at # "done"
  BY <1>2
<1>3. ASSUME NEW c \in Commands,
             PressSend(c) \/ IdentitiesListed(c) \/ Toggle(c) \/ Move(c) \/ MembershipsRead(c) \/ Staged(c)
      PROVE  command[c].at # "done" /\ \A d \in Commands \ {c} : command'[d] = command[d]
  BY <1>3 DEF SendInv, PressSend, IdentitiesListed, Toggle, Move, MembershipsRead, Staged
<1>4. \/ UNCHANGED command
      \/ \E c \in Commands : PressSend(c) \/ IdentitiesListed(c) \/ Toggle(c) \/ Move(c)
                             \/ MembershipsRead(c) \/ Staged(c)
  BY DEF Mail, Compose, CloseComposer, RetryRun, Claim, RunnerReturns, RunnerThrows, FlushRowHint, Answer,
         Resume, sendVars
<1> QED
  BY <1>1, <1>2, <1>3, <1>4

\* A new read supersedes the others: no list that it leaves on its way says anything.
LEMMA IssueReads ==
    ASSUME RunTypes, ReadsInv, NEW what \in {"before", "after", "hint"}, NEW c \in Commands \cup {None},
           run' \in [Commands -> Runs],
           what # "hint" => c \in Commands /\ run'[c].at = what /\ run[c].at \notin {"before", "after"},
           \A d \in Commands : (what # "hint" /\ d = c) \/ run'[d].at = run[d].at,
           reads' = Issue(what, c)
    PROVE  /\ reads' \subseteq Reads /\ ReadsInv'
           /\ \A r \in reads' : \A d \in Commands : r.snap[d] = "none"
<1> DEFINE old(q) == [q EXCEPT !.fresh = FALSE, !.answered = TRUE, !.snap = NoRows]
           new == [for |-> what, of |-> c, answered |-> FALSE, snap |-> NoRows, fresh |-> TRUE]
<1>1. NoRows \in [Commands -> Rows] /\ \A d \in Commands : NoRows[d] = "none"
  BY DEF NoRows, Rows
<1>2. reads' = {old(q) : q \in {p \in reads : p.for # "hint"}} \cup {new}
  BY Zenon DEF Issue
<1>3. new \in Reads /\ new.snap = NoRows /\ new.for = what /\ new.of = c
  BY <1>1 DEF Reads
<1>4. ASSUME NEW q \in reads
      PROVE  old(q) \in Reads /\ old(q).for = q.for /\ old(q).of = q.of /\ old(q).snap = NoRows
  <2>1. q \in Reads
    BY DEF RunTypes
  <2> QED
    BY <1>1, <2>1 DEF Reads
<1> HIDE DEF old, new
<1>5. \A r \in reads' : r = new \/ \E q \in reads : q.for # "hint" /\ r = old(q)
  BY <1>2
<1>6. reads' \subseteq Reads
  BY <1>3, <1>4, <1>5
<1>7. \A r \in reads' : \A d \in Commands : r.snap[d] = "none"
  BY <1>1, <1>3, <1>4, <1>5
<1>8. ASSUME NEW q \in reads, q.for # "hint"
      PROVE  /\ q.of \in Commands /\ run'[q.of].at = q.for
             /\ what # "hint" => q.of # c
  <2>1. q.for \in {"before", "after"} /\ q.of \in Commands /\ run[q.of].at = q.for
    BY <1>8 DEF RunTypes, Reads, ReadsInv
  <2> QED
    BY <2>1
<1>9. ASSUME NEW r \in reads', r.for # "hint" PROVE r.of \in Commands /\ run'[r.of].at = r.for
  BY <1>3, <1>4, <1>5, <1>8, <1>9
<1>10. ASSUME NEW r \in reads', NEW q \in reads', r.for # "hint", r.for = q.for, r.of = q.of
       PROVE  r = q
  BY <1>3, <1>4, <1>5, <1>8, <1>10 DEF ReadsInv
<1> QED
  BY <1>6, <1>7, <1>9, <1>10 DEF ReadsInv

\* A run goes on to its next read of the statuses, and may have changed its row.
LEMMA RunGoesOn ==
    ASSUME RunInv, NEW c \in Commands, NEW what \in {"before", "after"},
           run' \in [Commands -> Runs], run'[c].at = what, run[c].at \notin {"before", "after"},
           \A d \in Commands \ {c} : run'[d] = run[d],
           reads' = Issue(what, c), UNCHANGED <<shown, confirmed>>,
           row' \in [Commands -> Rows], \A d \in Commands \ {c} : row'[d] = row[d],
           command'[c].at = "done",
           \A d \in Commands : command'[d].at # "done" => command[d].at # "done",
           Gone(c)' => row'[c] = "none"
    PROVE  RunInv'
<1> USE DEF RunInv
<1>1. /\ reads' \subseteq Reads /\ ReadsInv'
      /\ \A r \in reads' : \A d \in Commands : r.snap[d] = "none"
  BY IssueReads DEF RunTypes
<1>2. RunTypes'
  BY <1>1 DEF RunTypes
<1>3. UnstagedInv'
  BY <1>1 DEF UnstagedInv
<1>4. \A d \in Commands \ {c} : Gone(d)' => Gone(d)
  BY DEF Gone
<1>5. GoneInv'
  BY <1>1, <1>4 DEF GoneInv
<1> QED
  BY <1>1, <1>2, <1>3, <1>5

\* The commands alone do not touch the runs.
LEMMA CommandsKeepRuns ==
    ASSUME RunInv, UNCHANGED runVars,
           \A d \in Commands : command'[d].at # "done" => command[d].at # "done"
    PROVE  RunInv'
<1> USE DEF RunInv, runVars
<1>1. RunTypes' /\ ReadsInv'
  BY DEF RunTypes, ReadsInv
<1>2. UnstagedInv'
  BY DEF UnstagedInv
<1>3. GoneInv'
  BY DEF GoneInv, Gone
<1> QED
  BY <1>1, <1>2, <1>3

\* The store answers a read: with the rows as they are.
LEMMA AnswerKeepsRuns ==
    ASSUME RunInv, NEW r \in reads, Answer(r)
    PROVE  RunInv'
<1> USE DEF RunInv
<1> DEFINE a == [r EXCEPT !.answered = TRUE, !.snap = row]
<1>1. /\ reads' = (reads \ {r}) \cup {a}
      /\ UNCHANGED <<command, row, run, shown, confirmed>>
  BY DEF Answer, sendVars
<1>2. r \in Reads /\ row \in [Commands -> Rows]
  BY DEF RunTypes
<1>3. a \in Reads /\ a.for = r.for /\ a.of = r.of /\ a.snap = row
  BY <1>2 DEF Reads
<1> HIDE DEF a
<1>4. RunTypes'
  BY <1>1, <1>3 DEF RunTypes
<1>5. ReadsInv'
  BY <1>1, <1>3 DEF ReadsInv
<1>6. UnstagedInv'
  BY <1>1, <1>3 DEF UnstagedInv
<1>7. GoneInv'
  BY <1>1, <1>3 DEF GoneInv, Gone
<1> QED
  BY <1>4, <1>5, <1>6, <1>7

\* What the run of a read does when it goes on.
LEMMA ContinueCases ==
    ASSUME RunInv, NEW r \in reads, NEW ok \in BOOLEAN, Continue(r, ok)
    PROVE  \/ r.for = "hint" /\ UNCHANGED <<run, confirmed>>
           \/ /\ r.of \in Commands /\ run[r.of].at = r.for
              /\ run' \in [Commands -> Runs] /\ \A d \in Commands \ {r.of} : run'[d] = run[d]
              /\ run'[r.of].at \in {"none", "runner"}
              /\ \/ UNCHANGED confirmed
                 \/ /\ confirmed' = confirmed \cup {r.of}
                    /\ ok /\ run[r.of].at = "after" /\ run[r.of].outcome = "confirmed"
                    /\ r.snap[r.of] = "none"
<1> USE DEF RunInv
<1>1. r.for \in {"before", "after", "hint"}
  BY DEF RunTypes, Reads
<1>2. CASE r.for = "hint"
  BY <1>2 DEF Continue
<1>3. CASE r.for # "hint"
  <2>0. r.of \in Commands /\ run[r.of].at = r.for /\ run \in [Commands -> Runs]
    BY <1>3 DEF RunTypes, ReadsInv
  <2>1. CASE r.for = "before"
    <3> DEFINE at == IF disposed THEN "none" ELSE "runner"
               known == ok /\ r.snap[r.of] # "none"
    <3>1. run' = [run EXCEPT ![r.of] = [@ EXCEPT !.at = at, !.known = known]] /\ UNCHANGED confirmed
      BY <2>1 DEF Continue
    <3>2. at \in {"none", "runner"} /\ known \in BOOLEAN
      OBVIOUS
    <3> HIDE DEF at, known
    <3>3. [run[r.of] EXCEPT !.at = at, !.known = known] \in Runs
          /\ [run[r.of] EXCEPT !.at = at, !.known = known].at = at
      BY <2>0, <3>2 DEF Runs
    <3> QED
      BY <2>0, <3>1, <3>2, <3>3
  <2>2. CASE r.for = "after"
    <3>1. /\ run' = [run EXCEPT ![r.of].at = "none"]
          /\ confirmed' = IF run[r.of].outcome = "confirmed" /\ run[r.of].known /\ ok /\ r.snap[r.of] = "none"
                          THEN confirmed \cup {r.of} ELSE confirmed
      BY <2>2 DEF Continue
    <3>2. run' \in [Commands -> Runs] /\ run'[r.of].at = "none" /\ \A d \in Commands \ {r.of} : run'[d] = run[d]
      BY <2>0, <3>1 DEF Runs
    <3> QED
      BY <2>0, <2>2, <3>1, <3>2
  <2> QED
    BY <1>1, <1>3, <2>1, <2>2
<1> QED
  BY <1>2, <1>3

\* A read resumes: what it stores is no older than any confirmation.
LEMMA ResumeKeepsRuns ==
    ASSUME RunInv, NEW r \in reads, Resume(r)
    PROVE  RunInv'
<1> USE DEF RunInv
<1>1. r.answered /\ reads' = reads \ {r} /\ UNCHANGED <<command, row>>
  BY DEF Resume, sendVars
<1>2. PICK ok \in BOOLEAN : /\ Continue(r, ok)
                            /\ ok => r.fresh /\ shown' = r.snap
                            /\ ~ok => shown' = shown
  BY DEF Resume, SetStatuses
<1>3. r \in Reads
  BY DEF RunTypes
<1>4. shown' \in [Commands -> Rows]
  BY <1>2, <1>3 DEF RunTypes, Reads
<1>5. CASE r.for = "hint" /\ UNCHANGED <<run, confirmed>>
  <2>1. RunTypes' /\ ReadsInv'
    BY <1>1, <1>4, <1>5 DEF RunTypes, ReadsInv
  <2>2. UnstagedInv'
    BY <1>1, <1>2, <1>5 DEF UnstagedInv
  <2>3. \A c \in confirmed : Gone(c) /\ c \in Commands
    BY DEF Gone, RunTypes
  <2>4. GoneInv'
    BY <1>1, <1>2, <1>5, <2>3 DEF GoneInv, Gone
  <2> QED
    BY <2>1, <2>2, <2>4
<1>6. CASE /\ r.of \in Commands /\ run[r.of].at = r.for /\ r.for # "hint"
           /\ run' \in [Commands -> Runs] /\ \A d \in Commands \ {r.of} : run'[d] = run[d]
           /\ run'[r.of].at \in {"none", "runner"}
           /\ \/ UNCHANGED confirmed
              \/ /\ confirmed' = confirmed \cup {r.of}
                 /\ ok /\ run[r.of].at = "after" /\ run[r.of].outcome = "confirmed"
                 /\ r.snap[r.of] = "none"
  <2>1. RunTypes'
    BY <1>1, <1>4, <1>6 DEF RunTypes
  <2>2. ASSUME NEW q \in reads', q.for # "hint" PROVE q.of \in Commands /\ run'[q.of].at = q.for
    <3>1. q \in reads /\ q # r /\ q.of \in Commands /\ run[q.of].at = q.for
      BY <1>1, <2>2 DEF ReadsInv
    <3>2. q.of # r.of
      BY <1>6, <2>2, <3>1 DEF ReadsInv
    <3> QED
      BY <1>6, <3>1, <3>2
  <2>3. ReadsInv'
    BY <1>1, <2>2 DEF ReadsInv
  <2>4. run[r.of].at # "none"
    <3>1. r.for \in {"before", "after", "hint"}
      BY <1>3 DEF Reads
    <3> QED
      BY <1>6, <3>1
  <2>5. command[r.of].at = "done"
    BY <1>6, <2>4 DEF UnstagedInv
  <2>6. UnstagedInv'
    BY <1>1, <1>2, <1>6, <2>5 DEF UnstagedInv
  <2>7. \A c \in Commands : Gone(c)' => Gone(c)
    BY <1>6 DEF Gone
  <2>8. \A c \in confirmed' : shown'[c] = "none"
    <3>1. \A c \in confirmed : shown'[c] = "none"
      BY <1>1, <1>2 DEF GoneInv, Gone, RunTypes
    <3> QED
      BY <1>2, <1>6, <3>1
  <2>9. GoneInv'
    BY <1>1, <2>7, <2>8 DEF GoneInv
  <2> QED
    BY <2>1, <2>3, <2>6, <2>9
<1>7. r.for # "hint" \/ (r.for = "hint" /\ UNCHANGED <<run, confirmed>>)
  BY <1>2 DEF Continue
<1> QED
  BY <1>2, <1>5, <1>6, <1>7, ContinueCases

\* The runner claims an attempt.
LEMMA ClaimKeepsRuns ==
    ASSUME RunInv, NEW c \in Commands, Claim(c)
    PROVE  RunInv'
<1> USE DEF RunInv
<1>1. /\ run[c].at = "runner" /\ row[c] \in {"pending", "retrying"}
      /\ row' = [row EXCEPT ![c] = "inFlight"] /\ run' = [run EXCEPT ![c].at = "working"]
      /\ UNCHANGED <<command, reads, shown, confirmed>>
  BY DEF Claim, sendVars
<1>2. /\ run' \in [Commands -> Runs] /\ run'[c].at = "working" /\ \A d \in Commands \ {c} : run'[d] = run[d]
      /\ row' \in [Commands -> Rows] /\ \A d \in Commands \ {c} : row'[d] = row[d]
  BY <1>1 DEF RunTypes, Runs, Rows
<1>3. RunTypes'
  BY <1>1, <1>2 DEF RunTypes
<1>4. ASSUME NEW q \in reads, q.for # "hint" PROVE q.of # c
  <2>1. q.for \in {"before", "after", "hint"}
    BY DEF RunTypes, Reads
  <2> QED
    BY <1>1, <1>4, <2>1 DEF ReadsInv
<1>5. ReadsInv'
  BY <1>1, <1>2, <1>4 DEF ReadsInv
<1>6. UnstagedInv'
  BY <1>1, <1>2 DEF UnstagedInv
<1>7. ~Gone(c)
  BY <1>1 DEF GoneInv
<1>8. \A d \in Commands : Gone(d)' => Gone(d)
  BY <1>1, <1>2 DEF Gone
<1>9. GoneInv'
  BY <1>1, <1>2, <1>7, <1>8 DEF GoneInv
<1> QED
  BY <1>3, <1>5, <1>6, <1>9

\* What the runner returns: only a mutation that is gone is reported as confirmed.
LEMMA ResultCases ==
    ASSUME NEW c \in Commands, row[c] \in Rows, run[c].at \in {"runner", "working"},
           NEW result \in RunnerResults(c)
    PROVE  /\ result.row \in Rows
           /\ result.outcome \in {"skipped", "needsReconciliation", "confirmed", "retrying", "failedTerminal"}
           /\ result.outcome = "confirmed" => result.row = "none"
           /\ row[c] = "none" => result.row = "none"
<1>1. CASE run[c].at = "runner" /\ row[c] \in {"none", "pending", "retrying", "failedTerminal"}
  BY <1>1 DEF RunnerResults, Rows
<1>2. CASE row[c] = "confirmed"
  BY <1>2 DEF RunnerResults, Rows
<1>3. CASE row[c] = "inFlight"
  BY <1>3 DEF RunnerResults, Rows
<1>4. CASE run[c].at = "working" /\ row[c] \in {"none", "pending", "retrying", "failedTerminal"}
  BY <1>4 DEF RunnerResults, Rows
<1> QED
  BY <1>1, <1>2, <1>3, <1>4 DEF Rows

\* The runner returns or throws.
LEMMA RunnerKeepsRuns ==
    ASSUME RunInv, NEW c \in Commands, RunnerReturns(c) \/ RunnerThrows(c)
    PROVE  RunInv'
<1> USE DEF RunInv
<1>1. /\ run[c].at \in {"runner", "working"} /\ UNCHANGED <<command, shown, confirmed>>
  BY DEF RunnerReturns, RunnerThrows, sendVars
<1>2. command[c].at = "done"
  BY <1>1 DEF UnstagedInv
<1>3. CASE RunnerReturns(c)
  <2>1. PICK result \in RunnerResults(c) :
          /\ row' = [row EXCEPT ![c] = result.row]
          /\ run' = [run EXCEPT ![c].at = IF disposed THEN "none" ELSE "after", ![c].outcome = result.outcome]
    BY <1>3 DEF RunnerReturns
  <2>2. reads' = IF disposed THEN reads ELSE Issue("after", c)
    BY <1>3 DEF RunnerReturns
  <2>3. /\ result.row \in Rows
        /\ result.outcome \in {"skipped", "needsReconciliation", "confirmed", "retrying", "failedTerminal"}
        /\ result.outcome = "confirmed" => result.row = "none"
        /\ row[c] = "none" => result.row = "none"
    BY <1>1, ResultCases DEF RunTypes
  <2> DEFINE at == IF disposed THEN "none" ELSE "after"
             R == [run EXCEPT ![c].at = at]
  <2>4. R \in [Commands -> Runs] /\ R[c].at = at /\ \A d \in Commands \ {c} : R[d] = run[d]
    BY DEF RunTypes, Runs
  <2>5. run' = [R EXCEPT ![c].outcome = result.outcome]
    BY <2>1
  <2> HIDE DEF R
  <2>6. /\ run' \in [Commands -> Runs] /\ run'[c].at = at /\ run'[c].outcome = result.outcome
        /\ \A d \in Commands \ {c} : run'[d] = run[d]
    BY <2>3, <2>4, <2>5 DEF Runs
  <2>7. row' \in [Commands -> Rows] /\ row'[c] = result.row /\ \A d \in Commands \ {c} : row'[d] = row[d]
    BY <2>1, <2>3 DEF RunTypes
  <2>8. Gone(c)' => row'[c] = "none"
    BY <1>1, <2>3, <2>6, <2>7 DEF Gone, GoneInv
  <2>9. CASE ~disposed
    BY <1>1, <1>2, <2>2, <2>6, <2>7, <2>8, <2>9, RunGoesOn
  <2>10. CASE disposed
    <3>1. reads' = reads /\ run'[c].at = "none"
      BY <2>2, <2>6, <2>10
    <3>2. RunTypes'
      BY <1>1, <2>6, <2>7, <3>1 DEF RunTypes
    <3>3. ASSUME NEW q \in reads, q.for # "hint" PROVE q.of # c
      <4>1. q.for \in {"before", "after", "hint"}
        BY DEF RunTypes, Reads
      <4> QED
        BY <1>1, <3>3, <4>1 DEF ReadsInv
    <3>4. ReadsInv'
      BY <2>6, <3>1, <3>3 DEF ReadsInv
    <3>5. UnstagedInv'
      BY <1>1, <1>2, <2>6, <2>7, <3>1 DEF UnstagedInv
    <3>6. \A d \in Commands : Gone(d)' => Gone(d)
      BY <1>1, <2>6, <3>1 DEF Gone
    <3>7. GoneInv'
      BY <1>1, <2>7, <2>8, <3>1, <3>6 DEF GoneInv
    <3> QED
      BY <3>2, <3>4, <3>5, <3>7
  <2> QED
    BY <2>9, <2>10
<1>4. CASE RunnerThrows(c)
  <2>1. /\ run' = [run EXCEPT ![c].at = "after", ![c].outcome = "none"]
        /\ reads' = Issue("after", c) /\ row' = row
    BY <1>4 DEF RunnerThrows
  <2> DEFINE R == [run EXCEPT ![c].at = "after"]
  <2>2. R \in [Commands -> Runs] /\ R[c].at = "after" /\ \A d \in Commands \ {c} : R[d] = run[d]
    BY DEF RunTypes, Runs
  <2>3. run' = [R EXCEPT ![c].outcome = "none"]
    BY <2>1
  <2> HIDE DEF R
  <2>4. /\ run' \in [Commands -> Runs] /\ run'[c].at = "after" /\ run'[c].outcome = "none"
        /\ \A d \in Commands \ {c} : run'[d] = run[d]
    BY <2>2, <2>3 DEF Runs
  <2>5. Gone(c)' => row'[c] = "none"
    BY <1>1, <2>1, <2>4 DEF Gone, GoneInv
  <2>6. row' \in [Commands -> Rows]
    BY <2>1 DEF RunTypes
  <2> QED
    BY <1>1, <1>2, <2>1, <2>4, <2>5, <2>6, RunGoesOn
<1> QED
  BY <1>3, <1>4

\* A mutation is staged, or run again by the user.
LEMMA StartKeepsRuns ==
    ASSUME RunInv, SendInv, Mail, NEW c \in Commands, Staged(c) \/ RetryRun(c)
    PROVE  RunInv'
<1> USE DEF RunInv
<1>0. \A d \in Commands : command'[d].at # "done" => command[d].at # "done"
  BY CommandsEnd
<1>1. UNCHANGED <<shown, confirmed>>
  BY DEF Staged, RetryRun
<1>2. ASSUME PerformMutationRun(c), run[c].at = "none", c \notin confirmed, command'[c].at = "done",
             row' \in [Commands -> Rows], \A d \in Commands \ {c} : row'[d] = row[d]
      PROVE  RunInv'
  <2>1. /\ run' = [run EXCEPT ![c] = [at |-> "before", known |-> FALSE, outcome |-> "none"]]
        /\ reads' = Issue("before", c)
    BY <1>2 DEF PerformMutationRun
  <2>2. run' \in [Commands -> Runs] /\ run'[c].at = "before" /\ \A d \in Commands \ {c} : run'[d] = run[d]
    BY <2>1 DEF RunTypes, Runs
  <2>3. ~Gone(c)'
    BY <1>1, <1>2, <2>2 DEF Gone
  <2> QED
    BY <1>0, <1>1, <1>2, <2>1, <2>2, <2>3, RunGoesOn
<1>3. CASE Staged(c)
  <2>1. command[c].at = "stage" /\ command' = [command EXCEPT ![c].at = "done"]
    BY <1>3 DEF Staged
  <2>2. run[c].at = "none" /\ c \notin confirmed /\ command'[c].at = "done"
    BY <2>1 DEF UnstagedInv, SendInv, CommandTypes
  <2>3. CASE row' = [row EXCEPT ![c] = "pending"] /\ PerformMutationRun(c)
    <3>1. row' \in [Commands -> Rows] /\ \A d \in Commands \ {c} : row'[d] = row[d]
      BY <2>3 DEF RunTypes, Rows
    <3> QED
      BY <1>2, <2>2, <2>3, <3>1
  <2>4. CASE UNCHANGED <<row, rowHint, run, reads>>
    <3>1. UNCHANGED runVars
      BY <1>3, <2>4 DEF Staged, runVars
    <3> QED
      BY <1>0, <3>1, CommandsKeepRuns
  <2> QED
    BY <1>3, <2>3, <2>4 DEF Staged
<1>4. CASE RetryRun(c)
  <2>1. /\ shown[c] \in {"pending", "retrying", "inFlight"} /\ UNCHANGED <<command, row>>
        /\ IF run[c].at = "none" THEN PerformMutationRun(c) ELSE UNCHANGED <<run, reads>>
    BY <1>4 DEF RetryRun, sendVars
  <2>2. command'[c].at = "done" /\ c \notin confirmed
    BY <2>1 DEF UnstagedInv, GoneInv
  <2>3. CASE run[c].at = "none"
    BY <1>2, <2>1, <2>2, <2>3 DEF RunTypes
  <2>4. CASE run[c].at # "none"
    <3>1. UNCHANGED runVars
      BY <1>4, <2>1, <2>4 DEF RetryRun, runVars
    <3> QED
      BY <1>0, <3>1, CommandsKeepRuns
  <2> QED
    BY <2>3, <2>4
<1> QED
  BY <1>3, <1>4

\* A hint makes the statuses be read again.
LEMMA HintKeepsRuns ==
    ASSUME RunInv, FlushRowHint
    PROVE  RunInv'
<1> USE DEF RunInv
<1>1. reads' = Issue("hint", None) /\ UNCHANGED <<command, row, run, shown, confirmed>>
  BY DEF FlushRowHint, sendVars
<1>2. /\ reads' \subseteq Reads /\ ReadsInv'
      /\ \A r \in reads' : \A d \in Commands : r.snap[d] = "none"
  BY <1>1, IssueReads DEF RunTypes
<1>3. RunTypes'
  BY <1>1, <1>2 DEF RunTypes
<1>4. UnstagedInv'
  BY <1>1, <1>2 DEF UnstagedInv
<1>5. GoneInv'
  BY <1>1, <1>2 DEF GoneInv, Gone
<1> QED
  BY <1>2, <1>3, <1>4, <1>5

\* Every step on the mail.
LEMMA RunKept ==
    ASSUME RunInv, SendInv, Mail
    PROVE  RunInv'
<1>1. \/ UNCHANGED runVars
      \/ \E c \in Commands : \/ Staged(c) \/ RetryRun(c) \/ Claim(c) \/ RunnerReturns(c) \/ RunnerThrows(c)
      \/ FlushRowHint
      \/ \E r \in reads : Answer(r) \/ Resume(r)
  BY DEF Mail, Compose, CloseComposer, PressSend, IdentitiesListed, Toggle, Move, MembershipsRead
<1> QED
  BY <1>1, CommandsEnd, CommandsKeepRuns, StartKeepsRuns, ClaimKeepsRuns, RunnerKeepsRuns, HintKeepsRuns,
     AnswerKeepsRuns, ResumeKeepsRuns

(***************************************************************************)
(* The whole.                                                               *)
(***************************************************************************)
Inv == /\ AccountInv /\ FormInv /\ CredentialInv /\ ActivityInv
       /\ SendInv /\ RunInv

\* The application starts with the accounts of its store and nothing under way.
LEMMA InitInv == Init => Inv
<1> SUFFICES ASSUME Init PROVE Inv
  OBVIOUS
<1>1. DOMAIN registered \subseteq Keys
  BY ScenesAssumption DEF Init
<1>2. selected \in DOMAIN registered \cup {None} /\ observed = selected /\ accounts = DOMAIN registered
  BY <1>1, LowestIsMember DEF Init, Lowest
<1>3. AccountInv
  BY <1>1, <1>2 DEF Init, AccountInv, Attempts, NoAttempt, NoDialog, Profiles
<1>4. FormInv
  BY DEF Init, FormInv, Forms, ResetForm, NoAttempt
<1>5. CredentialInv /\ ActivityInv
  BY DEF Init, CredentialInv, ActivityInv
<1>6. SendInv
  BY DEF Init, SendInv, CommandTypes
<1>7. RunInv
  BY DEF Init, RunInv, RunTypes, ReadsInv, UnstagedInv, GoneInv, Gone, Rows, Runs
<1> QED
  BY <1>3, <1>4, <1>5, <1>6, <1>7 DEF Inv

\* Closing the application empties the screen and cancels nothing.
LEMMA DisposeInv == Inv /\ Dispose => Inv'
<1> SUFFICES ASSUME Inv, Dispose PROVE Inv'
  OBVIOUS
<1> USE DEF Inv, Dispose
<1>1. AccountInv' /\ FormInv' /\ CredentialInv'
  BY DEF AccountInv, FormInv, CredentialInv, storeVars, formVars
<1>2. ActivityInv'
  BY DEF ActivityInv
<1>3. SendInv'
  BY DEF SendInv, SendsInProgress, sendVars
<1>4. RunInv'
  <2>1. /\ UNCHANGED <<command, row, run, reads>> /\ confirmed' = {}
        /\ shown' \in [Commands -> Rows] /\ \A c \in Commands : shown'[c] = "none"
    BY DEF sendVars, NoRows, Rows
  <2>2. RunTypes' /\ ReadsInv'
    BY <2>1 DEF RunInv, RunTypes, ReadsInv
  <2>3. UnstagedInv'
    BY <2>1 DEF RunInv, UnstagedInv
  <2>4. GoneInv'
    BY <2>1 DEF RunInv, GoneInv, Gone
  <2> QED
    BY <2>2, <2>3, <2>4 DEF RunInv
<1> QED
  BY <1>1, <1>2, <1>3, <1>4

\* Steps that do not touch the accounts.
LEMMA AccountsUntouched ==
    ASSUME AccountInv, FormInv, CredentialInv, ActivityInv, UNCHANGED <<accountVars, disposed>>
    PROVE  AccountInv' /\ FormInv' /\ CredentialInv' /\ ActivityInv'
<1> USE DEF accountVars, storeVars, screenVars, formVars, refreshVars
<1>1. AccountInv' /\ FormInv'
  BY DEF AccountInv, FormInv
<1>2. CredentialInv' /\ ActivityInv'
  BY DEF CredentialInv, ActivityInv
<1> QED
  BY <1>1, <1>2

\* Steps that do not touch the mail.
LEMMA MailUntouched ==
    ASSUME SendInv, RunInv, UNCHANGED mailVars
    PROVE  SendInv' /\ RunInv'
<1>1. UNCHANGED runVars /\ UNCHANGED <<composer, command>>
  BY DEF mailVars, sendVars
<1>2. SendInv'
  BY <1>1 DEF SendInv, SendsInProgress
<1>3. RunInv'
  BY <1>1, CommandsKeepRuns
<1> QED
  BY <1>2, <1>3

\* Every step of the application keeps the invariant.
LEMMA NextInv == Inv /\ [Next]_vars => Inv'
<1> SUFFICES ASSUME Inv, [Next]_vars PROVE Inv'
  OBVIOUS
<1> USE DEF Inv
<1>1. CASE Account
  <2>1. UNCHANGED mailVars
    BY <1>1, AccountLeavesMail
  <2> QED
    BY <1>1, <2>1, AccountKept, FormKept, CredentialKept, ActivityKept, MailUntouched
<1>2. CASE Mail
  <2>1. UNCHANGED <<accountVars, disposed>>
    BY <1>2, MailLeavesAccounts
  <2> QED
    BY <1>2, <2>1, AccountsUntouched, SendKept, RunKept
<1>3. CASE Dispose
  BY <1>3, DisposeInv
<1>4. CASE UNCHANGED vars
  <2>1. UNCHANGED <<accountVars, disposed>> /\ UNCHANGED mailVars
    BY <1>4 DEF vars
  <2> QED
    BY <2>1, AccountsUntouched, MailUntouched
<1> QED
  BY <1>1, <1>2, <1>3, <1>4 DEF Next

(***************************************************************************)
(* Theorems.                                                                *)
(***************************************************************************)
\* The invariant holds in every state of the application.
THEOREM CommandsInvariant == Spec => []Inv
<1> QED
  BY InitInv, NextInv, PTL DEF Spec

\* No way out of performAccountConnection, the disposal of the application included,
\* leaves an OAuth credential behind for an account that does not exist, except where the
\* forget() that it calls fails.
THEOREM CredentialsAreOwned == Spec => []CredentialsOwned
<1>1. Inv => CredentialsOwned
  BY DEF Inv, CredentialInv, CredentialsOwned
<1> QED
  BY <1>1, CommandsInvariant, PTL

\* The form, the composer and the account being refreshed are shown as busy only while
\* the connection, the send or the refresh that they wait for is under way.
THEOREM SpinnersAreTrue == Spec => []BusyMeansWorking
<1>1. ASSUME Inv PROVE BusyMeansWorking
  <2>1. (attempt.at # "none" \/ form.orphaned) = (form.phase = "connecting")
    BY <1>1 DEF Inv, FormInv, Forms
  <2> QED
    BY <1>1, <2>1 DEF Inv, FormInv, SendInv, ActivityInv, BusyMeansWorking
<1> QED
  BY <1>1, CommandsInvariant, PTL

\* The connection status that is shown is the selected account's, whatever is being
\* reconnected, selected or read again.
THEOREM StatusIsOfSelection == Spec => []StatusIsSelected
<1>1. Inv => StatusIsSelected
  BY DEF Inv, AccountInv, StatusIsSelected
<1> QED
  BY <1>1, CommandsInvariant, PTL

\* A mutation reported as confirmed is never shown as pending again, in whatever order
\* the lists of statuses arrive.
THEOREM ConfirmationsLast == Spec => []ConfirmedStaysConfirmed
<1>1. Inv => ConfirmedStaysConfirmed
  BY DEF Inv, RunInv, RunTypes, GoneInv, Gone, ConfirmedStaysConfirmed
<1> QED
  BY <1>1, CommandsInvariant, PTL

=============================================================================
