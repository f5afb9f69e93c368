------------------------------ MODULE Console ------------------------------
(***************************************************************************)
(* The client's local console (internal/client/console.go): the handlers   *)
(* for login, start, stop and logout, the watcher that asks the server for *)
(* the account's switch every two seconds, and the sync goroutines they    *)
(* start.  What a sync goroutine does is Supervisor's subject; here it     *)
(* runs until its context is cancelled or it fails.                        *)
(*                                                                         *)
(* c.mu is held over each action; a handler that gives it up and takes it  *)
(* again, or asks the server without it, is two actions.  Sync is a pool   *)
(* of names for the goroutines of startSyncLocked.                         *)
(***************************************************************************)
EXTENDS Naturals, FiniteSets

CONSTANTS
  Account,     \* accounts, which stand for their tokens too
  Sync,
  MaxClicks,   \* bound on what users and administrators do, and the disk fails
  NoAccount, NoSync

VARIABLES
  cloud,    \* Account -> its sync switch at the server
  clicks,   \* how often somebody did something, or the disk failed, so far
  token,    \* c.local.Token
  running,  \* c.running
  cancel,   \* whose context c.cancel cancels, or NoSync
  syncs,    \* Sync -> [live, account, cancelled]
  login,    \* handleLogin: the server's answer it has not applied yet
  leaving,  \* handleLogout has stopped the sync and not cleared the token
  stopping, \* handleStop has switched the account and not stopped the sync
  watch     \* refreshCloudSync: [at, account, enabled]

vars == <<cloud, clicks, token, running, cancel, syncs, login, leaving, stopping, watch>>

ASSUME ConsoleAssumption ==
  /\ MaxClicks \in Nat
  /\ NoAccount \notin Account
  /\ NoSync \notin Sync

NotLive == [live |-> FALSE, account |-> NoAccount, cancelled |-> FALSE]

\* Nothing asked, or nothing answered.
Nothing == [at |-> "idle", account |-> NoAccount, enabled |-> FALSE]

Question == [at : {"idle", "asked", "answered"}, account : Account \cup {NoAccount},
             enabled : BOOLEAN]

TypeOK ==
  /\ cloud \in [Account -> BOOLEAN]
  /\ clicks \in 0..MaxClicks
  /\ token \in Account \cup {NoAccount}
  /\ running \in BOOLEAN
  /\ cancel \in Sync \cup {NoSync}
  /\ syncs \in [Sync -> [live : BOOLEAN, account : Account \cup {NoAccount}, cancelled : BOOLEAN]]
  /\ login \in Question /\ watch \in Question
  /\ leaving \in BOOLEAN /\ stopping \in BOOLEAN
  /\ \A s \in Sync : syncs[s].live <=> syncs[s].account # NoAccount

\* LoadLocalConfig may find the token of an earlier login; the watcher
\* starts the sync then.
Init ==
  /\ cloud \in [Account -> BOOLEAN]
  /\ clicks = 0
  /\ token \in Account \cup {NoAccount}
  /\ running = FALSE
  /\ cancel = NoSync
  /\ syncs = [s \in Sync |-> NotLive]
  /\ login = Nothing
  /\ leaving = FALSE
  /\ stopping = FALSE
  /\ watch = Nothing

-----------------------------------------------------------------------------
(* Starting and stopping. *)

Free == {s \in Sync : ~syncs[s].live}

\* startSyncLocked, with the token as it is now.
StartSyncLocked(account) ==
  IF running \/ account = NoAccount
    THEN UNCHANGED <<running, cancel, syncs>>
    ELSE /\ Free # {}
         /\ LET s == CHOOSE s \in Free : TRUE
            IN  /\ running' = TRUE
                /\ cancel' = s
                /\ syncs' = [syncs EXCEPT ![s] =
                     [live |-> TRUE, account |-> account, cancelled |-> FALSE]]

\* stopSync: the function is called after the lock is given up, but it is
\* the one read under it.
StopSync ==
  /\ running' = FALSE
  /\ cancel' = NoSync
  /\ syncs' = IF cancel = NoSync THEN syncs ELSE [syncs EXCEPT ![cancel].cancelled = TRUE]

\* Mutant: the function of the ended sync stays.
KeepCancel(s) ==
  /\ syncs[s].live
  /\ running' = FALSE
  /\ syncs' = [syncs EXCEPT ![s] = NotLive]
  /\ UNCHANGED <<cloud, clicks, token, cancel, login, leaving, stopping, watch>>

\* Supervisor.Run returns, cancelled or with an error of NewSupervisor, and
\* setSyncStopped clears flag and function, whoever set them.
SetSyncStopped(s) ==
  /\ syncs[s].live
  /\ running' = FALSE
  /\ cancel' = NoSync
  /\ syncs' = [syncs EXCEPT ![s] = NotLive]
  /\ UNCHANGED <<cloud, clicks, token, login, leaving, stopping, watch>>

-----------------------------------------------------------------------------
(* The handlers. *)

Click == clicks < MaxClicks /\ clicks' = clicks + 1

\* Another client of the account, or an administrator.
SwitchCloud(a) ==
  /\ Click
  /\ cloud' = [cloud EXCEPT ![a] = ~@]
  /\ UNCHANGED <<token, running, cancel, syncs, login, leaving, stopping, watch>>

AskLogin(a) ==
  /\ login = Nothing
  /\ Click
  /\ login' = [at |-> "answered", account |-> a, enabled |-> cloud[a]]
  /\ UNCHANGED <<cloud, token, running, cancel, syncs, leaving, stopping, watch>>

\* The rest of handleLogin: a sync that runs already goes on as it is.
ApplyLogin ==
  /\ login # Nothing
  /\ token' = login.account
  /\ IF login.enabled THEN StartSyncLocked(login.account)
                      ELSE UNCHANGED <<running, cancel, syncs>>
  /\ login' = Nothing
  /\ UNCHANGED <<cloud, clicks, leaving, stopping, watch>>

\* The storage root or the local configuration cannot be written: the token
\* is there already, the sync is not started.
LoginUnsaved ==
  /\ login # Nothing
  /\ Click
  /\ token' = login.account
  /\ login' = Nothing
  /\ UNCHANGED <<cloud, running, cancel, syncs, leaving, stopping, watch>>

\* handleStart holds c.mu while it asks the server.  Where it or handleStop
\* fails after the server has switched, that is SwitchCloud and no more.
HandleStart ==
  /\ Click
  /\ token # NoAccount
  /\ cloud' = [cloud EXCEPT ![token] = TRUE]
  /\ StartSyncLocked(token)
  /\ UNCHANGED <<token, login, leaving, stopping, watch>>

HandleStop ==
  /\ ~stopping
  /\ Click
  /\ token # NoAccount
  /\ cloud' = [cloud EXCEPT ![token] = FALSE]
  /\ stopping' = TRUE
  /\ UNCHANGED <<token, running, cancel, syncs, login, leaving, watch>>

FinishStop ==
  /\ stopping
  /\ StopSync
  /\ stopping' = FALSE
  /\ UNCHANGED <<cloud, clicks, token, login, leaving, watch>>

HandleLogout ==
  /\ ~leaving
  /\ Click
  /\ StopSync
  /\ leaving' = TRUE
  /\ UNCHANGED <<cloud, token, login, stopping, watch>>

FinishLogout ==
  /\ leaving
  /\ token' = NoAccount
  /\ leaving' = FALSE
  /\ UNCHANGED <<cloud, clicks, running, cancel, syncs, login, stopping, watch>>

-----------------------------------------------------------------------------
(* The watcher. *)

\* refreshCloudSync copies the token and gives up the lock ...
ReadToken ==
  /\ watch = Nothing
  /\ token # NoAccount
  /\ watch' = [at |-> "asked", account |-> token, enabled |-> FALSE]
  /\ UNCHANGED <<cloud, clicks, token, running, cancel, syncs, login, leaving, stopping>>

\* ... the server answers ...
Answer ==
  /\ watch.at = "asked"
  /\ watch' = [watch EXCEPT !.at = "answered", !.enabled = cloud[watch.account]]
  /\ UNCHANGED <<cloud, clicks, token, running, cancel, syncs, login, leaving, stopping>>

\* ... or does not, or refuses the token ...
NoAnswer ==
  /\ watch.at = "asked"
  /\ watch' = Nothing
  /\ UNCHANGED <<cloud, clicks, token, running, cancel, syncs, login, leaving, stopping>>

\* Mutant: the answer only ever starts the sync.
OnlyStart ==
  /\ watch.at = "answered"
  /\ watch' = Nothing
  /\ IF watch.enabled THEN StartSyncLocked(token) ELSE UNCHANGED <<running, cancel, syncs>>
  /\ UNCHANGED <<cloud, clicks, token, login, leaving, stopping>>

\* Mutant: the answer only ever stops the sync.
OnlyStop ==
  /\ watch.at = "answered"
  /\ watch' = Nothing
  /\ IF watch.enabled THEN UNCHANGED <<running, cancel, syncs>> ELSE StopSync
  /\ UNCHANGED <<cloud, clicks, token, login, leaving, stopping>>

\* ... and the answer is applied to whoever is logged in by then.
ApplyStatus ==
  /\ watch.at = "answered"
  /\ watch' = Nothing
  /\ IF watch.enabled THEN StartSyncLocked(token) ELSE StopSync
  /\ UNCHANGED <<cloud, clicks, token, login, leaving, stopping>>

\* The storage root of the answer cannot be made: the answer is dropped.
StatusUnsaved ==
  /\ watch.at = "answered"
  /\ Click
  /\ watch' = Nothing
  /\ UNCHANGED <<cloud, token, running, cancel, syncs, login, leaving, stopping>>

User ==
  \/ \E a \in Account : SwitchCloud(a) \/ AskLogin(a)
  \/ HandleStart \/ HandleStop \/ HandleLogout

Watcher == ReadToken \/ Answer \/ NoAnswer \/ ApplyStatus

Next ==
  \/ User \/ LoginUnsaved \/ StatusUnsaved
  \/ ApplyLogin \/ FinishStop \/ FinishLogout \/ Watcher
  \/ \E s \in Sync : SetSyncStopped(s)

Spec == Init /\ [][Next]_vars

\* A handler that has begun ends; the watcher's ticker goes on, and the server
\* answers it again and again; a cancelled sync ends.  Nobody has to click, and
\* a sync may fail or not.
FairSpec ==
  /\ Spec
  /\ WF_vars(ApplyLogin) /\ WF_vars(FinishStop) /\ WF_vars(FinishLogout)
  /\ WF_vars(Watcher) /\ SF_vars(Answer)
  /\ \A s \in Sync : WF_vars(syncs[s].cancelled /\ SetSyncStopped(s))

-----------------------------------------------------------------------------
(* Properties. *)

\* When the console says that the sync runs, one does, and the console holds
\* its cancel function, so that stop and logout reach it.
RunningHasSync ==
  /\ running <=> cancel # NoSync
  /\ running => syncs[cancel].live /\ ~syncs[cancel].cancelled

Synced(a) == \E s \in Sync : syncs[s].live /\ ~syncs[s].cancelled /\ syncs[s].account = a

\* docs/中文详细文档.md:267: a client that is logged in notices that its account
\* was switched on and starts to synchronise; it starts again when a sync
\* has failed.  What runs may be another account's, see WhoIsSynced.
SwitchedOnIsNoticed ==
  <>[](\E a \in Account : token = a /\ cloud[a]) => []<>(\E a \in Account : Synced(a))

\* A client that is logged in notices that its account was switched off,
\* whatever answers and clicks crossed each other.
SwitchedOffIsNoticed ==
  <>[](\E a \in Account : token = a /\ ~cloud[a]) => <>[]~running

\* The account somebody is logged in with is the one that is synchronised.
WhoIsSynced ==
  \A a \in Account : <>[](token = a /\ cloud[a]) => []<>Synced(a)

\* What logout is for: nothing is synchronised afterwards.
LogoutStopsSync ==
  <>[](token = NoAccount) => <>[](\A a \in Account : ~Synced(a))
=============================================================================
