---------------------------- MODULE ConsoleProofs ----------------------------
(***************************************************************************)
(* The console's safety, for any number of accounts, clicks and sync       *)
(* goroutines: its flag always has the cancel function of a live sync.     *)
(***************************************************************************)
EXTENDS Console, TLAPS

\* The watcher asks about an account, so that the answer is a switch's.
AsksForAccount == watch.at = "asked" => watch.account \in Account

IInv == TypeOK /\ RunningHasSync /\ AsksForAccount

\* What the three variables of the sync keep, whichever action changes them.
Kept ==
  /\ running \in BOOLEAN
  /\ cancel \in Sync \cup {NoSync}
  /\ syncs \in [Sync -> [live : BOOLEAN, account : Account \cup {NoAccount}, cancelled : BOOLEAN]]
  /\ \A s \in Sync : syncs[s].live <=> syncs[s].account # NoAccount
  /\ RunningHasSync

\* A started sync is live, belongs to an account and is the one cancel holds.
LEMMA StartKeeps ==
  ASSUME Kept, NEW a \in Account \cup {NoAccount}, StartSyncLocked(a)
  PROVE  Kept'
<1>1. CASE running \/ a = NoAccount
  BY <1>1 DEF Kept, StartSyncLocked, RunningHasSync
<1>2. CASE ~running /\ a # NoAccount
  <2> DEFINE s == CHOOSE x \in Free : TRUE
             started == [live |-> TRUE, account |-> a, cancelled |-> FALSE]
  <2>1. Free # {} /\ running' = TRUE /\ cancel' = s /\ syncs' = [syncs EXCEPT ![s] = started]
    BY <1>2 DEF StartSyncLocked
  <2>2. s \in Sync
    BY <2>1 DEF Free
  <2>3. s # NoSync
    BY <2>2, ConsoleAssumption
  <2>4. started \in [live : BOOLEAN, account : Account \cup {NoAccount}, cancelled : BOOLEAN]
    BY <1>2
  <2>5. syncs'[s] = started /\ \A x \in Sync : x # s => syncs'[x] = syncs[x]
    BY <2>1, <2>2 DEF Kept
  <2>6. syncs' \in [Sync -> [live : BOOLEAN, account : Account \cup {NoAccount}, cancelled : BOOLEAN]]
    BY <2>1, <2>2, <2>4 DEF Kept
  <2>7. \A x \in Sync : syncs'[x].live <=> syncs'[x].account # NoAccount
    <3> SUFFICES ASSUME NEW x \in Sync PROVE syncs'[x].live <=> syncs'[x].account # NoAccount
      OBVIOUS
    <3>1. started.live = TRUE /\ started.account = a
      OBVIOUS
    <3>2. CASE x = s
      BY <1>2, <2>5, <3>1, <3>2, Zenon
    <3>3. CASE x # s
      BY <2>5, <3>3, Zenon DEF Kept
    <3> QED
      BY <3>2, <3>3
  <2> QED
    BY <2>1, <2>2, <2>3, <2>5, <2>6, <2>7 DEF Kept, RunningHasSync
<1> QED
  BY <1>1, <1>2

\* Stopping clears flag and function; what was cancelled stays alive.
LEMMA StopKeeps ==
  ASSUME Kept, StopSync
  PROVE  Kept'
<1>1. CASE cancel = NoSync
  BY <1>1 DEF Kept, StopSync, RunningHasSync
<1>2. CASE cancel # NoSync
  <2>1. cancel \in Sync /\ syncs' = [syncs EXCEPT ![cancel].cancelled = TRUE]
    BY <1>2 DEF Kept, StopSync
  <2>2. \A s \in Sync : syncs'[s].live = syncs[s].live /\ syncs'[s].account = syncs[s].account
    BY <2>1 DEF Kept
  <2>3. syncs' \in [Sync -> [live : BOOLEAN, account : Account \cup {NoAccount}, cancelled : BOOLEAN]]
    BY <2>1 DEF Kept
  <2>4. \A s \in Sync : syncs'[s].live <=> syncs'[s].account # NoAccount
    BY <2>2 DEF Kept
  <2>5. running' = FALSE /\ cancel' = NoSync
    BY DEF StopSync
  <2>6. RunningHasSync'
    BY <2>5 DEF RunningHasSync
  <2> QED
    BY <2>3, <2>4, <2>5, <2>6 DEF Kept
<1> QED
  BY <1>1, <1>2

\* A sync that ends, whichever it is, leaves neither flag nor function.
LEMMA EndKeeps ==
  ASSUME Kept, NEW s \in Sync, SetSyncStopped(s)
  PROVE  Kept'
<1>1. syncs' = [syncs EXCEPT ![s] = NotLive] /\ running' = FALSE /\ cancel' = NoSync
  BY DEF SetSyncStopped
<1>2. \A x \in Sync : syncs'[x] = IF x = s THEN NotLive ELSE syncs[x]
  BY <1>1 DEF Kept
<1>3. syncs' \in [Sync -> [live : BOOLEAN, account : Account \cup {NoAccount}, cancelled : BOOLEAN]]
  BY <1>1 DEF Kept, NotLive
<1>4. \A x \in Sync : syncs'[x].live <=> syncs'[x].account # NoAccount
  BY <1>2 DEF Kept, NotLive
<1> QED
  BY <1>1, <1>3, <1>4 DEF Kept, RunningHasSync

\* The rest of the type invariant.
Others ==
  /\ cloud \in [Account -> BOOLEAN]
  /\ clicks \in 0..MaxClicks
  /\ token \in Account \cup {NoAccount}
  /\ login \in Question /\ watch \in Question
  /\ leaving \in BOOLEAN /\ stopping \in BOOLEAN
  /\ AsksForAccount

LEMMA Parts == IInv <=> Kept /\ Others
  BY DEF IInv, TypeOK, Kept, Others

LEMMA InitKeeps == Init => IInv
<1> SUFFICES ASSUME Init PROVE Kept /\ Others
  BY Parts
<1>1. Kept
  BY DEF Init, Kept, RunningHasSync, NotLive
<1>2. clicks \in 0..MaxClicks
  BY ConsoleAssumption DEF Init
<1>3. Nothing \in Question
  BY DEF Nothing, Question
<1>4. AsksForAccount
  BY DEF Init, AsksForAccount, Nothing
<1>5. Others
  BY <1>2, <1>3, <1>4, Zenon DEF Init, Others
<1> QED
  BY <1>1, <1>5

LEMMA StepKeeps == IInv /\ [Next]_vars => IInv'
<1> SUFFICES ASSUME Kept, Others, [Next]_vars PROVE Kept' /\ Others'
  BY Parts, PTL
<1> USE DEF Others, Question, AsksForAccount
<1>1. ASSUME NEW a \in Account, SwitchCloud(a) PROVE Kept' /\ Others'
  BY <1>1, ConsoleAssumption DEF SwitchCloud, Click, Kept, RunningHasSync
<1>2. ASSUME NEW a \in Account, AskLogin(a) PROVE Kept' /\ Others'
  BY <1>2, ConsoleAssumption DEF AskLogin, Click, Kept, RunningHasSync
<1>3. ASSUME ApplyLogin PROVE Kept' /\ Others'
  <2>1. login.account \in Account \cup {NoAccount}
    OBVIOUS
  <2>2. Others'
    BY <1>3, <2>1 DEF ApplyLogin, Nothing
  <2>3. CASE login.enabled
    BY <1>3, <2>1, <2>2, <2>3, StartKeeps DEF ApplyLogin
  <2>4. CASE ~login.enabled
    BY <1>3, <2>2, <2>4 DEF ApplyLogin, Kept, RunningHasSync
  <2> QED
    BY <2>3, <2>4
<1>4. ASSUME HandleStart PROVE Kept' /\ Others'
  <2>1. Kept'
    BY <1>4, StartKeeps DEF HandleStart
  <2>2. Others'
    BY <1>4, ConsoleAssumption DEF HandleStart, Click
  <2> QED
    BY <2>1, <2>2
<1>5. ASSUME HandleStop PROVE Kept' /\ Others'
  BY <1>5, ConsoleAssumption DEF HandleStop, Click, Kept, RunningHasSync
<1>6. ASSUME FinishStop PROVE Kept' /\ Others'
  BY <1>6, StopKeeps DEF FinishStop
<1>7. ASSUME HandleLogout PROVE Kept' /\ Others'
  BY <1>7, StopKeeps, ConsoleAssumption DEF HandleLogout, Click
<1>8. ASSUME FinishLogout PROVE Kept' /\ Others'
  BY <1>8 DEF FinishLogout, Kept, RunningHasSync
<1>9. ASSUME ReadToken PROVE Kept' /\ Others'
  BY <1>9 DEF ReadToken, Kept, RunningHasSync
<1>10. ASSUME Answer PROVE Kept' /\ Others'
  <2>1. cloud[watch.account] \in BOOLEAN
    BY <1>10 DEF Answer
  <2> QED
    BY <1>10, <2>1 DEF Answer, Kept, RunningHasSync
<1>11. ASSUME NoAnswer PROVE Kept' /\ Others'
  BY <1>11 DEF NoAnswer, Nothing, Kept, RunningHasSync
<1>12. ASSUME ApplyStatus PROVE Kept' /\ Others'
  <2>1. Others'
    BY <1>12 DEF ApplyStatus, Nothing
  <2>2. CASE watch.enabled
    BY <1>12, <2>1, <2>2, StartKeeps DEF ApplyStatus
  <2>3. CASE ~watch.enabled
    BY <1>12, <2>1, <2>3, StopKeeps DEF ApplyStatus
  <2> QED
    BY <2>2, <2>3
<1>13. ASSUME NEW s \in Sync, SetSyncStopped(s) PROVE Kept' /\ Others'
  BY <1>13, EndKeeps DEF SetSyncStopped
<1>14. ASSUME LoginUnsaved \/ StatusUnsaved PROVE Kept' /\ Others'
  <2>1. Kept'
    BY <1>14 DEF LoginUnsaved, StatusUnsaved, Kept, RunningHasSync
  <2>2. CASE LoginUnsaved
    BY <2>1, <2>2, ConsoleAssumption DEF LoginUnsaved, Click, Nothing
  <2>3. CASE StatusUnsaved
    BY <2>1, <2>3, ConsoleAssumption DEF StatusUnsaved, Click, Nothing
  <2> QED
    BY <1>14, <2>2, <2>3
<1>15. CASE UNCHANGED vars
  BY <1>15 DEF vars, Kept, RunningHasSync
<1> QED
  BY <1>1, <1>2, <1>3, <1>4, <1>5, <1>6, <1>7, <1>8, <1>9, <1>10, <1>11, <1>12, <1>13, <1>14, <1>15
     DEF Next, User, Watcher

\* The state keeps its type, and no sync is live without an account
\* (console.go: startSyncLocked starts none without a token).
THEOREM TypeCorrect == Spec => []TypeOK
<1>1. IInv => TypeOK
  BY DEF IInv
<1> QED
  BY <1>1, InitKeeps, StepKeeps, PTL DEF Spec

\* When the console says that the sync runs, it holds the cancel function of
\* a live sync nobody has cancelled (console.go: startSyncLocked, stopSync,
\* setSyncStopped, refreshCloudSync).
THEOREM StopReachesSync == Spec => []RunningHasSync
<1>1. IInv => RunningHasSync
  BY DEF IInv
<1> QED
  BY <1>1, InitKeeps, StepKeeps, PTL DEF Spec
=============================================================================
