--------------------------- MODULE WatchdogProofs ---------------------------
(***************************************************************************)
(* Proofs about the watchdog script: for any number of terminals, pids,    *)
(* commands, crashes, kills and restarts of the machine, if commands are   *)
(* given one at a time and foreground waits for a start just given         *)
(* (OneAtATime).  Both conditions are needed: MCWatchdogRace.cfg and       *)
(* MCWatchdogHasty.cfg break what is proved here without them.             *)
(*                                                                         *)
(* WInv says who may hold the lock, what the files name and what a command *)
(* knows at each of its steps; there is one lemma per action.              *)
(***************************************************************************)
EXTENDS Watchdog, FiniteSetTheorems, SequenceTheorems, WellFoundedInduction, TLAPS

\* One command at a time; foreground waits for a start just given.
OneAtATime == MaxOpen <= 1 /\ Patient

-----------------------------------------------------------------------------
(* The inductive invariant. *)

\* The steps of do_stop.
StopStep == {"read", "signal", "await", "listWatchdogs", "listChildren", "remove", "unlock"}
Stopping == \E o \in Operator : step[o] \in StopStep

\* The places of cleanup_watchdog.
Ending == {"clean", "reap", "remove", "unlock", "clean2", "reap2", "remove2", "unlock2"}

Held(w) == place[w] # "mkdir"
Listed(o) == {targets[o][i] : i \in DOMAIN targets[o]}

OneBusy == \A o, p \in Operator : step[o] # "idle" /\ step[p] # "idle" => o = p

\* One watchdog is past the lock.
OneHolds ==
  /\ \A v, w \in Watchdogs : Held(v) /\ Held(w) => v = w
  /\ \A p \in Pid : what[p] # "watchdog" => ~Held(p)

\* One that is not yet is alone, and its pid stands in the file or is about
\* to, unless whoever gave foreground waits for it.
OneWaits == \A w \in Watchdogs : ~Held(w) =>
  \/ Watchdogs = {w} /\ Children = {} /\ (pidFile = w \/ \E o \in Operator : step[o] = "write" /\ started[o] = w)
  \/ \E o \in Operator : step[o] = "watch" /\ started[o] = w

\* Unless a stop is at work, whoever is past the lock has it, and so does a
\* child that lost its watchdog.
LockStands == ~Stopping =>
  /\ \A w \in Watchdogs : w \notin termed /\ (Held(w) => lock /\ place[w] \notin Ending)
  /\ Children # {} => lock

\* A watchdog knows the only child.
OneChild ==
  /\ \A c, d \in Children : c = d
  /\ \A w \in Watchdogs :
       /\ place[w] \in {"pid", "trap", "spawn", "forget", "sleep"} => Children = {}
       /\ place[w] \in {"record", "wait"} => Children \subseteq {mine[w]}

\* Unless a stop is at work, the files name the watchdog and its child.
NamesStand == ~Stopping => \A w \in Watchdogs :
  /\ place[w] \in {"trap", "spawn", "record", "wait", "forget", "sleep"} => pidFile = w
  /\ place[w] = "wait" => childFile = mine[w]

\* What a start has found out by each of its steps.
Starts == \A o \in Operator :
  /\ command[o] = "foreground" => step[o] \in {"idle", "ensure", "spawn", "watch"}
  /\ step[o] = "watch" => command[o] = "foreground"
  /\ step[o] = "checkLock" => \A w \in Watchdogs : Held(w)
  /\ step[o] \in {"ensure", "spawn"} /\ command[o] = "foreground" => \A w \in Watchdogs : Held(w)
  /\ (step[o] = "free" \/ (step[o] = "spawn" /\ command[o] # "foreground")) => Watchdogs = {} /\ Children = {}
  /\ step[o] = "write" => Watchdogs \subseteq {started[o]}
  /\ step[o] = "watch" => \A w \in Watchdogs : Held(w) \/ w = started[o]
  /\ step[o] \in {"write", "watch"} => started[o] \in Pid

\* What a stop has achieved by each of its steps.
Stops == \A o \in Operator :
  /\ step[o] \in {"signal", "await"} /\ after[o] = "listChildren" => Watchdogs \subseteq Listed(o)
  /\ step[o] = "listChildren" => Watchdogs = {}
  /\ step[o] \in {"signal", "await"} /\ after[o] = "remove" => Watchdogs = {} /\ Children \subseteq Listed(o)
  /\ step[o] \in {"remove", "unlock"} => Watchdogs = {} /\ Children = {}
  /\ step[o] = "unlock" => pidFile = NoPid /\ childFile = NoPid

\* No child is older than the last upgrade, nor than the one under way once
\* it has stopped what ran.
Builds ==
  /\ \A c \in Children : build[c] >= upgraded
  /\ \A o \in Operator : command[o] = "upgrade" =>
       /\ step[o] \in {"ensure", "checkPid", "checkLock"} => Watchdogs = {} /\ Children = {}
       /\ step[o] = "write" => \A c \in Children : build[c] = binary

Rest == OneBusy /\ OneHolds /\ OneWaits /\ LockStands /\ OneChild
        /\ NamesStand /\ Starts /\ Stops /\ Builds

WInv == TypeOK /\ Rest

-----------------------------------------------------------------------------
(* Lemmas about pids and lists of pids. *)

\* There is a smallest pid among those that can be given out.
LEMMA NextPidIsUnused ==
  Unused # {} => NextPid \in Unused
<1> DEFINE Less == {pq \in Nat \X Nat : pq[1] < pq[2]}
<1>1. IsWellFoundedOn(Less, Nat)
  BY NatLessThanWellFounded, Zenon DEF OpToRel
<1>2. Unused \subseteq Nat
  BY WatchdogAssumption DEF Unused
<1>3. ASSUME Unused # {} PROVE NextPid \in Unused
  <2>1. \E p \in Unused : \A q \in Unused : ~(<<q, p>> \in Less)
    <3> HIDE DEF Less
    <3> QED BY <1>1, <1>2, <1>3, WFMin
  <2>2. PICK p \in Unused : \A q \in Unused : ~(<<q, p>> \in Less)
    BY <2>1
  <2>3. ASSUME NEW q \in Unused PROVE p <= q
    <3>1. <<q, p>> \in Nat \X Nat /\ ~(q < p)
      BY <1>2, <2>2
    <3> QED BY <1>2, <3>1
  <2> QED BY <2>3 DEF NextPid
<1> QED BY <1>3

\* pgrep lists what is there, if that is one process at most.
LEMMA InOrderOfFew ==
  ASSUME NEW S, \A v, w \in S : v = w
  PROVE  /\ InOrder(S) \in Seq(S)
         /\ S \subseteq {InOrder(S)[i] : i \in DOMAIN InOrder(S)}
<1>1. CASE S = {}
  <2>1. Cardinality(S) = 0
    BY <1>1, FS_EmptySet
  <2>2. <<>> \in [1..0 -> S] /\ \A i, j \in DOMAIN <<>> : i < j => <<>>[i] < <<>>[j]
    OBVIOUS
  <2>3. InOrder(S) \in [1..0 -> S]
    BY <2>1, <2>2 DEF InOrder
  <2> QED BY <1>1, <2>3
<1>2. CASE S # {}
  <2>1. PICK w \in S : S = {w}
    BY <1>2
  <2>2. Cardinality(S) = 1
    BY <2>1, FS_Singleton
  <2>3. <<w>> \in [1..1 -> S]
    BY <2>1
  <2>4. \A i, j \in DOMAIN <<w>> : i < j => <<w>>[i] < <<w>>[j]
    OBVIOUS
  <2>5. InOrder(S) \in [1..1 -> S]
    BY <2>2, <2>3, <2>4 DEF InOrder
  <2>6. InOrder(S) \in Seq(S) /\ DOMAIN InOrder(S) = {1}
    <3>1. 1..1 = {1} /\ 1 \in Nat
      OBVIOUS
    <3>2. DOMAIN InOrder(S) = {1}
      BY <2>5, <3>1
    <3>3. InOrder(S) \in Seq(S)
      BY <2>5, <3>1, SeqDef
    <3> QED BY <3>2, <3>3
  <2>7. InOrder(S)[1] = w
    BY <2>1, <2>5
  <2> QED BY <2>1, <2>6, <2>7
<1> QED BY <1>1, <1>2

-----------------------------------------------------------------------------
(* Processes. *)

\* The end of a process keeps the types.
LEMMA DieTyped ==
  ASSUME TypeOK, NEW p \in Pid, Die(p), UNCHANGED binary
  PROVE  /\ what' \in [Pid -> {"none", "watchdog", "child", "other"}]
         /\ place' \in [Pid -> Place]
         /\ mine' \in [Pid -> Pid \cup {NoPid}]
         /\ termed' \subseteq {q \in Pid : what'[q] \in {"watchdog", "child", "other"}}
         /\ build' \in [Pid -> 0..binary']
BY DEF Die, TypeOK, Place

\* The end of a process breaks nothing: all parts speak of those that live.
LEMMA DieKeeps ==
  ASSUME WInv, NEW p \in Pid, Die(p), UNCHANGED <<files, binary, shells>>
  PROVE  Rest'
<1> USE DEF WInv, Rest
<1>1. /\ Watchdogs' = Watchdogs \ {p} /\ Children' = Children \ {p}
      /\ termed' = termed \ {p}
      /\ place'[p] = "mkdir"
      /\ \A q \in Pid \ {p} : place'[q] = place[q] /\ mine'[q] = mine[q] /\ build'[q] = build[q]
  BY DEF Die, TypeOK, Watchdogs, Children
<1>2. OneBusy' /\ OneHolds'
  BY <1>1 DEF OneBusy, OneHolds, Held, shells, Watchdogs
<1>3. OneWaits'
  BY <1>1 DEF OneWaits, Held, shells, files, Watchdogs
<1>4. LockStands'
  BY <1>1 DEF LockStands, Held, Stopping, shells, files, Watchdogs
<1>5. OneChild'
  BY <1>1 DEF OneChild, Watchdogs
<1>6. NamesStand'
  BY <1>1 DEF NamesStand, Stopping, shells, files, Watchdogs
<1>7. Starts'
  BY <1>1 DEF Starts, Held, shells, Watchdogs
<1>8. Stops'
  BY <1>1 DEF Stops, Listed, shells, files
<1>9. Builds'
  BY <1>1 DEF Builds, shells, Children
<1> QED BY <1>2, <1>3, <1>4, <1>5, <1>6, <1>7, <1>8, <1>9 DEF Rest

\* A watchdog past the lock goes on to another place.
LEMMA MoveKeeps ==
  ASSUME WInv, NEW w \in Pid, NEW pl \in Place, what[w] = "watchdog", Held(w), pl # "mkdir",
         Move(w, pl), UNCHANGED <<what, build, binary, shells>>,
         \A v \in Pid \ {w} : mine'[v] = mine[v],
         ~Stopping => /\ lock' = lock /\ termed' = termed /\ pl \notin Ending
                      /\ pl \in {"trap", "spawn", "record", "wait", "forget", "sleep"} => pidFile' = w
                      /\ pl = "wait" => childFile' = mine'[w],
         pl \in {"pid", "trap", "spawn", "forget", "sleep"} => Children = {},
         pl \in {"record", "wait"} => Children \subseteq {mine'[w]}
  PROVE  Rest'
<1> USE DEF WInv, Rest
<1>1. /\ Watchdogs' = Watchdogs /\ Children' = Children /\ w \in Watchdogs
      /\ place'[w] = pl
      /\ \A v \in Pid \ {w} : place'[v] = place[v]
      /\ Watchdogs \subseteq Pid
  BY DEF Move, TypeOK, Watchdogs, Children
<1>2. OneBusy' /\ OneHolds'
  BY <1>1 DEF OneBusy, OneHolds, Held, shells
<1>3. OneWaits'
  BY <1>1 DEF OneWaits, Held, shells
<1>4. LockStands'
  BY <1>1 DEF LockStands, OneHolds, Held, Stopping, shells
<1>5. OneChild'
  BY <1>1 DEF OneChild
<1>6. NamesStand'
  <2> SUFFICES ASSUME ~Stopping', NEW v \in Watchdogs' 
               PROVE /\ place'[v] \in {"trap", "spawn", "record", "wait", "forget", "sleep"} => pidFile' = v
                     /\ place'[v] = "wait" => childFile' = mine'[v]
    BY DEF NamesStand
  <2>1. ~Stopping
    BY DEF Stopping, shells
  <2>2. CASE v = w
    BY <1>1, <2>1, <2>2
  <2>3. CASE v # w
    <3>1. ~Held(v)
      BY <1>1, <2>3 DEF OneHolds
    <3> QED BY <1>1, <2>3, <3>1 DEF Held
  <2> QED BY <2>2, <2>3
<1>7. Starts'
  BY <1>1 DEF Starts, Held, shells
<1>8. Stops'
  BY <1>1 DEF Stops, Listed, shells
<1>9. Builds'
  BY <1>1 DEF Builds, shells
<1> QED BY <1>2, <1>3, <1>4, <1>5, <1>6, <1>7, <1>8, <1>9 DEF Rest

\* Whoever gets the lock finds no other watchdog past it and no child.
LEMMA MakeLockKeeps ==
  ASSUME WInv, NEW w \in Pid, MakeLock(w)
  PROVE  TypeOK' /\ Rest'
<1> USE DEF WInv, Rest
<1>1. CASE lock
  <2>1. Die(w) /\ UNCHANGED <<files, binary, shells>>
    BY <1>1 DEF MakeLock, files
  <2>2. TypeOK'
    BY <2>1, DieTyped DEF TypeOK, files, shells, MakeLock, bounds
  <2> QED BY <2>1, <2>2, DieKeeps DEF Rest
<1>2. CASE ~lock
  <2>1. /\ At(w, "mkdir") /\ w \notin termed /\ lock' = TRUE /\ Move(w, "pid")
        /\ UNCHANGED <<what, mine, build, termed, pidFile, childFile, binary, shells, bounds>>
    BY <1>2 DEF MakeLock
  <2>2. TypeOK'
    BY <2>1 DEF TypeOK, Move, Place, shells, bounds
  <2>3. /\ Watchdogs' = Watchdogs /\ Children' = Children /\ w \in Watchdogs
        /\ place'[w] = "pid" /\ ~Held(w)
        /\ \A v \in Pid \ {w} : place'[v] = place[v]
        /\ Watchdogs \subseteq Pid
    BY <2>1 DEF Move, At, TypeOK, Watchdogs, Children, Held
  <2>4. Children = {} /\ \A v \in Watchdogs : Held(v) => v = w
    <3>1. CASE Watchdogs = {w} /\ Children = {}
      BY <3>1
    <3>2. CASE \E o \in Operator : step[o] = "watch"
      <4>1. ~Stopping
        BY <3>2 DEF OneBusy, Stopping, StopStep
      <4> QED BY <1>2, <4>1 DEF LockStands
    <3> QED BY <2>3, <3>1, <3>2 DEF OneWaits
  <2>5. OneBusy' /\ OneHolds' /\ OneWaits'
    BY <2>1, <2>3, <2>4 DEF OneBusy, OneHolds, OneWaits, Held, shells, Watchdogs
  <2>6. LockStands' /\ OneChild' /\ NamesStand'
    BY <2>1, <2>3, <2>4 DEF LockStands, OneChild, NamesStand, Held, Stopping, Ending, shells
  <2>7. Starts' /\ Stops' /\ Builds'
    BY <2>1, <2>3 DEF Starts, Stops, Builds, Held, Listed, shells
  <2> QED BY <2>2, <2>5, <2>6, <2>7 DEF Rest
<1> QED BY <1>1, <1>2

\* A process ends, and nothing else happens.
LEMMA DeathKeeps ==
  ASSUME WInv, NEW p \in Pid, Die(p), UNCHANGED <<files, binary, shells>>,
         commands' \in 0..MaxCommands, crashes' \in 0..MaxCrashes,
         kills' \in 0..MaxKills, reboots' \in 0..MaxReboots
  PROVE  TypeOK' /\ Rest'
<1>1. TypeOK'
  BY DieTyped DEF WInv, TypeOK, files, shells
<1> QED BY <1>1, DieKeeps

\* The steps of run_watchdog in which the shell goes on.
LEMMA WorkKeeps ==
  ASSUME WInv, NEW w \in Pid,
         \/ WritePid(w) \/ SetTraps(w) \/ RecordChild(w) \/ Wait(w) \/ ForgetChild(w)
         \/ Sleep(w) \/ HandleTerm(w)
  PROVE  TypeOK' /\ Rest'
<1> USE DEF WInv
<1>w. w \in Watchdogs
  BY DEF WritePid, SetTraps, RecordChild, Wait, ForgetChild, Sleep, HandleTerm, At, Watchdogs
<1>1. TypeOK'
  <2> USE DEF TypeOK, Move, Place, files, shells, bounds
  <2>1. CASE WritePid(w)
    BY <2>1 DEF WritePid
  <2>8. CASE SetTraps(w)
    BY <2>8 DEF SetTraps
  <2>2. CASE RecordChild(w)
    BY <2>2 DEF RecordChild
  <2>3. CASE Wait(w)
    BY <2>3 DEF Wait
  <2>4. CASE ForgetChild(w)
    BY <2>4 DEF ForgetChild
  <2>5. CASE Sleep(w)
    BY <2>5 DEF Sleep
  <2>6. CASE HandleTerm(w)
    BY <2>6 DEF HandleTerm
  <2> QED BY <2>1, <2>2, <2>3, <2>4, <2>5, <2>6, <2>8
<1>2. Rest'
  <2> USE DEF Rest, At, files, Place, Ending, Held
  <2>1. CASE WritePid(w)
    BY <1>w, <2>1, MoveKeeps DEF WritePid, OneChild
  <2>2. CASE SetTraps(w)
    BY <1>w, <2>2, MoveKeeps DEF SetTraps, OneChild, NamesStand
  <2>3. CASE RecordChild(w)
    BY <1>w, <2>3, MoveKeeps DEF RecordChild, OneChild, NamesStand
  <2>4. CASE Wait(w)
    <3>1. Children = {}
      BY <1>w, <2>4, WatchdogAssumption DEF Wait, OneChild, Alive, Children
    <3> QED BY <1>w, <2>4, <3>1, MoveKeeps DEF Wait, NamesStand
  <2>5. CASE ForgetChild(w)
    BY <1>w, <2>5, MoveKeeps DEF ForgetChild, OneChild, NamesStand
  <2>6. CASE Sleep(w)
    BY <1>w, <2>6, MoveKeeps DEF Sleep, OneChild, NamesStand
  <2>7. CASE HandleTerm(w)
    BY <1>w, <2>7, MoveKeeps DEF HandleTerm, LockStands
  <2> QED BY <2>1, <2>2, <2>3, <2>4, <2>5, <2>6, <2>7
<1> QED BY <1>1, <1>2

\* cleanup_watchdog, either time.
LEMMA CleanUpKeeps ==
  ASSUME WInv, NEW w \in Pid, NEW pl \in Ending, NEW next \in Ending,
         Clean(w, pl, next) \/ Reap(w, pl, next) \/ RemoveFiles(w, pl, next) \/ Unlock(w)
  PROVE  TypeOK' /\ Rest'
<1> USE DEF WInv
<1>w. w \in Watchdogs /\ Held(w) /\ place[w] \in Ending
  BY DEF Clean, Reap, RemoveFiles, Unlock, At, Watchdogs, Held, Ending
<1>s. Stopping
  BY <1>w DEF Rest, LockStands
<1>1. TypeOK'
  <2> USE DEF TypeOK, Move, Place, Ending, files, shells, bounds
  <2>1. CASE Clean(w, pl, next)
    BY <2>1 DEF Clean, Alive
  <2>2. CASE Reap(w, pl, next)
    BY <2>2 DEF Reap
  <2>3. CASE RemoveFiles(w, pl, next)
    BY <2>3 DEF RemoveFiles
  <2>4. CASE Unlock(w)
    BY <2>4 DEF Unlock
  <2> QED BY <2>1, <2>2, <2>3, <2>4
<1>2. Rest'
  <2> USE DEF At, files, Place, Ending, Held
  <2>1. CASE Clean(w, pl, next)
    BY <1>w, <1>s, <2>1, MoveKeeps DEF Clean
  <2>2. CASE Reap(w, pl, next)
    BY <1>w, <1>s, <2>2, MoveKeeps DEF Reap
  <2>3. CASE RemoveFiles(w, pl, next)
    BY <1>w, <1>s, <2>3, MoveKeeps DEF RemoveFiles
  <2>4. CASE Unlock(w)
    BY <1>w, <1>s, <2>4, MoveKeeps DEF Unlock
  <2> QED BY <2>1, <2>2, <2>3, <2>4
<1> QED BY <1>1, <1>2

\* The lock is only removed under a stop, and nobody else is past it then.
LEMMA UnlockAndExitKeeps ==
  ASSUME WInv, NEW w \in Pid, UnlockAndExit(w)
  PROVE  TypeOK' /\ Rest'
<1> USE DEF WInv, Rest
<1>1. /\ Die(w) /\ w \in Watchdogs /\ place[w] = "unlock2"
      /\ UNCHANGED <<pidFile, childFile, binary, shells, bounds>> /\ lock' = FALSE
  BY DEF UnlockAndExit, At, Watchdogs
<1>2. Stopping /\ Stopping'
  BY <1>1 DEF LockStands, Stopping, Held, Ending, shells
<1>3. TypeOK'
  BY <1>1, DieTyped DEF TypeOK, shells, bounds
<1>4. /\ Watchdogs' = Watchdogs \ {w} /\ Children' = Children \ {w}
      /\ place'[w] = "mkdir"
      /\ \A q \in Pid \ {w} : place'[q] = place[q] /\ mine'[q] = mine[q] /\ build'[q] = build[q]
  BY <1>1 DEF Die, TypeOK, Watchdogs, Children
<1>5. OneBusy' /\ OneHolds' /\ OneWaits'
  BY <1>1, <1>4 DEF OneBusy, OneHolds, OneWaits, Held, shells, Watchdogs
<1>6. LockStands' /\ OneChild' /\ NamesStand'
  BY <1>1, <1>2, <1>4 DEF LockStands, OneChild, NamesStand, Watchdogs
<1>7. Starts'
  BY <1>1, <1>4 DEF Starts, Held, shells, Watchdogs
<1>8. Stops' /\ Builds'
  BY <1>1, <1>4 DEF Stops, Builds, Listed, shells, Children
<1> QED BY <1>3, <1>5, <1>6, <1>7, <1>8

\* A watchdog starts a child only when none runs.
LEMMA SpawnKeeps ==
  ASSUME WInv, NEW w \in Pid, Spawn(w)
  PROVE  TypeOK' /\ Rest'
<1> USE DEF WInv, Rest
<1>1. PICK c \in Unused : /\ what' = [what EXCEPT ![c] = "child"]
                          /\ build' = [build EXCEPT ![c] = binary]
                          /\ mine' = [mine EXCEPT ![w] = c]
  BY NextPidIsUnused DEF Spawn
<1>2. /\ w \in Watchdogs /\ place[w] = "spawn" /\ w \notin termed /\ Move(w, "record")
      /\ UNCHANGED <<termed, files, binary, shells, bounds>>
      /\ c \in Pid /\ what[c] = "none" /\ c # w
  BY <1>1 DEF Spawn, At, Unused, Watchdogs
<1>3. TypeOK'
  BY <1>1, <1>2 DEF TypeOK, Move, Place, files, shells, bounds
<1>4. /\ Watchdogs' = Watchdogs /\ Children = {} /\ Children' = {c}
      /\ place'[w] = "record" /\ mine'[w] = c /\ Held(w)
      /\ \A q \in Pid \ {w} : place'[q] = place[q] /\ mine'[q] = mine[q]
      /\ build'[c] = binary
  BY <1>1, <1>2 DEF Move, TypeOK, Watchdogs, Children, OneChild, Held
<1>5. OneBusy' /\ OneHolds' /\ OneWaits'
  BY <1>2, <1>4 DEF OneBusy, OneHolds, OneWaits, Held, shells, files, Watchdogs
<1>6. LockStands' /\ OneChild'
  BY <1>2, <1>4 DEF LockStands, OneHolds, OneChild, Held, Stopping, Ending, shells, files, Watchdogs
<1>7. NamesStand'
  BY <1>2, <1>4 DEF NamesStand, Stopping, shells, files, Watchdogs
<1>8. Starts' /\ Stops'
  BY <1>2, <1>4 DEF Starts, Stops, Held, Listed, shells, files, Watchdogs
<1>9. Builds'
  <2>1. build'[c] >= upgraded'
    BY <1>2, <1>4 DEF TypeOK, shells
  <2> QED BY <1>2, <1>4, <2>1 DEF Builds, shells
<1> QED BY <1>3, <1>5, <1>6, <1>7, <1>8, <1>9

-----------------------------------------------------------------------------
(* Commands. *)

\* A command goes on; the others are idle.
LEMMA StepIs ==
  ASSUME TypeOK, OneBusy, NEW o \in Operator, NEW st \in Step, step[o] # "idle", Goto(o, st)
  PROVE  /\ step'[o] = st
         /\ \A p \in Operator \ {o} : step[p] = "idle" /\ step'[p] = "idle"
         /\ step' \in [Operator -> Step]
         /\ OneBusy'
         /\ Stopping <=> step[o] \in StopStep
         /\ Stopping' <=> st \in StopStep
BY DEF Goto, TypeOK, OneBusy, Stopping, StopStep

\* A new binary.
LEMMA BuildKeeps ==
  ASSUME WInv, NEW o \in Operator, Build(o)
  PROVE  TypeOK' /\ Rest'
<1> USE DEF WInv, Rest
<1>1. /\ step'[o] = "read" /\ step[o] = "build"
      /\ \A p \in Operator \ {o} : step[p] = "idle" /\ step'[p] = "idle"
      /\ step' \in [Operator -> Step] /\ OneBusy'
      /\ Stopping <=> step[o] \in StopStep
      /\ Stopping' <=> step'[o] \in StopStep
  <2>1. step[o] = "build" /\ "read" \in Step /\ Goto(o, "read")
    BY DEF Build, Doing, Step, TypeOK
  <2> QED BY <2>1, StepIs
<1>2. TypeOK'
  <2>1. binary' \in Nat /\ 0..binary \subseteq 0..binary'
    BY DEF Build, TypeOK
  <2> QED BY <1>1, <2>1 DEF Build, TypeOK, files, shells, bounds
<1>3. Watchdogs' = Watchdogs /\ Children' = Children
  BY DEF Build, Watchdogs, Children
<1>4. OneHolds' /\ OneWaits' /\ OneChild'
  BY <1>1, <1>3 DEF Build, OneHolds, OneWaits, OneChild, Held, files, shells
<1>5. LockStands' /\ NamesStand'
  BY <1>1, <1>3 DEF Build, LockStands, NamesStand, StopStep, Held, files, shells
<1>6. Starts'
  BY <1>1, <1>3 DEF Build, Starts, Held, files, shells
<1>7. Stops'
  BY <1>1, <1>3 DEF Build, Stops, Listed, files, shells
<1>8. Builds'
  BY <1>1, <1>3 DEF Build, Builds, files, shells
<1> QED BY <1>1, <1>2, <1>4, <1>5, <1>6, <1>7, <1>8

\* do_stop, step by step.
LEMMA ReadPidsKeeps ==
  ASSUME WInv, NEW o \in Operator, ReadPids(o)
  PROVE  TypeOK' /\ Rest'
<1> USE DEF WInv, Rest
<1>1. /\ step'[o] = "signal" /\ step[o] = "read"
      /\ \A p \in Operator \ {o} : step[p] = "idle" /\ step'[p] = "idle"
      /\ step' \in [Operator -> Step] /\ OneBusy'
      /\ Stopping <=> step[o] \in StopStep
      /\ Stopping' <=> step'[o] \in StopStep
  <2>1. step[o] = "read" /\ "signal" \in Step /\ Goto(o, "signal")
    BY DEF ReadPids, Doing, Step, TypeOK
  <2> QED BY <2>1, StepIs
<1>2. TypeOK'
  <2>1. ReadPid(pidFile) \o ReadPid(childFile) \in Seq(Pid)
    <3>1. ReadPid(pidFile) \in Seq(Pid) /\ ReadPid(childFile) \in Seq(Pid)
      BY DEF TypeOK, ReadPid
    <3> QED BY <3>1, ConcatProperties
  <2> QED BY <1>1, <2>1 DEF ReadPids, TypeOK, files, shells, bounds
<1>3. Watchdogs' = Watchdogs /\ Children' = Children
  BY DEF ReadPids, Watchdogs, Children
<1>4. OneHolds' /\ OneWaits' /\ OneChild'
  BY <1>1, <1>3 DEF ReadPids, OneHolds, OneWaits, OneChild, Held, files, shells
<1>5. LockStands' /\ NamesStand'
  BY <1>1, <1>3 DEF ReadPids, LockStands, NamesStand, StopStep, Held, files, shells
<1>6. Starts'
  BY <1>1, <1>3 DEF ReadPids, Starts, Held, files, shells
<1>7. Stops'
  BY <1>1, <1>3 DEF ReadPids, Stops, TypeOK, files, shells
<1>8. Builds'
  BY <1>1, <1>3 DEF ReadPids, Builds, files, shells
<1> QED BY <1>1, <1>2, <1>4, <1>5, <1>6, <1>7, <1>8

\* By then nothing runs.
LEMMA RemovePidFilesKeeps ==
  ASSUME WInv, NEW o \in Operator, RemovePidFiles(o)
  PROVE  TypeOK' /\ Rest'
<1> USE DEF WInv, Rest
<1>1. /\ step'[o] = "unlock" /\ step[o] = "remove"
      /\ \A p \in Operator \ {o} : step[p] = "idle" /\ step'[p] = "idle"
      /\ step' \in [Operator -> Step] /\ OneBusy'
      /\ Stopping <=> step[o] \in StopStep
      /\ Stopping' <=> step'[o] \in StopStep
  <2>1. step[o] = "remove" /\ "unlock" \in Step /\ Goto(o, "unlock")
    BY DEF RemovePidFiles, Doing, Step, TypeOK
  <2> QED BY <2>1, StepIs
<1>2. TypeOK'
  BY <1>1 DEF RemovePidFiles, TypeOK, files, shells, bounds
<1>3. Watchdogs' = Watchdogs /\ Children' = Children
  BY DEF RemovePidFiles, Watchdogs, Children
<1>4. OneHolds' /\ OneWaits' /\ OneChild'
  BY <1>1, <1>3 DEF RemovePidFiles, OneHolds, OneWaits, OneChild, Stops, Held, files, shells
<1>5. LockStands' /\ NamesStand'
  BY <1>1, <1>3 DEF RemovePidFiles, LockStands, NamesStand, StopStep, Held, files, shells
<1>6. Starts'
  BY <1>1, <1>3 DEF RemovePidFiles, Starts, Held, files, shells
<1>7. Stops'
  BY <1>1, <1>3 DEF RemovePidFiles, Stops, Listed, files, shells
<1>8. Builds'
  BY <1>1, <1>3 DEF RemovePidFiles, Builds, files, shells
<1> QED BY <1>1, <1>2, <1>4, <1>5, <1>6, <1>7, <1>8

\* Nor is there anyone whose lock this was.
LEMMA RemoveLockKeeps ==
  ASSUME WInv, NEW o \in Operator, RemoveLock(o)
  PROVE  TypeOK' /\ Rest'
<1> USE DEF WInv, Rest
<1>1. /\ step'[o] = (IF command[o] = "stop" THEN "idle" ELSE "ensure") /\ step[o] = "unlock"
      /\ \A p \in Operator \ {o} : step[p] = "idle" /\ step'[p] = "idle"
      /\ step' \in [Operator -> Step] /\ OneBusy'
      /\ Stopping <=> step[o] \in StopStep
      /\ Stopping' <=> step'[o] \in StopStep
  <2>1. step[o] = "unlock" /\ (IF command[o] = "stop" THEN "idle" ELSE "ensure") \in Step /\ Goto(o, (IF command[o] = "stop" THEN "idle" ELSE "ensure"))
    BY DEF RemoveLock, Doing, Step, TypeOK
  <2> QED BY <2>1, StepIs
<1>2. TypeOK'
  BY <1>1 DEF RemoveLock, TypeOK, files, shells, bounds
<1>3. Watchdogs' = Watchdogs /\ Children' = Children
  BY DEF RemoveLock, Watchdogs, Children
<1>4. OneHolds' /\ OneWaits' /\ OneChild'
  BY <1>1, <1>3 DEF RemoveLock, OneHolds, OneWaits, OneChild, Held, files, shells
<1>5. LockStands' /\ NamesStand'
  BY <1>1, <1>3 DEF RemoveLock, LockStands, NamesStand, Stops, StopStep, Held, files, shells
<1>6. Starts'
  BY <1>1, <1>3 DEF RemoveLock, Starts, Held, files, shells
<1>7. Stops'
  BY <1>1, <1>3 DEF RemoveLock, Stops, Listed, files, shells
<1>8. Builds'
  BY <1>1, <1>3 DEF RemoveLock, Builds, Stops, files, shells
<1> QED BY <1>1, <1>2, <1>4, <1>5, <1>6, <1>7, <1>8

\* do_start, step by step.
LEMMA EnsureBinaryKeeps ==
  ASSUME WInv, NEW o \in Operator, EnsureBinary(o)
  PROVE  TypeOK' /\ Rest'
<1> USE DEF WInv, Rest
<1>1. /\ step'[o] = (IF command[o] = "foreground" THEN "spawn" ELSE "checkPid") /\ step[o] = "ensure"
      /\ \A p \in Operator \ {o} : step[p] = "idle" /\ step'[p] = "idle"
      /\ step' \in [Operator -> Step] /\ OneBusy'
      /\ Stopping <=> step[o] \in StopStep
      /\ Stopping' <=> step'[o] \in StopStep
  <2>1. step[o] = "ensure" /\ (IF command[o] = "foreground" THEN "spawn" ELSE "checkPid") \in Step /\ Goto(o, (IF command[o] = "foreground" THEN "spawn" ELSE "checkPid"))
    BY DEF EnsureBinary, Doing, Step, TypeOK
  <2> QED BY <2>1, StepIs
<1>2. TypeOK'
  <2>1. binary' \in Nat /\ 0..binary \subseteq 0..binary'
    BY DEF EnsureBinary, TypeOK
  <2> QED BY <1>1, <2>1 DEF EnsureBinary, TypeOK, files, shells, bounds
<1>3. Watchdogs' = Watchdogs /\ Children' = Children
  BY DEF EnsureBinary, Watchdogs, Children
<1>4. OneHolds' /\ OneWaits' /\ OneChild'
  BY <1>1, <1>3 DEF EnsureBinary, OneHolds, OneWaits, OneChild, Held, files, shells
<1>5. LockStands' /\ NamesStand'
  BY <1>1, <1>3 DEF EnsureBinary, LockStands, NamesStand, StopStep, Held, files, shells
<1>6. Starts'
  BY <1>1, <1>3 DEF EnsureBinary, Starts, Held, files, shells
<1>7. Stops'
  BY <1>1, <1>3 DEF EnsureBinary, Stops, Listed, files, shells
<1>8. Builds'
  BY <1>1, <1>3 DEF EnsureBinary, Builds, files, shells
<1> QED BY <1>1, <1>2, <1>4, <1>5, <1>6, <1>7, <1>8

\* A build that fails ends the command, and nothing runs that did not.
LEMMA FailBuildKeeps ==
  ASSUME WInv, NEW o \in Operator, FailBuild(o)
  PROVE  TypeOK' /\ Rest'
<1> USE DEF WInv, Rest
<1>1. /\ step'[o] = "idle" /\ step[o] \in {"build", "ensure"}
      /\ \A p \in Operator \ {o} : step[p] = "idle" /\ step'[p] = "idle"
      /\ step' \in [Operator -> Step] /\ OneBusy'
      /\ Stopping <=> step[o] \in StopStep
      /\ Stopping' <=> step'[o] \in StopStep
  <2>1. step[o] \in {"build", "ensure"} /\ "idle" \in Step /\ Goto(o, "idle")
    BY DEF FailBuild, Step
  <2> QED BY <2>1, StepIs
<1>2. TypeOK'
  <2>1. command' \in [Operator -> Command \cup {"none"}] /\ targets'[o] = targets[o]
    BY DEF FailBuild, TypeOK
  <2> QED BY <1>1, <2>1 DEF FailBuild, TypeOK, files, bounds
<1>3. Watchdogs' = Watchdogs /\ Children' = Children
  BY DEF FailBuild, Watchdogs, Children
<1>4. OneHolds' /\ OneWaits' /\ OneChild'
  BY <1>1, <1>3 DEF FailBuild, OneHolds, OneWaits, OneChild, Held, files
<1>5. LockStands' /\ NamesStand'
  BY <1>1, <1>3 DEF FailBuild, LockStands, NamesStand, StopStep, Held, files
<1>6. Starts'
  BY <1>1, <1>3 DEF FailBuild, Starts, Held, files
<1>7. Stops'
  BY <1>1, <1>3 DEF FailBuild, Stops, Listed, files
<1>8. Builds'
  BY <1>1, <1>3 DEF FailBuild, Builds, files
<1> QED BY <1>1, <1>2, <1>4, <1>5, <1>6, <1>7, <1>8

\* The lock is taken away only when nothing runs.
LEMMA FreeLockKeeps ==
  ASSUME WInv, NEW o \in Operator, FreeLock(o)
  PROVE  TypeOK' /\ Rest'
<1> USE DEF WInv, Rest
<1>1. /\ step'[o] = "spawn" /\ step[o] = "free"
      /\ \A p \in Operator \ {o} : step[p] = "idle" /\ step'[p] = "idle"
      /\ step' \in [Operator -> Step] /\ OneBusy'
      /\ Stopping <=> step[o] \in StopStep
      /\ Stopping' <=> step'[o] \in StopStep
  <2>1. step[o] = "free" /\ "spawn" \in Step /\ Goto(o, "spawn")
    BY DEF FreeLock, Doing, Step, TypeOK
  <2> QED BY <2>1, StepIs
<1>2. TypeOK'
  BY <1>1 DEF FreeLock, TypeOK, files, shells, bounds
<1>3. Watchdogs' = Watchdogs /\ Children' = Children
  BY DEF FreeLock, Watchdogs, Children
<1>4. OneHolds' /\ OneWaits' /\ OneChild'
  BY <1>1, <1>3 DEF FreeLock, OneHolds, OneWaits, OneChild, Held, files, shells
<1>5. LockStands' /\ NamesStand'
  BY <1>1, <1>3 DEF FreeLock, LockStands, NamesStand, Starts, StopStep, Held, files, shells
<1>6. Starts'
  BY <1>1, <1>3 DEF FreeLock, Starts, Held, files, shells
<1>7. Stops'
  BY <1>1, <1>3 DEF FreeLock, Stops, Listed, files, shells
<1>8. Builds'
  BY <1>1, <1>3 DEF FreeLock, Builds, files, shells
<1> QED BY <1>1, <1>2, <1>4, <1>5, <1>6, <1>7, <1>8

\* The file names the watchdog just started, the only one.
LEMMA WritePidFileKeeps ==
  ASSUME WInv, NEW o \in Operator, WritePidFile(o)
  PROVE  TypeOK' /\ Rest'
<1> USE DEF WInv, Rest
<1>1. /\ step'[o] = "idle" /\ step[o] = "write"
      /\ \A p \in Operator \ {o} : step[p] = "idle" /\ step'[p] = "idle"
      /\ step' \in [Operator -> Step] /\ OneBusy'
      /\ Stopping <=> step[o] \in StopStep
      /\ Stopping' <=> step'[o] \in StopStep
  <2>1. step[o] = "write" /\ "idle" \in Step /\ Goto(o, "idle")
    BY DEF WritePidFile, Doing, Step, TypeOK
  <2> QED BY <2>1, StepIs
<1>2. TypeOK'
  <2>1. started[o] \in Pid /\ upgraded' \in 0..binary
    BY <1>1 DEF WritePidFile, Starts, TypeOK
  <2> QED BY <1>1, <2>1 DEF WritePidFile, TypeOK, files, shells, bounds
<1>3. Watchdogs' = Watchdogs /\ Children' = Children
  BY DEF WritePidFile, Watchdogs, Children
<1>4. OneHolds' /\ OneWaits' /\ OneChild'
  BY <1>1, <1>3 DEF WritePidFile, OneHolds, OneWaits, OneChild, Starts, Held, files, shells
<1>5. LockStands' /\ NamesStand'
  BY <1>1, <1>3 DEF WritePidFile, LockStands, NamesStand, Starts, StopStep, Held, files, shells
<1>6. Starts'
  BY <1>1, <1>3 DEF WritePidFile, Starts, Held, files, shells
<1>7. Stops'
  BY <1>1, <1>3 DEF WritePidFile, Stops, Listed, files, shells
<1>8. Builds'
  <2>1. \A c \in Children : build[c] >= upgraded'
    BY <1>1 DEF WritePidFile, Builds, TypeOK, Children
  <2> QED BY <1>1, <1>3, <2>1 DEF WritePidFile, Builds, files, shells
<1> QED BY <1>1, <1>2, <1>4, <1>5, <1>6, <1>7, <1>8

\* Whoever gave foreground has seen it start or end.
LEMMA WatchStartKeeps ==
  ASSUME WInv, NEW o \in Operator, WatchStart(o)
  PROVE  TypeOK' /\ Rest'
<1> USE DEF WInv, Rest
<1>1. /\ step'[o] = "idle" /\ step[o] = "watch"
      /\ \A p \in Operator \ {o} : step[p] = "idle" /\ step'[p] = "idle"
      /\ step' \in [Operator -> Step] /\ OneBusy'
      /\ Stopping <=> step[o] \in StopStep
      /\ Stopping' <=> step'[o] \in StopStep
  <2>1. step[o] = "watch" /\ "idle" \in Step /\ Goto(o, "idle")
    BY DEF WatchStart, Doing, Step, TypeOK
  <2> QED BY <2>1, StepIs
<1>2. TypeOK'
  BY <1>1 DEF WatchStart, TypeOK, files, shells, bounds
<1>3. Watchdogs' = Watchdogs /\ Children' = Children
  BY DEF WatchStart, Watchdogs, Children
<1>4. OneHolds' /\ OneWaits' /\ OneChild'
  <2>1. \A w \in Watchdogs : Held(w)
    BY <1>1, WatchdogAssumption DEF WatchStart, Starts, OneWaits, Alive, Held, Watchdogs
  <2> QED BY <1>1, <1>3, <2>1 DEF WatchStart, OneHolds, OneWaits, OneChild, Held, files, shells
<1>5. LockStands' /\ NamesStand'
  BY <1>1, <1>3 DEF WatchStart, LockStands, NamesStand, StopStep, Held, files, shells
<1>6. Starts'
  BY <1>1, <1>3 DEF WatchStart, Starts, Held, files, shells
<1>7. Stops'
  BY <1>1, <1>3 DEF WatchStart, Stops, Listed, files, shells
<1>8. Builds'
  BY <1>1, <1>3 DEF WatchStart, Builds, files, shells
<1> QED BY <1>1, <1>2, <1>4, <1>5, <1>6, <1>7, <1>8

\* A watchdog that waits for the lock would stand in the file.
LEMMA CheckPidKeeps ==
  ASSUME WInv, NEW o \in Operator, CheckPid(o)
  PROVE  TypeOK' /\ Rest'
<1> USE DEF WInv, Rest
<1>1. /\ step'[o] = (IF Alive(pidFile) THEN "idle" ELSE "checkLock") /\ step[o] = "checkPid"
      /\ \A p \in Operator \ {o} : step[p] = "idle" /\ step'[p] = "idle"
      /\ step' \in [Operator -> Step] /\ OneBusy'
      /\ Stopping <=> step[o] \in StopStep
      /\ Stopping' <=> step'[o] \in StopStep
  <2>1. step[o] = "checkPid" /\ (IF Alive(pidFile) THEN "idle" ELSE "checkLock") \in Step /\ Goto(o, (IF Alive(pidFile) THEN "idle" ELSE "checkLock"))
    BY DEF CheckPid, Checked, Doing, Step, TypeOK
  <2> QED BY <2>1, StepIs
<1>2. TypeOK'
  BY <1>1 DEF CheckPid, Checked, Alive, TypeOK, files, shells, bounds
<1>3. Watchdogs' = Watchdogs /\ Children' = Children
  BY DEF CheckPid, Checked, Watchdogs, Children
<1>4. OneHolds' /\ OneWaits' /\ OneChild'
  BY <1>1, <1>3 DEF CheckPid, OneHolds, OneWaits, OneChild, Held, files, shells, Checked
<1>5. LockStands' /\ NamesStand'
  BY <1>1, <1>3 DEF CheckPid, LockStands, NamesStand, StopStep, Held, files, shells, Checked
<1>6. Starts'
  <2>1. ~Alive(pidFile) => \A w \in Watchdogs : Held(w)
    BY <1>1, WatchdogAssumption DEF OneWaits, Alive, Held, Watchdogs
  <2> QED BY <1>1, <1>3, <2>1 DEF CheckPid, Checked, Starts, Held, files, shells
<1>7. Stops'
  BY <1>1, <1>3 DEF CheckPid, Stops, Listed, files, shells, Checked
<1>8. Builds'
  BY <1>1, <1>3 DEF CheckPid, Builds, files, shells, Checked
<1> QED BY <1>1, <1>2, <1>4, <1>5, <1>6, <1>7, <1>8

\* Without a lock nothing runs.
LEMMA CheckLockKeeps ==
  ASSUME WInv, NEW o \in Operator, CheckLock(o)
  PROVE  TypeOK' /\ Rest'
<1> USE DEF WInv, Rest
<1>1. /\ step'[o] = (IF lock /\ Watchdogs \cup Children # {} THEN "idle" ELSE "free") /\ step[o] = "checkLock"
      /\ \A p \in Operator \ {o} : step[p] = "idle" /\ step'[p] = "idle"
      /\ step' \in [Operator -> Step] /\ OneBusy'
      /\ Stopping <=> step[o] \in StopStep
      /\ Stopping' <=> step'[o] \in StopStep
  <2>1. step[o] = "checkLock" /\ (IF lock /\ Watchdogs \cup Children # {} THEN "idle" ELSE "free") \in Step /\ Goto(o, (IF lock /\ Watchdogs \cup Children # {} THEN "idle" ELSE "free"))
    BY DEF CheckLock, Checked, Doing, Step, TypeOK
  <2> QED BY <2>1, StepIs
<1>2. TypeOK'
  BY <1>1 DEF CheckLock, TypeOK, files, shells, bounds, Checked
<1>3. Watchdogs' = Watchdogs /\ Children' = Children
  BY DEF CheckLock, Checked, Watchdogs, Children
<1>4. OneHolds' /\ OneWaits' /\ OneChild'
  BY <1>1, <1>3 DEF CheckLock, OneHolds, OneWaits, OneChild, Held, files, shells, Checked
<1>5. LockStands' /\ NamesStand'
  BY <1>1, <1>3 DEF CheckLock, LockStands, NamesStand, StopStep, Held, files, shells, Checked
<1>6. Starts'
  <2>1. ~(lock /\ Watchdogs \cup Children # {}) => Watchdogs = {} /\ Children = {}
    BY <1>1 DEF Starts, LockStands, StopStep
  <2> QED BY <1>1, <1>3, <2>1 DEF CheckLock, Checked, Starts, Held, files, shells
<1>7. Stops'
  BY <1>1, <1>3 DEF CheckLock, Stops, Listed, files, shells, Checked
<1>8. Builds'
  BY <1>1, <1>3 DEF CheckLock, Builds, files, shells, Checked
<1> QED BY <1>1, <1>2, <1>4, <1>5, <1>6, <1>7, <1>8

\* The list has every watchdog,
LEMMA ListWatchdogsKeeps ==
  ASSUME WInv, NEW o \in Operator, ListWatchdogs(o)
  PROVE  TypeOK' /\ Rest'
<1> USE DEF WInv, Rest
<1>1. /\ step'[o] = "signal" /\ step[o] = "listWatchdogs"
      /\ \A p \in Operator \ {o} : step[p] = "idle" /\ step'[p] = "idle"
      /\ step' \in [Operator -> Step] /\ OneBusy'
      /\ Stopping <=> step[o] \in StopStep
      /\ Stopping' <=> step'[o] \in StopStep
  <2>1. step[o] = "listWatchdogs" /\ "signal" \in Step /\ Goto(o, "signal")
    BY DEF ListWatchdogs, Doing, Step
  <2> QED BY <2>1, StepIs
<1>2. Watchdogs' = Watchdogs /\ Children' = Children
  BY DEF ListWatchdogs, Watchdogs, Children
<1>3. \A v, w \in Watchdogs : v = w
  BY <1>1 DEF OneHolds, OneWaits
<1>4. InOrder(Watchdogs) \in Seq(Pid) /\ Watchdogs \subseteq {InOrder(Watchdogs)[i] : i \in DOMAIN InOrder(Watchdogs)}
  <2>1. Watchdogs \subseteq Pid
    BY DEF Watchdogs
  <2>2. Seq(Watchdogs) \subseteq Seq(Pid)
    BY <2>1
  <2> QED BY <1>3, <2>2, InOrderOfFew
<1>5. /\ targets' = [targets EXCEPT ![o] = InOrder(Watchdogs)]
      /\ after' = [after EXCEPT ![o] = "listChildren"]
      /\ UNCHANGED <<what, place, mine, termed, build, files, binary, command, started, refused, upgraded, bounds>>
  BY DEF ListWatchdogs
<1>6. TypeOK'
  <2> HIDE DEF InOrder
  <2> QED BY <1>1, <1>4, <1>5 DEF TypeOK, files, bounds
<1>7. OneHolds' /\ OneWaits' /\ OneChild'
  BY <1>1, <1>2, <1>5 DEF OneHolds, OneWaits, OneChild, Held, files
<1>8. LockStands' /\ NamesStand' /\ Starts' /\ Builds'
  BY <1>1, <1>2, <1>5 DEF LockStands, NamesStand, Starts, Builds, StopStep, Held, files
<1>9. Stops'
  <2>1. targets'[o] = InOrder(Watchdogs) /\ after'[o] = "listChildren"
    BY <1>5 DEF TypeOK
  <2> QED BY <1>1, <1>2, <1>4, <2>1 DEF Stops, Listed
<1> QED BY <1>1, <1>6, <1>7, <1>8, <1>9

\* and, once none is left, every child.
LEMMA ListChildrenKeeps ==
  ASSUME WInv, NEW o \in Operator, ListChildren(o)
  PROVE  TypeOK' /\ Rest'
<1> USE DEF WInv, Rest
<1>1. /\ step'[o] = "signal" /\ step[o] = "listChildren"
      /\ \A p \in Operator \ {o} : step[p] = "idle" /\ step'[p] = "idle"
      /\ step' \in [Operator -> Step] /\ OneBusy'
      /\ Stopping <=> step[o] \in StopStep
      /\ Stopping' <=> step'[o] \in StopStep
  <2>1. step[o] = "listChildren" /\ "signal" \in Step /\ Goto(o, "signal")
    BY DEF ListChildren, Doing, Step
  <2> QED BY <2>1, StepIs
<1>2. Watchdogs' = Watchdogs /\ Children' = Children /\ Watchdogs = {}
  BY <1>1 DEF ListChildren, Watchdogs, Children, Stops
<1>4. InOrder(Children) \in Seq(Pid) /\ Children \subseteq {InOrder(Children)[i] : i \in DOMAIN InOrder(Children)}
  <2>1. Children \subseteq Pid /\ \A c, d \in Children : c = d
    BY DEF Children, OneChild
  <2>2. Seq(Children) \subseteq Seq(Pid)
    BY <2>1
  <2> QED BY <2>1, <2>2, InOrderOfFew
<1>5. /\ targets' = [targets EXCEPT ![o] = InOrder(Children)]
      /\ after' = [after EXCEPT ![o] = "remove"]
      /\ UNCHANGED <<what, place, mine, termed, build, files, binary, command, started, refused, upgraded, bounds>>
  BY DEF ListChildren
<1>6. TypeOK'
  BY <1>1, <1>4, <1>5 DEF TypeOK, files, bounds
<1>7. OneHolds' /\ OneWaits' /\ OneChild'
  BY <1>1, <1>2, <1>5 DEF OneHolds, OneWaits, OneChild, Held, files
<1>8. LockStands' /\ NamesStand' /\ Starts' /\ Builds'
  BY <1>1, <1>2, <1>5 DEF LockStands, NamesStand, Starts, Builds, StopStep, Held, files
<1>9. Stops'
  <2>1. targets'[o] = InOrder(Children) /\ after'[o] = "remove"
    BY <1>5 DEF TypeOK
  <2> QED BY <1>1, <1>2, <1>4, <2>1 DEF Stops, Listed
<1> QED BY <1>1, <1>6, <1>7, <1>8, <1>9

\* stop_pid drops a target that does not live.
LEMMA DropIs ==
  ASSUME TypeOK, NEW o \in Operator, targets[o] # <<>>, DropTarget(o)
  PROVE  /\ targets' \in [Operator -> Seq(Pid)]
         /\ Target(o) \in Pid
         /\ Listed(o) \ {Target(o)} \subseteq Listed(o)'
<1> DEFINE s == targets[o]
<1>1. s \in Seq(Pid) /\ s # <<>>
  BY DEF TypeOK
<1>2. targets'[o] = Tail(s) /\ targets' = [targets EXCEPT ![o] = Tail(s)]
  BY DEF DropTarget, TypeOK
<1>3. Tail(s) \in Seq(Pid) /\ Head(s) \in Pid /\ Len(Tail(s)) = Len(s) - 1 /\ Head(s) = s[1]
  BY <1>1, HeadTailProperties
<1>4. ASSUME NEW i \in DOMAIN s, s[i] # Head(s)
      PROVE  \E j \in DOMAIN Tail(s) : Tail(s)[j] = s[i]
  <2>1. i \in 1..Len(s) /\ Len(s) \in Nat /\ i # 1
    BY <1>1, <1>3, <1>4, LenProperties
  <2>2. i - 1 \in 1..Len(Tail(s)) /\ DOMAIN Tail(s) = 1..Len(Tail(s))
    BY <1>3, <2>1, LenProperties
  <2>3. Tail(s)[i - 1] = s[i]
    BY <1>1, <2>1, <2>2, HeadTailProperties
  <2> QED BY <2>2, <2>3
<1>5. \A x \in Listed(o) \ {Target(o)} : x \in Listed(o)'
  BY <1>2, <1>4 DEF Listed, Target
<1>6. targets' \in [Operator -> Seq(Pid)]
  BY <1>2, <1>3 DEF TypeOK
<1> QED BY <1>3, <1>5, <1>6 DEF Target

\* Who was listed and has ended is dropped; at the end of the list nobody
\* of it lives.
LEMMA SignalKeeps ==
  ASSUME WInv, NEW o \in Operator, Signal(o)
  PROVE  TypeOK' /\ Rest'
<1> USE DEF WInv, Rest
<1>1. /\ step[o] = "signal" /\ Stopping
      /\ UNCHANGED <<what, place, mine, build, files, binary, command, started, after, refused, upgraded, bounds>>
      /\ Watchdogs' = Watchdogs /\ Children' = Children
  BY DEF Signal, Stopping, StopStep, Watchdogs, Children
<1>2. CASE targets[o] = <<>>
  <2>1. Goto(o, after[o]) /\ UNCHANGED <<termed, targets>> /\ after[o] \in Step
    BY <1>2 DEF Signal, TypeOK, Step
  <2>2. /\ step'[o] = after[o]
        /\ \A p \in Operator \ {o} : step[p] = "idle" /\ step'[p] = "idle"
        /\ step' \in [Operator -> Step] /\ OneBusy'
        /\ Stopping' <=> step'[o] \in StopStep
    BY <1>1, <2>1, StepIs
  <2>3. after[o] \in {"listWatchdogs", "listChildren", "remove"}
    BY DEF TypeOK
  <2>4. TypeOK'
    BY <1>1, <2>1, <2>2, <2>3 DEF TypeOK, files, bounds
  <2>5. OneHolds' /\ OneWaits' /\ OneChild'
    BY <1>1, <2>2, <2>3 DEF OneHolds, OneWaits, OneChild, Held, files
  <2>6. LockStands' /\ NamesStand' /\ Starts' /\ Builds'
    BY <1>1, <2>1, <2>2, <2>3 DEF LockStands, NamesStand, Starts, Builds, StopStep, Held, files
  <2>7. Stops'
    <3>1. Listed(o) = {}
      BY <1>2 DEF Listed
    <3> QED BY <1>1, <2>1, <2>2, <2>3, <3>1 DEF Stops
  <2> QED BY <2>2, <2>4, <2>5, <2>6, <2>7
<1>3. CASE targets[o] # <<>> /\ Alive(Target(o))
  <2>1. Goto(o, "await") /\ termed' = termed \cup {Target(o)} /\ UNCHANGED targets
    BY <1>3 DEF Signal
  <2>2. /\ step'[o] = "await"
        /\ \A p \in Operator \ {o} : step[p] = "idle" /\ step'[p] = "idle"
        /\ step' \in [Operator -> Step] /\ OneBusy'
        /\ Stopping' <=> step'[o] \in StopStep
    <3>1. "await" \in Step
      BY DEF Step
    <3> QED BY <1>1, <2>1, <3>1, StepIs
  <2>3. TypeOK'
    <3>1. Target(o) \in Pid
      BY <1>3, HeadTailProperties DEF TypeOK, Target
    <3> QED BY <1>1, <1>3, <2>1, <2>2, <3>1 DEF TypeOK, Alive, files, bounds
  <2>4. OneHolds' /\ OneWaits' /\ OneChild'
    BY <1>1, <2>2 DEF OneHolds, OneWaits, OneChild, Held, files
  <2>5. LockStands' /\ NamesStand' /\ Starts' /\ Builds'
    BY <1>1, <2>2 DEF LockStands, NamesStand, Starts, Builds, StopStep, Held, files
  <2>6. Stops'
    BY <1>1, <2>1, <2>2 DEF Stops, Listed
  <2> QED BY <2>2, <2>3, <2>4, <2>5, <2>6
<1>4. CASE targets[o] # <<>> /\ ~Alive(Target(o))
  <2>1. DropTarget(o) /\ UNCHANGED <<termed, step>>
    BY <1>4 DEF Signal
  <2>2. /\ targets' \in [Operator -> Seq(Pid)] /\ Target(o) \in Pid
        /\ Listed(o) \ {Target(o)} \subseteq Listed(o)'
        /\ Target(o) \notin Watchdogs \cup Children
    BY <1>4, <2>1, DropIs, WatchdogAssumption DEF Alive, Watchdogs, Children
  <2>3. \A p \in Operator \ {o} : step[p] = "idle"
    BY <1>1 DEF OneBusy
  <2>4. TypeOK'
    BY <1>1, <2>1, <2>2, <2>3 DEF TypeOK, files, bounds
  <2>5. OneBusy' /\ OneHolds' /\ OneWaits' /\ OneChild'
    BY <1>1, <2>1 DEF OneBusy, OneHolds, OneWaits, OneChild, Held, files
  <2>6. LockStands' /\ NamesStand' /\ Starts' /\ Builds'
    BY <1>1, <2>1 DEF LockStands, NamesStand, Starts, Builds, Stopping, Held, files
  <2>7. Stops'
    <3> HIDE DEF Listed, Target
    <3>1. Watchdogs \subseteq Listed(o) => Watchdogs \subseteq Listed(o)'
      BY <2>2
    <3>2. Children \subseteq Listed(o) => Children \subseteq Listed(o)'
      BY <2>2
    <3> QED BY <1>1, <2>1, <2>3, <3>1, <3>2 DEF Stops
  <2> QED BY <2>4, <2>5, <2>6, <2>7
<1> QED BY <1>2, <1>3, <1>4

\* stop_pid has seen its target end.
LEMMA AwaitKeeps ==
  ASSUME WInv, NEW o \in Operator, Await(o)
  PROVE  TypeOK' /\ Rest'
<1> USE DEF WInv, Rest
<1>1. /\ step[o] = "await" /\ Goto(o, "signal") /\ DropTarget(o) /\ ~Alive(Target(o)) /\ targets[o] # <<>>
      /\ UNCHANGED <<what, place, mine, termed, build, files, binary, command, started, after, refused, upgraded, bounds>>
      /\ Watchdogs' = Watchdogs /\ Children' = Children
  BY DEF Await, Doing, TypeOK, Watchdogs, Children
<1>2. /\ step'[o] = "signal"
      /\ \A p \in Operator \ {o} : step[p] = "idle" /\ step'[p] = "idle"
      /\ step' \in [Operator -> Step] /\ OneBusy'
      /\ Stopping /\ Stopping'
  BY <1>1, StepIs DEF Step, StopStep
<1>3. /\ targets' \in [Operator -> Seq(Pid)] /\ Target(o) \in Pid
      /\ Listed(o) \ {Target(o)} \subseteq Listed(o)'
      /\ Target(o) \notin Watchdogs \cup Children
  BY <1>1, DropIs, WatchdogAssumption DEF Alive, Watchdogs, Children
<1>4. TypeOK'
  BY <1>1, <1>2, <1>3 DEF TypeOK, files, bounds
<1>5. OneHolds' /\ OneWaits' /\ OneChild'
  BY <1>1, <1>2 DEF OneHolds, OneWaits, OneChild, Held, files
<1>6. LockStands' /\ NamesStand' /\ Starts' /\ Builds'
  BY <1>1, <1>2 DEF LockStands, NamesStand, Starts, Builds, Held, files
<1>7. Stops'
  <2>1. Watchdogs \subseteq Listed(o) => Watchdogs \subseteq Listed(o)'
    BY <1>3
  <2>2. Children \subseteq Listed(o) => Children \subseteq Listed(o)'
    BY <1>3
  <2> QED BY <1>1, <1>2, <2>1, <2>2 DEF Stops
<1> QED BY <1>2, <1>4, <1>5, <1>6, <1>7

\* Or it has ended it.
LEMMA ForceStopKeeps ==
  ASSUME WInv, NEW o \in Operator, ForceStop(o)
  PROVE  TypeOK' /\ Rest'
<1> USE DEF WInv, Rest
<1>1. /\ step[o] = "await" /\ Goto(o, "signal") /\ DropTarget(o) /\ targets[o] # <<>> /\ Die(Target(o))
      /\ UNCHANGED <<files, binary, command, started, after, refused, upgraded, bounds>>
  BY DEF ForceStop, Doing, TypeOK
<1>2. /\ step'[o] = "signal"
      /\ \A p \in Operator \ {o} : step[p] = "idle" /\ step'[p] = "idle"
      /\ step' \in [Operator -> Step] /\ OneBusy'
      /\ Stopping /\ Stopping'
  BY <1>1, StepIs DEF Step, StopStep
<1>3. /\ targets' \in [Operator -> Seq(Pid)] /\ Target(o) \in Pid
      /\ Listed(o) \ {Target(o)} \subseteq Listed(o)'
  BY <1>1, DropIs
<1>4. TypeOK'
  BY <1>1, <1>2, <1>3, DieTyped DEF TypeOK, files, bounds
<1>5. PICK p \in Pid : p = Target(o)
  BY <1>3
<1>6. /\ Watchdogs' = Watchdogs \ {p} /\ Children' = Children \ {p}
      /\ place'[p] = "mkdir"
      /\ \A q \in Pid \ {p} : place'[q] = place[q] /\ mine'[q] = mine[q] /\ build'[q] = build[q]
  BY <1>1, <1>5 DEF Die, TypeOK, Watchdogs, Children
<1>7. OneHolds' /\ OneWaits' /\ OneChild'
  BY <1>1, <1>2, <1>6 DEF OneHolds, OneWaits, OneChild, Held, files, Watchdogs
<1>8. LockStands' /\ NamesStand'
  BY <1>2 DEF LockStands, NamesStand
<1>9. Starts' /\ Builds'
  BY <1>1, <1>2, <1>6 DEF Starts, Builds, Held, files, Children
<1>10. Stops'
  <2>1. Watchdogs \subseteq Listed(o) => Watchdogs \ {p} \subseteq Listed(o)'
    BY <1>3, <1>5
  <2>2. Children \subseteq Listed(o) => Children \ {p} \subseteq Listed(o)'
    BY <1>3, <1>5
  <2> QED BY <1>1, <1>2, <1>6, <2>1, <2>2 DEF Stops
<1> QED BY <1>2, <1>4, <1>7, <1>8, <1>9, <1>10

\* A command is given when none runs.
LEMMA GiveKeeps ==
  ASSUME WInv, OneAtATime, NEW o \in Operator, NEW cmd \in Command, Give(o, cmd)
  PROVE  TypeOK' /\ Rest'
<1> USE DEF WInv, Rest
<1>1. Busy = {}
  <2>1. CASE \E p \in Operator : p \in Busy
    <3>1. PICK p \in Operator : Busy = {p}
      BY <2>1 DEF Busy, OneBusy
    <3>2. Cardinality(Busy) = 1
      BY <3>1, FS_Singleton
    <3> QED BY <3>2, WatchdogAssumption DEF Give, OneAtATime
  <2> QED BY <2>1 DEF Busy
<1> DEFINE st == CASE cmd = "upgrade" -> "build"
                   [] cmd \in {"stop", "restart"} -> "read"
                   [] cmd \in {"start", "foreground"} -> "ensure"
<1>2. /\ cmd \in {"start", "stop", "restart", "upgrade", "foreground"}
      /\ cmd = "foreground" => \A w \in Watchdogs : Held(w)
      /\ Goto(o, st) /\ command' = [command EXCEPT ![o] = cmd]
      /\ commands' \in 0..MaxCommands /\ refused' \in [Operator -> BOOLEAN]
      /\ UNCHANGED <<what, place, mine, termed, build, files, binary,
                     targets, started, after, upgraded, crashes, kills, reboots>>
  <2>1. commands' \in 0..MaxCommands /\ refused' \in [Operator -> BOOLEAN]
    <3>1. /\ commands < MaxCommands /\ commands' = commands + 1
          /\ refused' = [refused EXCEPT ![o] = FALSE]
      BY DEF Give
    <3>2. commands \in 0..MaxCommands /\ refused \in [Operator -> BOOLEAN] /\ MaxCommands \in Nat
      BY WatchdogAssumption DEF TypeOK
    <3> QED BY <3>1, <3>2
  <2>2. cmd \in Command /\ Command \subseteq {"start", "stop", "restart", "upgrade", "foreground"}
    BY WatchdogAssumption DEF Give
  <2>3. cmd = "foreground" => \A w \in Watchdogs : Held(w)
    BY DEF Give, OneAtATime, Held
  <2>4. Goto(o, st) /\ command' = [command EXCEPT ![o] = cmd]
    BY DEF Give
  <2>5. UNCHANGED <<what, place, mine, termed, build, files, binary,
                    targets, started, after, upgraded, crashes, kills, reboots>>
    BY DEF Give
  <2> QED BY <2>1, <2>2, <2>3, <2>4, <2>5
<1>3. /\ st \in {"build", "read", "ensure"}
      /\ st = "ensure" => cmd \in {"start", "foreground"}
      /\ cmd = "foreground" => st = "ensure"
      /\ cmd = "upgrade" => st = "build"
  BY <1>2
<1> HIDE DEF st
<1>4. /\ step'[o] = st /\ step' \in [Operator -> Step]
      /\ \A p \in Operator \ {o} : step'[p] = "idle"
      /\ \A p \in Operator : step[p] = "idle"
      /\ command'[o] = cmd
      /\ \A p \in Operator \ {o} : command'[p] = command[p]
      /\ ~Stopping
  BY <1>1, <1>2, <1>3 DEF Goto, TypeOK, Busy, Step, Stopping, StopStep
<1>5. Watchdogs' = Watchdogs /\ Children' = Children
  BY <1>2 DEF Watchdogs, Children
<1>6. TypeOK'
  BY <1>2, <1>3, <1>4 DEF TypeOK, files
<1>7. OneBusy' /\ OneHolds' /\ OneWaits' /\ OneChild'
  BY <1>2, <1>3, <1>4, <1>5 DEF OneBusy, OneHolds, OneWaits, OneChild, Held, files
<1>8. LockStands' /\ NamesStand'
  BY <1>2, <1>4, <1>5 DEF LockStands, NamesStand, Held, files
<1>9. Starts'
  BY <1>2, <1>3, <1>4, <1>5 DEF Starts, Held
<1>10. Stops' /\ Builds'
  BY <1>2, <1>3, <1>4, <1>5 DEF Stops, Builds
<1> QED BY <1>6, <1>7, <1>8, <1>9, <1>10

\* A start finds nothing running, foreground at most one with the lock.
LEMMA SpawnWatchdogKeeps ==
  ASSUME WInv, NEW o \in Operator, SpawnWatchdog(o)
  PROVE  TypeOK' /\ Rest'
<1> USE DEF WInv, Rest
<1> DEFINE st == IF command[o] = "foreground" THEN "watch" ELSE "write"
<1>1. PICK w \in Unused : /\ what' = [what EXCEPT ![w] = "watchdog"]
                          /\ started' = [started EXCEPT ![o] = w]
  BY NextPidIsUnused DEF SpawnWatchdog
<1>2. /\ step[o] = "spawn" /\ Goto(o, st) /\ st \in Step
      /\ UNCHANGED <<place, mine, termed, build, files, binary, command, targets, after, refused, upgraded, bounds>>
      /\ w \in Pid /\ what[w] = "none"
  BY DEF SpawnWatchdog, Doing, Step, Unused
<1>3. /\ step'[o] = st /\ step' \in [Operator -> Step] /\ OneBusy'
      /\ \A p \in Operator \ {o} : step[p] = "idle" /\ step'[p] = "idle"
      /\ ~Stopping /\ ~Stopping'
  BY <1>2, StepIs DEF StopStep
<1>4. /\ Watchdogs' = Watchdogs \cup {w} /\ Children' = Children
      /\ w \notin Watchdogs /\ w \notin termed
      /\ started'[o] = w
  BY <1>1, <1>2 DEF TypeOK, Watchdogs, Children
<1>5. TypeOK'
  <2>1. started' \in [Operator -> Pid \cup {NoPid}]
    BY <1>1, <1>2 DEF TypeOK
  <2> QED BY <1>1, <1>2, <1>3, <2>1 DEF TypeOK, files, bounds
<1>6. ~Held(w)
  BY <1>2 DEF OneHolds
<1>7. /\ OneHolds' /\ OneWaits' /\ OneChild'
  BY <1>1, <1>2, <1>3, <1>4, <1>6 DEF OneHolds, OneWaits, OneChild, Starts, Held, files
<1>8. LockStands' /\ NamesStand'
  BY <1>1, <1>2, <1>3, <1>4, <1>6 DEF LockStands, NamesStand, Held, Ending, files
<1>9. Starts' /\ Stops' /\ Builds'
  BY <1>1, <1>2, <1>3, <1>4, <1>6 DEF Starts, Stops, Builds, Held, files
<1> QED BY <1>3, <1>5, <1>7, <1>8, <1>9

-----------------------------------------------------------------------------
(* The machine, and all steps together. *)

\* Nothing runs after a restart of the machine.
LEMMA RebootKeeps ==
  ASSUME WInv, Reboot
  PROVE  TypeOK' /\ Rest'
<1> USE DEF WInv, Rest
<1>1. PICK reused \in SUBSET Pid : what' = [p \in Pid |-> IF p \in reused THEN "other" ELSE "none"]
  <2>1. SUBSET ({pidFile, childFile} \ {NoPid}) \subseteq SUBSET Pid /\ {{}} \subseteq SUBSET Pid
    BY DEF TypeOK
  <2>2. CASE PidsReturn
    BY <2>1, <2>2 DEF Reboot
  <2>3. CASE ~PidsReturn
    BY <2>1, <2>3 DEF Reboot
  <2> QED BY <2>2, <2>3
<1>2. Watchdogs' = {} /\ Children' = {}
  BY <1>1 DEF Watchdogs, Children
<1>3. TypeOK'
  <2>1. <<>> \in Seq(Pid)
    OBVIOUS
  <2>2. targets' \in [Operator -> Seq(Pid)] /\ \A o \in Operator : step'[o] # "await"
    BY <2>1 DEF Reboot
  <2>3. what' \in [Pid -> {"none", "watchdog", "child", "other"}] /\ termed' = {}
    BY <1>1 DEF Reboot
  <2>4. place' \in [Pid -> Place] /\ mine' \in [Pid -> Pid \cup {NoPid}] /\ build' \in [Pid -> 0..binary']
    BY DEF Reboot, TypeOK, Place
  <2>5. /\ command' \in [Operator -> Command \cup {"none"}] /\ step' \in [Operator -> Step]
        /\ started' \in [Operator -> Pid \cup {NoPid}]
        /\ after' \in [Operator -> {"listWatchdogs", "listChildren", "remove"}]
        /\ refused' \in [Operator -> BOOLEAN]
    BY DEF Reboot, Step
  <2>6. reboots' \in 0..MaxReboots
    BY WatchdogAssumption DEF Reboot, TypeOK
  <2> QED BY <2>2, <2>3, <2>4, <2>5, <2>6 DEF Reboot, TypeOK, files
<1>4. OneBusy' /\ OneHolds' /\ OneWaits' /\ LockStands' /\ OneChild' /\ NamesStand'
  BY <1>2 DEF Reboot, OneBusy, OneHolds, OneWaits, LockStands, OneChild, NamesStand, Held
<1>5. Starts' /\ Stops' /\ Builds'
  BY <1>2 DEF Reboot, Starts, Stops, Builds
<1> QED BY <1>3, <1>4, <1>5

\* Nothing changes.
LEMMA StutterKeeps ==
  ASSUME WInv, UNCHANGED vars
  PROVE  TypeOK' /\ Rest'
<1> USE DEF WInv, Rest, vars, files, shells, bounds, Watchdogs, Children
<1>1. TypeOK'
  BY DEF TypeOK
<1>2. OneBusy' /\ OneHolds' /\ OneWaits' /\ OneChild'
  BY DEF OneBusy, OneHolds, OneWaits, OneChild, Held
<1>3. LockStands' /\ NamesStand'
  BY DEF LockStands, NamesStand, Stopping, Held
<1>4. Starts' /\ Stops' /\ Builds'
  BY DEF Starts, Stops, Builds, Listed, Held
<1> QED BY <1>1, <1>2, <1>3, <1>4

\* Nothing runs at first.
LEMMA InitSound ==
  ASSUME Init
  PROVE  WInv
<1>1. Watchdogs = {} /\ Children = {}
  BY DEF Init, Watchdogs, Children
<1>2. TypeOK
  <2>1. <<>> \in Seq(Pid)
    OBVIOUS
  <2>2. targets \in [Operator -> Seq(Pid)] /\ \A o \in Operator : step[o] # "await"
    BY <2>1 DEF Init
  <2>3. /\ what \in [Pid -> {"none", "watchdog", "child", "other"}] /\ termed = {}
        /\ place \in [Pid -> Place] /\ mine \in [Pid -> Pid \cup {NoPid}] /\ build \in [Pid -> 0..binary]
    BY DEF Init, Place
  <2>4. /\ command \in [Operator -> Command \cup {"none"}] /\ step \in [Operator -> Step]
        /\ started \in [Operator -> Pid \cup {NoPid}]
        /\ after \in [Operator -> {"listWatchdogs", "listChildren", "remove"}]
        /\ refused \in [Operator -> BOOLEAN]
    BY DEF Init, Step
  <2>5. /\ commands \in 0..MaxCommands /\ crashes \in 0..MaxCrashes
        /\ kills \in 0..MaxKills /\ reboots \in 0..MaxReboots
    BY WatchdogAssumption DEF Init
  <2>6. pidFile \in Pid \cup {NoPid} /\ childFile \in Pid \cup {NoPid} /\ lock \in BOOLEAN
    BY DEF Init
  <2>7. binary \in Nat /\ upgraded \in 0..binary
    BY DEF Init
  <2> QED BY <2>2, <2>3, <2>4, <2>5, <2>6, <2>7 DEF TypeOK
<1>3. OneBusy /\ OneHolds /\ OneWaits /\ LockStands /\ OneChild /\ NamesStand
  BY <1>1 DEF Init, OneBusy, OneHolds, OneWaits, LockStands, OneChild, NamesStand, Held
<1>4. Starts /\ Stops /\ Builds
  BY <1>1 DEF Init, Starts, Stops, Builds
<1> QED BY <1>2, <1>3, <1>4 DEF WInv, Rest

\* One case per action.
LEMMA StepKeeps ==
  ASSUME WInv, OneAtATime, [Next]_vars
  PROVE  WInv'
<1>c. ASSUME NEW o \in Operator, RunCommand(o)
      PROVE  TypeOK' /\ Rest'
  BY <1>c, BuildKeeps, ReadPidsKeeps, ListWatchdogsKeeps, ListChildrenKeeps, SignalKeeps, AwaitKeeps,
     RemovePidFilesKeeps, RemoveLockKeeps, EnsureBinaryKeeps, CheckPidKeeps, CheckLockKeeps, FreeLockKeeps,
     SpawnWatchdogKeeps, WritePidFileKeeps, WatchStartKeeps DEF RunCommand
<1>w. ASSUME NEW w \in Pid, RunWatchdog(w)
      PROVE  TypeOK' /\ Rest'
  <2>1. CASE MakeLock(w) \/ Spawn(w) \/ UnlockAndExit(w)
    BY <2>1, MakeLockKeeps, SpawnKeeps, UnlockAndExitKeeps
  <2>2. CASE WritePid(w) \/ SetTraps(w) \/ RecordChild(w) \/ Wait(w) \/ ForgetChild(w) \/ Sleep(w) \/ HandleTerm(w)
    BY <2>2, WorkKeeps
  <2>3. CASE DieUntrapped(w)
    <3>1. Die(w) /\ UNCHANGED <<files, binary, shells, bounds>>
      BY <2>3 DEF DieUntrapped
    <3> QED BY <3>1, DeathKeeps DEF WInv, TypeOK, bounds
  <2>4. CASE \/ Clean(w, "clean", "reap") \/ Reap(w, "reap", "remove")
             \/ RemoveFiles(w, "remove", "unlock") \/ Unlock(w)
             \/ Clean(w, "clean2", "reap2") \/ Reap(w, "reap2", "remove2")
             \/ RemoveFiles(w, "remove2", "unlock2")
    BY <2>4, CleanUpKeeps DEF Ending
  <2> QED BY <1>w, <2>1, <2>2, <2>3, <2>4 DEF RunWatchdog
<1>d. ASSUME NEW p \in Pid, ChildEnds(p) \/ ChildCrashes(p) \/ WatchdogKilled(p)
      PROVE  TypeOK' /\ Rest'
  <2>1. Die(p) /\ UNCHANGED <<files, binary, shells>>
    BY <1>d DEF ChildEnds, ChildCrashes, WatchdogKilled
  <2>2. /\ commands' \in 0..MaxCommands /\ crashes' \in 0..MaxCrashes
        /\ kills' \in 0..MaxKills /\ reboots' \in 0..MaxReboots
    <3> USE WatchdogAssumption DEF WInv, TypeOK
    <3>1. CASE ChildEnds(p)
      BY <3>1 DEF ChildEnds, bounds
    <3>2. CASE ChildCrashes(p)
      BY <3>2 DEF ChildCrashes
    <3>3. CASE WatchdogKilled(p)
      BY <3>3 DEF WatchdogKilled
    <3> QED BY <1>d, <3>1, <3>2, <3>3
  <2> QED BY <2>1, <2>2, DeathKeeps
<1>1. CASE \E o \in Operator : RunCommand(o) \/ ForceStop(o) \/ FailBuild(o) \/ \E cmd \in Command : Give(o, cmd)
  BY <1>1, <1>c, ForceStopKeeps, FailBuildKeeps, GiveKeeps DEF WInv
<1>2. CASE \E p \in Pid : RunWatchdog(p) \/ ChildEnds(p) \/ ChildCrashes(p) \/ WatchdogKilled(p)
  BY <1>2, <1>w, <1>d DEF WInv
<1>3. CASE Reboot
  BY <1>3, RebootKeeps DEF WInv
<1>4. CASE UNCHANGED vars
  BY <1>4, StutterKeeps DEF WInv
<1> QED BY <1>1, <1>2, <1>3, <1>4 DEF Next

\* The invariant holds throughout.
LEMMA Invariance ==
  ASSUME OneAtATime
  PROVE  Spec => []WInv
<1>1. Init => WInv
  BY InitSound
<1>2. WInv /\ [Next]_vars => WInv'
  BY StepKeeps
<1> QED BY <1>1, <1>2, PTL DEF Spec

-----------------------------------------------------------------------------
(* Theorems. *)

\* The script's state keeps its type; that pgrep's list is one of pids needs
\* that there is one process of a kind at most.
THEOREM TypeCorrect ==
  ASSUME OneAtATime
  PROVE  Spec => []TypeOK
BY Invariance, PTL DEF WInv

\* A set whose elements are all one.
LEMMA FewMakeOne ==
  ASSUME NEW S, \A v, w \in S : v = w
  PROVE  Cardinality(S) <= 1
<1>1. CASE S = {}
  BY <1>1, FS_EmptySet
<1>2. CASE \E w \in S : S = {w}
  <2>1. PICK w \in S : S = {w}
    BY <1>2
  <2>2. Cardinality(S) = 1
    BY <2>1, FS_Singleton
  <2> QED BY <2>2
<1> QED BY <1>1, <1>2

\* run_watchdog's lock and the checks of do_start: at most one watchdog past
\* the lock and one child, whatever was killed or left over.
THEOREM NeverTwo ==
  ASSUME OneAtATime
  PROVE  Spec => []OneOfEach
<1>1. WInv => OneOfEach
  BY FewMakeOne DEF WInv, Rest, OneHolds, OneChild, OneOfEach, Held
<1> QED BY <1>1, Invariance, PTL

\* When no command runs, the pid files name the watchdog and the child.
THEOREM FilesAreTrue ==
  ASSUME OneAtATime
  PROVE  Spec => []FilesNameThem
<1>1. WInv => FilesNameThem
  BY DEF WInv, Rest, LockStands, NamesStand, FilesNameThem, Held, Stopping, StopStep, Busy
<1> QED BY <1>1, Invariance, PTL

\* After do_upgrade no child runs an older binary.
THEOREM UpgradesReplace ==
  ASSUME OneAtATime
  PROVE  Spec => []UpgradeReplaces
<1>1. WInv => UpgradeReplaces
  BY DEF WInv, Rest, Builds, UpgradeReplaces
<1> QED BY <1>1, Invariance, PTL

\* do_stop leaves no process, no file and no lock.
THEOREM StopIsComplete ==
  ASSUME OneAtATime
  PROVE  Spec => StopLeavesNothing
<1>1. ASSUME WInv, [Next]_vars
      PROVE  [\A o \in Operator : step[o] = "unlock" /\ step'[o] # "unlock" /\ reboots' = reboots
                => /\ Watchdogs = {} /\ Children = {}
                   /\ pidFile' = NoPid /\ childFile' = NoPid /\ ~lock']_vars
  <2> SUFFICES ASSUME NEW o \in Operator, step[o] = "unlock", step'[o] # "unlock", reboots' = reboots
               PROVE  /\ Watchdogs = {} /\ Children = {}
                      /\ pidFile' = NoPid /\ childFile' = NoPid /\ ~lock'
    OBVIOUS
  <2>1. Watchdogs = {} /\ Children = {} /\ pidFile = NoPid /\ childFile = NoPid
    BY <1>1 DEF WInv, Rest, Stops
  <2>2. ASSUME NEW p \in Operator, RunCommand(p) \/ ForceStop(p) \/ FailBuild(p)
        PROVE  RemoveLock(o)
    <3>1. step[p] # "idle"
      BY <2>2 DEF RunCommand, ForceStop, FailBuild, Build, ReadPids, ListWatchdogs, ListChildren, Signal, Await,
         RemovePidFiles, RemoveLock, EnsureBinary, CheckPid, CheckLock, Checked, FreeLock, SpawnWatchdog,
         WritePidFile, WatchStart, Doing
    <3>2. p = o
      BY <1>1, <3>1 DEF WInv, Rest, OneBusy
    <3> QED BY <2>2, <3>2 DEF RunCommand, ForceStop, FailBuild, Build, ReadPids, ListWatchdogs, ListChildren, Signal, Await,
              RemovePidFiles, EnsureBinary, CheckPid, CheckLock, Checked, FreeLock, SpawnWatchdog,
              WritePidFile, WatchStart, Doing
  <2>3. ASSUME NEW p \in Operator, NEW cmd \in Command, Give(p, cmd)
        PROVE  step'[o] = step[o]
    BY <1>1, <2>3 DEF Give, Goto, WInv, TypeOK
  <2>4. ASSUME NEW p \in Pid, RunWatchdog(p) \/ ChildEnds(p) \/ ChildCrashes(p) \/ WatchdogKilled(p)
        PROVE  step' = step
    BY <2>4 DEF RunWatchdog, ChildEnds, ChildCrashes, WatchdogKilled, MakeLock, WritePid, SetTraps, DieUntrapped,
       Spawn, RecordChild, Wait, ForgetChild, Sleep, HandleTerm, Clean, Reap, RemoveFiles, Unlock, UnlockAndExit, shells
  <2>5. ~Reboot
    BY <1>1, WatchdogAssumption DEF Reboot, WInv, TypeOK
  <2>6. RemoveLock(o)
    BY <1>1, <2>2, <2>3, <2>4, <2>5 DEF Next, vars, shells
  <2> QED BY <2>1, <2>6 DEF RemoveLock
<1> QED BY <1>1, Invariance, PTL DEF Spec, StopLeavesNothing
=============================================================================
