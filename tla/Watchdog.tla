------------------------------ MODULE Watchdog ------------------------------
(***************************************************************************)
(* The watchdog script (scripts/xcloud-watchdog.sh) for one mode, server   *)
(* or client: commands that start, stop, restart and upgrade, the watchdog *)
(* process that keeps a child running, and the files by which they find    *)
(* each other: two pid files and the lock directory.                       *)
(*                                                                         *)
(* Every process is cut between its shell commands.  Signals wait until    *)
(* the shell is between two commands.  Processes may die or be killed, and *)
(* the machine may restart, which leaves the files.  Arguments, logs and   *)
(* the status command, which only reads, are left out; pgrep is there.     *)
(***************************************************************************)
EXTENDS Naturals, Sequences, FiniteSets

CONSTANTS
  Operator,      \* terminals at which commands are given
  Command,       \* a subset of {"start","stop","restart","upgrade","foreground"}
  Pid, NoPid,    \* process ids, in the order they are given out
  PidsReturn,    \* whether a restarted machine gives old pids to other programs
  Patient,       \* whether foreground waits for a start just given
  MaxOpen,       \* bound on commands that run at the same time
  MaxCommands, MaxCrashes, MaxKills, MaxReboots

VARIABLES
  what,       \* Pid -> "none", "watchdog", "child" or "other"
  place,      \* Pid -> where a watchdog is in run_watchdog
  mine,       \* Pid -> the child a watchdog waits for
  termed,     \* pids with a TERM not yet handled
  build,      \* Pid -> the build of the binary a child runs
  pidFile, childFile, lock,
  binary,     \* how often the binary was built
  command, step, targets, started,   \* Operator -> the command being run
  after,      \* Operator -> the step after the targets are gone
  refused,    \* Operator -> whether the last start was refused
  upgraded,   \* the build of the last upgrade that finished
  commands, crashes, kills, reboots

files == <<pidFile, childFile, lock>>
shells == <<command, step, targets, started, after, refused, upgraded>>
bounds == <<commands, crashes, kills, reboots>>
vars == <<what, place, mine, termed, build, files, binary, shells, bounds>>

ASSUME WatchdogAssumption ==
  /\ Pid \subseteq Nat \ {0} /\ NoPid \notin Pid
  /\ Command \subseteq {"start", "stop", "restart", "upgrade", "foreground"}
  /\ Patient \in BOOLEAN /\ PidsReturn \in BOOLEAN
  /\ \A n \in {MaxOpen, MaxCommands, MaxCrashes, MaxKills, MaxReboots} : n \in Nat

\* The commands of run_watchdog and of the trap it ends with; "reap2" and
\* so on belong to the EXIT trap, which runs cleanup_watchdog once more.
Place == {"mkdir", "pid", "trap", "spawn", "record", "wait", "forget", "sleep",
          "clean", "reap", "remove", "unlock", "clean2", "reap2", "remove2", "unlock2"}

\* The commands of do_upgrade, do_stop and do_start.
Step == {"idle", "build", "read", "signal", "await", "listWatchdogs", "listChildren",
         "remove", "unlock", "ensure", "checkPid", "checkLock", "free", "spawn",
         "write", "watch"}

TypeOK ==
  /\ what \in [Pid -> {"none", "watchdog", "child", "other"}]
  /\ place \in [Pid -> Place]
  /\ mine \in [Pid -> Pid \cup {NoPid}]
  /\ termed \subseteq {p \in Pid : what[p] \in {"watchdog", "child", "other"}}
  /\ build \in [Pid -> 0..binary]
  /\ pidFile \in Pid \cup {NoPid} /\ childFile \in Pid \cup {NoPid} /\ lock \in BOOLEAN
  /\ binary \in Nat
  /\ command \in [Operator -> Command \cup {"none"}]
  /\ step \in [Operator -> Step]
  /\ targets \in [Operator -> Seq(Pid)]
  /\ started \in [Operator -> Pid \cup {NoPid}]
  /\ after \in [Operator -> {"listWatchdogs", "listChildren", "remove"}]
  /\ refused \in [Operator -> BOOLEAN]
  /\ upgraded \in 0..binary
  /\ commands \in 0..MaxCommands /\ crashes \in 0..MaxCrashes
  /\ kills \in 0..MaxKills /\ reboots \in 0..MaxReboots
  /\ \A o \in Operator : step[o] = "await" => targets[o] # <<>>

Init ==
  /\ what = [p \in Pid |-> "none"]
  /\ place = [p \in Pid |-> "mkdir"]
  /\ mine = [p \in Pid |-> NoPid]
  /\ termed = {}
  /\ build = [p \in Pid |-> 0]
  /\ pidFile = NoPid /\ childFile = NoPid /\ lock = FALSE
  /\ binary = 0
  /\ command = [o \in Operator |-> "none"]
  /\ step = [o \in Operator |-> "idle"]
  /\ targets = [o \in Operator |-> <<>>]
  /\ started = [o \in Operator |-> NoPid]
  /\ after = [o \in Operator |-> "remove"]
  /\ refused = [o \in Operator |-> FALSE]
  /\ upgraded = 0
  /\ commands = 0 /\ crashes = 0 /\ kills = 0 /\ reboots = 0

-----------------------------------------------------------------------------
(* Processes. *)

\* is_running: kill -0.
Alive(p) == p # NoPid /\ what[p] \in {"watchdog", "child", "other"}

Watchdogs == {p \in Pid : what[p] = "watchdog"}
Children == {p \in Pid : what[p] = "child"}

\* A pid comes back only when nothing mentions it any more (but for
\* PidsReturn, below).
Mentioned == {pidFile, childFile} \cup {mine[w] : w \in Watchdogs}
  \cup UNION {{started[o]} \cup {targets[o][i] : i \in DOMAIN targets[o]} : o \in Operator}
Unused == {p \in Pid : what[p] = "none" /\ p \notin Mentioned}
NextPid == CHOOSE p \in Unused : \A q \in Unused : p <= q

InOrder(S) == CHOOSE s \in [1..Cardinality(S) -> S] :
                \A i, j \in DOMAIN s : i < j => s[i] < s[j]

Die(p) ==
  /\ what' = [what EXCEPT ![p] = "none"]
  /\ place' = [place EXCEPT ![p] = "mkdir"]
  /\ mine' = [mine EXCEPT ![p] = NoPid]
  /\ build' = [build EXCEPT ![p] = 0]
  /\ termed' = termed \ {p}

-----------------------------------------------------------------------------
(* run_watchdog, in the process w. *)

At(w, pl) == what[w] = "watchdog" /\ place[w] = pl
Move(w, pl) == place' = [place EXCEPT ![w] = pl]

\* Mutant: a lock that is there already is taken over.
MakeAnyLock(w) ==
  /\ At(w, "mkdir") /\ w \notin termed
  /\ lock' = TRUE
  /\ Move(w, "pid")
  /\ UNCHANGED <<what, termed, mine, build, pidFile, childFile, binary, shells, bounds>>

MakeLock(w) ==
  /\ At(w, "mkdir") /\ w \notin termed
  /\ IF lock THEN Die(w) /\ UNCHANGED lock
             ELSE lock' = TRUE /\ Move(w, "pid") /\ UNCHANGED <<what, mine, build, termed>>
  /\ UNCHANGED <<pidFile, childFile, binary, shells, bounds>>

\* Mutant: only the start writes the pid file.
WriteNothing(w) ==
  /\ At(w, "pid") /\ w \notin termed
  /\ Move(w, "trap")
  /\ UNCHANGED <<what, mine, termed, build, files, binary, shells, bounds>>

WritePid(w) ==
  /\ At(w, "pid") /\ w \notin termed
  /\ pidFile' = w
  /\ Move(w, "trap")
  /\ UNCHANGED <<what, mine, termed, build, childFile, lock, binary, shells, bounds>>

SetTraps(w) ==
  /\ At(w, "trap") /\ w \notin termed
  /\ Move(w, "spawn")
  /\ UNCHANGED <<what, mine, termed, build, files, binary, shells, bounds>>

\* Until the traps are set, TERM simply ends the shell.
DieUntrapped(w) ==
  /\ w \in termed /\ what[w] = "watchdog" /\ place[w] \in {"mkdir", "pid", "trap"}
  /\ Die(w)
  /\ UNCHANGED <<files, binary, shells, bounds>>

Spawn(w) ==
  /\ At(w, "spawn") /\ w \notin termed
  /\ Unused # {}
  /\ what' = [what EXCEPT ![NextPid] = "child"]
  /\ build' = [build EXCEPT ![NextPid] = binary]
  /\ mine' = [mine EXCEPT ![w] = NextPid]
  /\ Move(w, "record")
  /\ UNCHANGED <<termed, files, binary, shells, bounds>>

RecordChild(w) ==
  /\ At(w, "record") /\ w \notin termed
  /\ childFile' = mine[w]
  /\ Move(w, "wait")
  /\ UNCHANGED <<what, mine, termed, build, pidFile, lock, binary, shells, bounds>>

Wait(w) ==
  /\ At(w, "wait") /\ w \notin termed
  /\ ~Alive(mine[w])
  /\ Move(w, "forget")
  /\ UNCHANGED <<what, mine, termed, build, files, binary, shells, bounds>>

ForgetChild(w) ==
  /\ At(w, "forget") /\ w \notin termed
  /\ childFile' = NoPid
  /\ Move(w, "sleep")
  /\ UNCHANGED <<what, mine, termed, build, pidFile, lock, binary, shells, bounds>>

\* Mutant: the loop is left when the child ends.
SleepForever(w) ==
  /\ At(w, "sleep") /\ w \notin termed
  /\ Die(w)
  /\ UNCHANGED <<files, binary, shells, bounds>>

Sleep(w) ==
  /\ At(w, "sleep") /\ w \notin termed
  /\ Move(w, "spawn")
  /\ UNCHANGED <<what, mine, termed, build, files, binary, shells, bounds>>

\* The TERM trap: cleanup_watchdog and exit.
HandleTerm(w) ==
  /\ what[w] = "watchdog" /\ place[w] \in {"spawn", "record", "wait", "forget", "sleep"}
  /\ w \in termed
  /\ termed' = termed \ {w}
  /\ Move(w, "clean")
  /\ UNCHANGED <<what, mine, build, files, binary, shells, bounds>>

\* Mutant: the child is not looked at before it is killed.
CleanBlindly(w, pl, next) ==
  /\ At(w, pl)
  /\ termed' = termed \cup ({childFile} \ {NoPid})
  /\ Move(w, next)
  /\ UNCHANGED <<what, mine, build, files, binary, shells, bounds>>

\* cleanup_watchdog kills the child the file names, and waits for it if it
\* is its own.
Clean(w, pl, next) ==
  /\ At(w, pl)
  /\ termed' = IF Alive(childFile) THEN termed \cup {childFile} ELSE termed
  /\ mine' = [mine EXCEPT ![w] = IF childFile = @ THEN @ ELSE NoPid]
  /\ Move(w, next)
  /\ UNCHANGED <<what, build, files, binary, shells, bounds>>

Reap(w, pl, next) ==
  /\ At(w, pl)
  /\ ~Alive(mine[w])
  /\ Move(w, next)
  /\ UNCHANGED <<what, mine, termed, build, files, binary, shells, bounds>>

RemoveFiles(w, pl, next) ==
  /\ At(w, pl)
  /\ pidFile' = NoPid /\ childFile' = NoPid
  /\ Move(w, next)
  /\ UNCHANGED <<what, mine, termed, build, lock, binary, shells, bounds>>

Unlock(w) ==
  /\ At(w, "unlock")
  /\ lock' = FALSE
  /\ Move(w, "clean2")
  /\ UNCHANGED <<what, mine, termed, build, pidFile, childFile, binary, shells, bounds>>

UnlockAndExit(w) ==
  /\ At(w, "unlock2")
  /\ lock' = FALSE
  /\ Die(w)
  /\ UNCHANGED <<pidFile, childFile, binary, shells, bounds>>

RunWatchdog(w) ==
  \/ MakeLock(w) \/ WritePid(w) \/ SetTraps(w) \/ DieUntrapped(w)
  \/ Spawn(w) \/ RecordChild(w) \/ Wait(w) \/ ForgetChild(w) \/ Sleep(w)
  \/ HandleTerm(w)
  \/ Clean(w, "clean", "reap") \/ Reap(w, "reap", "remove")
  \/ RemoveFiles(w, "remove", "unlock") \/ Unlock(w)
  \/ Clean(w, "clean2", "reap2") \/ Reap(w, "reap2", "remove2")
  \/ RemoveFiles(w, "remove2", "unlock2") \/ UnlockAndExit(w)

\* The child, or whoever has its pid, ends on TERM, in its own time.
ChildEnds(c) ==
  /\ what[c] \in {"child", "other"} /\ c \in termed
  /\ Die(c)
  /\ UNCHANGED <<files, binary, shells, bounds>>
-----------------------------------------------------------------------------
(* The commands, at the terminal o. *)

Busy == {o \in Operator : step[o] # "idle"}

Goto(o, st) == step' = [step EXCEPT ![o] = st]
Doing(o, st, next) == step[o] = st /\ Goto(o, next)

Give(o, cmd) ==
  /\ step[o] = "idle"
  /\ cmd \in Command
  /\ Patient /\ cmd = "foreground" => \A w \in Watchdogs : place[w] # "mkdir"
  /\ commands < MaxCommands /\ Cardinality(Busy) < MaxOpen
  /\ commands' = commands + 1
  /\ command' = [command EXCEPT ![o] = cmd]
  /\ refused' = [refused EXCEPT ![o] = FALSE]
  /\ Goto(o, CASE cmd = "upgrade" -> "build"
               [] cmd \in {"stop", "restart"} -> "read"
               [] cmd \in {"start", "foreground"} -> "ensure")
  /\ UNCHANGED <<what, place, mine, termed, build, files, binary,
                 targets, started, after, upgraded, crashes, kills, reboots>>

\* build_binary replaces the binary by a rename.
Build(o) ==
  /\ Doing(o, "build", "read")
  /\ binary' = binary + 1
  /\ UNCHANGED <<what, place, mine, termed, build, files, command, targets, started, after, refused, upgraded, bounds>>

\* read_pid: nothing if there is no file.
ReadPid(file) == IF file = NoPid THEN <<>> ELSE <<file>>

\* do_stop: first whom the files name,
ReadPids(o) ==
  /\ Doing(o, "read", "signal")
  /\ targets' = [targets EXCEPT ![o] = ReadPid(pidFile) \o ReadPid(childFile)]
  /\ after' = [after EXCEPT ![o] = "listWatchdogs"]
  /\ UNCHANGED <<what, place, mine, termed, build, files, binary, command, started, refused, upgraded, bounds>>

\* then whom pgrep finds.
ListWatchdogs(o) ==
  /\ Doing(o, "listWatchdogs", "signal")
  /\ targets' = [targets EXCEPT ![o] = InOrder(Watchdogs)]
  /\ after' = [after EXCEPT ![o] = "listChildren"]
  /\ UNCHANGED <<what, place, mine, termed, build, files, binary, command, started, refused, upgraded, bounds>>

\* Mutant: only the pid files are looked at.
ListNoChildren(o) ==
  /\ Doing(o, "listChildren", "signal")
  /\ after' = [after EXCEPT ![o] = "remove"]
  /\ UNCHANGED <<what, place, mine, termed, build, files, binary, command, targets, started, refused, upgraded, bounds>>

ListChildren(o) ==
  /\ Doing(o, "listChildren", "signal")
  /\ targets' = [targets EXCEPT ![o] = InOrder(Children)]
  /\ after' = [after EXCEPT ![o] = "remove"]
  /\ UNCHANGED <<what, place, mine, termed, build, files, binary, command, started, refused, upgraded, bounds>>

Target(o) == Head(targets[o])
DropTarget(o) == targets' = [targets EXCEPT ![o] = Tail(@)]

\* stop_pid.
Signal(o) ==
  /\ step[o] = "signal"
  /\ IF targets[o] = <<>>
       THEN Goto(o, after[o]) /\ UNCHANGED <<termed, targets>>
     ELSE IF Alive(Target(o))
       THEN termed' = termed \cup {Target(o)} /\ Goto(o, "await") /\ UNCHANGED targets
     ELSE DropTarget(o) /\ UNCHANGED <<termed, step>>
  /\ UNCHANGED <<what, place, mine, build, files, binary, command, started, after, refused, upgraded, bounds>>

\* Mutant: nobody waits for the process to end.
AwaitNothing(o) ==
  /\ Doing(o, "await", "signal")
  /\ DropTarget(o)
  /\ UNCHANGED <<what, place, mine, termed, build, files, binary, command, started, after, refused, upgraded, bounds>>

Await(o) ==
  /\ Doing(o, "await", "signal")
  /\ ~Alive(Target(o))
  /\ DropTarget(o)
  /\ UNCHANGED <<what, place, mine, termed, build, files, binary, command, started, after, refused, upgraded, bounds>>

\* Fifteen seconds are over.
ForceStop(o) ==
  /\ Doing(o, "await", "signal")
  /\ Alive(Target(o))
  /\ Die(Target(o))
  /\ DropTarget(o)
  /\ UNCHANGED <<files, binary, command, started, after, refused, upgraded, bounds>>

RemovePidFiles(o) ==
  /\ Doing(o, "remove", "unlock")
  /\ pidFile' = NoPid /\ childFile' = NoPid
  /\ UNCHANGED <<what, place, mine, termed, build, lock, binary, command, targets, started, after, refused, upgraded, bounds>>

RemoveLock(o) ==
  /\ Doing(o, "unlock", IF command[o] = "stop" THEN "idle" ELSE "ensure")
  /\ lock' = FALSE
  /\ UNCHANGED <<what, place, mine, termed, build, pidFile, childFile, binary, command, targets, started, after, refused, upgraded, bounds>>

\* do_start.
EnsureBinary(o) ==
  /\ Doing(o, "ensure", IF command[o] = "foreground" THEN "spawn" ELSE "checkPid")
  /\ binary' = IF binary = 0 THEN 1 ELSE binary
  /\ UNCHANGED <<what, place, mine, termed, build, files, command, targets, started, after, refused, upgraded, bounds>>

\* go build fails: set -e ends the command where it is, a restart after it
\* has stopped what ran.  The binary is what it was.
FailBuild(o) ==
  /\ step[o] = "build" \/ (step[o] = "ensure" /\ binary = 0)
  /\ Goto(o, "idle")
  /\ command' = [command EXCEPT ![o] = "none"]
  /\ UNCHANGED <<what, place, mine, termed, build, files, binary, targets, started, after, refused, upgraded, bounds>>

Checked(o, st, bad, next) ==
  /\ Doing(o, st, IF bad THEN "idle" ELSE next)
  /\ refused' = [refused EXCEPT ![o] = bad]
  /\ UNCHANGED <<what, place, mine, termed, build, files, binary, command, targets, started, after, upgraded, bounds>>

CheckPid(o) == Checked(o, "checkPid", Alive(pidFile), "checkLock")

CheckLock(o) ==
  Checked(o, "checkLock", lock /\ Watchdogs \cup Children # {}, "free")

FreeLock(o) ==
  /\ Doing(o, "free", "spawn")
  /\ lock' = FALSE
  /\ UNCHANGED <<what, place, mine, termed, build, pidFile, childFile, binary, command, targets, started, after, refused, upgraded, bounds>>

\* A start runs the watchdog in the background, foreground becomes one.
SpawnWatchdog(o) ==
  /\ Doing(o, "spawn", IF command[o] = "foreground" THEN "watch" ELSE "write")
  /\ Unused # {}
  /\ what' = [what EXCEPT ![NextPid] = "watchdog"]
  /\ started' = [started EXCEPT ![o] = NextPid]
  /\ UNCHANGED <<place, mine, termed, build, files, binary, command, targets, after, refused, upgraded, bounds>>

WritePidFile(o) ==
  /\ Doing(o, "write", "idle")
  /\ pidFile' = started[o]
  /\ started' = [started EXCEPT ![o] = NoPid]
  /\ upgraded' = IF command[o] = "upgrade" THEN binary ELSE upgraded
  /\ UNCHANGED <<what, place, mine, termed, build, childFile, lock, binary, command, targets, after, refused, bounds>>

\* Whoever runs foreground sees it start or be refused.
WatchStart(o) ==
  /\ Doing(o, "watch", "idle")
  /\ Alive(started[o]) => place[started[o]] \notin {"mkdir", "pid", "trap"}
  /\ refused' = [refused EXCEPT ![o] = ~Alive(started[o])]
  /\ started' = [started EXCEPT ![o] = NoPid]
  /\ UNCHANGED <<what, place, mine, termed, build, files, binary, command, targets, after, upgraded, bounds>>

RunCommand(o) ==
  \/ Build(o) \/ ReadPids(o) \/ ListWatchdogs(o) \/ ListChildren(o)
  \/ Signal(o) \/ Await(o) \/ RemovePidFiles(o) \/ RemoveLock(o)
  \/ EnsureBinary(o) \/ CheckPid(o) \/ CheckLock(o) \/ FreeLock(o)
  \/ SpawnWatchdog(o) \/ WritePidFile(o) \/ WatchStart(o)

-----------------------------------------------------------------------------
(* What happens to the machine. *)

ChildCrashes(c) ==
  /\ crashes < MaxCrashes
  /\ what[c] = "child"
  /\ Die(c)
  /\ crashes' = crashes + 1
  /\ UNCHANGED <<files, binary, shells, commands, kills, reboots>>

\* SIGKILL, or the memory runs out.
WatchdogKilled(w) ==
  /\ kills < MaxKills
  /\ what[w] = "watchdog"
  /\ Die(w)
  /\ kills' = kills + 1
  /\ UNCHANGED <<files, binary, shells, commands, crashes, reboots>>

\* All processes are gone, the files are there; other programs may get the
\* pids that stand in them.
Reboot ==
  /\ reboots < MaxReboots
  /\ \E reused \in IF PidsReturn THEN SUBSET ({pidFile, childFile} \ {NoPid}) ELSE {{}} :
       what' = [p \in Pid |-> IF p \in reused THEN "other" ELSE "none"]
  /\ place' = [p \in Pid |-> "mkdir"]
  /\ mine' = [p \in Pid |-> NoPid]
  /\ build' = [p \in Pid |-> 0]
  /\ termed' = {}
  /\ step' = [o \in Operator |-> "idle"]
  /\ command' = [o \in Operator |-> "none"]
  /\ targets' = [o \in Operator |-> <<>>]
  /\ started' = [o \in Operator |-> NoPid]
  /\ after' = [o \in Operator |-> "remove"]
  /\ refused' = [o \in Operator |-> FALSE]
  /\ reboots' = reboots + 1
  /\ UNCHANGED <<files, binary, upgraded, commands, crashes, kills>>

Next ==
  \/ \E o \in Operator : \/ RunCommand(o) \/ ForceStop(o) \/ FailBuild(o)
                         \/ \E cmd \in Command : Give(o, cmd)
  \/ \E p \in Pid : RunWatchdog(p) \/ ChildEnds(p) \/ ChildCrashes(p) \/ WatchdogKilled(p)
  \/ Reboot

Spec == Init /\ [][Next]_vars

\* Processes run; a child that was told to end does so.
FairSpec ==
  /\ Spec
  /\ \A o \in Operator : WF_vars(RunCommand(o))
  /\ \A p \in Pid : WF_vars(RunWatchdog(p)) /\ WF_vars(ChildEnds(p))

-----------------------------------------------------------------------------
(* Properties. *)

\* At most one watchdog got the lock, and at most one child runs, through
\* kills, restarts of the machine and leftovers of both.
OneOfEach ==
  /\ Cardinality({w \in Watchdogs : place[w] # "mkdir"}) <= 1
  /\ Cardinality(Children) <= 1

\* A stop that returns leaves no watchdog, no child and no file, also when
\* a child was started whose pid was not yet recorded.
StopLeavesNothing ==
  [][\A o \in Operator : step[o] = "unlock" /\ step'[o] # "unlock" /\ reboots' = reboots
       => /\ Watchdogs = {} /\ Children = {}
          /\ pidFile' = NoPid /\ childFile' = NoPid /\ ~lock']_vars

\* When no command runs, the files name a watchdog that is at work, and its
\* child while it waits for it: the next command finds them without pgrep.
FilesNameThem ==
  Busy = {} =>
    \A w \in Watchdogs :
      place[w] \in {"spawn", "record", "wait", "forget", "sleep"} =>
        /\ pidFile = w /\ lock
        /\ place[w] = "wait" => childFile = mine[w]

\* After an upgrade no child runs an older binary
\* (docs/中文详细文档.md: the old watchdog and child are stopped first).
UpgradeReplaces == \A c \in Children : Busy = {} => build[c] >= upgraded

\* Once a start was accepted, a child runs again and again, however often
\* it dies (docs/中文详细文档.md:379), unless the watchdog is killed, the
\* machine restarts or another command comes.
Accepted(o) ==
  /\ Busy = {} /\ command[o] \in {"start", "restart", "upgrade", "foreground"}
  /\ ~refused[o] /\ kills = 0 /\ reboots = 0
ChildIsKept ==
  \A o \in Operator : Accepted(o) ~> (~Accepted(o) \/ Children # {})

\* No command signals a program that has nothing to do with the script.
StrangersAreLeft == \A p \in termed : what[p] # "other"

\* foreground is refused only when something runs.
ForegroundStarts ==
  \A o \in Operator : command[o] = "foreground" /\ refused[o] /\ step[o] = "idle"
    => Watchdogs \cup Children # {}
=============================================================================
