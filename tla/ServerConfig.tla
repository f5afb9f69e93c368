---------------------------- MODULE ServerConfig ----------------------------
(***************************************************************************)
(* The server's own configuration: the file (internal/server/config.go),   *)
(* the row server_config in the database of each data directory            *)
(* (internal/server/sqlite_store.go), the copy the running server keeps,   *)
(* the start that reconciles them with the command line (runServer in      *)
(* cmd/xcloud/main.go) and the page that changes them.                     *)
(*                                                                         *)
(* A port stands for listen host and port, the domain is left out but for  *)
(* the port it may carry.  Updates run concurrently and without a lock,    *)
(* cut at each write; a file is truncated and then written.  Any write may *)
(* fail, the server may crash anywhere, and is started again with the same *)
(* arguments.                                                              *)
(***************************************************************************)
EXTENDS Naturals, FiniteSets

CONSTANTS
  Port, DefaultPort,
  Dir, DefaultDir,
  None,           \* a field or a flag left empty, a row that is not there
  Wrong,          \* a number that is no port
  Absent, Empty,  \* the file: not there, truncated,
  Cut,            \* or not JSON
  Length,         \* of a port or a directory in the file
  Update,         \* requests under way at the same time
  Forms, FlagSets,
  MaxUpdates, MaxFailures, MaxCrashes

Config == [port : Port, dir : Dir]
Default == [port |-> DefaultPort, dir |-> DefaultDir]

ASSUME ServerConfigAssumption ==
  /\ DefaultPort \in Port /\ DefaultDir \in Dir
  /\ None \notin Port \cup Dir \cup Config /\ Wrong \notin Port \cup {None}
  /\ {Absent, Empty, Cut} \cap Config = {} /\ Cut \notin {Absent, Empty} /\ Absent # Empty
  /\ Length \in [Port \cup Dir -> Nat]
  /\ Forms \subseteq [domainPort : Port \cup {None, Wrong}, port : Port \cup {None, Wrong},
                      dir : Dir \cup {None}]
  /\ FlagSets \subseteq [port : Port \cup {None}, dir : Dir \cup {None}]
  /\ MaxUpdates \in Nat /\ MaxFailures \in Nat /\ MaxCrashes \in Nat

VARIABLES
  file,      \* a Config, Absent, Empty or Cut
  row,       \* data directory -> Config or None
  flags,     \* the command line: -addr and -data
  phase,     \* of the start: the next step, or "up"
  memory,    \* the running server's configuration
  served,    \* what it listens on and the directory it opened
  pc, new,   \* Update -> the next step, and what is being written
  expect,    \* history: what the last acknowledged update asked for
  left,      \* history: directories served earlier, not updated since
  doubts,    \* history: what happened since the last clean update
  updates, failures, crashes

vars == <<file, row, flags, phase, memory, served, pc, new, expect, left, doubts,
          updates, failures, crashes>>

TypeOK ==
  /\ file \in Config \cup {Absent, Empty, Cut}
  /\ row \in [Dir -> Config \cup {None}]
  /\ flags \in FlagSets
  /\ phase \in {"load", "truncate", "write", "open", "save", "up"}
  /\ memory \in Config /\ served \in Config
  /\ pc \in [Update -> {"idle", "truncate", "write", "row", "memory"}]
  /\ new \in [Update -> Config]
  /\ expect \in Config
  /\ left \subseteq Dir
  /\ doubts \subseteq {"overlap", "file", "row"}
  /\ updates \in 0..MaxUpdates /\ failures \in 0..MaxFailures /\ crashes \in 0..MaxCrashes

Init ==
  /\ file = Absent
  /\ row = [d \in Dir |-> None]
  /\ flags \in FlagSets
  /\ phase = "load"
  /\ memory = Default /\ served = Default
  /\ pc = [u \in Update |-> "idle"]
  /\ new = [u \in Update |-> Default]
  /\ expect = Default
  /\ left = {} /\ doubts = {}
  /\ updates = 0 /\ failures = 0 /\ crashes = 0

history == <<expect, left, doubts>>
bounds == <<updates, failures, crashes>>

-----------------------------------------------------------------------------
(* RuntimeConfig. *)

\* Mutant: the port is taken as it comes.
NormalizeUnchecked(f) ==
  [port |-> IF f.domainPort = None THEN f.port ELSE f.domainPort,
   dir |-> IF f.dir = None THEN DefaultDir ELSE f.dir]

\* A port in the domain wins over the field; what is no port is replaced.
Normalize(f) ==
  LET port == IF f.domainPort = None THEN f.port ELSE f.domainPort
  IN [port |-> IF port \in Port THEN port ELSE DefaultPort,
      dir |-> IF f.dir = None THEN DefaultDir ELSE f.dir]

\* LoadRuntimeConfig of a file that can be read.
Loaded == IF file \in {Absent, Empty} THEN Default ELSE file

\* ApplyListenAddr and -data.
Flagged(c) == [port |-> IF flags.port = None THEN c.port ELSE flags.port,
               dir |-> IF flags.dir = None THEN c.dir ELSE flags.dir]

Size(c) == Length[c.port] + Length[c.dir]

\* What a write from the start of the file leaves when someone else wrote
\* after it was truncated: the end of a longer text stays.
Over(c) == IF file \in Config /\ Size(file) > Size(c) THEN Cut ELSE c

-----------------------------------------------------------------------------
(* runServer. *)

\* Mutant: an empty file is an error like any other.
LoadStrict ==
  /\ phase = "load" /\ file \notin {Cut, Empty}
  /\ memory' = Flagged(Loaded)
  /\ phase' = "truncate"
  /\ UNCHANGED <<file, row, flags, served, pc, new, history, bounds>>

\* A file that is not JSON ends the start; the watchdog tries again.
Load ==
  /\ phase = "load" /\ file # Cut
  /\ memory' = Flagged(Loaded)
  /\ phase' = "truncate"
  /\ UNCHANGED <<file, row, flags, served, pc, new, history, bounds>>

Truncate ==
  /\ phase = "truncate"
  /\ file' = Empty
  /\ phase' = "write"
  /\ UNCHANGED <<row, flags, memory, served, pc, new, history, bounds>>

WriteBack ==
  /\ phase = "write"
  /\ file' = memory
  /\ phase' = "open"
  /\ UNCHANGED <<row, flags, memory, served, pc, new, history, bounds>>

\* Mutant: the file is all there is.
OpenWithoutRow ==
  /\ phase = "open"
  /\ phase' = "save"
  /\ UNCHANGED <<file, row, flags, memory, served, pc, new, history, bounds>>

\* NewStore opens the directory; the row found there goes before the file,
\* but for the directory itself.
Open ==
  /\ phase = "open"
  /\ LET stored == IF row[memory.dir] = None THEN memory ELSE row[memory.dir]
     IN memory' = Flagged([stored EXCEPT !.dir = memory.dir])
  /\ phase' = "save"
  /\ UNCHANGED <<file, row, flags, served, pc, new, history, bounds>>

SaveAndListen ==
  /\ phase = "save"
  /\ row' = [row EXCEPT ![memory.dir] = memory]
  /\ served' = memory
  /\ left' = IF memory.dir = served.dir THEN left ELSE left \cup {served.dir}
  /\ phase' = "up"
  /\ UNCHANGED <<file, flags, memory, pc, new, expect, doubts, bounds>>

-----------------------------------------------------------------------------
(* adminUpdateServerConfig. *)

UnderWay == {u \in Update : pc[u] # "idle"}

Submit(u, f) ==
  /\ phase = "up" /\ pc[u] = "idle"
  /\ updates < MaxUpdates
  /\ updates' = updates + 1
  /\ new' = [new EXCEPT ![u] = Normalize(f)]
  /\ pc' = [pc EXCEPT ![u] = "truncate"]
  /\ doubts' = IF UnderWay # {} THEN doubts \cup {"overlap"}
               ELSE IF "overlap" \in doubts THEN {"file", "row"} ELSE doubts
  /\ UNCHANGED <<file, row, flags, phase, memory, served, expect, left, failures, crashes>>

TruncateFile(u) ==
  /\ pc[u] = "truncate"
  /\ file' = Empty
  /\ pc' = [pc EXCEPT ![u] = "write"]
  /\ UNCHANGED <<row, flags, phase, memory, served, new, history, bounds>>

\* Mutant: the file names the directory being served.
WriteServed(u) ==
  /\ pc[u] = "write"
  /\ file' = Over([new[u] EXCEPT !.dir = served.dir])
  /\ pc' = [pc EXCEPT ![u] = "row"]
  /\ UNCHANGED <<row, flags, phase, memory, served, new, history, bounds>>

WriteFile(u) ==
  /\ pc[u] = "write"
  /\ file' = Over(new[u])
  /\ pc' = [pc EXCEPT ![u] = "row"]
  /\ UNCHANGED <<row, flags, phase, memory, served, new, history, bounds>>

\* The row goes to the directory being served.
SaveRow(u) ==
  /\ pc[u] = "row"
  /\ row' = [row EXCEPT ![served.dir] = new[u]]
  /\ pc' = [pc EXCEPT ![u] = "memory"]
  /\ UNCHANGED <<file, flags, phase, memory, served, new, history, bounds>>

Acknowledge(u) ==
  /\ pc[u] = "memory"
  /\ memory' = new[u]
  /\ expect' = new[u]
  /\ IF UnderWay = {u} /\ "overlap" \notin doubts
       THEN doubts' = {} /\ left' = left \ {served.dir}
       ELSE UNCHANGED <<doubts, left>>
  /\ pc' = [pc EXCEPT ![u] = "idle"]
  /\ UNCHANGED <<file, row, flags, phase, served, new, bounds>>

\* The disk is full, the database busy: the page shows the error.
Fail(u) ==
  /\ failures < MaxFailures
  /\ \/ pc[u] = "truncate" /\ UNCHANGED <<file, doubts>>
     \/ pc[u] = "write" /\ file' \in {Empty, Cut} /\ doubts' = doubts \cup {"file"}
     \/ pc[u] = "row" /\ doubts' = doubts \cup {"file"} /\ UNCHANGED file
  /\ pc' = [pc EXCEPT ![u] = "idle"]
  /\ failures' = failures + 1
  /\ UNCHANGED <<row, flags, phase, memory, served, new, expect, left, updates, crashes>>

\* The same of a start: it ends with the error, and the watchdog begins
\* another one.
FailStart ==
  /\ failures < MaxFailures
  /\ \/ phase \in {"truncate", "open", "save"} /\ UNCHANGED <<file, doubts>>
     \/ phase = "write" /\ file' \in {Empty, Cut} /\ doubts' = doubts \cup {"file"}
  /\ phase' = "load"
  /\ failures' = failures + 1
  /\ UNCHANGED <<row, flags, memory, served, pc, new, expect, left, updates, crashes>>

\* Also of a server that cannot listen: that is one that ends at once.
Crash ==
  /\ crashes < MaxCrashes
  /\ crashes' = crashes + 1
  /\ phase' = "load"
  /\ pc' = [u \in Update |-> "idle"]
  /\ doubts' = doubts
       \cup (IF phase = "write" \/ \E u \in Update : pc[u] \in {"write", "row", "memory"}
               THEN {"file"} ELSE {})
       \cup (IF \E u \in Update : pc[u] = "memory" THEN {"row"} ELSE {})
  /\ UNCHANGED <<file, row, flags, memory, served, new, expect, left, updates, failures>>

Start == Load \/ Truncate \/ WriteBack \/ Open \/ SaveAndListen
Serve(u) == TruncateFile(u) \/ WriteFile(u) \/ SaveRow(u) \/ Acknowledge(u)

Next ==
  \/ Start
  \/ \E u \in Update : Serve(u) \/ Fail(u) \/ \E f \in Forms : Submit(u, f)
  \/ FailStart \/ Crash

Spec == Init /\ [][Next]_vars

\* A server that is started runs on, and so does a request.
FairSpec == Spec /\ WF_vars(Start) /\ \A u \in Update : WF_vars(Serve(u))

-----------------------------------------------------------------------------
(* Properties. *)

\* The command line goes before the file and the row
\* (docs/中文详细文档.md: -addr and -data override the configuration).
FlagsWin == phase = "up" => served = Flagged(served)

\* What an update asked for lives on.  The file keeps the directory, unless
\* an update or a start was cut short after it had touched the file.  The
\* row keeps the port, also when the file is empty or holds an update that
\* failed, unless the server comes back to a directory it had left.
UpdateKept ==
  LET sure == doubts = {} \/ (doubts = {"file"} /\ left = {})
  IN  /\ phase = "load" /\ doubts = {} /\ flags.dir = None
           => file # Cut /\ Loaded.dir = expect.dir
      /\ phase = "up" /\ memory = served /\ sure /\ flags.port = None /\ served.dir \notin left
           => served.port = expect.port

\* A server that went down comes up again, unless its file is not JSON.
StartsAgain == phase = "load" ~> (phase = "up" \/ file = Cut)

\* What the page promises (README.md:72-74): after a restart the server
\* listens on the port, and serves the directory, of the last update.
UpdateTakesEffect ==
  phase = "up" /\ memory = served /\ doubts = {} => served = Flagged(expect)

\* The file can always be read.
FileIsReadable == file # Cut
=============================================================================
