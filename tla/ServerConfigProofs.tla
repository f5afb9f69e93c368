-------------------------- MODULE ServerConfigProofs --------------------------
(***************************************************************************)
(* Theorems about ServerConfig: its type invariant, that the command line  *)
(* always wins, and that what an update asked for lives on, for any ports, *)
(* directories, numbers of requests, failures and crashes.                 *)
(***************************************************************************)
EXTENDS ServerConfig, TLAPS

-----------------------------------------------------------------------------
(* Configurations. *)

\* What a form is normalised to has a port and a directory.
LEMMA NormalizeType ==
  ASSUME NEW f \in Forms
  PROVE  Normalize(f) \in Config
  BY ServerConfigAssumption DEF Normalize, Config

\* The command line replaces a field by one of its kind; doing so twice is
\* doing so once.
LEMMA FlaggedType ==
  ASSUME flags \in FlagSets, NEW c \in Config
  PROVE  /\ Flagged(c) \in Config
         /\ Flagged(Flagged(c)) = Flagged(c)
         /\ flags.port = None => Flagged(c).port = c.port
         /\ flags.dir = None => Flagged(c).dir = c.dir
         /\ Flagged(c).dir = IF flags.dir = None THEN c.dir ELSE flags.dir
  BY ServerConfigAssumption DEF Flagged, Config

\* A file that can be read gives a configuration.
LEMMA LoadedType ==
  ASSUME TypeOK, file # Cut
  PROVE  Loaded \in Config
  BY ServerConfigAssumption DEF TypeOK, Loaded, Default, Config

-----------------------------------------------------------------------------
(* Types. *)

LEMMA TypeInit == Init => TypeOK
  BY ServerConfigAssumption DEF Init, TypeOK, Default, Config

LEMMA TypeStep == TypeOK /\ [Next]_vars => TypeOK'
  <1> SUFFICES ASSUME TypeOK, [Next]_vars PROVE TypeOK'
    OBVIOUS
  <1> USE ServerConfigAssumption DEF TypeOK, bounds, history
  <1>1. CASE Load
    BY <1>1, LoadedType, FlaggedType DEF Load
  <1>2. CASE Truncate
    BY <1>2 DEF Truncate
  <1>3. CASE WriteBack
    BY <1>3 DEF WriteBack
  <1>4. CASE Open
    <2> DEFINE stored == IF row[memory.dir] = None THEN memory ELSE row[memory.dir]
    <2>1. stored \in Config /\ [stored EXCEPT !.dir = memory.dir] \in Config
      BY DEF Config
    <2>2. memory' = Flagged([stored EXCEPT !.dir = memory.dir])
      BY <1>4 DEF Open
    <2> QED
      BY <1>4, <2>1, <2>2, FlaggedType DEF Open
  <1>5. CASE SaveAndListen
    <2>1. memory.dir \in Dir /\ served.dir \in Dir
      BY DEF Config
    <2> QED
      BY <1>5, <2>1 DEF SaveAndListen
  <1>6. ASSUME NEW u \in Update, TruncateFile(u) PROVE TypeOK'
    BY <1>6 DEF TruncateFile
  <1>7. ASSUME NEW u \in Update, WriteFile(u) PROVE TypeOK'
    BY <1>7 DEF WriteFile, Over
  <1>8. ASSUME NEW u \in Update, SaveRow(u) PROVE TypeOK'
    BY <1>8 DEF SaveRow
  <1>9. ASSUME NEW u \in Update, Acknowledge(u) PROVE TypeOK'
    BY <1>9 DEF Acknowledge
  <1>10. ASSUME NEW u \in Update, Fail(u) PROVE TypeOK'
    <2>1. file' \in Config \cup {Absent, Empty, Cut} /\ doubts' \subseteq {"overlap", "file", "row"}
      BY <1>10 DEF Fail
    <2>2. failures' \in 0..MaxFailures
      BY <1>10 DEF Fail
    <2> QED
      BY <1>10, <2>1, <2>2 DEF Fail
  <1>11. ASSUME NEW u \in Update, NEW f \in Forms, Submit(u, f) PROVE TypeOK'
    BY <1>11, NormalizeType DEF Submit
  <1>12. CASE Crash
    BY <1>12 DEF Crash
  <1>13. CASE FailStart
    <2>1. file' \in Config \cup {Absent, Empty, Cut} /\ doubts' \subseteq {"overlap", "file", "row"}
      BY <1>13 DEF FailStart
    <2>2. failures' \in 0..MaxFailures
      BY <1>13 DEF FailStart
    <2> QED
      BY <1>13, <2>1, <2>2 DEF FailStart
  <1>14. CASE UNCHANGED vars
    BY <1>14 DEF vars
  <1> QED
    BY <1>1, <1>2, <1>3, <1>4, <1>5, <1>6, <1>7, <1>8, <1>9, <1>10, <1>11, <1>12, <1>13, <1>14
       DEF Next, Start, Serve

\* The configuration file, every row and both copies the server keeps hold
\* ports and directories, whatever was sent (a port in the domain, a number
\* that is no port), however starts and updates were cut short.
THEOREM TypeCorrect == Spec => []TypeOK
  BY TypeInit, TypeStep, PTL DEF Spec

-----------------------------------------------------------------------------
(* What an update asked for lives on. *)

\* What happened leaves no doubt about the port, if dirs are the directories
\* the server has left.
Sure(dirs) == doubts = {} \/ (doubts = {"file"} /\ dirs = {})

\* The directories left once the start under way listens.
NextLeft == IF memory.dir = served.dir THEN left ELSE left \cup {served.dir}

\* The server has never listened.
Fresh == row[served.dir] = None

AtMemory == \E u \in Update : pc[u] = "memory"
Untouched == \A u \in Update : pc[u] \in {"idle", "truncate"}
Calm == "overlap" \notin doubts

\* Requests are handled by a server that is up,
OnlyWhenUp == \A u \in Update : pc[u] # "idle" => phase = "up"

\* one at a time, unless we know better,
OneUnderWay ==
  Calm => \A u, v \in Update : pc[u] # "idle" /\ pc[v] # "idle" => u = v

\* and what it has written is there.
Written ==
  Calm => \A u \in Update :
    /\ pc[u] = "write" => file = Empty
    /\ pc[u] \in {"row", "memory"} => file = new[u]
    /\ pc[u] = "memory" => row[served.dir] = new[u]

\* Without doubts the file, or the start that has truncated it, holds the
\* last update, but for what the command line replaces.
FileIsExpected ==
  doubts = {} =>
    /\ phase \in {"load", "truncate"} \/ (phase = "up" /\ Untouched) =>
         /\ file # Cut
         /\ flags.dir = None => Loaded.dir = expect.dir
         /\ flags.port = None => Loaded.port = expect.port
    /\ phase \in {"open", "save"} =>
         /\ file \in Config
         /\ flags.dir = None => file.dir = expect.dir
         /\ flags.port = None => file.port = expect.port
    /\ phase \in {"truncate", "write", "open", "save"} /\ flags.dir = None
         => memory.dir = expect.dir
    /\ phase \in {"truncate", "write", "open"} /\ flags.port = None
         => memory.port = expect.port

\* Only directories that were served have a row; the default directory is
\* served first, or counts as left.
RowsKnown ==
  /\ \A d \in Dir : row[d] # None => d \in left \cup {served.dir}
  /\ DefaultDir \in left \cup {served.dir}
  /\ phase = "up" => ~Fresh

\* Before the server has listened for the first time there are defaults only.
FirstStart ==
  Fresh => /\ left = {} /\ expect = Default
           /\ flags.port = None => memory.port = DefaultPort
           /\ flags.port = None /\ file # Cut => Loaded.port = DefaultPort

\* The row of the directory being served holds the port of the last update,
RowIsExpected ==
  "row" \notin doubts /\ Sure(left) /\ ~Fresh /\ ~AtMemory
    /\ flags.port = None /\ served.dir \notin left
    => row[served.dir].port = expect.port

\* a start ends up with that port,
SaveIsExpected ==
  phase = "save" /\ Sure(NextLeft) /\ flags.port = None /\ memory.dir \notin NextLeft
    => memory.port = expect.port

\* and the running server keeps it.
UpIsExpected ==
  phase = "up" /\ Sure(left) /\ flags.port = None /\ served.dir \notin left
    => memory.port = expect.port

FlagsApplied ==
  /\ phase \in {"truncate", "write", "open", "save"} => memory = Flagged(memory)
  /\ phase = "up" => served = Flagged(served)

IInv ==
  /\ TypeOK /\ OnlyWhenUp /\ OneUnderWay /\ Written /\ FileIsExpected /\ RowsKnown
  /\ FirstStart /\ RowIsExpected /\ SaveIsExpected /\ UpIsExpected /\ FlagsApplied

LEMMA IInvInit == Init => IInv
  <1> SUFFICES ASSUME Init PROVE IInv
    OBVIOUS
  <1>1. TypeOK
    BY TypeInit
  <1>2. OnlyWhenUp /\ OneUnderWay /\ Written
    BY DEF Init, OnlyWhenUp, OneUnderWay, Written
  <1>3. Loaded = Default /\ file # Cut
    BY ServerConfigAssumption DEF Init, Loaded
  <1>4. FileIsExpected /\ SaveIsExpected /\ UpIsExpected /\ FlagsApplied
    BY <1>3 DEF Init, FileIsExpected, SaveIsExpected, UpIsExpected, FlagsApplied
  <1>5. RowsKnown /\ FirstStart /\ RowIsExpected
    BY <1>3, ServerConfigAssumption
    DEF Init, RowsKnown, FirstStart, RowIsExpected, Fresh, Default
  <1> QED
    BY <1>1, <1>2, <1>4, <1>5 DEF IInv

LEMMA IInvStep == IInv /\ [Next]_vars => IInv'
  <1> SUFFICES ASSUME IInv, [Next]_vars PROVE IInv'
    OBVIOUS
  <1> USE DEF IInv
  <1>0. TypeOK /\ TypeOK'
    BY TypeStep
  <1>1. CASE Load
    <2>1. \A u \in Update : pc[u] = "idle" /\ pc'[u] = "idle"
      BY <1>1 DEF Load, OnlyWhenUp, history, bounds
    <2>2. OnlyWhenUp' /\ OneUnderWay' /\ Written'
      BY <2>1 DEF OnlyWhenUp, OneUnderWay, Written
    <2>3. Loaded \in Config /\ Loaded' = Loaded /\ memory' = Flagged(Loaded)
      BY <1>0, <1>1, LoadedType DEF Load, Loaded
    <2>4. /\ phase = "load" /\ phase' = "truncate" /\ file # Cut
          /\ UNCHANGED <<file, row, flags, served, pc, expect, left, doubts>>
      BY <1>1 DEF Load, history
    <2>5. FileIsExpected' /\ FirstStart'
      BY <1>0, <2>3, <2>4, FlaggedType
         DEF TypeOK, FileIsExpected, Untouched, FirstStart, Fresh
    <2>6. RowsKnown' /\ RowIsExpected' /\ SaveIsExpected' /\ UpIsExpected'
      BY <2>1, <2>4
         DEF RowsKnown, Fresh, RowIsExpected, Sure, AtMemory, SaveIsExpected, NextLeft,
             UpIsExpected
    <2>7. FlagsApplied'
      BY <1>0, <2>3, <2>4, FlaggedType DEF TypeOK, FlagsApplied, Flagged
    <2> QED
      BY <1>0, <2>2, <2>5, <2>6, <2>7
  <1>2. CASE Truncate
    <2>1. \A u \in Update : pc[u] = "idle" /\ pc'[u] = "idle"
      BY <1>2 DEF Truncate, OnlyWhenUp, history, bounds
    <2>2. OnlyWhenUp' /\ OneUnderWay' /\ Written'
      BY <2>1 DEF OnlyWhenUp, OneUnderWay, Written
    <2>3. /\ phase = "truncate" /\ phase' = "write" /\ file' = Empty
          /\ UNCHANGED <<row, flags, memory, served, pc, expect, left, doubts>>
      BY <1>2 DEF Truncate, history
    <2>4. Empty # Cut /\ Loaded' = Default
      BY <2>3, ServerConfigAssumption DEF Loaded
    <2>5. FileIsExpected' /\ FirstStart'
      BY <2>3, <2>4 DEF Default, FileIsExpected, Untouched, FirstStart, Fresh
    <2>6. RowsKnown' /\ RowIsExpected' /\ SaveIsExpected' /\ UpIsExpected' /\ FlagsApplied'
      BY <2>1, <2>3
         DEF RowsKnown, Fresh, RowIsExpected, Sure, AtMemory, SaveIsExpected, NextLeft,
             UpIsExpected, FlagsApplied, Flagged
    <2> QED
      BY <1>0, <2>2, <2>5, <2>6
  <1>3. CASE WriteBack
    <2>1. \A u \in Update : pc[u] = "idle" /\ pc'[u] = "idle"
      BY <1>3 DEF WriteBack, OnlyWhenUp, history, bounds
    <2>2. OnlyWhenUp' /\ OneUnderWay' /\ Written'
      BY <2>1 DEF OnlyWhenUp, OneUnderWay, Written
    <2>3. /\ phase = "write" /\ phase' = "open" /\ file' = memory
          /\ UNCHANGED <<row, flags, memory, served, pc, expect, left, doubts>>
      BY <1>3 DEF WriteBack, history
    <2>4. memory \in Config /\ memory # Cut /\ Loaded' = memory
      BY <1>0, <2>3, ServerConfigAssumption DEF TypeOK, Loaded
    <2>5. FileIsExpected' /\ FirstStart'
      BY <2>3, <2>4 DEF FileIsExpected, Untouched, FirstStart, Fresh
    <2>6. RowsKnown' /\ RowIsExpected' /\ SaveIsExpected' /\ UpIsExpected' /\ FlagsApplied'
      BY <2>1, <2>3
         DEF RowsKnown, Fresh, RowIsExpected, Sure, AtMemory, SaveIsExpected, NextLeft,
             UpIsExpected, FlagsApplied, Flagged
    <2> QED
      BY <1>0, <2>2, <2>5, <2>6
  <1>4. CASE Open
    <2>1. \A u \in Update : pc[u] = "idle" /\ pc'[u] = "idle"
      BY <1>4 DEF Open, OnlyWhenUp, history, bounds
    <2>2. OnlyWhenUp' /\ OneUnderWay' /\ Written'
      BY <2>1 DEF OnlyWhenUp, OneUnderWay, Written
    <2> DEFINE stored == IF row[memory.dir] = None THEN memory ELSE row[memory.dir]
               taken == [stored EXCEPT !.dir = memory.dir]
    <2>3. /\ phase = "open" /\ phase' = "save" /\ memory' = Flagged(taken)
          /\ UNCHANGED <<file, row, flags, served, pc, expect, left, doubts>>
      BY <1>4 DEF Open, history
    <2>4. /\ stored \in Config /\ taken \in Config
          /\ taken.dir = memory.dir /\ taken.port = stored.port
          /\ memory.dir \in Dir /\ served.dir \in Dir
      BY <1>0 DEF TypeOK, Config
    <2>5. /\ memory' = Flagged(memory')
          /\ flags.port = None => memory'.port = stored.port
          /\ flags.dir = None => memory'.dir = memory.dir
      BY <1>0, <2>3, <2>4, FlaggedType DEF TypeOK
    <2>6. Loaded' = Loaded
      BY <2>3 DEF Loaded
    <2>7. FileIsExpected'
      BY <2>3, <2>5, <2>6 DEF FileIsExpected, Untouched
    <2>8. FirstStart'
      BY <2>3, <2>4, <2>5, <2>6 DEF RowsKnown, FirstStart, Fresh
    <2>9. memory'.dir = memory.dir
      BY <1>0, <2>3, <2>4, <2>5, FlaggedType DEF TypeOK, FlagsApplied
    <2>10. SaveIsExpected'
      BY <2>1, <2>3, <2>4, <2>5, <2>9
         DEF RowsKnown, FirstStart, RowIsExpected, FileIsExpected, AtMemory, Fresh,
             Default, SaveIsExpected, Sure, NextLeft
    <2>11. RowsKnown' /\ RowIsExpected' /\ UpIsExpected' /\ FlagsApplied'
      BY <2>1, <2>3, <2>5
         DEF RowsKnown, RowIsExpected, UpIsExpected, FlagsApplied, Sure, Fresh,
             AtMemory, Flagged
    <2> QED
      BY <1>0, <2>2, <2>7, <2>8, <2>10, <2>11
  <1>5. CASE SaveAndListen
    <2>1. \A u \in Update : pc[u] = "idle" /\ pc'[u] = "idle"
      BY <1>5 DEF SaveAndListen, OnlyWhenUp, history, bounds
    <2>2. OnlyWhenUp' /\ OneUnderWay' /\ Written'
      BY <2>1 DEF OnlyWhenUp, OneUnderWay, Written
    <2>3. /\ phase = "save" /\ phase' = "up" /\ left' = NextLeft
          /\ row' = [row EXCEPT ![memory.dir] = memory] /\ served' = memory
          /\ UNCHANGED <<file, flags, memory, pc, expect, doubts>>
      BY <1>5 DEF SaveAndListen, NextLeft
    <2>4. /\ memory \in Config /\ memory # None /\ memory.dir \in Dir /\ served.dir \in Dir
          /\ row'[memory.dir] = memory
      BY <1>0, <2>3, ServerConfigAssumption DEF TypeOK, Config
    <2>5. Loaded' = Loaded
      BY <2>3 DEF Loaded
    <2>6. FileIsExpected'
      BY <1>0, <2>3, <2>5, ServerConfigAssumption DEF Loaded, FileIsExpected, Untouched
    <2>7. RowsKnown' /\ FirstStart'
      BY <1>0, <2>3, <2>4 DEF TypeOK, NextLeft, RowsKnown, Fresh, FirstStart
    <2>8. UpIsExpected' /\ RowIsExpected'
      BY <2>3, <2>4 DEF SaveIsExpected, UpIsExpected, RowIsExpected, Sure
    <2>9. SaveIsExpected' /\ FlagsApplied'
      BY <2>3 DEF SaveIsExpected, FlagsApplied, Flagged
    <2> QED
      BY <1>0, <2>2, <2>6, <2>7, <2>8, <2>9
  <1>6. ASSUME NEW u \in Update, TruncateFile(u) PROVE IInv'
    <2>1. phase = "up" /\ phase' = "up" /\ ~Fresh
      BY <1>6 DEF TruncateFile, OnlyWhenUp, RowsKnown
    <2>2. /\ pc[u] = "truncate" /\ pc' = [pc EXCEPT ![u] = "write"] /\ file' = Empty
          /\ UNCHANGED <<row, flags, phase, memory, served, new, expect, left, doubts>>
      BY <1>6 DEF TruncateFile, history
    <2>3. OnlyWhenUp' /\ OneUnderWay' /\ Written'
      BY <1>0, <2>1, <2>2 DEF TypeOK, OnlyWhenUp, OneUnderWay, Calm, Written
    <2>4. FileIsExpected' /\ FirstStart'
      BY <1>0, <2>1, <2>2 DEF TypeOK, FileIsExpected, Untouched, FirstStart, Fresh
    <2>5. RowsKnown' /\ RowIsExpected' /\ SaveIsExpected' /\ UpIsExpected' /\ FlagsApplied'
      BY <1>0, <2>1, <2>2
         DEF TypeOK, RowsKnown, Fresh, RowIsExpected, Sure, AtMemory, SaveIsExpected,
             NextLeft, UpIsExpected, FlagsApplied, Flagged
    <2> QED
      BY <1>0, <2>3, <2>4, <2>5
  <1>7. ASSUME NEW u \in Update, WriteFile(u) PROVE IInv'
    <2>1. phase = "up" /\ phase' = "up" /\ ~Fresh
      BY <1>7 DEF WriteFile, OnlyWhenUp, RowsKnown
    <2>2. /\ pc[u] = "write" /\ pc' = [pc EXCEPT ![u] = "row"] /\ file' = Over(new[u])
          /\ UNCHANGED <<row, flags, phase, memory, served, new, expect, left, doubts>>
      BY <1>7 DEF WriteFile, history
    <2>3. Calm => file' = new[u]
      BY <2>2, ServerConfigAssumption DEF Written, Over
    <2>4. OnlyWhenUp' /\ OneUnderWay' /\ Written'
      BY <1>0, <2>1, <2>2, <2>3 DEF TypeOK, OnlyWhenUp, OneUnderWay, Calm, Written
    <2>5. FileIsExpected' /\ FirstStart'
      BY <1>0, <2>1, <2>2 DEF TypeOK, FileIsExpected, Untouched, FirstStart, Fresh
    <2>6. RowsKnown' /\ RowIsExpected' /\ SaveIsExpected' /\ UpIsExpected' /\ FlagsApplied'
      BY <1>0, <2>1, <2>2
         DEF TypeOK, RowsKnown, Fresh, RowIsExpected, Sure, AtMemory, SaveIsExpected,
             NextLeft, UpIsExpected, FlagsApplied, Flagged
    <2> QED
      BY <1>0, <2>4, <2>5, <2>6
  <1>8. ASSUME NEW u \in Update, SaveRow(u) PROVE IInv'
    <2>1. phase = "up" /\ phase' = "up" /\ ~Fresh
      BY <1>8 DEF SaveRow, OnlyWhenUp, RowsKnown
    <2>2. /\ pc[u] = "row" /\ pc' = [pc EXCEPT ![u] = "memory"]
          /\ row' = [row EXCEPT ![served.dir] = new[u]]
          /\ UNCHANGED <<file, flags, phase, memory, served, new, expect, left, doubts>>
      BY <1>8 DEF SaveRow, history
    <2>3. /\ served.dir \in Dir /\ new[u] # None /\ row'[served.dir] = new[u] /\ pc'[u] = "memory"
          /\ Loaded' = Loaded
      BY <1>0, <2>2, ServerConfigAssumption DEF TypeOK, Config, Loaded
    <2>4. OnlyWhenUp' /\ OneUnderWay' /\ Written'
      BY <1>0, <2>1, <2>2, <2>3 DEF TypeOK, OnlyWhenUp, OneUnderWay, Calm, Written
    <2>5. FileIsExpected' /\ FirstStart' /\ RowsKnown' /\ RowIsExpected'
      BY <1>0, <2>1, <2>2, <2>3
         DEF TypeOK, FileIsExpected, Untouched, FirstStart, Fresh, RowsKnown,
             RowIsExpected, Sure, AtMemory
    <2>6. SaveIsExpected' /\ UpIsExpected' /\ FlagsApplied'
      BY <2>1, <2>2
         DEF SaveIsExpected, Sure, NextLeft, UpIsExpected, FlagsApplied, Flagged
    <2> QED
      BY <1>0, <2>4, <2>5, <2>6
  <1>9. ASSUME NEW u \in Update, Acknowledge(u) PROVE IInv'
    <2>1. phase = "up" /\ phase' = "up" /\ ~Fresh
      BY <1>9 DEF Acknowledge, OnlyWhenUp, RowsKnown
    <2>2. /\ pc[u] = "memory" /\ pc' = [pc EXCEPT ![u] = "idle"]
          /\ memory' = new[u] /\ expect' = new[u]
          /\ UNCHANGED <<file, row, flags, phase, served, new>>
      BY <1>9 DEF Acknowledge
    <2>3. /\ Calm => UnderWay = {u} /\ doubts' = {} /\ left' = left \ {served.dir}
          /\ ~Calm => doubts' = doubts /\ left' = left
      BY <1>0, <1>9, <2>2 DEF Acknowledge, UnderWay, OneUnderWay, Calm, TypeOK
    <2>4. /\ Calm => file = new[u] /\ row[served.dir] = new[u]
          /\ new[u] \in Config /\ new[u] # Cut /\ (file = new[u] => Loaded' = new[u])
      BY <1>0, <2>2, ServerConfigAssumption DEF Written, TypeOK, Loaded
    <2>5. OnlyWhenUp' /\ OneUnderWay' /\ Written'
      BY <1>0, <2>1, <2>2, <2>3 DEF TypeOK, OnlyWhenUp, OneUnderWay, Calm, Written
    <2>6. FileIsExpected' /\ RowIsExpected'
      BY <2>1, <2>2, <2>3, <2>4
         DEF Calm, FileIsExpected, Untouched, RowIsExpected, Sure, Fresh, AtMemory
    <2>7. RowsKnown' /\ FirstStart' /\ SaveIsExpected' /\ UpIsExpected'
      BY <2>1, <2>2, <2>3
         DEF RowsKnown, Fresh, FirstStart, SaveIsExpected, Sure, NextLeft, UpIsExpected
    <2>8. FlagsApplied'
      BY <2>1, <2>2 DEF FlagsApplied, Flagged
    <2> QED
      BY <1>0, <2>5, <2>6, <2>7, <2>8
  <1>10. ASSUME NEW u \in Update, Fail(u) PROVE IInv'
    <2>1. phase = "up" /\ phase' = "up" /\ ~Fresh
      BY <1>10 DEF Fail, OnlyWhenUp, RowsKnown
    <2>2. /\ pc[u] \in {"truncate", "write", "row"} /\ pc' = [pc EXCEPT ![u] = "idle"]
          /\ UNCHANGED <<row, flags, phase, memory, served, new, expect, left>>
          /\ \/ pc[u] = "truncate" /\ UNCHANGED <<file, doubts>>
             \/ pc[u] \in {"write", "row"} /\ doubts' = doubts \cup {"file"}
      BY <1>10 DEF Fail
    <2>3. OnlyWhenUp' /\ OneUnderWay'
      BY <1>0, <2>1, <2>2 DEF TypeOK, OnlyWhenUp, OneUnderWay, Calm
    <2>4. \A v \in Update : Calm => pc'[v] = "idle"
      BY <1>0, <2>2 DEF TypeOK, OneUnderWay
    <2>5. Written' /\ FirstStart'
      BY <2>1, <2>2, <2>4 DEF Calm, Written, FirstStart, Fresh
    <2>6. FileIsExpected'
      BY <1>0, <2>1, <2>2, <2>4, ServerConfigAssumption
         DEF Calm, Loaded, OneUnderWay, FileIsExpected, Untouched
    <2>7. RowsKnown' /\ UpIsExpected' /\ FlagsApplied' /\ SaveIsExpected'
      BY <2>1, <2>2
         DEF RowsKnown, Fresh, UpIsExpected, Sure, FlagsApplied, Flagged,
             SaveIsExpected, NextLeft
    <2>8. RowIsExpected'
      BY <1>0, <2>1, <2>2 DEF TypeOK, RowIsExpected, Sure, Fresh, AtMemory
    <2> QED
      BY <1>0, <2>3, <2>5, <2>6, <2>7, <2>8
  <1>11. ASSUME NEW u \in Update, NEW f \in Forms, Submit(u, f) PROVE IInv'
    <2>1. phase = "up" /\ phase' = "up" /\ ~Fresh
      BY <1>11 DEF Submit, RowsKnown
    <2>2. /\ pc[u] = "idle" /\ pc' = [pc EXCEPT ![u] = "truncate"]
          /\ new' = [new EXCEPT ![u] = Normalize(f)]
          /\ UNCHANGED <<file, row, flags, phase, memory, served, expect, left>>
      BY <1>11 DEF Submit
    <2>3. /\ UnderWay # {} => doubts' = doubts \cup {"overlap"}
          /\ UnderWay = {} => doubts' = IF Calm THEN doubts ELSE {"file", "row"}
      BY <1>11 DEF Submit, Calm
    <2>4. Calm' => UnderWay = {}
      BY <2>3 DEF Calm
    <2>5. OnlyWhenUp' /\ OneUnderWay' /\ Written'
      BY <1>0, <2>1, <2>2, <2>4 DEF TypeOK, UnderWay, OnlyWhenUp, OneUnderWay, Written
    <2>6. Loaded' = Loaded /\ (doubts' = {} => doubts = {})
      BY <2>2, <2>3 DEF Loaded
    <2>7. FileIsExpected' /\ FirstStart'
      BY <1>0, <2>1, <2>2, <2>3, <2>6
         DEF TypeOK, UnderWay, FileIsExpected, Untouched, FirstStart, Fresh
    <2>8. Sure(left)' => Sure(left)
      BY <2>2, <2>3 DEF Sure, Calm
    <2>9. RowsKnown' /\ UpIsExpected' /\ FlagsApplied' /\ SaveIsExpected'
      BY <2>1, <2>2, <2>8
         DEF RowsKnown, UpIsExpected, FlagsApplied, SaveIsExpected, Flagged, Fresh
    <2>10. RowIsExpected'
      BY <1>0, <2>1, <2>2, <2>3, <2>8
         DEF TypeOK, Calm, RowIsExpected, Sure, Fresh, AtMemory
    <2> QED
      BY <1>0, <2>5, <2>7, <2>9, <2>10
  <1>12. CASE Crash
    <2>1. /\ phase' = "load" /\ \A u \in Update : pc'[u] = "idle"
          /\ UNCHANGED <<file, row, flags, memory, served, new, expect, left>>
          /\ doubts \subseteq doubts'
      BY <1>12 DEF Crash
    <2>2. /\ doubts' = {} => phase # "write" /\ Untouched
          /\ "row" \notin doubts' => ~AtMemory
      BY <1>0, <1>12 DEF Crash, Untouched, AtMemory, TypeOK
    <2>3. Loaded' = Loaded
      BY <2>1 DEF Loaded
    <2>4. OnlyWhenUp' /\ OneUnderWay' /\ Written'
      BY <2>1 DEF OnlyWhenUp, OneUnderWay, Written
    <2>5. FileIsExpected'
      BY <1>0, <2>1, <2>2, <2>3, ServerConfigAssumption
         DEF TypeOK, Loaded, FileIsExpected, Untouched
    <2>6. FirstStart'
      BY <2>1, <2>3 DEF FirstStart, Fresh
    <2>7. Sure(left)' => Sure(left)
      BY <1>0, <2>1 DEF Sure, TypeOK
    <2>8. RowsKnown' /\ RowIsExpected' /\ SaveIsExpected' /\ UpIsExpected' /\ FlagsApplied'
      BY <2>1, <2>2, <2>7
         DEF RowsKnown, RowIsExpected, SaveIsExpected, UpIsExpected, FlagsApplied,
             Fresh
    <2> QED
      BY <1>0, <2>4, <2>5, <2>6, <2>8
  <1>13. CASE FailStart
    <2>1. \A u \in Update : pc[u] = "idle" /\ pc'[u] = "idle"
      BY <1>13 DEF FailStart, OnlyWhenUp
    <2>2. OnlyWhenUp' /\ OneUnderWay' /\ Written'
      BY <2>1 DEF OnlyWhenUp, OneUnderWay, Written
    <2>3. /\ phase \in {"truncate", "write", "open", "save"} /\ phase' = "load"
          /\ UNCHANGED <<row, flags, memory, served, pc, expect, left>>
          /\ \/ phase # "write" /\ UNCHANGED <<file, doubts>>
             \/ file' \in {Empty, Cut} /\ doubts' = doubts \cup {"file"}
      BY <1>13 DEF FailStart
    <2>4. /\ file' = file => Loaded' = Loaded
          /\ file' = Empty => Loaded' = Default
      BY DEF Loaded
    <2>5. FileIsExpected'
      BY <1>0, <2>3, <2>4, ServerConfigAssumption DEF TypeOK, Loaded, FileIsExpected, Untouched
    <2>6. FirstStart'
      BY <2>3, <2>4 DEF FirstStart, Fresh, Default
    <2>7. Sure(left)' => Sure(left)
      BY <1>0, <2>3 DEF Sure, TypeOK
    <2>8. RowsKnown' /\ RowIsExpected' /\ SaveIsExpected' /\ UpIsExpected' /\ FlagsApplied'
      BY <2>1, <2>3, <2>7
         DEF RowsKnown, RowIsExpected, SaveIsExpected, UpIsExpected, FlagsApplied,
             Fresh, AtMemory
    <2> QED
      BY <1>0, <2>2, <2>5, <2>6, <2>8
  <1>14. CASE UNCHANGED vars
    BY <1>0, <1>14
       DEF vars, Loaded, Flagged, NextLeft, OnlyWhenUp, OneUnderWay, Calm, Written,
           FileIsExpected, Untouched, RowsKnown, Fresh, FirstStart, RowIsExpected, Sure,
           AtMemory, SaveIsExpected, NextLeft, UpIsExpected, FlagsApplied, Flagged
  <1> QED
    BY <1>1, <1>2, <1>3, <1>4, <1>5, <1>6, <1>7, <1>8, <1>9, <1>10, <1>11, <1>12, <1>13, <1>14
       DEF Next, Start, Serve

LEMMA IInvAlways == Spec => []IInv
  BY IInvInit, IInvStep, PTL DEF Spec

\* The command line goes before the file and the row: a server that is up
\* listens on the port and serves the directory it was given as arguments,
\* whatever updates, failures and crashes came before.
THEOREM CommandLineWins == Spec => []FlagsWin
  <1>1. IInv => FlagsWin
    BY DEF IInv, FlagsApplied, FlagsWin
  <1> QED
    BY <1>1, IInvAlways, PTL

\* What an update asked for lives on: the directory in the file, the port in
\* the file and in the row of the directory being served.  One of the two
\* is enough, and a start never loses both.
THEOREM LastUpdateLivesOn == Spec => []UpdateKept
  <1>1. IInv => UpdateKept
    BY DEF IInv, FileIsExpected, UpIsExpected, UpdateKept, Sure
  <1> QED
    BY <1>1, IInvAlways, PTL
=============================================================================
