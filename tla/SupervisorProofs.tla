-------------------------- MODULE SupervisorProofs --------------------------
(***************************************************************************)
(* The supervisor's safety, for any number of spaces, roots, goroutines    *)
(* and changes: its flags are those of goroutines that run, uncancelled,   *)
(* although a goroutine that ends removes the flags of another.            *)
(***************************************************************************)
EXTENDS Supervisor, TLAPS

IInv == TypeOK /\ FlagMeansRunning

\* What TypeOK says of one goroutine beyond its type.
Fits(e, roots) ==
  /\ e.at = "asked" <=> e.answer # NoAnswer
  /\ e.at # "free" => roots[e.space] # NoRoot

\* The part of the invariant that speaks of engines and goroutines ...
Engines ==
  /\ ctxDone \in BOOLEAN
  /\ engineRoot \in [Space -> Root \cup {NoRoot}]
  /\ started \subseteq Space
  /\ cancels \in [Space -> Goroutine \cup {NoGoroutine}]
  /\ loop \in [Goroutine -> Loop]
  /\ \A g \in Goroutine : Fits(loop[g], engineRoot)
  /\ FlagMeansRunning

\* ... and the part that speaks of the account and the supervisor's round.
Rounds ==
  /\ account \in Account
  /\ reachable \in BOOLEAN
  /\ changes \in 0..MaxChanges
  /\ step \in {"idle", "stop", "start"}
  /\ polled \in Account \cup {NoAnswer}
  /\ todo \subseteq Space
  /\ step = "idle" <=> polled = NoAnswer

LEMMA Parts == IInv <=> Engines /\ Rounds
  BY DEF IInv, TypeOK, Engines, Rounds, Fits

\* Nothing changes but one goroutine, which goes on for its space, and
\* perhaps the directory of that space's engine.
LEMMA GoOnKeeps ==
  ASSUME Engines, NEW g \in Goroutine,
         loop[g].at # "free", loop'[g].at # "free",
         loop' \in [Goroutine -> Loop],
         \A h \in Goroutine : h # g => loop'[h] = loop[h],
         loop'[g].space = loop[g].space,
         loop'[g].cancelled = loop[g].cancelled,
         loop'[g].at = "asked" <=> loop'[g].answer # NoAnswer,
         engineRoot' \in [Space -> Root \cup {NoRoot}],
         \A sp \in Space : engineRoot[sp] # NoRoot => engineRoot'[sp] # NoRoot,
         UNCHANGED <<ctxDone, started, cancels>>
  PROVE  Engines'
<1>1. ASSUME NEW h \in Goroutine PROVE Fits(loop'[h], engineRoot')
  <2>1. loop[h] \in Loop /\ Fits(loop[h], engineRoot)
    BY DEF Engines
  <2>2. loop[h].space \in Space
    BY <2>1 DEF Loop
  <2>3. CASE h = g
    BY <2>1, <2>2, <2>3 DEF Fits
  <2>4. CASE h # g
    BY <2>1, <2>2, <2>4 DEF Fits
  <2> QED
    BY <2>3, <2>4
<1>2. ASSUME NEW sp \in Space
      PROVE  /\ sp \in started' <=> cancels'[sp] # NoGoroutine
             /\ sp \in started' =>
                  /\ loop'[cancels'[sp]].at # "free"
                  /\ loop'[cancels'[sp]].space = sp
                  /\ loop'[cancels'[sp]].cancelled => ctxDone'
  <2>1. sp \in started <=> cancels[sp] # NoGoroutine
    BY DEF Engines, FlagMeansRunning
  <2>2. sp \in started => cancels[sp] \in Goroutine
    BY <2>1 DEF Engines
  <2>3. sp \in started =>
          /\ loop[cancels[sp]].at # "free"
          /\ loop[cancels[sp]].space = sp
          /\ loop[cancels[sp]].cancelled => ctxDone
    BY DEF Engines, FlagMeansRunning
  <2>4. CASE cancels[sp] = g
    BY <2>1, <2>2, <2>3, <2>4
  <2>5. CASE cancels[sp] # g
    BY <2>1, <2>2, <2>3, <2>5
  <2> QED
    BY <2>4, <2>5
<1>3. FlagMeansRunning'
  BY <1>2 DEF FlagMeansRunning
<1> QED
  BY <1>1, <1>3 DEF Engines

\* Where a round ends, the goroutine waits again, for the same space.
LEMMA RestShape ==
  ASSUME loop \in [Goroutine -> Loop], NEW g \in Goroutine,
         NEW root \in Root, Rest(g, root)
  PROVE  /\ loop' \in [Goroutine -> Loop]
         /\ \A h \in Goroutine : h # g => loop'[h] = loop[h]
         /\ loop'[g].at = "wait"
         /\ loop'[g].answer = NoAnswer
         /\ loop'[g].space = loop[g].space
         /\ loop'[g].cancelled = loop[g].cancelled
<1>1. loop[g] \in Loop
  OBVIOUS
<1>2. PICK w \in Root \cup {NoRoot} :
        loop' = [loop EXCEPT ![g] = [@ EXCEPT !.at = "wait", !.watched = w, !.answer = NoAnswer]]
  BY <1>1 DEF Rest, Loop
<1> DEFINE e == [loop[g] EXCEPT !.at = "wait", !.watched = w, !.answer = NoAnswer]
<1>3. e \in Loop
  BY <1>1 DEF Loop, Place
<1>4. loop' = [loop EXCEPT ![g] = e]
  BY <1>2
<1>5. /\ e.at = "wait" /\ e.answer = NoAnswer
      /\ e.space = loop[g].space /\ e.cancelled = loop[g].cancelled
  BY <1>1 DEF Loop
<1>6. loop'[g] = e
  BY <1>4
<1> HIDE DEF e
<1> QED
  BY <1>3, <1>4, <1>5, <1>6

LEMMA InitKeeps == Init => IInv
<1> SUFFICES ASSUME Init PROVE Engines /\ Rounds
  BY Parts
<1>1. NotRunning \in Loop
  BY SupervisorAssumption DEF NotRunning, Loop, Place
<1>2. NotRunning.at = "free" /\ NotRunning.answer = NoAnswer
  BY DEF NotRunning
<1>3. \A g \in Goroutine : loop[g] = NotRunning
  BY DEF Init
<1>4. \A g \in Goroutine : Fits(loop[g], engineRoot)
  BY <1>2, <1>3 DEF Fits
<1>5. FlagMeansRunning
  BY DEF Init, FlagMeansRunning
<1>6. loop \in [Goroutine -> Loop]
  BY <1>1 DEF Init
<1>7. Engines
  BY <1>4, <1>5, <1>6 DEF Init, Engines
<1>8. account \in Account
  <2>1. (CHOOSE r \in Root : TRUE) \in Root
    BY SupervisorAssumption
  <2> QED
    BY <2>1, SupervisorAssumption DEF Init, Account
<1>9. Rounds
  BY <1>8, SupervisorAssumption DEF Init, Rounds
<1> QED
  BY <1>7, <1>9

LEMMA ChangeKeeps ==
  ASSUME Engines, Rounds, NEW new \in Account, NEW up \in BOOLEAN, Change(new, up)
  PROVE  Engines' /\ Rounds'
<1>1. Engines'
  BY DEF Change, Engines, FlagMeansRunning
<1>2. changes' \in 0..MaxChanges
  BY SupervisorAssumption DEF Change, Rounds
<1> QED
  BY <1>1, <1>2 DEF Change, supervisor, Rounds

LEMMA WorldKeeps ==
  ASSUME Engines, Rounds, World
  PROVE  Engines' /\ Rounds'
<1>1. CASE SwitchSync
  <2>1. [account EXCEPT !.enabled = ~@] \in Account
    BY DEF Rounds, Account
  <2> QED
    BY <1>1, <2>1, ChangeKeeps DEF SwitchSync, Rounds
<1>2. CASE SwitchNetwork
  BY <1>2, ChangeKeeps DEF SwitchNetwork, Rounds
<1>3. ASSUME NEW sp \in Space, SwitchSpace(sp) PROVE Engines' /\ Rounds'
  <2> DEFINE new == [account EXCEPT !.spaces = IF sp \in @ THEN @ \ {sp} ELSE @ \cup {sp}]
  <2>1. new \in Account
    BY DEF Rounds, Account
  <2> QED
    BY <1>3, <2>1, ChangeKeeps DEF SwitchSpace, Rounds
<1>4. ASSUME NEW r \in Root, MoveRoot(r) PROVE Engines' /\ Rounds'
  <2>1. [account EXCEPT !.root = r] \in Account
    BY DEF Rounds, Account
  <2> QED
    BY <1>4, <2>1, ChangeKeeps DEF MoveRoot, Rounds
<1>5. CASE CancelContext
  <2> DEFINE e(g) == [loop[g] EXCEPT !.cancelled = (loop[g].at # "free")]
  <2>1. ASSUME NEW g \in Goroutine
        PROVE  /\ e(g) \in Loop
               /\ e(g).at = loop[g].at
               /\ e(g).space = loop[g].space
               /\ e(g).answer = loop[g].answer
    <3>1. loop[g] \in Loop
      BY DEF Engines
    <3>2. (loop[g].at # "free") \in BOOLEAN
      OBVIOUS
    <3> QED
      BY <3>1, <3>2 DEF Loop
  <2>2. loop' = [g \in Goroutine |-> e(g)] /\ ctxDone' = TRUE
    BY <1>5 DEF CancelContext
  <2> HIDE DEF e
  <2>3. loop' \in [Goroutine -> Loop] /\ \A g \in Goroutine : loop'[g] = e(g)
    BY <2>1, <2>2
  <2>4. \A g \in Goroutine : Fits(loop'[g], engineRoot')
    BY <1>5, <2>1, <2>3 DEF CancelContext, Engines, Fits
  <2>5. FlagMeansRunning'
    BY <1>5, <2>1, <2>2, <2>3 DEF CancelContext, Engines, FlagMeansRunning
  <2>6. Engines'
    BY <1>5, <2>2, <2>3, <2>4, <2>5 DEF CancelContext, Engines
  <2> QED
    BY <1>5, <2>6 DEF CancelContext, server, supervisor, Rounds
<1> QED
  BY <1>1, <1>2, <1>3, <1>4, <1>5 DEF World

LEMMA KeptIsSpaces ==
  ASSUME polled \in Account
  PROVE  Kept \subseteq Space
BY SupervisorAssumption DEF Kept, ActiveSpaces, Account

LEMMA ContinueKeeps ==
  ASSUME Rounds, polled # NoAnswer, todo' \subseteq Space, Continue, UNCHANGED server
  PROVE  Rounds'
<1>1. /\ account' = account /\ reachable' = reachable /\ changes' = changes
  BY DEF server
<1>2. CASE todo' = {}
  BY <1>1, <1>2 DEF Continue, Rounds
<1>3. CASE todo' # {}
  BY <1>1, <1>3 DEF Continue, Rounds
<1> QED
  BY <1>2, <1>3

\* A goroutine belongs to one space, so the kept ones are not among those
\* whose contexts are cancelled.
LEMMA StopInactiveKeeps ==
  ASSUME Engines, StopInactive, UNCHANGED <<ctxDone, engineRoot>>
  PROVE  Engines'
<1> DEFINE dropped(g) == \E sp \in Space \ Kept : cancels[sp] = g
           e(g) == IF dropped(g) THEN [loop[g] EXCEPT !.cancelled = TRUE] ELSE loop[g]
<1>1. ASSUME NEW g \in Goroutine
      PROVE  /\ e(g) \in Loop
             /\ e(g).at = loop[g].at
             /\ e(g).space = loop[g].space
             /\ e(g).answer = loop[g].answer
             /\ ~dropped(g) => e(g) = loop[g]
  <2>1. loop[g] \in Loop
    BY DEF Engines
  <2>2. CASE dropped(g)
    BY <2>1, <2>2 DEF Loop
  <2>3. CASE ~dropped(g)
    BY <2>1, <2>3
  <2> QED
    BY <2>2, <2>3
<1>2. loop' = [g \in Goroutine |-> e(g)]
  BY DEF StopInactive
<1>3. ASSUME NEW sp \in Space, sp \in started, sp \in Kept
      PROVE  ~dropped(cancels[sp])
  <2>1. cancels[sp] # NoGoroutine /\ loop[cancels[sp]].space = sp
    BY <1>3 DEF Engines, FlagMeansRunning
  <2> SUFFICES ASSUME NEW other \in Space \ Kept, cancels[other] = cancels[sp] PROVE FALSE
    OBVIOUS
  <2>2. other \in started
    BY <2>1 DEF Engines, FlagMeansRunning
  <2>3. loop[cancels[other]].space = other
    BY <2>2 DEF Engines, FlagMeansRunning
  <2> QED
    BY <1>3, <2>1, <2>3
<1> HIDE DEF e, dropped
<1>4. loop' \in [Goroutine -> Loop] /\ \A g \in Goroutine : loop'[g] = e(g)
  BY <1>1, <1>2
<1>5. \A g \in Goroutine : Fits(loop'[g], engineRoot')
  BY <1>1, <1>4 DEF Engines, Fits
<1>6. /\ started' = started \cap Kept
      /\ cancels' = [sp \in Space |-> IF sp \in Kept THEN cancels[sp] ELSE NoGoroutine]
  BY DEF StopInactive
<1>7. ASSUME NEW sp \in Space
      PROVE  /\ sp \in started' <=> cancels'[sp] # NoGoroutine
             /\ sp \in started' =>
                  /\ loop'[cancels'[sp]].at # "free"
                  /\ loop'[cancels'[sp]].space = sp
                  /\ loop'[cancels'[sp]].cancelled => ctxDone'
  <2>1. /\ sp \in started <=> cancels[sp] # NoGoroutine
        /\ sp \in started =>
             /\ loop[cancels[sp]].at # "free"
             /\ loop[cancels[sp]].space = sp
             /\ loop[cancels[sp]].cancelled => ctxDone
    BY DEF Engines, FlagMeansRunning
  <2>2. CASE sp \in started'
    <3>1. sp \in started /\ sp \in Kept /\ cancels'[sp] = cancels[sp]
      BY <1>6, <2>2
    <3>2. cancels[sp] \in Goroutine
      BY <2>1, <3>1 DEF Engines
    <3>3. ~dropped(cancels[sp])
      BY <1>3, <3>1
    <3>4. loop'[cancels[sp]] = loop[cancels[sp]]
      BY <1>1, <1>4, <3>2, <3>3
    <3> QED
      BY <2>1, <2>2, <3>1, <3>4
  <2>3. CASE sp \notin started'
    BY <1>6, <2>1, <2>3
  <2> QED
    BY <2>2, <2>3
<1>8. FlagMeansRunning'
  BY <1>7 DEF FlagMeansRunning
<1>9. started' \subseteq Space /\ cancels' \in [Space -> Goroutine \cup {NoGoroutine}]
  BY <1>6 DEF Engines
<1> QED
  BY <1>4, <1>5, <1>8, <1>9 DEF Engines

\* What is started gets a goroutine of its own, for its space, under the
\* supervisor's context.
LEMMA VisitKeeps ==
  ASSUME Engines, NEW sp \in Space, polled.root \in Root,
         EngineFor(sp), StartEngine(sp), UNCHANGED ctxDone
  PROVE  Engines'
<1>1. /\ engineRoot' \in [Space -> Root \cup {NoRoot}]
      /\ \A x \in Space : engineRoot[x] # NoRoot => engineRoot'[x] # NoRoot
      /\ engineRoot'[sp] # NoRoot
  BY SupervisorAssumption DEF EngineFor, Engines
<1>2. ASSUME NEW g \in Goroutine PROVE Fits(loop[g], engineRoot')
  <2>1. loop[g].space \in Space /\ Fits(loop[g], engineRoot)
    BY DEF Engines, Loop
  <2> QED
    BY <1>1, <2>1 DEF Fits
<1>3. CASE sp \in started
  <2>1. UNCHANGED <<started, cancels, loop>>
    BY <1>3 DEF StartEngine, Launch
  <2>2. FlagMeansRunning'
    BY <2>1 DEF Engines, FlagMeansRunning
  <2> QED
    BY <1>1, <1>2, <2>1, <2>2 DEF Engines
<1>4. CASE sp \notin started
  <2> DEFINE g == CHOOSE x \in Free : TRUE
  <2>1. PICK w \in Root \cup {NoRoot} :
          loop' = [loop EXCEPT ![g] = [at |-> "wait", space |-> sp, cancelled |-> ctxDone,
                                       watched |-> w, answer |-> NoAnswer]]
    BY <1>4 DEF StartEngine, Launch
  <2> DEFINE e == [at |-> "wait", space |-> sp, cancelled |-> ctxDone,
                   watched |-> w, answer |-> NoAnswer]
  <2>2. /\ Free # {}
        /\ started' = started \cup {sp}
        /\ cancels' = [cancels EXCEPT ![sp] = g]
    BY <1>4 DEF StartEngine, Launch
  <2>3. g \in Goroutine /\ loop[g].at = "free"
    BY <2>2 DEF Free
  <2>4. e \in Loop
    BY DEF Engines, Loop, Place
  <2>5. e.at = "wait" /\ e.space = sp /\ e.cancelled = ctxDone /\ e.answer = NoAnswer
    OBVIOUS
  <2>6. g # NoGoroutine
    BY <2>3, SupervisorAssumption
  <2> HIDE DEF e, g
  <2>7. /\ loop' = [loop EXCEPT ![g] = e]
        /\ loop \in [Goroutine -> Loop]
    BY <2>1 DEF Engines, e
  <2>8. /\ loop' \in [Goroutine -> Loop]
        /\ loop'[g] = e
        /\ \A h \in Goroutine : h # g => loop'[h] = loop[h]
    BY <2>3, <2>4, <2>7
  <2>9. \A h \in Goroutine : Fits(loop'[h], engineRoot')
    <3>1. Fits(e, engineRoot')
      BY <1>1, <2>5 DEF Fits
    <3> QED
      BY <1>2, <2>8, <3>1
  <2>10. ASSUME NEW x \in Space
         PROVE  /\ x \in started' <=> cancels'[x] # NoGoroutine
                /\ x \in started' =>
                     /\ loop'[cancels'[x]].at # "free"
                     /\ loop'[cancels'[x]].space = x
                     /\ loop'[cancels'[x]].cancelled => ctxDone'
    <3>1. CASE x = sp
      <4>1. cancels'[x] = g
        BY <2>2, <3>1 DEF Engines
      <4> QED
        BY <2>2, <2>5, <2>6, <2>8, <3>1, <4>1
    <3>2. CASE x # sp
      <4>1. cancels'[x] = cancels[x] /\ (x \in started' <=> x \in started)
        BY <2>2, <3>2 DEF Engines
      <4>2. /\ x \in started <=> cancels[x] # NoGoroutine
            /\ x \in started =>
                 /\ loop[cancels[x]].at # "free"
                 /\ loop[cancels[x]].space = x
                 /\ loop[cancels[x]].cancelled => ctxDone
        BY DEF Engines, FlagMeansRunning
      <4>3. x \in started => cancels[x] \in Goroutine /\ cancels[x] # g
        BY <2>3, <4>2 DEF Engines
      <4> QED
        BY <2>8, <4>1, <4>2, <4>3
    <3> QED
      BY <3>1, <3>2
  <2>11. FlagMeansRunning'
    BY <2>10 DEF FlagMeansRunning
  <2>12. started' \subseteq Space /\ cancels' \in [Space -> Goroutine \cup {NoGoroutine}]
    BY <2>2, <2>3 DEF Engines
  <2> QED
    BY <1>1, <2>8, <2>9, <2>11, <2>12 DEF Engines
<1> QED
  BY <1>3, <1>4

LEMMA RoundKeeps ==
  ASSUME Engines, Rounds, Round
  PROVE  Engines' /\ Rounds'
<1>1. CASE RefreshStatus
  <2>1. Engines'
    BY <1>1 DEF RefreshStatus, Engines, FlagMeansRunning
  <2>2. account # NoAnswer
    BY SupervisorAssumption DEF Rounds
  <2> QED
    BY <1>1, <2>1, <2>2 DEF RefreshStatus, server, Rounds
<1>2. CASE StopEngines
  <2>1. polled \in Account /\ polled # NoAnswer
    BY <1>2 DEF StopEngines, Rounds
  <2>2. todo' \subseteq Space
    BY <1>2, <2>1, KeptIsSpaces DEF StopEngines
  <2>3. Engines'
    BY <1>2, StopInactiveKeeps DEF StopEngines
  <2> QED
    BY <1>2, <2>1, <2>2, <2>3, ContinueKeeps DEF StopEngines
<1>3. ASSUME NEW sp \in Space, VisitSpace(sp) PROVE Engines' /\ Rounds'
  <2>1. polled \in Account /\ polled # NoAnswer
    BY <1>3 DEF VisitSpace, Rounds
  <2>2. polled.root \in Root
    BY <2>1 DEF Account
  <2>3. todo' \subseteq Space
    BY <1>3 DEF VisitSpace, Rounds
  <2>4. Engines'
    BY <1>3, <2>2, VisitKeeps DEF VisitSpace
  <2> QED
    BY <1>3, <2>1, <2>3, <2>4, ContinueKeeps DEF VisitSpace
<1> QED
  BY <1>1, <1>2, <1>3 DEF Round

\* The goroutine that ends removes the flags of its space; those of other
\* spaces belong to other goroutines.
LEMMA ReturnKeeps ==
  ASSUME Engines, NEW g \in Goroutine, Return(g)
  PROVE  Engines'
<1> DEFINE sp == loop[g].space
<1>1. loop[g] \in Loop /\ sp \in Space
  BY DEF Engines, Loop
<1>2. /\ started' = started \ {sp}
      /\ cancels' = [cancels EXCEPT ![sp] = NoGoroutine]
      /\ loop' = [loop EXCEPT ![g] = NotRunning]
      /\ engineRoot' = engineRoot /\ ctxDone' = ctxDone
  BY DEF Return
<1>3. NotRunning \in Loop /\ NotRunning.at = "free" /\ NotRunning.answer = NoAnswer
  BY SupervisorAssumption DEF NotRunning, Loop, Place
<1>4. /\ loop' \in [Goroutine -> Loop]
      /\ loop'[g] = NotRunning
      /\ \A h \in Goroutine : h # g => loop'[h] = loop[h]
  BY <1>2, <1>3 DEF Engines
<1>5. \A h \in Goroutine : Fits(loop'[h], engineRoot')
  <2>1. Fits(NotRunning, engineRoot')
    BY <1>3 DEF Fits
  <2>2. \A h \in Goroutine : Fits(loop[h], engineRoot')
    BY <1>2 DEF Engines
  <2> QED
    BY <1>4, <2>1, <2>2
<1> HIDE DEF sp
<1>6. ASSUME NEW x \in Space
      PROVE  /\ x \in started' <=> cancels'[x] # NoGoroutine
             /\ x \in started' =>
                  /\ loop'[cancels'[x]].at # "free"
                  /\ loop'[cancels'[x]].space = x
                  /\ loop'[cancels'[x]].cancelled => ctxDone'
  <2>1. CASE x = sp
    BY <1>1, <1>2, <2>1 DEF Engines
  <2>2. CASE x # sp
    <3>1. cancels'[x] = cancels[x] /\ (x \in started' <=> x \in started)
      BY <1>2, <2>2 DEF Engines
    <3>2. /\ x \in started <=> cancels[x] # NoGoroutine
          /\ x \in started =>
               /\ loop[cancels[x]].at # "free"
               /\ loop[cancels[x]].space = x
               /\ loop[cancels[x]].cancelled => ctxDone
      BY DEF Engines, FlagMeansRunning
    <3>3. x \in started => cancels[x] \in Goroutine /\ cancels[x] # g
      BY <2>2, <3>2 DEF Engines, sp
    <3> QED
      BY <1>2, <1>4, <3>1, <3>2, <3>3
  <2> QED
    BY <2>1, <2>2
<1>7. FlagMeansRunning'
  BY <1>6 DEF FlagMeansRunning
<1>8. started' \subseteq Space /\ cancels' \in [Space -> Goroutine \cup {NoGoroutine}]
  BY <1>1, <1>2 DEF Engines
<1> QED
  BY <1>2, <1>4, <1>5, <1>7, <1>8 DEF Engines

LEMMA RunKeeps ==
  ASSUME Engines, Rounds, NEW g \in Goroutine, Run(g)
  PROVE  Engines' /\ Rounds'
<1>1. Rounds'
  BY DEF Run, Trigger, Ask, Proceed, EndRound, Return, server, supervisor, Rounds
<1>2. loop[g] \in Loop /\ loop \in [Goroutine -> Loop] /\ Fits(loop[g], engineRoot)
  BY DEF Engines
<1>3. loop[g].space \in Space
  BY <1>2 DEF Loop
<1>4. loop[g].at # "free" => engineRoot[loop[g].space] \in Root
  BY <1>2, <1>3 DEF Engines, Fits
<1>5. CASE Trigger(g)
  <2>1. loop'[g] = [loop[g] EXCEPT !.at = "queued"] /\ loop[g].at = "wait"
    BY <1>2, <1>5 DEF Trigger, GoTo
  <2>2. loop'[g].answer = NoAnswer
    BY <1>2, <2>1 DEF Fits, Loop
  <2>3. /\ loop' \in [Goroutine -> Loop]
        /\ loop'[g].at = "queued"
        /\ loop'[g].space = loop[g].space
        /\ loop'[g].cancelled = loop[g].cancelled
        /\ \A h \in Goroutine : h # g => loop'[h] = loop[h]
    BY <1>2, <1>5 DEF Trigger, GoTo, Loop, Place
  <2> QED
    BY <1>1, <1>5, <2>1, <2>2, <2>3, GoOnKeeps DEF Trigger, Engines
<1>6. CASE Ask(g)
  <2>1. loop[g].at = "queued" /\ UNCHANGED <<ctxDone, engineRoot, started, cancels>>
    BY <1>6 DEF Ask
  <2>2. CASE reachable
    <3> DEFINE a == [enabled |-> account.enabled, root |-> account.root]
    <3>1. a \in Answer /\ a # NoAnswer
      BY SupervisorAssumption DEF Rounds, Account, Answer
    <3> HIDE DEF a
    <3>2. loop' = [loop EXCEPT ![g].at = "asked", ![g].answer = a]
      BY <1>6, <2>2 DEF Ask, a
    <3>3. loop'[g] = [loop[g] EXCEPT !.at = "asked", !.answer = a]
      BY <1>2, <3>2
    <3>4. [loop[g] EXCEPT !.at = "asked", !.answer = a] \in Loop
      BY <1>2, <3>1 DEF Loop, Place
    <3>5. /\ loop' \in [Goroutine -> Loop]
          /\ \A h \in Goroutine : h # g => loop'[h] = loop[h]
      BY <1>2, <3>2, <3>3, <3>4
    <3>6. /\ loop'[g].at = "asked" /\ loop'[g].answer = a
          /\ loop'[g].space = loop[g].space
          /\ loop'[g].cancelled = loop[g].cancelled
      BY <1>2, <3>3 DEF Loop
    <3> QED
      BY <1>1, <2>1, <3>1, <3>5, <3>6, GoOnKeeps DEF Engines
  <2>3. CASE ~reachable
    <3>1. Rest(g, engineRoot[loop[g].space])
      BY <1>6, <2>3 DEF Ask
    <3> QED
      BY <1>1, <1>2, <1>4, <2>1, <3>1, RestShape, GoOnKeeps DEF Engines
  <2> QED
    BY <2>2, <2>3
<1>7. CASE Proceed(g)
  <2>1. loop[g].at = "asked" /\ UNCHANGED <<ctxDone, started, cancels>>
    BY <1>7 DEF Proceed
  <2>2. loop[g].answer.root \in Root
    BY <1>2, <2>1 DEF Fits, Loop, Answer
  <2>3. /\ engineRoot' \in [Space -> Root \cup {NoRoot}]
        /\ \A sp \in Space : engineRoot[sp] # NoRoot => engineRoot'[sp] # NoRoot
    BY <1>3, <1>7, <2>2, SupervisorAssumption DEF Proceed, Engines
  <2>4. CASE loop[g].answer.enabled
    <3>1. loop' = [loop EXCEPT ![g].at = "moving", ![g].answer = NoAnswer]
      BY <1>7, <2>4 DEF Proceed
    <3>2. loop'[g] = [loop[g] EXCEPT !.at = "moving", !.answer = NoAnswer]
      BY <1>2, <3>1
    <3>3. [loop[g] EXCEPT !.at = "moving", !.answer = NoAnswer] \in Loop
      BY <1>2 DEF Loop, Place
    <3>4. /\ loop' \in [Goroutine -> Loop]
          /\ \A h \in Goroutine : h # g => loop'[h] = loop[h]
      BY <1>2, <3>1, <3>2, <3>3
    <3>5. /\ loop'[g].at = "moving" /\ loop'[g].answer = NoAnswer
          /\ loop'[g].space = loop[g].space
          /\ loop'[g].cancelled = loop[g].cancelled
      BY <1>2, <3>2 DEF Loop
    <3> QED
      BY <1>1, <2>1, <2>3, <3>4, <3>5, GoOnKeeps
  <2>5. CASE ~loop[g].answer.enabled
    <3>1. Rest(g, loop[g].answer.root)
      BY <1>7, <2>5 DEF Proceed
    <3> QED
      BY <1>1, <1>2, <2>1, <2>2, <2>3, <3>1, RestShape, GoOnKeeps
  <2> QED
    BY <2>4, <2>5
<1>8. CASE EndRound(g)
  <2>1. /\ loop[g].at = "moving" /\ UNCHANGED <<ctxDone, engineRoot, started, cancels>>
        /\ Rest(g, engineRoot[loop[g].space])
    BY <1>8 DEF EndRound
  <2> QED
    BY <1>1, <1>2, <1>4, <2>1, RestShape, GoOnKeeps DEF Engines
<1>9. CASE Return(g)
  BY <1>1, <1>9, ReturnKeeps
<1> QED
  BY <1>5, <1>6, <1>7, <1>8, <1>9 DEF Run

\* What an engine has of a switch that failed: its old directory or the new one.
LEMMA SwitchShape ==
  ASSUME Engines, Rounds, NEW sp \in Space, NEW root \in Root, SwitchFails(sp, root)
  PROVE  /\ engineRoot' \in [Space -> Root \cup {NoRoot}]
         /\ \A x \in Space : engineRoot[x] # NoRoot => engineRoot'[x] # NoRoot
         /\ changes' \in 0..MaxChanges
         /\ UNCHANGED <<account, reachable, ctxDone, started, cancels>>
<1>1. changes' \in 0..MaxChanges
  BY SupervisorAssumption DEF SwitchFails, Rounds
<1> QED
  BY <1>1, SupervisorAssumption DEF SwitchFails, Engines

LEMMA FailureKeeps ==
  ASSUME Engines, Rounds, Failure
  PROVE  Engines' /\ Rounds'
<1>1. ASSUME NEW sp \in Space, VisitFails(sp) PROVE Engines' /\ Rounds'
  <2>1. /\ SwitchFails(sp, polled.root) /\ todo' = {} /\ Continue
        /\ UNCHANGED loop
    BY <1>1 DEF VisitFails
  <2>2. polled.root \in Root
    BY <1>1 DEF VisitFails, Rounds, Account
  <2>3. /\ engineRoot' \in [Space -> Root \cup {NoRoot}]
        /\ \A x \in Space : engineRoot[x] # NoRoot => engineRoot'[x] # NoRoot
        /\ changes' \in 0..MaxChanges
        /\ UNCHANGED <<account, reachable, ctxDone, started, cancels>>
    BY <2>1, <2>2, SwitchShape
  <2>4. \A g \in Goroutine : Fits(loop'[g], engineRoot')
    BY <2>1, <2>3 DEF Engines, Fits, Loop
  <2>5. Engines'
    BY <2>1, <2>3, <2>4 DEF Engines, FlagMeansRunning
  <2>6. Rounds'
    BY <2>1, <2>3 DEF Continue, Rounds
  <2> QED
    BY <2>5, <2>6
<1>2. ASSUME NEW g \in Goroutine, ProceedFails(g) PROVE Engines' /\ Rounds'
  <2> DEFINE sp == loop[g].space
  <2>1. /\ loop[g].at = "asked" /\ UNCHANGED supervisor
        /\ SwitchFails(sp, loop[g].answer.root) /\ Rest(g, engineRoot'[sp])
    BY <1>2 DEF ProceedFails
  <2>2. loop[g] \in Loop /\ loop \in [Goroutine -> Loop] /\ Fits(loop[g], engineRoot)
    BY DEF Engines
  <2>3. sp \in Space /\ loop[g].answer.root \in Root /\ engineRoot[sp] # NoRoot
    BY <2>1, <2>2 DEF Fits, Loop, Answer
  <2> HIDE DEF sp
  <2>4. /\ engineRoot' \in [Space -> Root \cup {NoRoot}]
        /\ \A x \in Space : engineRoot[x] # NoRoot => engineRoot'[x] # NoRoot
        /\ changes' \in 0..MaxChanges
        /\ UNCHANGED <<account, reachable, ctxDone, started, cancels>>
    BY <2>1, <2>3, SwitchShape
  <2>5. engineRoot'[sp] \in Root
    BY <2>3, <2>4
  <2>6. Engines'
    BY <2>1, <2>2, <2>4, <2>5, RestShape, GoOnKeeps
  <2>7. Rounds'
    BY <2>1, <2>4 DEF supervisor, Rounds
  <2> QED
    BY <2>6, <2>7
<1> QED
  BY <1>1, <1>2 DEF Failure

LEMMA StepKeeps == IInv /\ [Next]_vars => IInv'
<1> SUFFICES ASSUME Engines, Rounds, [Next]_vars PROVE Engines' /\ Rounds'
  BY Parts, PTL
<1>1. CASE UNCHANGED vars
  BY <1>1 DEF vars, server, supervisor, Engines, Rounds, FlagMeansRunning
<1> QED
  BY <1>1, WorldKeeps, FailureKeeps, RoundKeeps, RunKeeps DEF Next

\* The state keeps its type; a goroutine has an answer exactly while its
\* round begins, and an engine for as long as it runs.
THEOREM TypeCorrect == Spec => []TypeOK
<1>1. IInv => TypeOK
  BY DEF IInv
<1> QED
  BY <1>1, InitKeeps, StepKeeps, PTL DEF Spec

\* A flagged engine has a goroutine of its own that runs and that nobody has
\* cancelled, however late older goroutines of its space end (sync.go:
\* startEngine, stopInactiveEngines).
THEOREM FlagsAreTrue == Spec => []FlagMeansRunning
<1>1. IInv => FlagMeansRunning
  BY DEF IInv
<1> QED
  BY <1>1, InitKeeps, StepKeeps, PTL DEF Spec
=============================================================================
