----------------------------- MODULE Supervisor -----------------------------
(***************************************************************************)
(* The client's supervisor and the engines it keeps for the account's      *)
(* spaces (internal/client/sync.go, type Supervisor and Engine.Run).  The  *)
(* supervisor polls the account, cancels the engine goroutines of spaces   *)
(* that are off, and starts one for every space that is on.  What a round  *)
(* of an engine moves is Sync's subject; here a round has a beginning, the *)
(* question to the server, a time in which it moves files, and an end.     *)
(*                                                                         *)
(* Goroutine is a pool of names for the goroutines startEngine makes; one  *)
(* is free again when the goroutine has ended.                             *)
(***************************************************************************)
EXTENDS Naturals, FiniteSets

CONSTANTS
  Space,       \* space ids
  Default,     \* cfg.SpaceID, the space synchronised when none is on
  FirstSpaces, \* the spaces that are on at first
  Root,        \* storage roots (StorageRoot, and LocalRoot within it)
  Goroutine,
  RealtimeEnabled, \* Settings.RealtimeEnabled
  MaxChanges,  \* bound on what happens to the account, the network and the disk
  NoRoot, NoGoroutine, NoAnswer

VARIABLES
  account,    \* what the server answers: [enabled, spaces, root]
  reachable,  \* does the server answer
  changes,    \* changes of the two and failures of the disk so far
  ctxDone,    \* the context of Supervisor.Run is cancelled
  step,       \* where SyncOnce of the supervisor is
  polled,     \* the account as it answered the supervisor's round, or NoAnswer
  todo,       \* the spaces the loop has still to visit
  engineRoot, \* Space -> cfg.LocalRoot of its engine, or NoRoot without engine
  started,    \* engineStarted
  cancels,    \* engineCancels: Space -> whose context it cancels, or NoGoroutine
  loop        \* Goroutine -> [at, space, cancelled, watched, answer]

server == <<account, reachable, changes>>
supervisor == <<step, polled, todo>>
vars == <<server, ctxDone, supervisor, engineRoot, started, cancels, loop>>

Account == [enabled : BOOLEAN, spaces : SUBSET Space, root : Root]

\* What of it an engine looks at.
Answer == [enabled : BOOLEAN, root : Root]

\* "wait": in the select of the interval or watch loop; "queued": for e.mu;
\* "asked": accountSyncEnabled has its answer; "moving": pulling or pushing.
Place == {"free", "wait", "queued", "asked", "moving"}

\* watched is NoRoot in the interval loop.
Loop == [at : Place, space : Space, cancelled : BOOLEAN,
         watched : Root \cup {NoRoot}, answer : Answer \cup {NoAnswer}]

ASSUME SupervisorAssumption ==
  /\ Default \in Space /\ FirstSpaces \subseteq Space
  /\ RealtimeEnabled \in BOOLEAN
  /\ MaxChanges \in Nat
  /\ Root # {} /\ NoRoot \notin Root
  /\ NoGoroutine \notin Goroutine
  /\ NoAnswer \notin Account \cup Answer

TypeOK ==
  /\ account \in Account
  /\ reachable \in BOOLEAN
  /\ changes \in 0..MaxChanges
  /\ ctxDone \in BOOLEAN
  /\ step \in {"idle", "stop", "start"}
  /\ polled \in Account \cup {NoAnswer}
  /\ todo \subseteq Space
  /\ engineRoot \in [Space -> Root \cup {NoRoot}]
  /\ started \subseteq Space
  /\ cancels \in [Space -> Goroutine \cup {NoGoroutine}]
  /\ loop \in [Goroutine -> Loop]
  /\ step = "idle" <=> polled = NoAnswer
  /\ \A g \in Goroutine :
       /\ loop[g].at = "asked" <=> loop[g].answer # NoAnswer
       /\ loop[g].at # "free" => engineRoot[loop[g].space] # NoRoot

NotRunning == [at |-> "free", space |-> Default, cancelled |-> FALSE,
               watched |-> NoRoot, answer |-> NoAnswer]

\* One root is as good as another to start with.
Init ==
  /\ account \in [enabled : BOOLEAN, spaces : {FirstSpaces}, root : {CHOOSE r \in Root : TRUE}]
  /\ reachable = TRUE
  /\ changes = 0
  /\ ctxDone = FALSE
  /\ step = "idle"
  /\ polled = NoAnswer
  /\ todo = {}
  /\ engineRoot = [sp \in Space |-> NoRoot]
  /\ started = {}
  /\ cancels = [sp \in Space |-> NoGoroutine]
  /\ loop = [g \in Goroutine |-> NotRunning]

-----------------------------------------------------------------------------
(* The world: the account's owner and administrators, the network, and the *)
(* console that cancels the supervisor's context.                          *)

Change(new, up) ==
  /\ changes < MaxChanges
  /\ changes' = changes + 1
  /\ account' = new
  /\ reachable' = up
  /\ UNCHANGED <<ctxDone, supervisor, engineRoot, started, cancels, loop>>

SwitchSync == Change([account EXCEPT !.enabled = ~@], reachable)

SwitchSpace(sp) ==
  Change([account EXCEPT !.spaces = IF sp \in @ THEN @ \ {sp} ELSE @ \cup {sp}], reachable)

MoveRoot(r) == r # account.root /\ Change([account EXCEPT !.root = r], reachable)

SwitchNetwork == Change(account, ~reachable)

\* A cancelled context cancels the contexts made from it.
CancelContext ==
  /\ ~ctxDone
  /\ ctxDone' = TRUE
  /\ loop' = [g \in Goroutine |-> [loop[g] EXCEPT !.cancelled = (loop[g].at # "free")]]
  /\ UNCHANGED <<server, supervisor, engineRoot, started, cancels>>

-----------------------------------------------------------------------------
(* The supervisor's round. *)

\* activeSpaceIDs.
ActiveSpaces(status) == IF status.spaces = {} THEN {Default} ELSE status.spaces

\* refreshStatus; a round that gets no answer ends at once.
RefreshStatus ==
  /\ step = "idle"
  /\ ~ctxDone
  /\ reachable
  /\ polled' = account
  /\ step' = "stop"
  /\ UNCHANGED <<server, ctxDone, todo, engineRoot, started, cancels, loop>>

\* The spaces that may go on: none if the account's sync is off.
Kept == IF polled.enabled THEN ActiveSpaces(polled) ELSE {}

\* Mutant: the test for the active spaces is turned round.
StopActive ==
  /\ started' = started \ Kept
  /\ cancels' = [sp \in Space |-> IF sp \in Kept THEN NoGoroutine ELSE cancels[sp]]
  /\ loop' = [g \in Goroutine |->
                IF \E sp \in Kept : cancels[sp] = g
                  THEN [loop[g] EXCEPT !.cancelled = TRUE] ELSE loop[g]]

\* Mutant: the context is cancelled, the flags stay.
CancelInactive ==
  /\ UNCHANGED <<started, cancels>>
  /\ loop' = [g \in Goroutine |->
                IF \E sp \in Space \ Kept : cancels[sp] = g
                  THEN [loop[g] EXCEPT !.cancelled = TRUE] ELSE loop[g]]

\* stopInactiveEngines.
StopInactive ==
  /\ started' = started \cap Kept
  /\ cancels' = [sp \in Space |-> IF sp \in Kept THEN cancels[sp] ELSE NoGoroutine]
  /\ loop' = [g \in Goroutine |->
                IF \E sp \in Space \ Kept : cancels[sp] = g
                  THEN [loop[g] EXCEPT !.cancelled = TRUE] ELSE loop[g]]

\* The round goes on while there are spaces to visit.
Continue ==
  IF todo' = {} THEN step' = "idle" /\ polled' = NoAnswer
                ELSE step' = "start" /\ UNCHANGED polled

StopEngines ==
  /\ step = "stop"
  /\ StopInactive
  /\ todo' = Kept
  /\ Continue
  /\ UNCHANGED <<server, ctxDone, engineRoot>>

Free == {g \in Goroutine : loop[g].at = "free"}

\* A new goroutine in the watch loop, or in the interval loop if the settings
\* say so or the watch cannot be set up.
Launch(sp, cancelled) ==
  IF sp \in started
    THEN UNCHANGED <<started, cancels, loop>>
    ELSE /\ Free # {}
         /\ LET g == CHOOSE g \in Free : TRUE
            IN  /\ started' = started \cup {sp}
                /\ cancels' = [cancels EXCEPT ![sp] = g]
                /\ \E w \in IF RealtimeEnabled THEN {polled.root, NoRoot} ELSE {NoRoot} :
                     loop' = [loop EXCEPT ![g] =
                       [at |-> "wait", space |-> sp, cancelled |-> cancelled,
                        watched |-> w, answer |-> NoAnswer]]

\* Mutant: the goroutine's context is made from no other.
StartDetached(sp) == Launch(sp, FALSE)

\* startEngine: the goroutine's context is made from the supervisor's.
StartEngine(sp) == Launch(sp, ctxDone)

\* engineFor: a new engine, or the one there, moved to the current root;
\* s.mu is held, the engine's own mutex is not.
EngineFor(sp) == engineRoot' = [engineRoot EXCEPT ![sp] = polled.root]

VisitSpace(sp) ==
  /\ step = "start"
  /\ sp \in todo
  /\ EngineFor(sp)
  /\ StartEngine(sp)
  /\ todo' = todo \ {sp}
  /\ Continue
  /\ UNCHANGED <<server, ctxDone>>

\* The directory or the state file in it cannot be made or read.  switchRoot
\* has set the engine's directory by then or has not.
SwitchFails(sp, root) ==
  /\ changes < MaxChanges
  /\ changes' = changes + 1
  /\ engineRoot[sp] # root
  /\ \/ engineRoot' = engineRoot
     \/ engineRoot[sp] # NoRoot /\ engineRoot' = [engineRoot EXCEPT ![sp] = root]
  /\ UNCHANGED <<account, reachable, ctxDone, started, cancels>>

\* An error of engineFor ends the round, the spaces behind are not visited.
VisitFails(sp) ==
  /\ step = "start"
  /\ sp \in todo
  /\ SwitchFails(sp, polled.root)
  /\ todo' = {}
  /\ Continue
  /\ UNCHANGED loop

-----------------------------------------------------------------------------
(* The engine goroutines. *)

GoTo(g, place) == loop' = [loop EXCEPT ![g].at = place]

\* The timer, a file event or the first round: SyncOnce asks the context
\* and then waits for e.mu.
Trigger(g) ==
  /\ loop[g].at = "wait"
  /\ ~loop[g].cancelled
  /\ GoTo(g, "queued")
  /\ UNCHANGED <<server, ctxDone, supervisor, engineRoot, started, cancels>>

Locked(sp) == \E g \in Goroutine : loop[g].space = sp /\ loop[g].at \in {"asked", "moving"}

\* Mutant: the watch loop goes on whatever the engine's directory is.
RestUnchanged(g, root) ==
  loop' = [loop EXCEPT ![g] = [@ EXCEPT !.at = "wait", !.answer = NoAnswer]]

\* The end of a round.  The watch loop starts again, or gives way to the
\* interval loop, when the engine's directory is not the one it watches.
Rest(g, root) ==
  \E w \in IF loop[g].watched \in {NoRoot, root} THEN {loop[g].watched} ELSE {root, NoRoot} :
    loop' = [loop EXCEPT ![g] = [@ EXCEPT !.at = "wait", !.watched = w, !.answer = NoAnswer]]

\* accountSyncEnabled, under e.mu: the server answers ...
Ask(g) ==
  /\ loop[g].at = "queued"
  /\ ~Locked(loop[g].space)
  /\ IF reachable
       THEN loop' = [loop EXCEPT ![g].at = "asked",
                                 ![g].answer = [enabled |-> account.enabled, root |-> account.root]]
       ELSE Rest(g, engineRoot[loop[g].space])
  /\ UNCHANGED <<server, ctxDone, supervisor, engineRoot, started, cancels>>

\* Mutant: the round goes on whatever the account's switch says.
AlwaysProceed(g) ==
  /\ loop[g].at = "asked"
  /\ engineRoot' = [engineRoot EXCEPT ![loop[g].space] = loop[g].answer.root]
  /\ loop' = [loop EXCEPT ![g].at = "moving", ![g].answer = NoAnswer]
  /\ UNCHANGED <<server, ctxDone, supervisor, started, cancels>>

\* ... and the round goes on in the directory of the answer, if sync is on.
Proceed(g) ==
  /\ loop[g].at = "asked"
  /\ engineRoot' = [engineRoot EXCEPT ![loop[g].space] = loop[g].answer.root]
  /\ IF loop[g].answer.enabled
       THEN loop' = [loop EXCEPT ![g].at = "moving", ![g].answer = NoAnswer]
       ELSE Rest(g, loop[g].answer.root)
  /\ UNCHANGED <<server, ctxDone, supervisor, started, cancels>>

\* The engine's round ends where accountSyncEnabled cannot switch.
ProceedFails(g) ==
  /\ loop[g].at = "asked"
  /\ SwitchFails(loop[g].space, loop[g].answer.root)
  /\ Rest(g, engineRoot'[loop[g].space])
  /\ UNCHANGED supervisor

\* The round has moved what there was, has failed, or has seen the context
\* cancelled.
EndRound(g) ==
  /\ loop[g].at = "moving"
  /\ Rest(g, engineRoot[loop[g].space])
  /\ UNCHANGED <<server, ctxDone, supervisor, engineRoot, started, cancels>>

\* The loop sees the cancelled context, Run returns, and the goroutine's last
\* section removes the flags of its space, whoever set them.  A goroutine can
\* stay in "wait" for as long as it takes from one to the other.
Return(g) ==
  LET sp == loop[g].space
  IN  /\ loop[g].at = "wait"
      /\ loop[g].cancelled
      /\ started' = started \ {sp}
      /\ cancels' = [cancels EXCEPT ![sp] = NoGoroutine]
      /\ loop' = [loop EXCEPT ![g] = NotRunning]
      /\ UNCHANGED <<server, ctxDone, supervisor, engineRoot>>

World ==
  \/ SwitchSync \/ SwitchNetwork \/ CancelContext
  \/ \E sp \in Space : SwitchSpace(sp)
  \/ \E r \in Root : MoveRoot(r)

Failure == (\E sp \in Space : VisitFails(sp)) \/ \E g \in Goroutine : ProceedFails(g)

Round == RefreshStatus \/ StopEngines \/ \E sp \in Space : VisitSpace(sp)

Run(g) ==
  \/ Trigger(g) \/ Ask(g) \/ Proceed(g) \/ EndRound(g) \/ Return(g)

Next == World \/ Failure \/ Round \/ \E g \in Goroutine : Run(g)

Spec == Init /\ [][Next]_vars

\* The supervisor's ticker and every goroutine keep going; sync.Mutex hands
\* e.mu to whoever has waited long enough.
FairSpec ==
  /\ Spec
  /\ WF_vars(Round)
  /\ \A g \in Goroutine : WF_vars(Run(g)) /\ SF_vars(Ask(g))

-----------------------------------------------------------------------------
(* Properties. *)

\* A space whose flag is set has a goroutine that runs and that nobody has
\* cancelled; the supervisor never takes a dead engine for a running one
\* (startEngine returns early on the flag).
FlagMeansRunning ==
  \A sp \in Space :
    /\ sp \in started <=> cancels[sp] # NoGoroutine
    /\ sp \in started =>
         /\ loop[cancels[sp]].at # "free"
         /\ loop[cancels[sp]].space = sp
         /\ loop[cancels[sp]].cancelled => ctxDone

\* The server can be reached, the account's sync is on and so is the space.
On(sp) == reachable /\ account.enabled /\ sp \in ActiveSpaces(account) /\ ~ctxDone

Moving(sp) == \E g \in Goroutine : loop[g].at = "moving" /\ loop[g].space = sp

\* docs/中文详细文档.md:481: as long as the account's sync is on, the client
\* goes on synchronising after the connection is back, without a restart.
EnabledIsSynced ==
  \A sp \in Space : <>[]On(sp) => []<>Moving(sp)

\* When the account's sync stays off, no engine moves files any more, not
\* even one the supervisor has lost the cancel function of.
DisabledRests ==
  <>[](reachable /\ ~account.enabled) => <>[](\A sp \in Space : ~Moving(sp))

\* An engine ends up in the account's storage root, and so do the watches
\* of its goroutines.
RootIsFollowed ==
  \A sp \in Space, r \in Root :
    <>[](On(sp) /\ account.root = r) =>
      <>[](/\ engineRoot[sp] = r
           /\ \A g \in Goroutine : loop[g].at # "free" /\ loop[g].space = sp
                                     => loop[g].watched \in {r, NoRoot})

\* When the console cancels the supervisor, everything it started ends.
CancelEndsAll ==
  ctxDone ~> (step = "idle" /\ \A g \in Goroutine : loop[g].at = "free")

\* The name of Supervisor.stopInactiveEngines: a space that stays off comes
\* to rest.
InactiveRests ==
  \A sp \in Space :
    <>[](reachable /\ sp \notin ActiveSpaces(account)) => <>[]~Moving(sp)

\* What the engine's mutex is for: a round works in one directory, with one
\* state file, from beginning to end.
RoundStaysInRoot ==
  [][\A g \in Goroutine : loop[g].at = "moving" /\ loop'[g].at = "moving"
       => engineRoot'[loop[g].space] = engineRoot[loop[g].space]]_vars
=============================================================================
