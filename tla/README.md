# xcloud: formal models

xcloud synchronises the directories of one account's devices through a server. This directory holds TLA+ models of
the parts of it that are hard to test, configurations with which TLC checks them on small instances, and proofs that
TLAPS checks for instances of any size. File and line numbers refer to `src/`; `PROJECT.json` maps each definition to
the lines it stands for, lists the hazards found in the code, and names for each checked property a mutated
definition that breaks it.

    tlc -workers 2 -config MCStore.cfg MCStore.tla      # one run of the table below
    tlapm StoreProofs.tla                               # the proofs

## The system

| component | state it keeps | operations | source |
|---|---|---|---|
| **Sync store** | `files` (path -> entry with its current version), `versions`, `events` with `last_event_seq`, `operations` (replies by operation id); in memory, and in `metadata.json` | `Commit`, `Delete`, `EventsAfter`, `ListTrash`, `RestoreTrash`, `saveLocked`, `load` | `internal/server/store.go` |
| **HTTP API** | sessions of the administration pages | one handler per operation, behind `syncAuth`, `clientAuth`, `requireLogin`, `requireAdmin` | `internal/server/http.go` |
| **Chunk store** | files named by hash, grants of chunks to accounts | `HasChunk`, `PutChunk`, `GrantAccountChunk`, `verifyManifest` | `store.go` |
| **Registry** | accounts, tokens, devices, folders, spaces, settings, sync records; in memory, in `metadata.json` and (all but folders and records) in the control database | login, administration, `ClientStatus`, `saveLocked`, `load` | `store.go`, `sqlite_store.go` |
| **Server configuration** | `config.json`, the row `server_config` in each data directory's database, the running server's copy | start, the update page | `config.go`, `cmd/xcloud/main.go` |
| **Client engine** (one per space) | `state-<space>.json` (known versions by path, last event number), the directory itself | `SyncOnce`: pull, push, pull | `internal/client/sync.go`, `state.go`, `internal/fileutil` |
| **HTTP client** | context headers | up to five attempts per operation | `internal/client/api.go` |
| **Supervisor** | engines, flags and cancel functions per space | poll the account, stop and start engines, switch the storage root | `sync.go` |
| **Console** | login token, whether a sync runs and how to cancel it | login, start, stop, logout, a watcher every two seconds | `internal/client/console.go`, `local_config.go` |
| **Watchdog** | two pid files, a lock directory | start, stop, restart, upgrade, foreground, and the loop that keeps a child running | `scripts/xcloud-watchdog.sh` |

How they interact: the watchdog keeps a server or a client process running. In the client the console starts a
supervisor goroutine; the supervisor starts one engine goroutine for each active space; engines speak to the store
over HTTP. Every commit or delete carries the version it is based on and an operation id; the store answers `ok`,
`conflict` (it made a conflict copy, or refused a delete) or an error, and every version it makes becomes an event the
other devices pull by number. Contents travel apart from that, chunk by chunk, before a commit and after an event.
Console and supervisors never call each other but through a context; both ask the server for the account's switch on
their own. Store and registry share the mutex `s.mu` and the file `metadata.json`.

What is hard:

* *Concurrency*: handlers queue on `s.mu`, and look at the account and at the space before they take it for the
  change itself; two devices update one path; users edit a directory while an engine reads and writes it; goroutines
  that end late clean up after goroutines started since; shell commands interleave with the watchdog they control.
* *Failure*: the server changes its memory first and saves afterwards, in two files; a save can fail, also between
  the two, and is not rolled back; a crash goes back to what was saved; a client dies, or gives up, between a request
  and the record of its answer, or with half a download on disk; a machine restarts with old pid files.
* *Ordering*: operations are repeated, perhaps while the first attempt still waits for the lock; events have to be
  applied in order and exactly as far as the state file says; a chunk is put, granted and committed in three calls.
* *Time*: conflict names and the comparison of files have a resolution of one second; the trash expires after ten
  days; the event log holds 10000 events; status answers are applied later than they were given.

What makes each part correct: the store loses no update, handles an operation once, and keeps what it acknowledged;
what the store lists can be downloaded; the registry and the server's configuration come back from any crash with
what was acknowledged; an engine loses no edit, and a device with nothing left to do holds what the server holds; the
supervisor, the console and the watchdog never take something dead for something that runs, and what they run follows
what was asked of them in the end.

## The modules

### StoreOps, Store, SpaceHistory: the sync store

`StoreOps` holds the metadata of one space as a record (`files`, `versions`, `events`, `lastSeq`, `operations`) and
one operator per function under `s.mu`: `CommitEntry` (`commitEntryLocked`), `EnsureParent`
(`ensureParentDirsLocked`), `DeleteEntry` (`Delete`), `Install` and `AppendEvent`, `Prune` (`pruneTrashLocked`),
`Restored` (`RestoreTrash`). It is free of state, so that `Store`, `Sync` and `Transfer` are built from it.

`Store` is the server with its clients reduced to what they can send: a manifest that names a version the server made
or none (`CommitRequests`), a delete of a version that is live (`DeleteRequests`). `Receive` is one HTTP attempt,
handlers wait in `pending`, `HandleCommit` and `HandleDelete` are the critical sections, with `saveLocked` and the
reply in them: the code holds the lock from lookup to save. `FailToSave` leaves `metadata.json` old or new, since
either of the two writes of `saveLocked` can be the one that fails. `Crash` goes back to `disk`.

Paths are a finite set with a parent function of depth two; identifiers are numbers drawn from a counter, which keeps
what matters of `NewID`, that it never repeats; `id` order is the order of creation. A reply's and a version's texts,
sizes, hashes and times are one `content`. The names of conflict copies form a set (`CopyName`) with the same parent:
`FreeCopies` says which of them `nextConflictPathLocked` may take.

`SpaceHistory` is the abstract specification: a history of versions and the head of every path; a version comes only
on top of the head it is based on, or as the first of a new file; tombstones may expire; a crash goes back to what
was saved last. `Store` implements it under the mapping `Heads`, checked as the property `ImplementsHistory`.

### Sync: the client engines with the store

One engine per device. A round is cut wherever another actor can get in:

| place | what is between it and the next | source |
|---|---|---|
| `pull` | the next event is taken from the fetched list | `pullRemote` |
| `land` | a file was looked at (`hasLocalDivergence`), the new content is not yet written | `applyVersion`, `downloadVersion` |
| `settle` | it is written, the state file does not say so | `applyVersion` |
| `scan` | the first pull is over, the directory not yet read | `scanLocal` |
| `push`, `drop` | uploads, then tombstones, are being sent | `pushLocal` |
| `answer` | the server has answered, the rename or the state entry is missing | `uploadFile`, `uploadDir`, `pushLocal` |

Users write, replace and remove files and make directories at the places `UserActsAt` names. `Abort` ends a round
anywhere: the process dies, or a request fails for good, perhaps after the server handled it. The trash may expire at
any moment, also in the middle of a round, but what expires is ten days old: a round under way began after it was
deleted and has fetched its event (`Fetched`). What `uploadFile` does with an answer (the rename, the
old name's state entry removed, the new one set) is one step, `RecordUpload`: a rename that fails leaves all three
undone; a client that dies between them, with the copy renamed and not recorded, is left out. A user's `content` is
new each time, so that `wanted`, a history variable, can say which contents nobody has replaced or removed.

### Transfer: contents in chunks

`Transfer` extends `Sync` and refines three of its steps. A content is a sequence of chunks. The scan reads every
file chunk by chunk (`ReadChunk`), so that a file replaced meanwhile is read as a mixture. An upload asks which chunks
are missing (`CheckChunks`), reads the file a second time and puts those (`PutChunk`, `GrantChunk`: two critical
sections, with a save in the second), and commits the hashes of the first reading (`CommitFile`, `RefuseManifest`). A
download collects chunks in a temporary file (`FetchChunk`), replaces the target (`Replace`) and then verifies it
(`Verify`). The server has chunk files (`stored`), the account's grants (`granted`) and `metadata.json` (`saved`).
Saves fail (`CommitUnsaved`, `GrantChunk`, `SaveFails`) with `metadata.json` old, or written and the control database
not; what a failed save left in memory is saved by whichever request comes next, as each saves the time of its token
and its device (`SaveAgain`). The server crashes (`Restart`), a client dies in a download and leaves its
temporary file (`CrashDownload`), the network fails (`CutRound`). The actions of `Sync` that transfer nothing are used
as they are (`SyncStep`).

The documentation (`docs/中文详细文档.md:606-610`, `:830`) says that a download is verified before it takes its
final name; `sync.go:984` renames first and verifies then. The model follows the code; `WholeFiles` and
`SettledIsRight` hold all the same, as `getChunk` compares every chunk with its name.

### Registry: who may do what

The registry is a function from *facts* (`<<"disabled", a>>`, `<<"space", a, s>>`, ...) to values, in memory (`mem`),
in `metadata.json` and in the control database. A request is taken through the steps its handler has, each of them a
critical section: `Receive`, `Authenticate` or `Admit` (the session or token is looked up), `FindTarget`, `Enter`
(`GetSpace`), `Touch` and `Status` (`SeenDevice`, the device's last contact), `LookAgain` (`Commit` looks at the space), `Apply` (the change). A
step that changes facts keeps `holder` until `WriteMetadata` and `WriteControl` are done or `FailSave` has ended the
save, which leaves memory changed. `Start` merges the two copies (`Loaded`: `load`, then the database's tables if
it has an account), puts a default space and the administrator there (`ensureBootstrap`, `ensureDefaultSpaces`) and
saves; with no fact changed it may write `metadata.json` for a time or a hostname, or not, and writes the database in
any case. `acked` and `barredBy` are history: what was promised, and which promises exclude a request that came later.

### ServerConfig: the server's own configuration

A start loads the file, writes it back in any case, opens the data directory, lets the row found there replace
what the file says, applies the command line and saves the row (`Load` ... `SaveAndListen`: `runServer`). An update
writes the file (truncate, then write), the row of the directory *being served*, and the variable, without a lock
(`TruncateFile`, `WriteFile`, `SaveRow`, `Acknowledge`). Each write may fail, and one of the start's ends the start (`Fail`, `FailStart`); the server may crash at any
step. A file
overwritten by a shorter one while another request writes may hold the rest of the longer one: `Length` decides.

### Supervisor: engines per space

The supervisor's round is cut between the status request, `stopInactiveEngines` and each `engineFor`/`startEngine`.
Every engine goroutine goes from `wait` (its loop's select) to `queued` (for `e.mu`), `asked` (`accountSyncEnabled` has
its answer), `moving` (pull and push) and back, and when its context is cancelled to its last section, which removes
the flags of its space *whoever set them* (`Return`). `engineRoot` is the directory an engine works in; the supervisor
changes it under `s.mu`, the engine under `e.mu`. Where the directory or its state file cannot be made or read
(`SwitchFails`), the supervisor's round ends with the spaces behind unvisited (`VisitFails`), or the engine's does
(`ProceedFails`); the engine's directory has changed by then or has not. `watched` is the directory the file watcher was set up for.

### Console: handlers, watcher and sync goroutines

One action per critical section of `c.mu`; what gives the lock up is two actions (`HandleStop`/`FinishStop`,
`HandleLogout`/`FinishLogout`, `AskLogin`/`ApplyLogin`, `ReadToken`/`Answer`/`ApplyStatus`). A token stands for its
account. A sync goroutine lives until its context is cancelled or `NewSupervisor` fails, and then clears `running`
and `cancel` whoever set them (`SetSyncStopped`). When the storage root cannot be made or the configuration not be
written, a login leaves its token and starts nothing (`LoginUnsaved`), and the watcher drops its answer
(`StatusUnsaved`).

### Watchdog: the script

Commands and watchdogs are processes cut between their shell commands (`Step` for `do_start`, `do_stop`,
`do_upgrade`; `Place` for `run_watchdog` and its traps). A `TERM` waits in `termed` until the shell is between two
commands; the trap of `TERM` exits, which runs the `EXIT` trap, so that `cleanup_watchdog` runs twice. Pids are given
out in order; a restart of the machine ends every process and leaves the files, and with `PidsReturn` gives an old pid
to a stranger. `pgrep` is there and finds what runs. A build that fails ends its command, also in a restart that has stopped what
ran (`FailBuild`).

## The runs

| run | instance | what it shows |
|---|---|---|
| `MCStore` | a directory and a file in it with one conflict name each, 3 operations of 2 attempts, 1 failed save, 1 crash, 1 restore, a log of 3 events | no update is lost (`BaseChain`), no operation makes two versions, replies survive the crash while no save failed, the log has no gap, readers of the log end up with what the server holds (`FilesMatchLog`), restores bring back what was deleted, and every step is one of `SpaceHistory` |
| `MCSync` | 2 devices, one path of files, 2 edits, 1 restore, fair engines | a settled device mirrors the server, no edit is lost, the devices converge once the users stop |
| `MCSyncFaults` | files and directories at one path, 2 edits, 1 round cut short, 1 expiry | only the handling of directory tombstones can lose an edit |
| `MCSyncTree` | a directory and a file in it, 4 edits | no edit is lost |
| `MCTransfer` | 2 devices, texts of 2 chunks that share one, 2 edits between rounds and while files are read, sent, committed or verified, 1 fault of any kind | every version can be downloaded (`Downloadable`), no part of a download is ever at a path of the user's (`WholeFiles`), a mixture committed by accident is gone when all have settled (`SettledIsRight`) |
| `MCRegistry` | 3 accounts, 23 requests in 10 groups of 3 that touch the same facts, 2 at once, 1 failed save, 1 crash | what was answered is in memory and in what a start would load (`AckedSurvives`), no start finds files of a space it does not know while no save has failed (`LoadedIsConsistent`), a switch that was answered works for whoever comes later (`LateIsRefused`), an administrator is left (`AdminRemains`), records are trimmed account by account |
| `MCServerConfig` | 2 ports, 2 directories, each kind of command line, 3 updates of which 2 at once, 1 failed write, 2 crashes | what was asked for is what the next start takes (`UpdateKept`); the server comes up again (`StartsAgain`) |
| `MCSupervisor` | 1 space, 2 roots, 4 changes or failed switches | flagged engines run; a space that stays on is synchronised for ever; a disabled account comes to rest, roots are followed, cancellation ends everything |
| `MCConsole` | 2 accounts, 3 clicks or failed writes | the flag has a live sync behind it; the watcher notices on and off |
| `MCWatchdog` | 3 commands one after another, 1 child crash, 1 `SIGKILL` of a watchdog, 1 restart of the machine | one watchdog and one child (`OneOfEach`), which the files name (`FilesNameThem`); a stop leaves nothing; an upgrade replaces the child; a child that dies comes back |
| `MCSyncAnswer`, `MCServerConfigReturn` | | disagreements with the documentation, below |

Why the bounds are enough. In `MCStore` three operations are what it takes to create, replace and delete, or to
create and have two devices conflict; a log of three is shorter than the versions those make, so that it is trimmed;
two attempts allow a retry before, while and after the first is handled, and one across the crash. In the `MCSync`
runs a third device would only repeat what the second does, as devices meet only in the store; two edits make one
conflict; `MCSyncTree` has four, so that edits come on top of its resolution; `MaxEvents` is out of reach there. In
`MCTransfer` the two texts share a chunk, so that a chunk is missing for one and there for the other, and a mixture of
the two exists. A request of `MCRegistry` meets those of its own group; requests on disjoint facts share nothing but
the save, which writes everything. Two crashes in `MCServerConfig` put one before and one after an update; three
updates allow a directory to be left and named again. In the supervisor's and the console's runs the pools of
goroutine names never run out (checked separately: whenever a goroutine is to be started one of the names is free), so
the pools bound nothing. Four changes let an old goroutine be beside a new one, end, and the account go off after
that; one space is enough for that, since goroutines of different spaces share only the flags' maps, and the theorem
`FlagsAreTrue` is about any number. In `MCWatchdog` three commands are a start, something that meets its watchdog
anywhere, and something that meets what that left. Deadlock is not checked where bounds stop the system.

Fairness. Engines: the interval timer starts round after round and a started round goes on (`runInterval`,
`runRealtime`), hence weak fairness of each engine's steps; users, faults and administrators need do nothing. The
supervisor: its ticker, and each goroutine's steps; `Ask` has strong fairness, since it waits for `e.mu` that others
take and release meanwhile, and Go's `sync.Mutex` hands a mutex to a waiter it has starved for a millisecond. The
console: a handler that began ends, the watcher's ticker goes on, the server answers the watcher again and again
(strong fairness of `Answer`; the properties do not hold of a console that is cut off), a cancelled sync ends, which
is `CancelEndsAll` of the supervisor. The watchdog: processes run, and a child told to end does. The server's
configuration: a start goes on, and so does a request being handled; crashes are bounded.

## What the code does otherwise

Two runs end in a counterexample that contradicts the documentation:

* `MCSyncAnswer` (`SettledMirrorsServer`; `docs/中文详细文档.md:10`). The client skips events of its own device, also
  that of an upload whose answer it lost. If the user has removed the file by then, the state knows nothing of it, no
  tombstone is sent, and server and directory differ for good.
* `MCServerConfigReturn` (`UpdateTakesEffect`; `README.md:72-74`). An update saves its row in the database of the
  directory being served. When it names a directory served before, the restarted server finds the row of that time
  there, and the row goes before the file: the port asked for is lost.

More configurations show where the passing runs had to stop, and what some sentences of the documentation leave
out; each ends in a counterexample of the property named:

| configuration | property | what happens |
|---|---|---|
| `MCStoreRetry` | `RetryMakesNoVersion` | `Commit` restores missing parent directories before it looks the operation id up: a retry after the parent was deleted makes a new version of the directory (`docs/中文详细文档.md:827` has retries change nothing) |
| `MCSyncDelete` | `DeletesOnlyAbsent` | a file renamed to a conflict name during the uploads is in the state but not in the scan made before; the deletion loop of the same push deletes it on the server (`:490-492`) |
| `MCSyncKind` | `EditsAreKept` | the tombstone of a directory is applied with `os.Remove`, which also removes a file the user has put in its place (`:64`) |
| `MCSyncExpired` | `Converges` | a path deleted, expired and written again keeps its old `file_id` on the client; the server refuses it in every round |
| `MCSyncLanding` | `EditsAreKept` | an edit made after `hasLocalDivergence` looked and before the rename of `AtomicWrite` is overwritten |
| `MCSyncCoarse` | `EditsAreKept` | an edit with the same size within the same second is not seen |
| `MCSyncRemoved` | `SettledMirrorsServer` | a file removed while its upload is answered as a conflict: the rename fails after the server has the copy |
| `MCSyncBehind` | `SettledMirrorsServer` | a device that missed more events than the log holds gets the newest ones and is not told |
| `MCSyncTreeRemoved` | `SettledMirrorsServer` | a directory answered as a conflict is recorded under the copy's name, though nothing is renamed |
| `MCSyncStuck` | `Converges` | a file where an event needs a directory: the event fails in every round, and nothing after it is applied |
| `MCTransferLeftover` | `NoLeftovers` | a client dies in a download; the next scan takes the temporary file for the user's and uploads it |
| `MCTransferReuse` | `SettledMirrorsServer` | a commit whose save fails stays in memory, and a device pulls its event; after a crash another version gets the same event number, which that device skips |
| `MCServerConfigOverlap` | `FileIsReadable` | two updates at once truncate and write one file; what remains need not be JSON |
| `MCSupervisorOrphan` | `InactiveRests` | an engine whose flags an older goroutine removed goes on with a space that was switched off |
| `MCSupervisorMidRound` | `RoundStaysInRoot` | the supervisor switches the root of an engine in the middle of a round |
| `MCConsoleLogin` | `WhoIsSynced` | a login while another account's sync runs leaves that one running |
| `MCConsoleLogout` | `LogoutStopsSync` | a sync started between the two halves of a logout, or one whose cancel function was cleared, goes on |
| `MCWatchdogRace` | `OneOfEach` | two starts given at once: each removes the lock directory the other relies on |
| `MCWatchdogHasty` | `OneOfEach` | foreground right after a start, then a stop: the second cleanup of the old watchdog removes the lock of the new one |
| `MCWatchdogPids` | `StrangersAreLeft` | after the machine restarts the pid file names a stranger, which a stop signals |
| `MCWatchdogForeground` | `ForegroundStarts` | after the machine restarts foreground is refused by a lock nobody holds |

`MCSync` keeps users out of the places `land` and `answer`, `MCSyncFaults`, `MCSyncTree` and `MCTransfer` out of
`land`, for the reasons of `MCSyncLanding` and `MCSyncRemoved`; all runs but `MCSyncCoarse` use a clock that tells
edits apart. `SettledIsRight` speaks of lives without a failed save, for the reason of `MCTransferReuse`; `UpdateKept`
of updates that do not overlap, and of directories not left before; `MCWatchdog` gives one command at a time, and
foreground only when a start just given has its lock (`Patient`).

## What is proved

For any number of devices, paths, contents, chunks, operations, requests, attempts, failures, crashes and restores,
of spaces, roots, accounts, clicks, goroutines, ports, directories, terminals, commands and pids:

| module | theorem | property |
|---|---|---|
| `StoreProofs` | `TypeCorrect` | `Spec => []TypeOK` |
| | `LogHasNoGap` | `Spec => []EventWindow` |
| | `NoLostUpdate` | `Spec => []BaseChain` |
| | `AtMostOneVersion` | `Spec => []OneVersionPerOperation` |
| | `RepliesAreDurable` | `Spec => []AckedIsDurable` |
| | `LogTellsTheFiles` | `Spec => []FilesMatchLog` |
| | `TrashGivesBack` | `Spec => []RestoredIsDeleted` |
| | `Implementation` | `Spec => ImplementsHistory` |
| `TransferProofs` | `SyncTyped` | `Spec => []TypeOK` (of `Sync`) |
| | `FileChangesKeepEdits` | `Spec => OnlyDirTombstonesLoseEdits`, of calm users |
| | `FilesKeepEdits` | `Spec => []EditsAreKept`, of calm users in a space of files |
| | `SettledDevicesMirror` | `Spec => []SettledMirrorsServer`, in a space of files, of devices within the log's reach that record their answers |
| | `TransferTyped` | `TransferSpec => []TransferTypeOK` |
| | `VersionsCanBeHad` | `TransferSpec => []Downloadable` |
| | `FilesAreWhole` | `TransferSpec => []WholeFiles`, for texts of one length and temporary names of their own |
| | `SettledTextsAreRight` | `TransferSpec => []SettledIsRight`, of devices within the log's reach whose answers are not cut off, with names of their own for copies and leftovers |
| `RegistryProofs` | `RegistryTyped` | `Spec => []TypeOK` |
| | `AnswersSurvive` | `Spec => []AckedSurvives` |
| | `AnAdminRemains` | `Spec => []AdminRemains` |
| | `LateComersFail` | `Spec => []LateIsRefused` |
| | `StartsAreConsistent` | `Spec => []LoadedIsConsistent` |
| | `AccountsKeepNewest` | `Spec => RecordsKeepNewest` |
| `ServerConfigProofs` | `TypeCorrect` | `Spec => []TypeOK` |
| | `LastUpdateLivesOn` | `Spec => []UpdateKept` |
| | `CommandLineWins` | `Spec => []FlagsWin` |
| `SupervisorProofs` | `TypeCorrect` | `Spec => []TypeOK` |
| | `FlagsAreTrue` | `Spec => []FlagMeansRunning` |
| `ConsoleProofs` | `TypeCorrect` | `Spec => []TypeOK` |
| | `StopReachesSync` | `Spec => []RunningHasSync` |
| `WatchdogProofs` | `TypeCorrect` | `Spec => []TypeOK`, as the next four of commands given one at a time |
| | `NeverTwo` | `Spec => []OneOfEach` |
| | `FilesAreTrue` | `Spec => []FilesNameThem` |
| | `UpgradesReplace` | `Spec => []UpgradeReplaces` |
| | `StopIsComplete` | `Spec => []StopLeavesNothing` |

The store (`StoreOpsProofs`, `StoreProofs`). None of its properties is inductive. Metadata is *sound* (`Sound` in `StoreOpsProofs`) when

* `Window`: the events are the last numbers given out;
* `Below`: every identifier in use is smaller than the next one;
* `Numbered`: versions with one identifier are one version;
* `Headed`: an entry's current version is the newest of its file, and no two entries hold one file;
* `Chained`: within a file every version is based on the one before it.

`Headed` is what makes `BaseChain` inductive: the code compares a request's base with the entry's current version,
which says something about the file's newest version only if the two are the same, and that only if no other entry
holds the file. A crash takes memory back to the disk, so both copies have to be sound with respect to the same
counter. `Once` adds that a version's operation has a recorded reply, `Addressed` that a request is kept under its
own operation id; together they are `IInv`. `Durable`, on top of it, says that while no save has failed the disk
already holds every operation's reply that memory holds. `InstallKeeps` is the lemma all version-making calls share;
`CommitKeeps`, `EnsureParentKeeps`, `DeleteKeeps`, `PruneKeeps` and `RestoreKeeps` follow the code's branches from it,
and `StepKeeps` has one step per action. TLC has checked `IInv` and `Durable` on an instance with two operations.

What happens to the history is a question of its own, and `Moves` answers it once for all calls: a call leaves files,
versions and log alone but for their bookkeeping (`Quiet`), or it adds one version, on top of the head of its path
and well made (`OnTop`, `WellMade`), puts its event last and drops events only from the log's front (`Appends`); the
expiry of the trash takes heads away that are tombstones (`Pruned`). Three things follow, from `Consistent`. The last
retained event of a path carries its head, unless that was a tombstone and expired (`LogMatches`): `FilesMatchLog`.
What `RestoreTrash` brings back is based on a tombstone and has the content of the file version that one is based on
(`Returned`), because a tombstone says what it replaced and that was the last version before it (`Graves`):
`RestoredIsDeleted`. And `Implementation` maps each step to one of `SpaceHistory` or to none:
`Moves` and `Pruned` are its actions read through `Heads`, a crash goes back to the mapped disk, and a save that fails
leaves the mapped disk old or new.

The transfer. `DInv` says of memory and of `metadata.json`, each with its own grants, that every chunk a version
names is granted and every granted one is there (`Complete`), and of a device whose engine sends a file that the chunk
it is about to have granted has been put (`InHand`). A crash brings back versions and grants of one save, which is
why the two may not be kept apart; `CommitAdds` and `DeleteAdds` say what the server's calls add to the versions.

The engine, and the transfer of what it works with. One induction serves `SyncTyped`, `TransferTyped` and
`FilesAreWhole`, because its invariant has parameters: `N` says of each path which nodes may be there, in a
directory, a scan or a version, and `M` which part of a file a scan or a download may have read so far. Every step
keeps `SyncInv(N)` and `TInv(N, M)` when `N` and `M` are closed under what the steps do (`SuitsSync`, `IsFitFor`: nothing
may be anywhere, what is at a path may come to a copy's name, a part grows by the file's next chunk). With anything
anywhere the invariant is the type invariant; with whole texts and mixtures of whole texts at the users' names it is
`WholeFiles`. Beyond types it says what each place of a round implies (`MidRound`): an event is at hand while it is
applied, what is to be uploaded is in the scan, what is to be deleted is live for the state file, an answer fits its
request. `FilesAreWhole` assumes that texts have one length, as they do in `MCTransfer`: a scan that reads a mixture
stops where the file ends, and of texts of two lengths a mixture may end early, as a part does. It also assumes that
users write nothing under the names that copies and temporary files get.

Edits. `KeptInv` says that an engine works with nothing but the server's history: the events it fetched
(`Queued`), the contents its state file knows (`Recorded`), the answer it got (`Sent`), what is at the names of conflict
copies (`Copies`). The history only grows (`Moves` again), so a file that `applyVersion` is about to replace, which is
none or the one the state file knows (`Examined`), is one the history has: its loss loses nothing, and every other
step moves files or leaves them. `CalmUsers` are the hypotheses, and each is needed: users stay away while a download
lands (`MCSyncLanding` shows what happens if not), their edits show in size or time (`MCSyncCoarse`), and they write
nothing under the names of conflict copies, which a rename would replace. What is left are the tombstones of
directories, which the property excepts (`MCSyncKind`); in a space of files (`FlatFiles`) there are none, as a version's
`was` is the state of the version it replaced (`WellMade`), so there `EditsAreKept` holds without exception. TLC has
checked `KeptInv` on the instances of `MCSync`, `MCSyncFaults` and `MCSyncTree`.

Mirrors. What can be said of a device at any time, settled or not, is `Agree`: at every path its state file has the
server's newest version, or the event of that is still to come (`Behind`), or it is the answer the device is about to
record (`Asked`). To keep it, `Mirrors` also has that the queue is what follows the last event seen (`InOrder`); that
the device asked for nothing at a path after an event it has not seen there (`Own`), so the events it skips as its own
are none it has to wait for; that the state file knows no version whose event is to come (`KnownIsSeen`), or it would
be taken for seen; that during a round the trash is not cleared under the events to come (`Heads`, which an expiry keeps since a round has
fetched the events of what expires: `ExpiryHeads`); and what an
answer says of the history (`Answers`): a conflict answers only a device that is behind at that path. Hence a request
that is based on what the server has comes from a device that has missed nothing there (`BaseTells`). A settled device
is nowhere `Behind`, and its files are what its state file knows. The theorem has three hypotheses. `FlatFiles`, as a
directory answered as a conflict is recorded under a name it does not get (`MCSyncTreeRemoved`). `[]Within`: no device
is a whole log behind, or the server forgets what it needs (`MCSyncBehind`). `AnswersRecorded`: a round that has an
answer records it, which excludes a loss (`MCSyncAnswer`) and a rename that fails (`MCSyncRemoved`); requests that
are not answered, rounds that are cut anywhere else, restores and the expiry of the trash are all in the theorem. TLC
has checked `Mirrors` on the instance of `MCSync`.

Mixtures. `RightInv` is `Mirrors` over the steps of `Transfer`, where a round reads, sends, fetches and verifies chunk
by chunk and may stop, lose its client or see the server restart at any of them, and with it `Marks`: what a device
makes of a text that nobody wrote. A mixture comes about only in a reading, so wherever it lies in a directory it came
from the server: the state file knows it, or it is that of the next event, which a round that was cut short has put
there but not recorded (`Traced`, and `Settling` while one is put there). A scan finds it as it is, as users write
nothing but texts and the chunks read so far are the file's first ones, and so does not push it (`Scanned`,
`StillThere`). The device that committed it knows it as well, but had read it from a file that had changed meanwhile:
there is a text at that path in its directory (`Authored`), which it would lose only by applying another device's
event there, and none is missing while its own version is the current one (`Ahead`, from `BaseTells`: who bases a
request on the current version has missed nothing). So when all have settled the current version is what its author
has there, a text. `RightInv` holds all this while no save has failed, when the two copies of the metadata are one and
a crash of the server takes nothing back; after a failed save the property is false (`MCTransferReuse`). The hypotheses
are those of `Mirrors` in the terms of this module: names for copies and leftovers that no user takes (`OwnNames`), no
round cut off with an answer in hand (`"answer" \notin CutAt`, as in `MCTransfer`), and `[]Within`; paths have one
component here anyway. TLC has checked `RightInv` on an instance like
`MCTransfer`'s in which rounds are cut at every place but that (1.1 million states).

The registry. `IInv` has three parts: both copies on disk have what was promised, the database for its tables
(`OnDisk`); so has the memory of a server that starts or is up (`InMemory`); and while a request saves, the first copy
is that of the memory before the second is written (`SaveUnderWay`). The database goes before `metadata.json` in
`load`, so a promise is made only after it is in both; `Lasts` adds that no promise is one a start or a report would
put right, such as a space that is missing. For `AdminRemains`, `AInv` adds that each copy that has accounts has an
enabled administrator (`AdminEverywhere`), as a crash may make either the one that counts, and that whoever is about
to switch an account off is an administrator and another one (`TogglesAreAdmins`): switched off or not, which is the
case `crossed` names. For `LateComersFail`, `BInv` says that the promises that bar a request still stand, so that the
facts are what they promise, and that the request has not got past the test that looks at them; what a save is about
is not promised before the save is done. `StartsAreConsistent` is about the two copies of one save (`CInv`): as long
as no save has failed each is the memory of one moment, `metadata.json` that of a moment not before the database's, and
a handler that adds files to a space has found the space there (`Ready`). It needs a `Seed` that is consistent itself,
which `RegistryAssumption` says. `AccountsKeepNewest` needs no more than the types of the log. Removing places from a
log is `Taken`, whose result is read off any increasing list of the places left (`Lists`, `TakenIs`); taking out twice
is taking out once (`TakenTwice`), and the p-th of an account's n records has n - p + 1 from it on (`NewerFrom`), so
that those past the limit are a prefix.

The server's configuration. `UpdateKept` speaks of the moments of loading and of serving; `IInv` says what the file,
the row and the start's variable hold in between: `FileIsExpected`, `RowIsExpected`, `SaveIsExpected`,
`UpIsExpected`, together with which directories have a row at all (`RowsKnown`), what there is before the server has
listened once (`FirstStart`), and what an update has written by each of its steps (`Written`). TLC has checked it.

The supervisor. `TypeOK /\ FlagMeansRunning` is inductive. The point is that a flag names the goroutine whose context
it cancels, and that goroutine belongs to the flag's space: so neither `stopInactiveEngines`, which cancels other
spaces' goroutines, nor the end of a goroutine, which removes its space's flags only, touches what another space's
flag points to. A goroutine that is cancelled has lost its flag in the same step, unless the whole supervisor was
cancelled. `GoOnKeeps` is the lemma for all steps in which a goroutine goes on.

The console. `TypeOK /\ RunningHasSync` needs that the watcher asks only about an account (`AsksForAccount`), as the
answer is that account's switch. `StartKeeps`, `StopKeeps` and `EndKeeps` cover the three functions all handlers use.

The watchdog. `WInv` says for each place of a command and of a watchdog what is true of the lock, of the two pid files
and of the processes there: who holds the lock, which pid a file may name, that a watchdog past the lock is the only
one, that a child belongs to the one watchdog at work or is being ended by the command that found it. None of that
holds when two commands run at once, so the theorems assume `OneAtATime`; `MCWatchdogRace` and `MCWatchdogHasty` are
what happens otherwise. TLC has checked `WInv` on the instance of `MCWatchdog` (6.5 million states).

Assumptions: `PathAssumption`, `LimitAssumption`, `DistinctAssumption`, `NullAssumption`, `StoreAssumption`,
`SyncAssumption`, `StateAssumption`, `TransferAssumption`, `RegistryAssumption`, `ServerConfigAssumption`, `SupervisorAssumption`,
`ConsoleAssumption` and `WatchdogAssumption`: the special values differ from real ones, the bounds are numbers,
conflict names are paths, paths have at most two components (in `Transfer` one), sequences of chunks no longer than a
content are contents, there is a storage root, requests name accounts, devices and values of their kind, and a
registry left by an earlier life has an enabled administrator and files only in spaces it knows. TLC evaluates them in
the runs of the modules that declare them. `CalmUsers`, `FlatFiles`, `Within`, `AnswersRecorded`, the hypotheses of
`FilesAreWhole` and `SettledTextsAreRight`, and `OneAtATime` stand in the theorems that need them.

Only model-checked: `EditsAreKept` of spaces with directories, which fails beyond the bounds of
`MCSyncTree` (`SettledMirrorsServer` is false there: `MCSyncTreeRemoved`);
and all liveness properties, since liveness under fairness is out of the prover's reach. The type invariants of `Store`, `Supervisor` and `Console` are not among the runs' properties because
they are theorems.

## What is not modelled

* Functions of `store.go` that no route calls (`RequestChildren`, `SelectFolder`, `DisableFolder`, `FolderSelected`),
  and lists for pages, which only read.
* The client's command line, read once; backoff times and the parsing of `Retry-After` in the HTTP client; the
  one-shot mode of the supervisor.
* HTML. The console's model leaves out its shutdown; the watchdog's
  leaves out `status`, arguments and logs; the domain of the server's configuration is left out but for its port.
* Store and registry are not composed: `Store` has one active space, `Registry` of each space only whether it has
  files. They share the lock and the save, which both models have.
* The client's death between the rename of a conflict copy and its state entries (`RecordUpload` is one step).
* Directory depth beyond two, and the order in which Go iterates over maps, which is any order here.

## Plan

Written, most important first: `StoreOps`, `Store`, `SpaceHistory`, `Sync`, the proofs of the store, `Supervisor` and
`Console` with theirs, `Registry`, `Transfer`, `Watchdog`, `ServerConfig`, the proofs of the last four, the refinement of
`SpaceHistory`, and the invariants of the engine. Next:

1. `EditsAreKept` for directories, under the hypothesis that no path is a file at one time and a directory at another.
2. `Client`: `Console` composed with `Supervisor`, two supervisors over the same directories included.
