-------------------------------- MODULE Sync --------------------------------
(***************************************************************************)
(* The client engines of one sync space (internal/client/sync.go, with     *)
(* state.go and the local directory) composed with the server's store.     *)
(* Each engine runs rounds of SyncOnce: pull, push, pull.  A round is cut  *)
(* where another actor can get in: before every request, between the look  *)
(* at a local file and the write to it, and before the local state file    *)
(* records what was done.  Users edit the directories meanwhile.           *)
(*                                                                         *)
(* Requests and replies are one step each way here; that a request is      *)
(* handled once although it is sent several times is the subject of Store. *)
(***************************************************************************)
EXTENDS StoreOps

CONSTANTS
  LocalCopyName,  \* the paths that have the form of a local conflict's name
  KindsAt,      \* Path -> what a user makes there, a subset of {"file", "dir"}
  UserActsAt,   \* the places of a round at which a user may edit, with "idle"
  MaxEdits,     \* bound on user edits
  MaxAborts,    \* bound on rounds cut short by a crash or a network failure
  MaxRestores,  \* bound on restores from the trash
  MaxPrunes,    \* bound on expiries of the trash
  CoarseClock,  \* whether an edit can keep size and modification second
  NoFile, DirNode, NoState, NoWork

VARIABLES
  server,   \* the store's metadata
  fresh,    \* the next unused identifier
  files,    \* device -> path -> what is in its directory
  known,    \* device -> path -> entry of the state file (state.Data.Files)
  seen,     \* device -> state.Data.LastEventSeq
  at,       \* device -> where its engine is in a round
  pass,     \* device -> which of the two pulls of the round is running
  queue,    \* device -> events fetched and not yet applied
  scan,     \* device -> the result of scanLocal
  todo,     \* device -> paths still to push
  reply,    \* device -> path, kind and reply of the request just answered
  edits, aborts, restores, prunes,   \* how many so far
  touched,  \* device -> paths edited within size and second of the known version
  wanted    \* (history) contents users wrote and no user overwrote or removed

ASSUME SyncAssumption ==
  /\ LocalCopyName \subseteq Path \ CopyName
  /\ KindsAt \in [Path -> SUBSET {"file", "dir"}]
  /\ MaxEdits \in Nat /\ MaxAborts \in Nat /\ MaxRestores \in Nat /\ MaxPrunes \in Nat
  /\ CoarseClock \in BOOLEAN
  /\ {NoFile, DirNode} \cap Content = {} /\ NoFile # DirNode

store == <<server, fresh>>
local == <<files, known, seen, touched>>
round == <<at, pass, queue, scan, todo, reply>>
bounds == <<edits, aborts, restores, prunes>>
vars == <<store, local, round, bounds, wanted>>

\* pull: between events; land: an event was looked at, its file not yet
\* written; settle: the file is there, the state file does not say so yet;
\* scan: before scanLocal; push, drop: uploads, then tombstones, are being
\* sent; answer: a reply has come and is not yet recorded.
Places == {"idle", "pull", "land", "settle", "scan", "push", "drop", "answer"}

Node == Content \cup {DirNode, NoFile}

LocalState ==
  [fileID : Nat, id : Nat, state : {"file", "dir", "deleted"},
   was : {"none", "file", "dir"}, content : Content \cup {NoContent}]

\* A path without an entry in the state file.
ASSUME StateAssumption == NoState \notin LocalState

TypeOK ==
  /\ server \in Metadata
  /\ fresh \in Nat \ {0}
  /\ files \in [Device -> [Path -> Node]]
  /\ known \in [Device -> [Path -> LocalState \cup {NoState}]]
  /\ seen \in [Device -> Nat]
  /\ at \in [Device -> Places]
  /\ pass \in [Device -> 1..2]
  /\ queue \in [Device -> Seq(Event)]
  /\ scan \in [Device -> [Path -> Node]]
  /\ todo \in [Device -> SUBSET Path]
  /\ reply \in [Device -> [path : Path, kind : {"push", "drop"}, reply : Reply] \cup {NoWork}]
  /\ edits \in 0..MaxEdits /\ aborts \in 0..MaxAborts
  /\ restores \in 0..MaxRestores /\ prunes \in 0..MaxPrunes
  /\ touched \in [Device -> SUBSET Path]
  /\ wanted \subseteq Content

Nothing == [p \in Path |-> NoFile]

Init ==
  /\ server = NewMetadata
  /\ fresh = 1
  /\ files = [c \in Device |-> Nothing]
  /\ known = [c \in Device |-> [p \in Path |-> NoState]]
  /\ seen = [c \in Device |-> 0]
  /\ at = [c \in Device |-> "idle"]
  /\ pass = [c \in Device |-> 1]
  /\ queue = [c \in Device |-> <<>>]
  /\ scan = [c \in Device |-> Nothing]
  /\ todo = [c \in Device |-> {}]
  /\ reply = [c \in Device |-> NoWork]
  /\ edits = 0 /\ aborts = 0 /\ restores = 0 /\ prunes = 0
  /\ touched = [c \in Device |-> {}]
  /\ wanted = {}

-----------------------------------------------------------------------------
(* The local directory. *)

Children(p) == {q \in Path : Parent[q] = p}

IsEmptyDir(fs, p) == fs[p] = DirNode /\ \A q \in Children(p) : fs[q] = NoFile

\* os.MkdirAll on the directory of p: it fails on a file.
CanMakeParent(fs, p) == Parent[p] # NoPath => fs[Parent[p]] \in {NoFile, DirNode}
MakeParent(fs, p) == IF Parent[p] = NoPath THEN fs ELSE [fs EXCEPT ![Parent[p]] = DirNode]

\* os.Rename of what is at p to the name q in the same directory.
Rename(fs, p, q) == [fs EXCEPT ![q] = fs[p], ![p] = NoFile]

\* removeDirIfEmpty: os.Remove takes a file as well as an empty directory,
\* and a directory with something in it is left alone.
RemoveIfEmpty(fs, p) ==
  IF fs[p] \in Content \/ IsEmptyDir(fs, p) THEN [fs EXCEPT ![p] = NoFile] ELSE fs

\* cleanupDeletedDirs: the directories the state knows as deleted, the
\* ones in a directory before those at the top.
CleanDirs(fs, gone) ==
  LET inner == [p \in Path |-> IF p \in gone /\ Parent[p] # NoPath
                                 THEN RemoveIfEmpty(fs, p)[p] ELSE fs[p]]
  IN  [p \in Path |-> IF p \in gone /\ Parent[p] = NoPath
                        THEN RemoveIfEmpty(inner, p)[p] ELSE inner[p]]

DeletedDirs(c) == {p \in Path : known[c][p] # NoState
                     /\ known[c][p].state = "deleted" /\ known[c][p].was = "dir"}

\* Local-conflict names carry device and second; two are the same only
\* within one second, which is left out: a name nobody has used is taken.
FreeLocalCopies(p) ==
  {q \in LocalCopyName :
     /\ Parent[q] = Parent[p]
     /\ server.files[q] = NoEntry
     /\ \A v \in server.versions : v.path # q
     /\ \A c \in Device : files[c][q] = NoFile /\ known[c][q] = NoState}

StateOf(v) == [fileID |-> v.fileID, id |-> v.id, state |-> v.state,
               was |-> v.was, content |-> v.content]

KnownAs(c, p, state) == known[c][p] # NoState /\ known[c][p].state = state

\* Mutant: nothing local counts as a change of its own.
NeverDivergent(c, p) == FALSE

\* Mutant: a file the state does not know is not protected.
DivergesFromKnown(c, p) ==
  /\ KnownAs(c, p, "file")
  /\ files[c][p] # NoFile
  /\ files[c][p] # known[c][p].content

\* hasLocalDivergence.  An edit that keeps size and modification second of
\* the known version is not noticed.
HasDivergence(c, p) ==
  IF KnownAs(c, p, "dir") THEN files[c][p] \in Content
  ELSE IF ~KnownAs(c, p, "file") THEN files[c][p] # NoFile
  ELSE /\ files[c][p] # NoFile
       /\ files[c][p] # known[c][p].content
       /\ p \notin touched[c]

\* Mutant: a file the state knows is taken for unchanged.
ToUploadUnknown(c, fs) ==
  {p \in Path : \/ fs[p] = DirNode /\ ~KnownAs(c, p, "dir")
                \/ fs[p] \in Content /\ ~KnownAs(c, p, "file")}

\* pushLocal: what the scan has and the state does not, and the reverse.
\* The scan compares hashes, not times.
ToUpload(c, fs) ==
  {p \in Path : \/ fs[p] = DirNode /\ ~KnownAs(c, p, "dir")
                \/ /\ fs[p] \in Content
                   /\ ~(KnownAs(c, p, "file") /\ known[c][p].content = fs[p])}

\* Mutant: what the state knows as deleted is deleted again.
ToDeleteAgain(c, fs) == {p \in Path : fs[p] = NoFile /\ known[c][p] # NoState}

ToDelete(c, fs) ==
  {p \in Path : fs[p] = NoFile /\ (KnownAs(c, p, "file") \/ KnownAs(c, p, "dir"))}

-----------------------------------------------------------------------------
(* The user at device c. *)

MayEdit(c) == edits < MaxEdits /\ at[c] \in UserActsAt

Used == {v.content : v \in server.versions}
        \cup UNION {{files[c][p] : p \in Path} : c \in Device}
        \cup UNION {{scan[c][p] : p \in Path} : c \in Device}

Edit(c, p, fs, same) ==
  /\ LET changed == {q \in Path : fs[q] # files[c][q]}
     IN  wanted' = ((wanted \ {files[c][q] : q \in changed})
                    \cup {fs[q] : q \in changed}) \cap Content
  /\ files' = [files EXCEPT ![c] = fs]
  /\ touched' = [touched EXCEPT ![c] = IF same THEN @ \cup {p} ELSE @ \ {p}]
  /\ edits' = edits + 1
  /\ UNCHANGED <<store, known, seen, round, aborts, restores, prunes>>

\* Every edit writes content not seen before.
WriteFile(c, p, x) ==
  /\ MayEdit(c)
  /\ "file" \in KindsAt[p]
  /\ x \in Content \ Used
  /\ files[c][p] # DirNode
  /\ Parent[p] # NoPath => files[c][Parent[p]] = DirNode
  /\ \E same \in {FALSE} \cup (IF CoarseClock /\ files[c][p] \in Content THEN {TRUE} ELSE {}) :
       Edit(c, p, [files[c] EXCEPT ![p] = x], same)

MakeDir(c, p) ==
  /\ MayEdit(c)
  /\ "dir" \in KindsAt[p]
  /\ files[c][p] = NoFile
  /\ Parent[p] # NoPath => files[c][Parent[p]] = DirNode
  /\ Edit(c, p, [files[c] EXCEPT ![p] = DirNode], FALSE)

\* A directory goes with everything in it.
RemovePath(c, p) ==
  /\ MayEdit(c)
  /\ KindsAt[p] # {}
  /\ files[c][p] # NoFile
  /\ Edit(c, p, [q \in Path |-> IF q = p \/ Parent[q] = p THEN NoFile ELSE files[c][q]], FALSE)

-----------------------------------------------------------------------------
(* The rounds of device c: pullRemote. *)

Go(c, place) == at' = [at EXCEPT ![c] = place]

\* A round ends, or is cut short: what it had fetched, scanned and been
\* answered is gone; the directory and the state file stay.
EndRound(c) ==
  /\ Go(c, "idle")
  /\ pass' = [pass EXCEPT ![c] = 1]
  /\ queue' = [queue EXCEPT ![c] = <<>>]
  /\ scan' = [scan EXCEPT ![c] = Nothing]
  /\ todo' = [todo EXCEPT ![c] = {}]
  /\ reply' = [reply EXCEPT ![c] = NoWork]

Fetch(c) == queue' = [queue EXCEPT ![c] = EventsAfter(server, seen[c])]

BeginRound(c) ==
  /\ at[c] = "idle"
  /\ Go(c, "pull")
  /\ Fetch(c)
  /\ UNCHANGED <<store, local, pass, scan, todo, reply, bounds, wanted>>

Current(c) == Head(queue[c])
Target(c) == Current(c).version

\* Mutant: the newest event of the answer is marked, not the one applied.
MarkNewest(c) ==
  /\ seen' = [seen EXCEPT ![c] = queue[c][Len(queue[c])].seq]
  /\ queue' = [queue EXCEPT ![c] = <<>>]

\* state.SetLastEventSeq, which only ever raises it.
MarkSeen(c) ==
  /\ seen' = [seen EXCEPT ![c] = IF Current(c).seq > @ THEN Current(c).seq ELSE @]
  /\ queue' = [queue EXCEPT ![c] = Tail(@)]

\* The device's own events are not applied, nor is a version the state has.
SkipEvent(c) ==
  /\ at[c] = "pull"
  /\ queue[c] # <<>>
  /\ \/ Target(c).device = c
     \/ known[c][Target(c).path] # NoState /\ known[c][Target(c).path].id = Target(c).id
  /\ MarkSeen(c)
  /\ UNCHANGED <<store, files, known, touched, at, pass, scan, todo, reply, bounds, wanted>>

IsForeign(c) ==
  /\ Target(c).device # c
  /\ known[c][Target(c).path] # NoState => known[c][Target(c).path].id # Target(c).id

\* tombstoneEntryState: what the tombstone says it was, or what the state knows.
WasDir(c, v) ==
  IF v.was # "none" THEN v.was = "dir" ELSE KnownAs(c, v.path, "dir")

IsDirEvent(c, v) == v.state = "dir" \/ (v.state = "deleted" /\ WasDir(c, v))

\* applyVersion looks at the local file; one with changes of its own is
\* renamed to a local-conflict name, and then a deletion has nothing left to do.
Examine(c) ==
  LET v == Target(c)
      diverged == ~IsDirEvent(c, v) /\ HasDivergence(c, v.path)
  IN  /\ at[c] = "pull"
      /\ queue[c] # <<>>
      /\ IsForeign(c)
      /\ \/ /\ diverged
            /\ \E q \in FreeLocalCopies(v.path) :
                 files' = [files EXCEPT ![c] = Rename(@, v.path, q)]
            /\ Go(c, IF v.state = "deleted" THEN "settle" ELSE "land")
         \/ /\ ~diverged
            /\ UNCHANGED files
            /\ Go(c, "land")
      /\ UNCHANGED <<store, known, seen, touched, pass, queue, scan, todo, reply, bounds, wanted>>

\* What applying v to the directory of c leaves: a rename of the download
\* onto a directory fails, as does os.MkdirAll over a file and, outside
\* removeDirIfEmpty, os.Remove of a directory with something in it.
CanLand(c, v) ==
  LET here == files[c][v.path]
  IN  CASE v.state = "file" -> CanMakeParent(files[c], v.path) /\ here # DirNode
        [] v.state = "dir"  -> CanMakeParent(files[c], v.path) /\ here \in {NoFile, DirNode}
        [] v.state = "deleted" ->
             WasDir(c, v) \/ here # DirNode \/ IsEmptyDir(files[c], v.path)

Landed(fs, v) ==
  CASE v.state = "file"    -> [MakeParent(fs, v.path) EXCEPT ![v.path] = v.content]
    [] v.state = "dir"     -> [MakeParent(fs, v.path) EXCEPT ![v.path] = DirNode]
    [] v.state = "deleted" -> RemoveIfEmpty(fs, v.path)

Land(c) ==
  /\ at[c] = "land"
  /\ CanLand(c, Target(c))
  /\ files' = [files EXCEPT ![c] = Landed(@, Target(c))]
  /\ Go(c, "settle")
  /\ UNCHANGED <<store, known, seen, touched, pass, queue, scan, todo, reply, bounds, wanted>>

\* The error ends the round before the event is marked as seen.
FailToLand(c) ==
  /\ at[c] = "land"
  /\ ~CanLand(c, Target(c))
  /\ EndRound(c)
  /\ UNCHANGED <<store, local, bounds, wanted>>

SetKnown(c, p, entry) ==
  /\ known' = [known EXCEPT ![c][p] = entry]
  /\ touched' = [touched EXCEPT ![c] = @ \ {p}]

Settle(c) ==
  /\ at[c] = "settle"
  /\ SetKnown(c, Target(c).path, StateOf(Target(c)))
  /\ MarkSeen(c)
  /\ Go(c, "pull")
  /\ UNCHANGED <<store, files, pass, scan, todo, reply, bounds, wanted>>

EndPull(c) ==
  /\ at[c] = "pull"
  /\ queue[c] = <<>>
  /\ files' = [files EXCEPT ![c] = CleanDirs(@, DeletedDirs(c))]
  /\ IF pass[c] = 1 THEN Go(c, "scan") /\ UNCHANGED <<pass, queue, scan, todo, reply>>
                    ELSE EndRound(c)
  /\ UNCHANGED <<store, known, seen, touched, bounds, wanted>>

-----------------------------------------------------------------------------
(* pushLocal. *)

ScanLocal(c) ==
  /\ at[c] = "scan"
  /\ scan' = [scan EXCEPT ![c] = files[c]]
  /\ todo' = [todo EXCEPT ![c] = ToUpload(c, files[c])]
  /\ Go(c, "push")
  /\ UNCHANGED <<store, local, pass, queue, reply, bounds, wanted>>

FieldOf(c, p, field) == IF known[c][p] = NoState THEN NoId ELSE known[c][p][field]

RequestFor(c, p, kind) ==
  [kind |-> kind, op |-> NoOp, device |-> c, path |-> p,
   fileID |-> FieldOf(c, p, "fileID"), base |-> FieldOf(c, p, "id"),
   content |-> IF kind = "file" THEN scan[c][p] ELSE NoContent]

\* The chunks can be had: the file is as scanned, or the server has them.
HasChunks(c, p) ==
  scan[c][p] = DirNode \/ scan[c][p] \in {files[c][p]} \cup {v.content : v \in server.versions}

Answered(c, p, kind, r) ==
  /\ reply' = [reply EXCEPT ![c] = [path |-> p, kind |-> kind, reply |-> r]]
  /\ todo' = [todo EXCEPT ![c] = @ \ {p}]
  /\ Go(c, "answer")
  /\ UNCHANGED <<pass, queue, scan>>

\* One request to the server and its answer; an error ends the round.
SendUpload(c, p) ==
  LET r == RequestFor(c, p, IF scan[c][p] = DirNode THEN "dir" ELSE "file")
  IN  \E m \in EnsureParent(server, r, fresh) :
      \E done \in CommitEntry(m, r, fresh + 1) :
        /\ server' = done.meta
        /\ fresh' = IF done.meta = server THEN fresh ELSE fresh + 2
        /\ IF done.ok THEN Answered(c, p, "push", done.reply) ELSE EndRound(c)

\* The uploads come in the order of a Go map: any.
Upload(c, p) ==
  /\ at[c] = "push"
  /\ p \in todo[c]
  /\ IF HasChunks(c, p) THEN SendUpload(c, p) ELSE EndRound(c) /\ UNCHANGED store
  /\ UNCHANGED <<local, bounds, wanted>>

\* uploadFile, uploadDir after the reply: a file that became a conflict
\* copy is renamed like it, and its old name forgotten.
RecordUpload(c) ==
  LET p == reply[c].path
      v == reply[c].reply.version
      renamed == v.path # p /\ scan[c][p] # DirNode
  IN  /\ at[c] = "answer"
      /\ reply[c].kind = "push"
      /\ IF renamed /\ files[c][p] = NoFile
           THEN EndRound(c) /\ UNCHANGED local
           ELSE /\ files' = [files EXCEPT ![c] = IF renamed THEN Rename(@, p, v.path) ELSE @]
                /\ known' = [known EXCEPT
                     ![c] = [q \in Path |-> IF q = v.path THEN StateOf(v)
                                            ELSE IF renamed /\ q = p THEN NoState
                                            ELSE known[c][q]]]
                /\ touched' = [touched EXCEPT ![c] = @ \ {p, v.path}]
                /\ Go(c, "push")
                /\ reply' = [reply EXCEPT ![c] = NoWork]
                /\ UNCHANGED <<seen, pass, queue, scan, todo>>
      /\ UNCHANGED <<store, bounds, wanted>>

\* The second loop works on a snapshot of the state after the uploads.
EndUploads(c) ==
  /\ at[c] = "push"
  /\ todo[c] = {}
  /\ todo' = [todo EXCEPT ![c] = ToDelete(c, scan[c])]
  /\ Go(c, "drop")
  /\ UNCHANGED <<store, local, pass, queue, scan, reply, bounds, wanted>>

DeleteRemote(c, p) ==
  /\ at[c] = "drop"
  /\ p \in todo[c]
  /\ LET done == DeleteEntry(server, RequestFor(c, p, "delete"), fresh)
     IN  /\ server' = done.meta
         /\ fresh' = IF done.meta = server THEN fresh ELSE fresh + 1
         /\ IF done.ok THEN Answered(c, p, "drop", done.reply) ELSE EndRound(c)
  /\ UNCHANGED <<local, bounds, wanted>>

RecordDelete(c) ==
  LET p == reply[c].path
  IN  /\ at[c] = "answer"
      /\ reply[c].kind = "drop"
      /\ IF reply[c].reply.status = "ok"
           THEN SetKnown(c, p, [fileID |-> known[c][p].fileID,
                  id |-> reply[c].reply.version.id, state |-> "deleted",
                  was |-> known[c][p].state, content |-> NoContent])
           ELSE UNCHANGED <<known, touched>>
      /\ Go(c, "drop")
      /\ reply' = [reply EXCEPT ![c] = NoWork]
      /\ UNCHANGED <<store, files, seen, pass, queue, scan, todo, bounds, wanted>>

EndPush(c) ==
  /\ at[c] = "drop"
  /\ todo[c] = {}
  /\ Go(c, "pull")
  /\ pass' = [pass EXCEPT ![c] = 2]
  /\ scan' = [scan EXCEPT ![c] = Nothing]
  /\ Fetch(c)
  /\ UNCHANGED <<store, local, todo, reply, bounds, wanted>>

-----------------------------------------------------------------------------
(* Faults, and the owner's trash. *)

\* The client process dies, or a request fails for good; if the server had
\* handled it, its answer is lost.
Abort(c) ==
  /\ at[c] # "idle"
  /\ aborts < MaxAborts
  /\ aborts' = aborts + 1
  /\ EndRound(c)
  /\ UNCHANGED <<store, local, edits, restores, prunes, wanted>>

RestoreTrash(p) ==
  /\ restores < MaxRestores
  /\ IsTombstone(server.files[p])
  /\ Restorable(server, p) # NoContent
  /\ server' = Install(server, Restored(server, p, fresh))
  /\ fresh' = fresh + 1
  /\ restores' = restores + 1
  /\ UNCHANGED <<local, round, edits, aborts, prunes, wanted>>

\* The last event a device has fetched.
Fetched(c) == IF queue[c] = <<>> THEN seen[c] ELSE queue[c][Len(queue[c])].seq

\* What was deleted up to version k is ten days old, which is longer than any
\* round: whoever is in the middle of one has fetched it.
PruneTrash(k) ==
  /\ prunes < MaxPrunes
  /\ Prune(server, k) # server
  /\ \A c \in Device, i \in DOMAIN server.events :
       LET e == server.events[i]
       IN  at[c] # "idle" /\ Fetched(c) < e.seq => k < e.version.id
  /\ server' = Prune(server, k)
  /\ prunes' = prunes + 1
  /\ UNCHANGED <<fresh, local, round, edits, aborts, restores, wanted>>

User(c) == \E p \in Path : RemovePath(c, p) \/ MakeDir(c, p) \/ \E x \in Content : WriteFile(c, p, x)

Engine(c) ==
  \/ BeginRound(c) \/ SkipEvent(c) \/ Examine(c) \/ Land(c) \/ FailToLand(c)
  \/ Settle(c) \/ EndPull(c)
  \/ ScanLocal(c) \/ RecordUpload(c) \/ EndUploads(c)
  \/ RecordDelete(c) \/ EndPush(c)
  \/ \E p \in Path : Upload(c, p) \/ DeleteRemote(c, p)

Next ==
  \/ \E c \in Device : User(c) \/ Engine(c) \/ Abort(c)
  \/ \E p \in Path : RestoreTrash(p)
  \/ \E k \in 0..fresh : PruneTrash(k)

Spec == Init /\ [][Next]_vars

\* The interval timer and the watcher start round after round, and a
\* started round keeps going (runInterval, runRealtime).
FairSpec == Spec /\ \A c \in Device : WF_vars(Engine(c))

-----------------------------------------------------------------------------
(* Properties. *)

\* What the server holds at p, as a directory would show it.
ServerNode(p) ==
  IF ~IsLive(server.files[p]) THEN NoFile
  ELSE IF IsLiveDir(server.files[p]) THEN DirNode
  ELSE server.files[p].current.content

\* The device is between rounds, has seen every event and has nothing to
\* push: another round would change nothing.
Settled(c) ==
  /\ at[c] = "idle"
  /\ seen[c] = server.lastSeq
  /\ ToUpload(c, files[c]) = {}
  /\ ToDelete(c, files[c]) = {}
  /\ CleanDirs(files[c], DeletedDirs(c)) = files[c]

\* A settled device mirrors the server, so two settled devices hold the
\* same files (docs/中文详细文档.md:10).
SettledMirrorsServer ==
  \A c \in Device : Settled(c) => \A p \in Path : files[c][p] = ServerNode(p)

\* What a user wrote and no user has replaced or removed since is still
\* somewhere: in a directory or in the server's history
\* (docs/中文详细文档.md:64: unsynchronised changes are not overwritten).
Kept ==
  {x \in wanted : \/ \E c \in Device, q \in Path : files[c][q] = x
                  \/ \E v \in server.versions : v.content = x}
EditsAreKept == Kept = wanted

\* No step but the handling of a directory's tombstone loses an edit: not
\* the landing of a file, not a rename to a conflict name, not a round cut
\* short, not a restore or the expiry of the trash.
OnlyDirTombstonesLoseEdits ==
  [][ (/\ ~\E c \in Device : EndPull(c)
       /\ ~\E c \in Device : Land(c) /\ IsDirEvent(c, Target(c)))
      => Kept \cap wanted' \subseteq Kept' ]_vars

\* An engine asks the server to delete only what its user's directory lacks.
DeletesOnlyAbsent ==
  [][\A c \in Device, q \in Path : DeleteRemote(c, q) => files[c][q] = NoFile]_vars

\* When the users stop, every device comes to hold what the server holds
\* and stays so.
Converges ==
  <>[](\A c \in Device, q \in Path : files[c][q] = ServerNode(q))
=============================================================================
