------------------------------ MODULE StoreOps ------------------------------
(***************************************************************************)
(* The metadata of one sync space as the server keeps it                   *)
(* (internal/server/store.go), and what each store call that runs under    *)
(* s.mu computes from it.  These are operators without variables: Store    *)
(* turns them into the server's state machine, Sync composes them with the *)
(* clients.                                                                *)
(*                                                                         *)
(* A metadata value m is a record                                          *)
(*   files       Path -> entry or NoEntry          (state.Files)           *)
(*   versions    every version ever kept           (state.Versions)        *)
(*   events      the retained tail of the event log (state.Events)         *)
(*   lastSeq     the last event number given out    (state.LastEventSeq)   *)
(*   operations  Op -> reply or NoReply            (state.Operations)      *)
(*                                                                         *)
(* Identifiers are natural numbers handed out in increasing order, 0 for   *)
(* the empty string; fileutil.NewID draws them at random, so one is never  *)
(* given twice, not even after a crash.  A version's number is therefore   *)
(* also its place in the append-only list the code keeps per file_id.      *)
(* Content stands for the size, hash and chunk list of a file.             *)
(***************************************************************************)
EXTENDS Naturals, Sequences, FiniteSets

CONSTANTS
  Device,      \* the client devices (DeviceID and RootPath together)
  Admin,       \* the device name RestoreTrash writes ("admin-...", "cloud-trash")
  Path,        \* relative paths after fileutil.CleanRel
  Parent,      \* Path -> the directory a path lies in, or NoPath at the top
  CopyName,    \* the paths that have the form of a conflict copy's name
  Content,     \* file contents
  Op,          \* operation ids
  MaxEvents,   \* const maxEvents: how many events the log retains
  NoPath, NoContent, NoEntry, NoVersion, NoReply, NoOp

NoId == 0

\* Paths have at most two components (the loop over the ancestors in
\* ensureParentDirsLocked runs at most once).
ASSUME PathAssumption ==
  /\ NoPath \notin Path
  /\ Parent \in [Path -> Path \cup {NoPath}]
  /\ \A p \in Path : Parent[p] # NoPath => Parent[Parent[p]] = NoPath
  /\ CopyName \subseteq Path

ASSUME LimitAssumption == MaxEvents \in Nat \ {0}

ASSUME DistinctAssumption == NoOp \notin Op /\ Admin \notin Device

-----------------------------------------------------------------------------
(* The shape of the data. *)

Version ==
  [path : Path, fileID : Nat, id : Nat, base : Nat,
   state : {"file", "dir", "deleted"}, was : {"none", "file", "dir"},
   content : Content \cup {NoContent}, device : Device \cup {Admin},
   op : Op \cup {NoOp}]

Entry == [fileID : Nat, current : Version \cup {NoVersion}]

Event == [seq : Nat, version : Version]

Reply == [status : {"ok", "conflict"}, version : Version \cup {NoVersion},
          conflict : BOOLEAN]

Metadata ==
  [files : [Path -> Entry \cup {NoEntry}], versions : SUBSET Version,
   events : Seq(Event), lastSeq : Nat, operations : [Op -> Reply \cup {NoReply}]]

\* "file" and "dir" commit a manifest of that state, "delete" a tombstone.
Request ==
  [kind : {"file", "dir", "delete"}, op : Op \cup {NoOp}, device : Device,
   path : Path, fileID : Nat, base : Nat, content : Content \cup {NoContent}]

\* A null entry has no current version; the no-entry and null tests come first.
ASSUME NullAssumption ==
  /\ NoVersion \notin Version
  /\ NoEntry \notin Entry
  /\ NoReply \notin Reply
  /\ NoContent \notin Content

NewMetadata ==
  [files |-> [p \in Path |-> NoEntry], versions |-> {}, events |-> <<>>,
   lastSeq |-> 0, operations |-> [o \in Op |-> NoReply]]

-----------------------------------------------------------------------------
(* Entries. *)

HasVersion(entry) == entry # NoEntry /\ entry.current # NoVersion

\* !entry.Deleted && entry.Current.State == EntryDir.  Every assignment to
\* Deleted goes with one to Current and agrees with its state.
IsLiveDir(entry) == HasVersion(entry) /\ entry.current.state = "dir"

IsLive(entry) == HasVersion(entry) /\ entry.current.state # "deleted"

IsTombstone(entry) == HasVersion(entry) /\ entry.current.state = "deleted"

\* The entry a commit works on: the one there, or a new one with no version.
Opened(m, p, n) ==
  IF m.files[p] = NoEntry THEN [fileID |-> n, current |-> NoVersion]
                          ELSE m.files[p]

\* Mutant: a conflict copy takes the first name without looking whether an
\* entry has it.
AnyCopies(m, p) == {c \in CopyName : Parent[c] = Parent[p] /\ c # p}

\* Names nextConflictPathLocked can return for a copy of p: they lie in the
\* directory of p, and no entry has them.  A name carries the second it was
\* made in, so an expired one does not return.
FreeCopies(m, p) ==
  {c \in CopyName : /\ Parent[c] = Parent[p]
                    /\ m.files[c] = NoEntry
                    /\ \A v \in m.versions : v.path # c}

-----------------------------------------------------------------------------
(* The event log and the installation of a version. *)

\* Mutant: the slice starts one too early.
LastOfPlusOne(log, k) ==
  IF Len(log) > k THEN SubSeq(log, Len(log) - k, Len(log)) ELSE log

LastOf(log, k) == IF Len(log) > k THEN SubSeq(log, Len(log) - k + 1, Len(log))
                                  ELSE log

AppendEvent(m, v) ==
  [m EXCEPT !.lastSeq = @ + 1,
            !.events = LastOf(Append(@, [seq |-> m.lastSeq + 1, version |-> v]),
                              MaxEvents)]

\* entry.Current = &version, Versions = append(...), appendEventLocked.
Install(m, v) ==
  AppendEvent([m EXCEPT !.files[v.path] = [fileID |-> v.fileID, current |-> v],
                        !.versions = @ \cup {v}], v)

NewVersion(r, path, fileID, n) ==
  [path |-> path, fileID |-> fileID, id |-> n, base |-> r.base,
   state |-> r.kind, was |-> "none", content |-> r.content,
   device |-> r.device, op |-> r.op]

\* A tombstone keeps the content of a file, not of a directory.
Tombstone(r, entry, n) ==
  LET previous == entry.current
  IN  [path |-> r.path, fileID |-> entry.fileID, id |-> n, base |-> r.base,
       state |-> "deleted",
       was |-> IF previous = NoVersion THEN "none" ELSE previous.state,
       content |-> IF previous = NoVersion THEN NoContent ELSE previous.content,
       device |-> r.device, op |-> r.op]

-----------------------------------------------------------------------------
(* The calls.  A result is the metadata left in memory, whether the call   *)
(* returned an error, and what it returned otherwise.                      *)

Rejected(m) == [meta |-> m, ok |-> FALSE, reply |-> NoReply]

Accepted(m, status, v, conflict) ==
  [meta |-> m, ok |-> TRUE,
   reply |-> [status |-> status, version |-> v, conflict |-> conflict]]

\* Mutant: the base version is not compared with the current one.
CommitBlindly(m, r, n) ==
  LET entry == Opened(m, r.path, n)
      next  == NewVersion(r, r.path, entry.fileID, n)
  IN  IF r.fileID \notin {NoId, entry.fileID}
        THEN {Rejected([m EXCEPT !.files[r.path] = entry])}
        ELSE {Accepted(Install(m, next), "ok", next, FALSE)}

\* commitEntryLocked: the entry is created before the file_id is compared;
\* n is the fresh identifier of the version and of a new file_id.
\* The set has one member per name the conflict copy can get.
CommitEntry(m, r, n) ==
  LET entry  == Opened(m, r.path, n)
      opened == [m EXCEPT !.files[r.path] = entry]
      copy(c) == NewVersion(r, c, n, n)
      next   == NewVersion(r, r.path, entry.fileID, n)
  IN  CASE r.fileID \notin {NoId, entry.fileID} -> {Rejected(opened)}
        [] r.fileID \in {NoId, entry.fileID} ->
             IF r.kind = "dir" /\ IsLiveDir(entry)
               THEN {Accepted(opened, "ok", entry.current, FALSE)}
             ELSE IF HasVersion(entry) /\ r.base # entry.current.id
               THEN {Accepted(Install(opened, copy(c)), "ok", copy(c), TRUE) :
                       c \in FreeCopies(opened, r.path)}
             ELSE {Accepted(Install(opened, next), "ok", next, FALSE)}

\* ensureParentDirsLocked: the parent directory is committed, without base
\* and without file_id, unless the entry there is a live directory.
EnsureParent(m, r, n) ==
  LET dir == Parent[r.path]
      mkdir == [kind |-> "dir", op |-> NoOp, device |-> r.device, path |-> dir,
                fileID |-> NoId, base |-> NoId, content |-> NoContent]
  IN  IF dir = NoPath \/ IsLiveDir(m.files[dir])
        THEN {m}
        ELSE {done.meta : done \in CommitEntry(m, mkdir, n)}

\* The part of Delete after the lookup in Operations.
DeleteEntry(m, r, n) ==
  LET entry == m.files[r.path]
  IN  CASE entry = NoEntry -> Rejected(m)
        [] entry # NoEntry /\ r.fileID \notin {NoId, entry.fileID} -> Rejected(m)
        [] entry # NoEntry /\ r.fileID \in {NoId, entry.fileID} ->
             IF HasVersion(entry) /\ r.base # entry.current.id
               THEN Accepted(m, "conflict", NoVersion, TRUE)
             ELSE IF IsTombstone(entry)
               THEN Accepted(m, "ok", entry.current, FALSE)
             ELSE Accepted(Install(m, Tombstone(r, entry, n)), "ok",
                           Tombstone(r, entry, n), FALSE)

\* Mutant: everything old goes, deleted or not.
PruneOld(m, k) ==
  [m EXCEPT !.files = [p \in Path |->
     IF HasVersion(m.files[p]) /\ m.files[p].current.id <= k THEN NoEntry
                                                             ELSE m.files[p]]]

\* pruneTrashLocked: tombstones made up to version k are past their ten days.
\* The entry goes; its versions and events stay.
Prune(m, k) ==
  [m EXCEPT !.files = [p \in Path |->
     IF IsTombstone(m.files[p]) /\ m.files[p].current.id <= k THEN NoEntry
                                                              ELSE m.files[p]]]

\* Mutant: the search for the version to restore runs forwards.
Earliest(S) == CHOOSE v \in S : \A w \in S : v.id <= w.id

\* RestoreTrash: the content of the file's last "file" version comes back,
\* or the tombstone's own if there is none.
Latest(S) == CHOOSE v \in S : \A w \in S : w.id <= v.id

Restorable(m, p) ==
  LET kept == {v \in m.versions : v.fileID = m.files[p].fileID /\ v.state = "file"}
  IN  IF kept # {} THEN Latest(kept).content ELSE m.files[p].current.content

\* Mutant: the restored version does not name the tombstone as its base.
RestoredBaseless(m, p, n) ==
  [path |-> p, fileID |-> m.files[p].fileID, id |-> n, base |-> NoId,
   state |-> "file", was |-> "none", content |-> Restorable(m, p),
   device |-> Admin, op |-> NoOp]

Restored(m, p, n) ==
  [path |-> p, fileID |-> m.files[p].fileID, id |-> n,
   base |-> m.files[p].current.id, state |-> "file", was |-> "none",
   content |-> Restorable(m, p), device |-> Admin, op |-> NoOp]

\* Mutant: the outcome of an operation is not remembered.
RecordNothing(m, o, reply) == m

Record(m, o, reply) == [m EXCEPT !.operations[o] = reply]

\* Mutant: the event after the last one seen is left out.
EventsPast(m, after) == SelectSeq(m.events, LAMBDA e : e.seq > after + 1)

\* EventsAfter: the loop over the log.
EventsAfter(m, after) ==
  LET upTo[i \in 0..Len(m.events)] ==
        IF i = 0 THEN <<>>
        ELSE IF m.events[i].seq > after THEN Append(upTo[i - 1], m.events[i])
        ELSE upTo[i - 1]
  IN  upTo[Len(m.events)]
=============================================================================
