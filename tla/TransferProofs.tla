--------------------------- MODULE TransferProofs ---------------------------
(***************************************************************************)
(* Theorems about the engine (Sync) and the transfers (Transfer), for any  *)
(* number of devices, paths, chunks, faults and crashes.                   *)
(*                                                                         *)
(* Downloads.  A version names only chunks that were there when it was     *)
(* committed; no step takes a chunk file away, and the account's chunks go *)
(* back only together with the versions, to what one save wrote.           *)
(*                                                                         *)
(* Files.  Which nodes may be at which path is the parameter N of the      *)
(* second invariant, what a scan may have read of the file there is its    *)
(* parameter M.  Every step keeps it for all N and M that are closed under *)
(* what users and engines write; the theorems choose them.                 *)
(*                                                                         *)
(* Edits.  What an engine works with - the events it fetched, the contents *)
(* its state file knows, the answer it was given - comes from the server's *)
(* history, and the history only grows: a file that is replaced or removed *)
(* without having been set aside is one the history has.                   *)
(*                                                                         *)
(* Mirrors.  What a device knows of every path is the server's newest      *)
(* version there, or its event is still to come: fetched, next in order,   *)
(* and not sent by the device itself, whose answers tell it of its own.    *)
(* A device that has settled has no event to come.                         *)
(*                                                                         *)
(* Mixtures.  A text nobody wrote, read from a file that changed, is known *)
(* for what it is wherever it was downloaded and not pushed from there;    *)
(* and where it was read there is a text again, until another device has   *)
(* committed something newer.                                              *)
(***************************************************************************)
EXTENDS Transfer, StoreOpsProofs

-----------------------------------------------------------------------------
(* The invariant. *)

IsMeta(m) == DOMAIN m = {"files", "versions", "events", "lastSeq", "operations"}
IsJob(j)  == DOMAIN j = {"part", "unread", "path", "missing", "sent", "chunk"}

\* Every chunk a version of m names is granted, and every granted one is there.
Complete(m, g) ==
  /\ IsMeta(m)
  /\ g \subseteq stored
  /\ \A v \in m.versions : v.state = "file" => ChunksOf(v.content) \subseteq g

\* Places at which the engine sends the file it keeps in its job.
Sending == {"send", "grant", "commit"}

\* A device that is about to have a chunk granted has put its file.
InHand(c) ==
  /\ IsJob(job[c])
  /\ at[c] \in Sending => job[c].path \in Path
  /\ at[c] = "grant" => job[c].chunk \in stored

DInv ==
  /\ DOMAIN at = Device /\ DOMAIN job = Device
  /\ Complete(server, granted)
  /\ Complete(saved.meta, saved.granted)
  /\ \A c \in Device : InHand(c)

-----------------------------------------------------------------------------
(* What the server's calls add. *)

\* A version that is installed is the only one added.
LEMMA InstallAdds ==
  ASSUME NEW m, IsMeta(m), NEW v
  PROVE  IsMeta(Install(m, v)) /\ Install(m, v).versions = m.versions \cup {v}
BY DEF Install, AppendEvent, IsMeta

\* A commit adds at most one version, of the kind and content it was sent.
LEMMA CommitAdds ==
  ASSUME NEW m, IsMeta(m), NEW r, NEW n, NEW done \in CommitEntry(m, r, n)
  PROVE  /\ IsMeta(done.meta)
         /\ \A v \in done.meta.versions :
              v \in m.versions \/ (v.state = r.kind /\ v.content = r.content)
PROOF
  <1> DEFINE entry == Opened(m, r.path, n)
             opened == [m EXCEPT !.files[r.path] = entry]
             copy(c) == NewVersion(r, c, n, n)
             next == NewVersion(r, r.path, entry.fileID, n)
  <1>1. IsMeta(opened) /\ opened.versions = m.versions
    BY DEF IsMeta
  <1>2. \A p, f : LET v == NewVersion(r, p, f, n)
                  IN  v.state = r.kind /\ v.content = r.content
    BY DEF NewVersion
  <1>3. \/ done = Rejected(opened)
        \/ done = Accepted(opened, "ok", entry.current, FALSE)
        \/ \E c \in FreeCopies(opened, r.path) : done = Accepted(Install(opened, copy(c)), "ok", copy(c), TRUE)
        \/ done = Accepted(Install(opened, next), "ok", next, FALSE)
    <2> HIDE DEF entry, opened, copy, next
    <2>1. done \in CASE r.fileID \notin {NoId, entry.fileID} -> {Rejected(opened)}
                     [] r.fileID \in {NoId, entry.fileID} ->
                          IF r.kind = "dir" /\ IsLiveDir(entry)
                            THEN {Accepted(opened, "ok", entry.current, FALSE)}
                          ELSE IF HasVersion(entry) /\ r.base # entry.current.id
                            THEN {Accepted(Install(opened, copy(c)), "ok", copy(c), TRUE) :
                                    c \in FreeCopies(opened, r.path)}
                          ELSE {Accepted(Install(opened, next), "ok", next, FALSE)}
      BY DEF CommitEntry, entry, opened, copy, next
    <2> QED BY <2>1
  <1> HIDE DEF entry, opened
  <1>4. CASE done = Rejected(opened)
    BY <1>1, <1>4 DEF Rejected
  <1>5. CASE done = Accepted(opened, "ok", entry.current, FALSE)
    BY <1>1, <1>5 DEF Accepted
  <1>6. CASE \E c \in FreeCopies(opened, r.path) :
               done = Accepted(Install(opened, copy(c)), "ok", copy(c), TRUE)
    <2>1. PICK c \in FreeCopies(opened, r.path) :
            done = Accepted(Install(opened, copy(c)), "ok", copy(c), TRUE)
      BY <1>6
    <2>2. done.meta = Install(opened, copy(c))
      BY <2>1 DEF Accepted
    <2> HIDE DEF copy
    <2>3. IsMeta(done.meta) /\ done.meta.versions = m.versions \cup {copy(c)}
      BY <1>1, <2>2, InstallAdds
    <2> QED BY <1>2, <2>3 DEF copy
  <1>7. CASE done = Accepted(Install(opened, next), "ok", next, FALSE)
    <2>1. done.meta = Install(opened, next)
      BY <1>7 DEF Accepted
    <2> HIDE DEF next
    <2>2. IsMeta(done.meta) /\ done.meta.versions = m.versions \cup {next}
      BY <1>1, <2>1, InstallAdds
    <2> QED BY <1>2, <2>2 DEF next
  <1> QED BY <1>3, <1>4, <1>5, <1>6, <1>7

\* A delete adds a tombstone or nothing.
LEMMA DeleteAdds ==
  ASSUME NEW m, IsMeta(m), NEW r, NEW n
  PROVE  LET done == DeleteEntry(m, r, n)
         IN  /\ IsMeta(done.meta)
             /\ \A v \in done.meta.versions : v \in m.versions \/ v.state = "deleted"
PROOF
  <1> DEFINE entry == m.files[r.path]
             grave == Tombstone(r, entry, n)
             done == DeleteEntry(m, r, n)
  <1>1. done.meta \in {m, Install(m, grave)}
    <2> HIDE DEF entry, grave
    <2>1. done = CASE entry = NoEntry -> Rejected(m)
                   [] entry # NoEntry /\ r.fileID \notin {NoId, entry.fileID} -> Rejected(m)
                   [] entry # NoEntry /\ r.fileID \in {NoId, entry.fileID} ->
                        IF HasVersion(entry) /\ r.base # entry.current.id
                          THEN Accepted(m, "conflict", NoVersion, TRUE)
                        ELSE IF IsTombstone(entry)
                          THEN Accepted(m, "ok", entry.current, FALSE)
                        ELSE Accepted(Install(m, grave), "ok", grave, FALSE)
      BY DEF DeleteEntry, entry, grave
    <2> HIDE DEF done
    <2>2. \/ done = Rejected(m)
          \/ done = Accepted(m, "conflict", NoVersion, TRUE)
          \/ done = Accepted(m, "ok", entry.current, FALSE)
          \/ done = Accepted(Install(m, grave), "ok", grave, FALSE)
      BY <2>1
    <2> QED BY <2>2 DEF Rejected, Accepted
  <1>2. grave.state = "deleted"
    BY DEF Tombstone
  <1> HIDE DEF grave, done
  <1>3. IsMeta(Install(m, grave)) /\ Install(m, grave).versions = m.versions \cup {grave}
    BY InstallAdds
  <1> QED BY <1>1, <1>2, <1>3 DEF done

-----------------------------------------------------------------------------
(* The steps. *)

LEMMA InitHolds == TransferInit => DInv
PROOF
  <1> SUFFICES ASSUME TransferInit
               PROVE  DInv
    OBVIOUS
  <1>1. DOMAIN at = Device /\ DOMAIN job = Device
    BY DEF TransferInit, Init
  <1>2. Complete(server, granted) /\ Complete(saved.meta, saved.granted)
    BY DEF TransferInit, Init, NewMetadata, Complete, IsMeta
  <1>3. \A c \in Device : InHand(c)
    BY DEF TransferInit, Init, NoJob, InHand, IsJob, Sending
  <1> QED BY <1>1, <1>2, <1>3 DEF DInv

\* The part of DInv about devices, after a step of one of them: what it is
\* at and what it has in hand are enough.
LEMMA OthersKeep ==
  ASSUME DInv, NEW c \in Device, NEW place, NEW j,
         \/ at' = [at EXCEPT ![c] = place]
         \/ at' = at /\ at[c] = place,
         job' = [job EXCEPT ![c] = j],
         stored \subseteq stored',
         IsJob(j),
         place \in Sending => j.path \in Path,
         place = "grant" => j.chunk \in stored'
  PROVE  /\ DOMAIN at' = Device /\ DOMAIN job' = Device
         /\ \A d \in Device : InHand(d)'
PROOF
  <1>1. DOMAIN at' = Device /\ DOMAIN job' = Device
    BY DEF DInv
  <1>2. at'[c] = place /\ job'[c] = j
    BY DEF DInv
  <1>3. ASSUME NEW d \in Device, d # c
        PROVE  at'[d] = at[d] /\ job'[d] = job[d]
    BY <1>3 DEF DInv
  <1>4. ASSUME NEW d \in Device
        PROVE  InHand(d)'
    <2>1. CASE d = c
      BY <1>2, <2>1 DEF InHand, IsJob
    <2>2. CASE d # c
      BY <1>3, <2>2 DEF InHand, DInv, IsJob
    <2> QED BY <2>1, <2>2
  <1> QED BY <1>1, <1>4

\* The server and its disk stay as they are, or more chunk files come.
LEMMA CompleteStays ==
  ASSUME DInv, stored \subseteq stored', UNCHANGED <<server, granted, saved>>
  PROVE  Complete(server, granted)' /\ Complete(saved.meta, saved.granted)'
BY DEF DInv, Complete, IsMeta

LEMMA IdleKeeps ==
  ASSUME DInv, NEW c \in Device, NEW place, place \notin Sending, NEW j, IsJob(j),
         at' = [at EXCEPT ![c] = place] \/ (at' = at /\ at[c] = place),
         job' = [job EXCEPT ![c] = j],
         UNCHANGED <<server, stored, granted, saved>>
  PROVE  DInv'
PROOF
  <1>1. place # "grant"
    BY DEF Sending
  <1>2. /\ DOMAIN at' = Device /\ DOMAIN job' = Device
        /\ \A d \in Device : InHand(d)'
    BY <1>1, OthersKeep
  <1> QED BY <1>2, CompleteStays DEF DInv

\* The same for a step that leaves the jobs alone.
LEMMA WalkKeeps ==
  ASSUME DInv, NEW c \in Device, NEW place, place \notin Sending,
         at' = [at EXCEPT ![c] = place],
         UNCHANGED <<job, server, stored, granted, saved>>
  PROVE  DInv'
PROOF
  <1>1. \A d \in Device : at'[d] \in {at[d], place}
    BY DEF DInv
  <1>2. \A d \in Device : InHand(d)'
    BY <1>1 DEF DInv, InHand, IsJob, Sending
  <1>3. DOMAIN at' = Device
    BY DEF DInv
  <1> QED BY <1>2, <1>3, CompleteStays DEF DInv

\* A step that touches nothing the invariant speaks of.
LEMMA QuietKeeps ==
  ASSUME DInv, UNCHANGED <<at, job, server, stored, granted, saved>>
  PROVE  DInv'
PROOF
  <1>1. \A d \in Device : InHand(d)'
    BY DEF DInv, InHand, IsJob
  <1> QED BY <1>1, CompleteStays DEF DInv

LEMMA RestKeeps ==
  ASSUME DInv, NEW c \in Device, Rest(c), UNCHANGED <<server, stored, granted, saved>>
  PROVE  DInv'
PROOF
  <1>1. at' = [at EXCEPT ![c] = "idle"] /\ job' = [job EXCEPT ![c] = NoJob]
    BY DEF Rest, EndRound, Go, Doing
  <1>2. IsJob(NoJob) /\ "idle" \notin Sending
    BY DEF NoJob, IsJob, Sending
  <1> QED BY <1>1, <1>2, IdleKeeps

\* What Sync's engine does between transfers.
LEMMA SyncStepKeeps ==
  ASSUME DInv, NEW c \in Device, SyncStep(c) \/ LandTombstone(c)
  PROVE  DInv'
PROOF
  <1>1. UNCHANGED <<job, stored, granted, saved, server>>
    BY DEF SyncStep, LandTombstone, disks, store, BeginRound, SkipEvent, Examine, Settle,
           EndPull, RecordUpload, EndUploads, RecordDelete, EndPush, Land
  <1>2. \/ UNCHANGED at
        \/ \E place \in Places \ {"answer"} : at' = [at EXCEPT ![c] = place]
    <2>1. CASE SyncStep(c)
      <3>1. CASE BeginRound(c) \/ SkipEvent(c) \/ Settle(c) \/ EndUploads(c)
                 \/ RecordDelete(c) \/ EndPush(c)
        BY <3>1 DEF BeginRound, SkipEvent, Settle, EndUploads, RecordDelete, EndPush, Go, Places
      <3>2. CASE Examine(c)
        BY <3>2 DEF Examine, Go, Places
      <3>3. CASE EndPull(c) \/ RecordUpload(c)
        BY <3>3 DEF EndPull, RecordUpload, EndRound, Go, Places
      <3> QED BY <2>1, <3>1, <3>2, <3>3 DEF SyncStep
    <2>2. CASE LandTombstone(c)
      BY <2>2 DEF LandTombstone, Land, Go, Places
    <2> QED BY <2>1, <2>2
  <1>3. Places \cap Sending = {}
    BY DEF Places, Sending
  <1> QED BY <1>1, <1>2, <1>3, QuietKeeps, WalkKeeps

LEMMA JobsKnown ==
  ASSUME DInv, NEW c \in Device
  PROVE  /\ IsJob(job[c]) /\ IsJob(NoJob)
         /\ at[c] \in Sending => job[c].path \in Path
         /\ at[c] = "grant" => job[c].chunk \in stored
BY DEF DInv, InHand, IsJob, NoJob

\* Download, scan, and the question for missing chunks.
LEMMA ReadKeeps ==
  ASSUME DInv, NEW c \in Device,
         \/ FetchChunk(c) \/ Replace(c) \/ Verify(c)
         \/ ListDir(c) \/ ReadChunk(c) \/ EndScan(c) \/ RefuseManifest(c)
  PROVE  DInv'
PROOF
  <1>0. IsJob(job[c]) /\ IsJob(NoJob)
    BY JobsKnown
  <1>1. CASE FetchChunk(c)
    <2>1. UNCHANGED <<server, stored, granted, saved>>
      BY <1>1 DEF FetchChunk, store, disks
    <2>2. CASE Available(NextChunk(c))
      <3> DEFINE j == [job[c] EXCEPT !.part = Append(@, NextChunk(c))]
      <3>1. job' = [job EXCEPT ![c] = j] /\ at' = at
        BY <1>1, <2>2 DEF FetchChunk, Doing, round
      <3>2. IsJob(j)
        BY <1>0 DEF IsJob
      <3>3. at[c] = "land"
        BY <1>1 DEF FetchChunk
      <3> HIDE DEF j
      <3> QED BY <2>1, <3>1, <3>2, <3>3, IdleKeeps DEF Sending
    <2>3. CASE ~Available(NextChunk(c))
      BY <1>1, <2>1, <2>3, RestKeeps DEF FetchChunk
    <2> QED BY <2>2, <2>3
  <1>2. CASE Replace(c)
    <2>1. /\ at' = [at EXCEPT ![c] = "verify"] /\ job' = [job EXCEPT ![c] = NoJob]
          /\ UNCHANGED <<server, stored, granted, saved>>
      BY <1>2 DEF Replace, Go, Doing, store, disks
    <2> QED BY <1>0, <2>1, IdleKeeps DEF Sending
  <1>3. CASE Verify(c)
    <2>1. UNCHANGED <<server, stored, granted, saved>>
      BY <1>3 DEF Verify, store, disks
    <2>2. \/ at' = [at EXCEPT ![c] = "settle"] /\ UNCHANGED job
          \/ Rest(c)
      BY <1>3 DEF Verify, Go
    <2> QED BY <2>1, <2>2, WalkKeeps, RestKeeps DEF Sending
  <1>4. CASE ListDir(c)
    <2> DEFINE found == {p \in Path : files[c][p] # NoFile}
               j == [NoJob EXCEPT !.unread = {p \in found : files[c][p] # <<>>}]
    <2>1. /\ at' = [at EXCEPT ![c] = "read"] /\ job' = [job EXCEPT ![c] = j]
          /\ UNCHANGED <<server, stored, granted, saved>>
      BY <1>4 DEF ListDir, Go, Doing, store, disks
    <2>2. IsJob(j)
      BY <1>0 DEF IsJob
    <2> HIDE DEF j
    <2> QED BY <2>1, <2>2, IdleKeeps DEF Sending
  <1>5. CASE ReadChunk(c)
    <2> DEFINE j(rest) == [job[c] EXCEPT !.unread = rest]
    <2>1. PICK rest : job' = [job EXCEPT ![c] = j(rest)]
      BY <1>5 DEF ReadChunk, Doing
    <2>2. /\ at[c] = "read" /\ at' = at
          /\ UNCHANGED <<server, stored, granted, saved>>
      BY <1>5 DEF ReadChunk, store, disks
    <2>3. IsJob(j(rest))
      BY <1>0 DEF IsJob
    <2> HIDE DEF j
    <2> QED BY <2>1, <2>2, <2>3, IdleKeeps DEF Sending
  <1>6. CASE EndScan(c)
    <2>1. /\ at' = [at EXCEPT ![c] = "push"] /\ job' = [job EXCEPT ![c] = NoJob]
          /\ UNCHANGED <<server, stored, granted, saved>>
      BY <1>6 DEF EndScan, Go, Doing, store, disks
    <2> QED BY <1>0, <2>1, IdleKeeps DEF Sending
  <1>7. CASE RefuseManifest(c)
    <2>1. Rest(c) /\ UNCHANGED <<server, stored, granted, saved>>
      BY <1>7 DEF RefuseManifest, store, disks
    <2> QED BY <2>1, RestKeeps
  <1> QED BY <1>1, <1>2, <1>3, <1>4, <1>5, <1>6, <1>7

LEMMA CheckChunksKeeps ==
  ASSUME DInv, NEW c \in Device, NEW p \in Path, CheckChunks(c, p)
  PROVE  DInv'
PROOF
  <1> DEFINE missing == {k \in ChunksOf(scan[c][p]) : ~Available(k)}
             j == [NoJob EXCEPT !.path = p, !.missing = missing]
  <1>1. /\ job' = [job EXCEPT ![c] = j]
        /\ at' = [at EXCEPT ![c] = "commit"] \/ at' = [at EXCEPT ![c] = "send"]
    BY DEF CheckChunks, Doing, Go
  <1>2. UNCHANGED <<server, granted, saved>> /\ stored \subseteq stored'
    BY DEF CheckChunks, store, disks
  <1>3. IsJob(j) /\ j.path \in Path
    BY DEF NoJob, IsJob
  <1> HIDE DEF j
  <1>4. /\ DOMAIN at' = Device /\ DOMAIN job' = Device
        /\ \A d \in Device : InHand(d)'
    BY <1>1, <1>2, <1>3, OthersKeep
  <1> QED BY <1>2, <1>4, CompleteStays DEF DInv

\* A chunk file comes, and it is the one the engine goes on with.
LEMMA PutChunkKeeps ==
  ASSUME DInv, NEW c \in Device, PutChunk(c)
  PROVE  DInv'
PROOF
  <1> DEFINE next == job[c].sent + 1
             chunk == files[c][job[c].path][next]
             step == [job[c] EXCEPT !.sent = next]
             put  == [job[c] EXCEPT !.sent = next, !.chunk = chunk]
  <1>1. UNCHANGED <<server, granted, saved>>
    BY DEF PutChunk, store
  <1>2. at[c] = "send" /\ job[c].path \in Path /\ IsJob(job[c])
    BY JobsKnown DEF PutChunk, Sending
  <1>3. IsJob(step) /\ step.path = job[c].path
    BY <1>2 DEF IsJob
  <1>4. IsJob(put) /\ put.path = job[c].path /\ put.chunk = chunk
    BY <1>2 DEF IsJob
  <1>5. \/ /\ at' = [at EXCEPT ![c] = "commit"]
           /\ UNCHANGED <<job, stored>>
        \/ /\ stored' = stored \cup {chunk}
           /\ job' = [job EXCEPT ![c] = put]
           /\ at' = [at EXCEPT ![c] = "grant"]
        \/ /\ job' = [job EXCEPT ![c] = step]
           /\ UNCHANGED <<at, stored>>
    BY DEF PutChunk, Go, Doing
  <1> HIDE DEF step, put, chunk, next
  <1>6. /\ DOMAIN at' = Device /\ DOMAIN job' = Device
        /\ \A d \in Device : InHand(d)'
    <2>1. CASE at' = [at EXCEPT ![c] = "commit"] /\ UNCHANGED <<job, stored>>
      BY <1>2, <2>1 DEF DInv, InHand, IsJob, Sending
    <2>2. CASE stored' = stored \cup {chunk} /\ job' = [job EXCEPT ![c] = put]
               /\ at' = [at EXCEPT ![c] = "grant"]
      BY <1>2, <1>4, <2>2, OthersKeep
    <2>3. CASE job' = [job EXCEPT ![c] = step] /\ UNCHANGED <<at, stored>>
      <3>1. at' = at /\ at[c] = "send"
        BY <1>2, <2>3
      <3> QED BY <1>2, <1>3, <2>3, <3>1, OthersKeep
    <2> QED BY <1>5, <2>1, <2>2, <2>3
  <1>7. stored \subseteq stored'
    BY <1>5
  <1> QED BY <1>1, <1>6, <1>7, CompleteStays DEF DInv

\* Granted is what was put, and a save writes what is in memory.
LEMMA GrantChunkKeeps ==
  ASSUME DInv, NEW c \in Device, GrantChunk(c)
  PROVE  DInv'
PROOF
  <1>1. job[c].chunk \in stored /\ IsJob(job[c]) /\ IsJob(NoJob) /\ job[c].path \in Path
    BY JobsKnown DEF GrantChunk, Sending
  <1>2. server' = server /\ stored' = stored /\ granted' = granted \cup {job[c].chunk}
    BY DEF GrantChunk, store
  <1>3. Complete(server, granted)'
    BY <1>1, <1>2 DEF DInv, Complete, IsMeta
  <1>4. Complete(saved.meta, saved.granted)'
    <2>1. \/ saved' = [meta |-> server', granted |-> granted']
          \/ saved' = saved
      BY DEF GrantChunk, Save, InMemory, SaveFails
    <2> QED BY <1>2, <1>3, <2>1 DEF DInv, Complete, IsMeta
  <1>5. PICK place \in {"send", "idle"}, j \in {NoJob, [job[c] EXCEPT !.chunk = NoChunk]} :
          /\ at' = [at EXCEPT ![c] = place]
          /\ job' = [job EXCEPT ![c] = j]
          /\ place = "send" => j = [job[c] EXCEPT !.chunk = NoChunk]
    BY DEF GrantChunk, Rest, EndRound, Go, Doing
  <1>6. IsJob(j) /\ (place = "send" => j.path \in Path)
    BY <1>1, <1>5 DEF IsJob
  <1>7. place \in Sending => place = "send"
    BY DEF Sending
  <1>8. /\ DOMAIN at' = Device /\ DOMAIN job' = Device
        /\ \A d \in Device : InHand(d)'
    BY <1>2, <1>5, <1>6, <1>7, OthersKeep
  <1> QED BY <1>3, <1>4, <1>8 DEF DInv

\* A commit whose chunks can all be had leaves a server whose versions can
\* all be downloaded; memory and disk have granted the same or less.
LEMMA CommitLeaves ==
  ASSUME DInv, NEW c \in Device, at[c] = "commit",
         \A k \in ChunksOf(scan[c][job[c].path]) : Available(k),
         NEW m, IsMeta(m), m.versions = server.versions,
         NEW r, r.kind = "file" => r.content = scan[c][job[c].path],
         NEW n, NEW done \in CommitEntry(m, r, n),
         server' = done.meta, UNCHANGED <<stored, granted>>
  PROVE  Complete(server, granted)'
PROOF
  <1>1. /\ IsMeta(server')
        /\ \A v \in server'.versions :
             v \in server.versions \/ (v.state = r.kind /\ v.content = r.content)
    BY CommitAdds
  <1>2. ChunksOf(scan[c][job[c].path]) \subseteq granted
    BY DEF Available
  <1>3. Complete(server, granted)
    BY DEF DInv
  <1>4. ASSUME NEW v \in server'.versions, v.state = "file"
        PROVE  ChunksOf(v.content) \subseteq granted
    <2>1. CASE v \in server.versions
      BY <1>3, <1>4, <2>1 DEF Complete
    <2>2. CASE v.state = r.kind /\ v.content = r.content
      <3>1. v.content = scan[c][job[c].path]
        BY <1>4, <2>2
      <3> QED BY <1>2, <3>1
    <2> QED BY <1>1, <2>1, <2>2
  <1>5. IsMeta(server)'
    BY <1>1 DEF IsMeta
  <1>6. (\A v \in server.versions : v.state = "file" => ChunksOf(v.content) \subseteq granted)'
    BY <1>4 DEF ChunksOf
  <1> QED BY <1>3, <1>5, <1>6 DEF Complete

\* SendUpload leaves a complete server: a path at the top has no parent to make.
LEMMA SendUploadLeaves ==
  ASSUME DInv, NEW c \in Device, at[c] = "commit",
         \A k \in ChunksOf(scan[c][job[c].path]) : Available(k),
         SendUpload(c, job[c].path), UNCHANGED <<stored, granted>>
  PROVE  Complete(server, granted)'
PROOF
  <1> DEFINE p == job[c].path
             r == RequestFor(c, p, IF scan[c][p] = DirNode THEN "dir" ELSE "file")
  <1>1. p \in Path
    BY JobsKnown DEF Sending
  <1>2. r.path = p /\ (r.kind = "file" => r.content = scan[c][p])
    BY DEF RequestFor
  <1>3. PICK m \in EnsureParent(server, r, fresh) :
          \E done \in CommitEntry(m, r, fresh + 1) : server' = done.meta
    BY DEF SendUpload
  <1>4. PICK done \in CommitEntry(m, r, fresh + 1) : server' = done.meta
    BY <1>3
  <1> HIDE DEF r
  <1>5. m = server
    <2>1. Parent[r.path] = NoPath
      BY <1>1, <1>2, TransferAssumption
    <2> QED BY <1>3, <2>1 DEF EnsureParent
  <1>6. IsMeta(m) /\ m.versions = server.versions
    BY <1>5 DEF DInv, Complete
  <1> QED BY <1>2, <1>4, <1>6, CommitLeaves

LEMMA CommitFileKeeps ==
  ASSUME DInv, NEW c \in Device, CommitFile(c)
  PROVE  DInv'
PROOF
  <1>1. UNCHANGED <<stored, granted>>
    BY DEF CommitFile
  <1>2. Complete(server, granted)'
    BY <1>1, SendUploadLeaves DEF CommitFile
  <1>3. saved' = [meta |-> server', granted |-> granted']
    BY DEF CommitFile, Save, InMemory
  <1>4. Complete(saved.meta, saved.granted)'
    BY <1>2, <1>3 DEF Complete, IsMeta
  <1>5. /\ job' = [job EXCEPT ![c] = NoJob]
        /\ at' = [at EXCEPT ![c] = "answer"] \/ at' = [at EXCEPT ![c] = "idle"]
    BY DEF CommitFile, SendUpload, Answered, EndRound, Go, Doing
  <1>6. "answer" \notin Sending /\ "idle" \notin Sending
    BY DEF Sending
  <1>7. /\ DOMAIN at' = Device /\ DOMAIN job' = Device
        /\ \A d \in Device : InHand(d)'
    BY <1>1, <1>5, <1>6, JobsKnown, OthersKeep
  <1> QED BY <1>2, <1>4, <1>7 DEF DInv

\* The version stays in memory although the save failed.
LEMMA CommitUnsavedKeeps ==
  ASSUME DInv, NEW c \in Device, CommitUnsaved(c)
  PROVE  DInv'
PROOF
  <1> DEFINE r == RequestFor(c, job[c].path, "file")
  <1>1. /\ UNCHANGED <<stored, granted>>
        /\ saved' = saved \/ saved' = [meta |-> server', granted |-> granted']
    BY DEF CommitUnsaved, SaveFails, InMemory
  <1>2. PICK done \in CommitEntry(server, r, fresh) : server' = done.meta
    BY DEF CommitUnsaved
  <1>3. r.content = scan[c][job[c].path]
    BY DEF RequestFor
  <1> HIDE DEF r
  <1>4. IsMeta(server)
    BY DEF DInv, Complete
  <1>5. Complete(server, granted)'
    BY <1>1, <1>2, <1>3, <1>4, CommitLeaves DEF CommitUnsaved
  <1>6. Complete(saved.meta, saved.granted)'
    BY <1>1, <1>5 DEF DInv, Complete, IsMeta
  <1>7. job' = [job EXCEPT ![c] = NoJob] /\ at' = [at EXCEPT ![c] = "idle"]
    BY DEF CommitUnsaved, Rest, EndRound, Go, Doing
  <1>8. /\ DOMAIN at' = Device /\ DOMAIN job' = Device
        /\ \A d \in Device : InHand(d)'
    BY <1>1, <1>7, JobsKnown, OthersKeep DEF Sending
  <1> QED BY <1>5, <1>6, <1>8 DEF DInv

LEMMA DeleteOnServerKeeps ==
  ASSUME DInv, NEW c \in Device, NEW p \in Path, DeleteOnServer(c, p)
  PROVE  DInv'
PROOF
  <1> DEFINE r == RequestFor(c, p, "delete")
             done == DeleteEntry(server, r, fresh)
  <1>1. UNCHANGED <<stored, granted, job>> /\ server' = done.meta
    BY DEF DeleteOnServer, DeleteRemote
  <1>2. IsMeta(server)
    BY DEF DInv, Complete
  <1> HIDE DEF r
  <1>3. IsMeta(server') /\ \A v \in server'.versions : v \in server.versions \/ v.state = "deleted"
    BY <1>1, <1>2, DeleteAdds
  <1>4. Complete(server, granted)'
    BY <1>1, <1>3 DEF DInv, Complete, IsMeta, ChunksOf
  <1>5. saved' = [meta |-> server', granted |-> granted']
    BY DEF DeleteOnServer, Save, InMemory
  <1>6. Complete(saved.meta, saved.granted)'
    BY <1>4, <1>5 DEF Complete, IsMeta
  <1>7. at' = [at EXCEPT ![c] = "answer"] \/ at' = [at EXCEPT ![c] = "idle"]
    BY DEF DeleteOnServer, DeleteRemote, Answered, EndRound, Go
  <1>8. /\ DOMAIN at' = Device
        /\ \A d \in Device : at'[d] \in Sending => at'[d] = at[d]
    BY <1>7 DEF DInv, Sending
  <1>9. \A d \in Device : InHand(d)'
    BY <1>1, <1>8 DEF DInv, InHand, IsJob, Sending
  <1> QED BY <1>1, <1>4, <1>6, <1>8, <1>9 DEF DInv

\* A crash of the server takes versions and grants back together.
LEMMA FaultKeeps ==
  ASSUME DInv,
         \/ SaveAgain \/ Restart
         \/ \E c \in Device : CutRound(c) \/ CrashDownload(c)
  PROVE  DInv'
PROOF
  <1>1. CASE Restart
    <2>1. /\ server' = saved.meta /\ granted' = saved.granted
          /\ UNCHANGED <<saved, stored, at, job>>
      BY <1>1 DEF Restart, round
    <2>2. \A d \in Device : InHand(d)'
      BY <2>1 DEF DInv, InHand, IsJob
    <2>3. Complete(server, granted)' /\ Complete(saved.meta, saved.granted)'
      BY <2>1 DEF DInv, Complete, IsMeta
    <2> QED BY <2>1, <2>2, <2>3 DEF DInv
  <1>2. ASSUME NEW c \in Device, CutRound(c) \/ CrashDownload(c)
        PROVE  DInv'
    <2>1. /\ Rest(c)
          /\ UNCHANGED <<server, stored, granted, saved>>
      BY <1>2 DEF CutRound, CrashDownload, Abort, Rest, store, disks
    <2> QED BY <2>1, RestKeeps
  <1>3. CASE SaveAgain
    <2>1. /\ saved' = [meta |-> server, granted |-> granted]
          /\ UNCHANGED <<server, granted, stored, at, job>>
      BY <1>3 DEF SaveAgain, InMemory, vars, store, round
    <2>2. \A d \in Device : InHand(d)'
      BY <2>1 DEF DInv, InHand, IsJob
    <2>3. Complete(server, granted)' /\ Complete(saved.meta, saved.granted)'
      BY <2>1 DEF DInv, Complete, IsMeta
    <2> QED BY <2>1, <2>2, <2>3 DEF DInv
  <1> QED BY <1>1, <1>2, <1>3

LEMMA WriteKeeps ==
  ASSUME DInv, NEW c \in Device, NEW p \in Path, NEW x \in Text, WriteText(c, p, x)
  PROVE  DInv'
PROOF
  <1>1. UNCHANGED <<at, job, server, stored, granted, saved>>
    BY DEF WriteText, Edit, store, round, disks
  <1> QED BY <1>1, QuietKeeps

-----------------------------------------------------------------------------
(* The theorem. *)

LEMMA StepKeeps == DInv /\ [TransferNext]_transferVars => DInv'
PROOF
  <1> SUFFICES ASSUME DInv, [TransferNext]_transferVars
               PROVE  DInv'
    OBVIOUS
  <1>1. ASSUME NEW c \in Device, Work(c)
        PROVE  DInv'
    <2>1. CASE SyncStep(c) \/ LandTombstone(c)
      BY <2>1, SyncStepKeeps
    <2>2. CASE \/ FetchChunk(c) \/ Replace(c) \/ Verify(c)
               \/ ListDir(c) \/ ReadChunk(c) \/ EndScan(c) \/ RefuseManifest(c)
      BY <2>2, ReadKeeps
    <2>3. CASE PutChunk(c)
      BY <2>3, PutChunkKeeps
    <2>4. CASE GrantChunk(c)
      BY <2>4, GrantChunkKeeps
    <2>5. CASE CommitFile(c)
      BY <2>5, CommitFileKeeps
    <2>6. CASE \E p \in Path : CheckChunks(c, p) \/ DeleteOnServer(c, p)
      BY <2>6, CheckChunksKeeps, DeleteOnServerKeeps
    <2> QED BY <1>1, <2>1, <2>2, <2>3, <2>4, <2>5, <2>6 DEF Work
  <1>2. ASSUME NEW c \in Device, CommitUnsaved(c)
        PROVE  DInv'
    BY <1>2, CommitUnsavedKeeps
  <1>3. CASE SaveAgain \/ Restart \/ \E c \in Device : CutRound(c) \/ CrashDownload(c)
    BY <1>3, FaultKeeps
  <1>4. ASSUME NEW c \in Device, NEW p \in Path, NEW x \in Text, WriteText(c, p, x)
        PROVE  DInv'
    BY <1>4, WriteKeeps
  <1>5. CASE UNCHANGED transferVars
    <2>1. UNCHANGED <<at, job, server, stored, granted, saved>>
      BY <1>5 DEF transferVars, vars, store, round, disks
    <2> QED BY <2>1, QuietKeeps
  <1> QED BY <1>1, <1>2, <1>3, <1>4, <1>5 DEF TransferNext

LEMMA InvIsEnough == DInv => Downloadable
BY DEF DInv, Complete, Downloadable, InMemory

\* Every version, in memory or in metadata.json, can be downloaded at any
\* time (PutChunk, GrantAccountChunk, verifyManifest, Commit, load).
THEOREM VersionsCanBeHad == TransferSpec => []Downloadable
PROOF
  <1>1. TransferInit => DInv
    BY InitHolds
  <1>2. DInv /\ [TransferNext]_transferVars => DInv'
    BY StepKeeps
  <1>3. DInv => Downloadable
    BY InvIsEnough
  <1> QED BY <1>1, <1>2, <1>3, PTL DEF TransferSpec

-----------------------------------------------------------------------------
(* What may be where: N gives for every path the nodes that may be there. *)

GoodVersion(N) ==
  {v \in Version : /\ v.state = "file" => v.content \in N[v.path] \cap Content
                   /\ v.state = "dir" => DirNode \in N[v.path]}

GoodEvent(N) == [seq : Nat, version : GoodVersion(N)]

GoodDir(N) == {fs \in [Path -> Node] : \A p \in Path : fs[p] \in N[p]}

\* Nothing may be anywhere; what is at a path may come to a copy's name, and
\* a path with others below it may be a directory.
IsFit(N) ==
  /\ N \in [Path -> SUBSET Node]
  /\ \A p \in Path : NoFile \in N[p]
  /\ \A p \in Path, q \in CopyName \cup LocalCopyName : N[p] \subseteq N[q]
  /\ \A p \in Path : Parent[p] # NoPath => DirNode \in N[Parent[p]]

\* Versions and events of a metadata value are good ones.
Holds(m, N) ==
  /\ m.versions \subseteq GoodVersion(N)
  /\ m.events \in Seq(GoodEvent(N))

Answer == [path : Path, kind : {"push", "drop"}, reply : Reply]

Live(k, p) == k[p] \in LocalState \ {NoState} /\ k[p].state \in {"file", "dir"}

\* The engines' variables.
Shaped(N) ==
  /\ files \in [Device -> GoodDir(N)]
  /\ known \in [Device -> [Path -> LocalState \cup {NoState}]]
  /\ seen \in [Device -> Nat]
  /\ at \in [Device -> TransferPlaces]
  /\ pass \in [Device -> 1..2]
  /\ queue \in [Device -> Seq(GoodEvent(N))]
  /\ scan \in [Device -> [Path -> Node]]
  /\ todo \in [Device -> SUBSET Path]
  /\ reply \in [Device -> Answer \cup {NoWork}]
  /\ touched \in [Device -> SUBSET Path]

\* An event is being applied.
HasTarget(c) == at[c] \in {"land", "verify", "settle"} => queue[c] # <<>>

\* A scan that is not under way is one of a directory.
HasScan(c, N) == at[c] # "read" => scan[c] \in GoodDir(N)

\* What is to be uploaded was found by the scan.
Uploads(c) ==
  at[c] \in {"push", "send", "grant", "commit"} \/ (at[c] = "answer" /\ reply[c].kind = "push")
  => \A p \in todo[c] : scan[c][p] \in Content \cup {DirNode}

\* What is to be deleted is live for the state file.
Deletes(c) ==
  at[c] = "drop" \/ (at[c] = "answer" /\ reply[c].kind = "drop")
  => \A p \in todo[c] : Live(known[c], p)

\* What was answered.
HasAnswer(c) ==
  at[c] = "answer" =>
    /\ reply[c] \in Answer
    /\ reply[c].kind = "push" =>
         /\ reply[c].reply.version \in Version
         /\ reply[c].reply.version.path \in {reply[c].path} \cup CopyName
    /\ reply[c].kind = "drop" =>
         /\ Live(known[c], reply[c].path) /\ reply[c].path \notin todo[c]
         /\ reply[c].reply.status = "ok" => reply[c].reply.version \in Version

MidRound(c, N) ==
  HasTarget(c) /\ HasScan(c, N) /\ Uploads(c) /\ Deletes(c) /\ HasAnswer(c)

Engines(N) == Shaped(N) /\ \A c \in Device : MidRound(c, N)

OnlyAt(c) ==
  \A d \in Device \ {c} :
    /\ files'[d] = files[d] /\ known'[d] = known[d] /\ seen'[d] = seen[d]
    /\ at'[d] = at[d] /\ pass'[d] = pass[d] /\ queue'[d] = queue[d]
    /\ scan'[d] = scan[d] /\ todo'[d] = todo[d] /\ reply'[d] = reply[d]
    /\ touched'[d] = touched[d]

LEMMA OneMoves ==
  ASSUME NEW N, Engines(N), NEW c \in Device, OnlyAt(c), Shaped(N)', MidRound(c, N)'
  PROVE  Engines(N)'
<1>1. ASSUME NEW d \in Device, d # c PROVE MidRound(d, N)'
  <2>1. MidRound(d, N)
    BY DEF Engines
  <2>2. /\ known'[d] = known[d] /\ at'[d] = at[d] /\ queue'[d] = queue[d]
        /\ scan'[d] = scan[d] /\ todo'[d] = todo[d] /\ reply'[d] = reply[d]
    BY <1>1 DEF OnlyAt
  <2>3. HasTarget(d)' /\ HasScan(d, N)' /\ Uploads(d)'
    BY <2>1, <2>2 DEF MidRound, HasTarget, HasScan, Uploads
  <2>4. Deletes(d)' /\ HasAnswer(d)'
    BY <2>1, <2>2 DEF MidRound, Deletes, HasAnswer
  <2> QED BY <2>3, <2>4 DEF MidRound
<1> QED BY <1>1 DEF Engines

-----------------------------------------------------------------------------
(* Directories. *)

LEMMA NothingIsGood ==
  ASSUME NEW N, IsFit(N)
  PROVE  Nothing \in GoodDir(N)
BY DEF Nothing, GoodDir, IsFit, Node

LEMMA PutIsGood ==
  ASSUME NEW N, IsFit(N), NEW fs \in GoodDir(N), NEW p \in Path, NEW x \in N[p]
  PROVE  [fs EXCEPT ![p] = x] \in GoodDir(N)
<1>1. x \in Node
  BY DEF IsFit
<1> QED BY <1>1 DEF GoodDir

LEMMA RenameIsGood ==
  ASSUME NEW N, IsFit(N), NEW fs \in GoodDir(N), NEW p \in Path, NEW q \in Path,
         q \in CopyName \cup LocalCopyName
  PROVE  Rename(fs, p, q) \in GoodDir(N)
<1>1. fs[p] \in N[q] /\ NoFile \in N[p]
  BY DEF IsFit, GoodDir
<1> DEFINE copied == [fs EXCEPT ![q] = fs[p]]
<1>2. copied \in GoodDir(N)
  BY <1>1, PutIsGood
<1>3. Rename(fs, p, q) = [copied EXCEPT ![p] = NoFile]
  BY DEF Rename
<1> HIDE DEF copied
<1>4. [copied EXCEPT ![p] = NoFile] \in GoodDir(N)
  BY <1>1, <1>2, PutIsGood
<1> QED BY <1>3, <1>4

LEMMA RemoveIsGood ==
  ASSUME NEW N, IsFit(N), NEW fs \in GoodDir(N), NEW p \in Path
  PROVE  RemoveIfEmpty(fs, p) \in GoodDir(N)
<1>1. NoFile \in N[p]
  BY DEF IsFit
<1>2. [fs EXCEPT ![p] = NoFile] \in GoodDir(N)
  BY <1>1, PutIsGood
<1> QED BY <1>2 DEF RemoveIfEmpty

LEMMA CleanIsGood ==
  ASSUME NEW N, IsFit(N), NEW fs \in GoodDir(N), NEW gone
  PROVE  CleanDirs(fs, gone) \in GoodDir(N)
<1> DEFINE inner == [p \in Path |-> IF p \in gone /\ Parent[p] # NoPath
                                      THEN RemoveIfEmpty(fs, p)[p] ELSE fs[p]]
           outer == [p \in Path |-> IF p \in gone /\ Parent[p] = NoPath
                                      THEN RemoveIfEmpty(inner, p)[p] ELSE inner[p]]
<1>1. inner \in GoodDir(N)
  <2>1. \A p \in Path : /\ RemoveIfEmpty(fs, p)[p] \in N[p] \cap Node
                        /\ fs[p] \in N[p] \cap Node
    BY RemoveIsGood DEF GoodDir
  <2> QED BY <2>1 DEF GoodDir
<1> HIDE DEF inner
<1>2. outer \in GoodDir(N)
  <2>1. \A p \in Path : /\ RemoveIfEmpty(inner, p)[p] \in N[p] \cap Node
                        /\ inner[p] \in N[p] \cap Node
    BY <1>1, RemoveIsGood DEF GoodDir
  <2> QED BY <2>1 DEF GoodDir
<1>3. CleanDirs(fs, gone) = outer
  BY DEF CleanDirs, inner
<1> QED BY <1>2, <1>3

LEMMA ParentIsGood ==
  ASSUME NEW N, IsFit(N), NEW fs \in GoodDir(N), NEW p \in Path
  PROVE  MakeParent(fs, p) \in GoodDir(N)
<1>1. CASE Parent[p] = NoPath
  BY <1>1 DEF MakeParent
<1>2. CASE Parent[p] # NoPath
  <2>1. Parent[p] \in Path /\ DirNode \in N[Parent[p]]
    BY <1>2, PathAssumption DEF IsFit
  <2> QED BY <1>2, <2>1, PutIsGood DEF MakeParent
<1> QED BY <1>1, <1>2

LEMMA LandedIsGood ==
  ASSUME NEW N, IsFit(N), NEW fs \in GoodDir(N), NEW v \in GoodVersion(N)
  PROVE  Landed(fs, v) \in GoodDir(N)
<1>1. /\ v.path \in Path /\ v.state \in {"file", "dir", "deleted"}
      /\ v.state = "file" => v.content \in N[v.path]
      /\ v.state = "dir" => DirNode \in N[v.path]
  BY DEF GoodVersion, Version
<1>2. MakeParent(fs, v.path) \in GoodDir(N) /\ RemoveIfEmpty(fs, v.path) \in GoodDir(N)
  BY <1>1, ParentIsGood, RemoveIsGood
<1>3. CASE v.state = "file"
  <2>1. Landed(fs, v) = [MakeParent(fs, v.path) EXCEPT ![v.path] = v.content]
    BY <1>3 DEF Landed
  <2> QED BY <1>1, <1>2, <1>3, <2>1, PutIsGood
<1>4. CASE v.state = "dir"
  <2>1. Landed(fs, v) = [MakeParent(fs, v.path) EXCEPT ![v.path] = DirNode]
    BY <1>4 DEF Landed
  <2> QED BY <1>1, <1>2, <1>4, <2>1, PutIsGood
<1>5. CASE v.state = "deleted"
  BY <1>2, <1>5 DEF Landed
<1> QED BY <1>1, <1>3, <1>4, <1>5

-----------------------------------------------------------------------------
(* What the calls of the store keep. *)

LEMMA GoodIsTyped ==
  ASSUME NEW N
  PROVE  /\ GoodVersion(N) \subseteq Version
         /\ GoodEvent(N) \subseteq Event
         /\ Seq(GoodEvent(N)) \subseteq Seq(Event)
<1>1. GoodVersion(N) \subseteq Version
  BY DEF GoodVersion
<1>2. GoodEvent(N) \subseteq Event
  BY <1>1 DEF GoodEvent, Event
<1> QED BY <1>1, <1>2, SeqDef

\* What is put in the log is good, and what is in it stays.
LEMMA InstallHolds ==
  ASSUME NEW N, NEW m \in Metadata, Window(m), Holds(m, N), NEW v \in GoodVersion(N)
  PROVE  Holds(Install(m, v), N)
<1> DEFINE e == [seq |-> m.lastSeq + 1, version |-> v]
           log == Append(m.events, e)
           placed == [m EXCEPT !.files[v.path] = [fileID |-> v.fileID, current |-> v],
                               !.versions = @ \cup {v}]
<1>1. v \in Version
  BY GoodIsTyped
<1>2. Install(m, v).versions = m.versions \cup {v}
  BY <1>1, InstallFields
<1>3. placed.events = m.events /\ placed.lastSeq = m.lastSeq
  BY DEF Metadata
<1>4. Install(m, v) = [placed EXCEPT !.lastSeq = @ + 1,
                                     !.events = LastOf(Append(placed.events,
                                         [seq |-> placed.lastSeq + 1, version |-> v]), MaxEvents)]
  BY DEF Install, AppendEvent
<1>5. Install(m, v).events = LastOf(log, MaxEvents)
  <2>1. placed = [placed EXCEPT !.versions = placed.versions] /\ "events" \in DOMAIN placed
    BY DEF Metadata
  <2> HIDE DEF placed
  <2> QED BY <1>3, <1>4, <2>1
<1>6. e \in GoodEvent(N)
  BY DEF Metadata, GoodEvent
<1>7. log \in Seq(GoodEvent(N))
  BY <1>6 DEF Holds
<1> HIDE DEF log
<1>8. LastOf(log, MaxEvents) \in Seq(GoodEvent(N))
  BY <1>7, LastOfKeeps, LimitAssumption
<1> QED BY <1>2, <1>5, <1>8 DEF Holds

LEMMA OpenHolds ==
  ASSUME NEW N, NEW m \in Metadata, Holds(m, N), NEW p, NEW x
  PROVE  Holds([m EXCEPT !.files[p] = x], N)
BY DEF Holds, Metadata

LEMMA CommitHolds ==
  ASSUME NEW N, IsFit(N), NEW m, NEW n \in Nat, Sound(m, n, n), Holds(m, N),
         NEW r \in Request, r.kind \in {"file", "dir"},
         r.kind = "file" => r.content \in N[r.path] \cap Content,
         r.kind = "dir" => DirNode \in N[r.path],
         NEW done \in CommitEntry(m, r, n)
  PROVE  /\ Sound(done.meta, n + 1, n + 1)
         /\ Holds(done.meta, N)
         /\ done.ok => /\ done.reply \in Reply /\ done.reply.version \in Version
                       /\ done.reply.version.path \in {r.path} \cup CopyName
<1> DEFINE entry == Opened(m, r.path, n)
           opened == [m EXCEPT !.files[r.path] = entry]
           copy(c) == NewVersion(r, c, n, n)
           next == NewVersion(r, r.path, entry.fileID, n)
<1>0. Effect(m, r, n + 1, done)
  BY CommitKeeps
<1>1. r.path \in Path /\ m \in Metadata
  BY DEF Request, Sound
<1>2. /\ entry \in Entry /\ Sound(opened, n, n + 1)
      /\ opened.files[r.path] = entry
  BY <1>1, OpenKeeps
<1>3. Holds(opened, N)
  BY <1>1, OpenHolds
<1>4. /\ entry.fileID \in Nat
      /\ HasVersion(entry) => entry.current \in Version
  BY <1>2 DEF Entry, HasVersion
<1>5. \/ done = Rejected(opened)
      \/ HasVersion(entry) /\ done = Accepted(opened, "ok", entry.current, FALSE)
      \/ \E c \in FreeCopies(opened, r.path) :
           done = Accepted(Install(opened, copy(c)), "ok", copy(c), TRUE)
      \/ done = Accepted(Install(opened, next), "ok", next, FALSE)
  BY DEF CommitEntry, IsLiveDir
<1>6. ASSUME NEW p \in {r.path} \cup CopyName, NEW f \in Nat
      PROVE  NewVersion(r, p, f, n) \in GoodVersion(N) /\ NewVersion(r, p, f, n).path = p
  <2>1. p \in Path /\ N[r.path] \subseteq N[p]
    BY <1>1, <1>6, PathAssumption DEF IsFit
  <2>2. NewVersion(r, p, f, n) \in Version /\ NewVersion(r, p, f, n).path = p
    BY <2>1, NewVersionType
  <2>3. NewVersion(r, p, f, n).state = r.kind /\ NewVersion(r, p, f, n).content = r.content
    BY DEF NewVersion
  <2> QED BY <2>1, <2>2, <2>3 DEF GoodVersion
<1>7. opened \in Metadata /\ Window(opened)
  BY <1>2 DEF Sound
<1> HIDE DEF entry, opened
<1>8. CASE done = Rejected(opened)
  BY <1>0, <1>3, <1>8 DEF Effect, Rejected
<1>9. CASE HasVersion(entry) /\ done = Accepted(opened, "ok", entry.current, FALSE)
  <2>1. entry.current.path = r.path
    BY <1>1, <1>2, <1>9 DEF Sound, Headed
  <2> QED BY <1>0, <1>3, <1>4, <1>9, <2>1 DEF Effect, Accepted
<1>10. ASSUME NEW c \in FreeCopies(opened, r.path),
              done = Accepted(Install(opened, copy(c)), "ok", copy(c), TRUE)
       PROVE  /\ Holds(done.meta, N)
              /\ done.reply.version \in Version
              /\ done.reply.version.path \in {r.path} \cup CopyName
  <2>1. copy(c) \in GoodVersion(N) /\ copy(c).path = c /\ c \in CopyName
    BY <1>6, <1>10 DEF FreeCopies
  <2> HIDE DEF copy
  <2>2. Holds(Install(opened, copy(c)), N)
    BY <1>3, <1>7, <2>1, InstallHolds
  <2> QED BY <1>10, <2>1, <2>2, GoodIsTyped DEF Accepted
<1>11. CASE done = Accepted(Install(opened, next), "ok", next, FALSE)
  <2>1. next \in GoodVersion(N) /\ next.path = r.path
    BY <1>4, <1>6
  <2> HIDE DEF next
  <2>2. Holds(Install(opened, next), N)
    BY <1>3, <1>7, <2>1, InstallHolds
  <2> QED BY <1>0, <1>11, <2>1, <2>2, GoodIsTyped DEF Accepted, Effect
<1> QED BY <1>0, <1>5, <1>8, <1>9, <1>10, <1>11 DEF Effect

LEMMA EnsureParentHolds ==
  ASSUME NEW N, IsFit(N), NEW m, NEW n \in Nat, Sound(m, n, n), Holds(m, N),
         NEW r \in Request, NEW made \in EnsureParent(m, r, n)
  PROVE  Sound(made, n + 1, n + 1) /\ Holds(made, N)
<1> DEFINE dir == Parent[r.path]
           mkdir == [kind |-> "dir", op |-> NoOp, device |-> r.device, path |-> dir,
                     fileID |-> NoId, base |-> NoId, content |-> NoContent]
<1>1. CASE made = m
  BY <1>1, SoundGrows
<1>2. ASSUME dir # NoPath, NEW done \in CommitEntry(m, mkdir, n), made = done.meta
      PROVE  Sound(made, n + 1, n + 1) /\ Holds(made, N)
  <2>1. dir \in Path /\ DirNode \in N[dir]
    BY <1>2, PathAssumption DEF Request, IsFit
  <2>2. mkdir \in Request /\ mkdir.kind = "dir" /\ mkdir.path = dir
    BY <2>1 DEF Request, NoId
  <2> HIDE DEF mkdir
  <2> QED BY <1>2, <2>1, <2>2, CommitHolds
<1> QED BY <1>1, <1>2 DEF EnsureParent

LEMMA DeleteHolds ==
  ASSUME NEW N, NEW m, NEW n \in Nat, Sound(m, n, n), Holds(m, N),
         NEW r \in Request, r.kind = "delete"
  PROVE  LET done == DeleteEntry(m, r, n)
         IN  /\ Sound(done.meta, n + 1, n + 1)
             /\ Holds(done.meta, N)
             /\ done.ok => /\ done.reply \in Reply
                           /\ done.reply.status = "ok" => done.reply.version \in Version
<1> DEFINE entry == m.files[r.path]
           grave == Tombstone(r, entry, n)
           done == DeleteEntry(m, r, n)
<1>0. Effect(m, r, n + 1, done)
  BY DeleteKeeps
<1>1. r.path \in Path /\ r.base \in Nat /\ r.device \in Device /\ r.op \in Op \cup {NoOp}
  BY DEF Request
<1>2. m \in Metadata /\ Window(m) /\ entry \in Entry \cup {NoEntry}
  BY <1>1 DEF Sound, Metadata
<1>3. \/ done = Rejected(m)
      \/ done = Accepted(m, "conflict", NoVersion, TRUE)
      \/ IsTombstone(entry) /\ done = Accepted(m, "ok", entry.current, FALSE)
      \/ /\ entry # NoEntry
         /\ ~IsTombstone(entry)
         /\ done = Accepted(Install(m, grave), "ok", grave, FALSE)
  BY DEF DeleteEntry
<1>4. entry # NoEntry => /\ entry.fileID \in Nat
                         /\ entry.current \in Version \cup {NoVersion}
  BY <1>2 DEF Entry
<1> HIDE DEF entry, done
<1>5. CASE done = Rejected(m) \/ done = Accepted(m, "conflict", NoVersion, TRUE)
  <2>1. Holds(done.meta, N) /\ (done.ok => done.reply.status = "conflict")
    BY <1>5 DEF Rejected, Accepted
  <2> QED BY <1>0, <2>1 DEF Effect, done
<1>6. CASE IsTombstone(entry) /\ done = Accepted(m, "ok", entry.current, FALSE)
  <2>1. entry.current \in Version
    BY <1>4, <1>6 DEF IsTombstone, HasVersion
  <2>2. Holds(done.meta, N) /\ done.reply.version \in Version
    BY <1>6, <2>1 DEF Accepted
  <2> QED BY <1>0, <2>2 DEF Effect, done
<1>7. CASE /\ entry # NoEntry /\ ~IsTombstone(entry)
           /\ done = Accepted(Install(m, grave), "ok", grave, FALSE)
  <2>1. entry.current # NoVersion =>
          /\ entry.current.state \in {"file", "dir"}
          /\ entry.current.content \in Content \cup {NoContent}
    BY <1>4, <1>7 DEF IsTombstone, HasVersion, Version
  <2>2. grave \in Version /\ grave.state = "deleted"
    BY <1>1, <1>4, <1>7, <2>1 DEF Tombstone, Version
  <2> HIDE DEF grave
  <2>3. grave \in GoodVersion(N)
    BY <2>2 DEF GoodVersion
  <2>4. Holds(Install(m, grave), N)
    BY <1>2, <2>3, InstallHolds
  <2>5. Holds(done.meta, N) /\ done.reply.version \in Version
    BY <1>7, <2>2, <2>4 DEF Accepted
  <2> QED BY <1>0, <2>5 DEF Effect, done
<1> QED BY <1>3, <1>5, <1>6, <1>7 DEF done

LEMMA PruneHolds ==
  ASSUME NEW N, NEW m, NEW n \in Nat, Sound(m, n, n), Holds(m, N), NEW k
  PROVE  Sound(Prune(m, k), n, n) /\ Holds(Prune(m, k), N)
<1>1. Sound(Prune(m, k), n, n) /\ Prune(m, k).versions = m.versions
  BY PruneKeeps
<1>2. Prune(m, k).events = m.events
  BY DEF Prune, Sound, Metadata
<1> QED BY <1>1, <1>2 DEF Holds

\* What is restored is a content, wherever contents may be.
LEMMA RestoreHolds ==
  ASSUME NEW N, NEW m, NEW n \in Nat, Sound(m, n, n), Holds(m, N), NEW p \in Path,
         IsTombstone(m.files[p]), Restorable(m, p) # NoContent, Content \subseteq N[p]
  PROVE  LET new == Install(m, Restored(m, p, n))
         IN  Sound(new, n + 1, n + 1) /\ Holds(new, N)
<1> DEFINE back == Restored(m, p, n)
<1>1. back \in Version /\ Sound(Install(m, back), n + 1, n + 1)
  BY RestoreKeeps
<1>2. back.path = p /\ back.state = "file" /\ back.content = Restorable(m, p)
  BY DEF Restored
<1> HIDE DEF back
<1>3. back \in GoodVersion(N)
  BY <1>1, <1>2 DEF GoodVersion, Version
<1>4. Holds(Install(m, back), N)
  BY <1>3, InstallHolds DEF Sound
<1> QED BY <1>1, <1>4 DEF back

-----------------------------------------------------------------------------
(* The steps of an engine: events that arrive. *)

\* The event being applied.
LEMMA TargetIsGood ==
  ASSUME NEW N, Shaped(N), NEW c \in Device, queue[c] # <<>>
  PROVE  /\ Current(c) \in GoodEvent(N) /\ Current(c).seq \in Nat
         /\ Target(c) \in GoodVersion(N) /\ Target(c) \in Version
         /\ Target(c).path \in Path /\ Target(c).id \in Nat
         /\ Tail(queue[c]) \in Seq(GoodEvent(N))
<1>1. queue[c] \in Seq(GoodEvent(N))
  BY DEF Shaped
<1>2. Head(queue[c]) \in GoodEvent(N) /\ Tail(queue[c]) \in Seq(GoodEvent(N))
  BY <1>1, HeadTailProperties
<1>3. Target(c) \in GoodVersion(N) /\ Current(c).seq \in Nat
  BY <1>2 DEF Current, Target, GoodEvent
<1> QED BY <1>2, <1>3, GoodIsTyped DEF Current, Version

LEMMA StateIsTyped ==
  ASSUME NEW v \in Version
  PROVE  StateOf(v) \in LocalState
BY DEF StateOf, Version, LocalState

\* A round that ends leaves the engine with nothing under way.
LEMMA EndRoundKeeps ==
  ASSUME NEW N, IsFit(N), Engines(N), NEW c \in Device, EndRound(c),
         UNCHANGED <<known, seen, touched>>,
         files' \in [Device -> GoodDir(N)],
         \A d \in Device \ {c} : files'[d] = files[d]
  PROVE  Engines(N)'
<1>1. /\ at'[c] = "idle" /\ at' \in [Device -> TransferPlaces]
      /\ \A d \in Device \ {c} : at'[d] = at[d]
  BY DEF Engines, Shaped, EndRound, Go, TransferPlaces, Places
<1>2. pass' \in [Device -> 1..2] /\ \A d \in Device \ {c} : pass'[d] = pass[d]
  BY DEF Engines, Shaped, EndRound
<1>3. /\ queue' \in [Device -> Seq(GoodEvent(N))]
      /\ \A d \in Device \ {c} : queue'[d] = queue[d]
  <2>1. <<>> \in Seq(GoodEvent(N))
    OBVIOUS
  <2> QED BY <2>1 DEF Engines, Shaped, EndRound
<1>4. /\ scan' \in [Device -> [Path -> Node]] /\ scan'[c] \in GoodDir(N)
      /\ \A d \in Device \ {c} : scan'[d] = scan[d]
  <2>1. Nothing \in GoodDir(N) /\ Nothing \in [Path -> Node]
    BY NothingIsGood DEF GoodDir
  <2> QED BY <2>1 DEF Engines, Shaped, EndRound
<1>5. /\ todo' \in [Device -> SUBSET Path] /\ todo'[c] = {}
      /\ \A d \in Device \ {c} : todo'[d] = todo[d]
  BY DEF Engines, Shaped, EndRound
<1>6. /\ reply' \in [Device -> Answer \cup {NoWork}]
      /\ \A d \in Device \ {c} : reply'[d] = reply[d]
  BY DEF Engines, Shaped, EndRound
<1>7. OnlyAt(c)
  BY <1>1, <1>2, <1>3, <1>4, <1>5, <1>6 DEF OnlyAt
<1>8. Shaped(N)'
  BY <1>1, <1>2, <1>3, <1>4, <1>5, <1>6 DEF Engines, Shaped
<1>9. MidRound(c, N)'
  BY <1>1, <1>4 DEF MidRound, HasTarget, HasScan, Uploads, Deletes, HasAnswer
<1> QED BY <1>7, <1>8, <1>9, OneMoves

\* EventsAfter gives good events of a good log.
LEMMA FetchIsGood ==
  ASSUME NEW N, Shaped(N), Holds(server, N), NEW c \in Device, Fetch(c)
  PROVE  /\ queue' \in [Device -> Seq(GoodEvent(N))]
         /\ \A d \in Device \ {c} : queue'[d] = queue[d]
<1>1. EventsAfter(server, seen[c]) \in Seq(GoodEvent(N))
  BY EventsAfterTyped DEF Holds
<1> QED BY <1>1 DEF Fetch, Shaped

LEMMA BeginRoundKeeps ==
  ASSUME NEW N, Engines(N), Holds(server, N), NEW c \in Device, BeginRound(c)
  PROVE  Engines(N)'
<1>1. /\ at[c] = "idle" /\ at'[c] = "pull" /\ at' \in [Device -> TransferPlaces]
      /\ \A d \in Device \ {c} : at'[d] = at[d]
      /\ UNCHANGED <<files, known, seen, touched, pass, scan, todo, reply>>
  BY DEF Engines, Shaped, BeginRound, Go, TransferPlaces, Places, local
<1>2. /\ queue' \in [Device -> Seq(GoodEvent(N))]
      /\ \A d \in Device \ {c} : queue'[d] = queue[d]
  BY FetchIsGood DEF Engines, BeginRound
<1>3. OnlyAt(c)
  BY <1>1, <1>2 DEF OnlyAt
<1>4. Shaped(N)'
  BY <1>1, <1>2 DEF Engines, Shaped
<1>5. MidRound(c, N)'
  BY <1>1 DEF Engines, MidRound, HasTarget, HasScan, Uploads, Deletes, HasAnswer
<1> QED BY <1>3, <1>4, <1>5, OneMoves

LEMMA MarkSeenIsGood ==
  ASSUME NEW N, Shaped(N), NEW c \in Device, queue[c] # <<>>, MarkSeen(c)
  PROVE  /\ seen' \in [Device -> Nat] /\ queue' \in [Device -> Seq(GoodEvent(N))]
         /\ \A d \in Device \ {c} : seen'[d] = seen[d] /\ queue'[d] = queue[d]
<1>1. Current(c).seq \in Nat /\ Tail(queue[c]) \in Seq(GoodEvent(N))
  BY TargetIsGood
<1>2. seen \in [Device -> Nat] /\ queue \in [Device -> Seq(GoodEvent(N))]
  BY DEF Shaped
<1> QED BY <1>1, <1>2 DEF MarkSeen

LEMMA SkipEventKeeps ==
  ASSUME NEW N, Engines(N), NEW c \in Device, SkipEvent(c)
  PROVE  Engines(N)'
<1>1. /\ at[c] = "pull" /\ queue[c] # <<>>
      /\ UNCHANGED <<files, known, touched, at, pass, scan, todo, reply>>
  BY DEF SkipEvent
<1>2. /\ seen' \in [Device -> Nat] /\ queue' \in [Device -> Seq(GoodEvent(N))]
      /\ \A d \in Device \ {c} : seen'[d] = seen[d] /\ queue'[d] = queue[d]
  BY <1>1, MarkSeenIsGood DEF Engines, SkipEvent
<1>3. OnlyAt(c)
  BY <1>1, <1>2 DEF OnlyAt
<1>4. Shaped(N)'
  BY <1>1, <1>2 DEF Engines, Shaped
<1>5. MidRound(c, N)'
  BY <1>1 DEF Engines, MidRound, HasTarget, HasScan, Uploads, Deletes, HasAnswer
<1> QED BY <1>3, <1>4, <1>5, OneMoves

\* A place to go to, with the directory changed.
LEMMA WalkEngine ==
  ASSUME NEW N, Engines(N), NEW c \in Device, at[c] # "read",
         NEW place \in {"pull", "land", "verify", "settle", "scan"},
         place \in {"land", "verify", "settle"} => queue[c] # <<>>,
         at' = [at EXCEPT ![c] = place],
         UNCHANGED <<known, seen, touched, pass, queue, scan, todo, reply>>,
         files' \in [Device -> GoodDir(N)],
         \A d \in Device \ {c} : files'[d] = files[d]
  PROVE  Engines(N)'
<1>1. /\ at'[c] = place /\ at' \in [Device -> TransferPlaces]
      /\ \A d \in Device \ {c} : at'[d] = at[d]
  BY DEF Engines, Shaped, TransferPlaces, Places
<1>2. OnlyAt(c)
  BY <1>1 DEF OnlyAt
<1>3. Shaped(N)'
  BY <1>1 DEF Engines, Shaped
<1>4. MidRound(c, N)'
  BY <1>1 DEF Engines, MidRound, HasTarget, HasScan, Uploads, Deletes, HasAnswer
<1> QED BY <1>2, <1>3, <1>4, OneMoves

LEMMA ExamineKeeps ==
  ASSUME NEW N, IsFit(N), Engines(N), NEW c \in Device, Examine(c)
  PROVE  Engines(N)'
<1>1. /\ at[c] = "pull" /\ queue[c] # <<>>
      /\ UNCHANGED <<known, seen, touched, pass, queue, scan, todo, reply>>
  BY DEF Examine
<1>2. PICK place \in {"land", "settle"} : at' = [at EXCEPT ![c] = place]
  BY DEF Examine, Go
<1>3. /\ files' \in [Device -> GoodDir(N)]
      /\ \A d \in Device \ {c} : files'[d] = files[d]
  <2>1. files \in [Device -> GoodDir(N)] /\ Target(c).path \in Path
    BY <1>1, TargetIsGood DEF Engines, Shaped
  <2>2. CASE UNCHANGED files
    BY <2>1, <2>2
  <2>3. ASSUME NEW q \in FreeLocalCopies(Target(c).path),
               files' = [files EXCEPT ![c] = Rename(@, Target(c).path, q)]
        PROVE  /\ files' \in [Device -> GoodDir(N)]
               /\ \A d \in Device \ {c} : files'[d] = files[d]
    <3>1. q \in Path /\ q \in LocalCopyName
      BY <2>3, SyncAssumption DEF FreeLocalCopies
    <3>2. Rename(files[c], Target(c).path, q) \in GoodDir(N)
      BY <2>1, <3>1, RenameIsGood
    <3> QED BY <2>1, <2>3, <3>2
  <2> QED BY <2>2, <2>3 DEF Examine
<1> QED BY <1>1, <1>2, <1>3, WalkEngine

LEMMA LandKeeps ==
  ASSUME NEW N, IsFit(N), Engines(N), NEW c \in Device, Land(c)
  PROVE  Engines(N)'
<1>1. /\ at[c] = "land" /\ at' = [at EXCEPT ![c] = "settle"]
      /\ files' = [files EXCEPT ![c] = Landed(@, Target(c))]
      /\ UNCHANGED <<known, seen, touched, pass, queue, scan, todo, reply>>
  BY DEF Land, Go
<1>2. queue[c] # <<>> /\ files \in [Device -> GoodDir(N)]
  BY <1>1 DEF Engines, Shaped, MidRound, HasTarget
<1>3. Landed(files[c], Target(c)) \in GoodDir(N)
  BY <1>2, TargetIsGood, LandedIsGood DEF Engines
<1>4. /\ files' \in [Device -> GoodDir(N)]
      /\ \A d \in Device \ {c} : files'[d] = files[d]
  BY <1>1, <1>2, <1>3
<1> QED BY <1>1, <1>2, <1>4, WalkEngine

LEMMA SettleKeeps ==
  ASSUME NEW N, Engines(N), NEW c \in Device, Settle(c)
  PROVE  Engines(N)'
<1>1. /\ at[c] = "settle" /\ at'[c] = "pull" /\ at' \in [Device -> TransferPlaces]
      /\ \A d \in Device \ {c} : at'[d] = at[d]
      /\ UNCHANGED <<files, pass, scan, todo, reply>>
  BY DEF Engines, Shaped, Settle, Go, TransferPlaces, Places
<1>2. queue[c] # <<>> /\ Shaped(N)
  BY <1>1 DEF Engines, MidRound, HasTarget
<1>3. /\ seen' \in [Device -> Nat] /\ queue' \in [Device -> Seq(GoodEvent(N))]
      /\ \A d \in Device \ {c} : seen'[d] = seen[d] /\ queue'[d] = queue[d]
  BY <1>2, MarkSeenIsGood DEF Settle
<1>4. /\ known' \in [Device -> [Path -> LocalState \cup {NoState}]]
      /\ \A d \in Device \ {c} : known'[d] = known[d]
  <2>1. Target(c).path \in Path /\ StateOf(Target(c)) \in LocalState
    BY <1>2, TargetIsGood, StateIsTyped
  <2>2. known' = [known EXCEPT ![c][Target(c).path] = StateOf(Target(c))]
    BY DEF Settle, SetKnown
  <2> QED BY <1>2, <2>1, <2>2 DEF Shaped
<1>5. /\ touched' \in [Device -> SUBSET Path]
      /\ \A d \in Device \ {c} : touched'[d] = touched[d]
  BY <1>2 DEF Settle, SetKnown, Shaped
<1>6. OnlyAt(c)
  BY <1>1, <1>3, <1>4, <1>5 DEF OnlyAt
<1>7. Shaped(N)'
  BY <1>1, <1>2, <1>3, <1>4, <1>5 DEF Shaped
<1>8. MidRound(c, N)'
  BY <1>1 DEF Engines, MidRound, HasTarget, HasScan, Uploads, Deletes, HasAnswer
<1> QED BY <1>6, <1>7, <1>8, OneMoves

LEMMA EndPullKeeps ==
  ASSUME NEW N, IsFit(N), Engines(N), NEW c \in Device, EndPull(c)
  PROVE  Engines(N)'
<1>1. /\ at[c] = "pull" /\ files' = [files EXCEPT ![c] = CleanDirs(@, DeletedDirs(c))]
      /\ UNCHANGED <<known, seen, touched>>
  BY DEF EndPull
<1>2. /\ files' \in [Device -> GoodDir(N)]
      /\ \A d \in Device \ {c} : files'[d] = files[d]
  <2>1. files \in [Device -> GoodDir(N)]
    BY DEF Engines, Shaped
  <2>2. CleanDirs(files[c], DeletedDirs(c)) \in GoodDir(N)
    BY <2>1, CleanIsGood
  <2> QED BY <1>1, <2>1, <2>2
<1>3. CASE /\ at' = [at EXCEPT ![c] = "scan"]
           /\ UNCHANGED <<pass, queue, scan, todo, reply>>
  BY <1>1, <1>2, <1>3, WalkEngine
<1>4. CASE EndRound(c)
  BY <1>1, <1>2, <1>4, EndRoundKeeps
<1> QED BY <1>3, <1>4 DEF EndPull, Go

-----------------------------------------------------------------------------
(* The steps of an engine: changes that leave. *)

LEMMA RequestIsTyped ==
  ASSUME NEW N, Shaped(N), NEW c \in Device, NEW p \in Path,
         NEW kind \in {"file", "dir", "delete"},
         kind = "file" => scan[c][p] \in Content
  PROVE  /\ RequestFor(c, p, kind) \in Request
         /\ RequestFor(c, p, kind).kind = kind
         /\ RequestFor(c, p, kind).path = p
         /\ kind = "file" => RequestFor(c, p, kind).content = scan[c][p]
<1>1. known[c][p] \in LocalState \cup {NoState}
  BY DEF Shaped
<1>2. FieldOf(c, p, "fileID") \in Nat /\ FieldOf(c, p, "id") \in Nat
  BY <1>1 DEF FieldOf, LocalState, NoId
<1> QED BY <1>2 DEF RequestFor, Request

\* An answer is kept for the step that records it.
LEMMA AnsweredKeeps ==
  ASSUME NEW N, Engines(N), NEW c \in Device, NEW p \in Path,
         NEW kind \in {"push", "drop"}, NEW r \in Reply,
         at[c] \in (IF kind = "push" THEN {"push", "commit"} ELSE {"drop"}),
         kind = "push" => r.version \in Version /\ r.version.path \in {p} \cup CopyName,
         kind = "drop" => /\ p \in todo[c]
                          /\ r.status = "ok" => r.version \in Version,
         Answered(c, p, kind, r), UNCHANGED <<files, known, seen, touched>>
  PROVE  Engines(N)'
<1> DEFINE answer == [path |-> p, kind |-> kind, reply |-> r]
<1>1. /\ at'[c] = "answer" /\ at' \in [Device -> TransferPlaces]
      /\ \A d \in Device \ {c} : at'[d] = at[d]
      /\ UNCHANGED <<pass, queue, scan>>
  BY DEF Engines, Shaped, Answered, Go, TransferPlaces, Places
<1>2. answer \in Answer /\ answer.path = p /\ answer.kind = kind /\ answer.reply = r
  BY DEF Answer
<1>3. reply' = [reply EXCEPT ![c] = answer]
  BY DEF Answered
<1> HIDE DEF answer
<1>4. /\ reply' \in [Device -> Answer \cup {NoWork}] /\ reply'[c] = answer
      /\ \A d \in Device \ {c} : reply'[d] = reply[d]
  BY <1>2, <1>3 DEF Engines, Shaped
<1>5. /\ todo' \in [Device -> SUBSET Path] /\ todo'[c] = todo[c] \ {p}
      /\ \A d \in Device \ {c} : todo'[d] = todo[d]
  BY DEF Engines, Shaped, Answered
<1>6. OnlyAt(c)
  BY <1>1, <1>4, <1>5 DEF OnlyAt
<1>7. Shaped(N)'
  BY <1>1, <1>4, <1>5 DEF Engines, Shaped
<1>8. MidRound(c, N)'
  <2>1. MidRound(c, N)
    BY DEF Engines
  <2>2. HasTarget(c)' /\ HasScan(c, N)'
    BY <1>1, <2>1 DEF MidRound, HasTarget, HasScan
  <2>3. Uploads(c)'
    BY <1>1, <1>2, <1>4, <1>5, <2>1 DEF MidRound, Uploads
  <2>4. kind = "drop" => \A q \in todo[c] : Live(known[c], q)
    BY <2>1 DEF MidRound, Deletes
  <2>5. Deletes(c)'
    BY <1>1, <1>2, <1>4, <1>5, <2>4 DEF Deletes
  <2>6. HasAnswer(c)'
    BY <1>1, <1>2, <1>4, <1>5, <2>4 DEF HasAnswer
  <2> QED BY <2>2, <2>3, <2>5, <2>6 DEF MidRound
<1> QED BY <1>6, <1>7, <1>8, OneMoves

LEMMA EndUploadsKeeps ==
  ASSUME NEW N, Engines(N), NEW c \in Device, EndUploads(c)
  PROVE  Engines(N)'
<1>1. /\ at[c] = "push" /\ at'[c] = "drop" /\ at' \in [Device -> TransferPlaces]
      /\ \A d \in Device \ {c} : at'[d] = at[d]
      /\ UNCHANGED <<files, known, seen, touched, pass, queue, scan, reply>>
  BY DEF Engines, Shaped, EndUploads, Go, TransferPlaces, Places, local
<1>2. /\ todo' \in [Device -> SUBSET Path] /\ todo'[c] = ToDelete(c, scan[c])
      /\ \A d \in Device \ {c} : todo'[d] = todo[d]
  <2>1. ToDelete(c, scan[c]) \subseteq Path
    BY DEF ToDelete
  <2> QED BY <2>1 DEF Engines, Shaped, EndUploads
<1>3. \A p \in ToDelete(c, scan[c]) : Live(known[c], p)
  <2>1. \A p \in Path : known[c][p] \in LocalState \cup {NoState}
    BY DEF Engines, Shaped
  <2> QED BY <2>1 DEF ToDelete, KnownAs, Live
<1>4. OnlyAt(c)
  BY <1>1, <1>2 DEF OnlyAt
<1>5. Shaped(N)'
  BY <1>1, <1>2 DEF Engines, Shaped
<1>6. MidRound(c, N)'
  <2>1. HasTarget(c)' /\ HasScan(c, N)' /\ Uploads(c)' /\ HasAnswer(c)'
    BY <1>1 DEF Engines, MidRound, HasTarget, HasScan, Uploads, HasAnswer
  <2>2. Deletes(c)'
    BY <1>1, <1>2, <1>3 DEF Deletes
  <2> QED BY <2>1, <2>2 DEF MidRound
<1> QED BY <1>4, <1>5, <1>6, OneMoves

LEMMA RecordUploadKeeps ==
  ASSUME NEW N, IsFit(N), Engines(N), NEW c \in Device, RecordUpload(c)
  PROVE  Engines(N)'
<1> DEFINE p == reply[c].path
           v == reply[c].reply.version
           renamed == v.path # p /\ scan[c][p] # DirNode
<1>1. at[c] = "answer" /\ reply[c].kind = "push"
  BY DEF RecordUpload
<1>2. /\ p \in Path /\ v \in Version /\ v.path \in Path
      /\ v.path \in {p} \cup CopyName
  BY <1>1 DEF Engines, MidRound, HasAnswer, Answer, Version
<1>3. CASE renamed /\ files[c][p] = NoFile
  <2>1. EndRound(c) /\ UNCHANGED <<files, known, seen, touched>>
    BY <1>3 DEF RecordUpload, local
  <2>2. files' \in [Device -> GoodDir(N)] /\ \A d \in Device \ {c} : files'[d] = files[d]
    BY <2>1 DEF Engines, Shaped
  <2> QED BY <2>1, <2>2, EndRoundKeeps
<1>4. CASE ~(renamed /\ files[c][p] = NoFile)
  <2> DEFINE moved == IF renamed THEN Rename(files[c], p, v.path) ELSE files[c]
             noted == [q \in Path |-> IF q = v.path THEN StateOf(v)
                                      ELSE IF renamed /\ q = p THEN NoState
                                      ELSE known[c][q]]
  <2>1. /\ files' = [files EXCEPT ![c] = moved]
        /\ known' = [known EXCEPT ![c] = noted]
        /\ touched' = [touched EXCEPT ![c] = @ \ {p, v.path}]
        /\ at' = [at EXCEPT ![c] = "push"]
        /\ reply' = [reply EXCEPT ![c] = NoWork]
        /\ UNCHANGED <<seen, pass, queue, scan, todo>>
    <3>1. files' = [files EXCEPT ![c] = IF renamed THEN Rename(@, p, v.path) ELSE @]
      BY <1>4 DEF RecordUpload
    <3>2. known' = [known EXCEPT ![c] = noted]
      BY <1>4 DEF RecordUpload
    <3>3. /\ touched' = [touched EXCEPT ![c] = @ \ {p, v.path}]
          /\ at' = [at EXCEPT ![c] = "push"]
          /\ reply' = [reply EXCEPT ![c] = NoWork]
          /\ UNCHANGED <<seen, pass, queue, scan, todo>>
      BY <1>4 DEF RecordUpload, Go
    <3>4. files' = [files EXCEPT ![c] = moved]
      BY <3>1, Zenon
    <3> QED BY <3>2, <3>3, <3>4
  <2>2. moved \in GoodDir(N)
    <3>1. files[c] \in GoodDir(N)
      BY DEF Engines, Shaped
    <3>2. v.path # p => Rename(files[c], p, v.path) \in GoodDir(N)
      BY <1>2, <3>1, RenameIsGood
    <3> QED BY <3>1, <3>2
  <2>3. noted \in [Path -> LocalState \cup {NoState}]
    <3>1. known[c] \in [Path -> LocalState \cup {NoState}]
      BY DEF Engines, Shaped
    <3> QED BY <1>2, <3>1, StateIsTyped
  <2> HIDE DEF moved, noted, p, v
  <2>4. /\ files' \in [Device -> GoodDir(N)] /\ known' \in [Device -> [Path -> LocalState \cup {NoState}]]
        /\ \A d \in Device \ {c} : files'[d] = files[d] /\ known'[d] = known[d]
    BY <2>1, <2>2, <2>3 DEF Engines, Shaped
  <2>5. /\ touched' \in [Device -> SUBSET Path] /\ reply' \in [Device -> Answer \cup {NoWork}]
        /\ \A d \in Device \ {c} : touched'[d] = touched[d] /\ reply'[d] = reply[d]
    BY <2>1 DEF Engines, Shaped
  <2>6. /\ at'[c] = "push" /\ at' \in [Device -> TransferPlaces]
        /\ \A d \in Device \ {c} : at'[d] = at[d]
    BY <2>1 DEF Engines, Shaped, TransferPlaces, Places
  <2>7. OnlyAt(c)
    BY <2>1, <2>4, <2>5, <2>6 DEF OnlyAt
  <2>8. Shaped(N)'
    BY <2>1, <2>4, <2>5, <2>6 DEF Engines, Shaped
  <2>9. MidRound(c, N)'
    BY <1>1, <2>1, <2>6 DEF Engines, MidRound, HasTarget, HasScan, Uploads, Deletes, HasAnswer
  <2> QED BY <2>7, <2>8, <2>9, OneMoves
<1> QED BY <1>3, <1>4

LEMMA RecordDeleteKeeps ==
  ASSUME NEW N, Engines(N), NEW c \in Device, RecordDelete(c)
  PROVE  Engines(N)'
<1> DEFINE p == reply[c].path
           entry == [fileID |-> known[c][p].fileID, id |-> reply[c].reply.version.id,
                     state |-> "deleted", was |-> known[c][p].state, content |-> NoContent]
<1>1. /\ at[c] = "answer" /\ reply[c].kind = "drop"
      /\ at'[c] = "drop" /\ at' \in [Device -> TransferPlaces]
      /\ \A d \in Device \ {c} : at'[d] = at[d]
      /\ UNCHANGED <<files, seen, pass, queue, scan, todo>>
  BY DEF Engines, Shaped, RecordDelete, Go, TransferPlaces, Places
<1>2. /\ p \in Path /\ p \notin todo[c] /\ Live(known[c], p)
      /\ reply[c].reply.status = "ok" => reply[c].reply.version \in Version
  BY <1>1 DEF Engines, MidRound, HasAnswer, Answer
<1>3. /\ reply' \in [Device -> Answer \cup {NoWork}]
      /\ \A d \in Device \ {c} : reply'[d] = reply[d]
  BY DEF Engines, Shaped, RecordDelete
<1>4. /\ known' \in [Device -> [Path -> LocalState \cup {NoState}]]
      /\ \A d \in Device \ {c} : known'[d] = known[d]
      /\ \A q \in Path \ {p} : known'[c][q] = known[c][q]
      /\ touched' \in [Device -> SUBSET Path]
      /\ \A d \in Device \ {c} : touched'[d] = touched[d]
  <2>1. known \in [Device -> [Path -> LocalState \cup {NoState}]] /\ touched \in [Device -> SUBSET Path]
    BY DEF Engines, Shaped
  <2>2. CASE reply[c].reply.status = "ok"
    <3>1. /\ known' = [known EXCEPT ![c][p] = entry]
          /\ touched' = [touched EXCEPT ![c] = @ \ {p}]
      BY <2>2 DEF RecordDelete, SetKnown
    <3>2. entry \in LocalState
      BY <1>2, <2>2 DEF Live, LocalState, Version
    <3> HIDE DEF entry, p
    <3> QED BY <1>2, <2>1, <3>1, <3>2
  <2>3. CASE reply[c].reply.status # "ok"
    BY <2>1, <2>3 DEF RecordDelete
  <2> QED BY <2>2, <2>3
<1> HIDE DEF p
<1>5. OnlyAt(c)
  BY <1>1, <1>3, <1>4 DEF OnlyAt
<1>6. Shaped(N)'
  BY <1>1, <1>3, <1>4 DEF Engines, Shaped
<1>7. MidRound(c, N)'
  <2>1. HasTarget(c)' /\ HasScan(c, N)' /\ Uploads(c)' /\ HasAnswer(c)'
    BY <1>1 DEF Engines, MidRound, HasTarget, HasScan, Uploads, HasAnswer
  <2>2. \A q \in todo[c] : Live(known[c], q) /\ q \in Path
    BY <1>1 DEF Engines, MidRound, Deletes, Shaped
  <2>3. Deletes(c)'
    BY <1>1, <1>2, <1>4, <2>2 DEF Deletes, Live
  <2> QED BY <2>1, <2>3 DEF MidRound
<1> QED BY <1>5, <1>6, <1>7, OneMoves

LEMMA EndPushKeeps ==
  ASSUME NEW N, IsFit(N), Engines(N), Holds(server, N), NEW c \in Device, EndPush(c)
  PROVE  Engines(N)'
<1>1. /\ at[c] = "drop" /\ at'[c] = "pull" /\ at' \in [Device -> TransferPlaces]
      /\ \A d \in Device \ {c} : at'[d] = at[d]
      /\ UNCHANGED <<files, known, seen, touched, todo, reply>>
  BY DEF Engines, Shaped, EndPush, Go, TransferPlaces, Places, local
<1>2. /\ queue' \in [Device -> Seq(GoodEvent(N))]
      /\ \A d \in Device \ {c} : queue'[d] = queue[d]
  BY FetchIsGood DEF Engines, EndPush
<1>3. pass' \in [Device -> 1..2] /\ \A d \in Device \ {c} : pass'[d] = pass[d]
  BY DEF Engines, Shaped, EndPush
<1>4. /\ scan' \in [Device -> [Path -> Node]] /\ scan'[c] \in GoodDir(N)
      /\ \A d \in Device \ {c} : scan'[d] = scan[d]
  <2>1. Nothing \in GoodDir(N) /\ Nothing \in [Path -> Node]
    BY NothingIsGood DEF GoodDir
  <2> QED BY <2>1 DEF Engines, Shaped, EndPush
<1>5. OnlyAt(c)
  BY <1>1, <1>2, <1>3, <1>4 DEF OnlyAt
<1>6. Shaped(N)'
  BY <1>1, <1>2, <1>3, <1>4 DEF Engines, Shaped
<1>7. MidRound(c, N)'
  BY <1>1, <1>4 DEF MidRound, HasTarget, HasScan, Uploads, Deletes, HasAnswer
<1> QED BY <1>5, <1>6, <1>7, OneMoves

-----------------------------------------------------------------------------
(* Every step of Sync. *)

\* The store's metadata is sound and holds good versions.
ServerGood(N) ==
  /\ fresh \in Nat \ {0}
  /\ Sound(server, fresh, fresh)
  /\ Holds(server, N)

LEMMA ServerStays ==
  ASSUME NEW N, ServerGood(N), UNCHANGED store
  PROVE  ServerGood(N)'
BY DEF ServerGood, store, Holds, Sound, Window, Below, Numbered, Headed, Chained

\* An engine that stands still.
LEMMA EnginesStay ==
  ASSUME NEW N, Engines(N), UNCHANGED <<local, round>>
  PROVE  Engines(N)'
<1>1. /\ files' = files /\ known' = known /\ seen' = seen /\ touched' = touched
      /\ at' = at /\ pass' = pass /\ queue' = queue /\ scan' = scan
      /\ todo' = todo /\ reply' = reply
  BY DEF local, round
<1>2. Shaped(N)'
  BY <1>1 DEF Engines, Shaped
<1>3. ASSUME NEW d \in Device PROVE MidRound(d, N)'
  BY <1>1 DEF Engines, MidRound, HasTarget, HasScan, Uploads, Deletes, HasAnswer
<1> QED BY <1>2, <1>3 DEF Engines

\* A request to the server, and its answer.
LEMMA SendUploadKeeps ==
  ASSUME NEW N, IsFit(N), ServerGood(N), Engines(N), NEW c \in Device, NEW p \in Path,
         at[c] \in {"push", "commit"}, p \in todo[c],
         SendUpload(c, p), UNCHANGED <<files, known, seen, touched>>
  PROVE  ServerGood(N)' /\ Engines(N)'
<1> DEFINE kind == IF scan[c][p] = DirNode THEN "dir" ELSE "file"
           r == RequestFor(c, p, kind)
<1>0. fresh \in Nat /\ fresh + 1 \in Nat /\ fresh # 0
  BY DEF ServerGood
<1>1. /\ scan[c][p] \in Content \cup {DirNode} /\ scan[c] \in GoodDir(N)
  BY DEF Engines, MidRound, Uploads, HasScan
<1>2. scan[c][p] \in N[p]
  BY <1>1 DEF GoodDir
<1>3. /\ kind \in {"file", "dir"} /\ kind \in {"file", "dir", "delete"}
      /\ kind = "file" => scan[c][p] \in Content
      /\ kind = "dir" => DirNode \in N[p]
  BY <1>1, <1>2
<1> HIDE DEF kind
<1>4. /\ r \in Request /\ r.kind = kind /\ r.path = p
      /\ kind = "file" => r.content = scan[c][p]
  BY <1>3, RequestIsTyped DEF Engines
<1>5. PICK m \in EnsureParent(server, r, fresh) :
        \E done \in CommitEntry(m, r, fresh + 1) :
          /\ server' = done.meta
          /\ fresh' = IF done.meta = server THEN fresh ELSE fresh + 2
          /\ IF done.ok THEN Answered(c, p, "push", done.reply) ELSE EndRound(c)
  BY DEF SendUpload, kind
<1>6. PICK done \in CommitEntry(m, r, fresh + 1) :
        /\ server' = done.meta
        /\ fresh' = IF done.meta = server THEN fresh ELSE fresh + 2
        /\ IF done.ok THEN Answered(c, p, "push", done.reply) ELSE EndRound(c)
  BY <1>5
<1> HIDE DEF r
<1>7. Sound(m, fresh + 1, fresh + 1) /\ Holds(m, N)
  BY <1>0, <1>4, EnsureParentHolds DEF ServerGood
<1>8. /\ Sound(done.meta, fresh + 1 + 1, fresh + 1 + 1)
      /\ Holds(done.meta, N)
      /\ done.ok => /\ done.reply \in Reply /\ done.reply.version \in Version
                    /\ done.reply.version.path \in {r.path} \cup CopyName
  <2>1. r.kind = "file" => r.content \in N[r.path] \cap Content
    BY <1>2, <1>3, <1>4
  <2>2. r.kind = "dir" => DirNode \in N[r.path]
    BY <1>3, <1>4
  <2> QED BY <1>0, <1>3, <1>4, <1>7, <2>1, <2>2, CommitHolds
<1>9. ServerGood(N)'
  <2>1. CASE done.meta = server
    BY <1>6, <2>1, ServerStays DEF store
  <2>2. CASE done.meta # server
    <3>1. fresh' = fresh + 1 + 1 /\ server' = done.meta
      BY <1>0, <1>6, <2>2
    <3> HIDE <1>6
    <3>2. fresh' \in Nat \ {0}
      BY <1>0, <3>1
    <3>3. (Sound(server, fresh, fresh) /\ Holds(server, N))'
      BY <1>8, <3>1 DEF Sound, Window, Below, Numbered, Headed, Chained, Holds
    <3> QED BY <3>2, <3>3 DEF ServerGood
  <2> QED BY <2>1, <2>2
<1>10. Engines(N)'
  <2>1. CASE done.ok
    BY <1>4, <1>6, <1>8, <2>1, AnsweredKeeps
  <2>2. CASE ~done.ok
    <3>1. EndRound(c)
      BY <1>6, <2>2
    <3>2. files' \in [Device -> GoodDir(N)] /\ \A d \in Device \ {c} : files'[d] = files[d]
      BY DEF Engines, Shaped
    <3> QED BY <3>1, <3>2, EndRoundKeeps
  <2> QED BY <2>1, <2>2
<1> QED BY <1>9, <1>10

LEMMA DeleteRemoteKeeps ==
  ASSUME NEW N, IsFit(N), ServerGood(N), Engines(N), NEW c \in Device, NEW p \in Path,
         DeleteRemote(c, p)
  PROVE  ServerGood(N)' /\ Engines(N)'
<1> DEFINE r == RequestFor(c, p, "delete")
           done == DeleteEntry(server, r, fresh)
<1>0. fresh \in Nat /\ fresh # 0
  BY DEF ServerGood
<1>1. /\ at[c] = "drop" /\ p \in todo[c]
      /\ UNCHANGED <<files, known, seen, touched>>
      /\ server' = done.meta
      /\ fresh' = IF done.meta = server THEN fresh ELSE fresh + 1
      /\ IF done.ok THEN Answered(c, p, "drop", done.reply) ELSE EndRound(c)
  BY DEF DeleteRemote, local
<1>2. r \in Request /\ r.kind = "delete"
  BY RequestIsTyped DEF Engines
<1> HIDE DEF r
<1>3. /\ Sound(done.meta, fresh + 1, fresh + 1)
      /\ Holds(done.meta, N)
      /\ done.ok => /\ done.reply \in Reply
                    /\ done.reply.status = "ok" => done.reply.version \in Version
  BY <1>0, <1>2, DeleteHolds DEF ServerGood
<1> HIDE DEF done
<1>4. ServerGood(N)'
  <2>1. CASE done.meta = server
    BY <1>1, <2>1, ServerStays DEF store
  <2>2. CASE done.meta # server
    <3>1. fresh' = fresh + 1 /\ server' = done.meta
      BY <1>1, <2>2
    <3>2. fresh' \in Nat \ {0}
      BY <1>0, <3>1
    <3>3. (Sound(server, fresh, fresh) /\ Holds(server, N))'
      BY <1>3, <3>1 DEF Sound, Window, Below, Numbered, Headed, Chained, Holds
    <3> QED BY <3>2, <3>3 DEF ServerGood
  <2> QED BY <2>1, <2>2
<1>5. Engines(N)'
  <2>1. CASE done.ok
    BY <1>1, <1>3, <2>1, AnsweredKeeps
  <2>2. CASE ~done.ok
    <3>1. files' \in [Device -> GoodDir(N)] /\ \A d \in Device \ {c} : files'[d] = files[d]
      BY <1>1 DEF Engines, Shaped
    <3> QED BY <1>1, <2>2, <3>1, EndRoundKeeps
  <2> QED BY <2>1, <2>2
<1> QED BY <1>4, <1>5

\* A user's edit.
LEMMA EditKeeps ==
  ASSUME NEW N, Engines(N), NEW c \in Device, NEW p \in Path, NEW fs \in GoodDir(N),
         NEW same \in BOOLEAN, Edit(c, p, fs, same)
  PROVE  Engines(N)'
<1>1. /\ files' \in [Device -> GoodDir(N)] /\ touched' \in [Device -> SUBSET Path]
      /\ \A d \in Device \ {c} : files'[d] = files[d] /\ touched'[d] = touched[d]
  BY DEF Engines, Shaped, Edit
<1>2. UNCHANGED <<known, seen, at, pass, queue, scan, todo, reply>>
  BY DEF Edit, round
<1>3. OnlyAt(c)
  BY <1>1, <1>2 DEF OnlyAt
<1>4. Shaped(N)'
  BY <1>1, <1>2 DEF Engines, Shaped
<1>5. MidRound(c, N)'
  BY <1>2 DEF Engines, MidRound, HasTarget, HasScan, Uploads, Deletes, HasAnswer
<1> QED BY <1>3, <1>4, <1>5, OneMoves


\* N as Sync needs it: what users make may be there, and the trash may bring a
\* content back to any path.
SuitsSync(N) ==
  /\ IsFit(N)
  /\ \A p \in Path : Content \subseteq N[p] /\ ("dir" \in KindsAt[p] => DirNode \in N[p])

Anywhere == [p \in Path |-> Node]

LEMMA AnywhereFits ==
  /\ SuitsSync(Anywhere) /\ IsFit(Anywhere)
  /\ \A p \in Path : Node \subseteq Anywhere[p]
<1>1. /\ IsFit(Anywhere)
      /\ \A p \in Path : Node \subseteq Anywhere[p]
  BY PathAssumption, SyncAssumption DEF Anywhere, IsFit, Node
<1> QED BY <1>1 DEF SuitsSync, Node

Bounded ==
  /\ edits \in 0..MaxEdits /\ aborts \in 0..MaxAborts
  /\ restores \in 0..MaxRestores /\ prunes \in 0..MaxPrunes
  /\ wanted \subseteq Content

SyncInv(N) == ServerGood(N) /\ Engines(N) /\ Bounded

\* A new space, whatever may be where.
LEMMA BeginsGood ==
  ASSUME NEW N, IsFit(N), Init
  PROVE  ServerGood(N) /\ Engines(N)
<1>1. ServerGood(N)
  <2>1. NewMetadata \in Metadata
    BY DEF NewMetadata, Metadata
  <2>2. Sound(NewMetadata, 1, 1)
    BY <2>1, LimitAssumption DEF NewMetadata, Sound, Window, Below, Numbered, Headed, Chained, HasVersion
  <2>3. Holds(NewMetadata, N)
    BY DEF NewMetadata, Holds
  <2> QED BY <2>2, <2>3 DEF Init, ServerGood
<1>2. Engines(N)
  <2>1. Nothing \in GoodDir(N) /\ Nothing \in [Path -> Node]
    BY NothingIsGood DEF GoodDir
  <2>2. <<>> \in Seq(GoodEvent(N))
    OBVIOUS
  <2>3. Shaped(N)
    BY <2>1, <2>2 DEF Init, Shaped, TransferPlaces, Places
  <2>4. ASSUME NEW c \in Device PROVE MidRound(c, N)
    <3>1. at[c] = "idle" /\ scan[c] = Nothing
      BY DEF Init
    <3> QED BY <2>1, <3>1 DEF MidRound, HasTarget, HasScan, Uploads, Deletes, HasAnswer
  <2> QED BY <2>3, <2>4 DEF Engines
<1> QED BY <1>1, <1>2

LEMMA SyncBegins ==
  ASSUME NEW N, SuitsSync(N), Init
  PROVE  SyncInv(N)
BY BeginsGood, SyncAssumption DEF Init, Bounded, SyncInv, SuitsSync

LEMMA ScanLocalKeeps ==
  ASSUME NEW N, Engines(N), NEW c \in Device, ScanLocal(c)
  PROVE  Engines(N)'
<1>1. /\ at[c] = "scan" /\ at'[c] = "push" /\ at' \in [Device -> TransferPlaces]
      /\ \A d \in Device \ {c} : at'[d] = at[d]
      /\ UNCHANGED <<files, known, seen, touched, pass, queue, reply>>
  BY DEF Engines, Shaped, ScanLocal, Go, TransferPlaces, Places, local
<1>2. /\ scan' \in [Device -> [Path -> Node]] /\ scan'[c] = files[c]
      /\ files[c] \in GoodDir(N)
      /\ \A d \in Device \ {c} : scan'[d] = scan[d]
  <2>1. files[c] \in GoodDir(N) /\ files[c] \in [Path -> Node]
    BY DEF Engines, Shaped, GoodDir
  <2> QED BY <2>1 DEF Engines, Shaped, ScanLocal
<1>3. /\ todo' \in [Device -> SUBSET Path] /\ todo'[c] = ToUpload(c, files[c])
      /\ \A d \in Device \ {c} : todo'[d] = todo[d]
  <2>1. ToUpload(c, files[c]) \subseteq Path
    BY DEF ToUpload
  <2> QED BY <2>1 DEF Engines, Shaped, ScanLocal
<1>4. \A p \in ToUpload(c, files[c]) : files[c][p] \in Content \cup {DirNode}
  BY DEF ToUpload
<1>5. OnlyAt(c)
  BY <1>1, <1>2, <1>3 DEF OnlyAt
<1>6. Shaped(N)'
  BY <1>1, <1>2, <1>3 DEF Engines, Shaped
<1>7. MidRound(c, N)'
  BY <1>1, <1>2, <1>3, <1>4 DEF MidRound, HasTarget, HasScan, Uploads, Deletes, HasAnswer
<1> QED BY <1>5, <1>6, <1>7, OneMoves

LEMMA UserKeeps ==
  ASSUME NEW N, SuitsSync(N), SyncInv(N), NEW c \in Device, User(c)
  PROVE  Engines(N)' /\ Bounded'
<1>1. Engines(N) /\ files[c] \in GoodDir(N)
  BY DEF SyncInv, Engines, Shaped
<1>2. PICK p \in Path, fs \in GoodDir(N), same \in BOOLEAN :
        edits < MaxEdits /\ Edit(c, p, fs, same)
  <2>1. ASSUME NEW p \in Path, RemovePath(c, p)
        PROVE  \E fs \in GoodDir(N) : edits < MaxEdits /\ Edit(c, p, fs, FALSE)
    <3> DEFINE fs == [q \in Path |-> IF q = p \/ Parent[q] = p THEN NoFile ELSE files[c][q]]
    <3>1. fs \in GoodDir(N)
      BY <1>1 DEF GoodDir, Node, SuitsSync, IsFit
    <3>2. edits < MaxEdits /\ Edit(c, p, fs, FALSE)
      BY <2>1 DEF RemovePath, MayEdit
    <3> QED BY <3>1, <3>2
  <2>2. ASSUME NEW p \in Path, MakeDir(c, p)
        PROVE  \E fs \in GoodDir(N) : edits < MaxEdits /\ Edit(c, p, fs, FALSE)
    <3>1. DirNode \in N[p] /\ IsFit(N)
      BY <2>2 DEF MakeDir, SuitsSync
    <3>2. [files[c] EXCEPT ![p] = DirNode] \in GoodDir(N)
      BY <1>1, <3>1, PutIsGood
    <3>3. edits < MaxEdits /\ Edit(c, p, [files[c] EXCEPT ![p] = DirNode], FALSE)
      BY <2>2 DEF MakeDir, MayEdit
    <3> QED BY <3>2, <3>3
  <2>3. ASSUME NEW p \in Path, NEW x \in Content, WriteFile(c, p, x)
        PROVE  \E fs \in GoodDir(N), same \in BOOLEAN : edits < MaxEdits /\ Edit(c, p, fs, same)
    <3>1. x \in N[p] /\ IsFit(N)
      BY DEF SuitsSync
    <3>2. [files[c] EXCEPT ![p] = x] \in GoodDir(N)
      BY <1>1, <3>1, PutIsGood
    <3>3. \E same \in BOOLEAN : edits < MaxEdits /\ Edit(c, p, [files[c] EXCEPT ![p] = x], same)
      BY <2>3 DEF WriteFile, MayEdit
    <3> QED BY <3>2, <3>3
  <2> QED BY <2>1, <2>2, <2>3 DEF User
<1>3. Engines(N)'
  BY <1>1, <1>2, EditKeeps
<1>4. Bounded'
  BY <1>2, SyncAssumption DEF SyncInv, Bounded, Edit
<1> QED BY <1>3, <1>4

\* What an engine does between requests and transfers.
LEMMA RoundKeeps ==
  ASSUME NEW N, IsFit(N), ServerGood(N), Engines(N), NEW c \in Device,
         \/ BeginRound(c) \/ SkipEvent(c) \/ Examine(c) \/ Settle(c) \/ EndPull(c)
         \/ RecordUpload(c) \/ EndUploads(c) \/ RecordDelete(c) \/ EndPush(c)
  PROVE  Engines(N)' /\ UNCHANGED <<store, bounds, wanted>>
<1>0. Holds(server, N)
  BY DEF ServerGood
<1>1. CASE BeginRound(c)
  BY <1>0, <1>1, BeginRoundKeeps DEF BeginRound
<1>2. CASE SkipEvent(c)
  BY <1>2, SkipEventKeeps DEF SkipEvent
<1>3. CASE Examine(c)
  BY <1>3, ExamineKeeps DEF Examine
<1>4. CASE Settle(c)
  BY <1>4, SettleKeeps DEF Settle
<1>5. CASE EndPull(c)
  BY <1>5, EndPullKeeps DEF EndPull
<1>6. CASE RecordUpload(c)
  BY <1>6, RecordUploadKeeps DEF RecordUpload
<1>7. CASE EndUploads(c)
  BY <1>7, EndUploadsKeeps DEF EndUploads
<1>8. CASE RecordDelete(c)
  BY <1>8, RecordDeleteKeeps DEF RecordDelete
<1>9. CASE EndPush(c)
  BY <1>0, <1>9, EndPushKeeps DEF EndPush
<1> QED BY <1>1, <1>2, <1>3, <1>4, <1>5, <1>6, <1>7, <1>8, <1>9

\* What an engine does in Sync.
LEMMA EngineKeeps ==
  ASSUME NEW N, SuitsSync(N), SyncInv(N), NEW c \in Device, Engine(c)
  PROVE  ServerGood(N)' /\ Engines(N)' /\ UNCHANGED <<bounds, wanted>>
<1>0. ServerGood(N) /\ Engines(N) /\ IsFit(N)
  BY DEF SyncInv, SuitsSync
<1>1. CASE \/ BeginRound(c) \/ SkipEvent(c) \/ Examine(c) \/ Settle(c) \/ EndPull(c)
           \/ RecordUpload(c) \/ EndUploads(c) \/ RecordDelete(c) \/ EndPush(c)
  BY <1>0, <1>1, RoundKeeps, ServerStays
<1>2. CASE Land(c)
  BY <1>0, <1>2, LandKeeps, ServerStays DEF Land
<1>3. CASE FailToLand(c)
  <2>1. EndRound(c) /\ UNCHANGED <<files, known, seen, touched, store, bounds, wanted>>
    BY <1>3 DEF FailToLand, local
  <2>2. files' \in [Device -> GoodDir(N)] /\ \A d \in Device \ {c} : files'[d] = files[d]
    BY <1>0, <2>1 DEF Engines, Shaped
  <2> QED BY <1>0, <2>1, <2>2, EndRoundKeeps, ServerStays
<1>4. CASE ScanLocal(c)
  BY <1>0, <1>4, ScanLocalKeeps, ServerStays DEF ScanLocal
<1>5. ASSUME NEW p \in Path, Upload(c, p)
      PROVE  ServerGood(N)' /\ Engines(N)' /\ UNCHANGED <<bounds, wanted>>
  <2>1. /\ at[c] = "push" /\ p \in todo[c]
        /\ UNCHANGED <<files, known, seen, touched, bounds, wanted>>
    BY <1>5 DEF Upload, local
  <2>2. CASE SendUpload(c, p)
    BY <1>0, <2>1, <2>2, SendUploadKeeps
  <2>3. CASE EndRound(c) /\ UNCHANGED store
    <3>1. files' \in [Device -> GoodDir(N)] /\ \A d \in Device \ {c} : files'[d] = files[d]
      BY <1>0, <2>1 DEF Engines, Shaped
    <3> QED BY <1>0, <2>1, <2>3, <3>1, EndRoundKeeps, ServerStays
  <2> QED BY <1>5, <2>2, <2>3 DEF Upload
<1>6. ASSUME NEW p \in Path, DeleteRemote(c, p)
      PROVE  ServerGood(N)' /\ Engines(N)' /\ UNCHANGED <<bounds, wanted>>
  BY <1>0, <1>6, DeleteRemoteKeeps DEF DeleteRemote
<1> QED BY <1>1, <1>2, <1>3, <1>4, <1>5, <1>6 DEF Engine

LEMMA SyncStepsKeep ==
  ASSUME NEW N, SuitsSync(N), SyncInv(N), [Next]_vars
  PROVE  SyncInv(N)'
<1>0. ServerGood(N) /\ Engines(N) /\ Bounded /\ IsFit(N)
  BY DEF SyncInv, SuitsSync
<1>1. ASSUME NEW c \in Device, User(c) PROVE SyncInv(N)'
  <2>1. UNCHANGED store
    BY <1>1 DEF User, RemovePath, MakeDir, WriteFile, Edit
  <2> QED BY <1>0, <1>1, <2>1, UserKeeps, ServerStays DEF SyncInv
<1>2. ASSUME NEW c \in Device, Engine(c) PROVE SyncInv(N)'
  <2>1. ServerGood(N)' /\ Engines(N)' /\ UNCHANGED <<bounds, wanted>>
    BY <1>2, EngineKeeps
  <2>2. Bounded'
    BY <1>0, <2>1 DEF Bounded, bounds
  <2> QED BY <2>1, <2>2 DEF SyncInv
<1>3. ASSUME NEW c \in Device, Abort(c) PROVE SyncInv(N)'
  <2>1. /\ EndRound(c) /\ UNCHANGED <<files, known, seen, touched, store, edits, restores, prunes, wanted>>
        /\ aborts < MaxAborts /\ aborts' = aborts + 1
    BY <1>3 DEF Abort, local
  <2>2. files' \in [Device -> GoodDir(N)] /\ \A d \in Device \ {c} : files'[d] = files[d]
    BY <1>0, <2>1 DEF Engines, Shaped
  <2>3. Engines(N)'
    BY <1>0, <2>1, <2>2, EndRoundKeeps
  <2>4. Bounded'
    BY <1>0, <2>1, SyncAssumption DEF Bounded
  <2> QED BY <1>0, <2>1, <2>3, <2>4, ServerStays DEF SyncInv
<1>4. ASSUME NEW p \in Path, RestoreTrash(p) PROVE SyncInv(N)'
  <2>1. /\ restores < MaxRestores /\ restores' = restores + 1
        /\ IsTombstone(server.files[p]) /\ Restorable(server, p) # NoContent
        /\ server' = Install(server, Restored(server, p, fresh)) /\ fresh' = fresh + 1
        /\ UNCHANGED <<local, round, edits, aborts, prunes, wanted>>
    BY <1>4 DEF RestoreTrash
  <2>2. fresh \in Nat /\ Sound(server, fresh, fresh) /\ Holds(server, N)
    BY <1>0 DEF ServerGood
  <2>3. Content \subseteq N[p]
    BY DEF SuitsSync
  <2>4. /\ Sound(server', fresh', fresh') /\ Holds(server', N)
        /\ fresh' \in Nat \ {0}
    BY <2>1, <2>2, <2>3, RestoreHolds
  <2>5. ServerGood(N)'
    BY <2>4 DEF ServerGood, Sound, Window, Below, Numbered, Headed, Chained, Holds
  <2>6. Engines(N)'
    BY <1>0, <2>1, EnginesStay
  <2>7. Bounded'
    BY <1>0, <2>1, SyncAssumption DEF Bounded
  <2> QED BY <2>5, <2>6, <2>7 DEF SyncInv
<1>5. ASSUME NEW k \in 0..fresh, PruneTrash(k) PROVE SyncInv(N)'
  <2>1. /\ prunes < MaxPrunes /\ prunes' = prunes + 1
        /\ server' = Prune(server, k) /\ fresh' = fresh
        /\ UNCHANGED <<local, round, edits, aborts, restores, wanted>>
    BY <1>5 DEF PruneTrash
  <2>2. fresh \in Nat \ {0} /\ Sound(server, fresh, fresh) /\ Holds(server, N)
    BY <1>0 DEF ServerGood
  <2>3. Sound(server', fresh', fresh') /\ Holds(server', N)
    BY <2>1, <2>2, PruneHolds
  <2>4. ServerGood(N)'
    BY <2>1, <2>2, <2>3 DEF ServerGood, Sound, Window, Below, Numbered, Headed, Chained, Holds
  <2>5. Engines(N)'
    BY <1>0, <2>1, EnginesStay
  <2>6. Bounded'
    BY <1>0, <2>1, SyncAssumption DEF Bounded
  <2> QED BY <2>4, <2>5, <2>6 DEF SyncInv
<1>6. CASE UNCHANGED vars
  <2>1. UNCHANGED <<store, local, round, bounds, wanted>>
    BY <1>6 DEF vars
  <2>2. Bounded'
    BY <1>0, <2>1 DEF Bounded, bounds
  <2> QED BY <1>0, <2>1, <2>2, EnginesStay, ServerStays DEF SyncInv
<1> QED BY <1>1, <1>2, <1>3, <1>4, <1>5, <1>6 DEF Next

-----------------------------------------------------------------------------
(* Types of Sync. *)

\* Sync's own steps leave an engine at one of Sync's places.
LEMMA PlacesKeep ==
  ASSUME Engines(Anywhere), \A c \in Device : at[c] \in Places, [Next]_vars
  PROVE  \A c \in Device : at'[c] \in Places
<1>1. at \in [Device -> TransferPlaces]
  BY DEF Engines, Shaped
<1>2. ASSUME NEW c \in Device, NEW place \in Places, Go(c, place)
      PROVE  \A d \in Device : at'[d] \in Places
  BY <1>1, <1>2 DEF Go
<1>3. ASSUME NEW c \in Device, EndRound(c)
      PROVE  \A d \in Device : at'[d] \in Places
  BY <1>2, <1>3 DEF EndRound, Places
<1>4. ASSUME NEW c \in Device, User(c)
      PROVE  \A d \in Device : at'[d] \in Places
  BY <1>4 DEF User, RemovePath, MakeDir, WriteFile, Edit, round
<1>5. ASSUME NEW c \in Device, Engine(c)
      PROVE  \A d \in Device : at'[d] \in Places
  <2>1. CASE BeginRound(c) \/ Settle(c) \/ Land(c)
    BY <1>2, <2>1 DEF BeginRound, Settle, Land, Places
  <2>2. CASE SkipEvent(c)
    BY <2>2 DEF SkipEvent
  <2>3. CASE Examine(c)
    BY <1>2, <2>3 DEF Examine, Places
  <2>4. CASE FailToLand(c)
    BY <1>3, <2>4 DEF FailToLand
  <2>5. CASE EndPull(c)
    BY <1>2, <1>3, <2>5 DEF EndPull, Places
  <2>6. CASE ScanLocal(c) \/ EndUploads(c) \/ RecordDelete(c) \/ EndPush(c)
    BY <1>2, <2>6 DEF ScanLocal, EndUploads, RecordDelete, EndPush, Places
  <2>7. CASE RecordUpload(c)
    BY <1>2, <1>3, <2>7 DEF RecordUpload, Places
  <2>8. ASSUME NEW p \in Path, Upload(c, p) \/ DeleteRemote(c, p)
        PROVE  \A d \in Device : at'[d] \in Places
    <3>1. Go(c, "answer") \/ EndRound(c)
      BY <2>8 DEF Upload, SendUpload, DeleteRemote, Answered
    <3> QED BY <1>2, <1>3, <3>1 DEF Places
  <2> QED BY <1>5, <2>1, <2>2, <2>3, <2>4, <2>5, <2>6, <2>7, <2>8 DEF Engine
<1>6. ASSUME NEW c \in Device, Abort(c)
      PROVE  \A d \in Device : at'[d] \in Places
  BY <1>3, <1>6 DEF Abort
<1>7. CASE (\E p \in Path : RestoreTrash(p)) \/ (\E k \in 0..fresh : PruneTrash(k)) \/ UNCHANGED vars
  BY <1>7 DEF RestoreTrash, PruneTrash, vars, round
<1> QED BY <1>4, <1>5, <1>6, <1>7 DEF Next

LEMMA SyncIsTyped ==
  ASSUME SyncInv(Anywhere), \A c \in Device : at[c] \in Places
  PROVE  TypeOK
<1>1. Shaped(Anywhere) /\ ServerGood(Anywhere) /\ Bounded
  BY DEF SyncInv, Engines
<1>2. server \in Metadata /\ fresh \in Nat \ {0}
  BY <1>1 DEF ServerGood, Sound
<1>3. files \in [Device -> [Path -> Node]]
  BY <1>1 DEF Shaped, GoodDir
<1>4. queue \in [Device -> Seq(Event)]
  <2>1. \A c \in Device : queue[c] \in Seq(Event)
    BY <1>1, GoodIsTyped DEF Shaped
  <2> QED BY <1>1, <2>1 DEF Shaped
<1>5. at \in [Device -> Places]
  BY <1>1 DEF Shaped
<1>6. reply \in [Device -> [path : Path, kind : {"push", "drop"}, reply : Reply] \cup {NoWork}]
  BY <1>1 DEF Shaped, Answer
<1> QED BY <1>1, <1>2, <1>3, <1>4, <1>5, <1>6 DEF TypeOK, Shaped, Bounded

\* Every variable of Sync keeps its type, and the store its order, whatever the
\* engines, the users and the trash do (SyncOnce).
THEOREM SyncTyped == Spec => []TypeOK
<1>1. Init => SyncInv(Anywhere) /\ \A c \in Device : at[c] \in Places
  BY SyncBegins, AnywhereFits DEF Init, Places
<1>2. SyncInv(Anywhere) /\ (\A c \in Device : at[c] \in Places) /\ [Next]_vars
        => SyncInv(Anywhere)' /\ (\A c \in Device : at[c] \in Places)'
  BY SyncStepsKeep, PlacesKeep, AnywhereFits DEF SyncInv
<1>3. SyncInv(Anywhere) /\ (\A c \in Device : at[c] \in Places) => TypeOK
  BY SyncIsTyped
<1> QED BY <1>1, <1>2, <1>3, PTL DEF Spec

-----------------------------------------------------------------------------
(* Transfers: what an engine is at. *)

\* N as before, without directories; what a scan may have read of a file that
\* it has not read to the end is in M.
IsFitFor(N, M) ==
  /\ IsFit(N)
  /\ \A p \in Path : N[p] \subseteq Content \cup {NoFile}
  /\ \A p \in TempName : Content \subseteq N[p]
  /\ \A p \in UserPath : Text \subseteq N[p]
  /\ M \in [Path -> SUBSET Content]
  /\ \A p \in Path : \A f \in N[p] \cap Content :
       /\ <<>> \in M[p]
       /\ \A x \in M[p] :
            /\ Len(x) < Len(f) => Append(x, f[Len(x) + 1]) \in M[p]
            /\ Len(x) >= Len(f) => x \in N[p]

\* A temporary file is there while its chunks come.
PartWay(c) ==
  job[c].part # <<>> =>
    /\ at[c] = "land"
    /\ IsFileEvent(c)
    /\ Len(job[c].part) <= Len(Target(c).content)

\* The scan is about to read files, and has read what may be.
Reading(c, N, M) ==
  at[c] = "read" =>
    \A p \in Path : IF p \in job[c].unread
                      THEN files[c][p] \in Content /\ scan[c][p] \in M[p]
                      ELSE scan[c][p] \in N[p]

\* The file being sent is still to be uploaded.
Sends(c) == at[c] \in Sending => job[c].path \in todo[c]

OnIt(c, N, M) == PartWay(c) /\ Reading(c, N, M) /\ Sends(c)

Jobs(N, M) == job \in [Device -> Job] /\ \A c \in Device : OnIt(c, N, M)

LEMMA JobMoves ==
  ASSUME NEW N, NEW M, Jobs(N, M), NEW c \in Device, OnlyAt(c),
         job' \in [Device -> Job], \A d \in Device \ {c} : job'[d] = job[d],
         OnIt(c, N, M)'
  PROVE  Jobs(N, M)'
<1>1. ASSUME NEW d \in Device, d # c PROVE OnIt(d, N, M)'
  <2>1. OnIt(d, N, M)
    BY DEF Jobs
  <2>2. /\ files'[d] = files[d] /\ at'[d] = at[d] /\ queue'[d] = queue[d]
        /\ scan'[d] = scan[d] /\ todo'[d] = todo[d] /\ job'[d] = job[d]
    BY <1>1 DEF OnlyAt
  <2>3. PartWay(d)'
    BY <2>1, <2>2 DEF OnIt, PartWay, IsFileEvent, Target, Current
  <2>4. Reading(d, N, M)' /\ Sends(d)'
    BY <2>1, <2>2 DEF OnIt, Reading, Sends
  <2> QED BY <2>3, <2>4 DEF OnIt
<1> QED BY <1>1 DEF Jobs

LEMMA NoJobIsOne == NoJob \in Job /\ NoJob.part = <<>>
BY DEF NoJob, Job

\* A step that leaves the engine with nothing in hand.
LEMMA DropJob ==
  ASSUME NEW N, NEW M, Jobs(N, M), NEW c \in Device, OnlyAt(c),
         job' = [job EXCEPT ![c] = NoJob],
         at'[c] \notin {"read"} \cup Sending
  PROVE  Jobs(N, M)'
<1>1. /\ job' \in [Device -> Job] /\ job'[c] = NoJob
      /\ \A d \in Device \ {c} : job'[d] = job[d]
  BY NoJobIsOne DEF Jobs
<1>2. OnIt(c, N, M)'
  BY <1>1, NoJobIsOne DEF OnIt, PartWay, Reading, Sends
<1> QED BY <1>1, <1>2, JobMoves

\* A step between transfers.
LEMMA KeepJob ==
  ASSUME NEW N, NEW M, Jobs(N, M), NEW c \in Device, OnlyAt(c),
         job' = job, at[c] # "land" \/ ~IsFileEvent(c),
         at'[c] \notin {"read"} \cup Sending
  PROVE  Jobs(N, M)'
<1>1. job[c].part = <<>>
  BY DEF Jobs, OnIt, PartWay
<1>2. OnIt(c, N, M)'
  BY <1>1 DEF OnIt, PartWay, Reading, Sends
<1> QED BY <1>2, JobMoves DEF Jobs

LEMMA EndRoundMoves ==
  ASSUME NEW N, Engines(N), NEW c \in Device, EndRound(c),
         UNCHANGED <<known, seen, touched>>,
         \A d \in Device \ {c} : files'[d] = files[d]
  PROVE  OnlyAt(c) /\ at'[c] = "idle"
BY DEF Engines, Shaped, EndRound, Go, OnlyAt

LEMMA AnsweredMoves ==
  ASSUME NEW N, Engines(N), NEW c \in Device, NEW p, NEW kind, NEW r,
         Answered(c, p, kind, r), UNCHANGED <<files, known, seen, touched>>
  PROVE  OnlyAt(c) /\ at'[c] = "answer"
BY DEF Engines, Shaped, Answered, Go, OnlyAt

\* What Sync's engine does between requests moves one engine.
LEMMA RoundMoves ==
  ASSUME NEW N, Engines(N), NEW c \in Device,
         \/ BeginRound(c) \/ SkipEvent(c) \/ Examine(c) \/ Settle(c) \/ EndPull(c)
         \/ RecordUpload(c) \/ EndUploads(c) \/ RecordDelete(c) \/ EndPush(c)
  PROVE  OnlyAt(c) /\ at[c] # "land" /\ at'[c] \notin {"read"} \cup Sending
<1>1. /\ at \in [Device -> TransferPlaces]
      /\ DOMAIN files = Device /\ DOMAIN known = Device /\ DOMAIN seen = Device
      /\ DOMAIN pass = Device /\ DOMAIN queue = Device /\ DOMAIN scan = Device
      /\ DOMAIN todo = Device /\ DOMAIN reply = Device /\ DOMAIN touched = Device
  BY DEF Engines, Shaped
<1>2. CASE BeginRound(c) \/ SkipEvent(c)
  BY <1>1, <1>2 DEF BeginRound, SkipEvent, MarkSeen, Fetch, Go, OnlyAt, local, Sending
<1>3. CASE Examine(c)
  <2>1. \E place \in {"land", "settle"} : at' = [at EXCEPT ![c] = place]
    BY <1>3 DEF Examine, Go
  <2>2. \A d \in Device \ {c} : files'[d] = files[d]
    BY <1>1, <1>3 DEF Examine
  <2> QED BY <1>1, <1>3, <2>1, <2>2 DEF Examine, OnlyAt, Sending
<1>4. CASE Settle(c)
  BY <1>1, <1>4 DEF Settle, SetKnown, MarkSeen, Go, OnlyAt, Sending
<1>5. CASE EndPull(c)
  <2>1. /\ at[c] = "pull" /\ UNCHANGED <<known, seen, touched>>
        /\ \A d \in Device \ {c} : files'[d] = files[d]
    BY <1>1, <1>5 DEF EndPull
  <2>2. CASE Go(c, "scan") /\ UNCHANGED <<pass, queue, scan, todo, reply>>
    BY <1>1, <2>1, <2>2 DEF Go, OnlyAt, Sending
  <2>3. CASE EndRound(c)
    BY <2>1, <2>3, EndRoundMoves DEF Sending
  <2> QED BY <1>5, <2>2, <2>3 DEF EndPull
<1>6. CASE RecordUpload(c)
  <2> DEFINE p == reply[c].path
             v == reply[c].reply.version
             renamed == v.path # p /\ scan[c][p] # DirNode
  <2>1. at[c] = "answer"
    BY <1>6 DEF RecordUpload
  <2>2. CASE renamed /\ files[c][p] = NoFile
    <3>1. EndRound(c) /\ UNCHANGED <<files, known, seen, touched>>
      BY <1>6, <2>2 DEF RecordUpload, local
    <3> QED BY <2>1, <3>1, EndRoundMoves DEF Sending
  <2>3. CASE ~(renamed /\ files[c][p] = NoFile)
    <3>1. /\ \A d \in Device \ {c} : files'[d] = files[d] /\ known'[d] = known[d]
          /\ Go(c, "push")
          /\ \A d \in Device \ {c} : touched'[d] = touched[d] /\ reply'[d] = reply[d]
          /\ UNCHANGED <<seen, pass, queue, scan, todo>>
      BY <1>1, <1>6, <2>3 DEF RecordUpload
    <3> QED BY <1>1, <2>1, <3>1 DEF Go, OnlyAt, Sending
  <2> QED BY <2>2, <2>3
<1>7. CASE EndUploads(c)
  BY <1>1, <1>7 DEF EndUploads, Go, OnlyAt, local, Sending
<1>8. CASE RecordDelete(c)
  <2>1. \A d \in Device \ {c} : known'[d] = known[d] /\ touched'[d] = touched[d]
    BY <1>1, <1>8 DEF RecordDelete, SetKnown
  <2> QED BY <1>1, <1>8, <2>1 DEF RecordDelete, Go, OnlyAt, Sending
<1>9. CASE EndPush(c)
  BY <1>1, <1>9 DEF EndPush, Fetch, Go, OnlyAt, local, Sending
<1> QED BY <1>2, <1>3, <1>4, <1>5, <1>6, <1>7, <1>8, <1>9

-----------------------------------------------------------------------------
(* Downloads. *)

\* The disk, and the bound on what goes wrong.
Disk(N) ==
  /\ Sound(saved.meta, fresh, fresh) /\ Holds(saved.meta, N)
  /\ stored \subseteq Chunk /\ saved.granted \subseteq granted
  /\ aborts \in Nat /\ failures \in Nat /\ restarts \in Nat
  /\ aborts + failures + restarts <= MaxFaults

LEMMA BoundIsNat == MaxFaults \in Nat
BY TransferAssumption

\* What was saved is as good as it was.
LEMMA SavedStays ==
  ASSUME NEW N, Disk(N), UNCHANGED <<fresh, saved>>
  PROVE  Sound(saved.meta, fresh, fresh)' /\ Holds(saved.meta, N)'
BY DEF Disk, Holds, Sound, Window, Below, Numbered, Headed, Chained

LEMMA DiskGrows ==
  ASSUME NEW N, Disk(N), UNCHANGED <<fresh, granted, saved, aborts, failures, restarts>>,
         stored' \subseteq Chunk
  PROVE  Disk(N)'
<1>1. Sound(saved.meta, fresh, fresh)' /\ Holds(saved.meta, N)'
  BY SavedStays
<1> QED BY <1>1 DEF Disk

LEMMA DiskStays ==
  ASSUME NEW N, Disk(N), UNCHANGED <<fresh, stored, granted, saved, aborts, failures, restarts>>
  PROVE  Disk(N)'
<1>1. stored' \subseteq Chunk
  BY DEF Disk
<1> QED BY <1>1, DiskGrows

LEMMA AbortCounts ==
  ASSUME NEW N, Disk(N), UNCHANGED <<fresh, stored, granted, saved, failures, restarts>>,
         aborts' = aborts + 1, aborts + failures + restarts < MaxFaults
  PROVE  Disk(N)'
<1>1. Sound(saved.meta, fresh, fresh)' /\ Holds(saved.meta, N)'
  BY SavedStays
<1>2. /\ stored' \subseteq Chunk /\ saved'.granted \subseteq granted'
      /\ aborts' \in Nat /\ failures' \in Nat /\ restarts' \in Nat
  BY DEF Disk
<1>3. (aborts + failures + restarts)' <= MaxFaults
  BY BoundIsNat DEF Disk
<1> QED BY <1>1, <1>2, <1>3 DEF Disk

TInv(N, M) ==
  ServerGood(N) /\ Disk(N) /\ Engines(N) /\ Jobs(N, M) /\ DInv

\* Everything but DInv, which has been dealt with.
Goes(N, M) == ServerGood(N) /\ Disk(N) /\ Engines(N) /\ Jobs(N, M)

\* A step of one engine alone.
LEMMA AloneKeeps ==
  ASSUME NEW N, NEW M, TInv(N, M), UNCHANGED <<store, bounds, disks>>,
         Engines(N)', Jobs(N, M)'
  PROVE  Goes(N, M)'
<1>1. ServerGood(N)'
  BY ServerStays DEF TInv
<1>2. Disk(N)'
  BY DiskStays DEF TInv, store, bounds, disks
<1> QED BY <1>1, <1>2 DEF Goes

\* A round that ends with an error.
LEMMA RestGoes ==
  ASSUME NEW N, NEW M, IsFit(N), TInv(N, M), NEW c \in Device, Rest(c),
         UNCHANGED <<files, known, seen, touched>>
  PROVE  Engines(N)' /\ Jobs(N, M)'
<1>1. EndRound(c) /\ job' = [job EXCEPT ![c] = NoJob]
  BY DEF Rest, Doing
<1>2. Engines(N) /\ Jobs(N, M)
  BY DEF TInv
<1>3. files' \in [Device -> GoodDir(N)] /\ \A d \in Device \ {c} : files'[d] = files[d]
  BY <1>2 DEF Engines, Shaped
<1>4. Engines(N)'
  BY <1>1, <1>2, <1>3, EndRoundKeeps
<1>5. OnlyAt(c) /\ at'[c] = "idle"
  BY <1>1, <1>2, <1>3, EndRoundMoves
<1>6. Jobs(N, M)'
  BY <1>1, <1>2, <1>5, DropJob DEF Sending
<1> QED BY <1>4, <1>6

LEMMA SyncStepGoes ==
  ASSUME NEW N, NEW M, IsFit(N), TInv(N, M), NEW c \in Device, SyncStep(c)
  PROVE  Goes(N, M)'
<1>1. /\ UNCHANGED <<disks, job>>
      /\ \/ BeginRound(c) \/ SkipEvent(c) \/ Examine(c) \/ Settle(c) \/ EndPull(c)
         \/ RecordUpload(c) \/ EndUploads(c) \/ RecordDelete(c) \/ EndPush(c)
  BY DEF SyncStep
<1>2. ServerGood(N) /\ Engines(N) /\ Jobs(N, M)
  BY DEF TInv
<1>3. Engines(N)' /\ UNCHANGED <<store, bounds>>
  BY <1>1, <1>2, RoundKeeps
<1>4. OnlyAt(c) /\ at[c] # "land" /\ at'[c] \notin {"read"} \cup Sending
  BY <1>1, <1>2, RoundMoves
<1>5. Jobs(N, M)'
  BY <1>1, <1>2, <1>4, KeepJob
<1> QED BY <1>1, <1>3, <1>5, AloneKeeps

LEMMA LandTombstoneGoes ==
  ASSUME NEW N, NEW M, IsFit(N), TInv(N, M), NEW c \in Device, LandTombstone(c)
  PROVE  Goes(N, M)'
<1>1. /\ Land(c) /\ ~IsFileEvent(c) /\ UNCHANGED <<disks, job, store, bounds>>
      /\ at' = [at EXCEPT ![c] = "settle"]
      /\ files' = [files EXCEPT ![c] = Landed(@, Target(c))]
      /\ UNCHANGED <<known, seen, touched, pass, queue, scan, todo, reply>>
  BY DEF LandTombstone, Land, Go
<1>2. Engines(N) /\ Jobs(N, M)
  BY DEF TInv
<1>3. Engines(N)'
  BY <1>1, <1>2, LandKeeps
<1>4. OnlyAt(c) /\ at'[c] = "settle"
  BY <1>1, <1>2 DEF Engines, Shaped, OnlyAt
<1>5. Jobs(N, M)'
  BY <1>1, <1>2, <1>4, KeepJob DEF Sending
<1> QED BY <1>1, <1>3, <1>5, AloneKeeps

\* What is fetched is a part of the content, and a part is a content.
LEMMA FetchChunkGoes ==
  ASSUME NEW N, NEW M, IsFit(N), TInv(N, M), NEW c \in Device, FetchChunk(c)
  PROVE  Goes(N, M)'
<1>0. Engines(N) /\ Jobs(N, M)
  BY DEF TInv
<1>1. /\ at[c] = "land" /\ IsFileEvent(c) /\ IsIncomplete(c)
      /\ UNCHANGED <<store, files, known, seen, touched, bounds, disks>>
  BY DEF FetchChunk, local
<1>2. CASE Available(NextChunk(c))
  <2> DEFINE j == [job[c] EXCEPT !.part = Append(@, NextChunk(c))]
  <2>1. /\ job' = [job EXCEPT ![c] = j]
        /\ UNCHANGED <<at, pass, queue, scan, todo, reply>>
    BY <1>2 DEF FetchChunk, Doing, round
  <2>2. Engines(N)'
    BY <1>0, <1>1, <2>1, EnginesStay DEF local, round
  <2>3. OnlyAt(c)
    BY <1>1, <2>1 DEF OnlyAt
  <2>4. Target(c).content \in Seq(Chunk)
    <3>1. Target(c) \in GoodVersion(N) /\ Target(c).state = "file"
      BY <1>0, <1>1, TargetIsGood DEF Engines, MidRound, HasTarget, IsFileEvent
    <3> QED BY <3>1, TransferAssumption DEF GoodVersion
  <2>5. job[c] \in Job /\ job[c].part \in Seq(Chunk) /\ Len(job[c].part) < Len(Target(c).content)
    BY <1>0, <1>1 DEF Jobs, Job, IsIncomplete
  <2>6. NextChunk(c) \in Chunk
    BY <2>4, <2>5 DEF NextChunk
  <2>7. j \in Job /\ j.part = Append(job[c].part, NextChunk(c))
    <3>1. Append(job[c].part, NextChunk(c)) \in Seq(Chunk)
      BY <2>5, <2>6
    <3>2. j = [job[c] EXCEPT !.part = Append(job[c].part, NextChunk(c))]
      BY Zenon
    <3> HIDE DEF j
    <3> DEFINE longer == Append(job[c].part, NextChunk(c))
    <3> HIDE DEF longer
    <3>3. j = [job[c] EXCEPT !.part = longer] /\ longer \in Seq(Chunk)
      BY <3>1, <3>2 DEF longer
    <3>4. j \in Job /\ j.part = longer
      BY <2>5, <3>3 DEF Job
    <3> QED BY <3>4 DEF longer
  <2>8. Len(j.part) <= Len(Target(c).content)
    BY <2>4, <2>5, <2>6, <2>7
  <2> HIDE DEF j
  <2>9. /\ job' \in [Device -> Job] /\ job'[c] = j
        /\ \A d \in Device \ {c} : job'[d] = job[d]
    BY <1>0, <2>1, <2>7 DEF Jobs
  <2>10. PartWay(c)'
    BY <1>1, <2>1, <2>8, <2>9 DEF PartWay, IsFileEvent, Target, Current
  <2>11. OnIt(c, N, M)'
    BY <1>1, <2>1, <2>10 DEF OnIt, Reading, Sends, Sending
  <2>12. Jobs(N, M)'
    BY <1>0, <2>3, <2>9, <2>11, JobMoves
  <2> QED BY <1>1, <2>2, <2>12, AloneKeeps
<1>3. CASE ~Available(NextChunk(c))
  <2>1. Rest(c)
    BY <1>3 DEF FetchChunk
  <2>2. Engines(N)' /\ Jobs(N, M)'
    BY <1>1, <2>1, RestGoes
  <2> QED BY <1>1, <2>2, AloneKeeps
<1> QED BY <1>2, <1>3

LEMMA ReplaceGoes ==
  ASSUME NEW N, NEW M, IsFit(N), TInv(N, M), NEW c \in Device, Replace(c)
  PROVE  Goes(N, M)'
<1>0. Engines(N) /\ Jobs(N, M)
  BY DEF TInv
<1>1. /\ at[c] = "land" /\ IsFileEvent(c)
      /\ files' = [files EXCEPT ![c][Target(c).path] = Target(c).content]
      /\ at' = [at EXCEPT ![c] = "verify"]
      /\ job' = [job EXCEPT ![c] = NoJob]
      /\ UNCHANGED <<store, known, seen, touched, pass, queue, scan, todo, reply, bounds, disks>>
  BY DEF Replace, Go, Doing
<1>2. queue[c] # <<>> /\ files \in [Device -> GoodDir(N)] /\ Shaped(N)
  BY <1>0, <1>1 DEF Engines, Shaped, MidRound, HasTarget
<1>3. Target(c).path \in Path /\ Target(c).content \in N[Target(c).path]
  BY <1>1, <1>2, TargetIsGood DEF IsFileEvent, GoodVersion, Version
<1>4. [files[c] EXCEPT ![Target(c).path] = Target(c).content] \in GoodDir(N)
  BY <1>2, <1>3, PutIsGood
<1>5. /\ files' \in [Device -> GoodDir(N)]
      /\ \A d \in Device \ {c} : files'[d] = files[d]
  BY <1>1, <1>2, <1>4
<1>6. Engines(N)'
  BY <1>0, <1>1, <1>2, <1>5, WalkEngine
<1>7. OnlyAt(c) /\ at'[c] = "verify"
  BY <1>0, <1>1, <1>5 DEF OnlyAt, Engines, Shaped
<1>8. Jobs(N, M)'
  BY <1>0, <1>1, <1>7, DropJob DEF Sending
<1> QED BY <1>1, <1>6, <1>8, AloneKeeps

LEMMA VerifyGoes ==
  ASSUME NEW N, NEW M, IsFit(N), TInv(N, M), NEW c \in Device, Verify(c)
  PROVE  Goes(N, M)'
<1>0. Engines(N) /\ Jobs(N, M)
  BY DEF TInv
<1>1. /\ at[c] = "verify"
      /\ UNCHANGED <<store, files, known, seen, touched, bounds, disks>>
  BY DEF Verify, local
<1>2. CASE at' = [at EXCEPT ![c] = "settle"] /\ UNCHANGED <<pass, queue, scan, todo, reply, job>>
  <2>1. queue[c] # <<>> /\ files' \in [Device -> GoodDir(N)]
        /\ \A d \in Device \ {c} : files'[d] = files[d]
    BY <1>0, <1>1 DEF Engines, Shaped, MidRound, HasTarget
  <2>2. Engines(N)'
    BY <1>0, <1>1, <1>2, <2>1, WalkEngine
  <2>3. OnlyAt(c) /\ at'[c] = "settle"
    BY <1>0, <1>1, <1>2, <2>1 DEF OnlyAt, Engines, Shaped
  <2>4. Jobs(N, M)'
    BY <1>0, <1>1, <1>2, <2>3, KeepJob DEF Sending
  <2> QED BY <1>1, <2>2, <2>4, AloneKeeps
<1>3. CASE Rest(c)
  <2>1. Engines(N)' /\ Jobs(N, M)'
    BY <1>1, <1>3, RestGoes
  <2> QED BY <1>1, <2>1, AloneKeeps
<1> QED BY <1>2, <1>3 DEF Verify, Go

-----------------------------------------------------------------------------
(* The scan. *)

\* A device that moves, with its scan.
LEMMA ScanMoves ==
  ASSUME NEW N, NEW M, TInv(N, M), NEW c \in Device,
         UNCHANGED <<files, known, seen, touched, pass, queue, reply>>,
         NEW place \in TransferPlaces,
         at' = [at EXCEPT ![c] = place],
         NEW found \in [Path -> Node],
         scan' = [scan EXCEPT ![c] = found],
         NEW rest \in SUBSET Path,
         todo' = [todo EXCEPT ![c] = rest],
         NEW j \in Job,
         job' = [job EXCEPT ![c] = j],
         place \in {"read", "push"},
         place # "read" =>
           found \in GoodDir(N) /\ \A p \in rest : found[p] \in Content \cup {DirNode},
         OnIt(c, N, M)'
  PROVE  Engines(N)' /\ Jobs(N, M)'
<1>0. Engines(N) /\ Jobs(N, M)
  BY DEF TInv
<1>1. /\ at'[c] = place /\ at' \in [Device -> TransferPlaces]
      /\ \A d \in Device \ {c} : at'[d] = at[d]
  BY <1>0 DEF Engines, Shaped
<1>2. /\ scan' \in [Device -> [Path -> Node]] /\ scan'[c] = found
      /\ \A d \in Device \ {c} : scan'[d] = scan[d]
  BY <1>0 DEF Engines, Shaped
<1>3. /\ todo' \in [Device -> SUBSET Path] /\ todo'[c] = rest
      /\ \A d \in Device \ {c} : todo'[d] = todo[d]
  BY <1>0 DEF Engines, Shaped
<1>4. /\ job' \in [Device -> Job] /\ job'[c] = j
      /\ \A d \in Device \ {c} : job'[d] = job[d]
  BY <1>0 DEF Jobs
<1>5. OnlyAt(c)
  BY <1>1, <1>2, <1>3 DEF OnlyAt
<1>6. Shaped(N)'
  BY <1>0, <1>1, <1>2, <1>3 DEF Engines, Shaped
<1>7. MidRound(c, N)'
  BY <1>1, <1>2, <1>3 DEF MidRound, HasTarget, HasScan, Uploads, Deletes, HasAnswer
<1>8. Engines(N)'
  BY <1>0, <1>5, <1>6, <1>7, OneMoves
<1>9. Jobs(N, M)'
  BY <1>0, <1>4, <1>5, JobMoves
<1> QED BY <1>8, <1>9

LEMMA JobWith ==
  ASSUME NEW j \in Job
  PROVE  /\ \A s \in SUBSET Path : LET k == [j EXCEPT !.unread = s]
                                   IN  k \in Job /\ k.unread = s /\ k.part = j.part
         /\ \A n \in Nat : LET k == [j EXCEPT !.sent = n]
                           IN  k \in Job /\ k.path = j.path /\ k.part = j.part
         /\ \A x \in Chunk \cup {NoChunk} :
              LET k == [j EXCEPT !.chunk = x]
              IN  k \in Job /\ k.path = j.path /\ k.part = j.part
BY DEF Job

LEMMA ListDirGoes ==
  ASSUME NEW N, NEW M, IsFitFor(N, M), TInv(N, M), NEW c \in Device, ListDir(c)
  PROVE  Goes(N, M)'
<1> DEFINE found == {p \in Path : files[c][p] # NoFile}
           listed == [p \in Path |-> IF p \in found THEN <<>> ELSE NoFile]
           unread == {p \in found : files[c][p] # <<>>}
           j == [NoJob EXCEPT !.unread = unread]
<1>0. Engines(N) /\ Jobs(N, M) /\ IsFit(N)
  BY DEF TInv, IsFitFor
<1>1. /\ at[c] = "scan"
      /\ job' = [job EXCEPT ![c] = j]
      /\ scan' = [scan EXCEPT ![c] = listed]
      /\ at' = [at EXCEPT ![c] = "read"]
      /\ UNCHANGED <<files, known, seen, touched, pass, queue, todo, reply>>
      /\ UNCHANGED <<store, bounds, disks>>
  BY DEF ListDir, Doing, Go, local
<1>2. files[c] \in GoodDir(N) /\ todo[c] \in SUBSET Path
  BY <1>0 DEF Engines, Shaped
<1>3. \A p \in Path : files[c][p] \in N[p] /\ N[p] \subseteq Content \cup {NoFile}
  BY <1>2 DEF GoodDir, IsFitFor
<1>4. \A p \in found : files[c][p] \in N[p] \cap Content /\ <<>> \in M[p] /\ M[p] \subseteq Content
  BY <1>3 DEF IsFitFor
<1>5. listed \in [Path -> Node]
  BY <1>4 DEF Node
<1>6. j \in Job /\ j.unread = unread /\ j.part = <<>>
  <2>1. unread \in SUBSET Path
    OBVIOUS
  <2> HIDE DEF unread
  <2> QED BY <2>1, NoJobIsOne, JobWith
<1>7. \A p \in Path : NoFile \in N[p]
  BY <1>0 DEF IsFit
<1>8. \A p \in Path : IF p \in j.unread THEN files[c][p] \in Content /\ listed[p] \in M[p]
                                        ELSE listed[p] \in N[p]
  BY <1>4, <1>6, <1>7
<1> HIDE DEF listed, j
<1>9. scan'[c] = listed /\ job'[c] = j /\ at'[c] = "read" /\ files'[c] = files[c]
  BY <1>0, <1>1 DEF Engines, Shaped, Jobs
<1>10. OnIt(c, N, M)'
  BY <1>6, <1>8, <1>9 DEF OnIt, PartWay, Reading, Sends, Sending
<1>11. todo' = [todo EXCEPT ![c] = todo[c]]
  BY <1>0, <1>1 DEF Engines, Shaped
<1>12. Engines(N)' /\ Jobs(N, M)'
  BY <1>1, <1>2, <1>5, <1>6, <1>10, <1>11, ScanMoves DEF TransferPlaces
<1> QED BY <1>1, <1>12, AloneKeeps

LEMMA ReadChunkGoes ==
  ASSUME NEW N, NEW M, IsFitFor(N, M), TInv(N, M), NEW c \in Device, ReadChunk(c)
  PROVE  Goes(N, M)'
<1> DEFINE p == CHOOSE q \in job[c].unread : TRUE
           got == scan[c][p]
           file == files[c][p]
           now == IF Len(file) > Len(got) THEN Append(got, file[Len(got) + 1]) ELSE got
           left == IF Len(now) >= Len(file) THEN job[c].unread \ {p} ELSE job[c].unread
           j == [job[c] EXCEPT !.unread = left]
           read == [scan[c] EXCEPT ![p] = now]
<1>0. Engines(N) /\ Jobs(N, M) /\ IsFit(N)
  BY DEF TInv, IsFitFor
<1>1. /\ at[c] = "read" /\ job[c].unread # {}
      /\ scan' = [scan EXCEPT ![c] = read]
      /\ job' = [job EXCEPT ![c] = j]
      /\ at' = at
      /\ UNCHANGED <<files, known, seen, touched, pass, queue, todo, reply>>
      /\ UNCHANGED <<store, bounds, disks>>
  <2>1. scan' = [scan EXCEPT ![c][p] = now]
    BY DEF ReadChunk
  <2>2. job' = [job EXCEPT ![c] = [job[c] EXCEPT !.unread = IF Len(now) >= Len(file) THEN @ \ {p} ELSE @]]
    BY DEF ReadChunk, Doing
  <2>3. /\ at[c] = "read" /\ job[c].unread # {} /\ at' = at
        /\ UNCHANGED <<files, known, seen, touched, pass, queue, todo, reply>>
        /\ UNCHANGED <<store, bounds, disks>>
    BY DEF ReadChunk, local
  <2> HIDE DEF now, p, file
  <2>4. job' = [job EXCEPT ![c] = j]
    BY <2>2, Zenon
  <2>5. scan' = [scan EXCEPT ![c] = read]
    BY <2>1
  <2> QED BY <2>3, <2>4, <2>5
<1>2. /\ job[c] \in Job /\ job[c].unread \in SUBSET Path /\ p \in job[c].unread /\ p \in Path
  <2>1. job[c] \in Job /\ job[c].unread \in SUBSET Path
    BY <1>0 DEF Jobs, Job
  <2> QED BY <1>1, <2>1
<1>3. files[c] \in GoodDir(N) /\ scan[c] \in [Path -> Node] /\ todo[c] \in SUBSET Path
  BY <1>0 DEF Engines, Shaped
<1>4. \A q \in Path : IF q \in job[c].unread THEN files[c][q] \in Content /\ scan[c][q] \in M[q]
                                             ELSE scan[c][q] \in N[q]
  BY <1>0, <1>1 DEF Jobs, OnIt, Reading
<1>5. file \in N[p] \cap Content /\ got \in M[p]
  BY <1>2, <1>3, <1>4 DEF GoodDir
<1>6. M[p] \subseteq Content /\ Content \subseteq Seq(Chunk) /\ Content \subseteq Node
  BY <1>2, TransferAssumption DEF IsFitFor, Node
<1>7. Len(got) \in Nat /\ Len(file) \in Nat
  BY <1>5, <1>6
<1>8. now \in M[p] /\ (Len(now) >= Len(file) => now \in N[p])
  <2>1. now \in M[p]
    <3>1. CASE Len(file) > Len(got)
      BY <1>2, <1>5, <1>7, <3>1 DEF IsFitFor
    <3>2. CASE ~(Len(file) > Len(got))
      BY <1>5, <3>2
    <3> QED BY <3>1, <3>2
  <2> HIDE DEF now
  <2> QED BY <1>2, <1>5, <2>1 DEF IsFitFor
<1> HIDE DEF p, now
<1>9. read \in [Path -> Node] /\ read[p] = now /\ \A q \in Path \ {p} : read[q] = scan[c][q]
  BY <1>2, <1>3, <1>6, <1>8
<1>10. j \in Job /\ j.unread = left /\ j.part = job[c].part
  <2>1. left \in SUBSET Path
    BY <1>2
  <2> HIDE DEF left
  <2> QED BY <1>2, <2>1, JobWith
<1>11. \A q \in Path : IF q \in left THEN files[c][q] \in Content /\ read[q] \in M[q]
                                     ELSE read[q] \in N[q]
  <2>1. ASSUME NEW q \in Path, q # p
        PROVE  IF q \in left THEN files[c][q] \in Content /\ read[q] \in M[q] ELSE read[q] \in N[q]
    <3>1. q \in left <=> q \in job[c].unread
      BY <2>1
    <3>2. read[q] = scan[c][q]
      BY <1>9, <2>1
    <3> HIDE DEF left, read
    <3> QED BY <1>4, <3>1, <3>2
  <2>2. IF p \in left THEN files[c][p] \in Content /\ read[p] \in M[p] ELSE read[p] \in N[p]
    <3>1. CASE Len(now) >= Len(file)
      BY <1>8, <1>9, <3>1
    <3>2. CASE ~(Len(now) >= Len(file))
      BY <1>2, <1>5, <1>8, <1>9, <3>2
    <3> QED BY <3>1, <3>2
  <2> QED BY <2>1, <2>2
<1> HIDE DEF read, j, left
<1>12. scan'[c] = read /\ job'[c] = j /\ at'[c] = "read" /\ files'[c] = files[c]
  BY <1>0, <1>1 DEF Engines, Shaped, Jobs
<1>13. job[c].part = <<>>
  BY <1>0, <1>1 DEF Jobs, OnIt, PartWay
<1>14. OnIt(c, N, M)'
  BY <1>10, <1>11, <1>12, <1>13 DEF OnIt, PartWay, Reading, Sends, Sending
<1>15. /\ todo' = [todo EXCEPT ![c] = todo[c]]
       /\ at' = [at EXCEPT ![c] = "read"]
  BY <1>0, <1>1 DEF Engines, Shaped
<1>16. Engines(N)' /\ Jobs(N, M)'
  BY <1>1, <1>3, <1>9, <1>10, <1>14, <1>15, ScanMoves DEF TransferPlaces
<1> QED BY <1>1, <1>16, AloneKeeps

LEMMA EndScanGoes ==
  ASSUME NEW N, NEW M, IsFitFor(N, M), TInv(N, M), NEW c \in Device, EndScan(c)
  PROVE  Goes(N, M)'
<1>0. Engines(N) /\ Jobs(N, M)
  BY DEF TInv
<1>1. /\ at[c] = "read" /\ job[c].unread = {}
      /\ todo' = [todo EXCEPT ![c] = ToUpload(c, scan[c])]
      /\ job' = [job EXCEPT ![c] = NoJob]
      /\ at' = [at EXCEPT ![c] = "push"]
      /\ UNCHANGED <<files, known, seen, touched, pass, queue, scan, reply>>
      /\ UNCHANGED <<store, bounds, disks>>
  BY DEF EndScan, Doing, Go, local
<1>2. scan[c] \in [Path -> Node] /\ scan' = [scan EXCEPT ![c] = scan[c]]
  BY <1>0, <1>1 DEF Engines, Shaped
<1>3. scan[c] \in GoodDir(N)
  BY <1>0, <1>1, <1>2 DEF Jobs, OnIt, Reading, GoodDir
<1>4. /\ ToUpload(c, scan[c]) \in SUBSET Path
      /\ \A p \in ToUpload(c, scan[c]) : scan[c][p] \in Content \cup {DirNode}
  BY DEF ToUpload
<1>5. at'[c] = "push" /\ job'[c] = NoJob
  BY <1>0, <1>1 DEF Engines, Shaped, Jobs
<1>6. OnIt(c, N, M)'
  BY <1>5, NoJobIsOne DEF OnIt, PartWay, Reading, Sends, Sending
<1>7. Engines(N)' /\ Jobs(N, M)'
  <2> DEFINE rest == ToUpload(c, scan[c])
             found == scan[c]
  <2>1. "push" \in TransferPlaces /\ NoJob \in Job
    BY NoJobIsOne DEF TransferPlaces, Places
  <2>2. /\ rest \in SUBSET Path /\ todo' = [todo EXCEPT ![c] = rest]
        /\ found \in [Path -> Node] /\ scan' = [scan EXCEPT ![c] = found]
        /\ found \in GoodDir(N) /\ \A p \in rest : found[p] \in Content \cup {DirNode}
    BY <1>1, <1>2, <1>3, <1>4
  <2>3. /\ UNCHANGED <<files, known, seen, touched, pass, queue, reply>>
        /\ at' = [at EXCEPT ![c] = "push"] /\ job' = [job EXCEPT ![c] = NoJob]
    BY <1>1
  <2>4. "push" # "read" => found \in GoodDir(N) /\ \A p \in rest : found[p] \in Content \cup {DirNode}
    BY <2>2
  <2> HIDE DEF rest, found
  <2>5. rest \in SUBSET Path /\ todo' = [todo EXCEPT ![c] = rest]
    BY <2>2
  <2>6. found \in [Path -> Node] /\ scan' = [scan EXCEPT ![c] = found]
    BY <2>2
  <2> QED BY <1>6, <2>1, <2>3, <2>4, <2>5, <2>6, ScanMoves
<1> QED BY <1>1, <1>7, AloneKeeps

-----------------------------------------------------------------------------
(* Uploads. *)

\* A step of the upload moves the engine and its job, nothing else of its round.
LEMMA SendMoves ==
  ASSUME NEW N, NEW M, TInv(N, M), NEW c \in Device,
         at[c] \in {"push", "send", "grant", "commit"},
         UNCHANGED <<files, known, seen, touched, pass, queue, scan, todo, reply>>,
         NEW place \in Sending,
         at' = [at EXCEPT ![c] = place] \/ (at' = at /\ at[c] = place),
         NEW j \in Job,
         job' = [job EXCEPT ![c] = j] \/ (job' = job /\ job[c] = j),
         j.part = <<>>, j.path \in todo[c]
  PROVE  Engines(N)' /\ Jobs(N, M)'
<1>0. Engines(N) /\ Jobs(N, M) /\ "read" \notin Sending /\ Sending \subseteq TransferPlaces
  BY DEF TInv, Sending, TransferPlaces
<1>1. /\ at'[c] = place /\ at' \in [Device -> TransferPlaces]
      /\ \A d \in Device \ {c} : at'[d] = at[d]
  BY <1>0 DEF Engines, Shaped
<1>2. /\ job' \in [Device -> Job] /\ job'[c] = j
      /\ \A d \in Device \ {c} : job'[d] = job[d]
  BY <1>0 DEF Jobs
<1>3. OnlyAt(c)
  BY <1>1 DEF OnlyAt
<1>4. Shaped(N)'
  BY <1>0, <1>1 DEF Engines, Shaped
<1>5. MidRound(c, N)'
  <2>1. HasScan(c, N) /\ Uploads(c)
    BY <1>0 DEF Engines, MidRound
  <2>2. HasScan(c, N)' /\ Uploads(c)'
    BY <1>1, <2>1 DEF HasScan, Uploads, Sending
  <2>3. HasTarget(c)' /\ Deletes(c)' /\ HasAnswer(c)'
    BY <1>1 DEF HasTarget, Deletes, HasAnswer, Sending
  <2> QED BY <2>2, <2>3 DEF MidRound
<1>6. OnIt(c, N, M)'
  BY <1>0, <1>1, <1>2 DEF OnIt, PartWay, Reading, Sends
<1>7. Engines(N)'
  BY <1>0, <1>3, <1>4, <1>5, OneMoves
<1>8. Jobs(N, M)'
  BY <1>0, <1>2, <1>3, <1>6, JobMoves
<1> QED BY <1>7, <1>8

\* What is sent was scanned as a file.
LEMMA SentIsFile ==
  ASSUME NEW N, NEW M, IsFitFor(N, M), TInv(N, M), NEW c \in Device, NEW p \in todo[c],
         at[c] \in {"push", "send", "grant", "commit"}
  PROVE  p \in Path /\ scan[c][p] \in N[p] \cap Content
<1>1. p \in Path /\ scan[c] \in GoodDir(N) /\ scan[c][p] \in Content \cup {DirNode}
  BY DEF TInv, Engines, Shaped, MidRound, HasScan, Uploads
<1>2. scan[c][p] \in N[p] /\ N[p] \subseteq Content \cup {NoFile}
  BY <1>1 DEF GoodDir, IsFitFor
<1>3. scan[c][p] \in Content
  BY <1>1, <1>2, SyncAssumption
<1> QED BY <1>1, <1>2, <1>3

LEMMA CheckChunksGoes ==
  ASSUME NEW N, NEW M, IsFitFor(N, M), TInv(N, M), NEW c \in Device, NEW p \in Path,
         CheckChunks(c, p)
  PROVE  Goes(N, M)'
<1> DEFINE missing == {k \in ChunksOf(scan[c][p]) : ~Available(k)}
           j == [NoJob EXCEPT !.path = p, !.missing = missing]
<1>1. /\ at[c] = "push" /\ p \in todo[c]
      /\ job' = [job EXCEPT ![c] = j]
      /\ UNCHANGED <<files, known, seen, touched, pass, queue, scan, todo, reply>>
      /\ UNCHANGED <<store, bounds, disks>>
  BY DEF CheckChunks, Doing, local
<1>2. PICK place \in {"send", "commit"} : at' = [at EXCEPT ![c] = place]
  BY DEF CheckChunks, Go
<1>3. scan[c][p] \in Content
  BY <1>1, SentIsFile
<1>4. missing \in SUBSET Chunk
  <2>1. scan[c][p] \in Seq(Chunk)
    BY <1>3, TransferAssumption
  <2> QED BY <2>1 DEF ChunksOf
<1> HIDE DEF missing
<1>5. j \in Job /\ j.path = p /\ j.part = <<>>
  BY <1>4, NoJobIsOne DEF Job
<1> HIDE DEF j
<1>6. place \in Sending
  BY DEF Sending
<1>7. Engines(N)' /\ Jobs(N, M)'
  BY <1>1, <1>2, <1>5, <1>6, SendMoves
<1> QED BY <1>1, <1>7, AloneKeeps

\* A job that sends.
LEMMA SendingJob ==
  ASSUME NEW N, NEW M, TInv(N, M), NEW c \in Device, at[c] \in Sending
  PROVE  /\ job[c] \in Job /\ job[c].part = <<>> /\ job[c].path \in todo[c]
         /\ job[c].missing \subseteq Chunk /\ job[c].sent \in Nat
         /\ at[c] \in {"push", "send", "grant", "commit"}
<1>1. job[c] \in Job
  BY DEF TInv, Jobs
<1>2. job[c].path \in todo[c]
  BY DEF TInv, Jobs, OnIt, Sends
<1>3. job[c].part = <<>>
  BY DEF TInv, Jobs, OnIt, PartWay, Sending
<1> QED BY <1>1, <1>2, <1>3 DEF Job, Sending

\* The chunk put was asked for, and so is a chunk.
LEMMA PutChunkGoes ==
  ASSUME NEW N, NEW M, IsFitFor(N, M), TInv(N, M), NEW c \in Device, PutChunk(c)
  PROVE  Goes(N, M)'
<1> DEFINE next == job[c].sent + 1
           chunk == files[c][job[c].path][next]
           step == [job[c] EXCEPT !.sent = next]
           put  == [job[c] EXCEPT !.sent = next, !.chunk = chunk]
<1>1. /\ at[c] = "send"
      /\ UNCHANGED <<files, known, seen, touched, pass, queue, scan, todo, reply>>
      /\ UNCHANGED <<store, bounds, granted, saved, failures, restarts>>
  BY DEF PutChunk, local
<1>2. /\ job[c] \in Job /\ job[c].part = <<>> /\ job[c].path \in todo[c]
      /\ job[c].missing \subseteq Chunk /\ job[c].sent \in Nat
      /\ at[c] \in {"push", "send", "grant", "commit"}
  BY <1>1, SendingJob DEF Sending
<1>3. \/ /\ at' = [at EXCEPT ![c] = "commit"]
         /\ UNCHANGED <<job, stored>>
      \/ /\ stored' = stored \cup {chunk} /\ chunk \in job[c].missing
         /\ job' = [job EXCEPT ![c] = put]
         /\ at' = [at EXCEPT ![c] = "grant"]
      \/ /\ job' = [job EXCEPT ![c] = step]
         /\ UNCHANGED <<at, stored>>
  BY DEF PutChunk, Go, Doing
<1>4. next \in Nat
  BY <1>2
<1> HIDE DEF next, chunk
<1>5. step \in Job /\ step.path = job[c].path /\ step.part = <<>>
  BY <1>2, <1>4, JobWith
<1>6. chunk \in Chunk => put \in Job /\ put.path = job[c].path /\ put.part = <<>>
  BY <1>2, <1>4 DEF Job
<1> HIDE DEF step, put
<1>7. {"send", "grant", "commit"} \subseteq Sending
  BY DEF Sending
<1>8. Engines(N)' /\ Jobs(N, M)'
  <2>1. CASE at' = [at EXCEPT ![c] = "commit"] /\ UNCHANGED <<job, stored>>
    BY <1>1, <1>2, <1>7, <2>1, SendMoves
  <2>2. CASE /\ chunk \in job[c].missing
             /\ job' = [job EXCEPT ![c] = put] /\ at' = [at EXCEPT ![c] = "grant"]
    <3>1. put \in Job /\ put.path \in todo[c] /\ put.part = <<>>
      BY <1>2, <1>6, <2>2
    <3> QED BY <1>1, <1>2, <1>7, <2>2, <3>1, SendMoves
  <2>3. CASE job' = [job EXCEPT ![c] = step] /\ UNCHANGED <<at, stored>>
    <3>1. step \in Job /\ step.path \in todo[c] /\ step.part = <<>>
      BY <1>2, <1>5
    <3>2. at' = at /\ at[c] = "send"
      BY <1>1, <2>3
    <3> QED BY <1>1, <1>2, <1>7, <2>3, <3>1, <3>2, SendMoves
  <2> QED BY <1>3, <2>1, <2>2, <2>3
<1>9. stored' \subseteq Chunk
  BY <1>2, <1>3 DEF TInv, Disk
<1>10. ServerGood(N)'
  BY <1>1, ServerStays DEF TInv
<1>11. Disk(N)'
  BY <1>1, <1>9, DiskGrows DEF TInv, store, bounds
<1> QED BY <1>8, <1>10, <1>11 DEF Goes

-----------------------------------------------------------------------------
(* Commits. *)

LEMMA GrantChunkGoes ==
  ASSUME NEW N, NEW M, IsFitFor(N, M), TInv(N, M), NEW c \in Device, GrantChunk(c)
  PROVE  Goes(N, M)'
<1> DEFINE j == [job[c] EXCEPT !.chunk = NoChunk]
<1>1. /\ at[c] = "grant"
      /\ granted' = granted \cup {job[c].chunk}
      /\ UNCHANGED <<files, known, seen, touched, store, bounds, stored, restarts>>
      /\ \/ Save \/ SaveFails
      /\ \/ /\ Go(c, "send") /\ job' = [job EXCEPT ![c] = j]
            /\ UNCHANGED <<pass, queue, scan, todo, reply>>
         \/ Rest(c)
  BY DEF GrantChunk, Doing, local
<1>2. Engines(N)' /\ Jobs(N, M)'
  <2>1. CASE /\ Go(c, "send") /\ job' = [job EXCEPT ![c] = j]
             /\ UNCHANGED <<pass, queue, scan, todo, reply>>
    <3>1. /\ job[c] \in Job /\ job[c].part = <<>> /\ job[c].path \in todo[c]
          /\ at[c] \in {"push", "send", "grant", "commit"}
      BY <1>1, SendingJob DEF Sending
    <3>2. j \in Job /\ j.part = <<>> /\ j.path \in todo[c]
      BY <3>1, JobWith
    <3> HIDE DEF j
    <3>3. "send" \in Sending /\ at' = [at EXCEPT ![c] = "send"]
      BY <2>1 DEF Sending, Go
    <3> QED BY <1>1, <2>1, <3>1, <3>2, <3>3, SendMoves
  <2>2. CASE Rest(c)
    BY <1>1, <2>2, RestGoes DEF IsFitFor
  <2> QED BY <1>1, <2>1, <2>2
<1>3. ServerGood(N)'
  BY <1>1, ServerStays DEF TInv
<1>4. /\ Sound(saved.meta, fresh, fresh)' /\ Holds(saved.meta, N)'
      /\ saved'.granted \subseteq granted'
  <2>1. CASE saved' = [meta |-> server', granted |-> granted']
    <3>1. saved.meta' = server' /\ saved'.granted = granted'
      BY <2>1
    <3> QED BY <1>3, <3>1 DEF ServerGood, Holds, Sound, Window, Below, Numbered, Headed, Chained
  <2>2. CASE saved' = saved
    <3>1. Disk(N) /\ UNCHANGED <<fresh, saved>>
      BY <1>1, <2>2 DEF TInv, store
    <3>2. Sound(saved.meta, fresh, fresh)' /\ Holds(saved.meta, N)'
      BY <3>1, SavedStays
    <3>3. saved'.granted \subseteq granted'
      BY <1>1, <2>2, <3>1 DEF Disk
    <3> QED BY <3>2, <3>3
  <2> QED BY <1>1, <2>1, <2>2 DEF Save, InMemory, SaveFails
<1>5. /\ aborts' \in Nat /\ failures' \in Nat /\ restarts' \in Nat
      /\ aborts' + failures' + restarts' <= MaxFaults
  <2>1. aborts' = aborts /\ restarts' = restarts
    BY <1>1 DEF bounds
  <2>2. \/ failures' = failures
        \/ failures' = failures + 1 /\ aborts + failures + restarts < MaxFaults
    BY <1>1 DEF Save, InMemory, SaveFails, MayFail
  <2> QED BY <2>1, <2>2, BoundIsNat DEF TInv, Disk
<1>6. stored' \subseteq Chunk
  BY <1>1 DEF TInv, Disk
<1> QED BY <1>2, <1>3, <1>4, <1>5, <1>6 DEF Goes, Disk

LEMMA CommitFileGoes ==
  ASSUME NEW N, NEW M, IsFitFor(N, M), TInv(N, M), NEW c \in Device, CommitFile(c)
  PROVE  Goes(N, M)'
<1> DEFINE p == job[c].path
<1>1. /\ at[c] = "commit" /\ SendUpload(c, p)
      /\ job' = [job EXCEPT ![c] = NoJob]
      /\ UNCHANGED <<files, known, seen, touched, bounds, stored, granted, restarts, failures>>
      /\ saved' = [meta |-> server', granted |-> granted']
  BY DEF CommitFile, Doing, Save, InMemory, local
<1>2. p \in todo[c] /\ p \in Path
  BY <1>1, SendingJob, SentIsFile DEF Sending
<1> HIDE DEF p
<1>3. IsFit(N) /\ ServerGood(N) /\ Engines(N) /\ Jobs(N, M)
  BY DEF TInv, IsFitFor
<1>4. ServerGood(N)' /\ Engines(N)'
  BY <1>1, <1>2, <1>3, SendUploadKeeps
<1>5. OnlyAt(c) /\ at'[c] \in {"answer", "idle"}
  <2>1. (\E r : Answered(c, p, "push", r)) \/ EndRound(c)
    BY <1>1 DEF SendUpload
  <2> QED BY <1>1, <1>3, <2>1, EndRoundMoves, AnsweredMoves
<1>6. Jobs(N, M)'
  BY <1>1, <1>3, <1>5, DropJob DEF Sending
<1>7. Sound(saved.meta, fresh, fresh)' /\ Holds(saved.meta, N)' /\ saved'.granted \subseteq granted'
  BY <1>1, <1>4 DEF ServerGood, Holds, Sound, Window, Below, Numbered, Headed, Chained
<1>8. Disk(N)'
  BY <1>1, <1>7 DEF TInv, Disk, bounds
<1> QED BY <1>4, <1>6, <1>8 DEF Goes

LEMMA DeleteOnServerGoes ==
  ASSUME NEW N, NEW M, IsFitFor(N, M), TInv(N, M), NEW c \in Device, NEW p \in Path,
         DeleteOnServer(c, p)
  PROVE  Goes(N, M)'
<1>1. /\ DeleteRemote(c, p)
      /\ UNCHANGED <<files, known, seen, touched, bounds, stored, granted, restarts, failures, job>>
      /\ saved' = [meta |-> server', granted |-> granted']
  BY DEF DeleteOnServer, DeleteRemote, Save, InMemory, local
<1>2. IsFit(N) /\ ServerGood(N) /\ Engines(N) /\ Jobs(N, M)
  BY DEF TInv, IsFitFor
<1>3. ServerGood(N)' /\ Engines(N)'
  BY <1>1, <1>2, DeleteRemoteKeeps
<1>4. at[c] = "drop" /\ OnlyAt(c) /\ at'[c] \in {"answer", "idle"}
  <2>1. (\E r : Answered(c, p, "drop", r)) \/ EndRound(c)
    BY <1>1 DEF DeleteRemote
  <2>2. at[c] = "drop"
    BY <1>1 DEF DeleteRemote
  <2> QED BY <1>1, <1>2, <2>1, <2>2, EndRoundMoves, AnsweredMoves
<1>5. Jobs(N, M)'
  BY <1>1, <1>2, <1>4, KeepJob DEF Sending
<1>6. Sound(saved.meta, fresh, fresh)' /\ Holds(saved.meta, N)' /\ saved'.granted \subseteq granted'
  BY <1>1, <1>3 DEF ServerGood, Holds, Sound, Window, Below, Numbered, Headed, Chained
<1>7. Disk(N)'
  BY <1>1, <1>6 DEF TInv, Disk, bounds
<1> QED BY <1>3, <1>5, <1>7 DEF Goes

\* What is on the disk is older than what is in memory or the same, and stays sound.
LEMMA CommitUnsavedGoes ==
  ASSUME NEW N, NEW M, IsFitFor(N, M), TInv(N, M), NEW c \in Device, CommitUnsaved(c)
  PROVE  Goes(N, M)'
<1> DEFINE p == job[c].path
           r == RequestFor(c, p, "file")
<1>0. IsFit(N) /\ ServerGood(N) /\ Engines(N) /\ Disk(N) /\ fresh \in Nat
  BY DEF TInv, IsFitFor, ServerGood
<1>1. /\ at[c] = "commit" /\ Rest(c)
      /\ \E done \in CommitEntry(server, r, fresh) : server' = done.meta /\ fresh' = fresh + 1
      /\ UNCHANGED <<files, known, seen, touched, bounds, stored, granted, restarts>>
      /\ saved' = saved \/ saved' = [meta |-> server', granted |-> granted']
      /\ failures' = failures + 1 /\ aborts + failures + restarts < MaxFaults
  BY DEF CommitUnsaved, SaveFails, InMemory, MayFail, local
<1>2. p \in Path /\ scan[c][p] \in N[p] \cap Content
  BY <1>1, SendingJob, SentIsFile DEF Sending
<1>3. r \in Request /\ r.kind = "file" /\ r.path = p /\ r.content = scan[c][p]
  BY <1>0, <1>2, RequestIsTyped DEF Engines
<1> HIDE DEF r, p
<1>4. PICK done \in CommitEntry(server, r, fresh) : server' = done.meta /\ fresh' = fresh + 1
  BY <1>1
<1>5. Sound(done.meta, fresh + 1, fresh + 1) /\ Holds(done.meta, N)
  <2>1. Sound(server, fresh, fresh) /\ Holds(server, N)
    BY <1>0 DEF ServerGood
  <2>2. r.kind \in {"file", "dir"} /\ r.kind # "dir" /\ r.content \in N[r.path] \cap Content
    BY <1>2, <1>3
  <2> QED BY <1>0, <1>3, <2>1, <2>2, CommitHolds
<1>6. ServerGood(N)'
  BY <1>0, <1>4, <1>5 DEF ServerGood, Holds, Sound, Window, Below, Numbered, Headed, Chained
<1>7. Sound(saved.meta, fresh, fresh)' /\ Holds(saved.meta, N)'
  <2>1. CASE saved' = saved
    <3>1. Sound(saved.meta, fresh + 1, fresh + 1)
      BY <1>0, SoundGrows DEF Disk
    <3> QED BY <1>0, <1>4, <2>1, <3>1 DEF Disk, Holds, Sound, Window, Below, Numbered, Headed, Chained
  <2>2. CASE saved' = [meta |-> server', granted |-> granted']
    BY <1>6, <2>2 DEF ServerGood, Holds, Sound, Window, Below, Numbered, Headed, Chained
  <2> QED BY <1>1, <2>1, <2>2
<1>8. Disk(N)'
  <2>1. aborts' = aborts
    BY <1>1 DEF bounds
  <2> QED BY <1>0, <1>1, <1>7, <2>1, BoundIsNat DEF Disk
<1>9. Engines(N)' /\ Jobs(N, M)'
  BY <1>0, <1>1, RestGoes
<1> QED BY <1>6, <1>8, <1>9 DEF Goes

-----------------------------------------------------------------------------
(* What goes wrong, and what users write. *)

LEMMA CutRoundGoes ==
  ASSUME NEW N, NEW M, IsFitFor(N, M), TInv(N, M), NEW c \in Device, CutRound(c)
  PROVE  Goes(N, M)'
<1>1. /\ Rest(c) /\ aborts' = aborts + 1 /\ aborts + failures + restarts < MaxFaults
      /\ UNCHANGED <<files, known, seen, touched, store, disks>>
  BY DEF CutRound, Abort, Rest, MayFail, local
<1>2. Engines(N)' /\ Jobs(N, M)'
  BY <1>1, RestGoes DEF IsFitFor
<1>3. ServerGood(N)'
  BY <1>1, ServerStays DEF TInv
<1>4. Disk(N)'
  <2>1. UNCHANGED <<fresh, stored, granted, saved, failures, restarts>>
    BY <1>1 DEF store, disks
  <2> QED BY <1>1, <2>1, AbortCounts DEF TInv
<1> QED BY <1>2, <1>3, <1>4 DEF Goes

\* What is left of a download is a content.
LEMMA PartIsContent ==
  ASSUME NEW N, NEW M, TInv(N, M), NEW c \in Device, at[c] = "land", IsFileEvent(c)
  PROVE  job[c].part \in Content
<1> DEFINE part == job[c].part
           all == Target(c).content
<1>1. all \in Content /\ all \in Seq(Chunk)
  <2>1. Target(c) \in GoodVersion(N) /\ Target(c).state = "file"
    BY TargetIsGood DEF TInv, Engines, MidRound, HasTarget, IsFileEvent
  <2> QED BY <2>1, TransferAssumption DEF GoodVersion
<1>2. part \in Seq(Chunk) /\ (part # <<>> => Len(part) <= Len(all))
  BY DEF TInv, Jobs, OnIt, PartWay, Job
<1> HIDE DEF part, all
<1>3. Len(part) \in Nat /\ Len(all) \in Nat /\ Len(part) <= Len(all)
  <2>1. Len(<<>>) = 0 /\ Len(part) \in Nat /\ Len(all) \in Nat
    BY <1>1, <1>2
  <2> QED BY <1>2, <2>1
<1>4. part \in [1..Len(part) -> Chunk]
  BY <1>2, LenProperties
<1>5. part \in Content
  BY <1>1, <1>3, <1>4, TransferAssumption
<1> QED BY <1>5 DEF part

LEMMA CrashDownloadGoes ==
  ASSUME NEW N, NEW M, IsFitFor(N, M), TInv(N, M), NEW c \in Device, CrashDownload(c)
  PROVE  Goes(N, M)'
<1>0. Engines(N) /\ Jobs(N, M) /\ IsFit(N)
  BY DEF TInv, IsFitFor
<1>1. /\ at[c] = "land" /\ IsFileEvent(c) /\ Rest(c)
      /\ aborts' = aborts + 1 /\ aborts + failures + restarts < MaxFaults
      /\ UNCHANGED <<known, seen, touched, store, disks>>
  BY DEF CrashDownload, MayFail
<1>2. PICK q \in TempName : files' = [files EXCEPT ![c][q] = job[c].part]
  BY DEF CrashDownload
<1>3. job[c].part \in N[q] /\ q \in Path
  <2>1. q \in Path
    BY TransferAssumption
  <2> QED BY <1>1, <2>1, PartIsContent DEF IsFitFor
<1>4. /\ files' \in [Device -> GoodDir(N)]
      /\ \A d \in Device \ {c} : files'[d] = files[d]
  <2>1. files \in [Device -> GoodDir(N)]
    BY <1>0 DEF Engines, Shaped
  <2>2. [files[c] EXCEPT ![q] = job[c].part] \in GoodDir(N)
    BY <1>0, <1>3, <2>1, PutIsGood
  <2> QED BY <1>2, <2>1, <2>2
<1>5. EndRound(c) /\ job' = [job EXCEPT ![c] = NoJob]
  BY <1>1 DEF Rest, Doing
<1>6. Engines(N)'
  BY <1>0, <1>1, <1>4, <1>5, EndRoundKeeps
<1>7. OnlyAt(c) /\ at'[c] = "idle"
  BY <1>0, <1>1, <1>4, <1>5, EndRoundMoves
<1>8. Jobs(N, M)'
  BY <1>0, <1>5, <1>7, DropJob DEF Sending
<1>9. ServerGood(N)'
  BY <1>1, ServerStays DEF TInv
<1>10. Disk(N)'
  <2>1. UNCHANGED <<fresh, stored, granted, saved, failures, restarts>>
    BY <1>1 DEF store, disks
  <2> QED BY <1>1, <2>1, AbortCounts DEF TInv
<1> QED BY <1>6, <1>8, <1>9, <1>10 DEF Goes

\* A user's edit leaves a file a file, while it is read.
LEMMA WriteTextGoes ==
  ASSUME NEW N, NEW M, IsFitFor(N, M), TInv(N, M), NEW c \in Device, NEW p \in Path,
         NEW x \in Text, WriteText(c, p, x)
  PROVE  Goes(N, M)'
<1> DEFINE fs == [files[c] EXCEPT ![p] = x]
<1>0. Engines(N) /\ Jobs(N, M) /\ IsFit(N) /\ files \in [Device -> GoodDir(N)]
  BY DEF TInv, IsFitFor, Engines, Shaped
<1>1. /\ Edit(c, p, fs, FALSE) /\ UNCHANGED <<disks, job>> /\ "file" \in KindsAt[p]
  BY DEF WriteText
<1>2. x \in N[p] /\ x \in Content
  BY <1>1, TransferAssumption DEF IsFitFor, UserPath
<1>3. fs \in GoodDir(N)
  BY <1>0, <1>2, PutIsGood
<1>4. \A q \in Path : fs[q] = files[c][q] \/ fs[q] = x
  BY <1>0 DEF GoodDir
<1> HIDE DEF fs
<1>5. /\ files' = [files EXCEPT ![c] = fs]
      /\ touched' = [touched EXCEPT ![c] = @ \ {p}]
      /\ UNCHANGED <<store, known, seen, at, pass, queue, scan, todo, reply, aborts>>
  BY <1>1 DEF Edit, round
<1>6. Engines(N)'
  BY <1>0, <1>1, <1>3, EditKeeps
<1>7. OnlyAt(c) /\ files'[c] = fs
  BY <1>0, <1>5 DEF OnlyAt, Engines, Shaped
<1>8. OnIt(c, N, M)'
  <2>1. OnIt(c, N, M) /\ job' = job
    BY <1>0, <1>1 DEF Jobs
  <2>2. PartWay(c)' /\ Sends(c)'
    BY <1>5, <2>1 DEF OnIt, PartWay, Sends, IsFileEvent, Target, Current
  <2>3. Reading(c, N, M)'
    BY <1>2, <1>4, <1>5, <1>7, <2>1 DEF OnIt, Reading
  <2> QED BY <2>2, <2>3 DEF OnIt
<1>9. Jobs(N, M)'
  BY <1>0, <1>1, <1>7, <1>8, JobMoves DEF Jobs
<1>10. ServerGood(N)' /\ Disk(N)'
  BY <1>1, <1>5, ServerStays, DiskStays DEF TInv, store, disks
<1> QED BY <1>6, <1>9, <1>10 DEF Goes

LEMMA RestartGoes ==
  ASSUME NEW N, NEW M, IsFitFor(N, M), TInv(N, M), Restart
  PROVE  Goes(N, M)'
<1>1. /\ server' = saved.meta /\ granted' = saved.granted /\ restarts' = restarts + 1
      /\ aborts + failures + restarts < MaxFaults
      /\ UNCHANGED <<fresh, bounds, stored, saved, failures, job>>
      /\ UNCHANGED <<local, round>>
  BY DEF Restart, MayFail
<1>2. Engines(N)'
  BY <1>1, EnginesStay DEF TInv
<1>3. Jobs(N, M)'
  <2>1. \A c \in Device : OnIt(c, N, M)'
    BY <1>1 DEF TInv, Jobs, OnIt, PartWay, Reading, Sends, IsFileEvent, Target, Current, local, round
  <2> QED BY <1>1, <2>1 DEF TInv, Jobs
<1>4. ServerGood(N)'
  BY <1>1 DEF TInv, Disk, ServerGood, Holds, Sound, Window, Below, Numbered, Headed, Chained
<1>5. Disk(N)'
  <2>1. Sound(saved.meta, fresh, fresh)' /\ Holds(saved.meta, N)'
    BY <1>1, SavedStays DEF TInv
  <2> QED BY <1>1, <2>1, BoundIsNat DEF TInv, Disk, bounds
<1> QED BY <1>2, <1>3, <1>4, <1>5 DEF Goes

-----------------------------------------------------------------------------
(* Every step of Transfer. *)

\* A save of what is in memory.
LEMMA SaveAgainGoes ==
  ASSUME NEW N, NEW M, TInv(N, M), SaveAgain
  PROVE  Goes(N, M)'
<1>1. /\ saved' = [meta |-> server, granted |-> granted]
      /\ UNCHANGED <<store, bounds, local, round>>
      /\ UNCHANGED <<job, stored, granted, failures, restarts>>
  BY DEF SaveAgain, InMemory, vars
<1>2. Engines(N)'
  BY <1>1, EnginesStay DEF TInv
<1>3. Jobs(N, M)'
  <2>1. \A c \in Device : OnIt(c, N, M)'
    BY <1>1 DEF TInv, Jobs, OnIt, PartWay, Reading, Sends, IsFileEvent, Target, Current, local, round
  <2> QED BY <1>1, <2>1 DEF TInv, Jobs
<1>4. ServerGood(N)'
  BY <1>1, ServerStays DEF TInv
<1>5. Sound(saved.meta, fresh, fresh)' /\ Holds(saved.meta, N)' /\ saved'.granted \subseteq granted'
  BY <1>1, <1>4 DEF ServerGood, Holds, Sound, Window, Below, Numbered, Headed, Chained, store
<1>6. Disk(N)'
  BY <1>1, <1>5 DEF TInv, Disk, bounds
<1> QED BY <1>2, <1>3, <1>4, <1>6 DEF Goes

LEMMA TransferBegins ==
  ASSUME NEW N, NEW M, IsFitFor(N, M), TransferInit
  PROVE  TInv(N, M)
<1>1. Init /\ IsFit(N)
  BY DEF TransferInit, IsFitFor
<1>2. ServerGood(N) /\ Engines(N)
  BY <1>1, BeginsGood
<1>3. Disk(N)
  BY <1>2, BoundIsNat DEF TransferInit, Init, Disk, ServerGood, Holds, Sound, Window, Below, Numbered, Headed, Chained
<1>4. Jobs(N, M)
  <2>1. job \in [Device -> Job] /\ \A c \in Device : job[c] = NoJob /\ at[c] = "idle"
    BY NoJobIsOne DEF TransferInit, Init
  <2> QED BY <2>1, NoJobIsOne DEF Jobs, OnIt, PartWay, Reading, Sends, Sending
<1> QED BY <1>2, <1>3, <1>4, InitHolds DEF TInv

LEMMA TransferStepGoes ==
  ASSUME NEW N, NEW M, IsFitFor(N, M), TInv(N, M), [TransferNext]_transferVars
  PROVE  TInv(N, M)'
<1>0. IsFit(N)
  BY DEF IsFitFor
<1>1. Goes(N, M)'
  <2>1. ASSUME NEW c \in Device, Work(c) PROVE Goes(N, M)'
    <3>1. CASE SyncStep(c) \/ LandTombstone(c)
      BY <1>0, <3>1, SyncStepGoes, LandTombstoneGoes
    <3>2. CASE FetchChunk(c) \/ Replace(c) \/ Verify(c)
      BY <1>0, <3>2, FetchChunkGoes, ReplaceGoes, VerifyGoes
    <3>3. CASE ListDir(c) \/ ReadChunk(c) \/ EndScan(c)
      BY <3>3, ListDirGoes, ReadChunkGoes, EndScanGoes
    <3>4. CASE PutChunk(c) \/ GrantChunk(c) \/ CommitFile(c)
      BY <3>4, PutChunkGoes, GrantChunkGoes, CommitFileGoes
    <3>5. CASE RefuseManifest(c)
      <4>1. Rest(c) /\ UNCHANGED <<store, bounds, disks>> /\ UNCHANGED <<files, known, seen, touched>>
        BY <3>5 DEF RefuseManifest, local
      <4>2. Engines(N)' /\ Jobs(N, M)'
        BY <1>0, <4>1, RestGoes
      <4> QED BY <4>1, <4>2, AloneKeeps
    <3>6. ASSUME NEW p \in Path, CheckChunks(c, p) \/ DeleteOnServer(c, p)
          PROVE  Goes(N, M)'
      BY <3>6, CheckChunksGoes, DeleteOnServerGoes
    <3> QED BY <2>1, <3>1, <3>2, <3>3, <3>4, <3>5, <3>6 DEF Work
  <2>2. ASSUME NEW c \in Device, CommitUnsaved(c) \/ CutRound(c) \/ CrashDownload(c)
        PROVE  Goes(N, M)'
    BY <2>2, CommitUnsavedGoes, CutRoundGoes, CrashDownloadGoes
  <2>3. ASSUME NEW c \in Device, NEW p \in Path, NEW x \in Text, WriteText(c, p, x)
        PROVE  Goes(N, M)'
    BY <2>3, WriteTextGoes
  <2>4. CASE SaveAgain \/ Restart
    BY <2>4, SaveAgainGoes, RestartGoes
  <2>5. CASE UNCHANGED transferVars
    <3>1. /\ UNCHANGED <<store, bounds, disks>> /\ UNCHANGED <<local, round>> /\ UNCHANGED job
      BY <2>5 DEF transferVars, vars
    <3>2. Engines(N)'
      BY <3>1, EnginesStay DEF TInv
    <3>3. Jobs(N, M)'
      <4>1. \A c \in Device : OnIt(c, N, M)'
        BY <3>1 DEF TInv, Jobs, OnIt, PartWay, Reading, Sends, IsFileEvent, Target, Current, local, round
      <4> QED BY <3>1, <4>1 DEF TInv, Jobs
    <3> QED BY <3>1, <3>2, <3>3, AloneKeeps
  <2> QED BY <2>1, <2>2, <2>3, <2>4, <2>5 DEF TransferNext
<1>2. DInv'
  BY StepKeeps DEF TInv
<1> QED BY <1>1, <1>2 DEF TInv, Goes

-----------------------------------------------------------------------------
(* Types: every file holds a content. *)

LEMMA ContentsGrow ==
  ASSUME NEW f \in Content
  PROVE  /\ <<>> \in Content
         /\ \A x \in Content : Len(x) < Len(f) =>
              /\ Append(x, f[Len(x) + 1]) \in Content
              /\ Len(Append(x, f[Len(x) + 1])) = Len(x) + 1
              /\ \A i \in 1..Len(x) : Append(x, f[Len(x) + 1])[i] = x[i]
              /\ Append(x, f[Len(x) + 1])[Len(x) + 1] = f[Len(x) + 1]
<1>1. f \in Seq(Chunk) /\ Len(f) \in Nat
  BY TransferAssumption
<1>2. <<>> \in Content
  <2>1. <<>> \in [1..0 -> Chunk] /\ 0 \in 0..Len(f)
    BY <1>1
  <2> QED BY <2>1, TransferAssumption
<1>3. ASSUME NEW x \in Content, Len(x) < Len(f)
      PROVE  /\ Append(x, f[Len(x) + 1]) \in Content
             /\ Len(Append(x, f[Len(x) + 1])) = Len(x) + 1
             /\ \A i \in 1..Len(x) : Append(x, f[Len(x) + 1])[i] = x[i]
             /\ Append(x, f[Len(x) + 1])[Len(x) + 1] = f[Len(x) + 1]
  <2>1. x \in Seq(Chunk) /\ Len(x) \in Nat
    BY TransferAssumption
  <2>2. f[Len(x) + 1] \in Chunk
    BY <1>1, <1>3, <2>1
  <2> DEFINE y == Append(x, f[Len(x) + 1])
  <2>3. /\ y \in Seq(Chunk) /\ Len(y) = Len(x) + 1
        /\ \A i \in 1..Len(x) : y[i] = x[i]
        /\ y[Len(x) + 1] = f[Len(x) + 1]
    BY <2>1, <2>2
  <2> HIDE DEF y
  <2>4. y \in [1..Len(y) -> Chunk]
    BY <2>3, LenProperties
  <2>5. Len(x) + 1 \in 0..Len(f)
    BY <1>1, <1>3, <2>1
  <2>6. y \in Content
    BY <2>3, <2>4, <2>5, TransferAssumption
  <2> QED BY <2>3, <2>6 DEF y
<1> QED BY <1>2, <1>3

AnyFile == [p \in Path |-> Content \cup {NoFile}]
AnyPart == [p \in Path |-> Content]

LEMMA AnyFits == IsFitFor(AnyFile, AnyPart)
<1>1. IsFit(AnyFile)
  BY PathAssumption, TransferAssumption, SyncAssumption DEF IsFit, AnyFile, Node
<1>2. \A p \in Path : \A f \in AnyFile[p] \cap Content :
        /\ <<>> \in AnyPart[p]
        /\ \A x \in AnyPart[p] :
             /\ Len(x) < Len(f) => Append(x, f[Len(x) + 1]) \in AnyPart[p]
             /\ Len(x) >= Len(f) => x \in AnyFile[p]
  BY ContentsGrow DEF AnyFile, AnyPart
<1>3. /\ \A p \in Path : AnyFile[p] \subseteq Content \cup {NoFile}
      /\ \A p \in TempName : Content \subseteq AnyFile[p]
      /\ \A p \in UserPath : Text \subseteq AnyFile[p]
      /\ AnyPart \in [Path -> SUBSET Content]
  BY TransferAssumption DEF AnyFile, AnyPart, UserPath
<1> QED BY <1>1, <1>2, <1>3 DEF IsFitFor

LEMMA TransferIsTyped == TInv(AnyFile, AnyPart) => TransferTypeOK
<1> SUFFICES ASSUME TInv(AnyFile, AnyPart) PROVE TransferTypeOK
  OBVIOUS
<1>1. server \in Metadata /\ fresh \in Nat \ {0} /\ saved.meta \in Metadata
  BY DEF TInv, ServerGood, Disk, Sound
<1>2. files \in [Device -> [Path -> Node]]
  BY DEF TInv, Engines, Shaped, GoodDir
<1>3. /\ known \in [Device -> [Path -> LocalState \cup {NoState}]]
      /\ at \in [Device -> TransferPlaces]
      /\ scan \in [Device -> [Path -> Node]]
  BY DEF TInv, Engines, Shaped
<1>4. stored \subseteq Chunk /\ granted \subseteq stored /\ saved.granted \subseteq granted
  BY DEF TInv, Disk, DInv, Complete
<1>5. aborts + failures + restarts \in 0..MaxFaults
  BY BoundIsNat DEF TInv, Disk
<1> QED BY <1>1, <1>2, <1>3, <1>4, <1>5 DEF TransferTypeOK, TInv, Jobs

\* Every variable of Transfer keeps its type: an engine's job fits the place it is
\* at, every file is a sequence of chunks, the bound on faults is kept
\* (download, uploadFile, PutChunk, CommitFile).
THEOREM TransferTyped == TransferSpec => []TransferTypeOK
<1>1. TransferInit => TInv(AnyFile, AnyPart)
  BY TransferBegins, AnyFits
<1>2. TInv(AnyFile, AnyPart) /\ [TransferNext]_transferVars => TInv(AnyFile, AnyPart)'
  BY TransferStepGoes, AnyFits
<1> QED BY <1>1, <1>2, TransferIsTyped, PTL DEF TransferSpec

-----------------------------------------------------------------------------
(* Whole files. *)

WholeFile ==
  [p \in Path |-> (IF p \in UserPath THEN Mixture ELSE Content) \cup {NoFile}]

\* As much of a mixture as has been read.
Begun ==
  {x \in Content : /\ \A t \in Text : Len(x) <= Len(t)
                   /\ \A i \in DOMAIN x : \E t \in Text : i \in DOMAIN t /\ t[i] = x[i]}
WholePart == [p \in Path |-> IF p \in UserPath THEN Begun ELSE Content]

\* Texts have one length, and users write nothing under the names that copies
\* and temporary files get.
SameLength == \A s, t \in Text : Len(s) = Len(t)
OwnNames == UserPath \cap (CopyName \cup LocalCopyName \cup TempName) = {}

LEMMA MixturesGrow ==
  ASSUME SameLength, NEW f \in Mixture
  PROVE  /\ <<>> \in Begun
         /\ \A x \in Begun :
              /\ Len(x) < Len(f) => Append(x, f[Len(x) + 1]) \in Begun
              /\ Len(x) >= Len(f) => x \in Mixture
<1>1. f \in Content /\ f \in Seq(Chunk) /\ Len(f) \in Nat /\ DOMAIN f = 1..Len(f)
  BY TransferAssumption DEF Mixture
<1>2. PICK u \in Text : Len(f) = Len(u)
  BY DEF Mixture
<1>3. \A t \in Text : Len(f) = Len(t) /\ Len(t) \in Nat
  BY <1>1, <1>2 DEF SameLength
<1>4. <<>> \in Begun
  <2>1. <<>> \in Content /\ Len(<<>>) = 0 /\ DOMAIN <<>> = {}
    BY <1>1, ContentsGrow
  <2>2. \A t \in Text : Len(<<>>) <= Len(t)
    BY <1>3, <2>1
  <2> QED BY <2>1, <2>2 DEF Begun
<1>5. ASSUME NEW x \in Begun, Len(x) < Len(f)
      PROVE  Append(x, f[Len(x) + 1]) \in Begun
  <2> DEFINE y == Append(x, f[Len(x) + 1])
  <2>1. x \in Content /\ x \in Seq(Chunk) /\ Len(x) \in Nat /\ DOMAIN x = 1..Len(x)
    BY TransferAssumption DEF Begun
  <2>2. /\ y \in Content /\ Len(y) = Len(x) + 1
        /\ \A i \in 1..Len(x) : y[i] = x[i]
        /\ y[Len(x) + 1] = f[Len(x) + 1]
    BY <1>1, <1>5, <2>1, ContentsGrow
  <2> HIDE DEF y
  <2>3. DOMAIN y = 1..(Len(x) + 1)
    BY <2>2, TransferAssumption
  <2>4. \A t \in Text : Len(y) <= Len(t)
    BY <1>1, <1>3, <1>5, <2>1, <2>2
  <2>5. ASSUME NEW i \in DOMAIN y PROVE \E t \in Text : i \in DOMAIN t /\ t[i] = y[i]
    <3>1. CASE i \in 1..Len(x)
      BY <2>1, <2>2, <3>1 DEF Begun
    <3>2. CASE i = Len(x) + 1
      <4>1. i \in DOMAIN f /\ y[i] = f[i]
        BY <1>1, <1>5, <2>1, <2>2, <3>2
      <4> QED BY <4>1 DEF Mixture
    <3> QED BY <2>1, <2>3, <3>1, <3>2
  <2>6. y \in Begun
    BY <2>2, <2>4, <2>5 DEF Begun
  <2> QED BY <2>6 DEF y
<1>6. ASSUME NEW x \in Begun, Len(x) >= Len(f)
      PROVE  x \in Mixture
  <2>1. x \in Content /\ Len(x) \in Nat
    BY TransferAssumption DEF Begun
  <2>2. Len(x) = Len(u)
    BY <1>1, <1>2, <1>6, <2>1 DEF Begun
  <2> QED BY <2>1, <2>2 DEF Begun, Mixture
<1> QED BY <1>4, <1>5, <1>6

LEMMA WholeFits ==
  ASSUME SameLength, OwnNames
  PROVE  IsFitFor(WholeFile, WholePart)
<1>1. IsFit(WholeFile)
  <2>1. Mixture \subseteq Content /\ UserPath \subseteq Path
    BY DEF Mixture, UserPath
  <2>2. \A q \in CopyName \cup LocalCopyName : q \in Path /\ q \notin UserPath
    BY PathAssumption, SyncAssumption DEF OwnNames
  <2> QED BY <2>1, <2>2, PathAssumption, TransferAssumption DEF IsFit, WholeFile, Node
<1>2. ASSUME NEW p \in Path, NEW f \in WholeFile[p] \cap Content
      PROVE  /\ <<>> \in WholePart[p]
             /\ \A x \in WholePart[p] :
                  /\ Len(x) < Len(f) => Append(x, f[Len(x) + 1]) \in WholePart[p]
                  /\ Len(x) >= Len(f) => x \in WholeFile[p]
  <2>1. CASE p \in UserPath
    <3>1. f \in Mixture
      BY <1>2, <2>1, SyncAssumption DEF WholeFile
    <3>2. WholePart[p] = Begun /\ Mixture \subseteq WholeFile[p]
      BY <2>1 DEF WholePart, WholeFile
    <3> QED BY <3>1, <3>2, MixturesGrow
  <2>2. CASE p \notin UserPath
    <3>1. WholePart[p] = Content /\ WholeFile[p] = Content \cup {NoFile}
      BY <2>2 DEF WholePart, WholeFile
    <3> QED BY <1>2, <3>1, ContentsGrow
  <2> QED BY <2>1, <2>2
<1>3. Text \subseteq Mixture
  <2>1. ASSUME NEW x \in Text PROVE x \in Mixture
    <3>1. x \in Content
      BY TransferAssumption
    <3>2. \A i \in DOMAIN x : i \in DOMAIN x /\ x[i] = x[i]
      OBVIOUS
    <3> QED BY <3>1, <3>2 DEF Mixture
  <2> QED BY <2>1
<1>4. /\ \A p \in Path : WholeFile[p] \subseteq Content \cup {NoFile}
      /\ \A p \in TempName : Content \subseteq WholeFile[p]
      /\ \A p \in UserPath : Text \subseteq WholeFile[p]
  BY <1>3, TransferAssumption DEF WholeFile, Mixture, UserPath, OwnNames
<1>5. WholePart \in [Path -> SUBSET Content]
  BY DEF WholePart, Begun
<1> QED BY <1>1, <1>2, <1>4, <1>5 DEF IsFitFor

LEMMA WholeIsEnough == TInv(WholeFile, WholePart) => WholeFiles
<1> SUFFICES ASSUME TInv(WholeFile, WholePart), NEW p \in UserPath
             PROVE  /\ \A c \in Device : files[c][p] \in Mixture \cup {NoFile}
                    /\ ServerNode(p) \in Mixture \cup {NoFile}
  BY DEF WholeFiles
<1>1. p \in Path /\ WholeFile[p] = Mixture \cup {NoFile}
  BY DEF WholeFile, UserPath
<1>2. \A c \in Device : files[c][p] \in Mixture \cup {NoFile}
  BY <1>1 DEF TInv, Engines, Shaped, GoodDir
<1>3. ServerNode(p) \in Mixture \cup {NoFile}
  <2>1. CASE ~IsLive(server.files[p])
    BY <2>1 DEF ServerNode
  <2>2. CASE IsLive(server.files[p])
    <3> DEFINE v == server.files[p].current
    <3>1. v \in GoodVersion(WholeFile) /\ v.path = p
      BY <1>1, <2>2 DEF TInv, ServerGood, Holds, Sound, Headed, IsLive
    <3>2. v.state # "dir"
      <4>1. DirNode \notin Mixture \cup {NoFile}
        BY SyncAssumption DEF Mixture
      <4> QED BY <1>1, <3>1, <4>1 DEF GoodVersion
    <3>3. v.state # "deleted" /\ v.state \in {"file", "dir", "deleted"}
      BY <2>2, <3>1 DEF IsLive, GoodVersion, Version
    <3>4. v.content \in Mixture \cup {NoFile}
      BY <1>1, <3>1, <3>2, <3>3 DEF GoodVersion
    <3> QED BY <2>2, <3>2, <3>4 DEF ServerNode, IsLiveDir
  <2> QED BY <2>1, <2>2
<1> QED BY <1>2, <1>3

\* What is under a name that users write, on a device or on the server, is
\* never the part of a download, whatever is cut short, crashes or restarts: it
\* is a text, or a mixture of texts read while the user wrote (AtomicWrite,
\* HashFile).
THEOREM FilesAreWhole ==
  ASSUME SameLength, OwnNames
  PROVE  TransferSpec => []WholeFiles
<1>1. TransferInit => TInv(WholeFile, WholePart)
  BY TransferBegins, WholeFits
<1>2. TInv(WholeFile, WholePart) /\ [TransferNext]_transferVars => TInv(WholeFile, WholePart)'
  BY TransferStepGoes, WholeFits
<1> QED BY <1>1, <1>2, WholeIsEnough, PTL DEF TransferSpec

-----------------------------------------------------------------------------
(* The history and the log. *)

\* The versions of a log are versions of the history; what a call adds it adds
\* to both.
Logged(m) ==
  Len(m.events) \in Nat /\ \A i \in 1..Len(m.events) : m.events[i].version \in m.versions

LEMMA MovesLogged ==
  ASSUME NEW m, NEW new, Moves(m, new) \/ Pruned(m, new)
  PROVE  /\ m.versions \subseteq new.versions
         /\ Logged(m) => Logged(new)
<1>1. CASE Quiet(m, new) \/ Pruned(m, new)
  BY <1>1 DEF Quiet, Pruned, Logged
<1>2. ASSUME NEW v, Appends(m, new, v)
      PROVE  m.versions \subseteq new.versions /\ (Logged(m) => Logged(new))
  <2>1. new.versions = m.versions \cup {v} /\ LogGrows(m.events, new.events, v)
    BY <1>2 DEF Appends
  <2>2. ASSUME Logged(m) PROVE Logged(new)
    <3>1. Len(new.events) \in Nat
      BY <2>1 DEF LogGrows
    <3>2. ASSUME NEW i \in 1..Len(new.events) PROVE new.events[i].version \in new.versions
      <4>1. CASE i = Len(new.events)
        BY <2>1, <4>1 DEF LogGrows
      <4>2. CASE i # Len(new.events)
        BY <2>1, <2>2, <4>2 DEF LogGrows, Logged
      <4> QED BY <4>1, <4>2
    <3> QED BY <3>1, <3>2 DEF Logged
  <2> QED BY <2>1, <2>2
<1> QED BY <1>1, <1>2 DEF Moves

\* A reply names a version of the history, and a copy's name is a new one.
LEMMA CommitReplies ==
  ASSUME NEW m, NEW n \in Nat, Sound(m, n, n),
         NEW r \in Request, r.kind \in {"file", "dir"},
         NEW done \in CommitEntry(m, r, n), done.ok
  PROVE  LET v == done.reply.version
         IN  /\ v \in done.meta.versions
             /\ v.path # r.path => v.path \in CopyName /\ \A w \in m.versions : w.path # v.path
<1> DEFINE entry == Opened(m, r.path, n)
           opened == [m EXCEPT !.files[r.path] = entry]
           copy(c) == NewVersion(r, c, n, n)
           next == NewVersion(r, r.path, entry.fileID, n)
<1>1. r.path \in Path
  BY DEF Request
<1>2. opened.versions = m.versions /\ opened \in Metadata
      /\ entry \in Entry
  BY <1>1 DEF Sound, Metadata, Opened, Entry
<1>3. /\ next.path = r.path /\ next \in Version
      /\ \A c \in CopyName : copy(c).path = c /\ copy(c) \in Version
  BY <1>1, <1>2, PathAssumption, NewVersionType DEF Entry
<1>4. \A v \in Version : v \in Install(opened, v).versions
  <2>1. Window(opened)
    BY DEF Sound, Metadata, Window
  <2> HIDE DEF opened
  <2> QED BY <1>2, <2>1, InstallFields
<1>5. CASE r.kind = "dir" /\ IsLiveDir(entry) /\ done = Accepted(opened, "ok", entry.current, FALSE)
  <2>1. HasVersion(m.files[r.path]) /\ entry = m.files[r.path]
    BY <1>5 DEF IsLiveDir, HasVersion, Opened
  <2>2. entry.current \in m.versions /\ entry.current.path = r.path
    BY <1>1, <2>1 DEF Sound, Headed
  <2> QED BY <1>2, <1>5, <2>2 DEF Accepted
<1>6. ASSUME NEW c \in FreeCopies(opened, r.path),
             done = Accepted(Install(opened, copy(c)), "ok", copy(c), TRUE)
      PROVE  /\ done.reply.version \in done.meta.versions
             /\ done.reply.version.path \in CopyName
             /\ \A w \in m.versions : w.path # done.reply.version.path
  <2>1. c \in CopyName /\ \A w \in m.versions : w.path # c
    BY <1>2 DEF FreeCopies
  <2>2. copy(c).path = c /\ copy(c) \in Version
    BY <1>3, <2>1
  <2> HIDE DEF copy
  <2>3. copy(c) \in Install(opened, copy(c)).versions
    BY <1>4, <2>2
  <2>4. done.reply.version = copy(c) /\ done.meta = Install(opened, copy(c))
    BY <1>6 DEF Accepted
  <2> QED BY <2>1, <2>2, <2>3, <2>4
<1>7. CASE done = Accepted(Install(opened, next), "ok", next, FALSE)
  BY <1>3, <1>4, <1>7 DEF Accepted
<1>8. \/ r.kind = "dir" /\ IsLiveDir(entry) /\ done = Accepted(opened, "ok", entry.current, FALSE)
      \/ \E c \in FreeCopies(opened, r.path) :
           done = Accepted(Install(opened, copy(c)), "ok", copy(c), TRUE)
      \/ done = Accepted(Install(opened, next), "ok", next, FALSE)
  <2>1. done # Rejected(opened)
    BY DEF Rejected
  <2> QED BY <2>1 DEF CommitEntry
<1> QED BY <1>5, <1>6, <1>7, <1>8

-----------------------------------------------------------------------------
(* What users wrote. *)

\* Users leave a directory alone while a download lands in it, their edits
\* show in size or time, and they write nothing under the names of copies.
CalmUsers ==
  /\ "land" \notin UserActsAt
  /\ ~CoarseClock
  /\ \A q \in CopyName : KindsAt[q] = {}

History == {v.content : v \in server.versions}

\* What an engine works with comes from the server's history: the events it has
\* fetched, the contents its state file knows, the answer it got.
Queued(c) == \A i \in 1..Len(queue[c]) : queue[c][i].version \in server.versions

Recorded(c) == \A p \in Path : KnownAs(c, p, "file") => known[c][p].content \in History

\* The name of a conflict copy is free until the answer is recorded.
Sent(c) ==
  at[c] = "answer" /\ reply[c].kind = "push" =>
    LET v == reply[c].reply.version
    IN  v \in server.versions /\ (v.path # reply[c].path => files[c][v.path] \notin Content)

Copies(c) == \A q \in CopyName : files[c][q] \in Content => \E v \in server.versions : v.path = q

\* What a download is about to replace is no edit.
Examined(c) ==
  at[c] = "land" /\ ~IsDirEvent(c, Target(c)) =>
    files[c][Target(c).path] \in {NoFile, DirNode} \cup History

Safe(c) ==
  Queued(c) /\ Recorded(c) /\ Sent(c) /\ Copies(c) /\ Examined(c) /\ touched[c] = {}

KeptInv == SyncInv(Anywhere) /\ Logged(server) /\ \A c \in Device : Safe(c)

HistoryGrows == server.versions \subseteq server'.versions

LEMMA PartsStay ==
  ASSUME NEW c \in Device, Safe(c), HistoryGrows
  PROVE  /\ queue'[c] = queue[c] => Queued(c)'
         /\ known'[c] = known[c] => Recorded(c)'
         /\ (\A q \in CopyName : files'[c][q] \in Content => files[c][q] \in Content) => Copies(c)'
         /\ at'[c] \notin {"land", "answer"} => Sent(c)' /\ Examined(c)'
<1>1. History \subseteq History'
  BY DEF HistoryGrows, History
<1>2. queue'[c] = queue[c] => Queued(c)'
  BY DEF Safe, Queued, HistoryGrows
<1>3. known'[c] = known[c] => Recorded(c)'
  BY <1>1 DEF Safe, Recorded, KnownAs
<1>4. (\A q \in CopyName : files'[c][q] \in Content => files[c][q] \in Content) => Copies(c)'
  BY DEF Safe, Copies, HistoryGrows
<1>5. at'[c] \notin {"land", "answer"} => Sent(c)' /\ Examined(c)'
  BY DEF Sent, Examined
<1> QED BY <1>2, <1>3, <1>4, <1>5

\* An engine that stands still.
LEMMA StillSafe ==
  ASSUME NEW c \in Device, Safe(c), HistoryGrows,
         files'[c] = files[c], known'[c] = known[c], at'[c] = at[c],
         queue'[c] = queue[c], reply'[c] = reply[c], touched'[c] = touched[c]
  PROVE  Safe(c)'
<1>1. Queued(c)' /\ Recorded(c)' /\ Copies(c)'
  BY PartsStay
<1>2. Sent(c)'
  BY DEF Safe, Sent, HistoryGrows
<1>3. Examined(c)'
  BY DEF Safe, Examined, HistoryGrows, History, IsDirEvent, WasDir, KnownAs, Target, Current
<1> QED BY <1>1, <1>2, <1>3 DEF Safe

LEMMA OneIsSafe ==
  ASSUME KeptInv, NEW c \in Device, OnlyAt(c), HistoryGrows, Safe(c)'
  PROVE  \A d \in Device : Safe(d)'
<1>1. ASSUME NEW d \in Device, d # c PROVE Safe(d)'
  BY <1>1, StillSafe DEF KeptInv, OnlyAt
<1> QED BY <1>1

\* A round that ends.
LEMMA EndIsSafe ==
  ASSUME Engines(Anywhere), NEW c \in Device, Safe(c), HistoryGrows, EndRound(c),
         UNCHANGED <<known, touched>>,
         \A q \in CopyName : files'[c][q] \in Content => files[c][q] \in Content
  PROVE  Safe(c)'
<1>1. at'[c] = "idle" /\ queue'[c] = <<>>
  BY DEF Engines, Shaped, EndRound, Go
<1>2. Queued(c)'
  BY <1>1 DEF Queued
<1> QED BY <1>1, <1>2, PartsStay DEF Safe

\* The events that are fetched.
LEMMA FetchIsQueued ==
  ASSUME Engines(Anywhere), Sound(server, fresh, fresh), Logged(server), NEW c \in Device,
         Fetch(c), HistoryGrows
  PROVE  Queued(c)'
<1> DEFINE S == {e \in Event : e.version \in server.versions}
<1>1. server.events \in Seq(Event)
  BY DEF Sound, Metadata
<1>2. server.events \in Seq(S)
  <2>1. \A i \in 1..Len(server.events) : server.events[i] \in S
    BY <1>1 DEF Logged
  <2> HIDE DEF S
  <2> QED BY <1>1, <2>1, SeqDef, LenProperties
<1>3. EventsAfter(server, seen[c]) \in Seq(S)
  BY <1>2, EventsAfterTyped
<1>4. queue'[c] = EventsAfter(server, seen[c])
  BY DEF Engines, Shaped, Fetch
<1>5. \A i \in 1..Len(queue'[c]) : queue'[c][i] \in S
  BY <1>3, <1>4
<1> QED BY <1>5 DEF Queued, HistoryGrows

\* The event being applied, and those after it.
LEMMA TargetIsPast ==
  ASSUME Engines(Anywhere), NEW c \in Device, Queued(c), queue[c] # <<>>
  PROVE  /\ Target(c) \in server.versions
         /\ MarkSeen(c) /\ HistoryGrows => Queued(c)'
<1>1. queue[c] \in Seq(GoodEvent(Anywhere))
  BY DEF Engines, Shaped
<1>2. Head(queue[c]) = queue[c][1] /\ 1 \in 1..Len(queue[c])
  BY <1>1
<1>3. ASSUME MarkSeen(c), HistoryGrows PROVE Queued(c)'
  <2>1. queue'[c] = Tail(queue[c])
    BY <1>3 DEF Engines, Shaped, MarkSeen
  <2>2. \A i \in 1..Len(Tail(queue[c])) :
          i + 1 \in 1..Len(queue[c]) /\ Tail(queue[c])[i] = queue[c][i + 1]
    BY <1>1, <1>2
  <2> QED BY <1>3, <2>1, <2>2 DEF Queued, HistoryGrows
<1> QED BY <1>2, <1>3 DEF Target, Current, Queued

-----------------------------------------------------------------------------
(* What users wrote: events that arrive. *)

LEMMA FetchingSafe ==
  ASSUME KeptInv, NEW c \in Device, BeginRound(c) \/ EndPush(c), HistoryGrows
  PROVE  Safe(c)'
<1>0. Engines(Anywhere) /\ Sound(server, fresh, fresh) /\ Logged(server) /\ Safe(c)
  BY DEF KeptInv, SyncInv, ServerGood
<1>1. Fetch(c) /\ UNCHANGED <<files, known, touched>>
  BY DEF BeginRound, EndPush, local
<1>2. at'[c] = "pull"
  BY <1>0 DEF Engines, Shaped, BeginRound, EndPush, Go
<1>3. Queued(c)'
  BY <1>0, <1>1, FetchIsQueued
<1> QED BY <1>0, <1>1, <1>2, <1>3, PartsStay DEF Safe

LEMMA SkipEventSafe ==
  ASSUME KeptInv, NEW c \in Device, SkipEvent(c), HistoryGrows
  PROVE  Safe(c)'
<1>0. Engines(Anywhere) /\ Safe(c)
  BY DEF KeptInv, SyncInv
<1>1. at'[c] = "pull" /\ MarkSeen(c) /\ queue[c] # <<>> /\ UNCHANGED <<files, known, touched>>
  BY DEF SkipEvent
<1>2. Queued(c)'
  BY <1>0, <1>1, TargetIsPast DEF Safe
<1> QED BY <1>0, <1>1, <1>2, PartsStay DEF Safe

\* A rename keeps what it does not overwrite.
LEMMA RenameMoves ==
  ASSUME NEW N, NEW fs \in GoodDir(N), NEW p \in Path, NEW q \in Path, p # q
  PROVE  /\ Rename(fs, p, q)[q] = fs[p] /\ Rename(fs, p, q)[p] = NoFile
         /\ \A r \in Path : r \notin {p, q} => Rename(fs, p, q)[r] = fs[r]
BY DEF Rename, GoodDir

\* A file that has changes of its own gets out of the way, another is none or
\* what the state file knows.
LEMMA ExamineSafe ==
  ASSUME KeptInv, NEW c \in Device, Examine(c), HistoryGrows
  PROVE  Safe(c)'
<1> DEFINE v == Target(c)
           p == Target(c).path
           diverged == ~IsDirEvent(c, v) /\ HasDivergence(c, p)
<1>0. /\ Engines(Anywhere) /\ Safe(c) /\ touched[c] = {}
      /\ files[c] \in GoodDir(Anywhere) /\ \A q \in Path : files[c][q] \in Node
  BY DEF KeptInv, SyncInv, Safe, Engines, Shaped, GoodDir
<1>1. /\ at[c] = "pull" /\ queue[c] # <<>>
      /\ UNCHANGED <<store, known, seen, touched, pass, queue, scan, todo, reply>>
  BY DEF Examine
<1>2. p \in Path /\ v = Target(c)'
  <2>1. p \in Path
    BY <1>0, <1>1, TargetIsGood DEF Engines
  <2> QED BY <1>1, <2>1 DEF Target, Current
<1>3. Queued(c)' /\ Recorded(c)'
  BY <1>0, <1>1, PartsStay
<1>4. CASE diverged
  <2>1. PICK q \in FreeLocalCopies(p) :
          files' = [files EXCEPT ![c] = Rename(files[c], p, q)]
    BY <1>4 DEF Examine
  <2>2. q \in Path /\ q \notin CopyName /\ files[c][q] = NoFile
    BY SyncAssumption DEF FreeLocalCopies
  <2>3. files[c][p] # NoFile
    BY <1>4, SyncAssumption DEF HasDivergence
  <2>4. files'[c] = Rename(files[c], p, q)
    BY <1>0, <2>1 DEF Engines, Shaped
  <2>5. /\ files'[c][p] = NoFile
        /\ \A r \in CopyName : files'[c][r] = files[c][r] \/ files'[c][r] = NoFile
    <3>1. \A r \in CopyName : r \in Path
      BY PathAssumption
    <3>2. p # q
      BY <2>2, <2>3
    <3> QED BY <1>0, <1>2, <2>2, <2>4, <3>1, <3>2, RenameMoves
  <2>6. Copies(c)'
    BY <1>0, <2>5, PartsStay, SyncAssumption
  <2>7. at'[c] \in {"land", "settle"}
    BY <1>0 DEF Engines, Shaped, Examine, Go
  <2>8. Examined(c)' /\ Sent(c)'
    BY <1>2, <2>5, <2>7 DEF Examined, Sent
  <2> QED BY <1>0, <1>1, <1>3, <2>6, <2>8 DEF Safe
<1>5. CASE ~diverged
  <2>1. UNCHANGED files /\ at'[c] = "land"
    BY <1>0, <1>5 DEF Examine, Go, Engines, Shaped
  <2>2. Copies(c)'
    BY <1>0, <2>1, PartsStay
  <2>3. Sent(c)'
    BY <2>1 DEF Sent
  <2>4. ASSUME ~HasDivergence(c, p) PROVE files[c][p] \in {NoFile, DirNode} \cup History
    <3>1. CASE KnownAs(c, p, "dir")
      BY <1>0, <1>2, <2>4, <3>1 DEF HasDivergence, Node
    <3>2. CASE KnownAs(c, p, "file") /\ ~KnownAs(c, p, "dir")
      BY <1>0, <1>2, <2>4, <3>2 DEF HasDivergence, Safe, Recorded
    <3>3. CASE ~KnownAs(c, p, "file") /\ ~KnownAs(c, p, "dir")
      BY <2>4, <3>3 DEF HasDivergence
    <3> QED BY <3>1, <3>2, <3>3
  <2>5. Examined(c)'
    <3>1. IsDirEvent(c, v)' <=> IsDirEvent(c, v)
      BY <1>1 DEF IsDirEvent, WasDir, KnownAs, Target, Current
    <3>2. History \subseteq History'
      BY DEF HistoryGrows, History
    <3>3. Target(c)' = Target(c)
      BY <1>2
    <3> QED BY <1>5, <2>1, <2>4, <3>1, <3>2, <3>3 DEF Examined
  <2> QED BY <1>0, <1>1, <1>3, <2>2, <2>3, <2>5 DEF Safe
<1> QED BY <1>4, <1>5

-----------------------------------------------------------------------------
(* What users wrote: landings. *)

\* What a landing leaves at a path that is not the version's.
LEMMA LandedElsewhere ==
  ASSUME NEW fs \in GoodDir(Anywhere), NEW v \in Version, NEW q \in Path,
         q # v.path, Landed(fs, v)[q] \in Content
  PROVE  fs[q] = Landed(fs, v)[q]
<1>1. v.path \in Path /\ v.state \in {"file", "dir", "deleted"} /\ fs \in [Path -> Node]
  BY DEF Version, GoodDir
<1>2. DirNode \notin Content
  BY SyncAssumption
<1>3. MakeParent(fs, v.path)[q] \in Content => MakeParent(fs, v.path)[q] = fs[q]
  BY <1>1, <1>2, PathAssumption DEF MakeParent
<1>4. RemoveIfEmpty(fs, v.path)[q] = fs[q]
  BY <1>1 DEF RemoveIfEmpty
<1>5. v.state \in {"file", "dir"} => Landed(fs, v)[q] = MakeParent(fs, v.path)[q]
  <2>1. MakeParent(fs, v.path) \in [Path -> Node]
    BY <1>1, PathAssumption DEF MakeParent, Node
  <2> QED BY <1>1, <2>1 DEF Landed
<1>6. v.state = "deleted" => Landed(fs, v)[q] = fs[q]
  BY <1>4 DEF Landed
<1> QED BY <1>1, <1>3, <1>5, <1>6

LEMMA LandSafe ==
  ASSUME KeptInv, NEW c \in Device, Land(c), HistoryGrows
  PROVE  Safe(c)'
<1>0. /\ Engines(Anywhere) /\ Safe(c) /\ files[c] \in GoodDir(Anywhere)
      /\ at[c] = "land" /\ queue[c] # <<>>
  BY DEF KeptInv, SyncInv, Engines, Shaped, Land, MidRound, HasTarget
<1>1. /\ at'[c] = "settle" /\ files'[c] = Landed(files[c], Target(c))
      /\ UNCHANGED <<known, touched, queue>>
  BY <1>0 DEF Engines, Shaped, Land, Go
<1>2. Target(c) \in Version /\ Target(c) \in server.versions
  BY <1>0, TargetIsGood, TargetIsPast DEF Engines, Safe
<1>3. Copies(c)'
  <2> SUFFICES ASSUME NEW q \in CopyName, files'[c][q] \in Content
               PROVE  \E v \in server'.versions : v.path = q
    BY DEF Copies
  <2>1. q \in Path
    BY PathAssumption
  <2>2. CASE q = Target(c).path
    BY <1>2, <2>2 DEF HistoryGrows
  <2>3. CASE q # Target(c).path
    <3>1. files[c][q] \in Content
      BY <1>0, <1>1, <1>2, <2>1, <2>3, LandedElsewhere
    <3> QED BY <1>0, <3>1 DEF Safe, Copies, HistoryGrows
  <2> QED BY <2>2, <2>3
<1> QED BY <1>0, <1>1, <1>3, PartsStay DEF Safe

LEMMA SettleSafe ==
  ASSUME KeptInv, NEW c \in Device, Settle(c), HistoryGrows
  PROVE  Safe(c)'
<1>0. /\ Engines(Anywhere) /\ Safe(c) /\ at[c] = "settle" /\ queue[c] # <<>>
      /\ known[c] \in [Path -> LocalState \cup {NoState}]
  BY DEF KeptInv, SyncInv, Engines, Shaped, Settle, MidRound, HasTarget
<1>1. /\ at'[c] = "pull" /\ UNCHANGED files /\ MarkSeen(c)
      /\ known'[c] = [known[c] EXCEPT ![Target(c).path] = StateOf(Target(c))]
      /\ touched'[c] = touched[c] \ {Target(c).path}
  BY <1>0 DEF Engines, Shaped, Settle, SetKnown, Go
<1>2. Target(c) \in server.versions /\ Queued(c)'
  BY <1>0, <1>1, TargetIsPast DEF Safe
<1>3. Recorded(c)'
  <2> SUFFICES ASSUME NEW p \in Path, KnownAs(c, p, "file")'
               PROVE  known'[c][p].content \in History'
    BY DEF Recorded
  <2>1. CASE p = Target(c).path
    <3>1. known'[c][p].content = Target(c).content
      BY <1>0, <1>1, <2>1 DEF StateOf
    <3> QED BY <1>2, <3>1 DEF History, HistoryGrows
  <2>2. CASE p # Target(c).path
    <3>1. known'[c][p] = known[c][p]
      BY <1>0, <1>1, <2>2
    <3> QED BY <1>0, <3>1 DEF Safe, Recorded, KnownAs, History, HistoryGrows
  <2> QED BY <2>1, <2>2
<1>4. touched'[c] = {}
  BY <1>0, <1>1 DEF Safe
<1> QED BY <1>0, <1>1, <1>2, <1>3, <1>4, PartsStay DEF Safe

\* Clearing directories away leaves what it leaves as it was.
LEMMA CleanLeaves ==
  ASSUME NEW fs \in GoodDir(Anywhere), NEW gone, NEW q \in Path
  PROVE  CleanDirs(fs, gone)[q] \in {fs[q], NoFile}
<1> DEFINE inner == [p \in Path |-> IF p \in gone /\ Parent[p] # NoPath
                                      THEN RemoveIfEmpty(fs, p)[p] ELSE fs[p]]
<1>1. fs \in [Path -> Node]
  BY DEF GoodDir
<1>2. \A p \in Path : RemoveIfEmpty(fs, p)[p] \in {fs[p], NoFile}
  BY <1>1 DEF RemoveIfEmpty
<1>3. \A p \in Path : inner[p] \in {fs[p], NoFile}
  BY <1>2
<1>4. inner \in [Path -> Node]
  BY <1>1, <1>3 DEF Node
<1>5. RemoveIfEmpty(inner, q)[q] \in {inner[q], NoFile}
  <2> HIDE DEF inner
  <2> QED BY <1>4 DEF RemoveIfEmpty
<1>6. CleanDirs(fs, gone)[q] \in {RemoveIfEmpty(inner, q)[q], inner[q]}
  BY DEF CleanDirs
<1> HIDE DEF inner
<1> QED BY <1>3, <1>5, <1>6

LEMMA EndPullSafe ==
  ASSUME KeptInv, NEW c \in Device, EndPull(c), HistoryGrows
  PROVE  Safe(c)'
<1>0. Engines(Anywhere) /\ Safe(c) /\ files[c] \in GoodDir(Anywhere)
  BY DEF KeptInv, SyncInv, Engines, Shaped
<1>1. files'[c] = CleanDirs(files[c], DeletedDirs(c)) /\ UNCHANGED <<known, touched>>
  BY <1>0 DEF Engines, Shaped, EndPull
<1>2. \A q \in CopyName : files'[c][q] \in Content => files[c][q] \in Content
  <2>1. \A q \in CopyName : files'[c][q] \in {files[c][q], NoFile}
    BY <1>0, <1>1, CleanLeaves, PathAssumption
  <2> QED BY <2>1, SyncAssumption
<1>3. CASE EndRound(c)
  BY <1>0, <1>1, <1>2, <1>3, EndIsSafe
<1>4. CASE Go(c, "scan") /\ UNCHANGED <<pass, queue, scan, todo, reply>>
  <2>1. at'[c] = "scan"
    BY <1>0, <1>4 DEF Engines, Shaped, Go
  <2> QED BY <1>0, <1>1, <1>2, <1>4, <2>1, PartsStay DEF Safe
<1> QED BY <1>3, <1>4 DEF EndPull

\* Steps that change nothing but the engine's place in its round.
LEMMA PlaceSafe ==
  ASSUME KeptInv, NEW c \in Device,
         ScanLocal(c) \/ EndUploads(c) \/ FailToLand(c) \/ Abort(c), HistoryGrows
  PROVE  Safe(c)'
<1>0. Engines(Anywhere) /\ Safe(c)
  BY DEF KeptInv, SyncInv
<1>1. UNCHANGED <<files, known, touched>>
  BY DEF ScanLocal, EndUploads, FailToLand, Abort, local
<1>2. CASE EndRound(c)
  BY <1>0, <1>1, <1>2, EndIsSafe
<1>3. CASE ScanLocal(c) \/ EndUploads(c)
  <2>1. at'[c] \in {"push", "drop"} /\ queue' = queue
    BY <1>0, <1>3 DEF Engines, Shaped, ScanLocal, EndUploads, Go
  <2> QED BY <1>0, <1>1, <2>1, PartsStay DEF Safe
<1> QED BY <1>2, <1>3 DEF FailToLand, Abort

-----------------------------------------------------------------------------
(* What users wrote: answers. *)

\* What recording an upload does to the device: a file that became a conflict
\* copy is renamed like it.
LEMMA RecordUploadMoves ==
  ASSUME NEW N, Engines(N), NEW c \in Device, RecordUpload(c)
  PROVE  LET p == reply[c].path
             v == reply[c].reply.version
             renamed == v.path # p /\ scan[c][p] # DirNode
         IN  /\ p \in Path /\ v \in Version /\ v.path \in {p} \cup CopyName
             /\ at[c] = "answer" /\ reply[c].kind = "push"
             /\ \/ EndRound(c) /\ UNCHANGED <<files, known, touched>>
                \/ /\ at'[c] = "push" /\ queue' = queue
                   /\ files'[c] = IF renamed THEN Rename(files[c], p, v.path) ELSE files[c]
                   /\ known'[c] = [q \in Path |-> IF q = v.path THEN StateOf(v)
                                                  ELSE IF renamed /\ q = p THEN NoState
                                                  ELSE known[c][q]]
                   /\ touched'[c] = touched[c] \ {p, v.path}
<1> DEFINE p == reply[c].path
           v == reply[c].reply.version
           renamed == v.path # p /\ scan[c][p] # DirNode
           moved == IF renamed THEN Rename(files[c], p, v.path) ELSE files[c]
           noted == [q \in Path |-> IF q = v.path THEN StateOf(v)
                                    ELSE IF renamed /\ q = p THEN NoState
                                    ELSE known[c][q]]
<1>1. at[c] = "answer" /\ reply[c].kind = "push"
  BY DEF RecordUpload
<1>2. p \in Path /\ v \in Version /\ v.path \in {p} \cup CopyName
  BY <1>1 DEF Engines, MidRound, HasAnswer, Answer
<1>3. CASE renamed /\ files[c][p] = NoFile
  BY <1>1, <1>2, <1>3 DEF RecordUpload, local
<1>4. CASE ~(renamed /\ files[c][p] = NoFile)
  <2>1. files' = [files EXCEPT ![c] = IF renamed THEN Rename(@, p, v.path) ELSE @]
    BY <1>4 DEF RecordUpload
  <2>2. files' = [files EXCEPT ![c] = moved]
    BY <2>1, Zenon
  <2>3. known' = [known EXCEPT ![c] = noted]
    BY <1>4 DEF RecordUpload
  <2>4. /\ touched' = [touched EXCEPT ![c] = @ \ {p, v.path}]
        /\ at' = [at EXCEPT ![c] = "push"] /\ queue' = queue
    BY <1>4 DEF RecordUpload, Go
  <2> HIDE DEF moved, noted, p, v
  <2>5. files'[c] = moved /\ known'[c] = noted /\ at'[c] = "push" /\ queue' = queue
    BY <2>2, <2>3, <2>4 DEF Engines, Shaped
  <2>6. touched'[c] = touched[c] \ {p, v.path}
    BY <2>4 DEF Engines, Shaped
  <2> QED BY <1>1, <1>2, <2>5, <2>6 DEF moved, noted, p, v
<1> QED BY <1>3, <1>4

LEMMA RecordUploadSafe ==
  ASSUME KeptInv, NEW c \in Device, RecordUpload(c), HistoryGrows
  PROVE  Safe(c)'
<1> DEFINE p == reply[c].path
           v == reply[c].reply.version
           renamed == v.path # p /\ scan[c][p] # DirNode
           noted == [q \in Path |-> IF q = v.path THEN StateOf(v)
                                    ELSE IF renamed /\ q = p THEN NoState
                                    ELSE known[c][q]]
<1>0. Engines(Anywhere) /\ Safe(c) /\ files[c] \in GoodDir(Anywhere)
  BY DEF KeptInv, SyncInv, Engines, Shaped
<1>1. /\ p \in Path /\ v \in Version /\ v.path \in {p} \cup CopyName
      /\ at[c] = "answer" /\ reply[c].kind = "push"
  BY <1>0, RecordUploadMoves
<1>2. v \in server.versions
  BY <1>0, <1>1 DEF Safe, Sent
<1>3. CASE EndRound(c) /\ UNCHANGED <<files, known, touched>>
  BY <1>0, <1>3, EndIsSafe
<1>4. CASE /\ at'[c] = "push" /\ queue' = queue
           /\ files'[c] = IF renamed THEN Rename(files[c], p, v.path) ELSE files[c]
           /\ known'[c] = noted
           /\ touched'[c] = touched[c] \ {p, v.path}
  <2>1. Copies(c)'
    <3> SUFFICES ASSUME NEW q \in CopyName, files'[c][q] \in Content
                 PROVE  \E w \in server'.versions : w.path = q
      BY DEF Copies
    <3>1. q \in Path /\ v.path \in Path
      BY <1>1, PathAssumption
    <3>2. CASE q = v.path
      BY <1>2, <3>2 DEF HistoryGrows
    <3>3. CASE q # v.path
      <4>1. files'[c][q] \in {files[c][q], NoFile}
        <5>1. CASE renamed
          BY <1>0, <1>1, <1>4, <3>1, <3>3, <5>1, RenameMoves
        <5>2. CASE ~renamed
          BY <1>4, <5>2
        <5> QED BY <5>1, <5>2
      <4>2. files[c][q] \in Content
        BY <4>1, SyncAssumption
      <4> QED BY <1>0, <4>2 DEF Safe, Copies, HistoryGrows
    <3> QED BY <3>2, <3>3
  <2>2. Recorded(c)'
    <3> SUFFICES ASSUME NEW q \in Path, KnownAs(c, q, "file")'
                 PROVE  known'[c][q].content \in History'
      BY DEF Recorded
    <3>1. known'[c][q] # NoState /\ known'[c][q].state = "file"
      BY DEF KnownAs
    <3>2. CASE q = v.path
      <4>1. known'[c][q] = StateOf(v)
        BY <1>4, <3>2
      <4>2. known'[c][q].content = v.content
        BY <4>1 DEF StateOf
      <4> QED BY <1>2, <4>2 DEF History, HistoryGrows
    <3>3. CASE q # v.path
      <4>1. known'[c][q] = known[c][q]
        BY <1>4, <3>1, <3>3
      <4> QED BY <1>0, <3>1, <4>1 DEF Safe, Recorded, KnownAs, History, HistoryGrows
    <3> QED BY <3>2, <3>3
  <2>3. touched'[c] = {}
    BY <1>0, <1>4 DEF Safe
  <2>4. at'[c] \notin {"land", "answer"} /\ queue'[c] = queue[c]
    BY <1>4
  <2>5. Queued(c)' /\ Sent(c)' /\ Examined(c)'
    BY <1>0, <2>4, PartsStay
  <2> QED BY <2>1, <2>2, <2>3, <2>5 DEF Safe
<1>5. \/ EndRound(c) /\ UNCHANGED <<files, known, touched>>
      \/ /\ at'[c] = "push" /\ queue' = queue
         /\ files'[c] = IF renamed THEN Rename(files[c], p, v.path) ELSE files[c]
         /\ known'[c] = noted
         /\ touched'[c] = touched[c] \ {p, v.path}
  BY <1>0, RecordUploadMoves
<1> QED BY <1>3, <1>4, <1>5

LEMMA RecordDeleteSafe ==
  ASSUME KeptInv, NEW c \in Device, RecordDelete(c), HistoryGrows
  PROVE  Safe(c)'
<1> DEFINE p == reply[c].path
<1>0. /\ Engines(Anywhere) /\ Safe(c)
      /\ known[c] \in [Path -> LocalState \cup {NoState}]
  BY DEF KeptInv, SyncInv, Engines, Shaped
<1>1. /\ at'[c] = "drop" /\ UNCHANGED <<files, queue>>
  BY <1>0 DEF Engines, Shaped, RecordDelete, Go
<1>2. /\ touched'[c] \subseteq touched[c]
      /\ \A q \in Path : known'[c][q] = known[c][q] \/ known'[c][q].state = "deleted"
  BY <1>0 DEF Engines, Shaped, RecordDelete, SetKnown
<1>3. Recorded(c)'
  BY <1>0, <1>2 DEF Safe, Recorded, KnownAs, History, HistoryGrows
<1> QED BY <1>0, <1>1, <1>2, <1>3, PartsStay DEF Safe

-----------------------------------------------------------------------------
(* What users wrote: requests and edits. *)

LEMMA SendUploadSafe ==
  ASSUME KeptInv, NEW c \in Device, NEW p \in Path,
         at[c] = "push", p \in todo[c],
         SendUpload(c, p), UNCHANGED <<files, known, touched>>
  PROVE  HistoryGrows /\ Logged(server)' /\ Safe(c)'
<1> DEFINE kind == IF scan[c][p] = DirNode THEN "dir" ELSE "file"
           r == RequestFor(c, p, kind)
<1>0. /\ Engines(Anywhere) /\ Safe(c) /\ Sound(server, fresh, fresh) /\ Logged(server)
      /\ Holds(server, Anywhere) /\ fresh \in Nat /\ fresh + 1 \in Nat
  BY DEF KeptInv, SyncInv, ServerGood
<1>1. kind \in {"file", "dir", "delete"} /\ kind \in {"file", "dir"}
      /\ (kind = "file" => scan[c][p] \in Content)
  BY <1>0 DEF Engines, MidRound, Uploads
<1> HIDE DEF kind
<1>2. r \in Request /\ r.kind = kind /\ r.path = p
  BY <1>0, <1>1, RequestIsTyped DEF Engines
<1>3. PICK m \in EnsureParent(server, r, fresh) :
        \E done \in CommitEntry(m, r, fresh + 1) :
          /\ server' = done.meta
          /\ fresh' = IF done.meta = server THEN fresh ELSE fresh + 2
          /\ IF done.ok THEN Answered(c, p, "push", done.reply) ELSE EndRound(c)
  BY DEF SendUpload, kind
<1>4. PICK done \in CommitEntry(m, r, fresh + 1) :
        /\ server' = done.meta
        /\ IF done.ok THEN Answered(c, p, "push", done.reply) ELSE EndRound(c)
  BY <1>3
<1> HIDE DEF r
<1>5. Sound(m, fresh + 1, fresh + 1)
  BY <1>0, <1>2, EnsureParentHolds, AnywhereFits
<1>6. Moves(server, m) /\ Moves(m, done.meta)
  BY <1>0, <1>1, <1>2, <1>5, EnsureParentMoves, CommitMoves
<1>7. /\ server.versions \subseteq m.versions /\ m.versions \subseteq done.meta.versions
      /\ Logged(done.meta)
  BY <1>0, <1>6, MovesLogged
<1>8. HistoryGrows /\ Logged(server)'
  BY <1>4, <1>7 DEF HistoryGrows, Logged
<1>9. CASE ~done.ok
  <2>1. EndRound(c)
    BY <1>4, <1>9
  <2>2. Safe(c)'
    BY <1>0, <1>8, <2>1, EndIsSafe
  <2> QED BY <1>8, <2>2
<1>10. CASE done.ok
  <2> DEFINE v == done.reply.version
  <2>1. /\ v \in done.meta.versions
        /\ v.path # p => v.path \in CopyName /\ \A w \in m.versions : w.path # v.path
    BY <1>0, <1>1, <1>2, <1>5, <1>10, CommitReplies
  <2>2. Answered(c, p, "push", done.reply)
    BY <1>4, <1>10
  <2>3. /\ reply'[c] = [path |-> p, kind |-> "push", reply |-> done.reply]
        /\ at'[c] = "answer" /\ queue'[c] = queue[c]
    BY <1>0, <2>2 DEF Engines, Shaped, Answered, Go
  <2>4. v.path # p => files[c][v.path] \notin Content
    BY <1>0, <1>7, <2>1 DEF Safe, Copies
  <2>5. Sent(c)'
    BY <1>4, <2>1, <2>3, <2>4 DEF Sent
  <2>6. Queued(c)' /\ Recorded(c)' /\ Copies(c)'
    BY <1>0, <1>8, <2>3, PartsStay
  <2>7. Examined(c)'
    BY <2>3 DEF Examined
  <2> QED BY <1>0, <1>8, <2>5, <2>6, <2>7 DEF Safe
<1> QED BY <1>9, <1>10

LEMMA DeleteRemoteSafe ==
  ASSUME KeptInv, NEW c \in Device, NEW p \in Path, DeleteRemote(c, p)
  PROVE  HistoryGrows /\ Logged(server)' /\ Safe(c)'
<1> DEFINE r == RequestFor(c, p, "delete")
           done == DeleteEntry(server, r, fresh)
<1>0. /\ Engines(Anywhere) /\ Safe(c) /\ Sound(server, fresh, fresh) /\ Logged(server)
      /\ fresh \in Nat
  BY DEF KeptInv, SyncInv, ServerGood
<1>1. r \in Request /\ r.kind = "delete"
  BY <1>0, RequestIsTyped DEF Engines
<1>2. /\ server' = done.meta /\ UNCHANGED <<files, known, touched>>
      /\ \/ EndRound(c)
         \/ Answered(c, p, "drop", done.reply)
  BY DEF DeleteRemote, local
<1> HIDE DEF r
<1>3. Moves(server, done.meta)
  BY <1>0, <1>1, DeleteMoves
<1> HIDE DEF done
<1>4. HistoryGrows /\ Logged(server)'
  BY <1>0, <1>2, <1>3, MovesLogged DEF HistoryGrows, Logged
<1>5. CASE EndRound(c)
  BY <1>0, <1>2, <1>4, <1>5, EndIsSafe
<1>6. CASE Answered(c, p, "drop", done.reply)
  <2>1. at'[c] = "answer" /\ reply'[c].kind = "drop" /\ queue'[c] = queue[c]
    BY <1>0, <1>6 DEF Engines, Shaped, Answered, Go
  <2>2. Sent(c)' /\ Examined(c)'
    BY <2>1 DEF Sent, Examined
  <2>3. Queued(c)' /\ Recorded(c)' /\ Copies(c)'
    BY <1>0, <1>2, <1>4, <2>1, PartsStay
  <2> QED BY <1>0, <1>2, <1>4, <2>2, <2>3 DEF Safe
<1> QED BY <1>2, <1>5, <1>6

\* What users do to a directory.
LEMMA CalmEdit ==
  ASSUME CalmUsers, Engines(Anywhere), NEW c \in Device, User(c)
  PROVE  \E p \in Path, fs \in GoodDir(Anywhere) :
           /\ Edit(c, p, fs, FALSE) /\ at[c] # "land"
           /\ \A q \in CopyName : fs[q] \in Content => fs[q] = files[c][q]
<1>0. files[c] \in GoodDir(Anywhere) /\ CopyName \subseteq Path
      /\ {NoFile, DirNode} \cap Content = {}
  BY PathAssumption, SyncAssumption DEF Engines, Shaped
<1>1. at[c] # "land"
  BY DEF User, RemovePath, MakeDir, WriteFile, MayEdit, CalmUsers
<1>2. ASSUME NEW p \in Path, NEW x \in Node, x \in Content \/ x = DirNode, KindsAt[p] # {},
             Edit(c, p, [files[c] EXCEPT ![p] = x], FALSE)
      PROVE  \E fs \in GoodDir(Anywhere) :
               /\ Edit(c, p, fs, FALSE)
               /\ \A q \in CopyName : fs[q] \in Content => fs[q] = files[c][q]
  <2> DEFINE fs == [files[c] EXCEPT ![p] = x]
  <2>1. fs \in GoodDir(Anywhere)
    BY <1>0, PutIsGood, AnywhereFits
  <2>2. \A q \in CopyName : fs[q] = files[c][q]
    <3>1. \A q \in CopyName : q # p
      BY <1>2 DEF CalmUsers
    <3> QED BY <1>0, <3>1 DEF GoodDir
  <2> QED BY <1>2, <2>1, <2>2
<1>3. ASSUME NEW p \in Path, RemovePath(c, p)
      PROVE  \E fs \in GoodDir(Anywhere) :
               /\ Edit(c, p, fs, FALSE)
               /\ \A q \in CopyName : fs[q] \in Content => fs[q] = files[c][q]
  <2> DEFINE fs == [q \in Path |-> IF q = p \/ Parent[q] = p THEN NoFile ELSE files[c][q]]
  <2>1. fs \in GoodDir(Anywhere)
    BY <1>0 DEF GoodDir, Anywhere, Node
  <2>2. Edit(c, p, fs, FALSE)
    BY <1>3 DEF RemovePath
  <2>3. \A q \in CopyName : fs[q] \in Content => fs[q] = files[c][q]
    BY <1>0
  <2> HIDE DEF fs
  <2> QED BY <2>1, <2>2, <2>3
<1>4. ASSUME NEW p \in Path, MakeDir(c, p)
      PROVE  \E fs \in GoodDir(Anywhere) :
               /\ Edit(c, p, fs, FALSE)
               /\ \A q \in CopyName : fs[q] \in Content => fs[q] = files[c][q]
  <2>1. DirNode \in Node /\ KindsAt[p] # {} /\ Edit(c, p, [files[c] EXCEPT ![p] = DirNode], FALSE)
    BY <1>4 DEF MakeDir, Node
  <2> QED BY <1>2, <2>1
<1>5. ASSUME NEW p \in Path, NEW x \in Content, WriteFile(c, p, x)
      PROVE  \E fs \in GoodDir(Anywhere) :
               /\ Edit(c, p, fs, FALSE)
               /\ \A q \in CopyName : fs[q] \in Content => fs[q] = files[c][q]
  <2>1. x \in Node /\ KindsAt[p] # {} /\ Edit(c, p, [files[c] EXCEPT ![p] = x], FALSE)
    BY <1>5 DEF WriteFile, Node, CalmUsers
  <2> QED BY <1>2, <2>1
<1> QED BY <1>1, <1>3, <1>4, <1>5 DEF User

LEMMA UserSafe ==
  ASSUME CalmUsers, KeptInv, NEW c \in Device, User(c)
  PROVE  OnlyAt(c) /\ server' = server /\ Safe(c)'
<1>0. Engines(Anywhere) /\ Safe(c)
  BY DEF KeptInv, SyncInv
<1>1. PICK p \in Path, fs \in GoodDir(Anywhere) :
        /\ Edit(c, p, fs, FALSE) /\ at[c] # "land"
        /\ \A q \in CopyName : fs[q] \in Content => fs[q] = files[c][q]
  BY <1>0, CalmEdit
<1>2. /\ files' = [files EXCEPT ![c] = fs] /\ touched' = [touched EXCEPT ![c] = @ \ {p}]
      /\ UNCHANGED <<server, known, seen, at, pass, queue, scan, todo, reply>>
  BY <1>1 DEF Edit, store, round
<1>3. OnlyAt(c) /\ files'[c] = fs /\ touched'[c] = touched[c] \ {p}
  BY <1>0, <1>2 DEF OnlyAt, Engines, Shaped
<1>4. HistoryGrows
  BY <1>2 DEF HistoryGrows
<1>5. Queued(c)' /\ Recorded(c)' /\ Copies(c)'
  BY <1>0, <1>1, <1>2, <1>3, <1>4, PartsStay
<1>6. Examined(c)'
  BY <1>1, <1>2 DEF Examined
<1>7. Sent(c)'
  <2> SUFFICES ASSUME at[c] = "answer", reply[c].kind = "push",
                      reply[c].reply.version.path # reply[c].path
               PROVE  fs[reply[c].reply.version.path] \notin Content
    BY <1>0, <1>2, <1>3 DEF Safe, Sent
  <2>1. reply[c].reply.version.path \in CopyName
    BY <1>0 DEF Engines, MidRound, HasAnswer
  <2>2. files[c][reply[c].reply.version.path] \notin Content
    BY <1>0 DEF Safe, Sent
  <2> QED BY <1>1, <2>1, <2>2
<1> QED BY <1>0, <1>2, <1>3, <1>5, <1>6, <1>7 DEF Safe

-----------------------------------------------------------------------------
(* What users wrote: every step. *)

\* Every step keeps the invariant, on the device that moves and on the others.
LEMMA EngineSafe ==
  ASSUME KeptInv, NEW c \in Device, Engine(c)
  PROVE  HistoryGrows /\ Logged(server)' /\ \A d \in Device : Safe(d)'
<1>0. Engines(Anywhere) /\ Logged(server)
  BY DEF KeptInv, SyncInv
<1>1. ASSUME UNCHANGED server
      PROVE  HistoryGrows /\ Logged(server)'
  BY <1>0, <1>1 DEF HistoryGrows, Logged
<1>2. CASE \/ BeginRound(c) \/ SkipEvent(c) \/ Examine(c) \/ Settle(c) \/ EndPull(c)
           \/ RecordUpload(c) \/ EndUploads(c) \/ RecordDelete(c) \/ EndPush(c)
  <2>1. OnlyAt(c)
    BY <1>0, <1>2, RoundMoves
  <2>2. UNCHANGED server
    BY <1>2 DEF BeginRound, SkipEvent, Examine, Settle, EndPull, RecordUpload, EndUploads,
                RecordDelete, EndPush, store
  <2>3. Safe(c)'
    BY <1>1, <1>2, <2>2, FetchingSafe, SkipEventSafe, ExamineSafe, SettleSafe, EndPullSafe,
       RecordUploadSafe, PlaceSafe, RecordDeleteSafe
  <2> QED BY <1>1, <2>1, <2>2, <2>3, OneIsSafe
<1>3. CASE Land(c)
  <2>1. OnlyAt(c) /\ UNCHANGED server
    BY <1>0, <1>3 DEF Engines, Shaped, Land, Go, OnlyAt, store
  <2>2. Safe(c)'
    BY <1>1, <1>3, <2>1, LandSafe
  <2> QED BY <1>1, <2>1, <2>2, OneIsSafe
<1>4. CASE FailToLand(c)
  <2>1. EndRound(c) /\ UNCHANGED <<files, known, seen, touched, server>>
    BY <1>4 DEF FailToLand, local, store
  <2>2. OnlyAt(c)
    BY <1>0, <2>1, EndRoundMoves
  <2>3. Safe(c)'
    BY <1>1, <1>4, <2>1, PlaceSafe
  <2> QED BY <1>1, <2>1, <2>2, <2>3, OneIsSafe
<1>5. CASE ScanLocal(c)
  <2>1. OnlyAt(c) /\ UNCHANGED server
    BY <1>0, <1>5 DEF Engines, Shaped, ScanLocal, Go, OnlyAt, local, store
  <2>2. Safe(c)'
    BY <1>1, <1>5, <2>1, PlaceSafe
  <2> QED BY <1>1, <2>1, <2>2, OneIsSafe
<1>6. ASSUME NEW p \in Path, Upload(c, p)
      PROVE  HistoryGrows /\ Logged(server)' /\ \A d \in Device : Safe(d)'
  <2>1. at[c] = "push" /\ p \in todo[c] /\ UNCHANGED <<files, known, seen, touched>>
    BY <1>6 DEF Upload, local
  <2>2. CASE SendUpload(c, p)
    <3>1. HistoryGrows /\ Logged(server)' /\ Safe(c)'
      BY <2>1, <2>2, SendUploadSafe
    <3>2. OnlyAt(c)
      <4>1. EndRound(c) \/ \E r : Answered(c, p, "push", r)
        BY <2>2 DEF SendUpload
      <4> QED BY <1>0, <2>1, <4>1, EndRoundMoves, AnsweredMoves
    <3> QED BY <3>1, <3>2, OneIsSafe
  <2>3. CASE EndRound(c) /\ UNCHANGED store
    <3>1. OnlyAt(c) /\ UNCHANGED server
      BY <1>0, <2>1, <2>3, EndRoundMoves DEF store
    <3>2. Safe(c)'
      BY <1>0, <1>1, <2>1, <2>3, <3>1, EndIsSafe DEF KeptInv
    <3> QED BY <1>1, <3>1, <3>2, OneIsSafe
  <2> QED BY <1>6, <2>2, <2>3 DEF Upload
<1>7. ASSUME NEW p \in Path, DeleteRemote(c, p)
      PROVE  HistoryGrows /\ Logged(server)' /\ \A d \in Device : Safe(d)'
  <2>1. HistoryGrows /\ Logged(server)' /\ Safe(c)'
    BY <1>7, DeleteRemoteSafe
  <2>2. OnlyAt(c)
    <3>1. /\ UNCHANGED <<files, known, seen, touched>>
          /\ EndRound(c) \/ \E r : Answered(c, p, "drop", r)
      BY <1>7 DEF DeleteRemote, local
    <3> QED BY <1>0, <3>1, EndRoundMoves, AnsweredMoves
  <2> QED BY <2>1, <2>2, OneIsSafe
<1> QED BY <1>2, <1>3, <1>4, <1>5, <1>6, <1>7 DEF Engine

LEMMA KeptSteps ==
  ASSUME CalmUsers, KeptInv, [Next]_vars
  PROVE  KeptInv' /\ HistoryGrows
<1>0. /\ SyncInv(Anywhere)' /\ Engines(Anywhere) /\ Logged(server) /\ \A c \in Device : Safe(c)
      /\ Sound(server, fresh, fresh) /\ fresh \in Nat
  BY SyncStepsKeep, AnywhereFits DEF KeptInv, SyncInv, ServerGood
<1>1. ASSUME UNCHANGED server
      PROVE  HistoryGrows /\ Logged(server)'
  BY <1>0, <1>1 DEF HistoryGrows, Logged
<1>2. SUFFICES HistoryGrows /\ Logged(server)' /\ \A d \in Device : Safe(d)'
  BY <1>0 DEF KeptInv
<1>3. ASSUME HistoryGrows, UNCHANGED <<files, known, touched, at, queue, reply>>
      PROVE  \A d \in Device : Safe(d)'
  BY <1>0, <1>3, StillSafe
<1>4. ASSUME NEW c \in Device, User(c)
      PROVE  HistoryGrows /\ Logged(server)' /\ \A d \in Device : Safe(d)'
  BY <1>1, <1>4, UserSafe, OneIsSafe
<1>5. ASSUME NEW c \in Device, Engine(c)
      PROVE  HistoryGrows /\ Logged(server)' /\ \A d \in Device : Safe(d)'
  BY <1>5, EngineSafe
<1>6. ASSUME NEW c \in Device, Abort(c)
      PROVE  HistoryGrows /\ Logged(server)' /\ \A d \in Device : Safe(d)'
  <2>1. EndRound(c) /\ UNCHANGED <<files, known, seen, touched, server>>
    BY <1>6 DEF Abort, local, store
  <2>2. OnlyAt(c)
    BY <1>0, <2>1, EndRoundMoves
  <2>3. Safe(c)'
    BY <1>1, <1>6, <2>1, PlaceSafe
  <2> QED BY <1>1, <2>1, <2>2, <2>3, OneIsSafe
<1>7. ASSUME NEW p \in Path, RestoreTrash(p)
      PROVE  HistoryGrows /\ Logged(server)' /\ \A d \in Device : Safe(d)'
  <2>1. /\ IsTombstone(server.files[p]) /\ server' = Install(server, Restored(server, p, fresh))
        /\ UNCHANGED <<files, known, touched, at, queue, reply>>
    BY <1>7 DEF RestoreTrash, local, round
  <2>2. Appends(server, server', Restored(server, p, fresh))
    BY <1>0, <2>1, RestoreAppends
  <2>3. Restored(server, p, fresh) \in Version
    BY <2>2 DEF Appends, OnTop
  <2>4. HistoryGrows /\ Logged(server)'
    BY <1>0, <2>2, <2>3, MovesLogged DEF Moves, HistoryGrows, Logged
  <2> QED BY <1>3, <2>1, <2>4
<1>8. ASSUME NEW k \in 0..fresh, PruneTrash(k)
      PROVE  HistoryGrows /\ Logged(server)' /\ \A d \in Device : Safe(d)'
  <2>1. /\ server' = Prune(server, k)
        /\ UNCHANGED <<files, known, touched, at, queue, reply>>
    BY <1>8 DEF PruneTrash, local, round
  <2>2. Pruned(server, server')
    BY <1>0, <2>1, PruneMoves DEF Sound
  <2>3. HistoryGrows /\ Logged(server)'
    BY <1>0, <2>2, MovesLogged DEF HistoryGrows, Logged
  <2> QED BY <1>3, <2>1, <2>3
<1>9. CASE UNCHANGED vars
  BY <1>1, <1>3, <1>9 DEF vars, store, local, round
<1> QED BY <1>4, <1>5, <1>6, <1>7, <1>8, <1>9 DEF Next

LEMMA KeptBegins == Init => KeptInv
<1> SUFFICES ASSUME Init PROVE KeptInv
  OBVIOUS
<1>1. Logged(server)
  BY DEF Init, NewMetadata, Logged
<1>2. ASSUME NEW c \in Device PROVE Safe(c)
  <2>1. /\ queue[c] = <<>> /\ at[c] = "idle" /\ touched[c] = {}
        /\ \A p \in Path : known[c][p] = NoState /\ files[c][p] = NoFile
    BY DEF Init, Nothing
  <2>2. Queued(c) /\ Recorded(c) /\ Sent(c) /\ Examined(c)
    BY <2>1 DEF Queued, Recorded, KnownAs, Sent, Examined
  <2>3. Copies(c)
    BY <2>1, PathAssumption, SyncAssumption DEF Copies
  <2> QED BY <2>1, <2>2, <2>3 DEF Safe
<1> QED BY <1>1, <1>2, SyncBegins, AnywhereFits DEF KeptInv

-----------------------------------------------------------------------------
(* What users wrote stays somewhere. *)

\* x is in a directory or in the server's history.
Somewhere(x) ==
  \/ \E c \in Device, q \in Path : files[c][q] = x
  \/ \E v \in server.versions : v.content = x

LEMMA StaysSomewhere ==
  ASSUME NEW x, Somewhere(x), HistoryGrows, NEW c \in Device,
         \A d \in Device \ {c} : files'[d] = files[d],
         \A q \in Path : files[c][q] = x => x \in History \/ \E r \in Path : files'[c][r] = x
  PROVE  Somewhere(x)'
<1>1. CASE \E v \in server.versions : v.content = x
  BY <1>1 DEF Somewhere, HistoryGrows
<1>2. ASSUME NEW d \in Device, NEW q \in Path, files[d][q] = x PROVE Somewhere(x)'
  <2>1. CASE d # c
    BY <1>2, <2>1 DEF Somewhere
  <2>2. CASE d = c
    BY <1>1, <1>2, <2>2 DEF Somewhere, History
  <2> QED BY <2>1, <2>2
<1> QED BY <1>1, <1>2 DEF Somewhere

LEMMA RenameHolds ==
  ASSUME NEW N, NEW fs \in GoodDir(N), NEW p \in Path, NEW q \in Path, p # q, fs[q] \notin Content,
         NEW r \in Path, fs[r] \in Content
  PROVE  \E s \in Path : Rename(fs, p, q)[s] = fs[r]
<1>1. CASE r = p
  BY <1>1, RenameMoves
<1>2. CASE r # p
  BY <1>2, RenameMoves
<1> QED BY <1>1, <1>2

LEMMA ExamineHolds ==
  ASSUME KeptInv, NEW c \in Device, Examine(c), HistoryGrows, NEW x \in Content, Somewhere(x)
  PROVE  Somewhere(x)'
<1>0. Engines(Anywhere) /\ files[c] \in GoodDir(Anywhere) /\ NoFile \notin Content
  BY SyncAssumption DEF KeptInv, SyncInv, Engines, Shaped
<1>1. OnlyAt(c)
  BY <1>0, RoundMoves
<1>2. CASE UNCHANGED files
  BY <1>1, <1>2, StaysSomewhere
<1>3. ASSUME NEW q \in FreeLocalCopies(Target(c).path),
             files' = [files EXCEPT ![c] = Rename(files[c], Target(c).path, q)],
             HasDivergence(c, Target(c).path)
      PROVE  Somewhere(x)'
  <2>1. q \in Path /\ files[c][q] = NoFile
    BY SyncAssumption DEF FreeLocalCopies
  <2>2. Target(c).path \in Path
    BY <1>0, TargetIsGood DEF Engines, Examine
  <2>3. files[c][Target(c).path] # NoFile
    BY <1>0, <1>3 DEF HasDivergence
  <2>4. files'[c] = Rename(files[c], Target(c).path, q)
    BY <1>3 DEF KeptInv, SyncInv, Engines, Shaped
  <2>5. \A r \in Path : files[c][r] = x => \E s \in Path : files'[c][s] = x
    BY <1>0, <2>1, <2>2, <2>3, <2>4, RenameHolds
  <2> QED BY <1>1, <2>5, StaysSomewhere DEF OnlyAt
<1> QED BY <1>2, <1>3 DEF Examine

\* A landing leaves what is at other paths.
LEMMA LandedKeeps ==
  ASSUME NEW c \in Device, files[c] \in GoodDir(Anywhere), NEW v \in Version, CanLand(c, v),
         NEW q \in Path, q # v.path, files[c][q] \in Content
  PROVE  Landed(files[c], v)[q] = files[c][q]
<1> DEFINE fs == files[c]
<1>1. v.path \in Path /\ v.state \in {"file", "dir", "deleted"} /\ fs \in [Path -> Node]
  BY DEF Version, GoodDir
<1>2. {NoFile, DirNode} \cap Content = {}
  BY SyncAssumption
<1>3. MakeParent(fs, v.path) \in [Path -> Node]
  BY <1>1, PathAssumption DEF MakeParent, Node
<1>4. CASE v.state \in {"file", "dir"}
  <2>1. CanMakeParent(fs, v.path)
    BY <1>4 DEF CanLand
  <2>2. MakeParent(fs, v.path)[q] = fs[q]
    BY <1>1, <1>2, <2>1, PathAssumption DEF CanMakeParent, MakeParent
  <2> QED BY <1>1, <1>3, <1>4, <2>2 DEF Landed
<1>5. CASE v.state = "deleted"
  BY <1>1, <1>5 DEF Landed, RemoveIfEmpty
<1> QED BY <1>1, <1>4, <1>5

LEMMA LandHolds ==
  ASSUME KeptInv, NEW c \in Device, Land(c), ~IsDirEvent(c, Target(c)), HistoryGrows,
         NEW x \in Content, Somewhere(x)
  PROVE  Somewhere(x)'
<1>0. /\ Engines(Anywhere) /\ files[c] \in GoodDir(Anywhere) /\ Examined(c)
      /\ at[c] = "land" /\ queue[c] # <<>> /\ CanLand(c, Target(c))
  BY DEF KeptInv, SyncInv, Engines, Shaped, Land, MidRound, HasTarget, Safe
<1>1. /\ files'[c] = Landed(files[c], Target(c))
      /\ \A d \in Device \ {c} : files'[d] = files[d]
  BY <1>0 DEF Engines, Shaped, Land
<1>2. Target(c) \in Version
  BY <1>0, TargetIsGood DEF Engines
<1>3. ASSUME NEW q \in Path, files[c][q] = x
      PROVE  x \in History \/ \E r \in Path : files'[c][r] = x
  <2>1. CASE q = Target(c).path
    BY <1>0, <1>3, <2>1, SyncAssumption DEF Examined
  <2>2. CASE q # Target(c).path
    BY <1>0, <1>1, <1>2, <1>3, <2>2, LandedKeeps
  <2> QED BY <2>1, <2>2
<1> QED BY <1>1, <1>3, StaysSomewhere

LEMMA RecordUploadHolds ==
  ASSUME KeptInv, NEW c \in Device, RecordUpload(c), HistoryGrows, NEW x \in Content, Somewhere(x)
  PROVE  Somewhere(x)'
<1> DEFINE p == reply[c].path
           v == reply[c].reply.version
           renamed == v.path # p /\ scan[c][p] # DirNode
<1>0. /\ Engines(Anywhere) /\ files[c] \in GoodDir(Anywhere) /\ Safe(c)
  BY DEF KeptInv, SyncInv, Engines, Shaped
<1>1. OnlyAt(c)
  BY <1>0, RoundMoves
<1>2. /\ p \in Path /\ v.path \in {p} \cup CopyName
      /\ at[c] = "answer" /\ reply[c].kind = "push"
      /\ \/ UNCHANGED files
         \/ files'[c] = IF renamed THEN Rename(files[c], p, v.path) ELSE files[c]
  BY <1>0, RecordUploadMoves
<1>3. CASE files'[c] = files[c]
  BY <1>1, <1>3, StaysSomewhere DEF OnlyAt
<1>4. CASE renamed /\ files'[c] = Rename(files[c], p, v.path)
  <2>1. files[c][v.path] \notin Content /\ v.path \in Path /\ v.path # p
    BY <1>0, <1>2, <1>4, PathAssumption DEF Safe, Sent
  <2>2. \A q \in Path : files[c][q] = x => \E r \in Path : files'[c][r] = x
    BY <1>0, <1>2, <1>4, <2>1, RenameHolds
  <2> QED BY <1>1, <2>2, StaysSomewhere DEF OnlyAt
<1> QED BY <1>2, <1>3, <1>4

\* An edit takes away only what the user no longer wants.
LEMMA EditHolds ==
  ASSUME NEW c \in Device, NEW p \in Path, NEW fs \in GoodDir(Anywhere), NEW same,
         Engines(Anywhere), Edit(c, p, fs, same),
         NEW x \in Content, Somewhere(x), x \in wanted'
  PROVE  Somewhere(x)'
<1>1. /\ files' = [files EXCEPT ![c] = fs] /\ server' = server
      /\ wanted' = ((wanted \ {files[c][q] : q \in {q \in Path : fs[q] # files[c][q]}})
                     \cup {fs[q] : q \in {q \in Path : fs[q] # files[c][q]}}) \cap Content
  BY DEF Edit, store
<1>2. files'[c] = fs /\ \A d \in Device \ {c} : files'[d] = files[d]
  BY <1>1 DEF Engines, Shaped
<1>3. ASSUME NEW q \in Path, files[c][q] = x PROVE \E r \in Path : fs[r] = x
  BY <1>1, <1>3
<1>4. HistoryGrows
  BY <1>1 DEF HistoryGrows
<1> QED BY <1>2, <1>3, <1>4, StaysSomewhere

LEMMA UserHolds ==
  ASSUME Engines(Anywhere), NEW c \in Device, User(c),
         NEW x \in Content, Somewhere(x), x \in wanted'
  PROVE  Somewhere(x)'
<1>0. files[c] \in GoodDir(Anywhere)
  BY DEF Engines, Shaped
<1>1. \A p \in Path, y \in Node : [files[c] EXCEPT ![p] = y] \in GoodDir(Anywhere)
  BY <1>0, PutIsGood, AnywhereFits
<1>2. ASSUME NEW p \in Path, RemovePath(c, p) PROVE Somewhere(x)'
  <2> DEFINE fs == [q \in Path |-> IF q = p \/ Parent[q] = p THEN NoFile ELSE files[c][q]]
  <2>1. fs \in GoodDir(Anywhere)
    BY <1>0 DEF GoodDir, Anywhere, Node
  <2>2. Edit(c, p, fs, FALSE)
    BY <1>2 DEF RemovePath
  <2> HIDE DEF fs
  <2> QED BY <2>1, <2>2, EditHolds
<1>3. ASSUME NEW p \in Path, MakeDir(c, p) PROVE Somewhere(x)'
  <2>1. Edit(c, p, [files[c] EXCEPT ![p] = DirNode], FALSE) /\ DirNode \in Node
    BY <1>3 DEF MakeDir, Node
  <2> QED BY <1>1, <2>1, EditHolds
<1>4. ASSUME NEW p \in Path, NEW y \in Content, WriteFile(c, p, y) PROVE Somewhere(x)'
  <2>1. y \in Node /\ \E same \in BOOLEAN : Edit(c, p, [files[c] EXCEPT ![p] = y], same)
    BY <1>4 DEF WriteFile, Node
  <2> QED BY <1>1, <2>1, EditHolds
<1> QED BY <1>2, <1>3, <1>4 DEF User

\* The steps that may take an edit away.
Loses == (\E c \in Device : EndPull(c)) \/ \E c \in Device : Land(c) /\ IsDirEvent(c, Target(c))

LEMMA StepHolds ==
  ASSUME KeptInv, [Next]_vars, HistoryGrows, ~Loses, NEW x \in Content, Somewhere(x), x \in wanted'
  PROVE  Somewhere(x)'
<1>0. Engines(Anywhere)
  BY DEF KeptInv, SyncInv
<1>1. CASE UNCHANGED files
  BY <1>1 DEF Somewhere, HistoryGrows
<1>2. ASSUME NEW c \in Device, User(c) PROVE Somewhere(x)'
  BY <1>0, <1>2, UserHolds
<1>3. ASSUME NEW c \in Device, Engine(c) PROVE Somewhere(x)'
  <2>1. CASE Examine(c)
    BY <2>1, ExamineHolds
  <2>2. CASE Land(c)
    BY <2>2, LandHolds DEF Loses
  <2>3. CASE RecordUpload(c)
    BY <2>3, RecordUploadHolds
  <2>4. ASSUME NEW p \in Path, Upload(c, p) \/ DeleteRemote(c, p) PROVE UNCHANGED files
    BY <2>4 DEF Upload, DeleteRemote, local
  <2>5. CASE \/ BeginRound(c) \/ SkipEvent(c) \/ FailToLand(c) \/ Settle(c) \/ ScanLocal(c)
             \/ EndUploads(c) \/ RecordDelete(c) \/ EndPush(c)
    BY <1>1, <2>5 DEF BeginRound, SkipEvent, FailToLand, Settle, ScanLocal, EndUploads,
                      RecordDelete, EndPush, local
  <2>6. ~EndPull(c)
    BY DEF Loses
  <2> QED BY <1>1, <1>3, <2>1, <2>2, <2>3, <2>4, <2>5, <2>6 DEF Engine
<1>4. ASSUME NEW c \in Device, Abort(c) PROVE UNCHANGED files
  BY <1>4 DEF Abort, local
<1>5. CASE (\E p \in Path : RestoreTrash(p)) \/ (\E k \in 0..fresh : PruneTrash(k)) \/ UNCHANGED vars
  BY <1>1, <1>5 DEF RestoreTrash, PruneTrash, vars, local
<1> QED BY <1>1, <1>2, <1>3, <1>4, <1>5 DEF Next

\* No landing of a file, no rename to a conflict name, no round cut short, no
\* restore or expiry of the trash takes a user's edit away: only the tombstone of
\* a directory can (applyVersion, uploadFile, hasLocalDivergence).
THEOREM FileChangesKeepEdits ==
  ASSUME CalmUsers
  PROVE  Spec => OnlyDirTombstonesLoseEdits
<1>1. Init => KeptInv
  BY KeptBegins
<1>2. KeptInv /\ [Next]_vars => KeptInv'
  BY KeptSteps
<1>3. KeptInv /\ [Next]_vars
        => [ (/\ ~\E c \in Device : EndPull(c)
              /\ ~\E c \in Device : Land(c) /\ IsDirEvent(c, Target(c)))
             => Kept \cap wanted' \subseteq Kept' ]_vars
  <2> SUFFICES ASSUME KeptInv, [Next]_vars, ~Loses, NEW x \in Kept, x \in wanted'
               PROVE  x \in Kept'
    BY DEF Loses
  <2>1. x \in Content /\ Somewhere(x)
    BY DEF KeptInv, SyncInv, Bounded, Kept, Somewhere
  <2>2. HistoryGrows
    BY KeptSteps
  <2>3. Somewhere(x)'
    BY <2>1, <2>2, StepHolds
  <2> QED BY <2>3 DEF Kept, Somewhere
<1> QED BY <1>1, <1>2, <1>3, PTL DEF Spec, OnlyDirTombstonesLoseEdits

-----------------------------------------------------------------------------
(* Spaces of files. *)

\* A space of files: no directory is made in it, by users or for its paths.
FlatFiles == \A p \in Path : Parent[p] = NoPath /\ "dir" \notin KindsAt[p]

\* No tombstone of a directory is in the history or in a state file.
KnowsFiles(c) ==
  \A p \in Path : known[c][p] # NoState => known[c][p].state # "dir" /\ known[c][p].was # "dir"

FlatInv ==
  /\ KeptInv /\ SyncInv(AnyFile)
  /\ \A v \in server.versions : v.was # "dir"
  /\ \A c \in Device : KnowsFiles(c)

LEMMA FlatSuits == ASSUME FlatFiles PROVE SuitsSync(AnyFile)
<1>1. /\ AnyFile \in [Path -> SUBSET Node]
      /\ \A p \in Path : AnyFile[p] = Content \cup {NoFile}
  BY DEF AnyFile, Node
<1>2. CopyName \cup LocalCopyName \subseteq Path
  BY PathAssumption, SyncAssumption
<1>3. \A p \in Path : ~("dir" \in KindsAt[p]) /\ ~(Parent[p] # NoPath)
  BY DEF FlatFiles
<1> QED BY <1>1, <1>2, <1>3 DEF SuitsSync, IsFit

LEMMA NoDirsIn ==
  ASSUME ServerGood(AnyFile), Engines(AnyFile)
  PROVE  /\ \A v \in server.versions : v.state # "dir"
         /\ \A c \in Device, p \in Path : files[c][p] # DirNode
         /\ \A c \in Device : at[c] # "read" => \A p \in Path : scan[c][p] # DirNode
<1>1. \A p \in Path : DirNode \notin AnyFile[p]
  BY SyncAssumption DEF AnyFile
<1>2. ASSUME NEW v \in server.versions PROVE v.state # "dir"
  <2>1. v \in GoodVersion(AnyFile)
    BY DEF ServerGood, Holds
  <2> QED BY <1>1, <2>1 DEF GoodVersion, Version
<1>3. ASSUME NEW c \in Device, NEW p \in Path PROVE files[c][p] # DirNode
  <2>1. files \in [Device -> GoodDir(AnyFile)]
    BY DEF Engines, Shaped
  <2>2. files[c][p] \in AnyFile[p]
    BY <2>1 DEF GoodDir
  <2> QED BY <1>1, <2>2
<1>4. ASSUME NEW c \in Device, at[c] # "read", NEW p \in Path
      PROVE  scan[c][p] # DirNode
  <2>1. scan[c] \in GoodDir(AnyFile)
    BY <1>4 DEF Engines, MidRound, HasScan
  <2>2. scan[c][p] \in AnyFile[p]
    BY <2>1 DEF GoodDir
  <2> QED BY <1>1, <2>2
<1> QED BY <1>2, <1>3, <1>4

LEMMA NoDirsThere ==
  ASSUME SyncInv(AnyFile)
  PROVE  /\ \A v \in server.versions : v.state # "dir"
         /\ \A c \in Device, p \in Path : files[c][p] # DirNode
         /\ \A c \in Device : at[c] # "read" => \A p \in Path : scan[c][p] # DirNode
<1>1. ServerGood(AnyFile) /\ Engines(AnyFile)
  BY DEF SyncInv
<1> QED BY <1>1, NoDirsIn

LEMMA FlatBegins == ASSUME FlatFiles PROVE Init => FlatInv
<1> SUFFICES ASSUME Init PROVE FlatInv
  OBVIOUS
<1>1. \A v \in server.versions : v.was # "dir"
  BY DEF Init, NewMetadata
<1>2. \A c \in Device : KnowsFiles(c)
  BY DEF Init, KnowsFiles
<1> QED BY <1>1, <1>2, KeptBegins, FlatSuits, SyncBegins DEF FlatInv

\* No parent directory is made on the way to a commit.
LEMMA FlatUpload ==
  ASSUME FlatFiles, KeptInv, NEW c \in Device, NEW p \in Path,
         at[c] = "push", p \in todo[c], SendUpload(c, p)
  PROVE  Moves(server, server')
<1> DEFINE kind == IF scan[c][p] = DirNode THEN "dir" ELSE "file"
           r == RequestFor(c, p, kind)
<1>0. /\ Engines(Anywhere) /\ Sound(server, fresh, fresh)
      /\ Holds(server, Anywhere) /\ fresh \in Nat /\ fresh + 1 \in Nat
  BY DEF KeptInv, SyncInv, ServerGood
<1>1. kind \in {"file", "dir", "delete"} /\ kind \in {"file", "dir"}
      /\ (kind = "file" => scan[c][p] \in Content)
  BY <1>0 DEF Engines, MidRound, Uploads
<1> HIDE DEF kind
<1>2. r \in Request /\ r.kind = kind /\ r.path = p
  BY <1>0, <1>1, RequestIsTyped DEF Engines
<1>3. \E m \in EnsureParent(server, r, fresh) :
        \E done \in CommitEntry(m, r, fresh + 1) : server' = done.meta
  BY DEF SendUpload, kind
<1> HIDE DEF r
<1>4. EnsureParent(server, r, fresh) = {server}
  BY <1>2 DEF EnsureParent, FlatFiles
<1>5. PICK done \in CommitEntry(server, r, fresh + 1) : server' = done.meta
  BY <1>3, <1>4
<1>6. Sound(server, fresh + 1, fresh + 1)
  BY <1>0, <1>2, <1>4, EnsureParentHolds, AnywhereFits
<1> QED BY <1>0, <1>1, <1>2, <1>5, <1>6, CommitMoves

LEMMA FlatServer ==
  ASSUME FlatFiles, KeptInv, [Next]_vars
  PROVE  Moves(server, server') \/ Pruned(server, server')
<1>0. /\ Engines(Anywhere) /\ Sound(server, fresh, fresh) /\ fresh \in Nat
  BY DEF KeptInv, SyncInv, ServerGood
<1>1. UNCHANGED server => Moves(server, server')
  BY DEF Moves, Quiet
<1>2. ASSUME NEW c \in Device, User(c) PROVE UNCHANGED server
  BY <1>2 DEF User, RemovePath, MakeDir, WriteFile, Edit, store
<1>3. ASSUME NEW c \in Device, Engine(c) PROVE Moves(server, server')
  <2>1. ASSUME NEW p \in Path, Upload(c, p) PROVE Moves(server, server')
    <3>1. at[c] = "push" /\ p \in todo[c] /\ (SendUpload(c, p) \/ UNCHANGED server)
      BY <2>1 DEF Upload, store
    <3> QED BY <1>1, <3>1, FlatUpload
  <2>2. ASSUME NEW p \in Path, DeleteRemote(c, p) PROVE Moves(server, server')
    <3> DEFINE r == RequestFor(c, p, "delete")
    <3>1. r \in Request /\ r.kind = "delete"
      BY <1>0, RequestIsTyped DEF Engines
    <3>2. server' = DeleteEntry(server, r, fresh).meta
      BY <2>2 DEF DeleteRemote
    <3> HIDE DEF r
    <3> QED BY <1>0, <3>1, <3>2, DeleteMoves
  <2>3. CASE \/ BeginRound(c) \/ SkipEvent(c) \/ Examine(c) \/ Land(c) \/ FailToLand(c)
             \/ Settle(c) \/ EndPull(c) \/ ScanLocal(c) \/ RecordUpload(c) \/ EndUploads(c)
             \/ RecordDelete(c) \/ EndPush(c)
    <3>1. UNCHANGED server
      BY <2>3 DEF BeginRound, SkipEvent, Examine, Land, FailToLand, Settle, EndPull, ScanLocal,
                  RecordUpload, EndUploads, RecordDelete, EndPush, store
    <3> QED BY <1>1, <3>1
  <2> QED BY <1>3, <2>1, <2>2, <2>3 DEF Engine
<1>4. ASSUME NEW c \in Device, Abort(c) PROVE UNCHANGED server
  BY <1>4 DEF Abort, store
<1>5. ASSUME NEW p \in Path, RestoreTrash(p) PROVE Moves(server, server')
  <2>1. /\ IsTombstone(server.files[p]) /\ server' = Install(server, Restored(server, p, fresh))
    BY <1>5 DEF RestoreTrash
  <2>2. Appends(server, server', Restored(server, p, fresh))
    BY <1>0, <2>1, RestoreAppends
  <2> QED BY <2>2 DEF Moves, Appends, OnTop
<1>6. ASSUME NEW k \in 0..fresh, PruneTrash(k) PROVE Pruned(server, server')
  <2>1. server' = Prune(server, k)
    BY <1>6 DEF PruneTrash
  <2> QED BY <1>0, <2>1, PruneMoves DEF Sound
<1>7. CASE UNCHANGED vars
  BY <1>1, <1>7 DEF vars, store
<1> QED BY <1>1, <1>2, <1>3, <1>4, <1>5, <1>6, <1>7 DEF Next

LEMMA FlatHistory ==
  ASSUME FlatFiles, FlatInv, [Next]_vars
  PROVE  \A v \in server'.versions : v.was # "dir"
<1>1. CASE server'.versions = server.versions
  BY <1>1 DEF FlatInv
<1>2. ASSUME NEW v \in Version, Appends(server, server', v)
      PROVE  v.was # "dir" /\ server'.versions = server.versions \cup {v}
  <2>1. v.was # "none" =>
          /\ HeadAt(server, v.path) \in server.versions
          /\ HeadAt(server, v.path).state = v.was
    BY <1>2 DEF Appends, OnTop, WellMade
  <2>2. \A w \in server.versions : w.state # "dir"
    BY NoDirsThere DEF FlatInv
  <2> QED BY <1>2, <2>1, <2>2 DEF Appends
<1>3. \/ server'.versions = server.versions
      \/ \E v \in Version : Appends(server, server', v)
  BY FlatServer DEF FlatInv, Moves, Quiet, Pruned
<1> QED BY <1>1, <1>2, <1>3 DEF FlatInv

-----------------------------------------------------------------------------
(* Spaces of files: every step. *)

LEMMA FlatKnowledge ==
  ASSUME FlatInv, [Next]_vars
  PROVE  \A c \in Device : KnowsFiles(c)'
<1>0. /\ Engines(Anywhere) /\ \A c \in Device : KnowsFiles(c) /\ Safe(c)
      /\ \A v \in server.versions : v.state # "dir" /\ v.was # "dir"
  BY NoDirsThere DEF FlatInv, KeptInv, SyncInv
<1>1. ASSUME NEW c \in Device, known'[c] = known[c] PROVE KnowsFiles(c)'
  BY <1>0, <1>1 DEF KnowsFiles
<1>2. ASSUME NEW c \in Device, OnlyAt(c), KnowsFiles(c)'
      PROVE  \A d \in Device : KnowsFiles(d)'
  BY <1>1, <1>2 DEF OnlyAt
<1>3. ASSUME NEW c \in Device, Settle(c) PROVE KnowsFiles(c)'
  <2>1. queue[c] # <<>> /\ known[c] \in [Path -> LocalState \cup {NoState}]
        /\ known' = [known EXCEPT ![c][Target(c).path] = StateOf(Target(c))]
    BY <1>0, <1>3 DEF Engines, Shaped, MidRound, HasTarget, Settle, SetKnown
  <2>2. known'[c] = [known[c] EXCEPT ![Target(c).path] = StateOf(Target(c))]
    BY <1>0, <2>1 DEF Engines, Shaped
  <2>3. Target(c) \in server.versions
    BY <1>0, <2>1, TargetIsPast DEF Safe
  <2>4. StateOf(Target(c)).state # "dir" /\ StateOf(Target(c)).was # "dir"
    BY <1>0, <2>3 DEF StateOf
  <2> HIDE DEF StateOf
  <2>5. \A p \in Path : known'[c][p] \in {known[c][p], StateOf(Target(c))}
    BY <2>1, <2>2
  <2> QED BY <1>0, <2>4, <2>5 DEF KnowsFiles
<1>4. ASSUME NEW c \in Device, RecordUpload(c) PROVE KnowsFiles(c)'
  <2> DEFINE v == reply[c].reply.version
  <2> DEFINE renamed == v.path # reply[c].path /\ scan[c][reply[c].path] # DirNode
             noted == [q \in Path |-> IF q = v.path THEN StateOf(v)
                                      ELSE IF renamed /\ q = reply[c].path THEN NoState
                                      ELSE known[c][q]]
  <2>0. /\ at[c] = "answer" /\ reply[c].kind = "push"
        /\ known'[c] = known[c] \/ known'[c] = noted
    BY <1>0, <1>4, RecordUploadMoves
  <2>1. \A p \in Path : known'[c][p] \in {known[c][p], StateOf(v), NoState}
    <3> HIDE DEF v, renamed, StateOf
    <3> QED BY <2>0
  <2>2. v \in server.versions
    BY <1>0, <2>0 DEF Safe, Sent
  <2>3. StateOf(v).state # "dir" /\ StateOf(v).was # "dir"
    BY <1>0, <2>2 DEF StateOf
  <2> HIDE DEF v
  <2> QED BY <1>0, <2>1, <2>3 DEF KnowsFiles
<1>5. ASSUME NEW c \in Device, RecordDelete(c) PROVE KnowsFiles(c)'
  <2> DEFINE p == reply[c].path
             gone == [fileID |-> known[c][p].fileID, id |-> reply[c].reply.version.id,
                      state |-> "deleted", was |-> known[c][p].state, content |-> NoContent]
  <2>1. /\ p \in Path /\ Live(known[c], p)
    <3>1. at[c] = "answer" /\ reply[c].kind = "drop" /\ MidRound(c, Anywhere)
      BY <1>0, <1>5 DEF Engines, RecordDelete
    <3> QED BY <3>1 DEF MidRound, HasAnswer, Answer
  <2>2. known' = known \/ known' = [known EXCEPT ![c][p] = gone]
    BY <1>5 DEF RecordDelete, SetKnown
  <2>3. known[c][p].state # "dir"
    BY <1>0, <2>1 DEF KnowsFiles, Live
  <2>4. gone.state # "dir" /\ gone.was # "dir"
    BY <2>3
  <2> HIDE DEF gone
  <2>5. \A q \in Path : known'[c][q] \in {known[c][q], gone}
    BY <1>0, <2>1, <2>2 DEF Engines, Shaped
  <2> QED BY <1>0, <2>4, <2>5 DEF KnowsFiles
<1>6. ASSUME NEW c \in Device, Engine(c) PROVE \A d \in Device : KnowsFiles(d)'
  <2>1. CASE Settle(c) \/ RecordUpload(c) \/ RecordDelete(c)
    <3>1. OnlyAt(c)
      BY <1>0, <2>1, RoundMoves
    <3> QED BY <1>2, <1>3, <1>4, <1>5, <2>1, <3>1
  <2>2. CASE \/ BeginRound(c) \/ SkipEvent(c) \/ Examine(c) \/ Land(c) \/ FailToLand(c)
             \/ EndPull(c) \/ ScanLocal(c) \/ EndUploads(c) \/ EndPush(c)
             \/ \E p \in Path : Upload(c, p) \/ DeleteRemote(c, p)
    <3>1. UNCHANGED known
      BY <2>2 DEF BeginRound, SkipEvent, Examine, Land, FailToLand, EndPull, ScanLocal, EndUploads,
                  EndPush, Upload, DeleteRemote, local
    <3> QED BY <1>1, <3>1
  <2> QED BY <1>6, <2>1, <2>2 DEF Engine
<1>7. CASE UNCHANGED known
  BY <1>1, <1>7
<1>8. ASSUME NEW c \in Device, User(c) \/ Abort(c) PROVE UNCHANGED known
  BY <1>8 DEF User, RemovePath, MakeDir, WriteFile, Edit, Abort, local
<1>9. CASE (\E p \in Path : RestoreTrash(p)) \/ (\E k \in 0..fresh : PruneTrash(k)) \/ UNCHANGED vars
  BY <1>7, <1>9 DEF RestoreTrash, PruneTrash, vars, local
<1> QED BY <1>6, <1>7, <1>8, <1>9 DEF Next

LEMMA FlatSteps ==
  ASSUME CalmUsers, FlatFiles, FlatInv, [Next]_vars
  PROVE  FlatInv' /\ HistoryGrows
<1>1. KeptInv' /\ HistoryGrows
  BY KeptSteps DEF FlatInv
<1>2. SyncInv(AnyFile)'
  BY FlatSuits, SyncStepsKeep DEF FlatInv
<1> QED BY <1>1, <1>2, FlatHistory, FlatKnowledge DEF FlatInv

\* A round that ends has no directories to clear away.
LEMMA NothingToClear ==
  ASSUME FlatInv, NEW c \in Device, EndPull(c)
  PROVE  UNCHANGED files
<1>1. DeletedDirs(c) = {}
  BY DEF FlatInv, KnowsFiles, DeletedDirs
<1>2. files' = [files EXCEPT ![c] = CleanDirs(files[c], {})]
  BY <1>1 DEF EndPull
<1>3. files \in [Device -> GoodDir(Anywhere)]
  BY DEF FlatInv, KeptInv, SyncInv, Engines, Shaped
<1>4. CleanDirs(files[c], {}) = files[c]
  BY <1>3 DEF CleanDirs, GoodDir
<1> QED BY <1>2, <1>3, <1>4

LEMMA NoDirEvent ==
  ASSUME FlatInv, NEW c \in Device, Land(c)
  PROVE  ~IsDirEvent(c, Target(c))
<1>1. Engines(Anywhere) /\ Queued(c) /\ queue[c] # <<>>
  BY DEF FlatInv, KeptInv, SyncInv, Safe, Engines, MidRound, HasTarget, Land
<1>2. Target(c) \in server.versions
  BY <1>1, TargetIsPast
<1>3. Target(c).state # "dir" /\ Target(c).was # "dir"
  BY <1>2, NoDirsThere DEF FlatInv
<1>4. Target(c).path \in Path
  BY <1>1, TargetIsGood DEF Engines
<1>5. ~KnownAs(c, Target(c).path, "dir")
  BY <1>4 DEF FlatInv, KnowsFiles, KnownAs
<1> QED BY <1>3, <1>5 DEF IsDirEvent, WasDir

\* What becomes wanted has just been written.
LEMMA NewIsThere ==
  ASSUME Engines(Anywhere), [Next]_vars, NEW x \in Content, x \notin wanted, x \in wanted'
  PROVE  \E c \in Device, q \in Path : files'[c][q] = x
<1>1. ASSUME NEW c \in Device, NEW p, NEW fs, NEW same, Edit(c, p, fs, same)
      PROVE  \E q \in Path : files'[c][q] = x
  <2>1. \E q \in Path : fs[q] = x
    BY <1>1 DEF Edit
  <2>2. files'[c] = fs
    BY <1>1 DEF Edit, Engines, Shaped
  <2> QED BY <2>1, <2>2
<1>2. ASSUME NEW c \in Device, User(c) PROVE \E q \in Path : files'[c][q] = x
  BY <1>1, <1>2 DEF User, RemovePath, MakeDir, WriteFile
<1>3. ASSUME NEW c \in Device, Engine(c) PROVE UNCHANGED wanted
  BY <1>3 DEF Engine, BeginRound, SkipEvent, Examine, Land, FailToLand, Settle, EndPull, ScanLocal,
              Upload, RecordUpload, EndUploads, DeleteRemote, RecordDelete, EndPush
<1>4. ASSUME NEW c \in Device, Abort(c) PROVE UNCHANGED wanted
  BY <1>4 DEF Abort
<1>5. CASE (\E p \in Path : RestoreTrash(p)) \/ (\E k \in 0..fresh : PruneTrash(k)) \/ UNCHANGED vars
  BY <1>5 DEF RestoreTrash, PruneTrash, vars
<1> QED BY <1>2, <1>3, <1>4, <1>5 DEF Next

\* In a space of files nothing takes a user's edit away (applyVersion,
\* hasLocalDivergence, uploadFile).
THEOREM FilesKeepEdits ==
  ASSUME CalmUsers, FlatFiles
  PROVE  Spec => []EditsAreKept
<1>1. Init => FlatInv /\ EditsAreKept
  BY FlatBegins DEF Init, EditsAreKept, Kept
<1>2. FlatInv /\ EditsAreKept /\ [Next]_vars => FlatInv' /\ EditsAreKept'
  <2> SUFFICES ASSUME FlatInv, EditsAreKept, [Next]_vars
               PROVE  FlatInv' /\ EditsAreKept'
    OBVIOUS
  <2>1. FlatInv' /\ HistoryGrows
    BY FlatSteps
  <2>2. KeptInv /\ Engines(Anywhere) /\ wanted' \subseteq Content
    BY <2>1 DEF FlatInv, KeptInv, SyncInv, Bounded
  <2>3. ASSUME NEW x \in Content, x \in wanted' PROVE Somewhere(x)'
    <3>1. CASE x \notin wanted
      BY <2>2, <2>3, <3>1, NewIsThere DEF Somewhere
    <3>2. CASE x \in wanted
      <4>1. Somewhere(x)
        BY <3>2 DEF EditsAreKept, Kept, Somewhere
      <4>2. CASE Loses
        <5>1. UNCHANGED files
          BY <4>2, NothingToClear, NoDirEvent DEF Loses
        <5> QED BY <2>1, <4>1, <5>1 DEF Somewhere, HistoryGrows
      <4>3. CASE ~Loses
        BY <2>1, <2>2, <2>3, <4>1, <4>3, StepHolds
      <4> QED BY <4>2, <4>3
    <3> QED BY <3>1, <3>2
  <2>4. EditsAreKept'
    BY <2>2, <2>3 DEF EditsAreKept, Kept, Somewhere
  <2> QED BY <2>1, <2>4
<1> QED BY <1>1, <1>2, PTL DEF Spec

-----------------------------------------------------------------------------
(* Mirrors: what the server tells.                                         *)

\* A version has one event.
OneEach(m) == \A e, f \in Log(m) : e.version.id = f.version.id => e = f

Telling(m) ==
  Logged(m) /\ OneEach(m) /\ Consistent(m) /\ \A v \in m.versions : v.id # NoId

LEMMA InHistory ==
  ASSUME NEW m, Logged(m), NEW e \in Log(m)
  PROVE  e.version \in m.versions
BY DEF Logged, Log

LEMMA SameLogTells ==
  ASSUME NEW m, NEW new, Telling(m), Quiet(m, new) \/ Pruned(m, new)
  PROVE  Telling(new)
<1>1. new.versions = m.versions /\ new.events = m.events
  BY DEF Quiet, Pruned
<1>2. Consistent(new)
  BY QuietConsistent, PrunedConsistent DEF Telling
<1>3. Log(new) = Log(m)
  BY <1>1 DEF Log
<1>4. OneEach(new) /\ Logged(new)
  BY <1>1, <1>3 DEF Telling, OneEach, Logged
<1> QED BY <1>1, <1>2, <1>4 DEF Telling

LEMMA AppendsTells ==
  ASSUME NEW m \in Metadata, NEW new \in Metadata, Window(m), Window(new), Telling(m),
         NEW v, Appends(m, new, v), v.id # NoId
  PROVE  Telling(new)
<1>1. \A e \in Log(new) : e \in Log(m) \/ (e.version = v /\ e.seq = new.lastSeq)
  BY LogGains DEF Appends
<1>2. \A e \in Log(m) : e.version.id < v.id /\ e.version.id \in Nat /\ v.id \in Nat
  <2>1. \A w \in m.versions : w.id < v.id /\ w.id \in Nat
    BY DEF Appends, OnTop, Metadata, Version
  <2>2. v.id \in Nat
    BY DEF Appends, OnTop, Version
  <2> QED BY <2>1, <2>2, InHistory DEF Telling
<1>3. \A e, f \in Log(new) : e.seq = f.seq => e = f
  BY LogRange
<1>4. OneEach(new)
  <2> SUFFICES ASSUME NEW e \in Log(new), NEW f \in Log(new), e.version.id = f.version.id
               PROVE  e = f
    BY DEF OneEach
  <2>1. CASE e \in Log(m) /\ f \in Log(m)
    BY <2>1 DEF Telling, OneEach
  <2>2. CASE e \notin Log(m) /\ f \notin Log(m)
    BY <1>1, <1>3, <2>2
  <2>3. CASE e \in Log(m) /\ f \notin Log(m)
    BY <1>1, <1>2, <2>3
  <2>4. CASE e \notin Log(m) /\ f \in Log(m)
    BY <1>1, <1>2, <2>4
  <2> QED BY <2>1, <2>2, <2>3, <2>4
<1>5. Logged(new)
  <2>1. Moves(m, new)
    BY DEF Moves, Appends, OnTop
  <2> QED BY <2>1, MovesLogged DEF Telling
<1>6. Consistent(new)
  BY AppendsConsistent DEF Telling
<1>7. \A w \in new.versions : w.id # NoId
  BY DEF Appends, Telling
<1> QED BY <1>4, <1>5, <1>6, <1>7 DEF Telling

-----------------------------------------------------------------------------
(* Mirrors: what a device knows of it.                                     *)

\* An event of another device that c has not seen.
Missing(c, e) == e \in Log(server) /\ seen[c] < e.seq /\ e.version.device # c

Behind(c, p) == \E e \in Log(server) : Missing(c, e) /\ e.version.path = p

Pulls == {"pull", "land", "verify", "settle"}

\* What is in the queue follows what was seen.
InOrder(c) ==
  /\ seen[c] <= server.lastSeq
  /\ \A i \in 1..Len(queue[c]) : queue[c][i] \in Log(server) /\ queue[c][i].seq = seen[c] + i
  /\ at[c] \notin Pulls => queue[c] = <<>>

\* What is applied is another device's.
Applying(c) == at[c] \in {"land", "verify", "settle"} => Target(c).device # c

\* c asked for nothing at a path after something it has not seen there.
Own(c) ==
  \A e, o \in Log(server) :
    Missing(c, e) /\ o.version.path = e.version.path /\ o.version.device = c => o.seq < e.seq

KnownIsSeen(c) ==
  \A e \in Log(server) :
    Missing(c, e) /\ known[c][e.version.path] # NoState
    => known[c][e.version.path].id # e.version.id

Told(c) == \A p \in Path : known[c][p] # NoState => known[c][p].id < fresh

\* What c has not fetched in the middle of a round does not leave the trash.
Heads(c) ==
  at[c] # "idle" =>
    \A e \in Log(server) : seen[c] + Len(queue[c]) < e.seq => HeadAt(server, e.version.path) # NoVersion

Agrees(k, h) ==
  IF h = NoVersion THEN k = NoState \/ k.state = "deleted"
  ELSE /\ k # NoState /\ k.id = h.id /\ k.state = h.state
       /\ h.state = "file" => k.content = h.content

\* An answer that the state file is about to be told.
Asked(c, p) ==
  at[c] = "answer" /\ reply[c].reply.status = "ok" /\ reply[c].reply.version.path = p

\* Where nothing was missed, the state file has what the server has.
Agree(c) ==
  \A p \in Path : Behind(c, p) \/ Asked(c, p) \/ Agrees(known[c][p], HeadAt(server, p))

\* v is on top, or was and has left the trash.
Held(v, h) == h = v \/ (h = NoVersion /\ v.state = "deleted")

Answers(c) ==
  at[c] = "answer" =>
    LET v == reply[c].reply.version
    IN  /\ reply[c].kind = "push" => reply[c].reply.status = "ok"
        /\ reply[c].reply.status = "ok" =>
             /\ v \in server.versions /\ v.device = c
             /\ Behind(c, v.path) \/ Held(v, HeadAt(server, v.path))
             /\ reply[c].kind = "drop" => v.state = "deleted" /\ v.path = reply[c].path
             /\ v.path # reply[c].path => Behind(c, reply[c].path)

Mirrors(c) ==
  /\ InOrder(c) /\ Applying(c) /\ Own(c) /\ KnownIsSeen(c) /\ Told(c)
  /\ Heads(c) /\ Agree(c) /\ Answers(c)

\* A step that shows nothing new on the server.
LEMMA QuietBehind ==
  ASSUME NEW c, Quiet(server, server') \/ Pruned(server, server'), seen'[c] = seen[c]
  PROVE  /\ \A e : Missing(c, e)' <=> Missing(c, e)
         /\ \A p : Behind(c, p)' <=> Behind(c, p)
         /\ Log(server') = Log(server) /\ server'.lastSeq = server.lastSeq
<1>1. server'.events = server.events /\ server'.lastSeq = server.lastSeq
  BY DEF Quiet, Pruned
<1>2. Log(server') = Log(server)
  BY <1>1 DEF Log
<1>3. \A e : Missing(c, e)' <=> Missing(c, e)
  BY <1>2 DEF Missing
<1>4. \A p : Behind(c, p)' <=> Behind(c, p)
  BY <1>2, <1>3 DEF Behind
<1> QED BY <1>1, <1>2, <1>3, <1>4

LEMMA QuietMirrors ==
  ASSUME server.versions \subseteq Version, fresh \in Nat, fresh' \in Nat,
         NEW c \in Device, Mirrors(c), Quiet(server, server'), fresh <= fresh',
         known[c] \in [Path -> LocalState \cup {NoState}],
         known'[c] = known[c], seen'[c] = seen[c],
         at'[c] \in Pulls \/ queue'[c] = <<>>,
         \/ queue'[c] = queue[c] /\ (at[c] # "idle" \/ at'[c] = "idle")
         \/ queue'[c] = <<>> /\ at'[c] = "idle",
         Applying(c)', Answers(c)',
         \A p \in Path : Asked(c, p) => Asked(c, p)',
         \A e \in Log(server) : e.version.path \in Path
  PROVE  Mirrors(c)'
<1>1. /\ \A e : Missing(c, e)' <=> Missing(c, e)
      /\ \A p : Behind(c, p)' <=> Behind(c, p)
      /\ Log(server') = Log(server) /\ server'.lastSeq = server.lastSeq
  BY QuietBehind
<1>2. \A p \in Path : HeadAt(server', p) = HeadAt(server, p)
  BY DEF Quiet
<1>3. InOrder(c)'
  <2>1. \A i \in 1..Len(queue'[c]) : queue'[c][i] \in Log(server) /\ queue'[c][i].seq = seen[c] + i
    BY DEF Mirrors, InOrder
  <2> QED BY <1>1, <2>1 DEF Mirrors, InOrder
<1>4. Own(c)'
  BY <1>1 DEF Mirrors, Own
<1>5. KnownIsSeen(c)'
  BY <1>1 DEF Mirrors, KnownIsSeen
<1>6. Told(c)'
  <2>1. \A p \in Path : known[c][p] # NoState => known[c][p].id \in Nat
    BY DEF LocalState
  <2> QED BY <2>1 DEF Mirrors, Told
<1>7. Heads(c)'
  BY <1>1, <1>2 DEF Mirrors, Heads
<1>8. Agree(c)'
  BY <1>1, <1>2 DEF Mirrors, Agree
<1> QED BY <1>3, <1>4, <1>5, <1>6, <1>7, <1>8 DEF Mirrors

-----------------------------------------------------------------------------
(* Mirrors: the server's steps.                                            *)

\* Tombstones are pruned while nobody is in a round.
LEMMA PrunedMirrors ==
  ASSUME NEW c \in Device, Mirrors(c), Pruned(server, server'), server.versions \subseteq Version,
         Heads(c)', UNCHANGED <<fresh, known, seen, at, queue, reply>>
  PROVE  Mirrors(c)'
<1>1. /\ \A e : Missing(c, e)' <=> Missing(c, e)
      /\ \A p : Behind(c, p)' <=> Behind(c, p)
      /\ Log(server') = Log(server) /\ server'.lastSeq = server.lastSeq
      /\ server'.versions = server.versions
  BY QuietBehind DEF Pruned
<1>2. InOrder(c)' /\ Own(c)' /\ KnownIsSeen(c)' /\ Told(c)'
  BY <1>1 DEF Mirrors, InOrder, Own, KnownIsSeen, Told
<1>3. Applying(c)' /\ \A p : Asked(c, p)' <=> Asked(c, p)
  BY DEF Mirrors, Applying, Asked, Target, Current
<1>4. ASSUME NEW p \in Path
      PROVE  \/ HeadAt(server', p) = HeadAt(server, p)
             \/ /\ HeadAt(server', p) = NoVersion /\ HeadAt(server, p) # NoVersion
                /\ HeadAt(server, p).state = "deleted"
  BY DEF Pruned
<1>5. ASSUME NEW p \in Path, Agrees(known[c][p], HeadAt(server, p))
      PROVE  Agrees(known[c][p], HeadAt(server', p))
  BY <1>4, <1>5 DEF Agrees
<1>6. Agree(c)'
  BY <1>1, <1>3, <1>5 DEF Mirrors, Agree
<1>7. Answers(c)'
  <2> SUFFICES ASSUME at[c] = "answer" PROVE Answers(c)'
    BY DEF Answers
  <2> DEFINE w == reply[c].reply.version
  <2>1. reply[c].reply.status = "ok" =>
          /\ w \in server'.versions /\ w.device = c
          /\ reply[c].kind = "drop" => w.state = "deleted" /\ w.path = reply[c].path
          /\ w.path # reply[c].path => Behind(c, reply[c].path)'
    BY <1>1 DEF Mirrors, Answers
  <2>2. reply[c].reply.status = "ok" => Behind(c, w.path)' \/ Held(w, HeadAt(server', w.path))
    <3>1. reply[c].reply.status = "ok" =>
            w.path \in Path /\ (Behind(c, w.path) \/ Held(w, HeadAt(server, w.path)))
      BY DEF Mirrors, Answers, Version
    <3> QED BY <1>1, <1>4, <3>1 DEF Held
  <2>3. reply[c].kind = "push" => reply[c].reply.status = "ok"
    BY DEF Mirrors, Answers
  <2> HIDE DEF w
  <2> QED BY <2>1, <2>2, <2>3 DEF Answers, w
<1> QED BY <1>2, <1>3, <1>6, <1>7 DEF Mirrors

\* One version on top, and a log that still has what c has not seen.
Adds(v, c) ==
  /\ Sound(server, fresh, fresh) /\ fresh \in Nat \ {0} /\ Telling(server)
  /\ Sound(server', fresh', fresh') /\ fresh' \in Nat /\ fresh <= fresh'
  /\ Appends(server, server', v) /\ fresh <= v.id
  /\ server'.lastSeq <= seen'[c] + MaxEvents
  /\ seen[c] \in Nat /\ seen[c] <= server.lastSeq
  /\ known[c] \in [Path -> LocalState \cup {NoState}]
  /\ known'[c] = known[c] /\ seen'[c] = seen[c]

\* What is new is one event; nothing missing is forgotten.
LEMMA AddsEvent ==
  ASSUME NEW c \in Device, NEW v, Adds(v, c)
  PROVE  /\ v.path \in Path /\ v \in server'.versions /\ server.versions \subseteq server'.versions
         /\ HeadAt(server', v.path) = v
         /\ \A p \in Path : p # v.path => HeadAt(server', p) = HeadAt(server, p)
         /\ server'.lastSeq = server.lastSeq + 1 /\ server.lastSeq \in Nat
         /\ \A e \in Log(server') : e.seq \in Nat /\ e.version.path \in Path
         /\ \A e \in Log(server) : e.seq \in Nat /\ e.seq <= server.lastSeq
                                   /\ e.version \in server.versions
         /\ \A e \in Log(server') : e \in Log(server) \/ (e.version = v /\ e.seq = server'.lastSeq)
         /\ \E e \in Log(server') : e.version = v /\ e.seq = server'.lastSeq
         /\ \A e \in Log(server) : seen[c] < e.seq => e \in Log(server')
<1>1. /\ server \in Metadata /\ server' \in Metadata /\ Window(server) /\ Window(server')
      /\ LogGrows(server.events, server'.events, v) /\ server'.lastSeq = server.lastSeq + 1
  BY DEF Adds, Sound, Appends
<1>2. /\ v.path \in Path /\ v \in server'.versions /\ server.versions \subseteq server'.versions
      /\ HeadAt(server', v.path) = v
      /\ \A p \in Path : p # v.path => HeadAt(server', p) = HeadAt(server, p)
  BY DEF Adds, Appends, OnTop, Version
<1>3. /\ \A e \in Log(server') : e \in Event /\ e.seq \in Nat
      /\ \A e \in Log(server) : e.seq \in Nat /\ e.seq <= server.lastSeq
  BY <1>1, LogRange
<1>4. \A e \in Log(server) : e.version \in server.versions
  BY InHistory DEF Adds, Telling
<1>5. /\ \A e \in Log(server') : e \in Log(server) \/ (e.version = v /\ e.seq = server'.lastSeq)
      /\ \E e \in Log(server') : e.version = v /\ e.seq = server'.lastSeq
      /\ \A e \in Log(server) : server'.lastSeq < e.seq + MaxEvents => e \in Log(server')
  BY <1>1, LogGains
<1>6. ASSUME NEW e \in Log(server), seen[c] < e.seq PROVE e \in Log(server')
  <2>1. /\ server'.lastSeq <= seen[c] + MaxEvents /\ server'.lastSeq \in Nat
        /\ seen[c] \in Nat /\ MaxEvents \in Nat /\ e.seq \in Nat
    BY <1>1, <1>3, LimitAssumption DEF Adds, Metadata
  <2> QED BY <1>5, <1>6, <2>1
<1>7. server.lastSeq \in Nat /\ \A e \in Event : e.version.path \in Path
  BY <1>1 DEF Metadata, Event, Version
<1> QED BY <1>1, <1>2, <1>3, <1>4, <1>5, <1>6, <1>7

\* What it does to what c is missing.
LEMMA AddsMissing ==
  ASSUME NEW c \in Device, NEW v, Adds(v, c)
  PROVE  /\ \A e : Missing(c, e) => Missing(c, e)'
         /\ \A e : Missing(c, e)' => Missing(c, e) \/ (v.device # c /\ e.version = v /\ e.seq = server'.lastSeq)
         /\ \A p : Behind(c, p) => Behind(c, p)'
         /\ \A p \in Path : p # v.path \/ v.device = c => (Behind(c, p)' <=> Behind(c, p))
         /\ v.device # c => Behind(c, v.path)'
<1>1. /\ \A e \in Log(server') : e \in Log(server) \/ (e.version = v /\ e.seq = server'.lastSeq)
      /\ \E e \in Log(server') : e.version = v /\ e.seq = server'.lastSeq
      /\ \A e \in Log(server) : seen[c] < e.seq => e \in Log(server')
      /\ server'.lastSeq = server.lastSeq + 1 /\ server.lastSeq \in Nat
  BY AddsEvent
<1>2. seen'[c] = seen[c] /\ seen[c] \in Nat /\ seen[c] < server'.lastSeq
  BY <1>1 DEF Adds
<1>3. \A e : Missing(c, e) => Missing(c, e)'
  BY <1>1, <1>2 DEF Missing
<1>4. \A e : Missing(c, e)' => Missing(c, e) \/ (v.device # c /\ e.version = v /\ e.seq = server'.lastSeq)
  BY <1>1, <1>2 DEF Missing
<1>5. \A p : Behind(c, p) => Behind(c, p)'
  BY <1>3 DEF Behind, Missing
<1>6. \A p \in Path : p # v.path \/ v.device = c => (Behind(c, p)' => Behind(c, p))
  BY <1>4 DEF Behind, Missing
<1>7. v.device # c => Behind(c, v.path)'
  BY <1>1, <1>2 DEF Behind, Missing
<1> QED BY <1>3, <1>4, <1>5, <1>6, <1>7

\* The parts that do not depend on whose version it is.
LEMMA AddsKeeps ==
  ASSUME NEW c \in Device, NEW v, Adds(v, c), Mirrors(c),
         v.device = c => ~Behind(c, v.path)
  PROVE  Own(c)' /\ KnownIsSeen(c)' /\ Told(c)' /\ seen'[c] <= server'.lastSeq
<1>1. /\ \A e \in Log(server') : e \in Log(server) \/ (e.version = v /\ e.seq = server'.lastSeq)
      /\ \A e \in Log(server) : e.seq \in Nat /\ e.seq <= server.lastSeq
                                /\ e.version \in server.versions
      /\ server'.lastSeq = server.lastSeq + 1 /\ server.lastSeq \in Nat
      /\ \A e \in Log(server') : e.seq \in Nat /\ e.version.path \in Path
  BY AddsEvent
<1>2. /\ \A e : Missing(c, e)' => Missing(c, e) \/ (v.device # c /\ e.version = v /\ e.seq = server'.lastSeq)
      /\ \A p \in Path : v.device = c => (Behind(c, p)' <=> Behind(c, p))
  BY AddsMissing
<1>3. Own(c)'
  <2> SUFFICES ASSUME NEW e \in Log(server'), NEW o \in Log(server'), Missing(c, e)',
                      o.version.path = e.version.path, o.version.device = c
               PROVE  o.seq < e.seq
    BY DEF Own
  <2>1. CASE o \in Log(server) /\ Missing(c, e)
    BY <2>1 DEF Mirrors, Own, Missing
  <2>2. CASE o \in Log(server) /\ ~Missing(c, e)
    <3>1. e.seq = server'.lastSeq
      BY <1>2, <2>2
    <3> QED BY <1>1, <2>2, <3>1
  <2>3. CASE o \notin Log(server)
    <3>1. o.version = v /\ v.device = c
      BY <1>1, <2>3
    <3>2. Missing(c, e)
      BY <1>2, <3>1
    <3>3. Behind(c, v.path)
      BY <3>1, <3>2 DEF Behind, Missing
    <3> QED BY <3>1, <3>3
  <2> QED BY <2>1, <2>2, <2>3
<1>4. \A p \in Path : known[c][p] # NoState => known[c][p].id < fresh /\ known[c][p].id \in Nat
  BY DEF Adds, Mirrors, Told, LocalState
<1>5. v.id \in Nat /\ fresh <= v.id /\ fresh \in Nat /\ fresh' \in Nat /\ fresh <= fresh'
      /\ known'[c] = known[c]
  BY DEF Adds, Appends, OnTop, Version
<1>6. KnownIsSeen(c)'
  <2> SUFFICES ASSUME NEW e \in Log(server'), Missing(c, e)', known[c][e.version.path] # NoState
               PROVE  known[c][e.version.path].id # e.version.id
    BY <1>5 DEF KnownIsSeen
  <2>1. CASE Missing(c, e)
    BY <2>1 DEF Mirrors, KnownIsSeen, Missing
  <2>2. CASE ~Missing(c, e)
    BY <1>1, <1>2, <1>4, <1>5, <2>2
  <2> QED BY <2>1, <2>2
<1>7. Told(c)'
  BY <1>4, <1>5 DEF Told
<1>8. seen'[c] <= server'.lastSeq
  BY <1>1 DEF Adds
<1> QED BY <1>3, <1>6, <1>7, <1>8

\* Another's version, while c stands still.
LEMMA OthersMirror ==
  ASSUME NEW c \in Device, NEW v, Adds(v, c), Mirrors(c), v.device # c,
         at'[c] = at[c], queue'[c] = queue[c], reply'[c] = reply[c],
         \A i \in 1..Len(queue[c]) : queue[c][i].seq > seen[c]
  PROVE  Mirrors(c)'
<1>1. Own(c)' /\ KnownIsSeen(c)' /\ Told(c)' /\ seen'[c] <= server'.lastSeq
  BY AddsKeeps
<1>2. /\ HeadAt(server', v.path) = v /\ v # NoVersion
      /\ \A p \in Path : p # v.path => HeadAt(server', p) = HeadAt(server, p)
      /\ server.versions \subseteq server'.versions
      /\ \A e \in Log(server') : e \in Log(server) \/ (e.version = v /\ e.seq = server'.lastSeq)
      /\ \A e \in Log(server) : seen[c] < e.seq => e \in Log(server')
      /\ \A e \in Log(server) : e.seq \in Nat
      /\ \A e \in Log(server') : e.seq \in Nat /\ e.version.path \in Path
      /\ seen'[c] = seen[c] /\ known'[c] = known[c] /\ seen[c] \in Nat
  BY AddsEvent, NullAssumption DEF Adds, Appends, OnTop
<1>3. /\ \A p : Behind(c, p) => Behind(c, p)'
      /\ \A p \in Path : p # v.path => (Behind(c, p)' <=> Behind(c, p))
      /\ Behind(c, v.path)'
  BY AddsMissing
<1>4. InOrder(c)'
  BY <1>1, <1>2 DEF Mirrors, InOrder
<1>5. Applying(c)'
  BY DEF Mirrors, Applying, Target, Current
<1>6. Heads(c)'
  <2> SUFFICES ASSUME at[c] # "idle", NEW e \in Log(server'), seen[c] + Len(queue[c]) < e.seq
               PROVE  HeadAt(server', e.version.path) # NoVersion
    BY <1>2 DEF Heads
  <2>1. CASE e.version.path = v.path
    BY <1>2, <2>1
  <2>2. CASE e.version.path # v.path
    BY <1>2, <2>2 DEF Mirrors, Heads
  <2> QED BY <2>1, <2>2
<1>7. Agree(c)'
  <2>1. \A p \in Path : Asked(c, p)' <=> Asked(c, p)
    BY DEF Asked
  <2> QED BY <1>2, <1>3, <2>1 DEF Mirrors, Agree
<1>8. Answers(c)'
  <2> SUFFICES ASSUME at[c] = "answer" PROVE Answers(c)'
    BY DEF Answers
  <2> DEFINE w == reply[c].reply.version
  <2>1. reply[c].reply.status = "ok" =>
          /\ w \in server'.versions /\ w.device = c
          /\ reply[c].kind = "drop" => w.state = "deleted" /\ w.path = reply[c].path
          /\ w.path # reply[c].path => Behind(c, reply[c].path)'
    BY <1>2, <1>3 DEF Mirrors, Answers
  <2>2. reply[c].reply.status = "ok" => Behind(c, w.path)' \/ Held(w, HeadAt(server', w.path))
    <3>1. w \in server.versions => w.path \in Path
      BY DEF Adds, Sound, Metadata, Version
    <3> QED BY <1>2, <1>3, <3>1 DEF Mirrors, Answers
  <2>3. reply[c].kind = "push" => reply[c].reply.status = "ok"
    BY DEF Mirrors, Answers
  <2> HIDE DEF w
  <2> QED BY <2>1, <2>2, <2>3 DEF Answers, w
<1> QED BY <1>1, <1>4, <1>5, <1>6, <1>7, <1>8 DEF Mirrors

-----------------------------------------------------------------------------
(* Mirrors: requests.                                                      *)

\* What the state file knows of a path is the head exactly if nothing is missing.
LEMMA BaseTells ==
  ASSUME Sound(server, fresh, fresh), Telling(server),
         NEW c \in Device, Mirrors(c), at[c] \notin {"idle", "answer"}, queue[c] = <<>>,
         seen[c] \in Nat, NEW p \in Path
  PROVE  LET h == HeadAt(server, p)
             base == FieldOf(c, p, "id")
         IN  /\ (h # NoVersion => base = h.id) => ~Behind(c, p)
             /\ h # NoVersion /\ base # h.id => Behind(c, p)
             /\ h # NoVersion /\ base = h.id =>
                  known[c][p] # NoState /\ known[c][p].state = h.state
<1> DEFINE h == HeadAt(server, p)
           base == FieldOf(c, p, "id")
<1>1. /\ server \in Metadata /\ Window(server) /\ Consistent(server)
      /\ \A e \in Log(server) : e.seq \in Nat
  BY LogRange DEF Sound, Telling
<1>2. h # NoVersion => h.id # NoId
  BY DEF Sound, Headed, Telling, HeadAt
<1>3. base = IF known[c][p] = NoState THEN NoId ELSE known[c][p].id
  BY DEF FieldOf
<1>4. h = NoVersion => ~Behind(c, p)
  BY <1>1 DEF Mirrors, Heads, Behind, Missing
<1>5. ASSUME h # NoVersion, base = h.id, NEW e \in Log(server), Missing(c, e), e.version.path = p
      PROVE  FALSE
  <2>1. PICK f \in Log(server) :
          /\ f.version.path = p /\ e.seq <= f.seq
          /\ \A g \in Log(server) : g.version.path = p => g.seq <= f.seq
    BY <1>1, <1>5, LastExists
  <2>2. h = f.version
    BY <1>1, <1>5, <2>1, LastTells
  <2>3. f.version.device # c
    <3>1. f.version.device = c => f.seq < e.seq
      BY <1>5, <2>1 DEF Mirrors, Own
    <3> QED BY <1>1, <2>1, <3>1
  <2>4. Missing(c, f)
    BY <1>1, <1>5, <2>1, <2>3 DEF Missing
  <2>5. known[c][p] # NoState /\ known[c][p].id = f.version.id
    BY <1>2, <1>3, <1>5, <2>2
  <2> QED BY <2>1, <2>4, <2>5 DEF Mirrors, KnownIsSeen
<1>6. h # NoVersion /\ base = h.id => ~Behind(c, p)
  BY <1>5 DEF Behind
<1>7. ~Behind(c, p) => Agrees(known[c][p], h)
  BY DEF Mirrors, Agree, Asked
<1>8. h # NoVersion /\ base # h.id => Behind(c, p)
  BY <1>3, <1>7 DEF Agrees
<1>9. h # NoVersion /\ base = h.id => known[c][p] # NoState /\ known[c][p].state = h.state
  BY <1>6, <1>7 DEF Agrees
<1> QED BY <1>4, <1>6, <1>8, <1>9

\* A version of c's own, and the answer that names it.
LEMMA OwnMirrors ==
  ASSUME NEW c \in Device, NEW v, Adds(v, c), Mirrors(c), v.device = c, ~Behind(c, v.path),
         at[c] \notin {"idle", "answer"}, queue[c] = <<>>,
         queue'[c] = <<>>, at'[c] = "answer",
         reply'[c].reply.status = "ok", reply'[c].reply.version = v,
         reply'[c].kind = "drop" => v.state = "deleted" /\ v.path = reply'[c].path,
         reply'[c].path \in Path,
         v.path # reply'[c].path => Behind(c, reply'[c].path)
  PROVE  Mirrors(c)'
<1>1. Own(c)' /\ KnownIsSeen(c)' /\ Told(c)' /\ seen'[c] <= server'.lastSeq
  BY AddsKeeps
<1>2. /\ v.path \in Path /\ v \in server'.versions
      /\ HeadAt(server', v.path) = v /\ v # NoVersion
      /\ \A p \in Path : p # v.path => HeadAt(server', p) = HeadAt(server, p)
      /\ \A e \in Log(server') : e \in Log(server) \/ (e.version = v /\ e.seq = server'.lastSeq)
      /\ \A e \in Log(server') : e.seq \in Nat /\ e.version.path \in Path
      /\ seen'[c] = seen[c] /\ known'[c] = known[c]
  BY AddsEvent, NullAssumption DEF Adds, Appends, OnTop
<1>3. \A p \in Path : Behind(c, p)' <=> Behind(c, p)
  BY AddsMissing
<1>4. InOrder(c)' /\ Applying(c)'
  BY <1>1 DEF InOrder, Applying
<1>5. Heads(c)'
  <2> SUFFICES ASSUME NEW e \in Log(server'), seen[c] + Len(queue[c]) < e.seq
               PROVE  HeadAt(server', e.version.path) # NoVersion
    BY <1>2 DEF Heads
  <2>1. CASE e.version.path = v.path
    BY <1>2, <2>1
  <2>2. CASE e.version.path # v.path
    BY <1>2, <2>2 DEF Mirrors, Heads
  <2> QED BY <2>1, <2>2
<1>6. Agree(c)'
  <2>1. Asked(c, v.path)' /\ \A p : ~Asked(c, p)
    BY DEF Asked
  <2>2. ASSUME NEW p \in Path, p # v.path
        PROVE  Behind(c, p)' \/ Agrees(known'[c][p], HeadAt(server', p))
    BY <1>2, <1>3, <2>1, <2>2 DEF Mirrors, Agree
  <2> QED BY <2>1, <2>2 DEF Agree
<1>7. Answers(c)'
  BY <1>2, <1>3 DEF Answers, Held
<1> QED BY <1>1, <1>4, <1>5, <1>6, <1>7 DEF Mirrors

-----------------------------------------------------------------------------
(* Mirrors: events.                                                        *)

\* What is fetched is all that was missed, in order.
LEMMA FetchMirrors ==
  ASSUME Sound(server, fresh, fresh), UNCHANGED <<server, fresh>>, NEW c \in Device, Mirrors(c),
         seen[c] \in Nat, server.lastSeq <= seen[c] + MaxEvents,
         at[c] # "answer", at'[c] = "pull", queue'[c] = EventsAfter(server, seen[c]),
         known'[c] = known[c], seen'[c] = seen[c]
  PROVE  Mirrors(c)'
<1> DEFINE q == EventsAfter(server, seen[c])
           n == Len(server.events)
<1>1. /\ server \in Metadata /\ Window(server) /\ server.lastSeq \in Nat
      /\ seen[c] <= server.lastSeq /\ server.events \in Seq(Event) /\ n \in Nat
  BY DEF Sound, Metadata, Mirrors, InOrder
<1>2. /\ Len(q) = server.lastSeq - seen[c]
      /\ \A i \in 1..Len(q) : q[i] = server.events[n - Len(q) + i]
  BY <1>1, EventsAfterTail
<1>3. Len(q) <= n /\ Len(q) \in Nat
  <2>1. n = IF server.lastSeq < MaxEvents THEN server.lastSeq ELSE MaxEvents
    BY <1>1 DEF Window
  <2> HIDE DEF q, n
  <2> QED BY <1>1, <1>2, <2>1, LimitAssumption
<1>4. ASSUME NEW i \in 1..Len(q) PROVE q[i] \in Log(server) /\ q[i].seq = seen[c] + i
  <2> DEFINE j == n - Len(q) + i
  <2>1. j \in 1..n /\ server.lastSeq - n + j = seen[c] + i
    <3> HIDE DEF q, n
    <3> QED BY <1>1, <1>2, <1>3
  <2>2. q[i] = server.events[j]
    BY <1>2
  <2>3. server.events[j].seq = server.lastSeq - n + j
    BY <1>1, <2>1 DEF Window
  <2> QED BY <2>1, <2>2, <2>3 DEF Log
<1> HIDE DEF q
<1>5. queue'[c] = q
  BY DEF q
<1>6. InOrder(c)' /\ Applying(c)' /\ Answers(c)'
  BY <1>1, <1>4, <1>5 DEF InOrder, Applying, Answers, Pulls
<1>7. Heads(c)'
  <2>1. \A e \in Log(server) : e.seq \in Nat /\ e.seq <= server.lastSeq
    BY <1>1, LogRange
  <2>2. seen[c] + Len(q) = server.lastSeq
    BY <1>1, <1>2
  <2> QED BY <1>1, <1>5, <2>1, <2>2 DEF Heads
<1>8. /\ \A e : Missing(c, e)' <=> Missing(c, e)
      /\ \A p : Behind(c, p)' <=> Behind(c, p)
  BY DEF Missing, Behind
<1>9. Own(c)' /\ KnownIsSeen(c)' /\ Told(c)'
  BY <1>8 DEF Mirrors, Own, KnownIsSeen, Told
<1>10. Agree(c)'
  <2>1. \A p : ~Asked(c, p)
    BY DEF Asked
  <2> QED BY <1>8, <2>1 DEF Mirrors, Agree
<1> QED BY <1>6, <1>7, <1>9, <1>10 DEF Mirrors

\* The first event of the queue is marked.
LEMMA TakesOne ==
  ASSUME NEW c \in Device, Mirrors(c), seen[c] \in Nat, server.lastSeq \in Nat,
         \A e \in Log(server) : e.seq \in Nat /\ e.seq <= server.lastSeq,
         \A e, f \in Log(server) : e.seq = f.seq => e = f,
         queue[c] \in Seq(Event), queue[c] # <<>>,
         seen'[c] = (IF Current(c).seq > seen[c] THEN Current(c).seq ELSE seen[c]),
         queue'[c] = Tail(queue[c]), UNCHANGED server
  PROVE  /\ Current(c) \in Log(server) /\ Current(c).seq = seen[c] + 1
         /\ seen'[c] = seen[c] + 1 /\ seen'[c] <= server.lastSeq
         /\ Len(queue'[c]) = Len(queue[c]) - 1 /\ Len(queue[c]) \in Nat
         /\ \A i \in 1..Len(queue'[c]) : queue'[c][i] \in Log(server) /\ queue'[c][i].seq = seen'[c] + i
         /\ \A e : Missing(c, e)' <=> Missing(c, e) /\ e # Current(c)
<1> DEFINE q == queue[c]
<1>1. /\ q \in Seq(Event) /\ Len(q) \in Nat \ {0} /\ Current(c) = q[1]
      /\ Len(Tail(q)) = Len(q) - 1 /\ \A i \in 1..Len(Tail(q)) : Tail(q)[i] = q[i + 1]
  BY DEF Current
<1>2. \A i \in 1..Len(q) : q[i] \in Log(server) /\ q[i].seq = seen[c] + i
  BY DEF Mirrors, InOrder
<1> HIDE DEF q
<1>3. Current(c) \in Log(server) /\ Current(c).seq = seen[c] + 1
  <2>1. 1 \in 1..Len(q)
    BY <1>1
  <2> QED BY <1>1, <1>2, <2>1
<1>4. seen'[c] = seen[c] + 1 /\ seen'[c] <= server.lastSeq
  BY <1>3
<1>5. ASSUME NEW i \in 1..Len(Tail(q))
      PROVE  Tail(q)[i] \in Log(server) /\ Tail(q)[i].seq = seen'[c] + i
  <2>1. i + 1 \in 1..Len(q) /\ i \in Nat
    BY <1>1
  <2>2. seen[c] + (i + 1) = seen'[c] + i
    BY <1>4, <2>1
  <2> QED BY <1>1, <1>2, <2>1, <2>2
<1>6. \A e : Missing(c, e)' <=> Missing(c, e) /\ e # Current(c)
  <2> SUFFICES ASSUME NEW e \in Log(server)
               PROVE  seen'[c] < e.seq <=> seen[c] < e.seq /\ e # Current(c)
    BY DEF Missing
  <2>1. e # Current(c) => e.seq # seen[c] + 1
    BY <1>3
  <2>2. e = Current(c) => e.seq = seen[c] + 1
    BY <1>3
  <2> QED BY <1>4, <2>1, <2>2
<1> QED BY <1>1, <1>3, <1>4, <1>5, <1>6 DEF q

-----------------------------------------------------------------------------
(* Mirrors: events that are done with.                                     *)

LEMMA MarksOne ==
  ASSUME NEW N, ServerGood(N), Engines(N), NEW c \in Device, Mirrors(c),
         queue[c] # <<>>, MarkSeen(c), UNCHANGED server
  PROVE  /\ Current(c) \in Log(server) /\ Current(c).seq = seen[c] + 1
         /\ seen'[c] = seen[c] + 1 /\ seen'[c] <= server.lastSeq
         /\ Len(queue'[c]) = Len(queue[c]) - 1 /\ Len(queue[c]) \in Nat
         /\ \A i \in 1..Len(queue'[c]) : queue'[c][i] \in Log(server) /\ queue'[c][i].seq = seen'[c] + i
         /\ \A e : Missing(c, e)' <=> Missing(c, e) /\ e # Current(c)
         /\ \A e \in Log(server) : e.seq \in Nat /\ e.version.path \in Path
         /\ seen[c] \in Nat
<1>1. /\ server \in Metadata /\ Window(server) /\ server.lastSeq \in Nat /\ seen[c] \in Nat
  BY DEF ServerGood, Sound, Metadata, Engines, Shaped
<1>2. /\ \A e \in Log(server) : e \in Event /\ e.seq \in Nat /\ e.seq <= server.lastSeq
      /\ \A e, f \in Log(server) : e.seq = f.seq => e = f
  BY <1>1, LogRange
<1>3. queue[c] \in Seq(Event)
  BY GoodIsTyped DEF Engines, Shaped
<1>4. /\ seen'[c] = (IF Current(c).seq > seen[c] THEN Current(c).seq ELSE seen[c])
      /\ queue'[c] = Tail(queue[c])
  BY DEF Engines, Shaped, MarkSeen
<1>5. \A e \in Event : e.version.path \in Path
  BY DEF Event, Version
<1>6. \A e \in Log(server) : e.seq \in Nat /\ e.version.path \in Path
  BY <1>2, <1>5
<1>7. /\ Current(c) \in Log(server) /\ Current(c).seq = seen[c] + 1
      /\ seen'[c] = seen[c] + 1 /\ seen'[c] <= server.lastSeq
      /\ Len(queue'[c]) = Len(queue[c]) - 1 /\ Len(queue[c]) \in Nat
      /\ \A i \in 1..Len(queue'[c]) : queue'[c][i] \in Log(server) /\ queue'[c][i].seq = seen'[c] + i
      /\ \A e : Missing(c, e)' <=> Missing(c, e) /\ e # Current(c)
  BY <1>1, <1>2, <1>3, <1>4, TakesOne
<1> QED BY <1>1, <1>6, <1>7

\* What is passed over tells c nothing.
LEMMA SkipMirrors ==
  ASSUME NEW N, ServerGood(N), Engines(N), NEW c \in Device, Mirrors(c), SkipEvent(c)
  PROVE  Mirrors(c)'
<1>1. /\ at[c] = "pull" /\ queue[c] # <<>> /\ MarkSeen(c)
      /\ UNCHANGED <<server, fresh, known, at, reply>>
  BY DEF SkipEvent, store
<1>2. /\ Current(c) \in Log(server) /\ Current(c).seq = seen[c] + 1
      /\ seen'[c] = seen[c] + 1 /\ seen'[c] <= server.lastSeq
      /\ Len(queue'[c]) = Len(queue[c]) - 1 /\ Len(queue[c]) \in Nat
      /\ \A i \in 1..Len(queue'[c]) : queue'[c][i] \in Log(server) /\ queue'[c][i].seq = seen'[c] + i
      /\ \A e : Missing(c, e)' <=> Missing(c, e) /\ e # Current(c)
      /\ seen[c] \in Nat
  BY <1>1, MarksOne
<1>3. ~Missing(c, Current(c))
  BY <1>2 DEF Mirrors, KnownIsSeen, Missing, SkipEvent, Target
<1>4. /\ \A e : Missing(c, e)' <=> Missing(c, e)
      /\ \A p : Behind(c, p)' <=> Behind(c, p)
  <2>1. \A e : Missing(c, e)' <=> Missing(c, e)
    BY <1>2, <1>3
  <2> QED BY <1>1, <2>1 DEF Behind
<1>5. InOrder(c)'
  BY <1>1, <1>2 DEF InOrder, Pulls
<1>6. Applying(c)' /\ Answers(c)'
  BY <1>1 DEF Applying, Answers
<1>7. Own(c)' /\ KnownIsSeen(c)' /\ Told(c)'
  BY <1>1, <1>4 DEF Mirrors, Own, KnownIsSeen, Told
<1>8. Heads(c)'
  <2>1. seen'[c] + Len(queue'[c]) = seen[c] + Len(queue[c])
    BY <1>2
  <2> QED BY <1>1, <2>1 DEF Mirrors, Heads
<1>9. Agree(c)'
  BY <1>1, <1>4 DEF Mirrors, Agree, Asked
<1> QED BY <1>5, <1>6, <1>7, <1>8, <1>9 DEF Mirrors

\* What is recorded is the last that happened at its path, or more is missing there.
LEMMA SettleMirrors ==
  ASSUME NEW N, ServerGood(N), Engines(N), Telling(server), NEW c \in Device, Mirrors(c), Settle(c)
  PROVE  Mirrors(c)'
<1>0. PICK e0 : e0 = Current(c)
  OBVIOUS
<1> DEFINE t == e0.version
<1>1. /\ at[c] = "settle" /\ at'[c] = "pull" /\ queue[c] # <<>> /\ MarkSeen(c)
      /\ UNCHANGED <<server, fresh, reply>>
      /\ SetKnown(c, t.path, StateOf(t))
  BY <1>0 DEF Settle, store, Engines, Shaped, MidRound, HasTarget, Go, Target
<1>2. /\ e0 \in Log(server) /\ e0.seq = seen[c] + 1
      /\ seen'[c] = seen[c] + 1 /\ seen'[c] <= server.lastSeq
      /\ Len(queue'[c]) = Len(queue[c]) - 1 /\ Len(queue[c]) \in Nat
      /\ \A i \in 1..Len(queue'[c]) : queue'[c][i] \in Log(server) /\ queue'[c][i].seq = seen'[c] + i
      /\ \A e : Missing(c, e)' <=> Missing(c, e) /\ e # e0
      /\ \A e \in Log(server) : e.seq \in Nat /\ e.version.path \in Path
      /\ seen[c] \in Nat
  BY <1>0, <1>1, MarksOne
<1>3. /\ t \in server.versions /\ t \in Version /\ t.path \in Path
      /\ t.device # c /\ Missing(c, e0)
  <2>1. t \in server.versions
    BY <1>2, InHistory DEF Telling
  <2>2. t \in Version /\ t.path \in Path
    BY <2>1 DEF ServerGood, Sound, Metadata, Version
  <2>3. t.device # c
    BY <1>0, <1>1 DEF Mirrors, Applying, Target
  <2> QED BY <1>2, <2>1, <2>2, <2>3 DEF Missing
<1>4. /\ StateOf(t).id = t.id /\ StateOf(t).state = t.state /\ StateOf(t).content = t.content
      /\ StateOf(t) # NoState
  BY <1>3, StateIsTyped, StateAssumption DEF StateOf
<1>5. /\ known'[c][t.path] = StateOf(t)
      /\ \A p \in Path : p # t.path => known'[c][p] = known[c][p]
  <2>1. known' = [known EXCEPT ![c][t.path] = StateOf(t)]
    BY <1>1 DEF SetKnown
  <2>2. known[c] \in [Path -> LocalState \cup {NoState}] /\ DOMAIN known = Device
    BY DEF Engines, Shaped
  <2> HIDE DEF t
  <2> QED BY <1>3, <2>1, <2>2
<1> HIDE DEF t, StateOf
<1>6. InOrder(c)'
  BY <1>1, <1>2 DEF InOrder, Pulls
<1>7. Applying(c)' /\ Answers(c)'
  BY <1>1 DEF Applying, Answers
<1>8. Own(c)'
  BY <1>1, <1>2 DEF Mirrors, Own
<1>9. KnownIsSeen(c)'
  <2> SUFFICES ASSUME NEW e \in Log(server), Missing(c, e), e # e0, known'[c][e.version.path] # NoState
               PROVE  known'[c][e.version.path].id # e.version.id
    BY <1>1, <1>2 DEF KnownIsSeen
  <2>1. CASE e.version.path = t.path
    BY <1>2, <1>4, <1>5, <2>1 DEF Telling, OneEach, t
  <2>2. CASE e.version.path # t.path
    BY <1>2, <1>5, <2>2 DEF Mirrors, KnownIsSeen
  <2> QED BY <2>1, <2>2
<1>10. Told(c)'
  <2>1. t.id < fresh
    BY <1>3 DEF ServerGood, Sound, Below
  <2> QED BY <1>1, <1>4, <1>5, <2>1 DEF Mirrors, Told
<1>11. Heads(c)'
  <2>1. /\ seen'[c] = seen[c] + 1 /\ seen[c] \in Nat
        /\ Len(queue'[c]) = Len(queue[c]) - 1 /\ Len(queue[c]) \in Nat
    BY <1>2
  <2>2. seen'[c] + Len(queue'[c]) = seen[c] + Len(queue[c])
    BY <2>1
  <2> QED BY <1>1, <2>2 DEF Mirrors, Heads
<1>12. Agree(c)'
  <2>1. ASSUME NEW p \in Path, p # t.path, ~Behind(c, p)'
        PROVE  Agrees(known[c][p], HeadAt(server, p))
    <3>1. ~Behind(c, p)
      BY <1>1, <1>2, <2>1 DEF Behind, t
    <3> QED BY <1>1, <3>1 DEF Mirrors, Agree, Asked
  <2>2. ASSUME ~Behind(c, t.path)'
        PROVE  Agrees(StateOf(t), HeadAt(server, t.path))
    <3>1. ASSUME NEW f \in Log(server), f.version.path = e0.version.path PROVE f.seq <= e0.seq
      <4>1. CASE f.version.device = c
        BY <1>2, <1>3, <3>1, <4>1 DEF Mirrors, Own
      <4>2. CASE f.version.device # c
        <5>1. ~Missing(c, f) \/ f = e0
          BY <1>1, <1>2, <2>2, <3>1 DEF Behind, t
        <5> QED BY <1>2, <4>2, <5>1 DEF Missing
      <4> QED BY <4>1, <4>2
    <3>2. server \in Metadata /\ Window(server) /\ Consistent(server)
      BY DEF ServerGood, Sound, Telling
    <3>3. \/ HeadAt(server, t.path) = t
          \/ HeadAt(server, t.path) = NoVersion /\ t.state = "deleted"
      BY <1>2, <3>1, <3>2, LastTells DEF t
    <3>4. t # NoVersion
      BY <1>3, NullAssumption
    <3> QED BY <1>4, <3>3, <3>4 DEF Agrees
  <2> QED BY <1>1, <1>5, <2>1, <2>2 DEF Agree
<1> QED BY <1>6, <1>7, <1>8, <1>9, <1>10, <1>11, <1>12 DEF Mirrors

-----------------------------------------------------------------------------
(* Mirrors: steps that tell c nothing.                                     *)

\* The server shows nothing new, and c's state file stays.
Stays(N, c) ==
  /\ ServerGood(N) /\ Engines(N) /\ Mirrors(c)
  /\ Quiet(server, server') /\ fresh' \in Nat /\ fresh <= fresh'
  /\ known'[c] = known[c] /\ seen'[c] = seen[c]

LEMMA StaysTyped ==
  ASSUME NEW N, NEW c \in Device, Stays(N, c)
  PROVE  /\ server.versions \subseteq Version /\ fresh \in Nat
         /\ known[c] \in [Path -> LocalState \cup {NoState}]
         /\ \A e \in Log(server) : e.version.path \in Path
<1>1. server \in Metadata /\ Window(server) /\ fresh \in Nat
  BY DEF Stays, ServerGood, Sound
<1>2. \A e \in Log(server) : e \in Event
  BY <1>1, LogRange
<1>3. \A e \in Event : e.version.path \in Path
  BY DEF Event, Version
<1>4. known[c] \in [Path -> LocalState \cup {NoState}]
  BY DEF Stays, Engines, Shaped
<1> QED BY <1>1, <1>2, <1>3, <1>4 DEF Metadata

\* c stands still.
LEMMA StillMirrors ==
  ASSUME NEW N, NEW c \in Device, Stays(N, c),
         at'[c] = at[c], queue'[c] = queue[c], reply'[c] = reply[c]
  PROVE  Mirrors(c)'
<1>1. /\ server.versions \subseteq Version /\ fresh \in Nat
      /\ known[c] \in [Path -> LocalState \cup {NoState}]
      /\ \A e \in Log(server) : e.version.path \in Path
  BY StaysTyped
<1>2. /\ Mirrors(c) /\ Quiet(server, server') /\ fresh' \in Nat /\ fresh <= fresh'
      /\ known'[c] = known[c] /\ seen'[c] = seen[c]
  BY DEF Stays
<1>3. Applying(c)'
  BY <1>2 DEF Mirrors, Applying, Target, Current
<1>4. Answers(c)'
  <2> SUFFICES ASSUME at[c] = "answer" PROVE Answers(c)'
    BY DEF Answers
  <2> DEFINE w == reply[c].reply.version
  <2>1. /\ server'.versions = server.versions
        /\ \A p \in Path : HeadAt(server', p) = HeadAt(server, p)
        /\ \A p : Behind(c, p)' <=> Behind(c, p)
    BY <1>2, QuietBehind DEF Quiet
  <2>2. reply[c].reply.status = "ok" =>
          /\ w \in server'.versions /\ w.device = c
          /\ reply[c].kind = "drop" => w.state = "deleted" /\ w.path = reply[c].path
          /\ w.path # reply[c].path => Behind(c, reply[c].path)'
    BY <1>2, <2>1 DEF Mirrors, Answers
  <2>3. reply[c].reply.status = "ok" => Behind(c, w.path)' \/ Held(w, HeadAt(server', w.path))
    <3>1. w \in server.versions => w.path \in Path
      BY <1>1 DEF Version
    <3> QED BY <1>2, <2>1, <3>1 DEF Mirrors, Answers
  <2>4. reply[c].kind = "push" => reply[c].reply.status = "ok"
    BY <1>2 DEF Mirrors, Answers
  <2> HIDE DEF w
  <2> QED BY <2>2, <2>3, <2>4 DEF Answers, w
<1>5. \A p \in Path : Asked(c, p) => Asked(c, p)'
  BY DEF Asked
<1>6. at'[c] \in Pulls \/ queue'[c] = <<>>
  BY <1>2 DEF Mirrors, InOrder
<1> QED BY <1>1, <1>2, <1>3, <1>4, <1>5, <1>6, QuietMirrors

\* c ends its round.
LEMMA EndMirrors ==
  ASSUME NEW N, NEW c \in Device, Stays(N, c), at[c] # "answer",
         at'[c] = "idle", queue'[c] = <<>>
  PROVE  Mirrors(c)'
<1>1. /\ server.versions \subseteq Version /\ fresh \in Nat
      /\ known[c] \in [Path -> LocalState \cup {NoState}]
      /\ \A e \in Log(server) : e.version.path \in Path
  BY StaysTyped
<1>2. Applying(c)' /\ Answers(c)' /\ \A p \in Path : Asked(c, p) => Asked(c, p)'
  BY DEF Applying, Answers, Asked
<1> QED BY <1>1, <1>2, QuietMirrors DEF Stays

\* c goes on.
LEMMA WalkMirrors ==
  ASSUME NEW N, NEW c \in Device, Stays(N, c), at[c] \notin {"answer", "idle"},
         queue'[c] = queue[c],
         \/ at'[c] \notin {"answer", "idle"}
         \/ at'[c] = "answer" /\ reply'[c].kind = "drop" /\ reply'[c].reply.status = "conflict",
         at'[c] \in Pulls \/ at[c] \notin Pulls \/ queue[c] = <<>>,
         at'[c] \in {"land", "verify", "settle"} =>
           Target(c).device # c \/ at[c] \in {"land", "verify", "settle"}
  PROVE  Mirrors(c)'
<1>1. /\ server.versions \subseteq Version /\ fresh \in Nat
      /\ known[c] \in [Path -> LocalState \cup {NoState}]
      /\ \A e \in Log(server) : e.version.path \in Path
  BY StaysTyped
<1>2. /\ Mirrors(c) /\ Quiet(server, server') /\ fresh' \in Nat /\ fresh <= fresh'
      /\ known'[c] = known[c] /\ seen'[c] = seen[c]
  BY DEF Stays
<1>3. Applying(c)'
  BY <1>2 DEF Mirrors, Applying, Target, Current
<1>4. Answers(c)' /\ \A p \in Path : Asked(c, p) => Asked(c, p)'
  BY DEF Answers, Asked
<1>5. at'[c] \in Pulls \/ queue'[c] = <<>>
  BY <1>2 DEF Mirrors, InOrder
<1>6. at[c] # "idle"
  OBVIOUS
<1> QED BY <1>1, <1>2, <1>3, <1>4, <1>5, <1>6, QuietMirrors

-----------------------------------------------------------------------------
(* Mirrors: answers.                                                       *)

\* An answer is recorded where its version is, and at most forgotten elsewhere.
LEMMA RecordedMirrors ==
  ASSUME NEW N, ServerGood(N), Telling(server), NEW c \in Device, Mirrors(c),
         UNCHANGED <<server, fresh>>, seen'[c] = seen[c], queue'[c] = queue[c],
         at[c] = "answer", at'[c] \in {"push", "drop"}, reply[c].reply.status = "ok",
         NEW v, v = reply[c].reply.version,
         known'[c][v.path] # NoState, known'[c][v.path].id = v.id, known'[c][v.path].state = v.state,
         v.state = "file" => known'[c][v.path].content = v.content,
         \A p \in Path : p # v.path =>
           known'[c][p] = known[c][p] \/ (known'[c][p] = NoState /\ Behind(c, p))
  PROVE  Mirrors(c)'
<1>1. /\ \A e : Missing(c, e)' <=> Missing(c, e)
      /\ \A p : Behind(c, p)' <=> Behind(c, p)
  BY DEF Missing, Behind
<1>2. /\ v \in server.versions /\ v.device = c
      /\ Behind(c, v.path) \/ Held(v, HeadAt(server, v.path))
  BY DEF Mirrors, Answers
<1>3. /\ v \in Version /\ v.path \in Path /\ v # NoVersion
      /\ v.id < fresh /\ server \in Metadata /\ Window(server)
  BY <1>2, NullAssumption DEF ServerGood, Sound, Below, Metadata, Version
<1>4. \A e \in Log(server) : e.version.path \in Path
  <2>1. \A e \in Log(server) : e \in Event
    BY <1>3, LogRange
  <2> QED BY <2>1 DEF Event, Version
<1>5. InOrder(c)' /\ Applying(c)' /\ Answers(c)'
  BY DEF Mirrors, InOrder, Applying, Answers, Pulls
<1>6. Own(c)' /\ Heads(c)'
  BY <1>1 DEF Mirrors, Own, Heads
<1>7. KnownIsSeen(c)'
  <2> SUFFICES ASSUME NEW e \in Log(server), Missing(c, e), known'[c][e.version.path] # NoState
               PROVE  known'[c][e.version.path].id # e.version.id
    BY <1>1 DEF KnownIsSeen
  <2>1. CASE e.version.path = v.path
    <3>1. e.version # v
      BY <1>2 DEF Missing
    <3>2. e.version \in server.versions
      BY InHistory DEF Telling
    <3> QED BY <1>2, <2>1, <3>1, <3>2 DEF ServerGood, Sound, Numbered
  <2>2. CASE e.version.path # v.path
    BY <1>4, <2>2 DEF Mirrors, KnownIsSeen
  <2> QED BY <2>1, <2>2
<1>8. Told(c)'
  BY <1>3 DEF Mirrors, Told
<1>9. Agree(c)'
  <2>1. ASSUME NEW p \in Path, p # v.path, ~Behind(c, p)
        PROVE  Agrees(known'[c][p], HeadAt(server, p))
    <3>1. known'[c][p] = known[c][p] /\ ~Asked(c, p)
      BY <2>1 DEF Asked
    <3> QED BY <2>1, <3>1 DEF Mirrors, Agree
  <2>2. ~Behind(c, v.path) => Agrees(known'[c][v.path], HeadAt(server, v.path))
    BY <1>2, <1>3 DEF Agrees, Held
  <2> QED BY <1>1, <2>1, <2>2 DEF Agree
<1> QED BY <1>5, <1>6, <1>7, <1>8, <1>9 DEF Mirrors

\* What uploadFile notes: the version under its name, and its old name no more.
LEMMA RecordUploadMirrors ==
  ASSUME NEW N, ServerGood(N), Engines(N), Telling(server), NEW c \in Device, Mirrors(c),
         RecordUpload(c), at'[c] # "idle"
  PROVE  Mirrors(c)'
<1>0. PICK v : v = reply[c].reply.version
  OBVIOUS
<1>1. PICK p : p = reply[c].path
  OBVIOUS
<1> DEFINE renamed == v.path # p /\ scan[c][p] # DirNode
           noted == [q \in Path |-> IF q = v.path THEN StateOf(v)
                                    ELSE IF renamed /\ q = p THEN NoState
                                    ELSE known[c][q]]
<1>2. at[c] = "answer" /\ reply[c].kind = "push" /\ UNCHANGED <<server, fresh>>
  BY DEF RecordUpload, store
<1>3. at \in [Device -> TransferPlaces] /\ DOMAIN known = Device
  BY DEF Engines, Shaped
<1>4. ~(renamed /\ files[c][p] = NoFile)
  <2> SUFFICES ASSUME renamed /\ files[c][p] = NoFile PROVE EndRound(c)
    BY <1>3 DEF EndRound, Go
  <2> QED BY <1>0, <1>1 DEF RecordUpload
<1>5. /\ known' = [known EXCEPT ![c] = noted]
      /\ at' = [at EXCEPT ![c] = "push"] /\ UNCHANGED <<seen, queue>>
  BY <1>0, <1>1, <1>4 DEF RecordUpload, Go
<1> HIDE DEF noted
<1>6. known'[c] = noted /\ at'[c] = "push"
  BY <1>3, <1>5
<1> USE DEF noted
<1>7. /\ reply[c].reply.status = "ok"
      /\ v \in server.versions
      /\ v.path # p => Behind(c, p)
  BY <1>0, <1>1, <1>2 DEF Mirrors, Answers
<1>8. v \in Version /\ v.path \in Path
  <2>1. server.versions \subseteq Version
    BY DEF ServerGood, Sound, Metadata
  <2> QED BY <1>7, <2>1 DEF Version
<1>9. /\ StateOf(v).id = v.id /\ StateOf(v).state = v.state /\ StateOf(v).content = v.content
      /\ StateOf(v) # NoState
  BY <1>8, StateIsTyped, StateAssumption DEF StateOf
<1> HIDE DEF StateOf
<1>10. known'[c][v.path] = StateOf(v)
  BY <1>6, <1>8
<1>11. \A q \in Path : q # v.path =>
         known'[c][q] = known[c][q] \/ (known'[c][q] = NoState /\ Behind(c, q))
  <2> TAKE q \in Path
  <2> HAVE q # v.path
  <2>1. known'[c][q] = IF renamed /\ q = p THEN NoState ELSE known[c][q]
    BY <1>6
  <2> QED BY <1>7, <2>1
<1> HIDE DEF noted, renamed
<1> QED BY <1>0, <1>2, <1>5, <1>6, <1>7, <1>9, <1>10, <1>11, RecordedMirrors

\* What deleteRemote notes, if it was told so.
LEMMA RecordDeleteMirrors ==
  ASSUME NEW N, ServerGood(N), Engines(N), Telling(server), NEW c \in Device, Mirrors(c),
         RecordDelete(c)
  PROVE  Mirrors(c)'
<1>0. PICK v : v = reply[c].reply.version
  OBVIOUS
<1>1. PICK p : p = reply[c].path
  OBVIOUS
<1>2. /\ at[c] = "answer" /\ reply[c].kind = "drop" /\ at'[c] = "drop"
      /\ UNCHANGED <<server, fresh, seen, queue>>
  BY DEF RecordDelete, store, Go, Engines, Shaped
<1>3. p \in Path /\ reply[c] \in Answer
  BY <1>1, <1>2 DEF Engines, MidRound, HasAnswer, Answer
<1>4. CASE reply[c].reply.status = "ok"
  <2> DEFINE gone == [fileID |-> known[c][p].fileID, id |-> v.id, state |-> "deleted",
                      was |-> known[c][p].state, content |-> NoContent]
  <2>1. v \in server.versions /\ v.state = "deleted" /\ v.path = p
    BY <1>0, <1>1, <1>2, <1>4 DEF Mirrors, Answers
  <2>2. known' = [known EXCEPT ![c][p] = gone]
    BY <1>0, <1>1, <1>4 DEF RecordDelete, SetKnown
  <2>3. gone \in LocalState
    <3>1. Live(known[c], p) /\ v \in Version
      BY <1>0, <1>1, <1>2, <1>4 DEF Engines, MidRound, HasAnswer
    <3> QED BY <3>1 DEF Live, LocalState, Version
  <2>4. gone.id = v.id /\ gone.state = "deleted" /\ gone # NoState
    BY <2>3, StateAssumption
  <2> HIDE DEF gone
  <2>5. known'[c][p] = gone /\ \A q \in Path : q # p => known'[c][q] = known[c][q]
    BY <1>3, <2>2 DEF Engines, Shaped
  <2> QED BY <1>0, <1>2, <1>4, <2>1, <2>4, <2>5, RecordedMirrors
<1>5. CASE reply[c].reply.status # "ok"
  <2>1. UNCHANGED known
    BY <1>5 DEF RecordDelete
  <2>2. /\ \A e : Missing(c, e)' <=> Missing(c, e)
        /\ \A q : Behind(c, q)' <=> Behind(c, q)
    BY <1>2 DEF Missing, Behind
  <2>3. InOrder(c)' /\ Applying(c)' /\ Answers(c)'
    BY <1>2 DEF Mirrors, InOrder, Applying, Answers, Pulls
  <2>4. Own(c)' /\ Heads(c)' /\ KnownIsSeen(c)' /\ Told(c)'
    BY <1>2, <2>1, <2>2 DEF Mirrors, Own, Heads, KnownIsSeen, Told
  <2>5. Agree(c)'
    BY <1>2, <1>5, <2>1, <2>2 DEF Mirrors, Agree, Asked
  <2> QED BY <2>3, <2>4, <2>5 DEF Mirrors
<1> QED BY <1>4, <1>5

-----------------------------------------------------------------------------
(* Mirrors: versions that come.                                            *)

\* No device is further behind than the log goes back.
Within == \A c \in Device : server.lastSeq <= seen[c] + MaxEvents

LEMMA AddsHere ==
  ASSUME NEW N, ServerGood(N), ServerGood(N)', Engines(N), Telling(server), Within',
         NEW c \in Device, Mirrors(c), fresh <= fresh',
         NEW v, Appends(server, server', v), fresh <= v.id,
         known'[c] = known[c], seen'[c] = seen[c]
  PROVE  Adds(v, c)
<1>1. /\ Sound(server, fresh, fresh) /\ fresh \in Nat \ {0}
      /\ Sound(server', fresh', fresh') /\ fresh' \in Nat
  <2>1. (Sound(server, fresh, fresh) /\ fresh \in Nat)'
    BY DEF ServerGood
  <2>2. Sound(server', fresh', fresh') /\ fresh' \in Nat
    BY <2>1 DEF Sound, Window, Below, Numbered, Headed, Chained
  <2> QED BY <2>2 DEF ServerGood
<1>2. server'.lastSeq <= seen'[c] + MaxEvents
  BY DEF Within
<1>3. /\ seen[c] \in Nat /\ seen[c] <= server.lastSeq
      /\ known[c] \in [Path -> LocalState \cup {NoState}]
  BY DEF Engines, Shaped, Mirrors, InOrder
<1> QED BY <1>1, <1>2, <1>3 DEF Adds

\* The others see it later.
LEMMA OneAdded ==
  ASSUME NEW N, ServerGood(N), ServerGood(N)', Engines(N), Telling(server), Within',
         NEW c \in Device, Mirrors(c), fresh <= fresh',
         NEW v, Appends(server, server', v), fresh <= v.id, v.device # c,
         known'[c] = known[c], seen'[c] = seen[c],
         at'[c] = at[c], queue'[c] = queue[c], reply'[c] = reply[c]
  PROVE  Mirrors(c)'
<1>1. Adds(v, c)
  BY AddsHere
<1>2. \A i \in 1..Len(queue[c]) : queue[c][i].seq > seen[c]
  <2>1. seen[c] \in Nat
    BY DEF Engines, Shaped
  <2> QED BY <2>1 DEF Mirrors, InOrder
<1> QED BY <1>1, <1>2, OthersMirror

\* The server goes on telling it.
LEMMA TellsOn ==
  ASSUME NEW N, ServerGood(N), ServerGood(N)', Telling(server),
         NEW v, Appends(server, server', v), fresh <= v.id
  PROVE  Telling(server')
<1>1. server \in Metadata /\ Window(server) /\ fresh \in Nat \ {0}
  BY DEF ServerGood, Sound
<1>2. server' \in Metadata /\ Window(server')
  <2>1. Sound(server', fresh', fresh')
    BY DEF ServerGood, Sound, Window, Below, Numbered, Headed, Chained
  <2> QED BY <2>1 DEF Sound
<1>3. v.id \in Nat
  BY DEF Appends, OnTop, Version
<1>4. v.id # NoId
  BY <1>1, <1>3 DEF NoId
<1> QED BY <1>1, <1>2, <1>4, AppendsTells

\* A file that is sent: one version of the sender's, or a refusal.
LEMMA UploadEnds ==
  ASSUME NEW N, ServerGood(N), Engines(N), NEW c \in Device, NEW p \in Path,
         at[c] \in {"push", "commit"}, p \in todo[c], Parent[p] = NoPath,
         scan[c][p] # DirNode, SendUpload(c, p)
  PROVE  LET h == HeadAt(server, p)
             base == FieldOf(c, p, "id")
         IN  /\ fresh <= fresh' /\ \A d \in Device \ {c} :
                  at'[d] = at[d] /\ queue'[d] = queue[d] /\ reply'[d] = reply[d]
             /\ \/ Quiet(server, server') /\ at'[c] = "idle" /\ queue'[c] = <<>>
                \/ \E v :
                     /\ Appends(server, server', v) /\ fresh <= v.id /\ v.device = c
                     /\ at'[c] = "answer" /\ queue'[c] = queue[c]
                     /\ reply'[c].path = p /\ reply'[c].kind = "push"
                     /\ reply'[c].reply.status = "ok" /\ reply'[c].reply.version = v
                     /\ \/ v.path = p /\ (h # NoVersion => base = h.id)
                        \/ /\ v.path # p /\ h # NoVersion /\ base # h.id
                           /\ \A w \in server.versions : w.path # v.path
<1> DEFINE r == RequestFor(c, p, "file")
           h == HeadAt(server, p)
<1>0. /\ Sound(server, fresh, fresh) /\ Holds(server, N)
      /\ fresh \in Nat /\ fresh + 1 \in Nat
  BY DEF ServerGood
<1>1. scan[c][p] \in Content
  BY DEF Engines, MidRound, Uploads
<1>2. /\ r \in Request /\ r.kind = "file" /\ r.path = p
      /\ r.base = FieldOf(c, p, "id") /\ r.device = c
  <2>1. r \in Request /\ r.kind = "file" /\ r.path = p
    BY <1>1, RequestIsTyped DEF Engines
  <2>2. r.base = FieldOf(c, p, "id") /\ r.device = c
    BY DEF RequestFor
  <2> QED BY <2>1, <2>2
<1>3. PICK m \in EnsureParent(server, r, fresh) :
        \E done \in CommitEntry(m, r, fresh + 1) :
          /\ server' = done.meta
          /\ fresh' = IF done.meta = server THEN fresh ELSE fresh + 2
          /\ IF done.ok THEN Answered(c, p, "push", done.reply) ELSE EndRound(c)
  BY DEF SendUpload
<1> HIDE DEF r
<1>4. m = server
  BY <1>2, <1>3 DEF EnsureParent
<1>5. PICK done \in CommitEntry(server, r, fresh + 1) :
          /\ server' = done.meta
          /\ fresh' = IF done.meta = server THEN fresh ELSE fresh + 2
          /\ IF done.ok THEN Answered(c, p, "push", done.reply) ELSE EndRound(c)
  BY <1>3, <1>4
<1>6. Sound(server, fresh + 1, fresh + 1)
  BY <1>0, SoundGrows
<1>7. CommitResult(server, r, fresh + 1, done)
  BY <1>0, <1>2, <1>6, CommitEnds
<1>8. /\ at \in [Device -> TransferPlaces] /\ DOMAIN queue = Device /\ DOMAIN reply = Device
  BY DEF Engines, Shaped
<1>9. /\ fresh <= fresh'
      /\ \A d \in Device \ {c} : at'[d] = at[d] /\ queue'[d] = queue[d] /\ reply'[d] = reply[d]
  <2>1. fresh <= fresh'
    BY <1>0, <1>5
  <2>2. CASE EndRound(c)
    BY <1>8, <2>1, <2>2 DEF EndRound, Go
  <2>3. CASE Answered(c, p, "push", done.reply)
    BY <1>8, <2>1, <2>3 DEF Answered, Go
  <2> QED BY <1>5, <2>2, <2>3
<1>10. CASE Quiet(server, done.meta) /\ (done.ok => r.kind = "dir")
  <2>1. Quiet(server, server') /\ EndRound(c)
    BY <1>2, <1>5, <1>10
  <2>2. at'[c] = "idle" /\ queue'[c] = <<>>
    BY <1>8, <2>1 DEF EndRound, Go
  <2> QED BY <1>9, <2>1, <2>2
<1>11. CASE ~(Quiet(server, done.meta) /\ (done.ok => r.kind = "dir"))
  <2> DEFINE v == done.reply.version
  <2>1. /\ done.ok /\ done.reply.status = "ok" /\ Appends(server, done.meta, v)
        /\ v.id = fresh + 1 /\ v.device = c
        /\ \/ v.path = p /\ (h # NoVersion => FieldOf(c, p, "id") = h.id)
           \/ /\ v.path # p /\ h # NoVersion /\ FieldOf(c, p, "id") # h.id
              /\ \A w \in server.versions : w.path # v.path
    BY <1>2, <1>7, <1>11 DEF CommitResult
  <2>2. Answered(c, p, "push", done.reply)
    BY <1>5, <2>1
  <2>3. at'[c] = "answer" /\ queue'[c] = queue[c]
        /\ reply'[c] = [path |-> p, kind |-> "push", reply |-> done.reply]
    BY <1>8, <2>2 DEF Answered, Go
  <2>4. fresh <= v.id
    BY <1>0, <2>1
  <2>5. Appends(server, server', v)
    BY <1>5, <2>1
  <2>6. /\ reply'[c].path = p /\ reply'[c].kind = "push"
        /\ reply'[c].reply.status = "ok" /\ reply'[c].reply.version = v
    BY <2>1, <2>3
  <2> HIDE DEF v, h
  <2> QED BY <1>9, <2>1, <2>3, <2>4, <2>5, <2>6 DEF h
<1> QED BY <1>10, <1>11

LEMMA UploadMirrors ==
  ASSUME NEW N, ServerGood(N), ServerGood(N)', Engines(N), Telling(server), Within',
         \A d \in Device : Mirrors(d),
         NEW c \in Device, NEW p \in Path,
         at[c] \in {"push", "commit"}, p \in todo[c], Parent[p] = NoPath,
         scan[c][p] # DirNode, SendUpload(c, p), UNCHANGED <<known, seen>>
  PROVE  /\ \A d \in Device : Mirrors(d)'
         /\ Telling(server')
<1> DEFINE h == HeadAt(server, p)
           base == FieldOf(c, p, "id")
<1>1. /\ fresh <= fresh' /\ \A d \in Device \ {c} :
           at'[d] = at[d] /\ queue'[d] = queue[d] /\ reply'[d] = reply[d]
      /\ \/ Quiet(server, server') /\ at'[c] = "idle" /\ queue'[c] = <<>>
         \/ \E v :
              /\ Appends(server, server', v) /\ fresh <= v.id /\ v.device = c
              /\ at'[c] = "answer" /\ queue'[c] = queue[c]
              /\ reply'[c].path = p /\ reply'[c].kind = "push"
              /\ reply'[c].reply.status = "ok" /\ reply'[c].reply.version = v
              /\ \/ v.path = p /\ (h # NoVersion => base = h.id)
                 \/ /\ v.path # p /\ h # NoVersion /\ base # h.id
                    /\ \A w \in server.versions : w.path # v.path
  BY UploadEnds
<1>2. /\ Sound(server, fresh, fresh) /\ fresh' \in Nat
      /\ at[c] \notin {"idle", "answer"} /\ queue[c] = <<>> /\ seen[c] \in Nat
  BY DEF ServerGood, Engines, Shaped, Mirrors, InOrder, Pulls
<1>3. CASE Quiet(server, server') /\ at'[c] = "idle" /\ queue'[c] = <<>>
  <2>1. \A d \in Device : Stays(N, d)
    BY <1>1, <1>2, <1>3 DEF Stays
  <2>2. Mirrors(c)'
    BY <1>2, <1>3, <2>1, EndMirrors
  <2>3. ASSUME NEW d \in Device, d # c PROVE Mirrors(d)'
    BY <1>1, <2>1, <2>3, StillMirrors
  <2>4. Telling(server')
    BY <1>3, SameLogTells
  <2> QED BY <2>2, <2>3, <2>4
<1>4. ASSUME NEW v,
             /\ Appends(server, server', v) /\ fresh <= v.id /\ v.device = c
             /\ at'[c] = "answer" /\ queue'[c] = queue[c]
             /\ reply'[c].path = p /\ reply'[c].kind = "push"
             /\ reply'[c].reply.status = "ok" /\ reply'[c].reply.version = v
             /\ \/ v.path = p /\ (h # NoVersion => base = h.id)
                \/ /\ v.path # p /\ h # NoVersion /\ base # h.id
                   /\ \A w \in server.versions : w.path # v.path
      PROVE  (\A d \in Device : Mirrors(d)') /\ Telling(server')
  <2>1. Adds(v, c)
    BY <1>1, <1>4, AddsHere
  <2>2. /\ (h # NoVersion => base = h.id) => ~Behind(c, p)
        /\ h # NoVersion /\ base # h.id => Behind(c, p)
    BY <1>2, BaseTells
  <2>3. ~Behind(c, v.path)
    <3>1. CASE v.path = p
      BY <1>4, <2>2, <3>1
    <3>2. CASE \A w \in server.versions : w.path # v.path
      BY <3>2, InHistory DEF Behind, Telling
    <3> QED BY <1>4, <3>1, <3>2
  <2>4. v.path # p => Behind(c, p)
    BY <1>4, <2>2
  <2>5. Mirrors(c)'
    BY <1>2, <1>4, <2>1, <2>3, <2>4, OwnMirrors
  <2>6. ASSUME NEW d \in Device, d # c PROVE Mirrors(d)'
    BY <1>1, <1>4, <2>6, OneAdded
  <2>7. Telling(server')
    BY <1>4, TellsOn
  <2> QED BY <2>5, <2>6, <2>7
<1> QED BY <1>1, <1>3, <1>4

-----------------------------------------------------------------------------
(* Mirrors: tombstones.                                                    *)

LEMMA DeleteEndsRound ==
  ASSUME NEW N, ServerGood(N), Engines(N), NEW c \in Device, NEW p \in Path, DeleteRemote(c, p)
  PROVE  LET h == HeadAt(server, p)
             base == FieldOf(c, p, "id")
         IN  /\ fresh <= fresh' /\ \A d \in Device \ {c} :
                  at'[d] = at[d] /\ queue'[d] = queue[d] /\ reply'[d] = reply[d]
             /\ UNCHANGED <<known, seen>> /\ at[c] = "drop"
             /\ \/ server' = server /\ at'[c] = "idle" /\ queue'[c] = <<>>
                \/ /\ server' = server /\ at'[c] = "answer" /\ queue'[c] = queue[c]
                   /\ reply'[c].kind = "drop" /\ reply'[c].reply.status = "conflict"
                \/ h # NoVersion /\ base = h.id /\ h.state = "deleted"
                \/ \E v :
                     /\ Appends(server, server', v) /\ fresh <= v.id /\ v.device = c
                     /\ v.state = "deleted" /\ v.path = p
                     /\ at'[c] = "answer" /\ queue'[c] = queue[c]
                     /\ reply'[c].path = p /\ reply'[c].kind = "drop"
                     /\ reply'[c].reply.status = "ok" /\ reply'[c].reply.version = v
                     /\ (h # NoVersion => base = h.id)
<1> DEFINE r == RequestFor(c, p, "delete")
           h == HeadAt(server, p)
           done == DeleteEntry(server, r, fresh)
<1>0. Sound(server, fresh, fresh) /\ fresh \in Nat
  BY DEF ServerGood
<1>1. /\ r \in Request /\ r.kind = "delete" /\ r.path = p
      /\ r.base = FieldOf(c, p, "id") /\ r.device = c
  <2>1. r \in Request /\ r.kind = "delete" /\ r.path = p
    BY RequestIsTyped DEF Engines
  <2>2. r.base = FieldOf(c, p, "id") /\ r.device = c
    BY DEF RequestFor
  <2> QED BY <2>1, <2>2
<1>2. /\ at[c] = "drop" /\ UNCHANGED <<known, seen>>
      /\ server' = done.meta
      /\ fresh' = IF done.meta = server THEN fresh ELSE fresh + 1
      /\ IF done.ok THEN Answered(c, p, "drop", done.reply) ELSE EndRound(c)
  BY DEF DeleteRemote, local
<1> HIDE DEF r
<1>3. DeleteResult(server, r, fresh, done)
  BY <1>0, <1>1, DeleteEnds
<1> HIDE DEF done
<1>4. /\ at \in [Device -> TransferPlaces] /\ DOMAIN queue = Device /\ DOMAIN reply = Device
  BY DEF Engines, Shaped
<1>5. /\ fresh <= fresh'
      /\ \A d \in Device \ {c} : at'[d] = at[d] /\ queue'[d] = queue[d] /\ reply'[d] = reply[d]
  <2>1. fresh <= fresh'
    BY <1>0, <1>2
  <2>2. CASE EndRound(c)
    BY <1>4, <2>1, <2>2 DEF EndRound, Go
  <2>3. CASE Answered(c, p, "drop", done.reply)
    BY <1>4, <2>1, <2>3 DEF Answered, Go
  <2> QED BY <1>2, <2>2, <2>3
<1>6. CASE ~done.ok
  <2>1. server' = server /\ EndRound(c)
    BY <1>2, <1>3, <1>6 DEF DeleteResult
  <2>2. at'[c] = "idle" /\ queue'[c] = <<>>
    BY <1>4, <2>1 DEF EndRound, Go
  <2> QED BY <1>2, <1>5, <2>1, <2>2
<1>7. CASE done.ok
  <2> DEFINE v == done.reply.version
  <2>1. /\ at'[c] = "answer" /\ queue'[c] = queue[c]
        /\ reply'[c] = [path |-> p, kind |-> "drop", reply |-> done.reply]
    BY <1>2, <1>4, <1>7 DEF Answered, Go
  <2>2. /\ reply'[c].path = p /\ reply'[c].kind = "drop" /\ reply'[c].reply = done.reply
    BY <2>1
  <2>3. \/ server' = server /\ done.reply.status = "conflict"
        \/ h # NoVersion /\ FieldOf(c, p, "id") = h.id /\ h.state = "deleted"
        \/ /\ done.reply.status = "ok" /\ Appends(server, server', v)
           /\ v.id = fresh /\ v.device = c /\ v.state = "deleted" /\ v.path = p
           /\ (h # NoVersion => FieldOf(c, p, "id") = h.id)
    BY <1>1, <1>2, <1>3, <1>7 DEF DeleteResult
  <2>4. CASE server' = server /\ done.reply.status = "conflict"
    BY <1>2, <1>5, <2>1, <2>2, <2>4
  <2>5. CASE h # NoVersion /\ FieldOf(c, p, "id") = h.id /\ h.state = "deleted"
    BY <1>2, <1>5, <2>5
  <2>6. CASE /\ done.reply.status = "ok" /\ Appends(server, server', v)
             /\ v.id = fresh /\ v.device = c /\ v.state = "deleted" /\ v.path = p
             /\ (h # NoVersion => FieldOf(c, p, "id") = h.id)
    <3>1. fresh <= v.id /\ reply'[c].reply.version = v /\ reply'[c].reply.status = "ok"
      BY <1>0, <2>2, <2>6
    <3> HIDE DEF v, h
    <3> QED BY <1>2, <1>5, <2>1, <2>2, <2>6, <3>1 DEF h
  <2> QED BY <2>3, <2>4, <2>5, <2>6
<1> QED BY <1>6, <1>7

LEMMA DeleteMirrors ==
  ASSUME NEW N, ServerGood(N), ServerGood(N)', Engines(N), Telling(server), Within',
         \A d \in Device : Mirrors(d),
         NEW c \in Device, NEW p \in Path, DeleteRemote(c, p)
  PROVE  /\ \A d \in Device : Mirrors(d)'
         /\ Telling(server')
<1> DEFINE h == HeadAt(server, p)
           base == FieldOf(c, p, "id")
<1>1. /\ fresh <= fresh' /\ \A d \in Device \ {c} :
           at'[d] = at[d] /\ queue'[d] = queue[d] /\ reply'[d] = reply[d]
      /\ UNCHANGED <<known, seen>> /\ at[c] = "drop"
      /\ \/ server' = server /\ at'[c] = "idle" /\ queue'[c] = <<>>
         \/ /\ server' = server /\ at'[c] = "answer" /\ queue'[c] = queue[c]
            /\ reply'[c].kind = "drop" /\ reply'[c].reply.status = "conflict"
         \/ h # NoVersion /\ base = h.id /\ h.state = "deleted"
         \/ \E v :
              /\ Appends(server, server', v) /\ fresh <= v.id /\ v.device = c
              /\ v.state = "deleted" /\ v.path = p
              /\ at'[c] = "answer" /\ queue'[c] = queue[c]
              /\ reply'[c].path = p /\ reply'[c].kind = "drop"
              /\ reply'[c].reply.status = "ok" /\ reply'[c].reply.version = v
              /\ (h # NoVersion => base = h.id)
  BY DeleteEndsRound
<1>2. /\ Sound(server, fresh, fresh) /\ fresh' \in Nat /\ Live(known[c], p)
      /\ at[c] \notin {"idle", "answer"} /\ queue[c] = <<>> /\ seen[c] \in Nat
  <2>1. at[c] = "drop" /\ p \in todo[c]
    BY DEF DeleteRemote
  <2>2. Live(known[c], p)
    BY <2>1 DEF Engines, MidRound, Deletes
  <2> QED BY <2>1, <2>2 DEF ServerGood, Engines, Shaped, Mirrors, InOrder, Pulls
<1>3. ASSUME server' = server PROVE Quiet(server, server') /\ \A d \in Device : Stays(N, d)
  <2>1. Quiet(server, server')
    BY <1>3 DEF Quiet
  <2> QED BY <1>1, <1>2, <2>1 DEF Stays
<1>4. ASSUME server' = server, Mirrors(c)' PROVE \A d \in Device : Mirrors(d)'
  <2>1. ASSUME NEW d \in Device, d # c PROVE Mirrors(d)'
    BY <1>1, <1>3, <1>4, <2>1, StillMirrors
  <2> QED BY <1>4, <2>1
<1>5. CASE server' = server /\ at'[c] = "idle" /\ queue'[c] = <<>>
  <2>1. Mirrors(c)'
    BY <1>2, <1>3, <1>5, EndMirrors
  <2> QED BY <1>4, <1>5, <2>1
<1>6. CASE /\ server' = server /\ at'[c] = "answer" /\ queue'[c] = queue[c]
           /\ reply'[c].kind = "drop" /\ reply'[c].reply.status = "conflict"
  <2>1. Stays(N, c)
    BY <1>3, <1>6
  <2>2. Mirrors(c)'
    BY <1>2, <1>6, <2>1, WalkMirrors
  <2> QED BY <1>4, <1>6, <2>2
<1>7. ~(h # NoVersion /\ base = h.id /\ h.state = "deleted")
  <2>1. h # NoVersion /\ base = h.id => known[c][p].state = h.state
    BY <1>2, BaseTells
  <2> QED BY <1>2, <2>1 DEF Live
<1>8. ASSUME NEW v,
             /\ Appends(server, server', v) /\ fresh <= v.id /\ v.device = c
             /\ v.state = "deleted" /\ v.path = p
             /\ at'[c] = "answer" /\ queue'[c] = queue[c]
             /\ reply'[c].path = p /\ reply'[c].kind = "drop"
             /\ reply'[c].reply.status = "ok" /\ reply'[c].reply.version = v
             /\ (h # NoVersion => base = h.id)
      PROVE  (\A d \in Device : Mirrors(d)') /\ Telling(server')
  <2>1. Adds(v, c)
    BY <1>1, <1>8, AddsHere
  <2>2. ~Behind(c, v.path)
    BY <1>2, <1>8, BaseTells
  <2>3. Mirrors(c)'
    BY <1>2, <1>8, <2>1, <2>2, OwnMirrors
  <2>4. ASSUME NEW d \in Device, d # c PROVE Mirrors(d)'
    BY <1>1, <1>8, <2>4, OneAdded
  <2>5. Telling(server')
    BY <1>8, TellsOn
  <2> QED BY <2>3, <2>4, <2>5
<1> QED BY <1>1, <1>5, <1>6, <1>7, <1>8

-----------------------------------------------------------------------------
(* Mirrors: every step of Sync.                                            *)

\* One engine does something, and the server nothing.
LEMMA OneMirrors ==
  ASSUME NEW N, ServerGood(N), Engines(N), Telling(server), \A d \in Device : Mirrors(d),
         NEW c \in Device, OnlyAt(c), UNCHANGED store, Mirrors(c)'
  PROVE  (\A d \in Device : Mirrors(d)') /\ Telling(server')
<1>1. Quiet(server, server') /\ fresh' = fresh /\ fresh \in Nat
  BY DEF store, Quiet, ServerGood
<1>2. ASSUME NEW d \in Device, d # c PROVE Mirrors(d)'
  <2>1. Stays(N, d)
    BY <1>1, <1>2 DEF Stays, OnlyAt
  <2> QED BY <1>2, <2>1, StillMirrors DEF OnlyAt
<1>3. Telling(server')
  BY <1>1, SameLogTells
<1> QED BY <1>2, <1>3

\* What an engine does between requests.
LEMMA WalksMirror ==
  ASSUME NEW N, ServerGood(N), Engines(N), Telling(server), Within',
         NEW c \in Device, Mirrors(c), at[c] = "answer" => at'[c] # "idle",
         \/ BeginRound(c) \/ SkipEvent(c) \/ Examine(c) \/ Land(c) \/ FailToLand(c)
         \/ Settle(c) \/ EndPull(c) \/ ScanLocal(c) \/ RecordUpload(c) \/ EndUploads(c)
         \/ RecordDelete(c) \/ EndPush(c)
  PROVE  Mirrors(c)'
<1>1. /\ at \in [Device -> TransferPlaces] /\ DOMAIN queue = Device /\ seen[c] \in Nat
      /\ fresh \in Nat /\ Sound(server, fresh, fresh)
  BY DEF Engines, Shaped, ServerGood
<1>2. UNCHANGED store /\ known'[c] = known[c] /\ seen'[c] = seen[c] => Stays(N, c)
  <2>1. UNCHANGED store => Quiet(server, server') /\ fresh' = fresh
    BY DEF store, Quiet
  <2> QED BY <1>1, <2>1 DEF Stays
<1>3. ASSUME BeginRound(c) \/ EndPush(c) PROVE Mirrors(c)'
  <2>1. /\ at[c] # "answer" /\ at'[c] = "pull" /\ queue'[c] = EventsAfter(server, seen[c])
        /\ UNCHANGED <<server, fresh, known, seen>>
    BY <1>1, <1>3 DEF BeginRound, EndPush, Fetch, Go, store, local
  <2>2. server.lastSeq <= seen[c] + MaxEvents
    BY <2>1 DEF Within
  <2> QED BY <1>1, <2>1, <2>2, FetchMirrors
<1>4. CASE SkipEvent(c)
  BY <1>4, SkipMirrors
<1>5. CASE Settle(c)
  BY <1>5, SettleMirrors
<1>6. CASE Examine(c)
  <2>1. /\ at[c] = "pull" /\ at'[c] \in {"land", "settle"} /\ Target(c).device # c
        /\ UNCHANGED <<store, known, seen, queue>>
    BY <1>1, <1>6 DEF Examine, Go, IsForeign
  <2> QED BY <1>2, <2>1, WalkMirrors DEF Pulls
<1>7. CASE Land(c)
  <2>1. /\ at[c] = "land" /\ at'[c] = "settle"
        /\ UNCHANGED <<store, known, seen, queue>>
    BY <1>1, <1>7 DEF Land, Go
  <2> QED BY <1>2, <2>1, WalkMirrors DEF Pulls
<1>8. CASE FailToLand(c)
  <2>1. /\ at[c] = "land" /\ at'[c] = "idle" /\ queue'[c] = <<>>
        /\ UNCHANGED <<store, known, seen>>
    BY <1>1, <1>8 DEF FailToLand, EndRound, Go, local
  <2> QED BY <1>2, <2>1, EndMirrors
<1>9. CASE EndPull(c)
  <2>1. /\ at[c] = "pull" /\ queue[c] = <<>> /\ UNCHANGED <<store, known, seen>>
        /\ (Go(c, "scan") /\ UNCHANGED queue) \/ EndRound(c)
    BY <1>9 DEF EndPull
  <2>2. CASE Go(c, "scan") /\ UNCHANGED queue
    <3>1. at'[c] = "scan"
      BY <1>1, <2>2 DEF Go
    <3> QED BY <1>2, <2>1, <2>2, <3>1, WalkMirrors
  <2>3. CASE EndRound(c)
    <3>1. at'[c] = "idle" /\ queue'[c] = <<>>
      BY <1>1, <2>3 DEF EndRound, Go
    <3> QED BY <1>2, <2>1, <3>1, EndMirrors
  <2> QED BY <2>1, <2>2, <2>3
<1>10. CASE ScanLocal(c) \/ EndUploads(c)
  <2>1. /\ at[c] \in {"scan", "push"} /\ at'[c] \in {"push", "drop"}
        /\ UNCHANGED <<store, known, seen, queue>>
    BY <1>1, <1>10 DEF ScanLocal, EndUploads, Go, local
  <2> QED BY <1>2, <2>1, WalkMirrors DEF Pulls
<1>11. CASE RecordUpload(c)
  <2>1. at[c] = "answer"
    BY <1>11 DEF RecordUpload
  <2> QED BY <1>11, <2>1, RecordUploadMirrors
<1>12. CASE RecordDelete(c)
  BY <1>12, RecordDeleteMirrors
<1> QED BY <1>3, <1>4, <1>5, <1>6, <1>7, <1>8, <1>9, <1>10, <1>11, <1>12

LEMMA WalksAlone ==
  ASSUME NEW N, Engines(N), NEW c \in Device,
         \/ BeginRound(c) \/ SkipEvent(c) \/ Examine(c) \/ Land(c) \/ FailToLand(c)
         \/ Settle(c) \/ EndPull(c) \/ ScanLocal(c) \/ RecordUpload(c) \/ EndUploads(c)
         \/ RecordDelete(c) \/ EndPush(c)
  PROVE  OnlyAt(c) /\ UNCHANGED store
<1>1. /\ at \in [Device -> TransferPlaces]
      /\ DOMAIN files = Device /\ DOMAIN todo = Device /\ DOMAIN scan = Device
  BY DEF Engines, Shaped
<1>2. CASE \/ BeginRound(c) \/ SkipEvent(c) \/ Examine(c) \/ Settle(c) \/ EndPull(c)
           \/ RecordUpload(c) \/ EndUploads(c) \/ RecordDelete(c) \/ EndPush(c)
  <2>1. UNCHANGED store
    BY <1>2 DEF BeginRound, SkipEvent, Examine, Settle, EndPull, RecordUpload, EndUploads,
                RecordDelete, EndPush
  <2> QED BY <1>2, <2>1, RoundMoves
<1>3. CASE Land(c)
  BY <1>1, <1>3 DEF Land, Go, OnlyAt
<1>4. CASE FailToLand(c)
  BY <1>4, EndRoundMoves DEF FailToLand, local
<1>5. CASE ScanLocal(c)
  BY <1>1, <1>5 DEF ScanLocal, Go, OnlyAt, local
<1> QED BY <1>2, <1>3, <1>4, <1>5

\* What expires has been fetched in the middle of a round.
LEMMA ExpiryHeads ==
  ASSUME Sound(server, fresh, fresh), Telling(server), NEW c \in Device,
         InOrder(c), Heads(c), seen[c] \in Nat, queue[c] \in Seq(GoodEvent(AnyFile)),
         NEW k \in Nat, server' = Prune(server, k), UNCHANGED <<seen, at, queue>>,
         \A i \in DOMAIN server.events :
           at[c] # "idle" /\ Fetched(c) < server.events[i].seq => k < server.events[i].version.id
  PROVE  Heads(c)'
<1>1. /\ server \in Metadata /\ Window(server) /\ Consistent(server)
      /\ Pruned(server, server') /\ Log(server') = Log(server)
  BY PruneMoves DEF Sound, Telling, Pruned, Log
<1>2. Fetched(c) = seen[c] + Len(queue[c])
  <2>1. CASE queue[c] = <<>>
    BY <2>1 DEF Fetched
  <2>2. CASE queue[c] # <<>>
    <3>1. Len(queue[c]) \in 1..Len(queue[c])
      BY <2>2
    <3> QED BY <2>2, <3>1 DEF Fetched, InOrder
  <2> QED BY <2>1, <2>2
<1> SUFFICES ASSUME at[c] # "idle", NEW e \in Log(server), seen[c] + Len(queue[c]) < e.seq
             PROVE  HeadAt(server', e.version.path) # NoVersion
  BY <1>1 DEF Heads
<1>3. PICK f \in Log(server) :
        /\ f.version.path = e.version.path /\ e.seq <= f.seq
        /\ \A g \in Log(server) : g.version.path = e.version.path => g.seq <= f.seq
  BY <1>1, LastExists
<1>4. HeadAt(server, e.version.path) = f.version /\ f.version # NoVersion
  <2>1. HeadAt(server, e.version.path) # NoVersion
    BY DEF Heads
  <2> QED BY <1>1, <1>3, <2>1, LastTells
<1>5. f.version.path \in Path /\ f.version.id \in Nat /\ k < f.version.id
  <2>1. e.seq \in Nat /\ f.seq \in Nat /\ f \in Event
    BY <1>1, LogRange
  <2>2. seen[c] + Len(queue[c]) < f.seq
    BY <1>3, <2>1
  <2>3. PICK i \in DOMAIN server.events : server.events[i] = f
    BY <1>1 DEF Log, Metadata
  <2>4. at[c] # "idle" /\ Fetched(c) < f.seq
    BY <1>2, <2>2
  <2>5. k < f.version.id
    BY <2>3, <2>4
  <2> QED BY <2>1, <2>5 DEF Event, Version
<1> HIDE DEF HeadAt
<1>6. server'.files[f.version.path] = server.files[f.version.path]
  <2>1. server.files[f.version.path].current = f.version
    BY <1>3, <1>4 DEF HeadAt
  <2> QED BY <1>1, <1>5, <2>1 DEF Prune, Metadata
<1> QED BY <1>3, <1>4, <1>6 DEF HeadAt

MirrorInv == SyncInv(AnyFile) /\ Telling(server) /\ \A c \in Device : Mirrors(c)

LEMMA MirrorsBegin ==
  ASSUME Init
  PROVE  Telling(server) /\ \A c \in Device : Mirrors(c)
<1>1. server.versions = {} /\ server.events = <<>> /\ server.lastSeq = 0
      /\ \A p \in Path : HeadAt(server, p) = NoVersion
  BY DEF Init, NewMetadata, HeadAt, HasVersion
<1>2. Log(server) = {}
  BY <1>1 DEF Log
<1>3. Telling(server)
  BY <1>1, <1>2 DEF Telling, Logged, OneEach, Consistent, LogMatches, Graves, Returned
<1>4. ASSUME NEW c \in Device PROVE Mirrors(c)
  <2>1. /\ at[c] = "idle" /\ queue[c] = <<>> /\ seen[c] = 0
        /\ \A p \in Path : known[c][p] = NoState
    BY <1>4 DEF Init
  <2>2. InOrder(c) /\ Applying(c) /\ Answers(c)
    BY <1>1, <2>1 DEF InOrder, Applying, Answers
  <2>3. Own(c) /\ KnownIsSeen(c) /\ Told(c) /\ Heads(c)
    BY <1>2, <2>1 DEF Own, KnownIsSeen, Told, Heads
  <2>4. Agree(c)
    BY <1>1, <2>1 DEF Agree, Agrees
  <2> QED BY <2>2, <2>3, <2>4 DEF Mirrors
<1> QED BY <1>3, <1>4

LEMMA MirrorBegins == ASSUME FlatFiles, Init PROVE MirrorInv
BY FlatSuits, SyncBegins, MirrorsBegin DEF MirrorInv

LEMMA MirrorSteps ==
  ASSUME FlatFiles, MirrorInv, Within', [Next]_vars,
         \A c \in Device : at[c] = "answer" => at'[c] # "idle"
  PROVE  MirrorInv'
<1> DEFINE Goal == (\A d \in Device : Mirrors(d)') /\ Telling(server')
<1>1. SyncInv(AnyFile)'
  BY FlatSuits, SyncStepsKeep DEF MirrorInv
<1>2. /\ ServerGood(AnyFile) /\ Engines(AnyFile) /\ Telling(server)
      /\ \A d \in Device : Mirrors(d)
      /\ fresh \in Nat \ {0} /\ Sound(server, fresh, fresh)
  BY DEF MirrorInv, SyncInv, ServerGood
<1>3. ServerGood(AnyFile)'
  BY <1>1 DEF SyncInv
<1>4. at \in [Device -> TransferPlaces] /\ DOMAIN queue = Device
  BY <1>2 DEF Engines, Shaped
<1>5. ASSUME UNCHANGED store, UNCHANGED <<known, seen, at, queue, reply>> PROVE Goal
  <2>1. Quiet(server, server') /\ fresh' = fresh
    BY <1>5 DEF store, Quiet
  <2>2. ASSUME NEW d \in Device PROVE Mirrors(d)'
    <3>1. Stays(AnyFile, d)
      BY <1>2, <1>5, <2>1 DEF Stays
    <3> QED BY <1>5, <3>1, StillMirrors
  <2>3. Telling(server')
    BY <1>2, <2>1, SameLogTells
  <2> QED BY <2>2, <2>3
<1>6. ASSUME NEW c \in Device, UNCHANGED <<store, known, seen>>, EndRound(c),
             UNCHANGED <<files, touched>>
      PROVE  Goal
  <2>1. OnlyAt(c) /\ at'[c] = "idle" /\ queue'[c] = <<>>
    <3>1. queue'[c] = <<>>
      BY <1>4, <1>6 DEF EndRound
    <3> QED BY <1>2, <1>6, <3>1, EndRoundMoves
  <2>2. Quiet(server, server') /\ fresh' = fresh
    BY <1>6 DEF store, Quiet
  <2>3. Stays(AnyFile, c)
    BY <1>2, <1>6, <2>2 DEF Stays
  <2>4. Mirrors(c)'
    BY <2>1, <2>3, EndMirrors
  <2> QED BY <1>2, <1>6, <2>1, <2>4, OneMirrors
<1>7. ASSUME NEW c \in Device, User(c) PROVE Goal
  <2>1. UNCHANGED store /\ UNCHANGED <<known, seen, at, queue, reply>>
    BY <1>7 DEF User, RemovePath, MakeDir, WriteFile, Edit, round
  <2> QED BY <1>5, <2>1
<1>8. ASSUME NEW c \in Device, Engine(c) PROVE Goal
  <2>1. ASSUME NEW p \in Path, Upload(c, p) PROVE Goal
    <3>1. /\ at[c] = "push" /\ p \in todo[c]
          /\ UNCHANGED <<files, known, seen, touched>>
          /\ SendUpload(c, p) \/ (EndRound(c) /\ UNCHANGED store)
      BY <2>1 DEF Upload, local
    <3>2. scan[c][p] # DirNode
      BY <3>1, NoDirsThere DEF MirrorInv
    <3>3. Parent[p] = NoPath
      BY DEF FlatFiles
    <3>4. CASE SendUpload(c, p)
      BY <1>2, <1>3, <3>1, <3>2, <3>3, <3>4, UploadMirrors
    <3>5. CASE EndRound(c) /\ UNCHANGED store
      BY <1>6, <3>1, <3>5
    <3> QED BY <3>1, <3>4, <3>5
  <2>2. ASSUME NEW p \in Path, DeleteRemote(c, p) PROVE Goal
    BY <1>2, <1>3, <2>2, DeleteMirrors
  <2>3. CASE \/ BeginRound(c) \/ SkipEvent(c) \/ Examine(c) \/ Land(c) \/ FailToLand(c)
             \/ Settle(c) \/ EndPull(c) \/ ScanLocal(c) \/ RecordUpload(c) \/ EndUploads(c)
             \/ RecordDelete(c) \/ EndPush(c)
    <3>1. OnlyAt(c) /\ UNCHANGED store
      BY <1>2, <2>3, WalksAlone
    <3>2. Mirrors(c)'
      BY <1>2, <2>3, WalksMirror
    <3> QED BY <1>2, <3>1, <3>2, OneMirrors
  <2> QED BY <1>8, <2>1, <2>2, <2>3 DEF Engine
<1>9. ASSUME NEW c \in Device, Abort(c) PROVE Goal
  <2>1. /\ EndRound(c) /\ UNCHANGED <<store, known, seen, files, touched>>
    BY <1>9 DEF Abort, local
  <2> QED BY <1>6, <2>1
<1>10. ASSUME NEW p \in Path, RestoreTrash(p) PROVE Goal
  <2> DEFINE v == Restored(server, p, fresh)
  <2>1. /\ IsTombstone(server.files[p]) /\ server' = Install(server, v) /\ fresh' = fresh + 1
        /\ UNCHANGED <<known, seen, at, queue, reply>>
    BY <1>10 DEF RestoreTrash, local, round
  <2>2. Appends(server, server', v)
    BY <1>2, <2>1, RestoreAppends
  <2>3. v.device = Admin /\ v.id = fresh
    BY DEF Restored
  <2> HIDE DEF v
  <2>4. fresh <= v.id /\ fresh <= fresh' /\ \A d \in Device : v.device # d
    BY <1>2, <2>1, <2>3, DistinctAssumption
  <2>5. ASSUME NEW d \in Device PROVE Mirrors(d)'
    BY <1>2, <1>3, <2>1, <2>2, <2>4, OneAdded
  <2>6. Telling(server')
    BY <1>2, <1>3, <2>2, <2>4, TellsOn
  <2> QED BY <2>5, <2>6
<1>11. ASSUME NEW k \in 0..fresh, PruneTrash(k) PROVE Goal
  <2>1. /\ server' = Prune(server, k) /\ UNCHANGED <<fresh, known, seen, at, queue, reply>>
        /\ \A d \in Device : \A i \in DOMAIN server.events :
             at[d] # "idle" /\ Fetched(d) < server.events[i].seq => k < server.events[i].version.id
    BY <1>11 DEF PruneTrash, local, round
  <2>2. Pruned(server, server')
    BY <1>2, <2>1, PruneMoves DEF Sound
  <2>3. ASSUME NEW d \in Device PROVE Heads(d)'
    <3>1. k \in Nat /\ seen[d] \in Nat /\ queue[d] \in Seq(GoodEvent(AnyFile))
      BY <1>2 DEF Engines, Shaped
    <3>2. InOrder(d) /\ Heads(d) /\ Telling(server) /\ Sound(server, fresh, fresh)
      BY <1>2 DEF Mirrors
    <3> QED BY <2>1, <3>1, <3>2, ExpiryHeads
  <2>4. \A d \in Device : Mirrors(d)'
    BY <1>2, <2>1, <2>2, <2>3, PrunedMirrors DEF Sound, Metadata
  <2> QED BY <1>2, <2>2, <2>4, SameLogTells
<1>12. ASSUME UNCHANGED vars PROVE Goal
  <2>1. UNCHANGED store /\ UNCHANGED <<known, seen, at, queue, reply>>
    BY <1>12 DEF vars, local, round
  <2> QED BY <1>5, <2>1
<1>13. Goal
  BY <1>7, <1>8, <1>9, <1>10, <1>11, <1>12 DEF Next
<1> QED BY <1>1, <1>13 DEF MirrorInv

-----------------------------------------------------------------------------
(* Mirrors: a device that has settled.                                     *)

LEMMA SettledMirrors ==
  ASSUME ServerGood(AnyFile), Engines(AnyFile), NEW c \in Device, Mirrors(c), Settled(c),
         NEW p \in Path
  PROVE  files[c][p] = ServerNode(p)
<1> DEFINE h == HeadAt(server, p)
           k == known[c][p]
<1>1. /\ server \in Metadata /\ Window(server) /\ Headed(server)
      /\ ToUpload(c, files[c]) = {} /\ ToDelete(c, files[c]) = {}
      /\ at[c] = "idle" /\ seen[c] = server.lastSeq
  BY DEF ServerGood, Sound, Settled
<1>2. ~Behind(c, p)
  <2>1. \A e \in Log(server) : e.seq \in Nat /\ e.seq <= server.lastSeq /\ server.lastSeq \in Nat
    BY <1>1, LogRange DEF Metadata
  <2> QED BY <1>1, <2>1 DEF Behind, Missing
<1>3. Agrees(k, h)
  <2>1. ~Asked(c, p)
    BY <1>1 DEF Asked
  <2> QED BY <1>2, <2>1 DEF Mirrors, Agree
<1>4. files[c][p] \in Content \cup {NoFile}
  <2>1. files[c] \in GoodDir(AnyFile)
    BY DEF Engines, Shaped
  <2> QED BY <2>1 DEF GoodDir, AnyFile
<1>5. NoFile \notin Content /\ files[c][p] # DirNode
  <2>1. files[c][p] # DirNode
    BY NoDirsIn
  <2> QED BY <2>1, SyncAssumption
<1>6. CASE IsLive(server.files[p])
  <2>1. h = server.files[p].current /\ h # NoVersion /\ h.state # "deleted" /\ h \in server.versions
    BY <1>1, <1>6 DEF IsLive, HasVersion, HeadAt, Headed
  <2>2. h.state = "file"
    <3>1. h.state # "dir"
      BY <2>1, NoDirsIn
    <3>2. h \in Version
      BY <1>1, <2>1 DEF Metadata
    <3> QED BY <2>1, <3>1, <3>2 DEF Version
  <2>3. KnownAs(c, p, "file") /\ k.content = h.content
    BY <1>3, <2>1, <2>2 DEF Agrees, KnownAs
  <2>4. files[c][p] \in Content /\ files[c][p] = k.content
    BY <1>1, <1>4, <2>3 DEF ToUpload, ToDelete
  <2>5. ServerNode(p) = h.content
    BY <1>6, <2>1, <2>2 DEF ServerNode, IsLiveDir
  <2> QED BY <2>3, <2>4, <2>5
<1>7. CASE ~IsLive(server.files[p])
  <2>1. h = NoVersion \/ h.state = "deleted"
    BY <1>7 DEF IsLive, HeadAt
  <2>2. ~KnownAs(c, p, "file")
    BY <1>3, <2>1 DEF Agrees, KnownAs
  <2>3. files[c][p] = NoFile
    BY <1>1, <1>4, <2>2 DEF ToUpload
  <2> QED BY <1>7, <2>3 DEF ServerNode
<1> QED BY <1>6, <1>7

LEMMA MirrorIsEnough ==
  ASSUME MirrorInv, NEW c \in Device, Settled(c), NEW p \in Path
  PROVE  files[c][p] = ServerNode(p)
<1>1. ServerGood(AnyFile) /\ Engines(AnyFile) /\ Mirrors(c)
  BY DEF MirrorInv, SyncInv
<1> QED BY <1>1, SettledMirrors

\* An answer that has come is recorded before the round ends.
NoLostAnswer == \A c \in Device : at[c] = "answer" => at'[c] # "idle"

AnswersRecorded == [][NoLostAnswer]_vars

\* In a space of files a device that has seen every event and has nothing to
\* push holds what the server holds, as long as no answer was lost on the way
\* and the log still had every event it was about to fetch (applyVersion,
\* uploadFile, EventsAfter).
THEOREM SettledDevicesMirror ==
  ASSUME FlatFiles
  PROVE  Spec /\ []Within /\ AnswersRecorded => []SettledMirrorsServer
<1>1. Init => MirrorInv
  BY MirrorBegins
<1>2. MirrorInv /\ Within' /\ [Next]_vars /\ [NoLostAnswer]_vars => MirrorInv'
  <2> SUFFICES ASSUME MirrorInv, Within', [Next]_vars, [NoLostAnswer]_vars
               PROVE  MirrorInv'
    OBVIOUS
  <2>1. \A c \in Device : at[c] = "answer" => at'[c] # "idle"
    <3>1. CASE NoLostAnswer
      BY <3>1 DEF NoLostAnswer
    <3>2. CASE UNCHANGED vars
      BY <3>2 DEF vars, round
    <3> QED BY <3>1, <3>2
  <2> QED BY <2>1, MirrorSteps
<1>3. MirrorInv => SettledMirrorsServer
  BY MirrorIsEnough DEF SettledMirrorsServer
<1> QED BY <1>1, <1>2, <1>3, PTL DEF Spec, AnswersRecorded

-----------------------------------------------------------------------------
(* Mixtures: what a device makes of one.                                   *)

\* A text a user wrote is there, or nothing.
Clean(c, p) == files[c][p] \in Text \cup {NoFile}

\* What was scanned, and what is sent, is still there.
StillThere(c) ==
  /\ at[c] = "read" => \A p \in Path : scan[c][p] # NoFile => files[c][p] # NoFile
  /\ at[c] \in {"push"} \cup Sending => \A p \in todo[c] : files[c][p] # NoFile
  /\ at[c] = "answer" /\ reply[c].kind = "push" =>
       /\ reply[c].path \notin todo[c]
       /\ \A p \in todo[c] \cup {reply[c].path} : files[c][p] # NoFile

\* What is at p is that of the event the device is at.
Coming(c, p) ==
  /\ at[c] = "idle" \/ (at[c] \in Pulls /\ queue[c] # <<>>)
  /\ \E e \in Log(server) :
       /\ Missing(c, e) /\ e.seq = seen[c] + 1
       /\ e.version.path = p /\ e.version.content = files[c][p]

\* A mixture came from the server, and its scan finds nothing to push.
Traced(c) ==
  \A p \in UserPath :
    Clean(c, p) \/ (KnownAs(c, p, "file") /\ known[c][p].content = files[c][p]) \/ Coming(c, p)

\* What was replaced is as it came, or as the user left it.
Settling(c) ==
  /\ at[c] = "verify" => IsFileEvent(c)
  /\ at[c] = "settle" /\ Target(c).path \in UserPath =>
       \/ Clean(c, Target(c).path)
       \/ IsFileEvent(c) /\ files[c][Target(c).path] = Target(c).content

IsStartOf(x, y) == Len(x) < Len(y) /\ \A i \in 1..Len(x) : x[i] = y[i]

\* A mixture is scanned as it is, and is not pushed.
Scanned(c) ==
  /\ at[c] = "read" =>
       \A p \in UserPath :
         \/ Clean(c, p) \/ scan[c][p] = files[c][p]
         \/ p \in job[c].unread /\ IsStartOf(scan[c][p], files[c][p])
  /\ at[c] \in {"push", "drop", "answer"} \cup Sending =>
       \A p \in UserPath :
         \/ Clean(c, p)
         \/ scan[c][p] = files[c][p] /\ p \notin todo[c] /\ (at[c] = "answer" => reply[c].path # p)

\* Nothing of another device is missing where c's own version is current.
Ahead(c) ==
  \A p \in Path : HeadAt(server, p) # NoVersion /\ HeadAt(server, p).device = c => ~Behind(c, p)

\* The device that made a mixture has a text there by now.
Authored(c) ==
  \A p \in UserPath :
    LET h == HeadAt(server, p)
    IN  h # NoVersion /\ h.device = c /\ h.state = "file" /\ h.content \notin Text => Clean(c, p)

Marks(c) ==
  StillThere(c) /\ Traced(c) /\ Settling(c) /\ Scanned(c) /\ Ahead(c) /\ Authored(c)

\* A step that leaves no new mixture.
Gently(c) == \A p \in UserPath : files'[c][p] = files[c][p] \/ files'[c][p] \in Text \cup {NoFile}

\* The server shows nothing new, and nothing more is missing.
LEMMA QuietHeads ==
  ASSUME NEW c, Ahead(c), Authored(c), Quiet(server, server'), Gently(c),
         \A e : Missing(c, e)' => Missing(c, e)
  PROVE  Ahead(c)' /\ Authored(c)'
<1>1. Log(server') = Log(server) /\ \A p \in Path : HeadAt(server', p) = HeadAt(server, p)
  BY DEF Quiet, Log
<1>2. \A p \in Path : Behind(c, p)' => Behind(c, p)
  BY <1>1 DEF Behind
<1>3. Ahead(c)'
  BY <1>1, <1>2 DEF Ahead
<1>4. \A p \in UserPath : Clean(c, p) => Clean(c, p)'
  BY DEF Gently, Clean
<1>5. UserPath \subseteq Path
  BY DEF UserPath
<1>6. Authored(c)'
  BY <1>1, <1>4, <1>5 DEF Authored
<1> QED BY <1>3, <1>6

\* A version of another device.
LEMMA OthersHeads ==
  ASSUME NEW c \in Device, NEW v, Adds(v, c), v.device # c, Ahead(c), Authored(c), Gently(c)
  PROVE  Ahead(c)' /\ Authored(c)'
<1>1. /\ HeadAt(server', v.path) = v
      /\ \A p \in Path : p # v.path => HeadAt(server', p) = HeadAt(server, p)
  BY AddsEvent
<1>2. \A p \in Path : p # v.path => (Behind(c, p)' => Behind(c, p))
  BY AddsMissing
<1>3. Ahead(c)'
  <2> SUFFICES ASSUME NEW p \in Path, HeadAt(server', p) # NoVersion, HeadAt(server', p).device = c
               PROVE  ~Behind(c, p)'
    BY DEF Ahead
  <2> QED BY <1>1, <1>2 DEF Ahead
<1>4. \A p \in UserPath : Clean(c, p) => Clean(c, p)'
  BY DEF Gently, Clean
<1>5. UserPath \subseteq Path
  BY DEF UserPath
<1>6. Authored(c)'
  <2> SUFFICES ASSUME NEW p \in UserPath, HeadAt(server', p) # NoVersion,
                      HeadAt(server', p).device = c, HeadAt(server', p).state = "file",
                      HeadAt(server', p).content \notin Text
               PROVE  Clean(c, p)'
    BY DEF Authored
  <2>1. HeadAt(server', p) = HeadAt(server, p)
    BY <1>1, <1>5
  <2> QED BY <1>4, <2>1 DEF Authored
<1> QED BY <1>3, <1>6

\* A version of c's own at the end of the log: nothing before it is missing.
LEMMA OwnHeads ==
  ASSUME NEW c \in Device, NEW v, Adds(v, c), Own(c)', v.device = c, Ahead(c), Authored(c), Gently(c),
         v.path \in UserPath /\ v.state = "file" => Clean(c, v.path)'
  PROVE  Ahead(c)' /\ Authored(c)'
<1>1. /\ HeadAt(server', v.path) = v /\ server.lastSeq \in Nat /\ server'.lastSeq = server.lastSeq + 1
      /\ \A p \in Path : p # v.path => HeadAt(server', p) = HeadAt(server, p)
      /\ \A e \in Log(server') : e \in Log(server) \/ (e.version = v /\ e.seq = server'.lastSeq)
      /\ \A e \in Log(server) : e.seq \in Nat /\ e.seq <= server.lastSeq
  BY AddsEvent
<1>2. \A p \in Path : Behind(c, p)' <=> Behind(c, p)
  BY AddsMissing
<1>3. PICK o \in Log(server') : o.version = v /\ o.seq = server'.lastSeq
  BY AddsEvent
<1>4. \A e \in Log(server') : e.seq \in Nat /\ e.seq <= o.seq
  BY <1>1, <1>3
<1>5. ASSUME Behind(c, v.path)' PROVE FALSE
  <2>1. PICK e \in Log(server') : Missing(c, e)' /\ e.version.path = v.path
    BY <1>5 DEF Behind
  <2>2. o.seq < e.seq
    BY <1>3, <2>1 DEF Own
  <2> QED BY <1>1, <1>3, <1>4, <2>2
<1>6. Ahead(c)'
  <2> SUFFICES ASSUME NEW p \in Path, HeadAt(server', p) # NoVersion, HeadAt(server', p).device = c
               PROVE  ~Behind(c, p)'
    BY DEF Ahead
  <2> QED BY <1>1, <1>2, <1>5 DEF Ahead
<1>7. \A p \in UserPath : Clean(c, p) => Clean(c, p)'
  BY DEF Gently, Clean
<1>8. UserPath \subseteq Path
  BY DEF UserPath
<1>9. Authored(c)'
  <2> SUFFICES ASSUME NEW p \in UserPath, HeadAt(server', p) # NoVersion,
                      HeadAt(server', p).device = c, HeadAt(server', p).state = "file",
                      HeadAt(server', p).content \notin Text
               PROVE  Clean(c, p)'
    BY DEF Authored
  <2>1. CASE p = v.path
    BY <1>1, <2>1
  <2>2. CASE p # v.path
    <3>1. HeadAt(server', p) = HeadAt(server, p)
      BY <1>1, <1>8, <2>2
    <3> QED BY <1>7, <3>1 DEF Authored
  <2> QED BY <2>1, <2>2
<1> QED BY <1>6, <1>9

-----------------------------------------------------------------------------
(* Mixtures: steps that bring none.                                        *)

LEMMA StillTraced ==
  ASSUME NEW c, Traced(c), Gently(c), known'[c] = known[c], seen'[c] = seen[c],
         \A e : Missing(c, e) => Missing(c, e)',
         \/ at'[c] = "idle"
         \/ at[c] \notin {"idle"} \cup Pulls
         \/ at[c] \in Pulls /\ queue[c] = <<>>
         \/ at'[c] \in Pulls /\ queue'[c] # <<>>
  PROVE  Traced(c)'
<1> SUFFICES ASSUME NEW p \in UserPath
             PROVE  \/ Clean(c, p)' \/ Coming(c, p)'
                    \/ (KnownAs(c, p, "file") /\ known[c][p].content = files[c][p])'
  BY DEF Traced
<1>1. CASE files'[c][p] \in Text \cup {NoFile}
  BY <1>1 DEF Clean
<1>2. CASE files'[c][p] = files[c][p]
  <2>1. CASE Clean(c, p)
    BY <1>2, <2>1 DEF Clean
  <2>2. CASE KnownAs(c, p, "file") /\ known[c][p].content = files[c][p]
    BY <1>2, <2>2 DEF KnownAs
  <2>3. CASE Coming(c, p)
    <3>1. PICK e \in Log(server) :
            /\ Missing(c, e) /\ e.seq = seen[c] + 1
            /\ e.version.path = p /\ e.version.content = files[c][p]
      BY <2>3 DEF Coming
    <3>2. Missing(c, e)' /\ e \in Log(server')
      <4>1. Missing(c, e)'
        BY <3>1
      <4> QED BY <4>1 DEF Missing
    <3>3. at'[c] = "idle" \/ (at'[c] \in Pulls /\ queue'[c] # <<>>)
      BY <2>3 DEF Coming, Pulls
    <3> QED BY <1>2, <3>1, <3>2, <3>3 DEF Coming
  <2> QED BY <2>1, <2>2, <2>3 DEF Traced
<1> QED BY <1>1, <1>2 DEF Gently

\* Between looks and writes there is nothing else to say.
LEMMA PlainMarks ==
  ASSUME NEW c, at'[c] \in {"idle", "pull", "land", "scan"}, Traced(c)', Ahead(c)', Authored(c)'
  PROVE  Marks(c)'
<1>1. StillThere(c)' /\ Settling(c)' /\ Scanned(c)'
  BY DEF StillThere, Settling, Scanned, Sending
<1> QED BY <1>1 DEF Marks

\* The server shows nothing new, the state file and what was seen stay.
Calm(c) ==
  /\ Marks(c) /\ Quiet(server, server') /\ Gently(c)
  /\ known'[c] = known[c] /\ seen'[c] = seen[c]

LEMMA CalmKeeps ==
  ASSUME NEW c, Calm(c)
  PROVE  /\ Ahead(c)' /\ Authored(c)'
         /\ \A e : Missing(c, e)' <=> Missing(c, e)
<1>1. \A e : Missing(c, e)' <=> Missing(c, e)
  BY QuietBehind DEF Calm
<1> QED BY <1>1, QuietHeads DEF Calm, Marks

LEMMA CalmPlain ==
  ASSUME NEW c, Calm(c), at'[c] \in {"idle", "pull", "land", "scan"},
         \/ at'[c] = "idle"
         \/ at[c] \notin {"idle"} \cup Pulls
         \/ at[c] \in Pulls /\ queue[c] = <<>>
         \/ at'[c] \in Pulls /\ queue'[c] # <<>>
  PROVE  Marks(c)'
<1>1. Traced(c)'
  BY CalmKeeps, StillTraced DEF Calm, Marks
<1> QED BY <1>1, CalmKeeps, PlainMarks

\* The engine stands still, and at most a text is written.
LEMMA StandsMarks ==
  ASSUME NEW c, Marks(c), NoFile \notin Text,
         Ahead(c)', Authored(c)', \A e : Missing(c, e) => Missing(c, e)',
         \A p \in Path : files'[c][p] = files[c][p] \/ files'[c][p] \in Text,
         at'[c] = at[c], queue'[c] = queue[c], scan'[c] = scan[c], todo'[c] = todo[c],
         reply'[c] = reply[c], known'[c] = known[c], seen'[c] = seen[c],
         job'[c] = job[c] \/ at[c] # "read",
         todo[c] \subseteq Path,
         at[c] = "answer" => reply[c].path \in Path,
         at[c] = "settle" => Target(c).path \in Path
  PROVE  Marks(c)'
<1>0. UserPath \subseteq Path
  BY DEF UserPath
<1>1. Traced(c)'
  <2>1. Gently(c)
    BY <1>0 DEF Gently
  <2>2. \A p : Coming(c, p) => at'[c] = "idle" \/ (at'[c] \in Pulls /\ queue'[c] # <<>>)
    BY DEF Coming
  <2>3. CASE at[c] = "idle" \/ at[c] \notin {"idle"} \cup Pulls \/ queue[c] = <<>>
    BY <2>1, <2>3, StillTraced DEF Marks
  <2>4. CASE at[c] \in Pulls /\ queue[c] # <<>>
    BY <2>1, <2>4, StillTraced DEF Marks
  <2> QED BY <2>3, <2>4
<1>2. StillThere(c)'
  BY DEF Marks, StillThere
<1>3. Settling(c)'
  <2>1. Target(c)' = Target(c)
    BY DEF Target, Current
  <2>2. IsFileEvent(c)' <=> IsFileEvent(c)
    BY <2>1 DEF IsFileEvent
  <2> QED BY <1>0, <2>1, <2>2 DEF Marks, Settling, Clean
<1>4. Scanned(c)'
  <2>1. at[c] = "read" => Scanned(c)'
    <3> SUFFICES ASSUME at[c] = "read", NEW p \in UserPath
                 PROVE  \/ Clean(c, p)' \/ scan'[c][p] = files'[c][p]
                        \/ p \in job'[c].unread /\ IsStartOf(scan'[c][p], files'[c][p])
      BY DEF Scanned, Sending
    <3> QED BY <1>0 DEF Marks, Scanned, Clean
  <2>2. at[c] # "read" => Scanned(c)'
    BY <1>0 DEF Marks, Scanned, Clean
  <2> QED BY <2>1, <2>2
<1> QED BY <1>1, <1>2, <1>3, <1>4 DEF Marks

\* The same while a file is sent.
LEMMA SendMarks ==
  ASSUME NEW c, Calm(c), at[c] \in {"push"} \cup Sending, at'[c] \in {"push"} \cup Sending,
         files'[c] = files[c], scan'[c] = scan[c], todo'[c] = todo[c]
  PROVE  Marks(c)'
<1>1. Traced(c)'
  <2>1. at[c] \notin {"idle"} \cup Pulls
    BY DEF Sending, Pulls
  <2> QED BY <2>1, CalmKeeps, StillTraced DEF Calm, Marks
<1>2. StillThere(c)' /\ Settling(c)' /\ Scanned(c)'
  BY DEF Calm, Marks, StillThere, Settling, Scanned, Clean, Sending
<1> QED BY <1>1, <1>2, CalmKeeps DEF Marks

-----------------------------------------------------------------------------
(* Mixtures: events.                                                       *)

LEMMA FetchMarks ==
  ASSUME NEW N, ServerGood(N), Engines(N), NEW c \in Device, Mirrors(c), Marks(c), Within',
         BeginRound(c) \/ EndPush(c)
  PROVE  Marks(c)'
<1>1. /\ at \in [Device -> TransferPlaces] /\ DOMAIN queue = Device
      /\ seen[c] \in Nat /\ server \in Metadata /\ server.lastSeq \in Nat /\ Window(server)
  BY DEF Engines, Shaped, ServerGood, Sound, Metadata
<1>2. /\ at'[c] = "pull" /\ queue'[c] = EventsAfter(server, seen[c])
      /\ UNCHANGED <<server, files, known, seen>>
      /\ at[c] = "idle" \/ at[c] = "drop"
  BY <1>1 DEF BeginRound, EndPush, Fetch, Go, store, local
<1>3. Calm(c)
  BY <1>2 DEF Calm, Quiet, Gently
<1>4. CASE queue'[c] # <<>>
  BY <1>2, <1>3, <1>4, CalmPlain DEF Pulls
<1>5. CASE at[c] = "drop"
  BY <1>2, <1>3, <1>5, CalmPlain DEF Pulls
<1>6. CASE queue'[c] = <<>>
  <2>1. seen[c] <= server.lastSeq /\ server.lastSeq <= seen[c] + MaxEvents
    BY <1>2 DEF Mirrors, InOrder, Within
  <2>2. Len(EventsAfter(server, seen[c])) = server.lastSeq - seen[c]
    BY <1>1, <2>1, EventsAfterTail
  <2>3. server.lastSeq = seen[c]
    <3>1. Len(EventsAfter(server, seen[c])) = 0
      BY <1>2, <1>6
    <3> QED BY <1>1, <2>2, <3>1
  <2>4. \A e \in Log(server) : e.seq # seen[c] + 1
    BY <1>1, <2>3, LogRange
  <2>5. Traced(c)'
    BY <1>2, <2>4 DEF Traced, Coming, Clean, KnownAs, Marks
  <2>6. Ahead(c)' /\ Authored(c)'
    BY <1>3, CalmKeeps
  <2> QED BY <1>2, <2>5, <2>6, PlainMarks
<1> QED BY <1>2, <1>4, <1>5, <1>6

\* An event that is passed over brought nothing.
LEMMA SkipMarks ==
  ASSUME NEW N, ServerGood(N), Engines(N), NEW c \in Device, Mirrors(c), Marks(c), SkipEvent(c)
  PROVE  Marks(c)'
<1>0. PICK e0 : e0 = Current(c)
  OBVIOUS
<1>1. /\ at[c] = "pull" /\ queue[c] # <<>> /\ MarkSeen(c) /\ UNCHANGED <<server, files, known, at>>
      /\ \/ e0.version.device = c
         \/ known[c][e0.version.path] # NoState /\ known[c][e0.version.path].id = e0.version.id
  BY <1>0 DEF SkipEvent, store, Target
<1>2. /\ e0 \in Log(server) /\ e0.seq = seen[c] + 1
      /\ \A e : Missing(c, e)' <=> Missing(c, e) /\ e # e0
  BY <1>0, <1>1, MarksOne
<1>3. ~Missing(c, e0)
  BY <1>1, <1>2 DEF Missing, Mirrors, KnownIsSeen
<1>4. \A e, f \in Log(server) : e.seq = f.seq => e = f
  BY LogRange DEF ServerGood, Sound
<1>5. \A p : ~Coming(c, p)
  BY <1>2, <1>3, <1>4 DEF Coming
<1>6. Traced(c)'
  BY <1>1, <1>5 DEF Traced, Clean, KnownAs, Marks
<1>7. Ahead(c)' /\ Authored(c)'
  <2>1. Quiet(server, server') /\ Gently(c) /\ \A e : Missing(c, e)' => Missing(c, e)
    BY <1>1, <1>2 DEF Quiet, Gently
  <2> QED BY <2>1, QuietHeads DEF Marks
<1> QED BY <1>1, <1>6, <1>7, PlainMarks

\* What is recorded is what is there, or a text is.
LEMMA SettleMarks ==
  ASSUME NEW N, ServerGood(N), Engines(N), NEW c \in Device, Mirrors(c), Marks(c), Settle(c)
  PROVE  Marks(c)'
<1>1. PICK e0 : e0 = Current(c)
  OBVIOUS
<1>2. PICK v : v = Target(c)
  OBVIOUS
<1>3. /\ at[c] = "settle" /\ MarkSeen(c) /\ UNCHANGED <<server, files>>
      /\ known' = [known EXCEPT ![c][v.path] = StateOf(v)] /\ at' = [at EXCEPT ![c] = "pull"]
  BY <1>2 DEF Settle, store, SetKnown, Go
<1>4. queue[c] # <<>> /\ v.path \in Path /\ v \in Version
  <2>1. queue[c] # <<>>
    BY <1>3 DEF Engines, MidRound, HasTarget
  <2> QED BY <1>2, <2>1, TargetIsGood DEF Engines
<1>5. /\ e0 \in Log(server) /\ e0.seq = seen[c] + 1
      /\ \A e : Missing(c, e)' <=> Missing(c, e) /\ e # e0
  BY <1>1, <1>3, <1>4, MarksOne
<1>6. \A e, f \in Log(server) : e.seq = f.seq => e = f
  BY LogRange DEF ServerGood, Sound
<1>7. /\ at'[c] = "pull" /\ known'[c][v.path] = StateOf(v)
      /\ \A p \in Path : p # v.path => known'[c][p] = known[c][p]
  BY <1>3, <1>4 DEF Engines, Shaped
<1>8. StateOf(v).state = v.state /\ StateOf(v).content = v.content /\ StateOf(v) # NoState
  BY <1>4, StateIsTyped, StateAssumption DEF StateOf
<1>9. \A p : Coming(c, p) => p = v.path
  BY <1>1, <1>2, <1>5, <1>6 DEF Coming, Target
<1>10. Traced(c)'
  <2> SUFFICES ASSUME NEW p \in UserPath
               PROVE  \/ Clean(c, p)' \/ Coming(c, p)'
                      \/ (KnownAs(c, p, "file") /\ known[c][p].content = files[c][p])'
    BY DEF Traced
  <2>0. p \in Path
    BY DEF UserPath
  <2>1. CASE p = v.path
    <3>1. Clean(c, p) \/ (v.state = "file" /\ files[c][p] = v.content)
      BY <1>2, <1>3, <2>1 DEF Marks, Settling, IsFileEvent
    <3> QED BY <1>3, <1>7, <1>8, <2>1, <3>1 DEF Clean, KnownAs
  <2>2. CASE p # v.path
    BY <1>3, <1>7, <1>9, <2>0, <2>2 DEF Traced, Clean, KnownAs, Marks
  <2> QED BY <2>1, <2>2
<1>11. Ahead(c)' /\ Authored(c)'
  <2>1. Quiet(server, server') /\ Gently(c) /\ \A e : Missing(c, e)' => Missing(c, e)
    BY <1>3, <1>5 DEF Quiet, Gently
  <2> QED BY <2>1, QuietHeads DEF Marks
<1> QED BY <1>7, <1>10, <1>11, PlainMarks

\* What has changes of its own is moved away.
LEMMA ExamineMarks ==
  ASSUME NEW N, Engines(N), NEW c \in Device, Marks(c), OwnNames, Examine(c)
  PROVE  Marks(c)'
<1>1. PICK v : v = Target(c)
  OBVIOUS
<1>2. /\ at[c] = "pull" /\ queue[c] # <<>> /\ UNCHANGED <<server, known, seen, queue>>
      /\ \/ /\ \E q \in FreeLocalCopies(v.path) :
                 files' = [files EXCEPT ![c] = Rename(@, v.path, q)]
            /\ Go(c, IF v.state = "deleted" THEN "settle" ELSE "land")
         \/ UNCHANGED files /\ Go(c, "land")
  BY <1>1 DEF Examine, store
<1>3. v.path \in Path
  BY <1>1, <1>2, TargetIsGood DEF Engines
<1>4. \A p \in UserPath : files'[c][p] = files[c][p] \/ files'[c][p] = NoFile
  <2>1. CASE UNCHANGED files
    BY <2>1
  <2>2. ASSUME NEW q \in FreeLocalCopies(v.path),
               files' = [files EXCEPT ![c] = Rename(@, v.path, q)]
        PROVE  \A p \in UserPath : files'[c][p] = files[c][p] \/ files'[c][p] = NoFile
    <3>1. q \in Path /\ q \notin UserPath /\ UserPath \subseteq Path
      BY SyncAssumption, PathAssumption DEF FreeLocalCopies, OwnNames, UserPath
    <3>2. files'[c] = Rename(files[c], v.path, q) /\ files[c] \in [Path -> Node]
      BY <2>2 DEF Engines, Shaped, GoodDir
    <3> QED BY <1>3, <3>1, <3>2 DEF Rename
  <2> QED BY <1>2, <2>1, <2>2
<1>5. Calm(c)
  BY <1>2, <1>4 DEF Calm, Quiet, Gently
<1>6. at'[c] \in {"land", "settle"}
  BY <1>2 DEF Go, Engines, Shaped
<1>7. CASE at'[c] = "land"
  BY <1>2, <1>5, <1>7, CalmPlain DEF Pulls
<1>8. CASE at'[c] = "settle"
  <2>1. Traced(c)'
    BY <1>2, <1>5, <1>8, CalmKeeps, StillTraced DEF Calm, Marks, Pulls
  <2>2. Target(c)' = v
    BY <1>1, <1>2 DEF Target, Current
  <2>3. PICK q \in FreeLocalCopies(v.path) : files' = [files EXCEPT ![c] = Rename(@, v.path, q)]
    BY <1>2, <1>8 DEF Go, Engines, Shaped
  <2>4. v.path \in UserPath => files'[c][v.path] = NoFile
    <3>1. q \in Path /\ q \notin UserPath /\ UserPath \subseteq Path
      BY SyncAssumption, PathAssumption DEF FreeLocalCopies, OwnNames, UserPath
    <3>2. files'[c] = Rename(files[c], v.path, q) /\ files[c] \in [Path -> Node]
      BY <2>3 DEF Engines, Shaped, GoodDir
    <3> QED BY <1>3, <3>1, <3>2 DEF Rename
  <2>5. StillThere(c)' /\ Settling(c)' /\ Scanned(c)'
    BY <1>8, <2>2, <2>4 DEF StillThere, Settling, Scanned, Sending, Clean
  <2> QED BY <1>5, <2>1, <2>5, CalmKeeps DEF Marks
<1> QED BY <1>6, <1>7, <1>8

-----------------------------------------------------------------------------
(* Mixtures: downloads.                                                    *)

\* A round that ends.
LEMMA EndMarks ==
  ASSUME NEW N, Engines(N), NEW c \in Device, Calm(c), EndRound(c)
  PROVE  Marks(c)'
<1>1. at'[c] = "idle"
  BY DEF Engines, Shaped, EndRound, Go
<1> QED BY <1>1, CalmPlain

\* A tombstone takes the file away.
LEMMA TombstoneMarks ==
  ASSUME Engines(AnyFile), NEW c \in Device, Marks(c), LandTombstone(c)
  PROVE  Marks(c)'
<1>1. PICK v : v = Target(c)
  OBVIOUS
<1>2. /\ at[c] = "land" /\ UNCHANGED <<server, known, seen, queue>>
      /\ files' = [files EXCEPT ![c] = Landed(@, v)] /\ at' = [at EXCEPT ![c] = "settle"]
      /\ v.state # "file"
  BY <1>1 DEF LandTombstone, Land, IsFileEvent, Go, store
<1>3. queue[c] # <<>> /\ v \in GoodVersion(AnyFile) /\ v \in Version /\ v.path \in Path
  <2>1. queue[c] # <<>>
    BY <1>2 DEF Engines, MidRound, HasTarget
  <2> QED BY <1>1, <2>1, TargetIsGood DEF Engines
<1>4. v.state = "deleted"
  <2>1. v.state \in {"file", "dir", "deleted"}
    BY <1>3 DEF Version
  <2>2. DirNode \notin AnyFile[v.path]
    BY <1>3, SyncAssumption DEF AnyFile
  <2> QED BY <1>2, <1>3, <2>1, <2>2 DEF GoodVersion
<1>5. files[c] \in GoodDir(AnyFile) /\ files[c] \in [Path -> Node]
  BY DEF Engines, Shaped, GoodDir
<1>6. files'[c] = RemoveIfEmpty(files[c], v.path) /\ at'[c] = "settle"
  <2>1. files'[c] = Landed(files[c], v)
    BY <1>2 DEF Engines, Shaped
  <2> QED BY <1>2, <1>4, <2>1 DEF Landed, Engines, Shaped
<1>7. files[c][v.path] \in Content \cup {NoFile}
  BY <1>3, <1>5 DEF GoodDir, AnyFile
<1>8. files'[c][v.path] = NoFile /\ \A p \in Path : p # v.path => files'[c][p] = files[c][p]
  BY <1>3, <1>5, <1>6, <1>7 DEF RemoveIfEmpty
<1>9. Calm(c)
  BY <1>2, <1>8 DEF Calm, Quiet, Gently, UserPath
<1>10. Traced(c)'
  BY <1>2, <1>3, <1>6, <1>9, CalmKeeps, StillTraced DEF Calm, Marks, Pulls
<1>11. StillThere(c)' /\ Settling(c)' /\ Scanned(c)'
  <2>1. Target(c)' = v
    BY <1>1, <1>2 DEF Target, Current
  <2> QED BY <1>6, <1>8, <2>1 DEF StillThere, Settling, Scanned, Sending, Clean
<1> QED BY <1>9, <1>10, <1>11, CalmKeeps DEF Marks

\* Directories that are cleared take nothing but files away.
LEMMA EndPullMarks ==
  ASSUME NEW N, Engines(N), NEW c \in Device, Marks(c), EndPull(c)
  PROVE  Marks(c)'
<1>1. /\ at[c] = "pull" /\ queue[c] = <<>> /\ UNCHANGED <<server, known, seen>>
      /\ files' = [files EXCEPT ![c] = CleanDirs(@, DeletedDirs(c))]
      /\ Go(c, "scan") \/ EndRound(c)
  BY DEF EndPull, store
<1>2. files[c] \in GoodDir(Anywhere)
  BY DEF Engines, Shaped, GoodDir, Anywhere
<1>3. files'[c] = CleanDirs(files[c], DeletedDirs(c))
  BY <1>1 DEF Engines, Shaped
<1>4. \A p \in UserPath : files'[c][p] \in {files[c][p], NoFile}
  BY <1>2, <1>3, CleanLeaves DEF UserPath
<1>5. Calm(c)
  BY <1>1, <1>4 DEF Calm, Quiet, Gently
<1>6. at'[c] \in {"scan", "idle"}
  BY <1>1 DEF Go, EndRound, Engines, Shaped
<1> QED BY <1>1, <1>5, <1>6, CalmPlain DEF Pulls

\* Chunks come to a file of their own.
LEMMA FetchChunkMarks ==
  ASSUME NEW N, Engines(N), NEW c \in Device, Marks(c), NoFile \notin Text, FetchChunk(c)
  PROVE  Marks(c)'
<1>1. /\ at[c] = "land" /\ UNCHANGED <<server, files, known, seen>>
      /\ UNCHANGED round \/ EndRound(c)
  BY DEF FetchChunk, Rest, store, local
<1>2. Calm(c)
  BY <1>1 DEF Calm, Quiet, Gently
<1>3. CASE UNCHANGED round
  <2>1. Ahead(c)' /\ Authored(c)' /\ \A e : Missing(c, e) => Missing(c, e)'
    BY <1>2, CalmKeeps
  <2>2. todo[c] \subseteq Path
    BY DEF Engines, Shaped
  <2> QED BY <1>1, <1>3, <2>1, <2>2, StandsMarks DEF round
<1>4. CASE EndRound(c)
  BY <1>2, <1>4, EndMarks
<1> QED BY <1>1, <1>3, <1>4

\* What is replaced is the file of an event that has not been seen: nobody
\* here made the version the server has.
LEMMA ReplaceMarks ==
  ASSUME NEW N, ServerGood(N), Engines(N), NEW c \in Device, Mirrors(c), Marks(c), Replace(c)
  PROVE  Marks(c)'
<1>1. PICK v : v = Target(c)
  OBVIOUS
<1>2. PICK e0 : e0 = Current(c)
  OBVIOUS
<1>3. /\ at[c] = "land" /\ UNCHANGED <<server, known, seen, queue>>
      /\ files' = [files EXCEPT ![c][v.path] = v.content] /\ at' = [at EXCEPT ![c] = "verify"]
      /\ v.state = "file"
  BY <1>1 DEF Replace, IsFileEvent, Go, store
<1>4. queue[c] # <<>> /\ v \in Version /\ v.path \in Path /\ e0.version = v
  <2>1. queue[c] # <<>>
    BY <1>3 DEF Engines, MidRound, HasTarget
  <2> QED BY <1>1, <1>2, <2>1, TargetIsGood DEF Engines, Target
<1>5. e0 \in Log(server) /\ e0.seq = seen[c] + 1 /\ seen[c] \in Nat
  <2>1. queue[c] \in Seq(Event)
    BY GoodIsTyped DEF Engines, Shaped
  <2>2. 1 \in 1..Len(queue[c]) /\ e0 = queue[c][1]
    BY <1>2, <1>4, <2>1 DEF Current
  <2> QED BY <2>2 DEF Mirrors, InOrder, Engines, Shaped
<1>6. Missing(c, e0)
  <2>1. v.device # c
    BY <1>1, <1>3 DEF Mirrors, Applying
  <2> QED BY <1>4, <1>5, <2>1 DEF Missing
<1>7. /\ files'[c][v.path] = v.content /\ at'[c] = "verify"
      /\ \A p \in Path : p # v.path => files'[c][p] = files[c][p]
  BY <1>3, <1>4 DEF Engines, Shaped, GoodDir
<1>8. \A e : Missing(c, e)' <=> Missing(c, e)
  BY <1>3, QuietBehind DEF Quiet
<1>9. Ahead(c)'
  <2>1. \A p : Behind(c, p)' <=> Behind(c, p)
    BY <1>3, QuietBehind DEF Quiet
  <2> QED BY <1>3, <2>1 DEF Ahead, Marks
<1>10. Authored(c)'
  <2>1. Behind(c, v.path)
    BY <1>4, <1>5, <1>6 DEF Behind
  <2>2. ~(HeadAt(server, v.path) # NoVersion /\ HeadAt(server, v.path).device = c)
    BY <1>4, <2>1 DEF Ahead, Marks
  <2> QED BY <1>3, <1>7, <2>2 DEF Authored, Marks, Clean, UserPath
<1>11. Traced(c)'
  <2> SUFFICES ASSUME NEW p \in UserPath
               PROVE  \/ Clean(c, p)' \/ Coming(c, p)'
                      \/ (KnownAs(c, p, "file") /\ known[c][p].content = files[c][p])'
    BY DEF Traced
  <2>0. p \in Path
    BY DEF UserPath
  <2>1. CASE p = v.path
    <3>1. Missing(c, e0)' /\ e0.seq = seen'[c] + 1 /\ e0.version.content = files'[c][p]
      BY <1>3, <1>4, <1>5, <1>6, <1>7, <1>8, <2>1
    <3> QED BY <1>3, <1>4, <1>5, <1>7, <2>1, <3>1 DEF Coming, Pulls
  <2>2. CASE p # v.path
    <3>1. files'[c][p] = files[c][p]
      BY <1>7, <2>0, <2>2
    <3>2. Coming(c, p) => Coming(c, p)'
      BY <1>3, <1>4, <1>7, <1>8, <3>1 DEF Coming, Pulls
    <3> QED BY <1>3, <3>1, <3>2 DEF Traced, Clean, KnownAs, Marks
  <2> QED BY <2>1, <2>2
<1>12. StillThere(c)' /\ Settling(c)' /\ Scanned(c)'
  <2>1. Target(c)' = v
    BY <1>1, <1>3 DEF Target, Current
  <2> QED BY <1>3, <1>7, <2>1 DEF StillThere, Settling, Scanned, Sending, IsFileEvent
<1> QED BY <1>9, <1>10, <1>11, <1>12 DEF Marks

LEMMA VerifyMarks ==
  ASSUME NEW N, Engines(N), NEW c \in Device, Marks(c), Verify(c)
  PROVE  Marks(c)'
<1>1. /\ at[c] = "verify" /\ UNCHANGED <<server, files, known, seen>>
      /\ \/ /\ files[c][Target(c).path] = Target(c).content
            /\ Go(c, "settle") /\ UNCHANGED queue
         \/ EndRound(c)
  BY DEF Verify, Rest, store, local
<1>2. Calm(c)
  BY <1>1 DEF Calm, Quiet, Gently
<1>3. CASE EndRound(c)
  BY <1>2, <1>3, EndMarks
<1>4. CASE files[c][Target(c).path] = Target(c).content /\ Go(c, "settle") /\ UNCHANGED queue
  <2>1. at'[c] = "settle" /\ queue[c] # <<>>
    BY <1>1, <1>4 DEF Go, Engines, Shaped, MidRound, HasTarget
  <2>2. Target(c)' = Target(c) /\ IsFileEvent(c)' /\ files'[c] = files[c]
    BY <1>1, <1>4 DEF Target, Current, IsFileEvent, Marks, Settling
  <2>3. Traced(c)'
    BY <1>2, <1>4, <2>1, CalmKeeps, StillTraced DEF Calm, Marks, Pulls
  <2>4. StillThere(c)' /\ Settling(c)' /\ Scanned(c)'
    BY <1>4, <2>1, <2>2 DEF StillThere, Settling, Scanned, Sending
  <2> QED BY <1>2, <2>3, <2>4, CalmKeeps DEF Marks
<1> QED BY <1>1, <1>3, <1>4

-----------------------------------------------------------------------------
(* Mixtures: the scan.                                                     *)

\* The engine reads or has read, and is not in a pull.
LEMMA ScanMarks ==
  ASSUME NEW c, Calm(c), at[c] \in {"scan", "read"}, at'[c] \in {"read", "push"},
         at[c] = "scan" => queue[c] = <<>>,
         StillThere(c)', Scanned(c)'
  PROVE  Marks(c)'
<1>1. Traced(c)'
  <2>1. at[c] \notin {"idle"} \cup Pulls
    BY DEF Pulls
  <2> QED BY <2>1, CalmKeeps, StillTraced DEF Calm, Marks
<1>2. Settling(c)'
  BY DEF Settling
<1> QED BY <1>1, <1>2, CalmKeeps DEF Marks

LEMMA ListDirMarks ==
  ASSUME Engines(AnyFile), Jobs(AnyFile, AnyPart), NEW c \in Device, Mirrors(c), Marks(c), ListDir(c)
  PROVE  Marks(c)'
<1> DEFINE found == {p \in Path : files[c][p] # NoFile}
           listed == [p \in Path |-> IF p \in found THEN <<>> ELSE NoFile]
           unread == {p \in found : files[c][p] # <<>>}
           j == [NoJob EXCEPT !.unread = unread]
<1>1. /\ at[c] = "scan" /\ UNCHANGED <<server, files, known, seen, queue>>
      /\ job' = [job EXCEPT ![c] = j]
      /\ scan' = [scan EXCEPT ![c] = listed]
      /\ at' = [at EXCEPT ![c] = "read"]
  BY DEF ListDir, Doing, Go, local, store
<1>2. j.unread = unread
  <2>1. unread \in SUBSET Path
    OBVIOUS
  <2> HIDE DEF unread
  <2> QED BY <2>1, NoJobIsOne, JobWith
<1>3. \A p \in Path : listed[p] = IF files[c][p] # NoFile THEN <<>> ELSE NoFile
  OBVIOUS
<1>4. \A p \in Path : p \in unread <=> files[c][p] \notin {NoFile, <<>>}
  OBVIOUS
<1> HIDE DEF listed, j, unread
<1>5. scan'[c] = listed /\ job'[c].unread = unread /\ at'[c] = "read" /\ files'[c] = files[c]
  BY <1>1, <1>2 DEF Engines, Shaped, Jobs
<1>6. Calm(c)
  BY <1>1 DEF Calm, Quiet, Gently
<1>7. queue[c] = <<>>
  BY <1>1 DEF Mirrors, InOrder, Pulls
<1>8. StillThere(c)'
  BY <1>3, <1>5 DEF StillThere, Sending
<1>9. Scanned(c)'
  <2> SUFFICES ASSUME NEW p \in UserPath
               PROVE  \/ Clean(c, p)' \/ scan'[c][p] = files'[c][p]
                      \/ p \in job'[c].unread /\ IsStartOf(scan'[c][p], files'[c][p])
    BY <1>5 DEF Scanned, Sending
  <2>1. p \in Path /\ files[c][p] \in Content \cup {NoFile}
    BY DEF UserPath, Engines, Shaped, GoodDir, AnyFile
  <2>2. CASE files[c][p] = NoFile
    BY <1>5, <2>2 DEF Clean
  <2>3. CASE files[c][p] = <<>>
    BY <1>3, <1>5, <2>1, <2>3, SyncAssumption
  <2>4. CASE files[c][p] \in Content \ {<<>>} /\ files[c][p] # NoFile
    <3>1. files[c][p] \in Seq(Chunk) /\ files[c][p] # <<>>
      BY <2>4, TransferAssumption
    <3>2. Len(<<>>) = 0 /\ Len(files[c][p]) > 0
      BY <3>1
    <3>3. IsStartOf(<<>>, files[c][p])
      BY <3>2 DEF IsStartOf
    <3> QED BY <1>3, <1>4, <1>5, <2>1, <2>4, <3>3
  <2> QED BY <2>1, <2>2, <2>3, <2>4
<1> QED BY <1>1, <1>5, <1>6, <1>7, <1>8, <1>9, ScanMarks

\* A file that is read further is read as it is.
LEMMA ReadsOn ==
  ASSUME NEW x \in Seq(Chunk), NEW y \in Seq(Chunk), IsStartOf(x, y)
  PROVE  LET z == Append(x, y[Len(x) + 1])
         IN  /\ Len(z) = Len(x) + 1
             /\ Len(z) < Len(y) => IsStartOf(z, y)
             /\ Len(z) >= Len(y) => z = y
<1> DEFINE z == Append(x, y[Len(x) + 1])
<1>1. Len(x) \in Nat /\ Len(y) \in Nat /\ Len(x) < Len(y)
  BY DEF IsStartOf
<1>2. y[Len(x) + 1] \in Chunk
  BY <1>1
<1>3. /\ z \in Seq(Chunk) /\ Len(z) = Len(x) + 1
      /\ \A i \in 1..Len(x) : z[i] = x[i]
      /\ z[Len(x) + 1] = y[Len(x) + 1]
  BY <1>1, <1>2
<1> HIDE DEF z
<1>4. \A i \in 1..Len(z) : z[i] = y[i]
  BY <1>1, <1>3 DEF IsStartOf
<1>5. ASSUME Len(z) >= Len(y) PROVE z = y
  <2>1. Len(z) = Len(y)
    BY <1>1, <1>3, <1>5
  <2> QED BY <1>3, <1>4, <2>1
<1>6. ASSUME Len(z) < Len(y) PROVE IsStartOf(z, y)
  BY <1>4, <1>6 DEF IsStartOf
<1> USE DEF z
<1> QED BY <1>3, <1>5, <1>6

LEMMA ReadChunkMarks ==
  ASSUME Engines(AnyFile), Jobs(AnyFile, AnyPart), NEW c \in Device, Marks(c), ReadChunk(c)
  PROVE  Marks(c)'
<1> DEFINE p0 == CHOOSE q \in job[c].unread : TRUE
<1>0. PICK p : p = p0
  OBVIOUS
<1> DEFINE got == scan[c][p]
           file == files[c][p]
           now == IF Len(file) > Len(got) THEN Append(got, file[Len(got) + 1]) ELSE got
           left == IF Len(now) >= Len(file) THEN job[c].unread \ {p} ELSE job[c].unread
           j == [job[c] EXCEPT !.unread = left]
<1>1. /\ at[c] = "read" /\ job[c].unread # {}
      /\ scan' = [scan EXCEPT ![c][p] = now]
      /\ job' = [job EXCEPT ![c] = j]
      /\ UNCHANGED <<at, server, files, known, seen>>
  <2>1. scan' = [scan EXCEPT ![c][p] = now]
    BY <1>0 DEF ReadChunk
  <2>2. job' = [job EXCEPT ![c] = [job[c] EXCEPT !.unread = IF Len(now) >= Len(file) THEN @ \ {p} ELSE @]]
    BY <1>0 DEF ReadChunk, Doing
  <2>3. at[c] = "read" /\ job[c].unread # {} /\ UNCHANGED <<at, server, files, known, seen>>
    BY DEF ReadChunk, local, store
  <2> HIDE DEF now, file
  <2>4. job' = [job EXCEPT ![c] = j]
    BY <2>2, Zenon
  <2> QED BY <2>1, <2>3, <2>4
<1>2. p \in job[c].unread /\ p \in Path /\ job[c] \in Job /\ job[c].unread \in SUBSET Path
  <2>1. job[c] \in Job /\ job[c].unread \in SUBSET Path
    BY DEF Jobs, Job
  <2> QED BY <1>0, <1>1, <2>1
<1>3. file \in Content /\ got \in Content /\ file \in Seq(Chunk) /\ got \in Seq(Chunk)
  <2>1. file \in Content /\ got \in Content
    BY <1>1, <1>2 DEF Jobs, OnIt, Reading, AnyPart
  <2> QED BY <2>1, TransferAssumption
<1>4. j.unread = left
  <2>1. left \in SUBSET Path
    BY <1>2
  <2> HIDE DEF left
  <2> QED BY <1>2, <2>1, JobWith
<1>5. \A q \in Path : q # p => (q \in left <=> q \in job[c].unread)
  OBVIOUS
<1>6. p \in left <=> ~(Len(now) >= Len(file))
  BY <1>2
<1> HIDE DEF now, j, left
<1>7. /\ scan'[c][p] = now /\ \A q \in Path : q # p => scan'[c][q] = scan[c][q]
      /\ job'[c].unread = left /\ at'[c] = "read"
  BY <1>1, <1>2, <1>4 DEF Engines, Shaped, Jobs
<1>8. Calm(c)
  BY <1>1 DEF Calm, Quiet, Gently
<1>9. StillThere(c)'
  <2>1. files[c][p] # NoFile
    BY <1>3, SyncAssumption
  <2> QED BY <1>1, <1>7, <2>1 DEF StillThere, Sending, Marks
<1>10. Scanned(c)'
  <2> SUFFICES ASSUME NEW q \in UserPath
               PROVE  \/ Clean(c, q)' \/ scan'[c][q] = files'[c][q]
                      \/ q \in job'[c].unread /\ IsStartOf(scan'[c][q], files'[c][q])
    BY <1>7 DEF Scanned, Sending
  <2>0. q \in Path /\ files'[c][q] = files[c][q]
    BY <1>1 DEF UserPath
  <2>1. \/ Clean(c, q) \/ scan[c][q] = files[c][q]
        \/ q \in job[c].unread /\ IsStartOf(scan[c][q], files[c][q])
    BY <1>1 DEF Marks, Scanned
  <2>2. CASE Clean(c, q)
    BY <2>0, <2>2 DEF Clean
  <2>3. CASE q # p
    BY <1>5, <1>7, <2>0, <2>1, <2>2, <2>3
  <2>4. CASE q = p /\ scan[c][q] = files[c][q]
    <3>1. now = got
      BY <1>3, <2>4 DEF now
    <3> QED BY <1>7, <2>0, <2>4, <3>1
  <2>5. CASE q = p /\ IsStartOf(scan[c][q], files[c][q])
    <3>1. now = Append(got, file[Len(got) + 1])
      BY <1>3, <2>5 DEF now, IsStartOf
    <3>2. /\ Len(now) < Len(file) => IsStartOf(now, file)
          /\ Len(now) >= Len(file) => now = file
      BY <1>3, <2>5, <3>1, ReadsOn
    <3>3. Len(now) < Len(file) \/ Len(now) >= Len(file)
      <4>1. Len(now) \in Nat /\ Len(file) \in Nat
        BY <1>3, <2>5, <3>1, ReadsOn
      <4> QED BY <4>1
    <3>4. ~(Len(now) < Len(file) /\ Len(now) >= Len(file))
      <4>1. Len(now) \in Nat /\ Len(file) \in Nat
        BY <1>3, <2>5, <3>1, ReadsOn
      <4> QED BY <4>1
    <3> QED BY <1>6, <1>7, <2>0, <2>5, <3>2, <3>3, <3>4
  <2> QED BY <2>1, <2>2, <2>3, <2>4, <2>5
<1> QED BY <1>1, <1>7, <1>8, <1>9, <1>10, ScanMarks

\* What is the same as the state file says is not to be uploaded.
LEMMA EndScanMarks ==
  ASSUME NEW N, Engines(N), Jobs(AnyFile, AnyPart), NEW c \in Device, Mirrors(c), Marks(c), EndScan(c)
  PROVE  Marks(c)'
<1>1. /\ at[c] = "read" /\ job[c].unread = {}
      /\ todo' = [todo EXCEPT ![c] = ToUpload(c, scan[c])]
      /\ at' = [at EXCEPT ![c] = "push"]
      /\ UNCHANGED <<scan, server, files, known, seen>>
  BY DEF EndScan, Go, local, store
<1>2. todo'[c] = ToUpload(c, scan[c]) /\ at'[c] = "push"
  BY <1>1 DEF Engines, Shaped
<1>3. Calm(c)
  BY <1>1 DEF Calm, Quiet, Gently
<1>4. StillThere(c)'
  <2>1. \A p \in ToUpload(c, scan[c]) : p \in Path /\ scan[c][p] # NoFile
    BY SyncAssumption DEF ToUpload
  <2> QED BY <1>1, <1>2, <2>1 DEF StillThere, Marks
<1>5. Scanned(c)'
  <2> SUFFICES ASSUME NEW p \in UserPath, ~Clean(c, p)
               PROVE  scan[c][p] = files[c][p] /\ p \notin ToUpload(c, scan[c])
    BY <1>1, <1>2 DEF Scanned, Clean
  <2>1. scan[c][p] = files[c][p]
    BY <1>1 DEF Marks, Scanned
  <2>2. KnownAs(c, p, "file") /\ known[c][p].content = files[c][p]
    BY <1>1 DEF Marks, Traced, Coming, Pulls
  <2>3. files[c][p] \in Content
    <3>1. files[c][p] # NoFile /\ p \in Path
      BY DEF Clean, UserPath
    <3>2. scan[c][p] \in Content \cup {NoFile}
      BY <1>1, <3>1 DEF Jobs, OnIt, Reading, AnyFile
    <3> QED BY <2>1, <3>1, <3>2
  <2>4. files[c][p] # DirNode
    BY <2>3, SyncAssumption
  <2> QED BY <2>1, <2>2, <2>4 DEF ToUpload
<1> QED BY <1>1, <1>2, <1>3, <1>4, <1>5, ScanMarks

-----------------------------------------------------------------------------
(* Mixtures: answers.                                                      *)

\* After a push or a deletion: what is there is known or clean.
LEMMA AnswerMarks ==
  ASSUME NEW c, at[c] \notin {"idle"} \cup Pulls, at'[c] \in {"push", "drop"},
         Quiet(server, server'), seen'[c] = seen[c], Gently(c), Marks(c),
         \A p \in UserPath : known'[c][p] = known[c][p] \/ Clean(c, p) \/ Clean(c, p)',
         StillThere(c)', Scanned(c)'
  PROVE  Marks(c)'
<1>1. Traced(c)'
  BY DEF Traced, Marks, Coming, Gently, Clean, KnownAs
<1>2. Settling(c)'
  BY DEF Settling
<1>3. Ahead(c)' /\ Authored(c)'
  <2>1. \A e : Missing(c, e)' => Missing(c, e)
    BY QuietBehind
  <2> QED BY <2>1, QuietHeads DEF Marks
<1> QED BY <1>1, <1>2, <1>3 DEF Marks

LEMMA RecordUploadMarks ==
  ASSUME Engines(AnyFile), NEW c \in Device, Mirrors(c), Marks(c), OwnNames, RecordUpload(c)
  PROVE  /\ Marks(c)'
         /\ at'[c] # "idle"
<1>0. PICK p : p = reply[c].path
  OBVIOUS
<1>1. PICK v : v = reply[c].reply.version
  OBVIOUS
<1> DEFINE renamed == v.path # p /\ scan[c][p] # DirNode
<1>2. /\ p \in Path /\ v \in Version /\ v.path \in {p} \cup CopyName
      /\ at[c] = "answer" /\ reply[c].kind = "push"
  BY <1>0, <1>1, RecordUploadMoves
<1>3. files[c][p] # NoFile /\ p \notin todo[c] /\ \A q \in todo[c] : files[c][q] # NoFile
  BY <1>0, <1>2 DEF Marks, StillThere
<1>4. /\ at' = [at EXCEPT ![c] = "push"] /\ UNCHANGED <<server, seen, queue, scan, todo>>
      /\ files' = [files EXCEPT ![c] = IF renamed THEN Rename(@, p, v.path) ELSE @]
      /\ known' = [known EXCEPT ![c] = [q \in Path |-> IF q = v.path THEN StateOf(v)
                                                       ELSE IF renamed /\ q = p THEN NoState
                                                       ELSE known[c][q]]]
  BY <1>0, <1>1, <1>3 DEF RecordUpload, Go, store
<1>5. at'[c] = "push" /\ files[c] \in GoodDir(AnyFile)
  BY <1>4 DEF Engines, Shaped
<1>6. files'[c] = IF renamed THEN Rename(files[c], p, v.path) ELSE files[c]
  BY <1>4 DEF Engines, Shaped
<1>7. known'[c] = [q \in Path |-> IF q = v.path THEN StateOf(v)
                                  ELSE IF renamed /\ q = p THEN NoState
                                  ELSE known[c][q]]
  BY <1>4 DEF Engines, Shaped
<1>8. \A q \in Path : q \notin {p, v.path} => known'[c][q] = known[c][q]
  BY <1>7
<1>9. v.path \in Path /\ (v.path # p => v.path \notin UserPath)
  BY <1>2, PathAssumption DEF OwnNames
<1> HIDE DEF renamed
<1>10. /\ \A q \in Path : q \notin {p, v.path} => files'[c][q] = files[c][q]
       /\ renamed => files'[c][p] = NoFile /\ files'[c][v.path] = files[c][p]
       /\ ~renamed => files'[c] = files[c]
  <2>1. CASE renamed
    <3>1. p # v.path
      BY <2>1 DEF renamed
    <3> QED BY <1>2, <1>5, <1>6, <1>9, <2>1, <3>1, RenameMoves
  <2>2. CASE ~renamed
    BY <1>6, <2>2
  <2> QED BY <2>1, <2>2
<1>11. \A q \in UserPath : /\ q \in Path
                           /\ files'[c][q] = files[c][q] \/ (q = p /\ files'[c][q] = NoFile)
  BY <1>9, <1>10 DEF UserPath
<1>12. Gently(c)
  BY <1>11 DEF Gently
<1>13. \A q \in UserPath : Clean(c, q) \/ (scan[c][q] = files[c][q] /\ q \notin todo[c] /\ q # p)
  BY <1>0, <1>2 DEF Marks, Scanned
<1>14. \A q \in UserPath : known'[c][q] = known[c][q] \/ Clean(c, q) \/ Clean(c, q)'
  BY <1>8, <1>9, <1>11, <1>13
<1>15. StillThere(c)'
  <2> SUFFICES ASSUME NEW q \in todo[c] PROVE files'[c][q] # NoFile
    BY <1>4, <1>5 DEF StillThere
  <2>1. q \in Path
    BY DEF Engines, Shaped
  <2> QED BY <1>3, <1>10, <2>1
<1>16. Scanned(c)'
  <2> SUFFICES ASSUME NEW q \in UserPath
               PROVE  Clean(c, q)' \/ (scan[c][q] = files'[c][q] /\ q \notin todo[c])
    BY <1>4, <1>5 DEF Scanned
  <2> QED BY <1>11, <1>13 DEF Clean
<1>17. at[c] \notin {"idle"} \cup Pulls /\ Quiet(server, server') /\ seen'[c] = seen[c]
  BY <1>2, <1>4 DEF Pulls, Quiet
<1> QED BY <1>5, <1>12, <1>14, <1>15, <1>16, <1>17, AnswerMarks

LEMMA EndUploadsMarks ==
  ASSUME NEW N, Engines(N), NEW c \in Device, Marks(c), EndUploads(c)
  PROVE  Marks(c)'
<1>1. /\ at[c] = "push" /\ todo' = [todo EXCEPT ![c] = ToDelete(c, scan[c])]
      /\ at' = [at EXCEPT ![c] = "drop"]
      /\ UNCHANGED <<server, files, known, seen, queue, scan>>
  BY DEF EndUploads, Go, local, store
<1>2. at'[c] = "drop" /\ todo'[c] = ToDelete(c, scan[c])
  BY <1>1 DEF Engines, Shaped
<1>3. Scanned(c)'
  BY <1>1, <1>2 DEF Scanned, Marks, Clean, ToDelete
<1>4. StillThere(c)'
  BY <1>2 DEF StillThere, Sending
<1>5. at[c] \notin {"idle"} \cup Pulls /\ Quiet(server, server') /\ seen'[c] = seen[c] /\ Gently(c)
  BY <1>1 DEF Pulls, Quiet, Gently
<1> QED BY <1>1, <1>2, <1>3, <1>4, <1>5, AnswerMarks

LEMMA RecordDeleteMarks ==
  ASSUME NEW N, Engines(N), NEW c \in Device, Marks(c), RecordDelete(c)
  PROVE  Marks(c)'
<1>0. PICK p : p = reply[c].path
  OBVIOUS
<1>1. /\ at[c] = "answer" /\ at' = [at EXCEPT ![c] = "drop"]
      /\ UNCHANGED <<server, files, seen, queue, scan, todo>>
  BY DEF RecordDelete, Go, store
<1>2. \A q \in Path : q # p => known'[c][q] = known[c][q]
  BY <1>0 DEF RecordDelete, SetKnown, Engines, Shaped
<1>3. at'[c] = "drop"
  BY <1>1 DEF Engines, Shaped
<1>4. \A q \in UserPath : Clean(c, q) \/ (scan[c][q] = files[c][q] /\ q \notin todo[c] /\ q # p)
  BY <1>0, <1>1 DEF Marks, Scanned
<1>5. Scanned(c)'
  BY <1>1, <1>3, <1>4 DEF Scanned, Clean
<1>6. StillThere(c)'
  BY <1>3 DEF StillThere, Sending
<1>7. \A q \in UserPath : known'[c][q] = known[c][q] \/ Clean(c, q) \/ Clean(c, q)'
  BY <1>2, <1>4 DEF UserPath
<1>8. at[c] \notin {"idle"} \cup Pulls /\ Quiet(server, server') /\ seen'[c] = seen[c] /\ Gently(c)
  BY <1>1 DEF Pulls, Quiet, Gently
<1> QED BY <1>3, <1>5, <1>6, <1>7, <1>8, AnswerMarks

-----------------------------------------------------------------------------
(* Mixtures: one engine moves.                                             *)

LEMMA EngineTyped ==
  ASSUME NEW N, Engines(N), NEW d \in Device
  PROVE  /\ todo[d] \subseteq Path
         /\ at[d] = "answer" => reply[d].path \in Path
         /\ at[d] = "settle" => Target(d).path \in Path
<1>1. todo[d] \subseteq Path
  BY DEF Engines, Shaped
<1>2. at[d] = "answer" => reply[d].path \in Path
  BY DEF Engines, MidRound, HasAnswer, Answer
<1>3. at[d] = "settle" => Target(d).path \in Path
  BY TargetIsGood DEF Engines, MidRound, HasTarget
<1> QED BY <1>1, <1>2, <1>3

LEMMA TextIsFile == NoFile \notin Text /\ Text \subseteq Content
BY SyncAssumption, TransferAssumption

\* The devices and the server as they should be while no save has failed.
Right ==
  /\ saved.meta = server
  /\ Telling(server)
  /\ \A v \in server.versions : v.device \in Device
  /\ \A c \in Device : Mirrors(c) /\ Marks(c)

\* What another engine does is nothing to d, as long as the server says nothing new.
LEMMA OthersMarks ==
  ASSUME NEW N, Engines(N), NEW d \in Device, Marks(d), Quiet(server, server'),
         files'[d] = files[d], known'[d] = known[d], seen'[d] = seen[d],
         at'[d] = at[d], queue'[d] = queue[d], scan'[d] = scan[d], todo'[d] = todo[d],
         reply'[d] = reply[d], job'[d] = job[d]
  PROVE  Marks(d)'
<1>1. Calm(d)
  BY DEF Calm, Gently
<1>2. Ahead(d)' /\ Authored(d)' /\ \A e : Missing(d, e) => Missing(d, e)'
  BY <1>1, CalmKeeps
<1> QED BY <1>2, EngineTyped, TextIsFile, StandsMarks

LEMMA OneRight ==
  ASSUME NEW N, ServerGood(N), Engines(N), Right, NEW c \in Device, OnlyAt(c),
         \A d \in Device : d # c => job'[d] = job[d],
         UNCHANGED store, saved'.meta = saved.meta, Mirrors(c)', Marks(c)'
  PROVE  Right'
<1>1. (\A d \in Device : Mirrors(d)') /\ Telling(server')
  BY OneMirrors DEF Right
<1>2. ASSUME NEW d \in Device PROVE Marks(d)'
  <2>1. CASE d = c
    BY <2>1
  <2>2. CASE d # c
    <3>1. Quiet(server, server') /\ Marks(d)
      BY DEF Quiet, store, Right
    <3> QED BY <2>2, <3>1, OthersMarks DEF OnlyAt
  <2> QED BY <2>1, <2>2
<1> QED BY <1>1, <1>2 DEF Right, store

\* Steps that tell c nothing and leave the server as it is.
LEMMA AloneStays ==
  ASSUME NEW N, ServerGood(N), Engines(N), NEW c \in Device, Mirrors(c),
         UNCHANGED store, known'[c] = known[c], seen'[c] = seen[c]
  PROVE  Stays(N, c)
<1>1. Quiet(server, server') /\ fresh' = fresh /\ fresh \in Nat
  BY DEF store, Quiet, ServerGood
<1> QED BY <1>1 DEF Stays

\* A round that ends with an error, whatever it leaves in a path of nobody's.
LEMMA RestRight ==
  ASSUME NEW N, ServerGood(N), Engines(N), Jobs(AnyFile, AnyPart), Right,
         NEW c \in Device, Rest(c), at[c] # "answer",
         UNCHANGED store, UNCHANGED <<known, seen, touched>>, saved'.meta = saved.meta,
         \A d \in Device \ {c} : files'[d] = files[d], Gently(c)
  PROVE  Right'
<1>1. OnlyAt(c) /\ at'[c] = "idle" /\ queue'[c] = <<>>
  <2>1. queue'[c] = <<>>
    BY DEF Rest, EndRound, Engines, Shaped
  <2> QED BY <2>1, EndRoundMoves DEF Rest
<1>2. \A d \in Device : d # c => job'[d] = job[d]
  BY DEF Rest, Doing, Jobs
<1>3. Mirrors(c)'
  <2>1. Stays(N, c)
    BY AloneStays DEF Right
  <2> QED BY <1>1, <2>1, EndMirrors
<1>4. Marks(c)'
  <2>1. Calm(c)
    BY DEF Calm, Right, Quiet, store
  <2> QED BY <2>1, EndMarks DEF Rest
<1> QED BY <1>1, <1>2, <1>3, <1>4, OneRight

\* A step of a round with nothing of it told to the server.
LEMMA WalkRight ==
  ASSUME NEW N, ServerGood(N), Engines(N), Right, NEW c \in Device, OnlyAt(c),
         \A d \in Device : d # c => job'[d] = job[d],
         UNCHANGED store, saved'.meta = saved.meta, known'[c] = known[c], seen'[c] = seen[c],
         queue'[c] = queue[c], at[c] \notin {"answer", "idle"}, at'[c] \notin {"answer", "idle"},
         at'[c] \in Pulls \/ at[c] \notin Pulls,
         at'[c] \in {"land", "verify", "settle"} => at[c] \in {"land", "verify", "settle"},
         Marks(c)'
  PROVE  Right'
<1>1. Mirrors(c)'
  <2>1. Stays(N, c)
    BY AloneStays DEF Right
  <2> QED BY <2>1, WalkMirrors
<1> QED BY <1>1, OneRight

-----------------------------------------------------------------------------
(* Mixtures: every step that tells the server nothing.                     *)

LEMMA SyncStepRight ==
  ASSUME ServerGood(AnyFile), Engines(AnyFile), Right, Within', OwnNames,
         NEW c \in Device, SyncStep(c)
  PROVE  Right'
<1>1. /\ \/ BeginRound(c) \/ SkipEvent(c) \/ Examine(c) \/ Settle(c) \/ EndPull(c)
         \/ RecordUpload(c) \/ EndUploads(c) \/ RecordDelete(c) \/ EndPush(c)
      /\ UNCHANGED <<saved, job>>
  BY DEF SyncStep, disks
<1>2. OnlyAt(c) /\ UNCHANGED store
  BY <1>1, WalksAlone
<1>3. Telling(server) /\ Mirrors(c) /\ Marks(c)
  BY DEF Right
<1>4. Marks(c)'
  BY <1>1, <1>3, FetchMarks, SkipMarks, SettleMarks, ExamineMarks, EndPullMarks,
     RecordUploadMarks, EndUploadsMarks, RecordDeleteMarks
<1>5. at[c] = "answer" => at'[c] # "idle"
  <2>1. CASE RecordUpload(c)
    BY <1>3, <2>1, RecordUploadMarks
  <2>2. CASE RecordDelete(c)
    BY <2>2 DEF RecordDelete, Go, Engines, Shaped
  <2>3. CASE \/ BeginRound(c) \/ SkipEvent(c) \/ Examine(c) \/ Settle(c) \/ EndPull(c)
             \/ EndUploads(c) \/ EndPush(c)
    BY <2>3 DEF BeginRound, SkipEvent, Examine, Settle, EndPull, EndUploads, EndPush
  <2> QED BY <1>1, <2>1, <2>2, <2>3
<1>6. Mirrors(c)'
  BY <1>1, <1>3, <1>5, WalksMirror
<1> QED BY <1>1, <1>2, <1>4, <1>6, OneRight

LEMMA LandTombstoneRight ==
  ASSUME ServerGood(AnyFile), Engines(AnyFile), Right, Within',
         NEW c \in Device, LandTombstone(c)
  PROVE  Right'
<1>1. Land(c) /\ at[c] = "land" /\ UNCHANGED <<saved, job>>
  BY DEF LandTombstone, disks
<1>2. OnlyAt(c) /\ UNCHANGED store
  BY <1>1, WalksAlone
<1>3. Telling(server) /\ Mirrors(c) /\ Marks(c)
  BY DEF Right
<1>4. Marks(c)'
  BY <1>3, TombstoneMarks
<1>5. Mirrors(c)'
  BY <1>1, <1>3, WalksMirror
<1> QED BY <1>1, <1>2, <1>4, <1>5, OneRight

LEMMA DownloadRight ==
  ASSUME ServerGood(AnyFile), Engines(AnyFile), Jobs(AnyFile, AnyPart), Right,
         NEW c \in Device, FetchChunk(c) \/ Replace(c) \/ Verify(c)
  PROVE  Right'
<1>1. Mirrors(c) /\ Marks(c)
  BY DEF Right
<1>2. /\ UNCHANGED store /\ UNCHANGED saved /\ UNCHANGED <<known, seen, touched>>
      /\ at[c] \in {"land", "verify"}
  BY DEF FetchChunk, Replace, Verify, local, disks
<1>3. Marks(c)'
  BY <1>1, FetchChunkMarks, ReplaceMarks, VerifyMarks, TextIsFile
<1>4. CASE Rest(c) /\ UNCHANGED files
  BY <1>2, <1>4, RestRight DEF Gently
<1>5. CASE FetchChunk(c) /\ ~Rest(c)
  <2>1. UNCHANGED round /\ UNCHANGED files /\ Doing(c, [job[c] EXCEPT !.part = Append(@, NextChunk(c))])
    BY <1>5 DEF FetchChunk, local
  <2>2. OnlyAt(c) /\ \A d \in Device : d # c => job'[d] = job[d]
    BY <1>2, <2>1 DEF OnlyAt, round, Doing, Jobs
  <2> QED BY <1>2, <1>3, <2>1, <2>2, WalkRight DEF round, Pulls
<1>6. CASE Replace(c)
  <2>1. /\ files' = [files EXCEPT ![c][Target(c).path] = job[c].part]
        /\ at' = [at EXCEPT ![c] = "verify"] /\ job' = [job EXCEPT ![c] = NoJob]
        /\ UNCHANGED <<pass, queue, scan, todo, reply>>
    BY <1>6 DEF Replace, Go, Doing
  <2>2. OnlyAt(c) /\ at'[c] = "verify" /\ \A d \in Device : d # c => job'[d] = job[d]
    BY <1>2, <2>1 DEF OnlyAt, Jobs, Engines, Shaped
  <2> QED BY <1>2, <1>3, <2>1, <2>2, WalkRight DEF Pulls
<1>7. CASE Verify(c) /\ ~Rest(c)
  <2>1. /\ at' = [at EXCEPT ![c] = "settle"] /\ UNCHANGED <<pass, queue, scan, todo, reply, job>>
        /\ UNCHANGED files
    BY <1>7 DEF Verify, Go, local
  <2>2. OnlyAt(c) /\ at'[c] = "settle"
    BY <1>2, <2>1 DEF OnlyAt, Engines, Shaped
  <2> QED BY <1>2, <1>3, <2>1, <2>2, WalkRight DEF Pulls
<1>8. FetchChunk(c) \/ Verify(c) => UNCHANGED files
  BY DEF FetchChunk, Verify, local
<1> QED BY <1>4, <1>5, <1>6, <1>7, <1>8

LEMMA ScanRight ==
  ASSUME ServerGood(AnyFile), Engines(AnyFile), Jobs(AnyFile, AnyPart), Right,
         NEW c \in Device, ListDir(c) \/ ReadChunk(c) \/ EndScan(c)
  PROVE  Right'
<1>1. Mirrors(c) /\ Marks(c)
  BY DEF Right
<1>2. /\ UNCHANGED store /\ UNCHANGED saved /\ at[c] \in {"scan", "read"}
      /\ UNCHANGED <<files, known, seen, touched, pass, queue, reply>>
  BY DEF ListDir, ReadChunk, EndScan, local, disks
<1>3. Marks(c)'
  BY <1>1, ListDirMarks, ReadChunkMarks, EndScanMarks
<1>4. at'[c] \in {"read", "push"}
  BY DEF ListDir, ReadChunk, EndScan, Go, Engines, Shaped
<1>5. \A d \in Device : d # c => at'[d] = at[d] /\ scan'[d] = scan[d] /\ todo'[d] = todo[d]
  BY DEF ListDir, ReadChunk, EndScan, Go, Engines, Shaped
<1>6. \A d \in Device : d # c => job'[d] = job[d]
  BY DEF ListDir, ReadChunk, EndScan, Doing, Jobs
<1>7. OnlyAt(c)
  BY <1>2, <1>5 DEF OnlyAt
<1> QED BY <1>2, <1>3, <1>4, <1>6, <1>7, WalkRight DEF Pulls

\* The chunks are asked for, put and granted.
LEMMA SendRight ==
  ASSUME ServerGood(AnyFile), Engines(AnyFile), Jobs(AnyFile, AnyPart), Right, NEW c \in Device,
         (\E p \in Path : CheckChunks(c, p)) \/ PutChunk(c) \/ (GrantChunk(c) /\ failures' = failures),
         failures \in Nat
  PROVE  Right'
<1>1. Mirrors(c) /\ Marks(c)
  BY DEF Right
<1>2. /\ UNCHANGED store /\ saved'.meta = saved.meta /\ at[c] \in {"push"} \cup Sending
      /\ UNCHANGED <<files, known, seen, touched, pass, queue, scan, todo, reply>>
  <2>1. CASE \E p \in Path : CheckChunks(c, p)
    BY <2>1 DEF CheckChunks, local, disks
  <2>2. CASE PutChunk(c)
    BY <2>2 DEF PutChunk, local, Sending
  <2>3. CASE GrantChunk(c) /\ failures' = failures
    <3>1. UNCHANGED store /\ UNCHANGED local /\ at[c] = "grant"
      BY <2>3 DEF GrantChunk
    <3>2. Save /\ UNCHANGED <<pass, queue, scan, todo, reply>>
      <4>1. ~SaveFails
        BY <2>3 DEF SaveFails
      <4> QED BY <2>3, <4>1 DEF GrantChunk
    <3> QED BY <3>1, <3>2 DEF local, store, Save, InMemory, Right, Sending
  <2> QED BY <2>1, <2>2, <2>3
<1>3. at'[c] \in {"push"} \cup Sending /\ \A d \in Device : d # c => at'[d] = at[d]
  <2>1. CASE \E p \in Path : CheckChunks(c, p)
    BY <2>1 DEF CheckChunks, Sending, Go, Engines, Shaped
  <2>2. CASE PutChunk(c)
    <3>1. at' = [at EXCEPT ![c] = "commit"] \/ at' = [at EXCEPT ![c] = "grant"] \/ at' = at
      BY <2>2 DEF PutChunk, Go
    <3> QED BY <1>2, <3>1 DEF Sending, Engines, Shaped
  <2>3. CASE GrantChunk(c) /\ failures' = failures
    <3>1. at' = [at EXCEPT ![c] = "send"]
      BY <2>3 DEF GrantChunk, SaveFails, Go
    <3> QED BY <3>1 DEF Sending, Engines, Shaped
  <2> QED BY <2>1, <2>2, <2>3
<1>4. \A d \in Device : d # c => job'[d] = job[d]
  <2>1. CASE \E p \in Path : CheckChunks(c, p)
    BY <2>1 DEF CheckChunks, Doing, Jobs
  <2>2. CASE PutChunk(c)
    BY <2>2 DEF PutChunk, Doing, Jobs
  <2>3. CASE GrantChunk(c) /\ failures' = failures
    BY <2>3 DEF GrantChunk, SaveFails, Doing, Jobs
  <2> QED BY <2>1, <2>2, <2>3
<1>5. OnlyAt(c)
  BY <1>2, <1>3 DEF OnlyAt
<1>6. Calm(c)
  BY <1>1, <1>2 DEF Calm, Quiet, Gently, store
<1>7. Marks(c)'
  BY <1>2, <1>3, <1>6, SendMarks
<1> QED BY <1>2, <1>3, <1>4, <1>5, <1>7, WalkRight DEF Pulls, Sending

LEMMA RefuseRight ==
  ASSUME ServerGood(AnyFile), Engines(AnyFile), Jobs(AnyFile, AnyPart), Right,
         NEW c \in Device, RefuseManifest(c)
  PROVE  Right'
<1>1. /\ Rest(c) /\ at[c] = "commit" /\ UNCHANGED <<store, local, saved>>
  BY DEF RefuseManifest, disks
<1> QED BY <1>1, RestRight DEF local, Gently

-----------------------------------------------------------------------------
(* Mixtures: users, and what goes wrong.                                   *)

\* The server is back where it was.
LEMMA NobodyRight ==
  ASSUME ServerGood(AnyFile), Engines(AnyFile), Right,
         UNCHANGED <<store, local, round, job>>, saved'.meta = saved.meta
  PROVE  Right'
<1>1. Quiet(server, server')
  BY DEF Quiet, store
<1>2. ASSUME NEW d \in Device PROVE Mirrors(d)' /\ Marks(d)'
  <2>1. Mirrors(d) /\ Marks(d) /\ UNCHANGED <<files, known, seen, at, queue, scan, todo, reply, job>>
    BY DEF Right, local, round
  <2>2. Stays(AnyFile, d)
    BY <2>1, AloneStays
  <2>3. Mirrors(d)'
    BY <2>1, <2>2, StillMirrors
  <2>4. Marks(d)'
    BY <1>1, <2>1, OthersMarks
  <2> QED BY <2>3, <2>4
<1> QED BY <1>2 DEF Right, store

LEMMA WriteRight ==
  ASSUME ServerGood(AnyFile), Engines(AnyFile), Right,
         NEW c \in Device, NEW p \in Path, NEW x \in Text, WriteText(c, p, x)
  PROVE  Right'
<1>1. /\ files' = [files EXCEPT ![c] = [files[c] EXCEPT ![p] = x]]
      /\ UNCHANGED <<store, known, seen, at, pass, queue, scan, todo, reply, saved, job>>
      /\ \A d \in Device : d # c => touched'[d] = touched[d]
  BY DEF WriteText, Edit, round, disks, Engines, Shaped
<1>2. OnlyAt(c)
  BY <1>1 DEF OnlyAt
<1>3. \A q \in Path : files'[c][q] = files[c][q] \/ files'[c][q] \in Text
  <2>1. files'[c] = [files[c] EXCEPT ![p] = x] /\ files[c] \in [Path -> Node]
    BY <1>1 DEF Engines, Shaped, GoodDir
  <2> QED BY <2>1
<1>4. Mirrors(c)'
  <2>1. Stays(AnyFile, c)
    BY <1>1, AloneStays DEF Right
  <2> QED BY <1>1, <2>1, StillMirrors
<1>5. Marks(c)'
  <2>1. Calm(c)
    BY <1>1, <1>3 DEF Calm, Quiet, Gently, UserPath, store, Right
  <2>2. Ahead(c)' /\ Authored(c)' /\ \A e : Missing(c, e) => Missing(c, e)'
    BY <2>1, CalmKeeps
  <2>3. /\ at'[c] = at[c] /\ queue'[c] = queue[c] /\ scan'[c] = scan[c] /\ todo'[c] = todo[c]
        /\ reply'[c] = reply[c] /\ known'[c] = known[c] /\ seen'[c] = seen[c] /\ job'[c] = job[c]
    BY <1>1
  <2> QED BY <1>3, <2>1, <2>2, <2>3, EngineTyped, TextIsFile, StandsMarks DEF Calm
<1> QED BY <1>1, <1>2, <1>4, <1>5, OneRight

LEMMA CutRight ==
  ASSUME ServerGood(AnyFile), Engines(AnyFile), Jobs(AnyFile, AnyPart), Right,
         "answer" \notin CutAt, NEW c \in Device, CutRound(c)
  PROVE  Right'
<1>1. Rest(c) /\ at[c] # "answer" /\ UNCHANGED <<store, local, saved>>
  BY DEF CutRound, Abort, Rest, disks
<1> QED BY <1>1, RestRight DEF local, Gently

LEMMA CrashRight ==
  ASSUME ServerGood(AnyFile), Engines(AnyFile), Jobs(AnyFile, AnyPart), Right,
         OwnNames, NEW c \in Device, CrashDownload(c)
  PROVE  Right'
<1>1. Rest(c) /\ at[c] = "land" /\ UNCHANGED <<store, known, seen, touched, saved>>
  BY DEF CrashDownload, disks
<1>2. PICK q \in TempName : files' = [files EXCEPT ![c][q] = job[c].part]
  BY DEF CrashDownload
<1>3. q \in Path /\ q \notin UserPath
  BY TransferAssumption DEF OwnNames
<1>4. Gently(c) /\ \A d \in Device \ {c} : files'[d] = files[d]
  BY <1>2, <1>3 DEF Gently, UserPath, Engines, Shaped, GoodDir
<1> QED BY <1>1, <1>4, RestRight

LEMMA SaveAgainRight ==
  ASSUME ServerGood(AnyFile), Engines(AnyFile), Right, SaveAgain
  PROVE  Right'
<1>1. UNCHANGED <<store, local, round, job>> /\ saved'.meta = saved.meta
  BY DEF SaveAgain, InMemory, vars, Right
<1> QED BY <1>1, NobodyRight

LEMMA RestartRight ==
  ASSUME ServerGood(AnyFile), Engines(AnyFile), Right, Restart
  PROVE  Right'
<1>1. UNCHANGED <<store, local, round, job, saved>>
  BY DEF Restart, store, Right
<1> QED BY <1>1, NobodyRight

-----------------------------------------------------------------------------
(* Mixtures: versions.                                                     *)

\* A request that was answered: what it was about is clean.
LEMMA AnsweredMarks ==
  ASSUME NEW c, Marks(c), at[c] \in {"commit", "drop"}, at'[c] = "answer",
         files'[c] = files[c], scan'[c] = scan[c], known'[c] = known[c], seen'[c] = seen[c],
         NEW p \in todo[c], todo'[c] = todo[c] \ {p},
         reply'[c].path = p, reply'[c].kind = "push" => at[c] = "commit",
         \A e : Missing(c, e) => Missing(c, e)', Ahead(c)', Authored(c)'
  PROVE  Marks(c)'
<1>1. Traced(c)'
  <2>1. at[c] \notin {"idle"} \cup Pulls /\ Gently(c)
    BY DEF Pulls, Gently
  <2> QED BY <2>1, StillTraced DEF Marks
<1>2. StillThere(c)'
  BY DEF StillThere, Sending, Marks
<1>3. Scanned(c)'
  BY DEF Scanned, Sending, Marks, Clean
<1>4. Settling(c)'
  BY DEF Settling
<1> QED BY <1>1, <1>2, <1>3, <1>4 DEF Marks

\* What is to be pushed or dropped is clean.
LEMMA TodoIsClean ==
  ASSUME NEW c, Marks(c), at[c] \in {"commit", "drop"}, NEW p \in todo[c], p \in UserPath
  PROVE  Clean(c, p)
BY DEF Marks, Scanned, Sending

\* A version that c is told of: nothing of it is a mixture in c's directory.
LEMMA AddRight ==
  ASSUME NEW N, ServerGood(N), ServerGood(N)', Engines(N), Right, Within',
         \A d \in Device : Mirrors(d)', Telling(server'), saved'.meta = server',
         NEW c \in Device, OnlyAt(c), \A d \in Device : d # c => job'[d] = job[d],
         NEW v, Appends(server, server', v), fresh <= v.id, fresh <= fresh', v.device = c,
         UNCHANGED <<files, known, seen>>,
         at[c] \in {"commit", "drop"}, at'[c] = "answer", scan'[c] = scan[c],
         NEW p \in todo[c], todo'[c] = todo[c] \ {p},
         reply'[c].path = p, reply'[c].kind = "push" => at[c] = "commit",
         v.path = p \/ v.path \notin UserPath
  PROVE  Right'
<1>1. \A d \in Device : Mirrors(d) /\ Marks(d)
  BY DEF Right
<1>2. \A d \in Device : Adds(v, d)
  BY <1>1, AddsHere DEF Right
<1>3. Marks(c)'
  <2>1. Gently(c) /\ Own(c)' /\ Ahead(c) /\ Authored(c)
    BY <1>1 DEF Gently, Mirrors, Marks
  <2>2. v.path \in UserPath => Clean(c, v.path)'
    BY <1>1, TodoIsClean DEF Clean
  <2>3. Ahead(c)' /\ Authored(c)'
    BY <1>2, <2>1, <2>2, OwnHeads
  <2>4. \A e : Missing(c, e) => Missing(c, e)'
    BY <1>2, AddsMissing
  <2> QED BY <1>1, <2>3, <2>4, AnsweredMarks
<1>4. ASSUME NEW d \in Device, d # c PROVE Marks(d)'
  <2>1. Gently(d) /\ Ahead(d) /\ Authored(d)
    BY <1>1 DEF Gently, Marks
  <2>2. Ahead(d)' /\ Authored(d)'
    BY <1>2, <1>4, <2>1, OthersHeads
  <2>3. \A e : Missing(d, e) => Missing(d, e)'
    BY <1>2, AddsMissing
  <2>4. /\ at'[d] = at[d] /\ queue'[d] = queue[d] /\ scan'[d] = scan[d] /\ todo'[d] = todo[d]
        /\ reply'[d] = reply[d] /\ known'[d] = known[d] /\ seen'[d] = seen[d] /\ job'[d] = job[d]
        /\ files'[d] = files[d]
    BY <1>4 DEF OnlyAt
  <2> QED BY <1>1, <2>2, <2>3, <2>4, EngineTyped, TextIsFile, StandsMarks
<1>5. \A w \in server'.versions : w.device \in Device
  <2>1. server'.versions = server.versions \cup {v}
    BY DEF Appends
  <2> QED BY <2>1 DEF Right
<1> QED BY <1>3, <1>4, <1>5 DEF Right

\* Nothing new was told, and c's round is over or goes on.
LEMMA QuietRight ==
  ASSUME NEW N, Engines(N), Right, \A d \in Device : Mirrors(d)', Telling(server'),
         saved'.meta = server', Quiet(server, server'),
         NEW c \in Device, OnlyAt(c), \A d \in Device : d # c => job'[d] = job[d],
         Marks(c)'
  PROVE  Right'
<1>1. ASSUME NEW d \in Device PROVE Marks(d)'
  <2>1. CASE d = c
    BY <2>1
  <2>2. CASE d # c
    <3>1. Marks(d)
      BY DEF Right
    <3> QED BY <2>2, <3>1, OthersMarks DEF OnlyAt
  <2> QED BY <2>1, <2>2
<1>2. server'.versions = server.versions
  BY DEF Quiet
<1> QED BY <1>1, <1>2 DEF Right

LEMMA CommitRight ==
  ASSUME TInv(AnyFile, AnyPart), ServerGood(AnyFile)', Engines(AnyFile)', Right, Within', OwnNames,
         NEW c \in Device, CommitFile(c)
  PROVE  Right'
<1>0. /\ ServerGood(AnyFile) /\ Engines(AnyFile) /\ Jobs(AnyFile, AnyPart)
      /\ Telling(server) /\ \A d \in Device : Mirrors(d) /\ Marks(d)
  BY DEF TInv, Right
<1>1. PICK p : p = job[c].path
  OBVIOUS
<1>2. /\ at[c] = "commit" /\ SendUpload(c, p) /\ UNCHANGED <<files, known, seen, touched>>
      /\ job' = [job EXCEPT ![c] = NoJob] /\ saved'.meta = server'
  BY <1>1 DEF CommitFile, Doing, local, Save, InMemory
<1>3. p \in todo[c] /\ p \in Path /\ scan[c][p] # DirNode /\ Parent[p] = NoPath
  <2>1. p \in todo[c]
    BY <1>1, <1>2, SendingJob DEF Sending
  <2>2. p \in Path /\ scan[c][p] \in Content
    BY <1>2, <2>1, AnyFits, SentIsFile
  <2> QED BY <2>1, <2>2, SyncAssumption, TransferAssumption
<1>4. (\A d \in Device : Mirrors(d)') /\ Telling(server')
  BY <1>0, <1>2, <1>3, UploadMirrors
<1>5. (\E r : Answered(c, p, "push", r)) \/ EndRound(c)
  BY <1>2 DEF SendUpload
<1>6. OnlyAt(c)
  BY <1>0, <1>2, <1>5, AnsweredMoves, EndRoundMoves
<1>7. \A d \in Device : d # c => job'[d] = job[d]
  BY <1>0, <1>2 DEF Jobs
<1>8. CASE Quiet(server, server') /\ at'[c] = "idle" /\ queue'[c] = <<>>
  <2>1. Calm(c)
    BY <1>0, <1>2, <1>8 DEF Calm, Gently
  <2>2. Marks(c)'
    BY <1>8, <2>1, CalmPlain
  <2> QED BY <1>0, <1>2, <1>4, <1>6, <1>7, <1>8, <2>2, QuietRight
<1>9. ASSUME NEW v, Appends(server, server', v), fresh <= v.id, fresh <= fresh', v.device = c,
             at'[c] = "answer", reply'[c].path = p, reply'[c].kind = "push",
             reply'[c].reply.version = v
      PROVE  Right'
  <2>1. v.path = p \/ v.path \notin UserPath
    BY <1>9 DEF Engines, MidRound, HasAnswer, OwnNames
  <2>2. ~EndRound(c)
    BY <1>0, <1>9 DEF EndRound, Go, Engines, Shaped
  <2>3. PICK r : Answered(c, p, "push", r)
    BY <1>5, <2>2
  <2>4. scan'[c] = scan[c] /\ todo'[c] = todo[c] \ {p}
    BY <1>0, <2>3 DEF Answered, Engines, Shaped
  <2> QED BY <1>0, <1>2, <1>3, <1>4, <1>6, <1>7, <1>9, <2>1, <2>4, AddRight
<1>10. \/ Quiet(server, server') /\ at'[c] = "idle" /\ queue'[c] = <<>>
       \/ fresh <= fresh' /\ \E v :
            /\ Appends(server, server', v) /\ fresh <= v.id /\ v.device = c
            /\ at'[c] = "answer" /\ reply'[c].path = p /\ reply'[c].kind = "push"
            /\ reply'[c].reply.version = v
  BY <1>0, <1>2, <1>3, UploadEnds
<1> QED BY <1>8, <1>9, <1>10

LEMMA DeleteRight ==
  ASSUME TInv(AnyFile, AnyPart), ServerGood(AnyFile)', Right, Within',
         NEW c \in Device, NEW p \in Path, DeleteOnServer(c, p), failures' = failures
  PROVE  Right'
<1>0. /\ ServerGood(AnyFile) /\ Engines(AnyFile)
      /\ Telling(server) /\ \A d \in Device : Mirrors(d) /\ Marks(d)
  BY DEF TInv, Right
<1>1. /\ at[c] = "drop" /\ p \in todo[c] /\ DeleteRemote(c, p)
      /\ UNCHANGED <<files, known, seen, touched, job>> /\ saved'.meta = server'
      /\ (\E r : Answered(c, p, "drop", r)) \/ EndRound(c)
  BY DEF DeleteOnServer, DeleteRemote, local, Save, InMemory
<1>2. (\A d \in Device : Mirrors(d)') /\ Telling(server')
  BY <1>0, <1>1, DeleteMirrors
<1>3. OnlyAt(c) /\ \A d \in Device : d # c => job'[d] = job[d]
  BY <1>0, <1>1, AnsweredMoves, EndRoundMoves
<1>4. ASSUME NEW r, Answered(c, p, "drop", r)
      PROVE  /\ at'[c] = "answer" /\ scan'[c] = scan[c] /\ todo'[c] = todo[c] \ {p}
             /\ reply'[c].path = p /\ reply'[c].kind = "drop"
  BY <1>0, <1>4 DEF Answered, Go, Engines, Shaped
<1>5. EndRound(c) => at'[c] = "idle"
  BY <1>0 DEF EndRound, Go, Engines, Shaped
<1>6. CASE server' = server
  <2>1. Calm(c) /\ Quiet(server, server')
    BY <1>0, <1>1, <1>6 DEF Calm, Gently, Quiet
  <2>2. Marks(c)'
    <3>1. CASE EndRound(c)
      BY <1>5, <2>1, <3>1, CalmPlain
    <3>2. ASSUME NEW r, Answered(c, p, "drop", r) PROVE Marks(c)'
      <4>1. Ahead(c)' /\ Authored(c)' /\ \A e : Missing(c, e) => Missing(c, e)'
        BY <2>1, CalmKeeps
      <4>2. /\ at'[c] = "answer" /\ scan'[c] = scan[c] /\ todo'[c] = todo[c] \ {p}
            /\ reply'[c].path = p /\ reply'[c].kind = "drop"
        BY <1>4, <3>2
      <4> QED BY <1>0, <1>1, <4>1, <4>2, AnsweredMarks
    <3> QED BY <1>1, <3>1, <3>2
  <2> QED BY <1>0, <1>1, <1>2, <1>3, <2>1, <2>2, QuietRight
<1>7. ASSUME NEW v, Appends(server, server', v), fresh <= v.id, fresh <= fresh', v.device = c,
             v.path = p, at'[c] = "answer"
      PROVE  Right'
  <2>1. PICK r : Answered(c, p, "drop", r)
    BY <1>1, <1>5, <1>7
  <2>2. /\ scan'[c] = scan[c] /\ todo'[c] = todo[c] \ {p}
        /\ reply'[c].path = p /\ reply'[c].kind = "drop"
    BY <1>4, <2>1
  <2> QED BY <1>0, <1>1, <1>2, <1>3, <1>7, <2>2, AddRight
<1> DEFINE h == HeadAt(server, p)
           base == FieldOf(c, p, "id")
<1>8. \/ server' = server
      \/ h # NoVersion /\ base = h.id /\ h.state = "deleted"
      \/ fresh <= fresh' /\ \E v :
           /\ Appends(server, server', v) /\ fresh <= v.id /\ v.device = c
           /\ v.path = p /\ at'[c] = "answer"
  BY <1>0, <1>1, DeleteEndsRound
<1>9. ~(h # NoVersion /\ base = h.id /\ h.state = "deleted")
  <2>1. Live(known[c], p)
    BY <1>0, <1>1 DEF Engines, MidRound, Deletes
  <2>2. Sound(server, fresh, fresh) /\ seen[c] \in Nat /\ queue[c] = <<>> /\ Mirrors(c)
    BY <1>0, <1>1 DEF ServerGood, Engines, Shaped, Mirrors, InOrder, Pulls
  <2>3. h # NoVersion /\ base = h.id => known[c][p].state = h.state
    BY <1>0, <1>1, <2>2, BaseTells
  <2> QED BY <2>1, <2>3 DEF Live
<1> QED BY <1>6, <1>7, <1>8, <1>9

-----------------------------------------------------------------------------
(* Mixtures: every step of Transfer.                                       *)

RightInv == TInv(AnyFile, AnyPart) /\ (failures = 0 => Right)

LEMMA RightBegins == TransferInit => RightInv
<1> SUFFICES ASSUME TransferInit PROVE RightInv
  OBVIOUS
<1>1. TInv(AnyFile, AnyPart)
  BY AnyFits, TransferBegins
<1>2. Telling(server) /\ \A c \in Device : Mirrors(c)
  BY MirrorsBegin DEF TransferInit
<1>3. saved.meta = server /\ server.versions = {} /\ \A p \in Path : HeadAt(server, p) = NoVersion
  BY DEF TransferInit, Init, NewMetadata, HeadAt, HasVersion
<1>4. ASSUME NEW c \in Device PROVE Marks(c)
  <2>1. at[c] = "idle" /\ \A p \in UserPath : p \in Path /\ files[c][p] = NoFile
    BY <1>4 DEF TransferInit, Init, Nothing, UserPath
  <2>2. StillThere(c) /\ Settling(c) /\ Scanned(c)
    BY <2>1 DEF StillThere, Settling, Scanned, Sending
  <2>3. Traced(c) /\ Ahead(c) /\ Authored(c)
    BY <1>3, <2>1 DEF Traced, Clean, Ahead, Authored
  <2> QED BY <2>2, <2>3 DEF Marks
<1> QED BY <1>1, <1>2, <1>3, <1>4 DEF RightInv, Right

\* A save that failed stays in the count.
LEMMA FailuresCount ==
  ASSUME [TransferNext]_transferVars, failures \in Nat
  PROVE  failures' \in {failures, failures + 1}
<1>1. ASSUME NEW c \in Device, Work(c) PROVE failures' \in {failures, failures + 1}
  <2>1. CASE SyncStep(c) \/ LandTombstone(c) \/ FetchChunk(c) \/ Replace(c) \/ Verify(c)
             \/ ListDir(c) \/ ReadChunk(c) \/ EndScan(c) \/ RefuseManifest(c)
    BY <2>1 DEF SyncStep, LandTombstone, FetchChunk, Replace, Verify, ListDir, ReadChunk, EndScan,
                RefuseManifest, disks
  <2>2. CASE PutChunk(c)
    BY <2>2 DEF PutChunk
  <2>3. CASE GrantChunk(c)
    BY <2>3 DEF GrantChunk, Save, InMemory, SaveFails
  <2>4. CASE CommitFile(c)
    BY <2>4 DEF CommitFile, Save, InMemory
  <2>5. CASE \E p \in Path : CheckChunks(c, p) \/ DeleteOnServer(c, p)
    BY <2>5 DEF CheckChunks, DeleteOnServer, Save, InMemory, disks
  <2> QED BY <1>1, <2>1, <2>2, <2>3, <2>4, <2>5 DEF Work
<1>2. ASSUME NEW c \in Device,
             CommitUnsaved(c) \/ CutRound(c) \/ CrashDownload(c)
             \/ \E p \in Path, x \in Text : WriteText(c, p, x)
      PROVE  failures' \in {failures, failures + 1}
  BY <1>2 DEF CommitUnsaved, SaveFails, CutRound, CrashDownload, WriteText, disks
<1>3. CASE SaveAgain \/ Restart \/ UNCHANGED transferVars
  BY <1>3 DEF SaveAgain, Restart, transferVars, disks
<1> QED BY <1>1, <1>2, <1>3 DEF TransferNext

LEMMA WorkRight ==
  ASSUME TInv(AnyFile, AnyPart), TInv(AnyFile, AnyPart)', Right, Within', OwnNames,
         NEW c \in Device, Work(c), failures' = failures
  PROVE  Right'
<1>1. /\ ServerGood(AnyFile) /\ Engines(AnyFile) /\ Jobs(AnyFile, AnyPart) /\ failures \in Nat
      /\ ServerGood(AnyFile)' /\ Engines(AnyFile)'
  BY DEF TInv, Disk
<1>2. CASE SyncStep(c) \/ LandTombstone(c)
  BY <1>1, <1>2, SyncStepRight, LandTombstoneRight
<1>3. CASE FetchChunk(c) \/ Replace(c) \/ Verify(c)
  BY <1>1, <1>3, DownloadRight
<1>4. CASE ListDir(c) \/ ReadChunk(c) \/ EndScan(c)
  BY <1>1, <1>4, ScanRight
<1>5. CASE (\E p \in Path : CheckChunks(c, p)) \/ PutChunk(c) \/ GrantChunk(c)
  BY <1>1, <1>5, SendRight
<1>6. CASE CommitFile(c)
  BY <1>1, <1>6, CommitRight
<1>7. CASE RefuseManifest(c)
  BY <1>1, <1>7, RefuseRight
<1>8. CASE \E p \in Path : DeleteOnServer(c, p)
  BY <1>1, <1>8, DeleteRight
<1> QED BY <1>2, <1>3, <1>4, <1>5, <1>6, <1>7, <1>8 DEF Work

LEMMA RightSteps ==
  ASSUME OwnNames, "answer" \notin CutAt, RightInv, Within', [TransferNext]_transferVars
  PROVE  RightInv'
<1>1. TInv(AnyFile, AnyPart) /\ TInv(AnyFile, AnyPart)'
  BY AnyFits, TransferStepGoes DEF RightInv
<1>2. ServerGood(AnyFile) /\ Engines(AnyFile) /\ Jobs(AnyFile, AnyPart) /\ failures \in Nat
  BY <1>1 DEF TInv, Disk
<1> SUFFICES ASSUME failures' = 0 PROVE Right'
  BY <1>1 DEF RightInv
<1>3. failures = 0 /\ failures' = failures /\ Right
  <2>1. failures' \in {failures, failures + 1}
    BY <1>2, FailuresCount
  <2> QED BY <1>2, <2>1 DEF RightInv
<1>4. ASSUME NEW c \in Device, Work(c) PROVE Right'
  BY <1>1, <1>3, <1>4, WorkRight
<1>5. ASSUME NEW c \in Device, CommitUnsaved(c) PROVE Right'
  <2>1. failures' = failures + 1
    BY <1>5 DEF CommitUnsaved, SaveFails
  <2> QED BY <1>3, <2>1
<1>6. ASSUME NEW c \in Device, CutRound(c) \/ CrashDownload(c) PROVE Right'
  BY <1>2, <1>3, <1>6, CutRight, CrashRight
<1>7. ASSUME NEW c \in Device, NEW p \in Path, NEW x \in Text, WriteText(c, p, x) PROVE Right'
  BY <1>2, <1>3, <1>7, WriteRight
<1>8. CASE SaveAgain \/ Restart
  BY <1>2, <1>3, <1>8, SaveAgainRight, RestartRight
<1>9. CASE UNCHANGED transferVars
  <2>1. UNCHANGED <<store, local, round, job, saved>>
    BY <1>9 DEF transferVars, vars, disks
  <2> QED BY <1>2, <1>3, <2>1, NobodyRight
<1> QED BY <1>4, <1>5, <1>6, <1>7, <1>8, <1>9 DEF TransferNext

\* Where all have settled, the one that made the version has it, and has none
\* but a text.
LEMMA RightIsEnough == RightInv => SettledIsRight
<1> SUFFICES ASSUME RightInv, failures = 0
             PROVE  /\ SettledMirrorsServer
                    /\ (\A c \in Device : Settled(c))
                         => \A p \in UserPath : ServerNode(p) \in Text \cup {NoFile}
  BY DEF SettledIsRight
<1>1. ServerGood(AnyFile) /\ Engines(AnyFile) /\ Right
  BY DEF RightInv, TInv
<1>2. \A c \in Device : Mirrors(c) /\ Marks(c)
  BY <1>1 DEF Right
<1>3. SettledMirrorsServer
  BY <1>1, <1>2, SettledMirrors DEF SettledMirrorsServer
<1>4. ASSUME \A c \in Device : Settled(c), NEW p \in UserPath, ServerNode(p) \notin Text \cup {NoFile}
      PROVE  FALSE
  <2> DEFINE h == HeadAt(server, p)
  <2>1. p \in Path
    BY DEF UserPath
  <2>2. IsLive(server.files[p])
    BY <1>4 DEF ServerNode
  <2>3. h = server.files[p].current /\ h # NoVersion /\ h.state # "deleted" /\ h \in server.versions
    BY <1>1, <2>1, <2>2 DEF IsLive, HasVersion, HeadAt, Headed, ServerGood, Sound
  <2>4. h.state = "file"
    <3>1. h.state # "dir"
      BY <1>1, <2>3, NoDirsIn
    <3>2. h \in Version
      BY <1>1, <2>3 DEF Metadata, ServerGood, Sound
    <3> QED BY <2>3, <3>1, <3>2 DEF Version
  <2>5. ServerNode(p) = h.content
    BY <2>2, <2>3, <2>4 DEF ServerNode, IsLiveDir
  <2>6. h.device \in Device
    BY <1>1, <2>3 DEF Right
  <2>7. PICK d \in Device : d = h.device
    BY <2>6
  <2>8. Clean(d, p)
    BY <1>2, <1>4, <2>3, <2>4, <2>5, <2>7 DEF Marks, Authored
  <2>9. files[d][p] = ServerNode(p)
    BY <1>3, <1>4, <2>1 DEF SettledMirrorsServer
  <2> QED BY <1>4, <2>8, <2>9 DEF Clean
<1> QED BY <1>3, <1>4

\* In a space of files whose copies and leftovers have names of their own, a
\* device that has settled holds what the server holds, and a file that changed
\* while it was read is a text again when all have, through crashes of the client
\* and of the server, as long as no save failed, no answer was lost on the way
\* and the log still had every event (HashFile, uploadFile, downloadVersion,
\* EventsAfter).
THEOREM SettledTextsAreRight ==
  ASSUME OwnNames, "answer" \notin CutAt
  PROVE  TransferSpec /\ []Within => []SettledIsRight
<1>1. TransferInit => RightInv
  BY RightBegins
<1>2. RightInv /\ Within' /\ [TransferNext]_transferVars => RightInv'
  BY RightSteps
<1>3. RightInv => SettledIsRight
  BY RightIsEnough
<1> QED BY <1>1, <1>2, <1>3, PTL DEF TransferSpec

=============================================================================
