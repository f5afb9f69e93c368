------------------------------ MODULE Transfer ------------------------------
(***************************************************************************)
(* How file contents travel: Sync with a content cut into chunks.          *)
(*                                                                         *)
(* The client reads a file chunk by chunk for its hashes (HashFile), asks  *)
(* which chunks are missing, reads the file once more to send those        *)
(* (WriteFileChunks, PutChunk, GrantAccountChunk) and commits the hashes   *)
(* (verifyManifest).  A download collects the chunks in a temporary file   *)
(* beside its target, renames it and verifies the result (AtomicWrite,     *)
(* downloadVersion).  Chunk files, metadata.json and the metadata in       *)
(* memory are three things on the server, and a crash takes the last.      *)
(*                                                                         *)
(* Everything else of a round is Sync's.  Here users only write files; no  *)
(* paths lie in directories; the saves of deletions do not fail (Store).   *)
(***************************************************************************)
EXTENDS Sync

CONSTANTS
  Chunk, NoChunk,
  Text,         \* the contents users write
  TempName,     \* names os.CreateTemp gives (.<name>.<random>.sync_tmp)
  CutAt,        \* the places at which a round may be cut short
  MaxFaults     \* bound on rounds cut short, saves that fail and server crashes

VARIABLES
  stored,    \* the chunk files under chunks/
  granted,   \* the account's chunks (state.AccountChunks)
  saved,     \* metadata.json: [meta, granted]
  job,       \* device -> the transfer its engine is at
  failures, restarts

ASSUME TransferAssumption ==
  /\ Content \subseteq Seq(Chunk) /\ Text \subseteq Content
  /\ \A x \in Content : \A n \in 0..Len(x) : [1..n -> Chunk] \subseteq Content
  /\ NoChunk \notin Chunk
  /\ TempName \subseteq Path \ (CopyName \cup LocalCopyName)
  /\ \A p \in Path : Parent[p] = NoPath
  /\ MaxFaults \in Nat

disks == <<stored, granted, saved, failures, restarts>>
transferVars == <<vars, disks, job>>

\* land: chunks are being fetched; verify: the file was replaced; read: the
\* scan is reading; send: chunks are being sent; grant: one was put and is
\* not yet granted; commit: the manifest is about to be sent.
TransferPlaces == Places \cup {"verify", "read", "send", "grant", "commit"}

Job ==
  [part : Seq(Chunk),           \* the temporary file
   unread : SUBSET Path,        \* files the scan has not read to the end
   path : Path \cup {NoPath},   \* the file being sent,
   missing : SUBSET Chunk,      \* the chunks of it the server asked for,
   sent : Nat,                  \* how many of its chunks were read for that
   chunk : Chunk \cup {NoChunk}]

NoJob == [part |-> <<>>, unread |-> {}, path |-> NoPath, missing |-> {},
          sent |-> 0, chunk |-> NoChunk]

TransferTypeOK ==
  /\ server \in Metadata /\ fresh \in Nat \ {0}
  /\ files \in [Device -> [Path -> Node]]
  /\ known \in [Device -> [Path -> LocalState \cup {NoState}]]
  /\ at \in [Device -> TransferPlaces]
  /\ scan \in [Device -> [Path -> Node]]
  /\ stored \subseteq Chunk /\ granted \subseteq stored
  /\ saved.meta \in Metadata /\ saved.granted \subseteq granted
  /\ job \in [Device -> Job]
  /\ aborts + failures + restarts \in 0..MaxFaults

TransferInit ==
  /\ Init
  /\ stored = {} /\ granted = {}
  /\ saved = [meta |-> server, granted |-> {}]
  /\ job = [c \in Device |-> NoJob]
  /\ failures = 0 /\ restarts = 0

ChunksOf(x) == {x[i] : i \in DOMAIN x}

\* Mutant: a chunk file is enough, whoever sent it.
Stored(chunk) == chunk \in stored

\* HasAccountChunk.
Available(chunk) == chunk \in stored /\ chunk \in granted

MayFail == aborts + failures + restarts < MaxFaults

Doing(c, new) == job' = [job EXCEPT ![c] = new]
Rest(c) == EndRound(c) /\ Doing(c, NoJob)

-----------------------------------------------------------------------------
(* Users. *)

\* A file is replaced at once; who reads it meanwhile gets some of both.
WriteText(c, p, x) ==
  /\ MayEdit(c)
  /\ "file" \in KindsAt[p]
  /\ x # files[c][p]
  /\ Edit(c, p, [files[c] EXCEPT ![p] = x], FALSE)
  /\ UNCHANGED <<disks, job>>

-----------------------------------------------------------------------------
(* Download: applyVersion after its look at the local file. *)

IsFileEvent(c) == Target(c).state = "file"

\* Tombstones have nothing to transfer.
LandTombstone(c) ==
  /\ at[c] = "land"
  /\ ~IsFileEvent(c)
  /\ Land(c)
  /\ UNCHANGED <<disks, job>>

NextChunk(c) == Target(c).content[Len(job[c].part) + 1]
IsIncomplete(c) == Len(job[c].part) < Len(Target(c).content)

\* Mutant: the chunks are written to the target itself.
FetchInPlace(c) ==
  /\ at[c] = "land"
  /\ IsFileEvent(c)
  /\ IsIncomplete(c)
  /\ Doing(c, [job[c] EXCEPT !.part = Append(@, NextChunk(c))])
  /\ files' = [files EXCEPT ![c][Target(c).path] = job'[c].part]
  /\ UNCHANGED <<store, known, seen, touched, round, bounds, wanted, disks>>

\* getChunk, and io.Copy to the temporary file.  The hash of what came is
\* compared with the chunk's name: a chunk is what it was asked for.
FetchChunk(c) ==
  /\ at[c] = "land"
  /\ IsFileEvent(c)
  /\ IsIncomplete(c)
  /\ IF Available(NextChunk(c))
       THEN /\ Doing(c, [job[c] EXCEPT !.part = Append(@, NextChunk(c))])
            /\ UNCHANGED round
       ELSE Rest(c)
  /\ UNCHANGED <<store, local, bounds, wanted, disks>>

\* The rename that ends AtomicWrite: it replaces whatever is there by then.
Replace(c) ==
  /\ at[c] = "land"
  /\ IsFileEvent(c)
  /\ job[c].part = Target(c).content
  /\ files' = [files EXCEPT ![c][Target(c).path] = job[c].part]
  /\ Go(c, "verify")
  /\ Doing(c, NoJob)
  /\ UNCHANGED <<store, known, seen, touched, pass, queue, scan, todo, reply, bounds, wanted, disks>>

\* HashFile of the target; another content ends the round with an error.
Verify(c) ==
  /\ at[c] = "verify"
  /\ IF files[c][Target(c).path] = Target(c).content
       THEN Go(c, "settle") /\ UNCHANGED <<pass, queue, scan, todo, reply, job>>
       ELSE Rest(c)
  /\ UNCHANGED <<store, local, bounds, wanted, disks>>

-----------------------------------------------------------------------------
(* Scan: scanLocal and HashFile. *)

ListDir(c) ==
  /\ at[c] = "scan"
  /\ LET found == {p \in Path : files[c][p] # NoFile}
     IN  /\ Doing(c, [NoJob EXCEPT !.unread = {p \in found : files[c][p] # <<>>}])
         /\ scan' = [scan EXCEPT ![c] = [p \in Path |-> IF p \in found THEN <<>> ELSE NoFile]]
  /\ Go(c, "read")
  /\ UNCHANGED <<store, local, pass, queue, todo, reply, bounds, wanted, disks>>

\* io.ReadFull of the next chunk.  The files come in the order of their
\* names: in some fixed order.
ReadChunk(c) ==
  /\ at[c] = "read"
  /\ job[c].unread # {}
  /\ LET p    == CHOOSE q \in job[c].unread : TRUE
         got  == scan[c][p]
         file == files[c][p]
         now  == IF Len(file) > Len(got) THEN Append(got, file[Len(got) + 1]) ELSE got
     IN  /\ scan' = [scan EXCEPT ![c][p] = now]
         /\ Doing(c, [job[c] EXCEPT !.unread = IF Len(now) >= Len(file) THEN @ \ {p} ELSE @])
  /\ UNCHANGED <<store, local, at, pass, queue, todo, reply, bounds, wanted, disks>>

EndScan(c) ==
  /\ at[c] = "read"
  /\ job[c].unread = {}
  /\ todo' = [todo EXCEPT ![c] = ToUpload(c, scan[c])]
  /\ Go(c, "push")
  /\ Doing(c, NoJob)
  /\ UNCHANGED <<store, local, pass, queue, scan, reply, bounds, wanted, disks>>

-----------------------------------------------------------------------------
(* Upload: uploadFile. *)

\* CheckChunks; nothing is read again when nothing is missing.
CheckChunks(c, p) ==
  /\ at[c] = "push"
  /\ p \in todo[c]
  /\ LET missing == {k \in ChunksOf(scan[c][p]) : ~Available(k)}
     IN  /\ Doing(c, [NoJob EXCEPT !.path = p, !.missing = missing])
         /\ Go(c, IF missing = {} THEN "commit" ELSE "send")
  /\ UNCHANGED <<store, local, pass, queue, scan, todo, reply, bounds, wanted, disks>>

\* WriteFileChunks: the file is read as it is now.  A chunk of it that was
\* missing is put: PutChunk writes its file, and the handler goes on.
PutChunk(c) ==
  /\ at[c] = "send"
  /\ LET file == files[c][job[c].path]
         next == job[c].sent + 1
     IN  IF next > Len(file)
           THEN Go(c, "commit") /\ UNCHANGED <<job, stored>>
         ELSE IF file[next] \in job[c].missing
           THEN /\ stored' = stored \cup {file[next]}
                /\ Doing(c, [job[c] EXCEPT !.sent = next, !.chunk = file[next]])
                /\ Go(c, "grant")
         ELSE Doing(c, [job[c] EXCEPT !.sent = next]) /\ UNCHANGED <<at, stored>>
  /\ UNCHANGED <<store, local, pass, queue, scan, todo, reply, bounds, wanted,
                 granted, saved, failures, restarts>>

InMemory == [meta |-> server, granted |-> granted]
Save == saved' = InMemory' /\ UNCHANGED failures

\* The write of metadata.json fails, or the one of the control database
\* after it.
SaveFails == MayFail /\ failures' = failures + 1 /\ saved' \in {saved, InMemory'}

\* Every request of a client saves the time of its token and its device
\* (AuthenticateSyncToken, TouchClientDevice), and so what is in memory
\* since a save failed; whether this one fails is looked at by nobody.
SaveAgain ==
  /\ saved # InMemory
  /\ saved' = InMemory
  /\ UNCHANGED <<vars, job, stored, granted, failures, restarts>>

\* GrantAccountChunk.  If the server crashed since PutChunk, the client
\* sends the same chunk again, and this is the end of that request.
GrantChunk(c) ==
  /\ at[c] = "grant"
  /\ granted' = granted \cup {job[c].chunk}
  /\ UNCHANGED <<store, local, bounds, wanted, stored, restarts>>
  /\ \/ /\ Save
        /\ Go(c, "send") /\ Doing(c, [job[c] EXCEPT !.chunk = NoChunk])
        /\ UNCHANGED <<pass, queue, scan, todo, reply>>
     \/ SaveFails /\ Rest(c)

\* verifyManifest, which takes no lock for longer than a chunk, and then
\* the commit under s.mu: chunks and grants do not go away in between.
CommitFile(c) ==
  /\ at[c] = "commit"
  /\ \A k \in ChunksOf(scan[c][job[c].path]) : Available(k)
  /\ SendUpload(c, job[c].path)
  /\ Doing(c, NoJob)
  /\ UNCHANGED <<local, bounds, wanted, stored, granted, restarts>>
  /\ Save

\* The version stays in memory, the client gets an error.
CommitUnsaved(c) ==
  /\ at[c] = "commit"
  /\ \A k \in ChunksOf(scan[c][job[c].path]) : Available(k)
  /\ \E done \in CommitEntry(server, RequestFor(c, job[c].path, "file"), fresh) :
       /\ server' = done.meta
       /\ fresh' = fresh + 1
  /\ UNCHANGED <<local, bounds, wanted, stored, granted, restarts>>
  /\ SaveFails
  /\ Rest(c)

\* The file is no longer what was scanned, and so a chunk was not sent.
RefuseManifest(c) ==
  /\ at[c] = "commit"
  /\ \E k \in ChunksOf(scan[c][job[c].path]) : ~Available(k)
  /\ Rest(c)
  /\ UNCHANGED <<store, local, bounds, wanted, disks>>

\* What Sync has and nothing is transferred in.
SyncStep(c) ==
  /\ \/ BeginRound(c) \/ SkipEvent(c) \/ Examine(c) \/ Settle(c) \/ EndPull(c)
     \/ RecordUpload(c) \/ EndUploads(c) \/ RecordDelete(c) \/ EndPush(c)
  /\ UNCHANGED <<disks, job>>

DeleteOnServer(c, p) ==
  /\ DeleteRemote(c, p)
  /\ UNCHANGED <<stored, granted, restarts, job>>
  /\ Save

-----------------------------------------------------------------------------
(* Faults. *)

\* The round fails: the network, for longer than the retries.  AtomicWrite
\* removes the temporary file.
CutRound(c) ==
  /\ at[c] \in CutAt
  /\ MayFail
  /\ Abort(c)
  /\ Doing(c, NoJob)
  /\ UNCHANGED disks

\* The client dies while it downloads: the temporary file stays, under a
\* name that is in use nowhere.
CrashDownload(c) ==
  /\ at[c] = "land"
  /\ at[c] \in CutAt
  /\ MayFail
  /\ aborts' = aborts + 1
  /\ IsFileEvent(c)
  /\ \E q \in TempName :
       /\ \A d \in Device : files[d][q] = NoFile /\ known[d][q] = NoState
       /\ \A v \in server.versions : v.path # q
       /\ files' = [files EXCEPT ![c][q] = job[c].part]
  /\ Rest(c)
  /\ UNCHANGED <<store, known, seen, touched, edits, restores, prunes, wanted, disks>>

\* Mutant: the account's chunks are not read back.
RestartBare ==
  /\ MayFail
  /\ restarts' = restarts + 1
  /\ server' = saved.meta
  /\ granted' = {}
  /\ UNCHANGED <<fresh, local, round, bounds, wanted, stored, saved, failures, job>>

\* The server dies and starts again with what metadata.json has.
Restart ==
  /\ MayFail
  /\ restarts' = restarts + 1
  /\ server' = saved.meta
  /\ granted' = saved.granted
  /\ UNCHANGED <<fresh, local, round, bounds, wanted, stored, saved, failures, job>>

Work(c) ==
  \/ SyncStep(c) \/ LandTombstone(c)
  \/ FetchChunk(c) \/ Replace(c) \/ Verify(c)
  \/ ListDir(c) \/ ReadChunk(c) \/ EndScan(c)
  \/ PutChunk(c) \/ GrantChunk(c) \/ CommitFile(c) \/ RefuseManifest(c)
  \/ \E p \in Path : CheckChunks(c, p) \/ DeleteOnServer(c, p)

TransferNext ==
  \/ \E c \in Device : \/ Work(c) \/ CommitUnsaved(c)
                       \/ CutRound(c) \/ CrashDownload(c)
                       \/ \E p \in Path, x \in Text : WriteText(c, p, x)
  \/ SaveAgain \/ Restart

TransferSpec == TransferInit /\ [][TransferNext]_transferVars

-----------------------------------------------------------------------------
(* Properties. *)

\* Whatever version the server has, in memory or in metadata.json, its
\* chunks can be downloaded: their files are there and granted, in every
\* copy of the metadata that has the version, whichever of PutChunk,
\* GrantAccountChunk and Commit a crash or a failed save came after.
Downloadable ==
  \A m \in {InMemory, saved} :
    \A v \in m.meta.versions :
      v.state = "file" => ChunksOf(v.content) \subseteq stored \cap m.granted

\* What reading a text can give while another replaces it.
Mixture ==
  {x \in Content : /\ \E t \in Text : Len(x) = Len(t)
                   /\ \A i \in DOMAIN x : \E t \in Text : i \in DOMAIN t /\ t[i] = x[i]}

\* At a path users write there is never a part of a download, on a device
\* or on the server, whatever crashes: it holds what a user wrote, or what
\* a scan took for it.  (Texts of one length tell a part by its length.)
UserPath == {p \in Path : KindsAt[p] # {}}
WholeFiles ==
  \A p \in UserPath :
    /\ \A c \in Device : files[c][p] \in Mixture \cup {NoFile}
    /\ ServerNode(p) \in Mixture \cup {NoFile}

\* Devices that settled hold what the server holds, also when a download
\* was cut short, its leftover was uploaded or a manifest was refused; and a
\* file that changed while it was read, and so was committed as a mixture
\* that nobody wrote, is gone when all have settled (the next scan finds the
\* difference).
SettledIsRight ==
  failures = 0 =>
    /\ SettledMirrorsServer
    /\ (\A c \in Device : Settled(c))
         => \A p \in UserPath : ServerNode(p) \in Text \cup {NoFile}

\* Nobody's leftover becomes a file of the space (MCTransferLeftover.cfg
\* shows that it does).
NoLeftovers == \A v \in server.versions : v.path \notin TempName
=============================================================================
