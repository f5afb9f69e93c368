------------------------------- MODULE Store -------------------------------
(***************************************************************************)
(* The server's store of one sync space (internal/server/store.go, behind  *)
(* the handlers of internal/server/http.go), with the crash that reverts   *)
(* memory to metadata.json and the clients reduced to what they can send:  *)
(* requests that name a version the server has shown them, each sent up to *)
(* MaxAttempts times with the same operation id (client/api.go,            *)
(* doWithRetry), and handled by goroutines that queue on s.mu.             *)
(***************************************************************************)
EXTENDS StoreOps

CONSTANTS
  MaxAttempts,   \* http attempts of one operation (5 in doWithRetry)
  MaxFailures,   \* bound on saves that fail
  MaxRestores,   \* bound on RestoreTrash calls
  MaxCrashes,    \* bound on server crashes
  NoRequest

VARIABLES
  state,     \* s.state: the metadata in memory
  disk,      \* metadata.json
  fresh,     \* the next identifier fileutil.NewID has not given out
  sent,      \* Op -> the request sent under that operation id
  tries,     \* Op -> how many of its http attempts reached the server
  pending,   \* Op -> how many of its handlers wait for s.mu
  acked,     \* the replies the server has sent
  failures,  \* saves that failed so far
  restores,  \* RestoreTrash calls so far
  crashes    \* crashes so far

vars == <<state, disk, fresh, sent, tries, pending, acked, failures, restores, crashes>>

ASSUME StoreAssumption ==
  /\ MaxAttempts \in Nat /\ MaxFailures \in Nat
  /\ MaxRestores \in Nat /\ MaxCrashes \in Nat
  /\ NoRequest \notin Request

Acked == [op : Op, reply : Reply]

TypeOK ==
  /\ state \in Metadata
  /\ disk \in Metadata
  /\ fresh \in Nat \ {0}
  /\ sent \in [Op -> Request \cup {NoRequest}]
  /\ tries \in [Op -> 0..MaxAttempts]
  /\ pending \in [Op -> 0..MaxAttempts]
  /\ acked \subseteq Acked
  /\ failures \in 0..MaxFailures
  /\ restores \in 0..MaxRestores
  /\ crashes \in 0..MaxCrashes

Init ==
  /\ state = NewMetadata
  /\ disk = NewMetadata
  /\ fresh = 1
  /\ sent = [o \in Op |-> NoRequest]
  /\ tries = [o \in Op |-> 0]
  /\ pending = [o \in Op |-> 0]
  /\ acked = {}
  /\ failures = 0
  /\ restores = 0
  /\ crashes = 0

-----------------------------------------------------------------------------
(* What a client can send (pushLocal, uploadFile, uploadDir).  Its state   *)
(* knows a path either not at all or by a version the server kept; it      *)
(* creates user paths only, while a conflict-copy name reaches it through  *)
(* a version of the server; it commits no directory it knows as one.       *)

CommitRequests(o) ==
  LET Manifest(kind, p, fid, base, contents) ==
        {[kind |-> kind, op |-> o, device |-> d, path |-> p, fileID |-> fid,
          base |-> base, content |-> x] : d \in Device, x \in contents}
      File(p, fid, base) == Manifest("file", p, fid, base, Content)
      Dir(p, fid, base) == Manifest("dir", p, fid, base, {NoContent})
      UserPath == Path \ CopyName
      NotDir == {v \in state.versions : v.state # "dir"}
  IN  UNION ({File(p, NoId, NoId) \cup Dir(p, NoId, NoId) : p \in UserPath}
             \cup {File(v.path, v.fileID, v.id) : v \in state.versions}
             \cup {Dir(v.path, v.fileID, v.id) : v \in NotDir})

\* pushLocal deletes what its state knows as a live file or directory.
DeleteRequests(o) ==
  {[kind |-> "delete", op |-> o, device |-> d, path |-> v.path,
    fileID |-> v.fileID, base |-> v.id, content |-> NoContent] :
     d \in Device, v \in {w \in state.versions : w.state # "deleted"}}

Send(o) ==
  /\ sent[o] = NoRequest
  /\ \E r \in CommitRequests(o) \cup DeleteRequests(o) :
       sent' = [sent EXCEPT ![o] = r]
  /\ UNCHANGED <<state, disk, fresh, tries, pending, acked, failures, restores, crashes>>

-----------------------------------------------------------------------------
(* The server. *)

\* saveLocked writes metadata.json and then the control database.  Either
\* write can fail: the caller gets an error, metadata.json is the old or the
\* new one, and what is in memory stays.
Save(m) == disk' = m /\ UNCHANGED failures

FailToSave(m) ==
  /\ failures < MaxFailures
  /\ failures' = failures + 1
  /\ disk' \in {disk, m}

\* One http attempt reaches the server: syncAuth ends in
\* TouchClientDevice, which saves the whole state (its error is dropped);
\* the handler then waits for the lock.
Receive(o) ==
  /\ sent[o] # NoRequest
  /\ tries[o] < MaxAttempts
  /\ tries' = [tries EXCEPT ![o] = @ + 1]
  /\ pending' = [pending EXCEPT ![o] = @ + 1]
  /\ Save(state) \/ FailToSave(state)
  /\ UNCHANGED <<state, fresh, sent, acked, restores, crashes>>

Ack(o, reply) == acked' = acked \cup {[op |-> o, reply |-> reply]}

\* Mutant: the reply is sent before metadata.json is written.
AckUnsaved(o, m, reply) ==
  /\ state' = m
  /\ Ack(o, reply)
  /\ UNCHANGED <<disk, failures>>

SaveAndAck(o, m, reply) ==
  /\ state' = m
  /\ \/ Save(m) /\ Ack(o, reply)
     \/ FailToSave(m) /\ UNCHANGED acked

\* An operation id seen before returns the reply recorded for it; nothing
\* is saved, although ensureParentDirsLocked may have changed m.
Replay(o, m) ==
  /\ m.operations[o] # NoReply
  /\ state' = m
  /\ Ack(o, m.operations[o])
  /\ UNCHANGED <<disk, failures>>

Refuse(m) == state' = m /\ UNCHANGED <<disk, acked, failures>>

Finish(o) == pending' = [pending EXCEPT ![o] = @ - 1]

HandleCommit(o) ==
  /\ pending[o] > 0
  /\ sent[o].kind \in {"file", "dir"}
  /\ \E m \in EnsureParent(state, sent[o], fresh) :
       \/ Replay(o, m)
       \/ /\ m.operations[o] = NoReply
          /\ \E done \in CommitEntry(m, sent[o], fresh + 1) :
               IF done.ok THEN SaveAndAck(o, Record(done.meta, o, done.reply), done.reply)
                          ELSE Refuse(done.meta)
  /\ fresh' = IF state' = state THEN fresh ELSE fresh + 2
  /\ Finish(o)
  /\ UNCHANGED <<sent, tries, restores, crashes>>

HandleDelete(o) ==
  /\ pending[o] > 0
  /\ sent[o].kind = "delete"
  /\ \/ Replay(o, state)
     \/ /\ state.operations[o] = NoReply
        /\ LET done == DeleteEntry(state, sent[o], fresh)
           IN  IF done.ok THEN SaveAndAck(o, Record(done.meta, o, done.reply), done.reply)
                          ELSE Refuse(done.meta)
  /\ fresh' = IF state' = state THEN fresh ELSE fresh + 1
  /\ Finish(o)
  /\ UNCHANGED <<sent, tries, restores, crashes>>

Handle(o) == HandleCommit(o) \/ HandleDelete(o)

\* ListTrash and ListSpaces prune, and save if anything went; so does a
\* RestoreTrash that finds nothing to restore.
PruneTrash(k) ==
  /\ Prune(state, k) # state
  /\ state' = Prune(state, k)
  /\ Save(state') \/ FailToSave(state')
  /\ UNCHANGED <<fresh, sent, tries, pending, acked, restores, crashes>>

\* An administrator or the owner restores the deleted entry at p; the call
\* prunes first.
RestoreTrash(p, k) ==
  LET m == Prune(state, k)
  IN  /\ restores < MaxRestores
      /\ IsTombstone(m.files[p])
      /\ Restorable(m, p) # NoContent
      /\ state' = Install(m, Restored(m, p, fresh))
      /\ Save(state') \/ FailToSave(state')
      /\ fresh' = fresh + 1
      /\ restores' = restores + 1
      /\ UNCHANGED <<sent, tries, pending, acked, crashes>>

\* The process dies and NewStore loads metadata.json again; the handlers
\* that waited are gone, their clients will try again.
Crash ==
  /\ crashes < MaxCrashes
  /\ crashes' = crashes + 1
  /\ state' = disk
  /\ pending' = [o \in Op |-> 0]
  /\ UNCHANGED <<disk, fresh, sent, tries, acked, failures, restores>>

Next ==
  \/ \E o \in Op : Send(o) \/ Receive(o) \/ HandleCommit(o) \/ HandleDelete(o)
  \/ \E k \in 0..fresh : PruneTrash(k)
  \/ \E p \in Path, k \in 0..fresh : RestoreTrash(p, k)
  \/ Crash

Spec == Init /\ [][Next]_vars

-----------------------------------------------------------------------------
(* Properties. *)

\* The retained events are the last MaxEvents of the log: their numbers
\* have no gap and end in lastSeq, so a reader that knows the number of the
\* last event it saw can tell what it has missed (appendEventLocked).
EventWindow ==
  LET log == state.events
  IN  /\ Len(log) = IF state.lastSeq < MaxEvents THEN state.lastSeq ELSE MaxEvents
      /\ \A i \in DOMAIN log : log[i].seq = state.lastSeq - Len(log) + i

\* What a reader of the events ends up with is what the server holds: the
\* last retained event of a path carries the path's current version, unless
\* that is a tombstone pruneTrashLocked has removed.
FilesMatchLog ==
  \A i \in DOMAIN state.events :
    LET v == state.events[i].version
        later == {j \in DOMAIN state.events : j > i /\ state.events[j].version.path = v.path}
    IN  later = {} => \/ HasVersion(state.files[v.path]) /\ state.files[v.path].current = v
                      \/ ~HasVersion(state.files[v.path]) /\ v.state = "deleted"

\* No update is lost: within one file_id every version is based on the one
\* before it, so whoever wrote it had seen what it replaced; a writer who
\* had not was given a conflict copy or a "conflict" reply
\* (commitEntryLocked, Delete, RestoreTrash).
BaseChain ==
  \A v, w \in state.versions :
    /\ v.fileID = w.fileID
    /\ w.id < v.id
    /\ ~\E u \in state.versions : u.fileID = v.fileID /\ w.id < u.id /\ u.id < v.id
    => v.base = w.id

\* However often an operation is sent, and whether or not the server
\* crashed in between, the history holds at most one version made by it.
OneVersionPerOperation ==
  \A v, w \in state.versions : v.op = w.op /\ v.op # NoOp => v = w

\* A reply the client was sent is what metadata.json holds for the
\* operation, so a crash cannot take it back, and all replies to one
\* operation are the same, as long as no save has failed: after that a retry
\* is answered from what is in memory only.
AckedIsDurable ==
  failures = 0 => \A a \in acked : disk.operations[a.op] = a.reply

\* RestoreTrash brings back the very content the deleted file had.
RestoredIsDeleted ==
  \A v \in state.versions : v.device = Admin =>
    \E t, w \in state.versions :
      /\ t.id = v.base /\ t.fileID = v.fileID /\ t.state = "deleted"
      /\ t.was = "file" =>
           w.id = t.base /\ w.fileID = t.fileID /\ w.content = v.content

\* docs/中文详细文档.md:827: operation_id makes commits idempotent, so that a
\* client's retry makes no second version.
RetryMakesNoVersion ==
  [][\A o \in Op : Handle(o) /\ state.operations[o] # NoReply
       => state'.versions = state.versions]_vars

-----------------------------------------------------------------------------
(* The store implements the abstract history of the space. *)

Heads(m) ==
  [heads |-> [p \in Path |-> IF HasVersion(m.files[p]) THEN m.files[p].current
                                                      ELSE NoVersion],
   history |-> m.versions]

History == INSTANCE SpaceHistory
             WITH Vacant <- NoVersion, cur <- Heads(state), saved <- Heads(disk)

\* Every step of the server, crashes and retries included, adds versions on
\* top of what they are based on, expires deleted heads or goes back to what
\* was saved.
ImplementsHistory == History!Spec
=============================================================================
