---------------------------- MODULE StoreProofs ----------------------------
(***************************************************************************)
(* The theorems about the server's store of one sync space, for every      *)
(* number of devices, paths, contents, operations, attempts, crashes and   *)
(* failed saves and every length of the event log.  The inductive          *)
(* invariant says of the metadata in memory and of metadata.json what      *)
(* StoreOpsProofs shows the calls to keep.                                 *)
(***************************************************************************)
EXTENDS Store, StoreOpsProofs

\* The invariant of one metadata value when identifiers below n are used.
Good(m, n) == Sound(m, n, n) /\ Once(m)

\* A request carries its own operation id, and every handler that waits is
\* one attempt of a request that was sent.
Addressed ==
  \A o \in Op : /\ sent[o] # NoRequest => sent[o].op = o
                /\ pending[o] > 0 => sent[o] # NoRequest
                /\ pending[o] <= tries[o]

\* Inductive: metadata.json is what memory was at some earlier moment, or
\* newer, so a crash leaves memory as sound as it was.
IInv ==
  /\ TypeOK
  /\ Good(state, fresh)
  /\ Good(disk, fresh)
  /\ Addressed

-----------------------------------------------------------------------------
(* Lemmas. *)

\* An empty space is in order.
LEMMA NewIsGood == NewMetadata \in Metadata /\ Good(NewMetadata, 1)
<1>1. NewMetadata \in Metadata
  BY NullAssumption DEF NewMetadata, Metadata
<1>2. /\ NewMetadata.versions = {} /\ NewMetadata.events = <<>> /\ NewMetadata.lastSeq = 0
      /\ \A p \in Path : NewMetadata.files[p] = NoEntry
  BY DEF NewMetadata
<1>3. Window(NewMetadata)
  BY <1>2, LimitAssumption DEF Window
<1> QED BY <1>1, <1>2, <1>3 DEF Good, Sound, Below, Numbered, Headed, Chained, Once, HasVersion

\* Identifiers only grow.
LEMMA GoodGrows ==
  ASSUME NEW m, NEW n \in Nat, Good(m, n), NEW k \in Nat, n <= k
  PROVE  Good(m, k)
BY SoundGrows DEF Good

\* A version of no operation leaves "at most one version per operation" alone.
LEMMA OnceWithout ==
  ASSUME NEW m, NEW new, Once(m), new.operations = m.operations,
         \/ new.versions = m.versions
         \/ \E v \in Version : v.op = NoOp /\ new.versions = m.versions \cup {v}
  PROVE  Once(new)
BY DEF Once

\* A call that made a version is answered before anyone can call again: the
\* reply recorded for the operation says that it has its version.
LEMMA RecordedOnce ==
  ASSUME NEW m, NEW k \in Nat, Once(m), m \in Metadata,
         NEW o \in Op, m.operations[o] = NoReply,
         NEW r, r.op = o, NEW done, Effect(m, r, k, done), done.ok
  PROVE  Good(Record(done.meta, o, done.reply), k)
<1> DEFINE new == Record(done.meta, o, done.reply)
<1>1. Sound(done.meta, k, k) /\ done.reply \in Reply /\ done.meta.operations = m.operations
  BY DEF Effect
<1>2. /\ Sound(new, k, k) /\ new.versions = done.meta.versions
      /\ new.operations = [m.operations EXCEPT ![o] = done.reply]
  BY <1>1, RecordKeeps
<1>3. /\ m.operations \in [Op -> Reply \cup {NoReply}] /\ m.versions \subseteq Version
      /\ done.reply # NoReply
  BY <1>1, NullAssumption DEF Metadata
<1> HIDE DEF new
<1>4. /\ new.operations[o] # NoReply
      /\ \A q \in Op : m.operations[q] # NoReply => new.operations[q] # NoReply
  BY <1>2, <1>3
<1>5. \A v \in m.versions : v.op # o /\ v.op \in Op \cup {NoOp}
  BY <1>3, DistinctAssumption DEF Once, Version
<1>6. ASSUME new.versions = m.versions
      PROVE  Good(new, k)
  BY <1>2, <1>4, <1>5, <1>6 DEF Good, Once
<1>7. ASSUME NEW v \in Version, v.op = o, new.versions = m.versions \cup {v}
      PROVE  Good(new, k)
  BY <1>2, <1>4, <1>5, <1>7 DEF Good, Once
<1>8. \/ new.versions = m.versions
      \/ \E v \in Version : v.op = o /\ new.versions = m.versions \cup {v}
  BY <1>2 DEF Effect
<1>9. Good(new, k)
  BY <1>6, <1>7, <1>8
<1> QED BY <1>9 DEF new

\* A call that is refused made no version.
LEMMA RefusedOnce ==
  ASSUME NEW m, NEW k, Once(m), NEW r, NEW done, Effect(m, r, k, done), ~done.ok
  PROVE  Good(done.meta, k)
BY DEF Effect, Good, Once

\* What is saved after a call is what was there before it or what the call
\* left, so it is as sound as they are.
LEMMA SavedIsGood ==
  ASSUME NEW n, Good(disk, n), Good(state', n), disk' \in {disk, state'}
  PROVE  Good(disk', n)
OBVIOUS

-----------------------------------------------------------------------------
(* The steps. *)

LEMMA InitKeeps == Init => IInv
<1> SUFFICES ASSUME Init PROVE IInv
  OBVIOUS
<1>1. /\ state \in Metadata /\ disk \in Metadata /\ fresh = 1
      /\ Good(state, fresh) /\ Good(disk, fresh)
  BY NewIsGood DEF Init
<1>2. TypeOK
  BY <1>1, StoreAssumption DEF Init, TypeOK
<1>3. Addressed
  BY DEF Init, Addressed
<1> QED BY <1>1, <1>2, <1>3 DEF IInv

LEMMA SendKeeps ==
  ASSUME IInv, NEW o \in Op, Send(o)
  PROVE  IInv'
<1>1. PICK r \in CommitRequests(o) \cup DeleteRequests(o) : sent' = [sent EXCEPT ![o] = r]
  BY DEF Send
<1>2. \A v \in state.versions : v \in Version
  BY DEF IInv, TypeOK, Metadata
<1>3. r \in Request /\ r.op = o
  BY <1>2, NullAssumption DEF CommitRequests, DeleteRequests, Request, Version, NoId
<1>4. /\ state' = state /\ disk' = disk /\ fresh' = fresh
      /\ sent' \in [Op -> Request \cup {NoRequest}]
      /\ TypeOK'
  BY <1>1, <1>3 DEF Send, IInv, TypeOK
<1>5. Addressed'
  BY <1>1, <1>3, StoreAssumption DEF Send, IInv, TypeOK, Addressed
<1> QED BY <1>4, <1>5 DEF IInv

LEMMA ReceiveKeeps ==
  ASSUME IInv, NEW o \in Op, Receive(o)
  PROVE  IInv'
<1>1. /\ state' = state /\ fresh' = fresh /\ sent' = sent /\ acked' = acked
      /\ disk' \in {disk, state} /\ failures' \in 0..MaxFailures
      /\ restores' = restores /\ crashes' = crashes
  BY StoreAssumption DEF Receive, Save, FailToSave, IInv, TypeOK
<1>2. Good(state', fresh') /\ Good(disk', fresh') /\ disk' \in Metadata
  BY <1>1, SavedIsGood DEF IInv, TypeOK
<1>3. tries' \in [Op -> 0..MaxAttempts] /\ pending' \in [Op -> 0..MaxAttempts]
  <2>1. /\ tries \in [Op -> 0..MaxAttempts] /\ pending \in [Op -> 0..MaxAttempts]
        /\ pending[o] <= tries[o] /\ tries[o] < MaxAttempts
    BY DEF Receive, IInv, TypeOK, Addressed
  <2>2. tries[o] + 1 \in 0..MaxAttempts /\ pending[o] + 1 \in 0..MaxAttempts
    BY <2>1, StoreAssumption
  <2>3. /\ tries' = [tries EXCEPT ![o] = tries[o] + 1]
        /\ pending' = [pending EXCEPT ![o] = pending[o] + 1]
    BY DEF Receive
  <2> QED BY <2>1, <2>2, <2>3
<1>4. TypeOK'
  BY <1>1, <1>2, <1>3 DEF IInv, TypeOK
<1>5. Addressed'
  BY <1>1 DEF Receive, IInv, TypeOK, Addressed
<1> QED BY <1>2, <1>4, <1>5 DEF IInv

\* What the two handlers have in common: whatever they leave in memory and
\* on disk is sound, and the requests stay as they are.
LEMMA HandleKeeps ==
  ASSUME IInv, NEW o \in Op, pending[o] > 0, Finish(o),
         NEW n \in Nat, fresh <= n, Good(state', n),
         disk' \in {disk, state'},
         fresh' = (IF state' = state THEN fresh ELSE n),
         acked' \subseteq Acked, failures' \in 0..MaxFailures,
         sent' = sent, tries' = tries, restores' = restores, crashes' = crashes
  PROVE  IInv'
<1>1. fresh \in Nat \ {0} /\ Good(state, fresh) /\ Good(disk, fresh)
  BY DEF IInv, TypeOK
<1>2. Good(state', fresh') /\ fresh' \in Nat \ {0} /\ Good(disk, fresh')
  BY <1>1, GoodGrows
<1>3. Good(disk', fresh')
  BY <1>2
<1>4. state' \in Metadata /\ disk' \in Metadata
  BY <1>2, <1>3 DEF Good, Sound
<1>5. pending \in [Op -> 0..MaxAttempts] /\ pending' = [pending EXCEPT ![o] = pending[o] - 1]
  BY DEF Finish, IInv, TypeOK
<1>6. pending' \in [Op -> 0..MaxAttempts] /\ \A q \in Op : pending'[q] <= pending[q]
  BY <1>5, StoreAssumption
<1>7. TypeOK'
  BY <1>2, <1>4, <1>6 DEF IInv, TypeOK
<1>8. Addressed'
  <2> SUFFICES ASSUME NEW q \in Op
               PROVE  /\ sent[q] # NoRequest => sent[q].op = q
                      /\ pending'[q] > 0 => sent[q] # NoRequest
                      /\ pending'[q] <= tries[q]
    BY DEF Addressed
  <2>1. /\ pending'[q] \in Nat /\ pending[q] \in Nat /\ tries[q] \in Nat
        /\ pending'[q] <= pending[q] /\ pending[q] <= tries[q]
    BY <1>5, <1>6 DEF IInv, TypeOK, Addressed
  <2> QED BY <2>1 DEF IInv, Addressed
<1> QED BY <1>2, <1>3, <1>7, <1>8 DEF IInv

LEMMA HandleCommitKeeps ==
  ASSUME IInv, NEW o \in Op, HandleCommit(o)
  PROVE  IInv'
<1> DEFINE r == sent[o]
           n == fresh + 2
<1>1. /\ r \in Request /\ r.op = o /\ r.kind \in {"file", "dir"}
      /\ fresh \in Nat /\ n \in Nat /\ fresh <= n /\ pending[o] > 0
  BY DEF HandleCommit, IInv, TypeOK, Addressed
<1>2. /\ Sound(state, fresh, fresh) /\ Once(state) /\ Good(disk, n)
  BY <1>1, GoodGrows DEF IInv, Good
<1>3. PICK m \in EnsureParent(state, r, fresh) :
        \/ Replay(o, m)
        \/ /\ m.operations[o] = NoReply
           /\ \E done \in CommitEntry(m, r, fresh + 1) :
                IF done.ok THEN SaveAndAck(o, Record(done.meta, o, done.reply), done.reply)
                           ELSE Refuse(done.meta)
  BY DEF HandleCommit
<1> HIDE DEF r
<1>4. /\ Sound(m, fresh + 1, fresh + 1) /\ Once(m) /\ m \in Metadata
  BY <1>1, <1>2, <1>3, EnsureParentKeeps, OnceWithout DEF Sound
<1>5. acked \subseteq Acked /\ failures \in 0..MaxFailures
  BY DEF IInv, TypeOK
<1>6. CASE Replay(o, m)
  <2>1. /\ state' = m /\ disk' = disk /\ failures' = failures
        /\ acked' = acked \cup {[op |-> o, reply |-> m.operations[o]]}
        /\ m.operations[o] \in Reply
    BY <1>4, <1>6 DEF Replay, Ack, Metadata
  <2>2. Good(state', n) /\ acked' \subseteq Acked
    BY <1>1, <1>4, <1>5, <2>1, SoundGrows DEF Good, Acked
  <2> QED BY <1>1, <1>5, <2>1, <2>2, HandleKeeps DEF HandleCommit
<1>7. ASSUME m.operations[o] = NoReply, NEW done \in CommitEntry(m, r, fresh + 1),
             IF done.ok THEN SaveAndAck(o, Record(done.meta, o, done.reply), done.reply)
                        ELSE Refuse(done.meta)
      PROVE  IInv'
  <2>1. Effect(m, r, n, done)
    BY <1>1, <1>4, <1>7, CommitKeeps
  <2>2. CASE done.ok
    <3>1. Good(Record(done.meta, o, done.reply), n) /\ done.reply \in Reply
      BY <1>1, <1>4, <1>7, <2>1, <2>2, RecordedOnce DEF Effect
    <3>2. /\ state' = Record(done.meta, o, done.reply) /\ disk' \in {disk, state'}
          /\ acked' \subseteq Acked /\ failures' \in 0..MaxFailures
      BY <1>5, <1>7, <2>2, <3>1, StoreAssumption
         DEF SaveAndAck, Save, FailToSave, Ack, Acked
    <3> QED BY <1>1, <3>1, <3>2, HandleKeeps DEF HandleCommit
  <2>3. CASE ~done.ok
    <3>1. Good(done.meta, n)
      BY <1>4, <2>1, <2>3, RefusedOnce
    <3>2. /\ state' = done.meta /\ disk' = disk /\ acked' = acked /\ failures' = failures
      BY <1>7, <2>3 DEF Refuse
    <3> QED BY <1>1, <1>5, <3>1, <3>2, HandleKeeps DEF HandleCommit
  <2> QED BY <2>2, <2>3
<1> QED BY <1>3, <1>6, <1>7

LEMMA HandleDeleteKeeps ==
  ASSUME IInv, NEW o \in Op, HandleDelete(o)
  PROVE  IInv'
<1> DEFINE r == sent[o]
           n == fresh + 1
           done == DeleteEntry(state, r, fresh)
<1>1. /\ r \in Request /\ r.op = o /\ r.kind = "delete"
      /\ fresh \in Nat /\ n \in Nat /\ fresh <= n /\ pending[o] > 0
  BY DEF HandleDelete, IInv, TypeOK, Addressed
<1>2. /\ Sound(state, fresh, fresh) /\ Once(state) /\ state \in Metadata /\ Good(state, n)
  BY <1>1, GoodGrows DEF IInv, Good, TypeOK
<1>3. \/ Replay(o, state)
      \/ /\ state.operations[o] = NoReply
         /\ IF done.ok THEN SaveAndAck(o, Record(done.meta, o, done.reply), done.reply)
                       ELSE Refuse(done.meta)
  BY DEF HandleDelete
<1>4. acked \subseteq Acked /\ failures \in 0..MaxFailures
  BY DEF IInv, TypeOK
<1>5. Effect(state, r, n, done)
  BY <1>1, <1>2, DeleteKeeps
<1> HIDE DEF done, r
<1>6. CASE Replay(o, state)
  <2>1. /\ state' = state /\ disk' = disk /\ failures' = failures
        /\ acked' = acked \cup {[op |-> o, reply |-> state.operations[o]]}
        /\ state.operations[o] \in Reply
    BY <1>2, <1>6 DEF Replay, Ack, Metadata
  <2>2. Good(state', n) /\ acked' \subseteq Acked
    BY <1>2, <1>4, <2>1 DEF Acked
  <2> QED BY <1>1, <1>4, <2>1, <2>2, HandleKeeps DEF HandleDelete
<1>7. CASE /\ state.operations[o] = NoReply
           /\ IF done.ok THEN SaveAndAck(o, Record(done.meta, o, done.reply), done.reply)
                         ELSE Refuse(done.meta)
  <2>1. CASE done.ok
    <3>1. Good(Record(done.meta, o, done.reply), n) /\ done.reply \in Reply
      BY <1>1, <1>2, <1>5, <1>7, <2>1, RecordedOnce DEF Effect
    <3>2. /\ state' = Record(done.meta, o, done.reply) /\ disk' \in {disk, state'}
          /\ acked' \subseteq Acked /\ failures' \in 0..MaxFailures
      BY <1>4, <1>7, <2>1, <3>1, StoreAssumption
         DEF SaveAndAck, Save, FailToSave, Ack, Acked
    <3> QED BY <1>1, <3>1, <3>2, HandleKeeps DEF HandleDelete
  <2>2. CASE ~done.ok
    <3>1. Good(done.meta, n)
      BY <1>2, <1>5, <2>2, RefusedOnce
    <3>2. /\ state' = done.meta /\ disk' = disk /\ acked' = acked /\ failures' = failures
      BY <1>7, <2>2 DEF Refuse
    <3> QED BY <1>1, <1>4, <3>1, <3>2, HandleKeeps DEF HandleDelete
  <2> QED BY <2>1, <2>2
<1> QED BY <1>3, <1>6, <1>7

LEMMA PruneTrashKeeps ==
  ASSUME IInv, NEW k, PruneTrash(k)
  PROVE  IInv'
<1>1. /\ state' = Prune(state, k) /\ disk' \in {disk, state'} /\ fresh' = fresh
      /\ sent' = sent /\ tries' = tries /\ pending' = pending /\ acked' = acked
      /\ failures' \in 0..MaxFailures /\ restores' = restores /\ crashes' = crashes
  BY StoreAssumption DEF PruneTrash, Save, FailToSave, IInv, TypeOK
<1>2. Good(state', fresh)
  BY <1>1, PruneKeeps DEF IInv, TypeOK, Good, Once
<1>3. Good(disk', fresh)
  BY <1>1, <1>2 DEF IInv
<1>4. state' \in Metadata /\ disk' \in Metadata
  BY <1>2, <1>3 DEF Good, Sound
<1>5. TypeOK' /\ Addressed'
  BY <1>1, <1>4 DEF IInv, TypeOK, Addressed
<1> QED BY <1>1, <1>2, <1>3, <1>5 DEF IInv

LEMMA RestoreTrashKeeps ==
  ASSUME IInv, NEW p \in Path, NEW k, RestoreTrash(p, k)
  PROVE  IInv'
<1> DEFINE m == Prune(state, k)
           v == Restored(m, p, fresh)
<1>1. /\ IsTombstone(m.files[p])
      /\ state' = Install(m, v) /\ disk' \in {disk, state'} /\ fresh' = fresh + 1
      /\ sent' = sent /\ tries' = tries /\ pending' = pending /\ acked' = acked
      /\ failures' \in 0..MaxFailures /\ restores' \in 0..MaxRestores /\ crashes' = crashes
  BY StoreAssumption DEF RestoreTrash, Save, FailToSave, IInv, TypeOK
<1>2. fresh \in Nat \ {0} /\ fresh + 1 \in Nat \ {0}
  BY DEF IInv, TypeOK
<1>3. Sound(m, fresh, fresh) /\ Once(m)
  BY <1>2, PruneKeeps DEF IInv, Good, Once
<1> HIDE DEF m
<1>4. /\ v \in Version /\ v.op = NoOp /\ Sound(state', fresh + 1, fresh + 1)
      /\ state'.versions = m.versions \cup {v} /\ state'.operations = m.operations
  BY <1>1, <1>2, <1>3, RestoreKeeps
<1> HIDE DEF v
<1>5. Good(state', fresh')
  BY <1>1, <1>3, <1>4, OnceWithout DEF Good
<1>6. Good(disk', fresh')
  BY <1>1, <1>2, <1>5, GoodGrows DEF IInv
<1>7. state' \in Metadata /\ disk' \in Metadata
  BY <1>5, <1>6 DEF Good, Sound
<1>8. TypeOK' /\ Addressed'
  BY <1>1, <1>2, <1>7 DEF IInv, TypeOK, Addressed
<1> QED BY <1>5, <1>6, <1>8 DEF IInv

LEMMA CrashKeeps ==
  ASSUME IInv, Crash
  PROVE  IInv'
<1>1. /\ state' = disk /\ disk' = disk /\ fresh' = fresh /\ sent' = sent /\ tries' = tries
      /\ pending' = [o \in Op |-> 0] /\ acked' = acked /\ failures' = failures
      /\ restores' = restores /\ crashes' \in 0..MaxCrashes
  BY StoreAssumption DEF Crash, IInv, TypeOK
<1>2. TypeOK' /\ Addressed'
  BY <1>1, StoreAssumption DEF IInv, TypeOK, Addressed
<1> QED BY <1>1, <1>2 DEF IInv

\* Every step of the server and of its clients keeps the invariant.
LEMMA StepKeeps == IInv /\ [Next]_vars => IInv'
<1> SUFFICES ASSUME IInv, [Next]_vars PROVE IInv'
  OBVIOUS
<1>1. ASSUME NEW o \in Op, Send(o) PROVE IInv'
  BY <1>1, SendKeeps
<1>2. ASSUME NEW o \in Op, Receive(o) PROVE IInv'
  BY <1>2, ReceiveKeeps
<1>3. ASSUME NEW o \in Op, HandleCommit(o) PROVE IInv'
  BY <1>3, HandleCommitKeeps
<1>4. ASSUME NEW o \in Op, HandleDelete(o) PROVE IInv'
  BY <1>4, HandleDeleteKeeps
<1>5. ASSUME NEW k \in 0..fresh, PruneTrash(k) PROVE IInv'
  BY <1>5, PruneTrashKeeps
<1>6. ASSUME NEW p \in Path, NEW k \in 0..fresh, RestoreTrash(p, k) PROVE IInv'
  BY <1>6, RestoreTrashKeeps
<1>7. CASE Crash
  BY <1>7, CrashKeeps
<1>8. CASE UNCHANGED vars
  BY <1>8 DEF vars, IInv, TypeOK, Addressed
<1> QED BY <1>1, <1>2, <1>3, <1>4, <1>5, <1>6, <1>7, <1>8 DEF Next

LEMMA Inductive == Spec => []IInv
BY InitKeeps, StepKeeps, PTL DEF Spec

-----------------------------------------------------------------------------
(* The theorems. *)

\* The server's state keeps its type, whatever its clients send and however
\* often it crashes.
THEOREM TypeCorrect == Spec => []TypeOK
<1>1. IInv => TypeOK
  BY DEF IInv
<1> QED BY <1>1, Inductive, PTL

\* The retained events are the last ones, without a gap, for every length of
\* the log (appendEventLocked).
THEOREM LogHasNoGap == Spec => []EventWindow
<1>1. IInv => EventWindow
  <2> SUFFICES ASSUME IInv PROVE EventWindow
    OBVIOUS
  <2>1. Window(state) /\ state.events \in Seq(Event)
    BY DEF IInv, TypeOK, Metadata, Good, Sound
  <2>2. DOMAIN state.events = 1..Len(state.events)
    BY <2>1
  <2> QED BY <2>1, <2>2 DEF Window, EventWindow
<1> QED BY <1>1, Inductive, PTL

\* No update is lost: within one file every version is based on the one
\* before it (commitEntryLocked, Delete, RestoreTrash).
THEOREM NoLostUpdate == Spec => []BaseChain
<1>1. IInv => BaseChain
  BY DEF IInv, Good, Sound, Chained, BaseChain
<1> QED BY <1>1, Inductive, PTL

\* An operation makes at most one version, however often it is sent and
\* whatever crashes in between (state.Operations).
THEOREM AtMostOneVersion == Spec => []OneVersionPerOperation
<1>1. IInv => OneVersionPerOperation
  BY DEF IInv, Good, Once, OneVersionPerOperation
<1> QED BY <1>1, Inductive, PTL

-----------------------------------------------------------------------------
(* Durability of what was acknowledged. *)

\* Inductive beside IInv: until a save fails, memory and metadata.json
\* remember the same operations.
Durable ==
  /\ failures = 0 => disk.operations = state.operations
  /\ AckedIsDurable

\* What an outcome does to the remembered operations, when no save failed.
Outcome(o) ==
  \/ /\ state'.operations = state.operations /\ disk'.operations = state.operations
     /\ \/ acked' = acked
        \/ acked' = acked \cup {[op |-> o, reply |-> state.operations[o]]}
  \/ \E reply \in Reply :
       /\ state.operations[o] = NoReply
       /\ state'.operations = [state.operations EXCEPT ![o] = reply]
       /\ disk'.operations = state'.operations
       /\ acked' = acked \cup {[op |-> o, reply |-> reply]}

\* An outcome takes back no reply that was sent.
LEMMA OutcomeKeeps ==
  ASSUME IInv, Durable, failures = 0, NEW o \in Op, Outcome(o)
  PROVE  Durable'
<1>1. /\ disk.operations = state.operations
      /\ state.operations \in [Op -> Reply \cup {NoReply}]
      /\ acked \subseteq Acked
      /\ \A a \in acked : state.operations[a.op] = a.reply
  BY DEF Durable, AckedIsDurable, IInv, TypeOK, Metadata
<1>2. CASE /\ state'.operations = state.operations /\ disk'.operations = state.operations
           /\ \/ acked' = acked
              \/ acked' = acked \cup {[op |-> o, reply |-> state.operations[o]]}
  BY <1>1, <1>2 DEF Durable, AckedIsDurable
<1>3. ASSUME NEW reply \in Reply,
             state.operations[o] = NoReply,
             state'.operations = [state.operations EXCEPT ![o] = reply],
             disk'.operations = state'.operations,
             acked' = acked \cup {[op |-> o, reply |-> reply]}
      PROVE  Durable'
  <2>1. \A a \in acked : a.op \in Op /\ a.reply # NoReply
    BY <1>1, NullAssumption DEF Acked
  <2>2. \A a \in acked : a.op # o
    BY <1>1, <1>3, <2>1
  <2>3. \A a \in acked : state'.operations[a.op] = a.reply
    BY <1>1, <1>3, <2>1, <2>2
  <2>4. state'.operations[o] = reply
    BY <1>1, <1>3
  <2> QED BY <1>3, <2>3, <2>4 DEF Durable, AckedIsDurable
<1> QED BY <1>2, <1>3 DEF Outcome

LEMMA CommitOutcome ==
  ASSUME IInv, Durable, NEW o \in Op, HandleCommit(o), failures' = 0
  PROVE  failures = 0 /\ Outcome(o)
<1> DEFINE r == sent[o]
<1>1. /\ r \in Request /\ r.kind \in {"file", "dir"} /\ fresh \in Nat
      /\ Sound(state, fresh, fresh) /\ failures \in Nat
  BY DEF HandleCommit, IInv, TypeOK, Addressed, Good
<1>2. PICK m \in EnsureParent(state, r, fresh) :
        \/ Replay(o, m)
        \/ /\ m.operations[o] = NoReply
           /\ \E done \in CommitEntry(m, r, fresh + 1) :
                IF done.ok THEN SaveAndAck(o, Record(done.meta, o, done.reply), done.reply)
                           ELSE Refuse(done.meta)
  BY DEF HandleCommit
<1> HIDE DEF r
<1>3. Sound(m, fresh + 1, fresh + 1) /\ m.operations = state.operations
  BY <1>1, <1>2, EnsureParentKeeps
<1>4. CASE Replay(o, m)
  BY <1>3, <1>4 DEF Replay, Ack, Durable, Outcome
<1>5. ASSUME m.operations[o] = NoReply, NEW done \in CommitEntry(m, r, fresh + 1),
             IF done.ok THEN SaveAndAck(o, Record(done.meta, o, done.reply), done.reply)
                        ELSE Refuse(done.meta)
      PROVE  failures = 0 /\ Outcome(o)
  <2>1. Effect(m, r, fresh + 2, done)
    <3>1. Effect(m, r, (fresh + 1) + 1, done)
      BY <1>1, <1>3, CommitKeeps
    <3> QED BY <1>1, <3>1
  <2>2. CASE done.ok
    <3>1. /\ done.reply \in Reply /\ done.meta.operations = state.operations
          /\ Sound(done.meta, fresh + 2, fresh + 2)
      BY <1>3, <2>1, <2>2 DEF Effect
    <3>2. Record(done.meta, o, done.reply).operations = [state.operations EXCEPT ![o] = done.reply]
      BY <1>1, <3>1, RecordKeeps
    <3>3. /\ failures = 0 /\ state' = Record(done.meta, o, done.reply) /\ disk' = state'
          /\ acked' = acked \cup {[op |-> o, reply |-> done.reply]}
      BY <1>1, <1>5, <2>2 DEF SaveAndAck, Save, FailToSave, Ack
    <3> QED BY <1>3, <1>5, <3>1, <3>2, <3>3 DEF Outcome
  <2>3. CASE ~done.ok
    BY <1>3, <1>5, <2>1, <2>3 DEF Refuse, Effect, Durable, Outcome, HandleCommit
  <2> QED BY <2>2, <2>3
<1> QED BY <1>2, <1>4, <1>5

LEMMA DeleteOutcome ==
  ASSUME IInv, Durable, NEW o \in Op, HandleDelete(o), failures' = 0
  PROVE  failures = 0 /\ Outcome(o)
<1> DEFINE r == sent[o]
           done == DeleteEntry(state, r, fresh)
<1>1. /\ r \in Request /\ r.kind = "delete" /\ fresh \in Nat
      /\ Sound(state, fresh, fresh) /\ failures \in Nat
  BY DEF HandleDelete, IInv, TypeOK, Addressed, Good
<1>2. \/ Replay(o, state)
      \/ /\ state.operations[o] = NoReply
         /\ IF done.ok THEN SaveAndAck(o, Record(done.meta, o, done.reply), done.reply)
                       ELSE Refuse(done.meta)
  BY DEF HandleDelete
<1>3. Effect(state, r, fresh + 1, done)
  BY <1>1, DeleteKeeps
<1> HIDE DEF r, done
<1>4. CASE Replay(o, state)
  BY <1>4 DEF Replay, Ack, Durable, Outcome
<1>5. CASE state.operations[o] = NoReply /\ done.ok
           /\ SaveAndAck(o, Record(done.meta, o, done.reply), done.reply)
  <2>1. /\ done.reply \in Reply /\ done.meta.operations = state.operations
        /\ Sound(done.meta, fresh + 1, fresh + 1)
    BY <1>3, <1>5 DEF Effect
  <2>2. Record(done.meta, o, done.reply).operations = [state.operations EXCEPT ![o] = done.reply]
    BY <1>1, <2>1, RecordKeeps
  <2>3. /\ failures = 0 /\ state' = Record(done.meta, o, done.reply) /\ disk' = state'
        /\ acked' = acked \cup {[op |-> o, reply |-> done.reply]}
    BY <1>1, <1>5 DEF SaveAndAck, Save, FailToSave, Ack
  <2> QED BY <1>5, <2>1, <2>2, <2>3 DEF Outcome
<1>6. CASE Refuse(done.meta)
  BY <1>3, <1>6 DEF Refuse, Effect, Durable, Outcome
<1> QED BY <1>2, <1>4, <1>5, <1>6

\* Every step keeps what was acknowledged, until a save fails.
LEMMA StepDurable == IInv /\ Durable /\ [Next]_vars => Durable'
<1> SUFFICES ASSUME IInv, Durable, [Next]_vars, failures' = 0 PROVE Durable'
  BY DEF Durable, AckedIsDurable
<1>1. /\ failures \in Nat /\ fresh \in Nat /\ Sound(state, fresh, fresh)
  BY DEF IInv, TypeOK, Good
<1>2. ASSUME NEW o \in Op, Send(o) PROVE Durable'
  BY <1>2 DEF Send, Durable, AckedIsDurable
<1>3. ASSUME NEW o \in Op, Receive(o) PROVE Durable'
  BY <1>1, <1>3 DEF Receive, Save, FailToSave, Durable, AckedIsDurable
<1>4. ASSUME NEW o \in Op, HandleCommit(o) PROVE Durable'
  BY <1>4, CommitOutcome, OutcomeKeeps
<1>5. ASSUME NEW o \in Op, HandleDelete(o) PROVE Durable'
  BY <1>5, DeleteOutcome, OutcomeKeeps
<1>6. ASSUME NEW k \in 0..fresh, PruneTrash(k) PROVE Durable'
  <2>1. Prune(state, k).operations = state.operations
    BY <1>1, PruneKeeps
  <2> QED BY <1>1, <1>6, <2>1 DEF PruneTrash, Save, FailToSave, Durable, AckedIsDurable
<1>7. ASSUME NEW p \in Path, NEW k \in 0..fresh, RestoreTrash(p, k) PROVE Durable'
  <2> DEFINE m == Prune(state, k)
             v == Restored(m, p, fresh)
  <2>1. /\ failures = 0 /\ IsTombstone(m.files[p]) /\ state' = Install(m, v)
        /\ disk' = state' /\ acked' = acked
    BY <1>1, <1>7 DEF RestoreTrash, Save, FailToSave
  <2>2. Sound(m, fresh, fresh) /\ m.operations = state.operations
    BY <1>1, PruneKeeps
  <2> HIDE DEF m
  <2>3. state'.operations = state.operations
    BY <1>1, <2>1, <2>2, RestoreKeeps
  <2> QED BY <2>1, <2>3 DEF Durable, AckedIsDurable
<1>8. CASE Crash
  BY <1>8 DEF Crash, Durable, AckedIsDurable
<1>9. CASE UNCHANGED vars
  BY <1>9 DEF vars, Durable, AckedIsDurable
<1> QED BY <1>2, <1>3, <1>4, <1>5, <1>6, <1>7, <1>8, <1>9 DEF Next

\* A reply the server sent survives every crash, as long as no save has
\* failed (saveLocked before the reply, state.Operations).
THEOREM RepliesAreDurable == Spec => []AckedIsDurable
<1>1. Init => Durable
  BY DEF Init, Durable, AckedIsDurable
<1>2. IInv /\ Durable /\ [Next]_vars => Durable'
  BY StepDurable
<1>3. Durable => AckedIsDurable
  BY DEF Durable
<1> QED BY <1>1, <1>2, <1>3, Inductive, PTL DEF Spec

-----------------------------------------------------------------------------
(* What every step does to the heads, the history and the log.             *)

\* A handler adds at most a parent directory and the entry in it; a pruning
\* takes tombstones away, and RestoreTrash adds a version after it.
Served(m, new) ==
  \/ Moves(m, new)
  \/ \E a \in Metadata : \E v, w \in Version : Appends(m, a, v) /\ Appends(a, new, w)
  \/ Pruned(m, new)
  \/ \E a \in Metadata : \E v \in Version : Pruned(m, a) /\ Appends(a, new, v)

\* Two calls in one handler.
LEMMA TwoMoves ==
  ASSUME NEW m, NEW a \in Metadata, NEW new, Moves(m, a), Moves(a, new)
  PROVE  Served(m, new)
<1>1. CASE Quiet(m, a) /\ Quiet(a, new)
  BY <1>1 DEF Served, Moves, Quiet
<1>2. ASSUME Quiet(m, a), NEW v \in Version, Appends(a, new, v)
      PROVE  Served(m, new)
  BY <1>2, QuietAppends DEF Served, Moves
<1>3. ASSUME NEW v \in Version, Appends(m, a, v), Quiet(a, new)
      PROVE  Served(m, new)
  BY <1>3, AppendsQuiet DEF Served, Moves
<1>4. ASSUME NEW v \in Version, Appends(m, a, v), NEW w \in Version, Appends(a, new, w)
      PROVE  Served(m, new)
  BY <1>4 DEF Served
<1> QED BY <1>1, <1>2, <1>3, <1>4 DEF Moves

\* Recording the reply does not show.
LEMMA MovesRecord ==
  ASSUME NEW m, NEW a \in Metadata, Moves(m, a), NEW o, NEW reply
  PROVE  Moves(m, Record(a, o, reply))
<1>1. Quiet(a, Record(a, o, reply))
  BY RecordQuiet
<1> HIDE DEF Moves
<1>2. CASE Quiet(m, a)
  BY <1>1, <1>2 DEF Moves, Quiet
<1>3. ASSUME NEW v \in Version, Appends(m, a, v) PROVE Moves(m, Record(a, o, reply))
  BY <1>1, <1>3, AppendsQuiet DEF Moves
<1> QED BY <1>2, <1>3 DEF Moves

LEMMA CommitServed ==
  ASSUME IInv, NEW o \in Op, HandleCommit(o)
  PROVE  disk' \in {disk, state'} /\ Served(state, state')
<1> DEFINE r == sent[o]
           n == fresh + 1
<1>1. /\ r \in Request /\ r.kind \in {"file", "dir"} /\ fresh \in Nat /\ n \in Nat
      /\ Sound(state, fresh, fresh)
  BY DEF HandleCommit, IInv, TypeOK, Addressed, Good
<1>2. PICK m \in EnsureParent(state, r, fresh) :
        \/ Replay(o, m)
        \/ /\ m.operations[o] = NoReply
           /\ \E done \in CommitEntry(m, r, n) :
                IF done.ok THEN SaveAndAck(o, Record(done.meta, o, done.reply), done.reply)
                           ELSE Refuse(done.meta)
  BY DEF HandleCommit
<1> HIDE DEF r
<1>3. Sound(m, n, n) /\ m \in Metadata /\ Moves(state, m)
  BY <1>1, <1>2, EnsureParentKeeps, EnsureParentMoves DEF Sound
<1>4. CASE Replay(o, m)
  <2>1. state' = m /\ disk' = disk
    BY <1>4 DEF Replay
  <2> QED BY <1>3, <2>1 DEF Served
<1>5. ASSUME NEW done \in CommitEntry(m, r, n),
             IF done.ok THEN SaveAndAck(o, Record(done.meta, o, done.reply), done.reply)
                        ELSE Refuse(done.meta)
      PROVE  disk' \in {disk, state'} /\ Served(state, state')
  <2>1. Moves(m, done.meta) /\ done.meta \in Metadata
    BY <1>1, <1>3, CommitMoves, CommitKeeps DEF Effect, Sound
  <2>2. CASE done.ok
    <3>1. state' = Record(done.meta, o, done.reply) /\ disk' \in {disk, state'}
      BY <1>5, <2>2 DEF SaveAndAck, Save, FailToSave
    <3>2. Moves(m, state')
      BY <2>1, <3>1, MovesRecord
    <3> QED BY <1>3, <3>1, <3>2, TwoMoves
  <2>3. CASE ~done.ok
    <3>1. state' = done.meta /\ disk' = disk
      BY <1>5, <2>3 DEF Refuse
    <3> QED BY <1>3, <2>1, <3>1, TwoMoves
  <2> QED BY <2>2, <2>3
<1> QED BY <1>2, <1>4, <1>5

LEMMA DeleteServed ==
  ASSUME IInv, NEW o \in Op, HandleDelete(o)
  PROVE  disk' \in {disk, state'} /\ Served(state, state')
<1> DEFINE r == sent[o]
           done == DeleteEntry(state, r, fresh)
<1>1. /\ r \in Request /\ r.kind = "delete" /\ fresh \in Nat
      /\ Sound(state, fresh, fresh) /\ state \in Metadata
  BY DEF HandleDelete, IInv, TypeOK, Addressed, Good
<1>2. \/ Replay(o, state)
      \/ /\ state.operations[o] = NoReply
         /\ IF done.ok THEN SaveAndAck(o, Record(done.meta, o, done.reply), done.reply)
                       ELSE Refuse(done.meta)
  BY DEF HandleDelete
<1>3. Moves(state, done.meta) /\ done.meta \in Metadata
  BY <1>1, DeleteMoves, DeleteKeeps DEF Effect, Sound
<1> HIDE DEF r, done
<1>4. CASE Replay(o, state)
  BY <1>4 DEF Replay, Served, Moves, Quiet
<1>5. CASE done.ok /\ SaveAndAck(o, Record(done.meta, o, done.reply), done.reply)
  <2>1. state' = Record(done.meta, o, done.reply) /\ disk' \in {disk, state'}
    BY <1>5 DEF SaveAndAck, Save, FailToSave
  <2>2. Moves(state, state')
    BY <1>3, <2>1, MovesRecord
  <2> QED BY <2>1, <2>2 DEF Served
<1>6. CASE Refuse(done.meta)
  BY <1>3, <1>6 DEF Refuse, Served
<1> QED BY <1>2, <1>4, <1>5, <1>6

LEMMA RestoreServed ==
  ASSUME IInv, NEW p \in Path, NEW k, RestoreTrash(p, k)
  PROVE  disk' \in {disk, state'} /\ Served(state, state')
<1> DEFINE m == Prune(state, k)
           v == Restored(m, p, fresh)
<1>1. /\ IsTombstone(m.files[p])
      /\ state' = Install(m, v) /\ disk' \in {disk, state'}
  BY DEF RestoreTrash, Save, FailToSave
<1>2. fresh \in Nat /\ Sound(state, fresh, fresh) /\ state \in Metadata
  BY DEF IInv, TypeOK, Good
<1>3. Sound(m, fresh, fresh) /\ m \in Metadata /\ Pruned(state, m)
  BY <1>2, PruneKeeps, PruneMoves DEF Sound
<1> HIDE DEF m
<1>4. Appends(m, Install(m, v), v) /\ v \in Version
  BY <1>1, <1>2, <1>3, RestoreAppends, RestoreKeeps
<1> HIDE DEF v
<1> QED BY <1>1, <1>3, <1>4 DEF Served

\* Every step serves a call and saves what was or what is, or is a crash.
LEMMA StepServed ==
  ASSUME IInv, [Next]_vars
  PROVE  \/ state' = disk /\ disk' = disk
         \/ disk' \in {disk, state, state'} /\ Served(state, state')
<1>1. Quiet(state, state) /\ state \in Metadata
  BY DEF Quiet, IInv, TypeOK
<1>2. ASSUME state' = state PROVE Served(state, state')
  BY <1>1, <1>2 DEF Served, Moves
<1>3. ASSUME NEW o \in Op, Send(o) PROVE disk' = disk /\ state' = state
  BY <1>3 DEF Send
<1>4. ASSUME NEW o \in Op, Receive(o) PROVE disk' \in {disk, state} /\ state' = state
  BY <1>4 DEF Receive, Save, FailToSave
<1>5. ASSUME NEW o \in Op, HandleCommit(o)
      PROVE  disk' \in {disk, state'} /\ Served(state, state')
  BY <1>5, CommitServed
<1>6. ASSUME NEW o \in Op, HandleDelete(o)
      PROVE  disk' \in {disk, state'} /\ Served(state, state')
  BY <1>6, DeleteServed
<1>7. ASSUME NEW k \in 0..fresh, PruneTrash(k)
      PROVE  disk' \in {disk, state'} /\ Served(state, state')
  BY <1>1, <1>7, PruneMoves DEF PruneTrash, Save, FailToSave, Served
<1>8. ASSUME NEW p \in Path, NEW k \in 0..fresh, RestoreTrash(p, k)
      PROVE  disk' \in {disk, state'} /\ Served(state, state')
  BY <1>8, RestoreServed
<1>9. CASE Crash
  BY <1>9 DEF Crash
<1>10. CASE UNCHANGED vars
  BY <1>2, <1>10 DEF vars
<1> QED BY <1>2, <1>3, <1>4, <1>5, <1>6, <1>7, <1>8, <1>9, <1>10 DEF Next

-----------------------------------------------------------------------------
(* The log and the trash. *)

\* Inductive beside IInv: memory and metadata.json are both consistent, so a
\* crash leaves memory so.
AllConsistent == Consistent(state) /\ Consistent(disk)

LEMMA ServedConsistent ==
  ASSUME NEW m, NEW new, Consistent(m), Served(m, new)
  PROVE  Consistent(new)
BY QuietConsistent, AppendsConsistent, PrunedConsistent DEF Served, Moves

LEMMA NewIsConsistent == Consistent(NewMetadata)
<1>1. NewMetadata.versions = {} /\ Len(NewMetadata.events) = 0
  BY DEF NewMetadata
<1> QED BY <1>1 DEF Consistent, LogMatches, Graves, Returned

LEMMA InductiveConsistent == Spec => []AllConsistent
<1>1. Init => AllConsistent
  BY NewIsConsistent DEF Init, AllConsistent
<1>2. IInv /\ AllConsistent /\ [Next]_vars => AllConsistent'
  <2> SUFFICES ASSUME IInv, AllConsistent, [Next]_vars PROVE AllConsistent'
    OBVIOUS
  <2>1. \/ state' = disk /\ disk' = disk
        \/ disk' \in {disk, state, state'} /\ Served(state, state')
    BY StepServed
  <2> QED BY <2>1, ServedConsistent DEF AllConsistent
<1> QED BY <1>1, <1>2, Inductive, PTL DEF Spec

\* A reader of the events ends up with what the server holds
\* (appendEventLocked at every change of an entry, pruneTrashLocked).
THEOREM LogTellsTheFiles == Spec => []FilesMatchLog
<1>1. IInv /\ AllConsistent => FilesMatchLog
  <2> SUFFICES ASSUME IInv, AllConsistent, NEW i \in DOMAIN state.events,
                      {j \in DOMAIN state.events :
                         j > i /\ state.events[j].version.path = state.events[i].version.path} = {}
               PROVE  LET v == state.events[i].version
                      IN  \/ HasVersion(state.files[v.path]) /\ state.files[v.path].current = v
                          \/ ~HasVersion(state.files[v.path]) /\ v.state = "deleted"
    BY DEF FilesMatchLog
  <2> DEFINE v == state.events[i].version
  <2>1. state.events \in Seq(Event) /\ DOMAIN state.events = 1..Len(state.events)
    BY DEF IInv, TypeOK, Metadata
  <2>2. v \in Version
    <3>1. state.events[i] \in Event
      BY <2>1
    <3> QED BY <3>1 DEF Event
  <2>3. \/ HeadAt(state, v.path) = v
        \/ HeadAt(state, v.path) = NoVersion /\ v.state = "deleted"
    BY <2>1 DEF AllConsistent, Consistent, LogMatches
  <2> HIDE DEF v
  <2>4. \/ HasVersion(state.files[v.path]) /\ state.files[v.path].current = v
        \/ ~HasVersion(state.files[v.path]) /\ v.state = "deleted"
    BY <2>2, <2>3, NullAssumption DEF HeadAt, HasVersion
  <2> QED BY <2>4 DEF v
<1> QED BY <1>1, Inductive, InductiveConsistent, PTL

\* RestoreTrash brings back the content the deleted file had, whatever
\* versions its file has and however the server crashed.
THEOREM TrashGivesBack == Spec => []RestoredIsDeleted
<1>1. AllConsistent => RestoredIsDeleted
  BY DEF AllConsistent, Consistent, Returned, RestoredIsDeleted
<1> QED BY <1>1, InductiveConsistent, PTL

-----------------------------------------------------------------------------
(* The refinement. *)

LEMMA HeadsAreHeads ==
  ASSUME NEW m
  PROVE  /\ Heads(m).heads = [p \in Path |-> HeadAt(m, p)]
         /\ Heads(m).history = m.versions
BY DEF Heads, HeadAt

\* A quiet change is a stuttering step of the history.
LEMMA QuietHeads ==
  ASSUME NEW m, NEW new, Quiet(m, new)
  PROVE  Heads(new) = Heads(m)
<1>1. [p \in Path |-> HeadAt(new, p)] = [p \in Path |-> HeadAt(m, p)]
  BY DEF Quiet
<1> QED BY <1>1 DEF Quiet, Heads, HeadAt

\* A version on top is a version the history adds.
LEMMA AppendsHeads ==
  ASSUME NEW m, NEW new, NEW v, Appends(m, new, v), \A w \in m.versions : w.id \in Nat
  PROVE  /\ History!Fits(Heads(m), v)
         /\ Heads(new) = History!Added(Heads(m), v)
         /\ v \notin m.versions
<1>1. v.path \in Path /\ v \in Version /\ v.id \in Nat
  BY DEF Appends, OnTop, Version
<1>2. /\ Heads(m).heads = [p \in Path |-> HeadAt(m, p)]
      /\ Heads(m).history = m.versions
  BY HeadsAreHeads
<1>3. History!Fits(Heads(m), v)
  BY <1>1, <1>2 DEF History!Fits, Appends, OnTop
<1>4. [p \in Path |-> HeadAt(new, p)] = [Heads(m).heads EXCEPT ![v.path] = v]
  BY <1>1, <1>2 DEF Appends
<1>5. Heads(new) = [heads |-> [p \in Path |-> HeadAt(new, p)], history |-> new.versions]
  BY DEF Heads, HeadAt
<1>6. Heads(new) = History!Added(Heads(m), v)
  BY <1>2, <1>4, <1>5 DEF History!Added, Appends
<1> QED BY <1>1, <1>3, <1>6 DEF Appends, OnTop

\* A pruning expires deleted heads.
LEMMA PrunedHeads ==
  ASSUME NEW m, NEW new, Pruned(m, new)
  PROVE  \E P \in SUBSET History!Deleted(Heads(m)) : Heads(new) = History!Expired(Heads(m), P)
<1> DEFINE P == {p \in Path : HeadAt(new, p) # HeadAt(m, p)}
<1>1. /\ Heads(m).heads = [p \in Path |-> HeadAt(m, p)]
      /\ Heads(m).history = m.versions
  BY HeadsAreHeads
<1>2. P \in SUBSET History!Deleted(Heads(m))
  BY <1>1 DEF History!Deleted, Pruned
<1>3. [p \in Path |-> HeadAt(new, p)]
        = [p \in Path |-> IF p \in P THEN NoVersion ELSE Heads(m).heads[p]]
  BY <1>1 DEF Pruned
<1>4. Heads(new) = [heads |-> [p \in Path |-> HeadAt(new, p)], history |-> m.versions]
  BY DEF Heads, HeadAt, Pruned
<1>5. Heads(m) = [heads |-> [p \in Path |-> HeadAt(m, p)], history |-> m.versions]
  BY DEF Heads, HeadAt
<1>6. [Heads(m) EXCEPT !.heads = [p \in Path |-> IF p \in P THEN NoVersion ELSE Heads(m).heads[p]]]
        = [heads |-> [p \in Path |-> IF p \in P THEN NoVersion ELSE Heads(m).heads[p]],
           history |-> m.versions]
  BY <1>5
<1>7. Heads(new) = History!Expired(Heads(m), P)
  BY <1>3, <1>4, <1>6 DEF History!Expired
<1> QED BY <1>2, <1>7

LEMMA NothingExpires ==
  ASSUME NEW m
  PROVE  /\ {} \in SUBSET History!Deleted(Heads(m))
         /\ History!Expired(Heads(m), {}) = Heads(m)
<1>1. Heads(m) = [heads |-> [p \in Path |-> HeadAt(m, p)], history |-> m.versions]
  BY DEF Heads, HeadAt
<1>2. [p \in Path |-> IF p \in {} THEN NoVersion ELSE Heads(m).heads[p]] = Heads(m).heads
  BY <1>1
<1>3. [Heads(m) EXCEPT !.heads = [p \in Path |-> IF p \in {} THEN NoVersion ELSE Heads(m).heads[p]]]
        = [Heads(m) EXCEPT !.heads = Heads(m).heads]
  BY <1>2
<1>4. [Heads(m) EXCEPT !.heads = Heads(m).heads] = Heads(m)
  BY <1>1
<1> QED BY <1>3, <1>4 DEF History!Expired

\* Serving a call grows the history: nothing, one or two versions come, after
\* deleted heads have expired.
LEMMA ServedGrows ==
  ASSUME state \in Metadata, Served(state, state'), disk' \in {disk, state, state'}
  PROVE  History!Grow
<1> DEFINE s == Heads(state)
           t == Heads(state)'
           new == state'.versions \ state.versions
<1>1. /\ s.history = state.versions /\ t.history = state'.versions
      /\ History!New = new
  BY HeadsAreHeads DEF History!New, Heads
<1>2. t = Heads(state')
  BY DEF Heads
<1>3. \A m \in Metadata : \A w \in m.versions : w.id \in Nat
  BY DEF Metadata, Version
<1>4. Heads(disk)' \in {Heads(disk), Heads(state), Heads(state)'}
  BY DEF Heads
<1>5. {} \in SUBSET History!Deleted(s) /\ History!Expired(s, {}) = s
  BY NothingExpires
<1> DEFINE Grown(P) ==
             LET e == History!Expired(s, P)
             IN  \/ t = e
                 \/ \E v \in new : History!Fits(e, v) /\ t = History!Added(e, v)
                 \/ \E v, w \in new : /\ History!Fits(e, v)
                                      /\ History!Fits(History!Added(e, v), w)
                                      /\ t = History!Added(History!Added(e, v), w)
<1>6. \E P \in SUBSET History!Deleted(s) : Grown(P)
  <2>1. CASE Quiet(state, state')
    <3>1. t = s
      BY <1>2, <2>1, QuietHeads
    <3> QED BY <1>5, <3>1
  <2>2. ASSUME NEW v \in Version, Appends(state, state', v)
        PROVE  \E P \in SUBSET History!Deleted(s) : Grown(P)
    <3>1. History!Fits(s, v) /\ t = History!Added(s, v) /\ v \notin state.versions
      BY <1>2, <1>3, <2>2, AppendsHeads
    <3>2. v \in new
      BY <2>2, <3>1 DEF Appends
    <3> QED BY <1>5, <3>1, <3>2
  <2>3. ASSUME NEW a \in Metadata, NEW v \in Version, NEW w \in Version,
               Appends(state, a, v), Appends(a, state', w)
        PROVE  \E P \in SUBSET History!Deleted(s) : Grown(P)
    <3>1. /\ History!Fits(s, v) /\ Heads(a) = History!Added(s, v) /\ v \notin state.versions
      BY <1>3, <2>3, AppendsHeads
    <3>2. /\ History!Fits(Heads(a), w) /\ t = History!Added(Heads(a), w) /\ w \notin a.versions
      BY <1>2, <1>3, <2>3, AppendsHeads
    <3>3. v \in new /\ w \in new
      BY <2>3, <3>1, <3>2 DEF Appends
    <3> QED BY <1>5, <3>1, <3>2, <3>3
  <2>4. CASE Pruned(state, state')
    <3>1. PICK P \in SUBSET History!Deleted(s) : t = History!Expired(s, P)
      BY <1>2, <2>4, PrunedHeads
    <3> QED BY <3>1
  <2>5. ASSUME NEW a \in Metadata, NEW v \in Version, Pruned(state, a), Appends(a, state', v)
        PROVE  \E P \in SUBSET History!Deleted(s) : Grown(P)
    <3>1. PICK P \in SUBSET History!Deleted(s) : Heads(a) = History!Expired(s, P)
      BY <2>5, PrunedHeads
    <3>2. History!Fits(Heads(a), v) /\ t = History!Added(Heads(a), v) /\ v \notin a.versions
      BY <1>2, <1>3, <2>5, AppendsHeads
    <3>3. v \in new
      BY <2>5, <3>2 DEF Appends, Pruned
    <3> QED BY <3>1, <3>2, <3>3
  <2> HIDE DEF Grown
  <2> QED BY <2>1, <2>2, <2>3, <2>4, <2>5 DEF Served, Moves
<1> QED BY <1>1, <1>4, <1>6 DEF History!Grow

\* Every run of the store is a run of the abstract history, under the heads
\* of memory and of metadata.json: what the server shows of a space only ever
\* grows by versions that fit, forgets deleted files, or goes back to what
\* was saved.
THEOREM Implementation == Spec => ImplementsHistory
<1>1. Init => History!Init
  <2> SUFFICES ASSUME Init PROVE History!Init
    OBVIOUS
  <2>1. [p \in Path |-> HeadAt(NewMetadata, p)] = [p \in Path |-> NoVersion]
    BY DEF HeadAt, HasVersion, NewMetadata
  <2>2. Heads(NewMetadata) = [heads |-> [p \in Path |-> NoVersion], history |-> {}]
    BY <2>1 DEF Heads, HeadAt, NewMetadata
  <2>3. Heads(state) = Heads(NewMetadata) /\ Heads(disk) = Heads(NewMetadata)
    BY DEF Init, Heads
  <2> QED BY <2>2, <2>3 DEF History!Init
<1>2. IInv /\ [Next]_vars => [History!Next]_(History!vars)
  <2> SUFFICES ASSUME IInv, [Next]_vars PROVE [History!Next]_(History!vars)
    OBVIOUS
  <2>1. CASE state' = disk /\ disk' = disk
    BY <2>1 DEF Heads, History!Crash, History!Next
  <2>2. CASE disk' \in {disk, state, state'} /\ Served(state, state')
    BY <2>2, ServedGrows DEF IInv, TypeOK, History!Next
  <2> QED BY <2>1, <2>2, StepServed
<1> QED BY <1>1, <1>2, Inductive, PTL DEF Spec, ImplementsHistory, History!Spec
=============================================================================
