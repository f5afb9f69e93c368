------------------------------ MODULE Registry ------------------------------
(***************************************************************************)
(* Who may do what on the server: accounts, tokens, devices, spaces and    *)
(* the folders clients report (internal/server/store.go, http.go), kept in *)
(* memory and twice on disk: in metadata.json and in the control database  *)
(* server.db (sqlite_store.go).                                            *)
(*                                                                         *)
(* The registry is a function from facts to values.  A request is handled  *)
(* in steps, each a critical section of s.mu; a step that changes facts    *)
(* keeps the lock until saveLocked has written both copies or has failed.  *)
(* The server may crash anywhere and then starts from the two copies.      *)
(***************************************************************************)
EXTENDS Naturals, Sequences, FiniteSets

CONSTANTS
  Account, Admin,           \* the account ensureBootstrap creates
  Space, Default,
  Device, Root,
  Name, AdminName,
  Password, AdminPassword,
  Settings, DefaultSettings,
  Request,                  \* the requests that may come, each once
  Ask,                      \* what each of them asks for
  Batch,                    \* sets of requests that may come in one life of the model
  Seed,                     \* the registry an earlier life left, no save of which failed
  MaxOpen, MaxFailures, MaxCrashes,
  MaxRecords,               \* MaxSyncRecordsPerAccount
  NoName, NoRoot, NoDevice, NoToken, NoAccount, Nobody, Startup, Unknown

VARIABLES
  up,        \* the server answers requests
  mem,       \* s.state: Fact -> value
  records,   \* s.state.SyncRecords: <<account, request>>
  metadata,  \* metadata.json: [reg, records]
  control,   \* server.db
  holder,    \* who holds s.mu while a save goes on
  phase,     \* which copy the save writes: "metadata", "control"
  strict,    \* its failure is reported
  sessions,  \* accounts with a session of the administration page
  todo,      \* Request -> the steps its handler still has to take
  answer,    \* Request -> "new", "open", "ok", "refused", "lost"
  acked,     \* Fact -> the value last promised, or Unknown
  barredBy,  \* Request -> promises in force when it came that exclude it
  crossed,   \* an account was switched off by one that was switched off meanwhile
  failures, crashes

disk == <<metadata, control>>
saving == <<holder, phase, strict>>
handlers == <<todo, answer, barredBy>>
bounds == <<failures, crashes>>
vars == <<up, mem, records, metadata, control, holder, phase, strict, sessions,
          todo, answer, acked, barredBy, crossed, failures, crashes>>

-----------------------------------------------------------------------------
(* Facts. *)

OfAccount == {"name", "admin", "disabled", "sync", "password", "token", "settings"}

\* The facts of the tables accounts, client_tokens, client_devices and
\* spaces.  <<"client", r>> is the token that login r was given.
ControlFact ==
  (OfAccount \X Account) \cup ({"client"} \X {r \in Request : Ask[r].op = "signin"})
    \cup ({"device"} \X Account \X Device) \cup ({"space"} \X Account \X Space)

\* The facts only metadata.json keeps: the state of a client folder, and
\* whether a space has files (Store says which).
TreeFact == ({"folder"} \X Account \X Device) \cup ({"files"} \X Account \X Space)

Fact == ControlFact \cup TreeFact

Values(f) ==
  CASE f[1] = "name"     -> Name \cup {NoName}
    [] f[1] = "token"    -> Request \cup {Startup, NoToken}
    [] f[1] = "client"   -> Account \cup {NoAccount}
    [] f[1] = "password" -> Password
    [] f[1] = "settings" -> Settings
    [] f[1] = "device"   -> Root \cup {NoRoot, NoDevice}
    [] f[1] = "space"    -> {"none", "on", "off"}
    [] f[1] = "folder"   -> {"none", "pending", "reported"}
    [] OTHER             -> BOOLEAN

IsRegistry(reg) == DOMAIN reg = Fact /\ \A f \in Fact : reg[f] \in Values(f)

\* A store without metadata.json and with a new database.
Empty == [f \in Fact |->
  CASE f[1] = "name"     -> NoName
    [] f[1] = "token"    -> NoToken
    [] f[1] = "client"   -> NoAccount
    [] f[1] = "password" -> AdminPassword
    [] f[1] = "settings" -> DefaultSettings
    [] f[1] = "device"   -> NoDevice
    [] f[1] \in {"space", "folder"} -> "none"
    [] OTHER             -> FALSE]

Exists(reg, a) == reg[<<"name", a>>] # NoName

\* Mutant: a disabled account is found like any other.
Known(reg, a) == Exists(reg, a)

\* GetAccount finds it.
Enabled(reg, a) == Exists(reg, a) /\ ~reg[<<"disabled", a>>]

\* No files of a space that is not known, no space or folder of an account
\* that is not.
Consistent(reg) ==
  \A a \in Account :
    /\ \A s \in Space : reg[<<"files", a, s>>] => reg[<<"space", a, s>>] # "none"
    /\ \A s \in Space : reg[<<"space", a, s>>] # "none" => Exists(reg, a)
    /\ \A e \in Device : reg[<<"folder", a, e>>] # "none" => Exists(reg, a)

\* reg with the facts of new.
Over(reg, new) == [f \in Fact |-> IF f \in DOMAIN new THEN new[f] ELSE reg[f]]

\* The facts of a new account and of its default space.
NewAccount(a, name, admin, password, token) ==
  LET new == [name |-> name, admin |-> admin, disabled |-> FALSE, sync |-> FALSE,
              password |-> password, token |-> token, settings |-> DefaultSettings,
              space |-> "on"]
  IN  [f \in (OfAccount \X {a}) \cup {<<"space", a, Default>>} |-> new[f[1]]]

\* The facts of a device that reports, or logs in, with a root or without:
\* ensureClientDeviceLocked, and the root if it has none yet.
SeenDevice(a, d, root) ==
  [f \in {<<"device", a, d>>} |->
     IF mem[f] \in {NoDevice, NoRoot} THEN root ELSE mem[f]]

-----------------------------------------------------------------------------
(* Requests. *)

AdminOp == {"create", "toggle"}                            \* requireAdmin
OwnerOp == {"reset", "newspace", "space", "root", "settings"}
PageOp == AdminOp \cup OwnerOp \cup {"password"}           \* requireLogin
SpaceOp == {"commit"}                                      \* syncAuth, with a space
SyncOp == SpaceOp \cup {"folder", "children"}              \* syncAuth
ClientOp == SyncOp \cup {"status", "sync", "record"}       \* clientAuth
OpenOp == {"register", "signin"}                           \* neither

ASSUME RegistryAssumption ==
  /\ Admin \in Account /\ Default \in Space
  /\ AdminName \in Name /\ AdminPassword \in Password /\ DefaultSettings \in Settings
  /\ NoName \notin Name /\ NoAccount \notin Account /\ \A f \in Fact : Unknown \notin Values(f)
  /\ NoRoot \notin Root /\ NoDevice \notin Root /\ NoRoot # NoDevice
  /\ Nobody \notin Request /\ Startup \notin Request /\ Nobody # Startup
  /\ \A v \in {MaxOpen, MaxFailures, MaxCrashes, MaxRecords} : v \in Nat
  /\ IsRegistry(Seed) /\ Consistent(Seed) /\ Batch \subseteq SUBSET Request
  /\ (\E a \in Account : Exists(Seed, a))
       => \E a \in Account : Enabled(Seed, a) /\ Seed[<<"admin", a>>]
  /\ \A r \in Request :
       /\ Ask[r].op \in PageOp \cup ClientOp \cup OpenOp
       /\ Ask[r].by \in Account /\ Ask[r].account \in Account
       /\ Ask[r].op \in ClientOp \cup OpenOp \cup {"password"} => Ask[r].account = Ask[r].by
       /\ Ask[r].space \in Space /\ Ask[r].device \in Device
       /\ Ask[r].cred \in Request \cup {Startup}
       /\ Ask[r].old \in Password /\ Ask[r].on \in BOOLEAN
       /\ Ask[r].op \in {"create", "register"} => Ask[r].value \in Name
       /\ Ask[r].op = "password" => Ask[r].value \in Password
       /\ Ask[r].op = "settings" => Ask[r].value \in Settings
       /\ Ask[r].op = "root" => Ask[r].value \in Root
       /\ Ask[r].op \in {"signin", "folder"} => Ask[r].value \in Root \cup {NoRoot}

\* The critical sections of a request's handler.
Steps(op) ==
  (IF op \in PageOp THEN <<"admit">> ELSE IF op \in ClientOp THEN <<"auth">> ELSE << >>)
  \o (IF op \in {"reset", "newspace"} THEN <<"target">>
      ELSE IF op \in SpaceOp THEN <<"enter", "touch", "again">> ELSE << >>)
  \o (IF op = "status" THEN << >> ELSE <<"apply">>)
  \o (IF op \in {"status", "sync"} THEN <<"status">> ELSE << >>)

\* The facts a request asks to set.
Sets(r) ==
  LET a == Ask[r].account
      account == (OfAccount \X {a}) \cup {<<"space", a, Default>>}
      space == {<<"space", a, Ask[r].space>>}
      folder == {<<"folder", a, Ask[r].device>>}
  IN  [create |-> account, register |-> account,
       toggle |-> {<<"disabled", a>>}, reset |-> {<<"token", a>>},
       password |-> {<<"password", a>>}, settings |-> {<<"settings", a>>},
       sync |-> {<<"sync", a>>}, newspace |-> space, space |-> space,
       root |-> {<<"device", a, Ask[r].device>>}, signin |-> {<<"client", r>>},
       folder |-> folder, children |-> folder, commit |-> {<<"files", a, Ask[r].space>>},
       record |-> {}, status |-> {}][Ask[r].op]

\* The promises that exclude a request: its account is switched off, its
\* synchronisation is, the space is.
Excludes(r) ==
  {f \in {<<"disabled", Ask[r].by>>} : Ask[r].op # "register" /\ acked[f] = TRUE}
  \cup {f \in {<<"sync", Ask[r].by>>} : Ask[r].op \in SyncOp /\ acked[f] = FALSE}
  \cup {f \in {<<"space", Ask[r].by, Ask[r].space>>} : Ask[r].op \in SpaceOp /\ acked[f] = "off"}

TypeOK ==
  /\ up \in BOOLEAN /\ strict \in BOOLEAN /\ crossed \in BOOLEAN
  /\ IsRegistry(mem) /\ IsRegistry(metadata.reg)
  /\ DOMAIN control = ControlFact /\ \A f \in ControlFact : control[f] \in Values(f)
  /\ records \in Seq(Account \X Request) /\ metadata.records \in Seq(Account \X Request)
  /\ holder \in Request \cup {Startup, Nobody}
  /\ phase \in {"metadata", "control"}
  /\ sessions \subseteq Account
  /\ todo \in [Request -> Seq({"admit", "auth", "target", "enter", "touch", "again", "apply", "status"})]
  /\ answer \in [Request -> {"new", "open", "ok", "refused", "lost"}]
  /\ DOMAIN acked = Fact /\ \A f \in Fact : acked[f] \in Values(f) \cup {Unknown}
  /\ barredBy \in [Request -> SUBSET Fact]
  /\ failures \in 0..MaxFailures /\ crashes \in 0..MaxCrashes
  /\ up => holder # Startup

Init ==
  /\ up = FALSE
  /\ mem = Empty /\ records = << >>
  /\ \E reg \in {Empty, Seed} :
       /\ metadata = [reg |-> reg, records |-> << >>]
       /\ control = [f \in ControlFact |-> reg[f]]
  /\ holder = Nobody /\ phase = "metadata" /\ strict = FALSE
  /\ sessions = {}
  /\ todo = [r \in Request |-> << >>]
  /\ \E batch \in Batch : answer = [r \in Request |-> IF r \in batch THEN "new" ELSE "lost"]
  /\ acked = [f \in Fact |-> Unknown]
  /\ barredBy = [r \in Request |-> {}]
  /\ crossed = FALSE
  /\ failures = 0 /\ crashes = 0

-----------------------------------------------------------------------------
(* Saving and starting. *)

\* Begins saveLocked: the lock is kept until it ends.
Save(r, report) ==
  /\ holder' = r
  /\ phase' = "metadata"
  /\ strict' = report

\* Mutant: the reply does not wait for the second copy.
AckEarly ==
  /\ holder # Nobody /\ phase = "metadata"
  /\ metadata' = [reg |-> mem, records |-> records]
  /\ acked' = IF holder \in Request /\ strict
                THEN [f \in Fact |-> IF f \in Sets(holder) THEN mem[f] ELSE acked[f]]
                ELSE acked
  /\ phase' = "control"
  /\ UNCHANGED <<up, mem, records, control, holder, strict, sessions, handlers, crossed, bounds>>

\* saveLocked writes metadata.json first.
WriteMetadata ==
  /\ holder # Nobody /\ phase = "metadata"
  /\ metadata' = [reg |-> mem, records |-> records]
  /\ phase' = "control"
  /\ UNCHANGED <<up, mem, records, control, holder, strict, sessions, handlers, acked, crossed,
                 bounds>>

\* The handler goes on after a save; its last step answers it.
Reply(r, ok) ==
  IF strict /\ ~ok
    THEN /\ todo' = [todo EXCEPT ![r] = << >>]
         /\ answer' = [answer EXCEPT ![r] = "refused"]
    ELSE /\ todo' = todo
         /\ answer' = [answer EXCEPT ![r] =
              IF todo[r] = << >> /\ answer[r] = "open" THEN "ok" ELSE @]

\* Mutant: the database keeps what it had.
WriteNothing ==
  /\ holder \in Request /\ phase = "control"
  /\ holder' = Nobody
  /\ Reply(holder, TRUE)
  /\ acked' = IF strict
                THEN [f \in Fact |-> IF f \in Sets(holder) THEN mem[f] ELSE acked[f]]
                ELSE acked
  /\ UNCHANGED <<up, mem, records, disk, phase, strict, sessions, barredBy, crossed, bounds>>

\* saveControlLocked: one transaction replaces the four tables.
WriteControl ==
  /\ holder \in Request /\ phase = "control"
  /\ control' = [f \in ControlFact |-> mem[f]]
  /\ holder' = Nobody
  /\ Reply(holder, TRUE)
  /\ acked' = IF strict
                THEN [f \in Fact |-> IF f \in Sets(holder) THEN mem[f] ELSE acked[f]]
                ELSE acked
  /\ sessions' = IF strict /\ Ask[holder].op = "register"
                   THEN sessions \cup {Ask[holder].account} ELSE sessions
  /\ UNCHANGED <<up, mem, records, metadata, phase, strict, barredBy, crossed, bounds>>

\* Either write fails; memory keeps the change.
FailSave ==
  /\ holder \in Request
  /\ failures < MaxFailures
  /\ failures' = failures + 1
  /\ holder' = Nobody
  /\ Reply(holder, FALSE)
  /\ UNCHANGED <<up, mem, records, disk, phase, strict, sessions, acked, barredBy, crossed,
                 crashes>>

\* load, then loadControlFromSQLite: a database with accounts wins.
Loaded ==
  IF \E a \in Account : control[<<"name", a>>] # NoName
    THEN Over(metadata.reg, control) ELSE metadata.reg

\* normalizeDevicesLocked: a device for every folder.  (It has a loop for
\* client tokens too, but their devices are in the same transaction.)
FoldersSeen(reg) ==
  LET missing == {f \in {"device"} \X Account \X Device :
                    reg[f] = NoDevice /\ reg[<<"folder", f[2], f[3]>>] # "none"}
  IN  Over(reg, [f \in missing |-> NoRoot])

\* NewStore: the administrator of an empty store, or the default space of
\* an account the map's order puts first.  Nothing is saved when nothing
\* changed; what changed may also be a time or a hostname.  saveControlLocked
\* runs in any case (after saveLocked, once more with the same values).
Start ==
  /\ ~up /\ holder = Nobody
  /\ IF \A a \in Account : ~Exists(Loaded, a)
       THEN mem' = Over(Loaded, NewAccount(Admin, AdminName, TRUE, AdminPassword, NoToken))
       ELSE \E first \in Account :
              /\ Exists(Loaded, first)
              /\ LET f == <<"space", first, Default>>
                     reg == FoldersSeen(Loaded)
                 IN  mem' = IF reg[f] = "none" THEN [reg EXCEPT ![f] = "on"] ELSE reg
  /\ records' = metadata.records
  /\ holder' = Startup
  /\ phase' \in {"metadata"} \cup {p \in {"control"} : mem' = Loaded}
  /\ strict' = FALSE
  /\ UNCHANGED <<up, disk, sessions, handlers, acked, crossed, bounds>>

\* Mutant: ensureBootstrap keeps the lock.
ListenLocked ==
  /\ holder = Startup /\ phase = "control"
  /\ control' = [f \in ControlFact |-> mem[f]]
  /\ up' = TRUE
  /\ UNCHANGED <<mem, records, metadata, saving, sessions, handlers, acked, crossed, bounds>>

\* NewStore ends and the server listens.
Listen ==
  /\ holder = Startup /\ phase = "control"
  /\ control' = [f \in ControlFact |-> mem[f]]
  /\ holder' = Nobody
  /\ up' = TRUE
  /\ UNCHANGED <<mem, records, metadata, phase, strict, sessions, handlers, acked, crossed,
                 bounds>>

Down ==
  /\ up' = FALSE
  /\ mem' = Empty /\ records' = << >>
  /\ holder' = Nobody /\ phase' = "metadata" /\ strict' = FALSE
  /\ sessions' = {}
  /\ todo' = [r \in Request |-> << >>]
  /\ answer' = [r \in Request |-> IF answer[r] = "open" THEN "lost" ELSE answer[r]]
  /\ barredBy' = [r \in Request |-> {}]

\* The server stops anywhere, also between the two writes of a save.
Crash ==
  /\ up \/ holder = Startup
  /\ crashes < MaxCrashes
  /\ crashes' = crashes + 1
  /\ Down
  /\ UNCHANGED <<disk, acked, crossed, failures>>

\* A write of NewStore fails: the server does not start.
FailStart ==
  /\ holder = Startup
  /\ failures < MaxFailures
  /\ failures' = failures + 1
  /\ Down
  /\ UNCHANGED <<disk, acked, crossed, crashes>>

-----------------------------------------------------------------------------
(* Handlers. *)

At(r, step) == todo[r] # << >> /\ Head(todo[r]) = step /\ up /\ holder = Nobody

\* The rest of the registry while a handler looks at it only.
Looks == UNCHANGED <<up, mem, records, disk, saving, sessions, acked, barredBy, crossed, bounds>>

Refuse(r) ==
  /\ todo' = [todo EXCEPT ![r] = << >>]
  /\ answer' = [answer EXCEPT ![r] = "refused"]
  /\ Looks

Advance(r) ==
  /\ todo' = [todo EXCEPT ![r] = Tail(todo[r])]
  /\ answer' = [answer EXCEPT ![r] = IF Tail(todo[r]) = << >> THEN "ok" ELSE @]

\* A step that saves although it changes no fact of the registry but a
\* time; the save's failure is ignored.
Flush(r, new) ==
  /\ mem' = Over(mem, new)
  /\ todo' = [todo EXCEPT ![r] = Tail(todo[r])]
  /\ Save(r, FALSE)
  /\ UNCHANGED <<up, records, disk, sessions, answer, acked, barredBy, crossed, bounds>>

\* A step that changes facts, saves and reports a failed save.
Change(r, new) ==
  /\ mem' = Over(mem, new)
  /\ todo' = [todo EXCEPT ![r] = Tail(todo[r])]
  /\ acked' = [f \in Fact |-> IF f \in Sets(r) THEN Unknown ELSE acked[f]]
  /\ barredBy' = [q \in Request |-> barredBy[q] \ Sets(r)]
  /\ Save(r, TRUE)
  /\ UNCHANGED <<up, disk, sessions, answer, bounds>>

Having(state) == {r \in Request : answer[r] = state}

\* A request arrives.  A client knows a token once it was answered.  Who is
\* no administrator gets a new space in the own account, whatever account the
\* form names: Ask[r].account is where the space goes.
Receive(r) ==
  /\ answer[r] = "new" /\ up
  /\ Ask[r].op \in ClientOp /\ Ask[r].cred \in Request => answer[Ask[r].cred] = "ok"
  /\ Ask[r].op = "newspace" => Ask[r].account = Ask[r].by \/ mem[<<"admin", Ask[r].by>>]
  /\ Cardinality(Having("open")) < MaxOpen
  /\ answer' = [answer EXCEPT ![r] = "open"]
  /\ todo' = [todo EXCEPT ![r] = Steps(Ask[r].op)]
  /\ barredBy' = [barredBy EXCEPT ![r] = Excludes(r)]
  /\ UNCHANGED <<up, mem, records, disk, saving, sessions, acked, crossed, bounds>>

\* adminLogin with the account's password, for a request to come: a session
\* nobody will use is left out.
Login(r) ==
  /\ answer[r] \in {"new", "open"}
  /\ up /\ holder = Nobody
  /\ Ask[r].op \in PageOp /\ Enabled(mem, Ask[r].by)
  /\ sessions' = sessions \cup {Ask[r].by}
  /\ UNCHANGED <<up, mem, records, disk, saving, handlers, acked, crossed, bounds>>

\* adminLogout.
Logout(r) ==
  /\ answer[r] \in {"new", "open"}
  /\ up /\ Ask[r].op \in PageOp /\ Ask[r].by \in sessions
  /\ sessions' = sessions \ {Ask[r].by}
  /\ UNCHANGED <<up, mem, records, disk, saving, handlers, acked, crossed, bounds>>

\* Mutant: an administrator may switch off the own account.
AdmitOneself(r) ==
  /\ At(r, "admit")
  /\ LET by == Ask[r].by
         admin == mem[<<"admin", by>>]
     IN  IF /\ by \in sessions /\ Enabled(mem, by)
            /\ Ask[r].op \in AdminOp => admin
            /\ Ask[r].op \in OwnerOp \ {"newspace"} => Ask[r].account = by \/ admin
           THEN Advance(r) /\ Looks
           ELSE Refuse(r)

\* sessionAccount, requireAdmin and the handler's own test of the target.
Admit(r) ==
  /\ At(r, "admit")
  /\ LET by == Ask[r].by
         admin == mem[<<"admin", by>>]
     IN  IF /\ by \in sessions /\ Enabled(mem, by)
            /\ Ask[r].op \in AdminOp => admin
            /\ Ask[r].op = "toggle" => Ask[r].account # by
            /\ Ask[r].op \in OwnerOp \ {"newspace"} => Ask[r].account = by \/ admin
           THEN Advance(r) /\ Looks
           ELSE Refuse(r)

\* adminResetToken and adminCreateSpace look the target up once more.
FindTarget(r) ==
  /\ At(r, "target")
  /\ IF Enabled(mem, Ask[r].account) \/ (Ask[r].op = "newspace" /\ Ask[r].account = Ask[r].by)
       THEN Advance(r) /\ Looks
       ELSE Refuse(r)

\* AuthenticateSyncToken, by a client's token (its time is saved) or by the
\* account's; syncAuth then asks the account it was given for its switch.
Authenticate(r) ==
  /\ At(r, "auth")
  /\ LET by == Ask[r].by
         cred == <<"client", Ask[r].cred>>
         client == cred \in Fact /\ mem[cred] = by
         token == mem[<<"token", by>>] = Ask[r].cred
         refused == Ask[r].op \in SyncOp /\ ~mem[<<"sync", by>>]
     IN  IF ~Enabled(mem, by) \/ ~(client \/ token) THEN Refuse(r)
         ELSE IF client
           THEN /\ todo' = [todo EXCEPT ![r] = IF refused THEN << >> ELSE Tail(todo[r])]
                /\ answer' = [answer EXCEPT ![r] = IF refused THEN "refused" ELSE @]
                /\ Save(r, FALSE)
                /\ UNCHANGED <<up, mem, records, disk, sessions, acked, barredBy, crossed, bounds>>
           ELSE IF refused THEN Refuse(r) ELSE Advance(r) /\ Looks

\* The rest of syncAuth: GetSpace,
Enter(r) ==
  /\ At(r, "enter")
  /\ IF mem[<<"space", Ask[r].by, Ask[r].space>>] = "on"
       THEN Advance(r) /\ Looks
       ELSE Refuse(r)

\* and TouchClientDevice, which may create the device.
Touch(r) ==
  /\ At(r, "touch")
  /\ Flush(r, SeenDevice(Ask[r].by, Ask[r].device, NoRoot))

\* Commit and Delete ask GetSpace again, before they take the lock.
LookAgain(r) ==
  /\ At(r, "again")
  /\ IF mem[<<"space", Ask[r].by, Ask[r].space>>] = "on"
       THEN Advance(r) /\ Looks
       ELSE Refuse(r)

\* ClientStatus saves the time a known device was seen.
Status(r) ==
  /\ At(r, "status")
  /\ IF mem[<<"device", Ask[r].by, Ask[r].device>>] # NoDevice
       THEN Flush(r, << >>)
       ELSE Advance(r) /\ Looks

\* r's handler changes the facts of its account, and nothing else.
Applies(r, op, allowed, new) ==
  /\ At(r, "apply") /\ Ask[r].op = op
  /\ IF allowed
       THEN Change(r, new) /\ UNCHANGED <<records, crossed>>
       ELSE Refuse(r)

\* CreateAccount: the page's, or somebody who registers.  Ask[r].account is
\* the identifier in the end, a fresh one.
CreateAccount(r) ==
  LET free == \A a \in Account : mem[<<"name", a>>] # Ask[r].value
  IN  /\ At(r, "apply") /\ free => ~Exists(mem, Ask[r].account)
      /\ \E op \in {"create", "register"} :
           Applies(r, op, free,
             NewAccount(Ask[r].account, Ask[r].value, op = "create" /\ Ask[r].on, Ask[r].old, r))

\* SetAccountDisabled
ToggleAccount(r) ==
  LET a == Ask[r].account
  IN  /\ At(r, "apply") /\ Ask[r].op = "toggle"
      /\ IF Exists(mem, a)
           THEN /\ Change(r, [f \in {<<"disabled", a>>} |-> Ask[r].on])
                /\ crossed' = (crossed \/ (Ask[r].on /\ mem[<<"disabled", Ask[r].by>>]))
                /\ UNCHANGED records
           ELSE Refuse(r)

\* ResetSyncToken, for an account that may be disabled by now.
ResetSyncToken(r) ==
  Applies(r, "reset", Exists(mem, Ask[r].account), [f \in Sets(r) |-> r])

ChangePassword(r) ==
  Applies(r, "password",
    Enabled(mem, Ask[r].account) /\ mem[<<"password", Ask[r].account>>] = Ask[r].old,
    [f \in Sets(r) |-> Ask[r].value])

SetSyncSettings(r) ==
  Applies(r, "settings", Enabled(mem, Ask[r].account), [f \in Sets(r) |-> Ask[r].value])

SetAccountSyncEnabled(r) ==
  Applies(r, "sync", Enabled(mem, Ask[r].account), [f \in Sets(r) |-> Ask[r].on])

\* CreateSpace: Ask[r].space is the identifier in the end, a fresh one when
\* the name's is taken.
CreateSpace(r) ==
  /\ At(r, "apply") => mem[<<"space", Ask[r].account, Ask[r].space>>] = "none"
  /\ Applies(r, "newspace", TRUE, [f \in Sets(r) |-> "on"])

SetSpaceActive(r) ==
  Applies(r, "space", mem[<<"space", Ask[r].account, Ask[r].space>>] # "none",
    [f \in Sets(r) |-> IF Ask[r].on THEN "on" ELSE "off"])

SetClientStorageRoot(r) ==
  Applies(r, "root", mem[<<"device", Ask[r].account, Ask[r].device>>] # NoDevice,
    [f \in Sets(r) |-> Ask[r].value])

\* IssueClientToken
IssueClientToken(r) ==
  LET device == SeenDevice(Ask[r].account, Ask[r].device, Ask[r].value)
  IN  Applies(r, "signin",
        Enabled(mem, Ask[r].account) /\ mem[<<"password", Ask[r].account>>] = Ask[r].old,
        [f \in Sets(r) \cup DOMAIN device |-> IF f \in Sets(r) THEN Ask[r].account ELSE device[f]])

\* ReportFolder
ReportFolder(r) ==
  LET device == SeenDevice(Ask[r].account, Ask[r].device, Ask[r].value)
  IN  Applies(r, "folder", TRUE,
        [f \in Sets(r) \cup DOMAIN device |->
           IF f \notin Sets(r) THEN device[f] ELSE IF mem[f] = "none" THEN "pending" ELSE mem[f]])

MarkChildrenReported(r) ==
  Applies(r, "children", mem[<<"folder", Ask[r].account, Ask[r].device>>] # "none",
    [f \in Sets(r) |-> "reported"])

\* Commit and Delete under the lock; what they do is Store's.
CommitFile(r) == Applies(r, "commit", TRUE, [f \in Sets(r) |-> TRUE])

\* How many records of an account a log holds from place i on.
Newer(log, a, i) == Cardinality({j \in i..Len(log) : log[j][1] = a})

\* Mutant: the oldest ones of whatever account go.
TrimAnyRecords(log, a) ==
  IF Newer(log, a, 1) > MaxRecords THEN Tail(log) ELSE log

\* A log of which only the records at some places are left, in their order.
Taken(log, kept) ==
  LET Place(i) == Cardinality({j \in kept : j <= i})
  IN  [n \in 1..Cardinality(kept) |-> log[CHOOSE i \in kept : Place(i) = n]]

\* trimSyncRecordsLocked: from the newest to the oldest, the records of the
\* account past the limit are taken out.
TrimSyncRecords(log, a) ==
  Taken(log, {i \in 1..Len(log) : log[i][1] # a \/ Newer(log, a, i) <= MaxRecords})

\* AddSyncRecord
AddSyncRecord(r) ==
  /\ At(r, "apply") /\ Ask[r].op = "record"
  /\ records' = TrimSyncRecords(Append(records, <<Ask[r].account, r>>), Ask[r].account)
  /\ Change(r, << >>)
  /\ UNCHANGED crossed

Apply(r) ==
  \/ CreateAccount(r) \/ ToggleAccount(r) \/ ResetSyncToken(r) \/ ChangePassword(r)
  \/ SetSyncSettings(r) \/ SetAccountSyncEnabled(r) \/ CreateSpace(r) \/ SetSpaceActive(r)
  \/ SetClientStorageRoot(r) \/ IssueClientToken(r) \/ ReportFolder(r)
  \/ MarkChildrenReported(r) \/ CommitFile(r) \/ AddSyncRecord(r)

Next ==
  \/ \E r \in Request :
       \/ Receive(r) \/ Login(r) \/ Logout(r) \/ Admit(r) \/ FindTarget(r) \/ Authenticate(r)
       \/ Enter(r) \/ Touch(r) \/ LookAgain(r) \/ Status(r) \/ Apply(r)
  \/ WriteMetadata \/ WriteControl \/ FailSave
  \/ Start \/ Listen \/ Crash \/ FailStart

Spec == Init /\ [][Next]_vars

-----------------------------------------------------------------------------
(* Properties. *)

\* What was answered "saved" is so, in memory and in what a start would load
\* from the two copies, until somebody asks for something else: no crash
\* between the two writes, no save that fails and no request of a client
\* takes it back.  (saveLocked, loadControlFromSQLite)
AckedSurvives ==
  LET loaded == Loaded
  IN  \A f \in Fact : acked[f] # Unknown =>
        /\ loaded[f] = acked[f]
        /\ up \/ holder = Startup => mem[f] = acked[f]

\* The two copies are read together, one of them a save behind: as long as no
\* save has failed, no start finds files of a space, or a folder of an
\* account, that it does not know.
LoadedIsConsistent == failures = 0 => Consistent(Loaded)

\* A switch that was answered works: a request that comes after the answer,
\* while nobody asks for the opposite, never takes effect.  One that had
\* passed the tests before may (Commit looks at the space before it takes the
\* lock).
LateIsRefused ==
  \A r \in Request : barredBy[r] # {} => answer[r] # "ok" /\ ~(holder = r /\ strict)

\* Some administrator can always log in, unless two of them switched each
\* other off: adminToggleAccount refuses the own account only, and the
\* account that asks was looked up before.
AdminRemains ==
  up => crossed \/ \E a \in Account : Enabled(mem, a) /\ mem[<<"admin", a>>]

\* The records of an account in a log.
OfRecords(log, a) == Taken(log, {i \in 1..Len(log) : log[i][1] = a})

\* A new record takes out the oldest of its own account past the limit, and
\* none of another account's.  (trimSyncRecordsLocked)
RecordsKeepNewest ==
  [][\A r \in Having("open") : AddSyncRecord(r) =>
       \A a \in Account :
         LET old == OfRecords(records, a)
             all == IF a = Ask[r].account THEN Append(old, <<a, r>>) ELSE old
             first == IF Len(all) > MaxRecords /\ a = Ask[r].account THEN Len(all) - MaxRecords ELSE 0
         IN  OfRecords(records', a) = SubSeq(all, first + 1, Len(all))]_vars
=============================================================================
