--------------------------- MODULE RegistryProofs ---------------------------
(***************************************************************************)
(* Theorems about Registry for any accounts, spaces, devices and requests: *)
(* what was answered survives every crash and every save that fails, an    *)
(* administrator is left, a request that comes after a switch is refused,  *)
(* the two copies a start reads fit together, and every account keeps the  *)
(* newest of its records.                                                  *)
(***************************************************************************)
EXTENDS Registry, SequenceTheorems, FiniteSetTheorems, WellFoundedInduction, TLAPS

-----------------------------------------------------------------------------
(* What was answered survives. *)

HasAccount(reg) == \E a \in Account : reg[<<"name", a>>] # NoName

\* What a request can be promised of a space or of a device is never what a
\* start or a report may put right: that it is missing.
Lasts(f, v) ==
  /\ f[1] = "space" => v # "none"
  /\ f[1] = "device" => v \notin {NoDevice, NoRoot}

\* Both copies have what was promised, the database for its tables,
OnDisk ==
  /\ DOMAIN control = ControlFact
  /\ \A f \in Fact : acked[f] # Unknown =>
       /\ Lasts(f, acked[f])
       /\ metadata.reg[f] = acked[f]
       /\ f \in ControlFact => control[f] = acked[f]
       /\ HasAccount(control)

\* and so has the memory of a server that starts or is up.
InMemory ==
  up \/ holder = Startup =>
    /\ HasAccount(mem)
    /\ \A f \in Fact : acked[f] # Unknown => mem[f] = acked[f]

\* While a request saves, the first copy is that of the memory before the
\* second is written; the promise it may get lasts.
SaveUnderWay ==
  /\ holder \in Request =>
       /\ up
       /\ phase = "control" => metadata.reg = mem
       /\ strict => \A f \in Fact \cap Sets(holder) : Lasts(f, mem[f])
  /\ holder = Startup => ~strict /\ ~up
  /\ holder # Nobody => holder \in Request \cup {Startup}
  /\ phase \in {"metadata", "control"}

IInv == OnDisk /\ InMemory /\ SaveUnderWay

\* Seeing a device changes at most what no promise covers.
OnlySeen(f, new) == f[1] = "device" /\ (mem[f] \in {NoDevice, NoRoot} \/ new[f] = mem[f])

\* A request sets what it asks for, and may be a device's first report.
Allowed(r, new) ==
  /\ Sets(r) \subseteq DOMAIN new
  /\ \A f \in DOMAIN new :
       /\ f[1] = "name" => new[f] # NoName
       /\ f \in Sets(r) => Lasts(f, new[f])
       /\ f \notin Sets(r) => OnlySeen(f, new)

\* A name stays when a registry is overlaid with names.
LEMMA NamesStay ==
  ASSUME NEW reg, NEW new, HasAccount(reg),
         \A f \in DOMAIN new : f[1] = "name" => new[f] # NoName
  PROVE  HasAccount(Over(reg, new))
  <1>1. PICK a \in Account : reg[<<"name", a>>] # NoName
    BY DEF HasAccount
  <1>2. <<"name", a>> \in Fact /\ <<"name", a>>[1] = "name"
    BY DEF Fact, ControlFact, OfAccount
  <1>3. Over(reg, new)[<<"name", a>>] # NoName
    BY <1>1, <1>2 DEF Over
  <1> QED
    BY <1>3 DEF HasAccount

LEMMA LoadedHasAcked ==
  ASSUME IInv, NEW f \in Fact, acked[f] # Unknown
  PROVE  Loaded[f] = acked[f] /\ Lasts(f, Loaded[f])
  BY DEF IInv, OnDisk, HasAccount, Loaded, Over

LEMMA ChangeKeeps ==
  ASSUME IInv, NEW r \in Request, NEW new, up, holder = Nobody,
         Allowed(r, new), Change(r, new)
  PROVE  IInv'
  <1>1. /\ mem' = Over(mem, new) /\ holder' = r /\ up' /\ phase' = "metadata"
        /\ UNCHANGED <<control, metadata>>
        /\ \A f \in Fact : acked'[f] = IF f \in Sets(r) THEN Unknown ELSE acked[f]
    BY DEF Change, Save, disk
  <1>2. OnDisk'
    BY <1>1 DEF IInv, OnDisk, Lasts, HasAccount
  <1>3. HasAccount(mem)'
    BY <1>1, NamesStay DEF IInv, InMemory, Allowed, HasAccount
  <1>4. ASSUME NEW f \in Fact, acked'[f] # Unknown PROVE mem'[f] = acked'[f]
    <2>1. f \notin Sets(r) /\ acked'[f] = acked[f] /\ mem[f] = acked[f] /\ Lasts(f, mem[f])
      BY <1>1, <1>4 DEF IInv, OnDisk, InMemory
    <2>2. mem'[f] = IF f \in DOMAIN new THEN new[f] ELSE mem[f]
      BY <1>1 DEF Over
    <2> QED
      BY <2>1, <2>2 DEF Allowed, OnlySeen, Lasts
  <1>5. r # Startup /\ r # Nobody
    BY RegistryAssumption
  <1>6. ASSUME NEW f \in Fact \cap Sets(r) PROVE Lasts(f, mem'[f])
    BY <1>1 DEF Allowed, Over, Lasts
  <1> QED
    BY <1>1, <1>2, <1>3, <1>4, <1>5, <1>6 DEF IInv, InMemory, SaveUnderWay, Lasts

LEMMA FlushKeeps ==
  ASSUME IInv, NEW r \in Request, NEW new, up, holder = Nobody,
         \A f \in DOMAIN new : OnlySeen(f, new), Flush(r, new)
  PROVE  IInv'
  <1>1. /\ mem' = Over(mem, new) /\ holder' = r /\ up' /\ phase' = "metadata" /\ ~strict'
        /\ UNCHANGED <<control, metadata, acked>>
    BY DEF Flush, Save, disk
  <1>2. HasAccount(mem)'
    BY <1>1, NamesStay DEF IInv, InMemory, OnlySeen, HasAccount
  <1>3. ASSUME NEW f \in Fact, acked[f] # Unknown PROVE mem'[f] = acked[f]
    BY <1>1, <1>3 DEF IInv, OnDisk, InMemory, OnlySeen, Over, Lasts
  <1>4. r # Startup
    BY RegistryAssumption
  <1> QED
    BY <1>1, <1>2, <1>3, <1>4 DEF IInv, OnDisk, InMemory, SaveUnderWay, Lasts, HasAccount

\* The variables the invariant is about.
registry == <<up, mem, metadata, control, holder, phase, strict, acked>>

LEMMA IdleKeeps == IInv /\ UNCHANGED registry => IInv'
  <1> SUFFICES ASSUME IInv, UNCHANGED registry PROVE IInv'
    OBVIOUS
  <1>1. OnDisk' /\ InMemory'
    BY DEF IInv, OnDisk, InMemory, Lasts, HasAccount, registry
  <1>2. SaveUnderWay'
    BY DEF IInv, SaveUnderWay, Lasts, registry
  <1> QED
    BY <1>1, <1>2 DEF IInv

LEMMA LooksKeeps == IInv /\ Looks => IInv'
  BY IdleKeeps DEF Looks, disk, saving, registry

LEMMA RefuseKeeps ==
  ASSUME IInv, NEW r \in Request, Refuse(r)
  PROVE  IInv'
  BY LooksKeeps DEF Refuse

\* What the handlers of a device's report add.
LEMMA SeenAllowed ==
  ASSUME NEW a, NEW d, NEW root, NEW f \in DOMAIN SeenDevice(a, d, root)
  PROVE  OnlySeen(f, SeenDevice(a, d, root))
  BY DEF SeenDevice, OnlySeen

-----------------------------------------------------------------------------
(* Every change is allowed. *)

LEMMA AppliesKeeps ==
  ASSUME IInv, NEW r \in Request, NEW op, NEW allowed, NEW new,
         Applies(r, op, allowed, new),
         Ask[r].op = op => Allowed(r, new)
  PROVE  IInv'
  BY ChangeKeeps, RefuseKeeps DEF Applies, At

LEMMA CreateKeeps ==
  ASSUME IInv, NEW r \in Request, CreateAccount(r)
  PROVE  IInv'
  <1> DEFINE a == Ask[r].account
  <1>1. PICK op \in {"create", "register"} :
          Applies(r, op, \A b \in Account : mem[<<"name", b>>] # Ask[r].value,
            NewAccount(a, Ask[r].value, op = "create" /\ Ask[r].on, Ask[r].old, r))
    BY DEF CreateAccount
  <1> DEFINE new == NewAccount(a, Ask[r].value, op = "create" /\ Ask[r].on, Ask[r].old, r)
  <1>2. ASSUME Ask[r].op = op PROVE Allowed(r, new)
    <2>1. DOMAIN new = Sets(r)
      BY <1>2 DEF NewAccount, Sets
    <2>2. Ask[r].value # NoName
      BY <1>2, RegistryAssumption
    <2>3. \A f \in DOMAIN new : /\ f[1] = "name" => new[f] = Ask[r].value
                                /\ f[1] = "space" => new[f] = "on"
                                /\ f[1] # "device"
      BY DEF NewAccount, OfAccount
    <2> QED
      BY <2>1, <2>2, <2>3 DEF Allowed, Lasts
  <1> QED
    BY <1>1, <1>2, AppliesKeeps

\* A handler that gives one fact, or none, a value of its own.
LEMMA OneKeeps ==
  ASSUME IInv, NEW r \in Request, NEW op, NEW allowed, NEW value,
         Applies(r, op, allowed, [f \in Sets(r) |-> value]),
         Ask[r].op = op => \A f \in Sets(r) : f[1] # "name" /\ Lasts(f, value)
  PROVE  IInv'
  <1>1. Ask[r].op = op => Allowed(r, [f \in Sets(r) |-> value])
    BY DEF Allowed
  <1> QED
    BY <1>1, AppliesKeeps

LEMMA SwitchesKeep ==
  ASSUME IInv, NEW r \in Request,
         \/ ResetSyncToken(r) \/ ChangePassword(r) \/ SetSyncSettings(r)
         \/ SetAccountSyncEnabled(r) \/ CreateSpace(r) \/ SetSpaceActive(r)
         \/ SetClientStorageRoot(r) \/ MarkChildrenReported(r) \/ CommitFile(r)
  PROVE  IInv'
  <1>1. CASE ResetSyncToken(r)
    <2>1. Ask[r].op = "reset" => \A f \in Sets(r) : f[1] # "name" /\ Lasts(f, r)
      BY DEF Sets, Lasts
    <2> QED
      BY <1>1, <2>1, OneKeeps DEF ResetSyncToken
  <1>2. CASE ChangePassword(r)
    <2>1. Ask[r].op = "password" => \A f \in Sets(r) : f[1] # "name" /\ Lasts(f, Ask[r].value)
      BY DEF Sets, Lasts
    <2> QED
      BY <1>2, <2>1, OneKeeps DEF ChangePassword
  <1>3. CASE SetSyncSettings(r)
    <2>1. Ask[r].op = "settings" => \A f \in Sets(r) : f[1] # "name" /\ Lasts(f, Ask[r].value)
      BY DEF Sets, Lasts
    <2> QED
      BY <1>3, <2>1, OneKeeps DEF SetSyncSettings
  <1>4. CASE SetAccountSyncEnabled(r)
    <2>1. Ask[r].op = "sync" => \A f \in Sets(r) : f[1] # "name" /\ Lasts(f, Ask[r].on)
      BY DEF Sets, Lasts
    <2> QED
      BY <1>4, <2>1, OneKeeps DEF SetAccountSyncEnabled
  <1>5. CASE CreateSpace(r)
    <2>1. Ask[r].op = "newspace" => \A f \in Sets(r) : f[1] # "name" /\ Lasts(f, "on")
      BY DEF Sets, Lasts
    <2> QED
      BY <1>5, <2>1, OneKeeps DEF CreateSpace
  <1>6. CASE SetSpaceActive(r)
    <2>1. Ask[r].op = "space" =>
            \A f \in Sets(r) : f[1] # "name" /\ Lasts(f, IF Ask[r].on THEN "on" ELSE "off")
      BY DEF Sets, Lasts
    <2> QED
      BY <1>6, <2>1, OneKeeps DEF SetSpaceActive
  <1>7. CASE SetClientStorageRoot(r)
    <2>1. Ask[r].op = "root" => \A f \in Sets(r) : f[1] # "name" /\ Lasts(f, Ask[r].value)
      BY RegistryAssumption DEF Sets, Lasts
    <2> QED
      BY <1>7, <2>1, OneKeeps DEF SetClientStorageRoot
  <1>8. CASE MarkChildrenReported(r)
    <2>1. Ask[r].op = "children" => \A f \in Sets(r) : f[1] # "name" /\ Lasts(f, "reported")
      BY DEF Sets, Lasts
    <2> QED
      BY <1>8, <2>1, OneKeeps DEF MarkChildrenReported
  <1>9. CASE CommitFile(r)
    <2>1. Ask[r].op = "commit" => \A f \in Sets(r) : f[1] = "files"
      BY DEF Sets
    <2>2. Ask[r].op = "commit" => Allowed(r, [f \in Sets(r) |-> TRUE])
      BY <2>1 DEF Allowed, Lasts
    <2>3. Applies(r, "commit", TRUE, [f \in Sets(r) |-> TRUE])
      BY <1>9 DEF CommitFile
    <2> QED
      BY <2>2, <2>3, AppliesKeeps, Zenon
  <1> QED
    BY <1>1, <1>2, <1>3, <1>4, <1>5, <1>6, <1>7, <1>8, <1>9

LEMMA ApplyKeeps ==
  ASSUME IInv, NEW r \in Request, Apply(r)
  PROVE  IInv'
  <1>1. CASE CreateAccount(r)
    BY <1>1, CreateKeeps
  <1>2. CASE ToggleAccount(r)
    <2> DEFINE new == [f \in {<<"disabled", Ask[r].account>>} |-> Ask[r].on]
    <2>1. /\ up /\ holder = Nobody /\ Ask[r].op = "toggle"
          /\ Change(r, new) \/ Refuse(r)
      BY <1>2 DEF ToggleAccount, At
    <2>2. Allowed(r, new)
      BY <2>1 DEF Allowed, Sets, Lasts
    <2> QED
      BY <2>1, <2>2, ChangeKeeps, RefuseKeeps
  <1>3. CASE IssueClientToken(r)
    <2> DEFINE device == SeenDevice(Ask[r].account, Ask[r].device, Ask[r].value)
               new == [f \in Sets(r) \cup DOMAIN device |->
                         IF f \in Sets(r) THEN Ask[r].account ELSE device[f]]
    <2>1. Ask[r].op = "signin" =>
            \A f \in Sets(r) : f[1] # "name" /\ Lasts(f, Ask[r].account)
      BY DEF Sets, Lasts
    <2>2. Ask[r].op = "signin" => Allowed(r, new)
      BY <2>1, SeenAllowed DEF Allowed, OnlySeen
    <2> QED
      BY <1>3, <2>2, AppliesKeeps DEF IssueClientToken
  <1>4. CASE ReportFolder(r)
    <2> DEFINE device == SeenDevice(Ask[r].account, Ask[r].device, Ask[r].value)
               state(f) == IF mem[f] = "none" THEN "pending" ELSE mem[f]
               new == [f \in Sets(r) \cup DOMAIN device |->
                         IF f \notin Sets(r) THEN device[f] ELSE state(f)]
    <2>1. Ask[r].op = "folder" =>
            \A f \in Sets(r) : f[1] # "name" /\ Lasts(f, state(f))
      BY DEF Sets, Lasts
    <2>2. Ask[r].op = "folder" => Allowed(r, new)
      BY <2>1, SeenAllowed DEF Allowed, OnlySeen
    <2> QED
      BY <1>4, <2>2, AppliesKeeps DEF ReportFolder
  <1>5. CASE AddSyncRecord(r)
    <2>1. up /\ holder = Nobody /\ Ask[r].op = "record" /\ Change(r, << >>)
      BY <1>5 DEF AddSyncRecord, At
    <2>2. Allowed(r, << >>)
      BY <2>1 DEF Allowed, Sets
    <2> QED
      BY <2>1, <2>2, ChangeKeeps
  <1> QED
    BY <1>1, <1>2, <1>3, <1>4, <1>5, SwitchesKeep DEF Apply

-----------------------------------------------------------------------------
(* Saves and starts. *)

LEMMA SaveKeeps ==
  ASSUME IInv, WriteMetadata \/ WriteControl \/ FailSave
  PROVE  IInv'
  <1>1. CASE WriteMetadata
    <2>1. /\ holder # Nobody /\ metadata'.reg = mem /\ phase' = "control"
          /\ UNCHANGED <<up, mem, control, holder, strict, acked>>
      BY <1>1 DEF WriteMetadata
    <2>2. up \/ holder = Startup
      BY <2>1 DEF IInv, SaveUnderWay
    <2> QED
      BY <2>1, <2>2 DEF IInv, OnDisk, InMemory, SaveUnderWay, Lasts, HasAccount
  <1>2. CASE WriteControl
    <2>1. /\ holder \in Request /\ holder' = Nobody /\ metadata.reg = mem /\ up
          /\ control' = [f \in ControlFact |-> mem[f]]
          /\ UNCHANGED <<up, mem, metadata, phase, strict>>
      BY <1>2 DEF WriteControl, IInv, SaveUnderWay
    <2>2. \A f \in Fact : acked'[f] = IF strict /\ f \in Sets(holder) THEN mem[f] ELSE acked[f]
      BY <1>2 DEF WriteControl
    <2>3. HasAccount(control)'
      BY <2>1 DEF IInv, InMemory, HasAccount, ControlFact, OfAccount
    <2>4. Nobody \notin Request /\ Nobody # Startup
      BY RegistryAssumption
    <2>5. OnDisk'
      BY <2>1, <2>2, <2>3 DEF IInv, OnDisk, InMemory, SaveUnderWay
    <2>6. InMemory'
      BY <2>1, <2>2 DEF IInv, InMemory, HasAccount
    <2> QED
      BY <2>1, <2>4, <2>5, <2>6 DEF IInv, SaveUnderWay
  <1>3. CASE FailSave
    BY <1>3, RegistryAssumption
    DEF FailSave, IInv, OnDisk, InMemory, SaveUnderWay, Lasts, HasAccount, disk
  <1> QED
    BY <1>1, <1>2, <1>3

LEMMA StartKeeps ==
  ASSUME IInv, Start
  PROVE  IInv'
  <1>1. /\ ~up /\ holder = Nobody /\ holder' = Startup /\ phase' \in {"metadata", "control"}
        /\ ~strict' /\ UNCHANGED <<up, metadata, control, acked>>
    BY DEF Start, disk
  <1>2. Startup \notin Request /\ Startup # Nobody
    BY RegistryAssumption
  <1>3. OnDisk' /\ SaveUnderWay'
    BY <1>1, <1>2 DEF IInv, OnDisk, SaveUnderWay, Lasts, HasAccount
  <1>4. CASE \A a \in Account : ~Exists(Loaded, a)
    <2> DEFINE new == NewAccount(Admin, AdminName, TRUE, AdminPassword, NoToken)
    <2>1. mem' = Over(Loaded, new)
      BY <1>4 DEF Start
    <2>2. \A f \in Fact : acked[f] = Unknown
      BY <1>4, LoadedHasAcked
      DEF IInv, OnDisk, HasAccount, Exists, Fact, ControlFact, Loaded, Over, OfAccount
    <2>3. <<"name", Admin>> \in Fact /\ Admin \in Account /\ AdminName # NoName
      BY RegistryAssumption DEF Fact, ControlFact, OfAccount
    <2>4. <<"name", Admin>> \in DOMAIN new /\ new[<<"name", Admin>>] = AdminName
      BY DEF NewAccount, OfAccount
    <2>5. mem'[<<"name", Admin>>] = AdminName
      BY <2>1, <2>3, <2>4 DEF Over
    <2> QED
      BY <1>1, <1>3, <2>2, <2>3, <2>5 DEF IInv, InMemory, HasAccount
  <1>5. CASE \E a \in Account : Exists(Loaded, a)
    <2>1. PICK first \in Account :
            LET f == <<"space", first, Default>>
                reg == FoldersSeen(Loaded)
            IN  mem' = IF reg[f] = "none" THEN [reg EXCEPT ![f] = "on"] ELSE reg
      BY <1>5 DEF Start
    <2>2. ASSUME NEW f \in Fact
          PROVE  mem'[f] = IF /\ f \in {"device"} \X Account \X Device
                              /\ Loaded[f] = NoDevice
                              /\ Loaded[<<"folder", f[2], f[3]>>] # "none"
                             THEN NoRoot
                           ELSE IF f = <<"space", first, Default>> /\ Loaded[f] = "none"
                             THEN "on" ELSE Loaded[f]
      BY <2>1 DEF FoldersSeen, Over
    <2>3. ASSUME NEW f \in Fact, acked[f] # Unknown PROVE mem'[f] = acked[f]
      BY <2>2, <2>3, LoadedHasAcked DEF Lasts
    <2>4. \A a \in Account : mem'[<<"name", a>>] = Loaded[<<"name", a>>]
      BY <2>2 DEF Fact, ControlFact, OfAccount
    <2>5. HasAccount(mem)'
      BY <1>5, <2>4 DEF Exists, HasAccount
    <2> QED
      BY <1>1, <1>3, <2>3, <2>5 DEF IInv, InMemory
  <1> QED
    BY <1>4, <1>5

LEMMA ListenKeeps ==
  ASSUME IInv, Listen
  PROVE  IInv'
  <1>1. /\ holder = Startup /\ holder' = Nobody /\ ~strict
        /\ control' = [f \in ControlFact |-> mem[f]]
        /\ UNCHANGED <<mem, metadata, phase, strict, acked>>
    BY DEF Listen, IInv, SaveUnderWay
  <1>2. HasAccount(control)'
    BY <1>1 DEF IInv, InMemory, HasAccount, ControlFact, OfAccount
  <1>3. OnDisk'
    BY <1>1, <1>2 DEF IInv, OnDisk, InMemory, Lasts
  <1>4. InMemory'
    BY <1>1 DEF IInv, InMemory, HasAccount
  <1> QED
    BY <1>1, <1>3, <1>4, RegistryAssumption DEF IInv, SaveUnderWay

LEMMA DownKeeps ==
  ASSUME IInv, Down, UNCHANGED <<disk, acked>>
  PROVE  IInv'
  BY RegistryAssumption DEF Down, IInv, OnDisk, InMemory, SaveUnderWay, Lasts, HasAccount, disk

LEMMA IInvInit == Init => IInv
  BY RegistryAssumption DEF Init, IInv, OnDisk, InMemory, SaveUnderWay

LEMMA HandlerKeeps ==
  ASSUME IInv, NEW r \in Request,
         \/ Receive(r) \/ Login(r) \/ Logout(r) \/ Admit(r) \/ FindTarget(r)
         \/ Authenticate(r) \/ Enter(r) \/ Touch(r) \/ LookAgain(r) \/ Status(r)
  PROVE  IInv'
  <1>1. CASE Receive(r) \/ Login(r) \/ Logout(r)
    BY <1>1, IdleKeeps DEF Receive, Login, Logout, registry, disk, saving
  <1>2. CASE Admit(r) \/ FindTarget(r) \/ Enter(r) \/ LookAgain(r)
    <2>1. Looks
      BY <1>2 DEF Admit, FindTarget, Enter, LookAgain, Refuse
    <2> QED
      BY <2>1, LooksKeeps
  <1>3. CASE Authenticate(r)
    <2>1. CASE Looks
      BY <2>1, LooksKeeps
    <2>2. CASE /\ up /\ Save(r, FALSE)
               /\ UNCHANGED <<up, mem, disk, acked>>
      BY <2>2, RegistryAssumption
      DEF IInv, OnDisk, InMemory, SaveUnderWay, Save, Lasts, HasAccount, disk
    <2> QED
      BY <1>3, <2>1, <2>2 DEF Authenticate, At, Refuse
  <1>4. CASE Touch(r)
    <2>1. /\ up /\ holder = Nobody
          /\ Flush(r, SeenDevice(Ask[r].by, Ask[r].device, NoRoot))
      BY <1>4 DEF Touch, At
    <2> QED
      BY <2>1, FlushKeeps, SeenAllowed
  <1>5. CASE Status(r)
    <2>1. /\ up /\ holder = Nobody
          /\ Flush(r, << >>) \/ Looks
      BY <1>5 DEF Status, At
    <2> QED
      BY <2>1, FlushKeeps, LooksKeeps
  <1> QED
    BY <1>1, <1>2, <1>3, <1>4, <1>5

LEMMA IInvStep == IInv /\ [Next]_vars => IInv'
  <1> SUFFICES ASSUME IInv, [Next]_vars PROVE IInv'
    OBVIOUS
  <1>1. CASE UNCHANGED vars
    BY <1>1, IdleKeeps DEF vars, registry
  <1>2. CASE Crash \/ FailStart
    BY <1>2, DownKeeps DEF Crash, FailStart
  <1> QED
    BY <1>1, <1>2, HandlerKeeps, ApplyKeeps, SaveKeeps, StartKeeps, ListenKeeps DEF Next

\* What was answered "saved" survives: no crash between the two copies, no
\* save that fails, no start from one old and one new copy and no request of
\* somebody else takes it back.
THEOREM AnswersSurvive == Spec => []AckedSurvives
  <1>1. IInv => AckedSurvives
    BY LoadedHasAcked DEF AckedSurvives, IInv, InMemory
  <1> QED
    BY <1>1, IInvInit, IInvStep, PTL DEF Spec

-----------------------------------------------------------------------------
(* An administrator is left. *)

HasAdmin(reg) == \E a \in Account : Enabled(reg, a) /\ reg[<<"admin", a>>]

\* Whoever holds one of the three registries finds an administrator in it.
AdminEverywhere ==
  \/ crossed
  \/ /\ HasAccount(control) => HasAdmin(control)
     /\ HasAccount(metadata.reg) => HasAdmin(metadata.reg)
     /\ up \/ holder = Startup => HasAdmin(mem)

\* Who is about to switch an account off is an administrator and another one,
\* though perhaps switched off since the page was opened.
TogglesAreAdmins ==
  /\ DOMAIN todo = Request
  /\ \A r \in Request : Ask[r].op = "toggle" =>
       /\ todo[r] \in {<< >>, <<"apply">>, <<"admit", "apply">>}
       /\ todo[r] = <<"apply">> =>
            /\ up
            /\ Ask[r].account # Ask[r].by
            /\ Exists(mem, Ask[r].by) /\ mem[<<"admin", Ask[r].by>>]

AInv == IInv /\ AdminEverywhere /\ TogglesAreAdmins

\* The facts that make an administrator.
AdminFact == {"name", "admin", "disabled"} \X Account

LEMMA AdminFacts ==
  /\ AdminFact \subseteq ControlFact /\ AdminFact \subseteq Fact
  /\ \A a \in Account : /\ <<"name", a>> \in AdminFact /\ <<"admin", a>> \in AdminFact
                         /\ <<"disabled", a>> \in AdminFact
  BY DEF AdminFact, ControlFact, Fact, OfAccount

\* Who has the same names, administrators and switches has an administrator.
LEMMA SameAdmins ==
  ASSUME NEW reg, NEW other, HasAdmin(reg), \A f \in AdminFact : other[f] = reg[f]
  PROVE  HasAdmin(other)
  BY AdminFacts DEF HasAdmin, Enabled, Exists

LEMMA Pair ==
  ASSUME NEW S, NEW x \in S, NEW y \in S
  PROVE  <<x>> \o <<y>> = <<x, y>>
  <1> DEFINE both == <<x>> \o <<y>>
             pair == <<x, y>>
  <1>1. /\ both \in Seq(S) /\ Len(both) = 2 /\ both[1] = x /\ both[2] = y
        /\ pair \in Seq(S) /\ Len(pair) = 2 /\ pair[1] = x /\ pair[2] = y
    OBVIOUS
  <1>2. \A i \in 1..2 : both[i] = pair[i]
    BY <1>1
  <1> HIDE DEF both, pair
  <1>3. both = pair
    BY <1>1, <1>2, SeqEqual
  <1> QED
    BY <1>3 DEF both, pair

LEMMA StepsOfToggle == Steps("toggle") = <<"admit", "apply">>
  <1> DEFINE first == "admit"
             last == "apply"
  <1>1. Steps("toggle") = ((<<first>> \o << >>) \o <<last>>) \o << >>
    BY DEF Steps, PageOp, AdminOp, OwnerOp, SpaceOp, ClientOp, SyncOp
  <1>2. first \in {first, last} /\ last \in {first, last}
    OBVIOUS
  <1> HIDE DEF first, last
  <1>3. <<first>> \o << >> = <<first>> /\ <<first, last>> \o << >> = <<first, last>>
    BY <1>2
  <1>4. <<first>> \o <<last>> = <<first, last>>
    BY <1>2, Pair
  <1>5. Steps("toggle") = <<first, last>>
    BY <1>1, <1>3, <1>4
  <1> QED
    BY <1>5 DEF first, last

\* Toggles that only come in or end do not mind what happens to accounts
\* that keep their name and their rank.
LEMMA TogglesStay ==
  ASSUME TogglesAreAdmins, DOMAIN todo' = Request, up => up',
         \A q \in Request : Ask[q].op = "toggle" =>
           todo'[q] = todo[q] \/ todo'[q] \in {<< >>, <<"admit", "apply">>},
         \A b \in Account : Exists(mem, b) =>
           Exists(mem', b) /\ (mem[<<"admin", b>>] => mem'[<<"admin", b>>])
  PROVE  TogglesAreAdmins'
  <1>1. ASSUME NEW q \in Request, Ask[q].op = "toggle"
        PROVE  /\ todo'[q] \in {<< >>, <<"apply">>, <<"admit", "apply">>}
               /\ todo'[q] = <<"apply">> =>
                    /\ up'
                    /\ Ask[q].account # Ask[q].by
                    /\ Exists(mem', Ask[q].by) /\ mem'[<<"admin", Ask[q].by>>]
    <2>1. <<"admit", "apply">> # <<"apply">> /\ << >> # <<"apply">>
      OBVIOUS
    <2>2. Ask[q].by \in Account
      BY RegistryAssumption
    <2> QED
      BY <1>1, <2>1, <2>2 DEF TogglesAreAdmins
  <1> QED
    BY <1>1 DEF TogglesAreAdmins, Exists

\* A handler that is no toggle's, or looks only, and leaves the facts alone.
LEMMA HarmlessKeeps ==
  ASSUME AInv, NEW r \in Request, NEW rest,
         up, up', UNCHANGED <<metadata, control, crossed>>,
         todo' = todo \/ (todo' = [todo EXCEPT ![r] = rest]
                          /\ (Ask[r].op = "toggle" => rest \in {<< >>, <<"admit", "apply">>})),
         \A f \in AdminFact : mem'[f] = mem[f]
  PROVE  AdminEverywhere' /\ TogglesAreAdmins'
  <1>1. AdminEverywhere'
    BY SameAdmins DEF AInv, AdminEverywhere, HasAccount, HasAdmin, Enabled, Exists
  <1>2. /\ DOMAIN todo' = Request
        /\ \A q \in Request : Ask[q].op = "toggle" =>
             todo'[q] = todo[q] \/ todo'[q] \in {<< >>, <<"admit", "apply">>}
    BY DEF AInv, TogglesAreAdmins
  <1>3. TogglesAreAdmins'
    BY <1>2, TogglesStay, AdminFacts DEF AInv, Exists
  <1> QED
    BY <1>1, <1>3

\* A step of a request's handler other than Admit that gets through and the
\* last step of a toggle.
LEMMA AdvanceOthers ==
  ASSUME AInv, NEW r \in Request, NEW step, step \notin {"admit", "apply"}, At(r, step)
  PROVE  Ask[r].op # "toggle"
  <1>1. Head(<<"apply">>) = "apply" /\ Head(<<"admit", "apply">>) = "admit"
    OBVIOUS
  <1> QED
    BY <1>1 DEF AInv, TogglesAreAdmins, At

LEMMA RefuseKeepsAdmin ==
  ASSUME AInv, NEW r \in Request, up, Refuse(r)
  PROVE  AdminEverywhere' /\ TogglesAreAdmins'
  BY HarmlessKeeps DEF Refuse, Looks, disk

\* No handler but those of CreateAccount and ToggleAccount sets such a fact.
LEMMA HarmlessChange ==
  ASSUME AInv, NEW r \in Request, NEW new, up, Change(r, new) \/ Flush(r, new),
         UNCHANGED crossed, Ask[r].op # "toggle", DOMAIN new \cap AdminFact = {}
  PROVE  AdminEverywhere' /\ TogglesAreAdmins'
  <1>1. \A f \in AdminFact : mem'[f] = mem[f]
    BY AdminFacts DEF Change, Flush, Over
  <1>2. /\ up' /\ UNCHANGED <<metadata, control>>
        /\ todo' = [todo EXCEPT ![r] = Tail(todo[r])]
    BY DEF Change, Flush, disk
  <1> QED
    BY <1>1, <1>2, HarmlessKeeps

LEMMA HarmlessSets ==
  ASSUME NEW r \in Request,
         Ask[r].op \in {"reset", "password", "settings", "sync", "newspace", "space", "root",
                        "signin", "folder", "children", "commit", "record"}
  PROVE  Sets(r) \cap AdminFact = {}
  BY DEF Sets, AdminFact

LEMMA HarmlessSeen ==
  ASSUME NEW a, NEW d, NEW root
  PROVE  DOMAIN SeenDevice(a, d, root) \cap AdminFact = {}
  BY DEF SeenDevice, AdminFact

LEMMA HarmlessApplies ==
  ASSUME AInv, NEW r \in Request, NEW op, NEW allowed, NEW new,
         Applies(r, op, allowed, new), op # "toggle",
         Ask[r].op = op => DOMAIN new \cap AdminFact = {}
  PROVE  AdminEverywhere' /\ TogglesAreAdmins'
  BY HarmlessChange, RefuseKeepsAdmin DEF Applies, At

LEMMA CreateKeepsAdmin ==
  ASSUME AInv, NEW r \in Request, CreateAccount(r)
  PROVE  AdminEverywhere' /\ TogglesAreAdmins'
  <1> DEFINE a == Ask[r].account
  <1>1. PICK op \in {"create", "register"} :
          Applies(r, op, \A b \in Account : mem[<<"name", b>>] # Ask[r].value,
            NewAccount(a, Ask[r].value, op = "create" /\ Ask[r].on, Ask[r].old, r))
    BY DEF CreateAccount
  <1> DEFINE new == NewAccount(a, Ask[r].value, op = "create" /\ Ask[r].on, Ask[r].old, r)
  <1>2. CASE Refuse(r)
    BY <1>1, <1>2, RefuseKeepsAdmin DEF Applies, At
  <1>3. CASE /\ Change(r, new) /\ UNCHANGED crossed
             /\ \A b \in Account : mem[<<"name", b>>] # Ask[r].value
    <2>1. ~Exists(mem, a) /\ Ask[r].op = op /\ op # "toggle" /\ up /\ holder = Nobody
      BY <1>1, <1>3 DEF CreateAccount, Applies, At
    <2>2. \A f \in AdminFact : f \in DOMAIN new => f[2] = a
      BY DEF NewAccount, AdminFact
    <2>3. ASSUME NEW b \in Account, Exists(mem, b)
          PROVE  \A f \in {<<"name", b>>, <<"admin", b>>, <<"disabled", b>>} : mem'[f] = mem[f]
      <3>1. b # a
        BY <2>1, <2>3
      <3>2. mem' = Over(mem, new)
        BY <1>3 DEF Change
      <3> QED
        BY <3>1, <3>2, <2>2, AdminFacts DEF Over
    <2>4. HasAdmin(mem) => HasAdmin(mem)'
      BY <2>3 DEF HasAdmin, Enabled, Exists
    <2>5. /\ up' /\ UNCHANGED <<metadata, control>>
          /\ todo' = [todo EXCEPT ![r] = Tail(todo[r])]
      BY <1>3, <2>1 DEF Change, disk
    <2>6. AdminEverywhere'
      BY <1>3, <2>1, <2>4, <2>5
      DEF AInv, AdminEverywhere, HasAccount, HasAdmin, Enabled, Exists
    <2>7. \A q \in Request : Ask[q].op = "toggle" => todo'[q] = todo[q]
      BY <2>1, <2>5 DEF AInv, TogglesAreAdmins
    <2>8. DOMAIN todo' = Request
      BY <2>5 DEF AInv, TogglesAreAdmins
    <2>9. TogglesAreAdmins'
      BY <2>3, <2>5, <2>7, <2>8, TogglesStay DEF AInv, Exists
    <2> QED
      BY <2>6, <2>9
  <1> QED
    BY <1>1, <1>2, <1>3 DEF Applies

\* The one that asks is left, unless it was switched off since.
LEMMA ToggleKeepsAdmin ==
  ASSUME AInv, NEW r \in Request, ToggleAccount(r)
  PROVE  AdminEverywhere' /\ TogglesAreAdmins'
  <1> DEFINE a == Ask[r].account
             by == Ask[r].by
             new == [f \in {<<"disabled", a>>} |-> Ask[r].on]
  <1>1. /\ up /\ Ask[r].op = "toggle" /\ todo[r] = <<"apply">>
        /\ a \in Account /\ by \in Account /\ Ask[r].on \in BOOLEAN
    <2>1. Head(<<"admit", "apply">>) = "admit" /\ "admit" # "apply"
      OBVIOUS
    <2> QED
      BY <2>1, RegistryAssumption DEF ToggleAccount, At, AInv, TogglesAreAdmins
  <1>2. CASE Refuse(r)
    BY <1>1, <1>2, RefuseKeepsAdmin
  <1>3. CASE Change(r, new) /\ crossed' = (crossed \/ (Ask[r].on /\ mem[<<"disabled", by>>]))
    <2>1. /\ mem' = Over(mem, new) /\ up' /\ UNCHANGED <<metadata, control>>
          /\ todo' = [todo EXCEPT ![r] = Tail(todo[r])]
      BY <1>1, <1>3 DEF Change, disk
    <2>2. \A f \in AdminFact : mem'[f] = IF f = <<"disabled", a>> THEN Ask[r].on ELSE mem[f]
      BY <2>1, AdminFacts DEF Over
    <2>3. by # a /\ Exists(mem, by) /\ mem[<<"admin", by>>]
      BY <1>1 DEF AInv, TogglesAreAdmins
    <2>4. \A b \in Account : /\ mem'[<<"name", b>>] = mem[<<"name", b>>]
                             /\ mem'[<<"admin", b>>] = mem[<<"admin", b>>]
                             /\ b # a => mem'[<<"disabled", b>>] = mem[<<"disabled", b>>]
                             /\ b = a => mem'[<<"disabled", b>>] = Ask[r].on
      BY <2>2, AdminFacts
    <2>5. ASSUME Ask[r].on /\ mem[<<"disabled", by>>] PROVE AdminEverywhere'
      BY <1>3, <2>5 DEF AdminEverywhere
    <2>6. ASSUME Ask[r].on /\ ~mem[<<"disabled", by>>] PROVE AdminEverywhere'
      <3>1. HasAdmin(mem)'
        BY <1>1, <2>3, <2>4, <2>6 DEF HasAdmin, Enabled, Exists
      <3> QED
        BY <1>3, <2>1, <3>1 DEF AInv, AdminEverywhere, HasAccount, HasAdmin, Enabled, Exists
    <2>7. ASSUME ~Ask[r].on PROVE AdminEverywhere'
      <3>1. HasAdmin(mem) => HasAdmin(mem)'
        BY <1>1, <2>4, <2>7 DEF HasAdmin, Enabled, Exists
      <3> QED
        BY <1>1, <1>3, <2>1, <2>7, <3>1
        DEF AInv, AdminEverywhere, HasAccount, HasAdmin, Enabled, Exists
    <2>8. AdminEverywhere'
      BY <1>1, <2>5, <2>6, <2>7
    <2>9. /\ DOMAIN todo' = Request
          /\ \A q \in Request : todo'[q] = IF q = r THEN << >> ELSE todo[q]
      <3>1. Tail(<<"apply">>) = << >>
        OBVIOUS
      <3> QED
        BY <1>1, <2>1, <3>1 DEF AInv, TogglesAreAdmins
    <2>10. TogglesAreAdmins'
      BY <2>1, <2>4, <2>9, TogglesStay DEF AInv, Exists
    <2> QED
      BY <2>8, <2>10
  <1> QED
    BY <1>2, <1>3 DEF ToggleAccount

LEMMA ApplyKeepsAdmin ==
  ASSUME AInv, NEW r \in Request, Apply(r)
  PROVE  AdminEverywhere' /\ TogglesAreAdmins'
  <1>1. CASE CreateAccount(r)
    BY <1>1, CreateKeepsAdmin
  <1>2. CASE ToggleAccount(r)
    BY <1>2, ToggleKeepsAdmin
  <1>3. CASE ResetSyncToken(r)
    BY <1>3, HarmlessApplies, HarmlessSets DEF ResetSyncToken
  <1>4. CASE ChangePassword(r)
    BY <1>4, HarmlessApplies, HarmlessSets DEF ChangePassword
  <1>5. CASE SetSyncSettings(r)
    BY <1>5, HarmlessApplies, HarmlessSets DEF SetSyncSettings
  <1>6. CASE SetAccountSyncEnabled(r)
    BY <1>6, HarmlessApplies, HarmlessSets DEF SetAccountSyncEnabled
  <1>7. CASE CreateSpace(r)
    BY <1>7, HarmlessApplies, HarmlessSets DEF CreateSpace
  <1>8. CASE SetSpaceActive(r)
    BY <1>8, HarmlessApplies, HarmlessSets DEF SetSpaceActive
  <1>9. CASE SetClientStorageRoot(r)
    BY <1>9, HarmlessApplies, HarmlessSets DEF SetClientStorageRoot
  <1>10. CASE IssueClientToken(r)
    BY <1>10, HarmlessApplies, HarmlessSets, HarmlessSeen DEF IssueClientToken
  <1>11. CASE ReportFolder(r)
    BY <1>11, HarmlessApplies, HarmlessSets, HarmlessSeen DEF ReportFolder
  <1>12. CASE MarkChildrenReported(r)
    BY <1>12, HarmlessApplies, HarmlessSets DEF MarkChildrenReported
  <1>13. CASE CommitFile(r)
    BY <1>13, HarmlessApplies, HarmlessSets DEF CommitFile
  <1>14. CASE AddSyncRecord(r)
    <2>1. /\ up /\ Ask[r].op = "record" /\ Change(r, << >>) /\ UNCHANGED crossed
      BY <1>14 DEF AddSyncRecord, At
    <2>2. DOMAIN << >> \cap AdminFact = {}
      OBVIOUS
    <2> QED
      BY <2>1, <2>2, HarmlessChange
  <1> QED
    BY <1>1, <1>2, <1>3, <1>4, <1>5, <1>6, <1>7, <1>8, <1>9, <1>10, <1>11, <1>12, <1>13, <1>14
    DEF Apply

LEMMA HandlerKeepsAdmin ==
  ASSUME AInv, NEW r \in Request,
         \/ Receive(r) \/ Login(r) \/ Logout(r) \/ Admit(r) \/ FindTarget(r)
         \/ Authenticate(r) \/ Enter(r) \/ Touch(r) \/ LookAgain(r) \/ Status(r)
  PROVE  AdminEverywhere' /\ TogglesAreAdmins'
  <1>1. CASE Receive(r)
    <2>1. /\ up /\ up' /\ UNCHANGED <<metadata, control, crossed, mem>>
          /\ todo' = [todo EXCEPT ![r] = Steps(Ask[r].op)]
      BY <1>1 DEF Receive, disk
    <2> QED
      BY <2>1, StepsOfToggle, HarmlessKeeps
  <1>2. CASE Login(r) \/ Logout(r)
    BY <1>2, HarmlessKeeps DEF Login, Logout, disk, handlers
  <1>3. CASE Admit(r)
    <2>1. CASE Refuse(r)
      BY <1>3, <2>1, RefuseKeepsAdmin DEF Admit, At
    <2>2. CASE /\ Advance(r) /\ Looks
               /\ Enabled(mem, Ask[r].by)
               /\ Ask[r].op \in AdminOp => mem[<<"admin", Ask[r].by>>]
               /\ Ask[r].op = "toggle" => Ask[r].account # Ask[r].by
      <3>1. /\ up' /\ UNCHANGED <<up, metadata, control, holder, crossed, mem>>
            /\ todo' = [todo EXCEPT ![r] = Tail(todo[r])]
            /\ todo[r] # << >> /\ Head(todo[r]) = "admit"
        BY <1>3, <2>2 DEF Admit, At, Advance, Looks, disk, saving
      <3>2. AdminEverywhere'
        BY <3>1 DEF AInv, AdminEverywhere, HasAccount, HasAdmin, Enabled, Exists
      <3>3. Head(<<"apply">>) # "admit" /\ Tail(<<"admit", "apply">>) = <<"apply">>
        OBVIOUS
      <3>4. Ask[r].op = "toggle" => todo'[r] = <<"apply">>
        BY <3>1, <3>3 DEF AInv, TogglesAreAdmins
      <3>5. ASSUME NEW q \in Request, Ask[q].op = "toggle"
            PROVE  /\ todo'[q] \in {<< >>, <<"apply">>, <<"admit", "apply">>}
                   /\ todo'[q] = <<"apply">> =>
                        /\ up'
                        /\ Ask[q].account # Ask[q].by
                        /\ Exists(mem, Ask[q].by) /\ mem[<<"admin", Ask[q].by>>]
        BY <2>2, <3>1, <3>4, <3>5 DEF AInv, TogglesAreAdmins, AdminOp, Enabled
      <3>6. TogglesAreAdmins'
        BY <3>1, <3>5 DEF AInv, TogglesAreAdmins, Exists
      <3> QED
        BY <3>2, <3>6
    <2> QED
      BY <1>3, <2>1, <2>2 DEF Admit
  <1>4. CASE FindTarget(r) \/ Enter(r) \/ LookAgain(r)
    <2>1. Ask[r].op # "toggle" /\ up
      BY <1>4, AdvanceOthers DEF FindTarget, Enter, LookAgain, At
    <2> QED
      BY <1>4, <2>1, HarmlessKeeps, RefuseKeepsAdmin
      DEF FindTarget, Enter, LookAgain, Advance, Looks, disk
  <1>5. CASE Authenticate(r)
    <2>1. Ask[r].op # "toggle" /\ up
      BY <1>5, AdvanceOthers DEF Authenticate, At
    <2>2. \/ Refuse(r)
          \/ /\ UNCHANGED <<up, mem, metadata, control, crossed>>
             /\ \E rest : todo' = [todo EXCEPT ![r] = rest]
      BY <1>5 DEF Authenticate, Advance, Looks, disk
    <2> QED
      BY <2>1, <2>2, HarmlessKeeps, RefuseKeepsAdmin
  <1>6. CASE Touch(r)
    <2>1. Ask[r].op # "toggle" /\ up
      BY <1>6, AdvanceOthers DEF Touch, At
    <2>2. Flush(r, SeenDevice(Ask[r].by, Ask[r].device, NoRoot)) /\ UNCHANGED crossed
      BY <1>6 DEF Touch, Flush
    <2> QED
      BY <2>1, <2>2, HarmlessChange, HarmlessSeen
  <1>7. CASE Status(r)
    <2>1. Ask[r].op # "toggle" /\ up
      BY <1>7, AdvanceOthers DEF Status, At
    <2>2. DOMAIN << >> \cap AdminFact = {}
      OBVIOUS
    <2>3. CASE Flush(r, << >>)
      BY <2>1, <2>2, <2>3, HarmlessChange DEF Flush
    <2>4. CASE Advance(r) /\ Looks
      BY <2>1, <2>4, HarmlessKeeps DEF Advance, Looks, disk
    <2> QED
      BY <1>7, <2>3, <2>4 DEF Status
  <1> QED
    BY <1>1, <1>2, <1>3, <1>4, <1>5, <1>6, <1>7

LEMMA SaveKeepsAdmin ==
  ASSUME AInv, WriteMetadata \/ WriteControl \/ FailSave \/ Listen
  PROVE  AdminEverywhere' /\ TogglesAreAdmins'
  <1>1. up \/ holder = Startup
    BY RegistryAssumption
    DEF AInv, IInv, SaveUnderWay, WriteMetadata, WriteControl, FailSave, Listen
  <1>2. UNCHANGED <<mem, crossed>> /\ (UNCHANGED up \/ up' = TRUE)
    BY DEF WriteMetadata, WriteControl, FailSave, Listen
  <1>3. \/ UNCHANGED metadata
        \/ metadata' = [reg |-> mem, records |-> records]
    BY DEF WriteMetadata, WriteControl, FailSave, Listen, disk
  <1>4. \/ UNCHANGED control
        \/ control' = [f \in ControlFact |-> mem[f]]
    BY DEF WriteMetadata, WriteControl, FailSave, Listen, disk
  <1>5. ASSUME ~crossed
        PROVE  /\ HasAdmin(mem')
               /\ HasAccount(metadata'.reg) => HasAdmin(metadata'.reg)
               /\ HasAccount(control') => HasAdmin(control')
    <2>0. UNCHANGED metadata \/ metadata'.reg = mem
      BY <1>3
    <2>1. /\ HasAdmin(mem)
          /\ HasAccount(metadata.reg) => HasAdmin(metadata.reg)
          /\ HasAccount(control) => HasAdmin(control)
      BY <1>1, <1>5 DEF AInv, AdminEverywhere
    <2>2. control' = [f \in ControlFact |-> mem[f]] => HasAdmin(control')
      BY <2>1, SameAdmins, AdminFacts
    <2> QED
      BY <1>2, <1>4, <2>0, <2>1, <2>2
  <1>6. AdminEverywhere'
    BY <1>2, <1>5 DEF AdminEverywhere, HasAccount, HasAdmin, Enabled, Exists
  <1>7. todo' = todo \/ todo' = [todo EXCEPT ![holder] = << >>]
    BY DEF WriteMetadata, WriteControl, FailSave, Listen, Reply, handlers
  <1>8. /\ DOMAIN todo' = Request
        /\ \A q \in Request : todo'[q] = todo[q] \/ todo'[q] = << >>
    BY <1>7 DEF AInv, TogglesAreAdmins
  <1>9. TogglesAreAdmins'
    BY <1>2, <1>8, TogglesStay DEF AInv, Exists
  <1> QED
    BY <1>6, <1>9

LEMMA StartKeepsAdmin ==
  ASSUME AInv, Start
  PROVE  AdminEverywhere' /\ TogglesAreAdmins'
  <1>1. /\ ~up' /\ ~up /\ holder = Nobody /\ UNCHANGED <<metadata, control, crossed, todo>>
    BY DEF Start, disk, handlers
  <1>2. TogglesAreAdmins'
    BY <1>1 DEF AInv, TogglesAreAdmins
  <1>3. crossed \/ HasAdmin(mem') => AdminEverywhere'
    BY <1>1 DEF AInv, AdminEverywhere, HasAccount, HasAdmin, Enabled, Exists
  <1>4. CASE \A a \in Account : ~Exists(Loaded, a)
    <2> DEFINE new == NewAccount(Admin, AdminName, TRUE, AdminPassword, NoToken)
    <2>1. mem' = Over(Loaded, new)
      BY <1>4 DEF Start
    <2>2. Admin \in Account /\ AdminName # NoName
      BY RegistryAssumption
    <2>3. /\ mem'[<<"name", Admin>>] = AdminName
          /\ mem'[<<"admin", Admin>>] = TRUE
          /\ mem'[<<"disabled", Admin>>] = FALSE
      BY <2>1, <2>2, AdminFacts DEF Over, NewAccount, OfAccount
    <2> QED
      BY <1>2, <1>3, <2>2, <2>3 DEF HasAdmin, Enabled, Exists
  <1>5. CASE \E a \in Account : Exists(Loaded, a)
    <2>1. PICK first \in Account :
            LET f == <<"space", first, Default>>
                reg == FoldersSeen(Loaded)
            IN  mem' = IF reg[f] = "none" THEN [reg EXCEPT ![f] = "on"] ELSE reg
      BY <1>5 DEF Start
    <2>2. ASSUME NEW f \in AdminFact PROVE mem'[f] = Loaded[f]
      <3>1. f \in Fact /\ f[1] # "space" /\ f[1] # "device"
        BY AdminFacts DEF AdminFact
      <3>2. FoldersSeen(Loaded)[f] = Loaded[f]
        BY <3>1 DEF FoldersSeen, Over
      <3> QED
        BY <2>1, <3>1, <3>2 DEF FoldersSeen, Over
    <2>3. crossed \/ HasAdmin(Loaded)
      <3>1. CASE HasAccount(control)
        <4>1. \A f \in AdminFact : Loaded[f] = control[f]
          BY <3>1, AdminFacts DEF Loaded, Over, HasAccount, AInv, IInv, OnDisk
        <4> QED
          BY <3>1, <4>1, SameAdmins DEF AInv, AdminEverywhere
      <3>2. CASE ~HasAccount(control)
        <4>1. Loaded = metadata.reg
          BY <3>2 DEF Loaded, HasAccount
        <4> QED
          BY <1>5, <4>1 DEF AInv, AdminEverywhere, HasAccount, Exists
      <3> QED
        BY <3>1, <3>2
    <2> QED
      BY <1>2, <1>3, <2>2, <2>3, SameAdmins
  <1> QED
    BY <1>4, <1>5

LEMMA AInvInit == Init => AInv
  <1> SUFFICES ASSUME Init PROVE AInv
    OBVIOUS
  <1>1. IInv /\ TogglesAreAdmins /\ ~up /\ holder # Startup
    BY IInvInit, RegistryAssumption DEF Init, TogglesAreAdmins
  <1>2. PICK reg \in {Empty, Seed} :
          metadata.reg = reg /\ control = [f \in ControlFact |-> reg[f]]
    BY DEF Init
  <1>3. HasAccount(reg) => HasAdmin(reg)
    <2>1. ~HasAccount(Empty)
      BY AdminFacts DEF HasAccount, Empty
    <2>2. HasAccount(Seed) => HasAdmin(Seed)
      BY RegistryAssumption DEF HasAccount, HasAdmin, Exists
    <2> QED
      BY <1>2, <2>1, <2>2
  <1>4. HasAccount(control) => HasAccount(reg)
    BY <1>2, AdminFacts DEF HasAccount
  <1>5. HasAdmin(reg) => HasAdmin(control)
    BY <1>2, SameAdmins, AdminFacts
  <1> QED
    BY <1>1, <1>2, <1>3, <1>4, <1>5 DEF AInv, AdminEverywhere

LEMMA AInvStep == AInv /\ [Next]_vars => AInv'
  <1> SUFFICES ASSUME AInv, [Next]_vars PROVE AdminEverywhere' /\ TogglesAreAdmins'
    BY IInvStep DEF AInv
  <1>1. CASE UNCHANGED vars
    BY <1>1
    DEF vars, AInv, AdminEverywhere, TogglesAreAdmins, HasAccount, HasAdmin, Enabled,
        Exists
  <1>2. CASE Crash \/ FailStart
    <2>1. /\ ~up' /\ holder' = Nobody /\ todo' = [r \in Request |-> << >>]
          /\ UNCHANGED <<metadata, control, crossed>>
      BY <1>2 DEF Crash, FailStart, Down, disk
    <2>2. Nobody # Startup /\ << >> # <<"apply">>
      BY RegistryAssumption
    <2>3. AdminEverywhere'
      BY <2>1, <2>2 DEF AInv, AdminEverywhere, HasAccount, HasAdmin, Enabled, Exists
    <2>4. TogglesAreAdmins'
      BY <2>1, <2>2 DEF TogglesAreAdmins
    <2> QED
      BY <2>3, <2>4
  <1> QED
    BY <1>1, <1>2, HandlerKeepsAdmin, ApplyKeepsAdmin, SaveKeepsAdmin, StartKeepsAdmin DEF Next

\* Some administrator can always log in, after any crash and whatever saves
\* failed, unless two of them have switched each other off.
THEOREM AnAdminRemains == Spec => []AdminRemains
  <1>1. AInv => AdminRemains
    BY DEF AInv, AdminEverywhere, HasAdmin, AdminRemains
  <1> QED
    BY <1>1, AInvInit, AInvStep, PTL DEF Spec

-----------------------------------------------------------------------------
(* The steps of a handler, and the types. *)

StepName == {"admit", "auth", "target", "enter", "touch", "again", "apply", "status"}

\* What a handler can have left to do.
Rest == {<< >>, <<"apply">>, <<"status">>, <<"admit", "apply">>, <<"auth", "apply">>,
         <<"auth", "status">>, <<"apply", "status">>, <<"auth", "apply", "status">>,
         <<"target", "apply">>, <<"admit", "target", "apply">>,
         <<"again", "apply">>, <<"touch", "again", "apply">>,
         <<"enter", "touch", "again", "apply">>,
         <<"auth", "enter", "touch", "again", "apply">>}

LEMMA Concatenated ==
  ASSUME NEW S, NEW s \in Seq(S), NEW t \in Seq(S), NEW u \in Seq(S),
         Len(u) = Len(s) + Len(t),
         \A i \in 1..Len(s) : u[i] = s[i],
         \A i \in 1..Len(t) : u[i + Len(s)] = t[i]
  PROVE  s \o t = u
  <1>1. /\ s \o t \in Seq(S) /\ Len(s \o t) = Len(u)
        /\ \A i \in 1..Len(u) : (s \o t)[i] = IF i <= Len(s) THEN s[i] ELSE t[i - Len(s)]
    BY ConcatProperties
  <1>2. ASSUME NEW i \in 1..Len(u) PROVE (s \o t)[i] = u[i]
    <2>1. CASE i <= Len(s)
      BY <1>1, <2>1
    <2>2. CASE ~(i <= Len(s))
      <3>1. i - Len(s) \in 1..Len(t) /\ (i - Len(s)) + Len(s) = i
        BY <2>2
      <3> QED
        BY <1>1, <2>2, <3>1
    <2> QED
      BY <2>1, <2>2
  <1> QED
    BY <1>1, <1>2, SeqEqual

LEMMA Joined ==
  ASSUME NEW S, NEW w \in S, NEW x \in S, NEW y \in S
  PROVE  <<w>> \o <<x, y>> = <<w, x, y>> /\ <<w, x>> \o <<y>> = <<w, x, y>>
  <1> DEFINE one == <<w>>
             two == <<x, y>>
             pair == <<w, x>>
             last == <<y>>
             three == <<w, x, y>>
  <1>1. /\ one \in Seq(S) /\ Len(one) = 1 /\ one[1] = w
        /\ two \in Seq(S) /\ Len(two) = 2 /\ two[1] = x /\ two[2] = y
        /\ pair \in Seq(S) /\ Len(pair) = 2 /\ pair[1] = w /\ pair[2] = x
        /\ last \in Seq(S) /\ Len(last) = 1 /\ last[1] = y
        /\ three \in Seq(S) /\ Len(three) = 3 /\ three[1] = w /\ three[2] = x /\ three[3] = y
    OBVIOUS
  <1> HIDE DEF one, two, pair, last, three
  <1>2. one \o two = three
    <2>1. /\ \A i \in 1..Len(one) : three[i] = one[i]
          /\ \A i \in 1..Len(two) : three[i + Len(one)] = two[i]
          /\ Len(three) = Len(one) + Len(two)
      BY <1>1
    <2> QED
      BY <1>1, <2>1, Concatenated
  <1>3. pair \o last = three
    <2>1. /\ \A i \in 1..Len(pair) : three[i] = pair[i]
          /\ \A i \in 1..Len(last) : three[i + Len(pair)] = last[i]
          /\ Len(three) = Len(pair) + Len(last)
      BY <1>1
    <2> QED
      BY <1>1, <2>1, Concatenated
  <1> QED
    BY <1>2, <1>3 DEF one, two, pair, last, three

LEMMA JoinedToFive ==
  ASSUME NEW S, NEW w \in S, NEW x \in S, NEW y \in S, NEW z \in S, NEW last \in S
  PROVE  /\ <<w>> \o <<x, y, z>> = <<w, x, y, z>>
         /\ <<w, x, y, z>> \o <<last>> = <<w, x, y, z, last>>
  <1> DEFINE first == <<w>>
             three == <<x, y, z>>
             four == <<w, x, y, z>>
             fifth == <<last>>
             five == <<w, x, y, z, last>>
  <1>1. /\ first \in Seq(S) /\ Len(first) = 1 /\ first[1] = w
        /\ three \in Seq(S) /\ Len(three) = 3 /\ three[1] = x /\ three[2] = y /\ three[3] = z
        /\ four \in Seq(S) /\ Len(four) = 4
        /\ four[1] = w /\ four[2] = x /\ four[3] = y /\ four[4] = z
    OBVIOUS
  <1>2. /\ fifth \in Seq(S) /\ Len(fifth) = 1 /\ fifth[1] = last
        /\ five \in Seq(S) /\ Len(five) = 5
        /\ five[1] = w /\ five[2] = x /\ five[3] = y /\ five[4] = z /\ five[5] = last
    OBVIOUS
  <1> HIDE DEF first, three, four, fifth, five
  <1>3. first \o three = four
    <2>1. /\ \A i \in 1..Len(first) : four[i] = first[i]
          /\ \A i \in 1..Len(three) : four[i + Len(first)] = three[i]
          /\ Len(four) = Len(first) + Len(three)
      BY <1>1
    <2> QED
      BY <1>1, <2>1, Concatenated
  <1>4. four \o fifth = five
    <2>1. /\ \A i \in 1..Len(four) : five[i] = four[i]
          /\ \A i \in 1..Len(fifth) : five[i + Len(four)] = fifth[i]
          /\ Len(five) = Len(four) + Len(fifth)
      BY <1>1, <1>2
    <2> QED
      BY <1>1, <1>2, <2>1, Concatenated
  <1> QED
    BY <1>3, <1>4 DEF first, three, four, fifth, five

\* The handlers' steps, written out.
LEMMA StepsAre ==
  /\ \A op \in OpenOp : Steps(op) = <<"apply">>
  /\ \A op \in {"create", "toggle", "space", "root", "settings", "password"} :
       Steps(op) = <<"admit", "apply">>
  /\ \A op \in {"reset", "newspace"} : Steps(op) = <<"admit", "target", "apply">>
  /\ \A op \in {"folder", "children", "record"} : Steps(op) = <<"auth", "apply">>
  /\ Steps("commit") = <<"auth", "enter", "touch", "again", "apply">>
  /\ Steps("status") = <<"auth", "status">>
  /\ Steps("sync") = <<"auth", "apply", "status">>
  <1> DEFINE admit == "admit"
             auth == "auth"
             target == "target"
             enter == "enter"
             touch == "touch"
             again == "again"
             apply == "apply"
             status == "status"
  <1>1. {admit, auth, target, enter, touch, again, apply, status} \subseteq StepName
    BY DEF StepName
  <1>2. \A op \in OpenOp : Steps(op) = ((<< >> \o << >>) \o <<apply>>) \o << >>
    BY DEF Steps, OpenOp, PageOp, AdminOp, OwnerOp, SpaceOp, ClientOp, SyncOp
  <1>3. \A op \in {"create", "toggle", "space", "root", "settings", "password"} :
          Steps(op) = ((<<admit>> \o << >>) \o <<apply>>) \o << >>
    BY DEF Steps, PageOp, AdminOp, OwnerOp, SpaceOp, ClientOp, SyncOp
  <1>4. \A op \in {"reset", "newspace"} :
          Steps(op) = ((<<admit>> \o <<target>>) \o <<apply>>) \o << >>
    BY DEF Steps, PageOp, AdminOp, OwnerOp, SpaceOp, ClientOp, SyncOp
  <1>5. \A op \in {"folder", "children", "record"} :
          Steps(op) = ((<<auth>> \o << >>) \o <<apply>>) \o << >>
    BY DEF Steps, PageOp, AdminOp, OwnerOp, SpaceOp, ClientOp, SyncOp
  <1>6. Steps("commit") = ((<<auth>> \o <<enter, touch, again>>) \o <<apply>>) \o << >>
    BY DEF Steps, PageOp, AdminOp, OwnerOp, SpaceOp, ClientOp, SyncOp
  <1>7. Steps("status") = ((<<auth>> \o << >>) \o << >>) \o <<status>>
    BY DEF Steps, PageOp, AdminOp, OwnerOp, SpaceOp, ClientOp, SyncOp
  <1>8. Steps("sync") = ((<<auth>> \o << >>) \o <<apply>>) \o <<status>>
    BY DEF Steps, PageOp, AdminOp, OwnerOp, SpaceOp, ClientOp, SyncOp
  <1> HIDE DEF admit, auth, target, enter, touch, again, apply, status
  <1>9. \A s \in Seq(StepName) : s \o << >> = s /\ << >> \o s = s
    BY ConcatEmptySeq
  <1>10. /\ << >> \in Seq(StepName) /\ <<apply>> \in Seq(StepName) /\ <<auth>> \in Seq(StepName)
         /\ <<admit>> \in Seq(StepName)
    BY <1>1
  <1>11. ASSUME NEW x \in StepName, NEW y \in StepName
         PROVE  <<x, y>> \in Seq(StepName) /\ <<x>> \o <<y>> = <<x, y>>
    BY Pair
  <1>12. ASSUME NEW x \in StepName, NEW y \in StepName, NEW z \in StepName
         PROVE  <<x, y, z>> \in Seq(StepName) /\ <<x, y>> \o <<z>> = <<x, y, z>>
    <2>1. <<x, y>> \o <<z>> = <<x, y, z>>
      BY Joined, Zenon
    <2> QED
      BY <2>1
  <1>13. /\ <<auth, enter, touch, again, apply>> \in Seq(StepName)
         /\ <<auth>> \o <<enter, touch, again>> = <<auth, enter, touch, again>>
         /\ <<auth, enter, touch, again>> \o <<apply>> = <<auth, enter, touch, again, apply>>
    <2>1. /\ auth \in StepName /\ enter \in StepName /\ touch \in StepName
          /\ again \in StepName /\ apply \in StepName
      BY <1>1
    <2>2. <<auth, enter, touch, again, apply>> \in Seq(StepName)
      BY <2>1
    <2> QED
      BY <2>1, <2>2, JoinedToFive
  <1>14. /\ \A op \in OpenOp : Steps(op) = <<apply>>
         /\ \A op \in {"create", "toggle", "space", "root", "settings", "password"} :
              Steps(op) = <<admit, apply>>
         /\ \A op \in {"reset", "newspace"} : Steps(op) = <<admit, target, apply>>
         /\ \A op \in {"folder", "children", "record"} : Steps(op) = <<auth, apply>>
         /\ Steps("status") = <<auth, status>>
         /\ Steps("sync") = <<auth, apply, status>>
    <2>1. /\ <<admit>> \o <<apply>> = <<admit, apply>> /\ <<admit, apply>> \in Seq(StepName)
          /\ <<admit>> \o <<target>> = <<admit, target>>
          /\ <<admit, target>> \o <<apply>> = <<admit, target, apply>>
          /\ <<admit, target, apply>> \in Seq(StepName)
          /\ <<auth>> \o <<apply>> = <<auth, apply>> /\ <<auth, apply>> \in Seq(StepName)
          /\ <<auth>> \o <<status>> = <<auth, status>>
          /\ <<auth, apply>> \o <<status>> = <<auth, apply, status>>
      BY <1>1, <1>11, <1>12
    <2> QED
      BY <1>2, <1>3, <1>4, <1>5, <1>7, <1>8, <1>9, <1>10, <2>1
  <1>15. Steps("commit") = <<auth, enter, touch, again, apply>>
    BY <1>1, <1>6, <1>9, <1>13
  <1> QED
    BY <1>14, <1>15 DEF admit, auth, target, enter, touch, again, apply, status

LEMMA StepsAreRests ==
  /\ Rest \subseteq Seq(StepName)
  /\ \A r \in Request : Steps(Ask[r].op) \in Rest
  <1>1. Rest \subseteq Seq(StepName)
    BY DEF Rest, StepName
  <1>2. ASSUME NEW op \in PageOp \cup ClientOp \cup OpenOp PROVE Steps(op) \in Rest
    BY StepsAre DEF Rest, PageOp, AdminOp, OwnerOp, SpaceOp, ClientOp, SyncOp, OpenOp
  <1> QED
    BY <1>1, <1>2, RegistryAssumption

\* What is left after a step.
LEMMA RestsShrink ==
  ASSUME NEW s \in Rest, s # << >>
  PROVE  Tail(s) \in Rest
  <1>1. /\ Tail(<<"apply">>) = << >> /\ Tail(<<"status">>) = << >>
        /\ Tail(<<"admit", "apply">>) = <<"apply">> /\ Tail(<<"auth", "apply">>) = <<"apply">>
        /\ Tail(<<"auth", "status">>) = <<"status">> /\ Tail(<<"apply", "status">>) = <<"status">>
        /\ Tail(<<"auth", "apply", "status">>) = <<"apply", "status">>
        /\ Tail(<<"target", "apply">>) = <<"apply">>
    OBVIOUS
  <1>2. /\ Tail(<<"admit", "target", "apply">>) = <<"target", "apply">>
        /\ Tail(<<"again", "apply">>) = <<"apply">>
        /\ Tail(<<"touch", "again", "apply">>) = <<"again", "apply">>
        /\ Tail(<<"enter", "touch", "again", "apply">>) = <<"touch", "again", "apply">>
        /\ Tail(<<"auth", "enter", "touch", "again", "apply">>) = <<"enter", "touch", "again", "apply">>
    OBVIOUS
  <1>3. /\ s = <<"apply">> => Tail(s) \in Rest
        /\ s = <<"status">> => Tail(s) \in Rest
        /\ s = <<"admit", "apply">> => Tail(s) \in Rest
        /\ s = <<"auth", "apply">> => Tail(s) \in Rest
        /\ s = <<"auth", "status">> => Tail(s) \in Rest
        /\ s = <<"apply", "status">> => Tail(s) \in Rest
        /\ s = <<"auth", "apply", "status">> => Tail(s) \in Rest
        /\ s = <<"target", "apply">> => Tail(s) \in Rest
        /\ s = <<"admit", "target", "apply">> => Tail(s) \in Rest
        /\ s = <<"again", "apply">> => Tail(s) \in Rest
        /\ s = <<"touch", "again", "apply">> => Tail(s) \in Rest
        /\ s = <<"enter", "touch", "again", "apply">> => Tail(s) \in Rest
        /\ s = <<"auth", "enter", "touch", "again", "apply">> => Tail(s) \in Rest
    BY <1>1, <1>2 DEF Rest
  <1> QED
    BY <1>3 DEF Rest

\* The values a registry may be given.
Typed(new) == \A f \in DOMAIN new : f \in Fact => new[f] \in Values(f)

LEMMA OverTyped ==
  ASSUME NEW reg, IsRegistry(reg), NEW new, Typed(new)
  PROVE  IsRegistry(Over(reg, new))
  BY DEF IsRegistry, Over, Typed

LEMMA EmptyTyped == IsRegistry(Empty)
  <1>1. ASSUME NEW f \in Fact PROVE Empty[f] \in Values(f)
    BY RegistryAssumption
    DEF Empty, Values, Fact, ControlFact, TreeFact, OfAccount
  <1> QED
    BY <1>1 DEF IsRegistry, Empty

LEMMA NewAccountTyped ==
  ASSUME NEW a \in Account, NEW name \in Name, NEW admin \in BOOLEAN,
         NEW password \in Password, NEW token \in Request \cup {NoToken}
  PROVE  Typed(NewAccount(a, name, admin, password, token))
  <1> DEFINE new == NewAccount(a, name, admin, password, token)
  <1>1. DOMAIN new = (OfAccount \X {a}) \cup {<<"space", a, Default>>}
    BY DEF NewAccount
  <1>2. /\ new[<<"name", a>>] = name /\ new[<<"admin", a>>] = admin
        /\ new[<<"disabled", a>>] = FALSE /\ new[<<"sync", a>>] = FALSE
        /\ new[<<"password", a>>] = password /\ new[<<"token", a>>] = token
        /\ new[<<"settings", a>>] = DefaultSettings
        /\ new[<<"space", a, Default>>] = "on"
    BY DEF NewAccount, OfAccount
  <1> HIDE DEF new
  <1>3. /\ Values(<<"name", a>>) = Name \cup {NoName} /\ Values(<<"admin", a>>) = BOOLEAN
        /\ Values(<<"disabled", a>>) = BOOLEAN /\ Values(<<"sync", a>>) = BOOLEAN
        /\ Values(<<"password", a>>) = Password
        /\ Values(<<"token", a>>) = Request \cup {Startup, NoToken}
        /\ Values(<<"settings", a>>) = Settings
        /\ Values(<<"space", a, Default>>) = {"none", "on", "off"}
    BY DEF Values
  <1>4. \A f \in DOMAIN new : new[f] \in Values(f)
    <2>1. \A f \in DOMAIN new :
            f \in {<<"name", a>>, <<"admin", a>>, <<"disabled", a>>, <<"sync", a>>,
                  <<"password", a>>, <<"token", a>>, <<"settings", a>>, <<"space", a, Default>>}
      BY <1>1 DEF OfAccount
    <2> QED
      BY <1>2, <1>3, <2>1, RegistryAssumption
  <1> QED
    BY <1>4 DEF Typed, new

LEMMA SeenTyped ==
  ASSUME IsRegistry(mem), NEW a \in Account, NEW d \in Device, NEW root \in Root \cup {NoRoot}
  PROVE  Typed(SeenDevice(a, d, root))
  <1>1. <<"device", a, d>> \in Fact
    BY DEF Fact, ControlFact
  <1>2. mem[<<"device", a, d>>] \in Values(<<"device", a, d>>)
    BY <1>1 DEF IsRegistry
  <1> QED
    BY <1>2 DEF Typed, SeenDevice, Values

LEMMA LoadedTyped ==
  ASSUME IsRegistry(metadata.reg), DOMAIN control = ControlFact,
         \A f \in ControlFact : control[f] \in Values(f)
  PROVE  IsRegistry(Loaded)
  BY OverTyped DEF Loaded, Typed

\* A set of natural numbers has a least member.
LEMMA LeastOf ==
  ASSUME NEW T \in SUBSET Nat, T # {}
  PROVE  \E x \in T : \A y \in T : x <= y
  <1> DEFINE R == OpToRel(<, Nat)
  <1>0. IsWellFoundedOn(R, Nat)
    BY NatLessThanWellFounded
  <1>1. \A x, y \in Nat : x < y => <<x, y>> \in R
    BY DEF OpToRel
  <1> HIDE DEF R
  <1>2. \E x \in T : \A y \in T : <<y, x>> \notin R
    BY <1>0, WFMin
  <1>3. PICK x \in T : \A y \in T : <<y, x>> \notin R
    BY <1>2
  <1>4. ASSUME NEW y \in T PROVE x <= y
    <2>1. x \in Nat /\ y \in Nat /\ ~(y < x)
      BY <1>1, <1>3
    <2> QED
      BY <2>1
  <1> QED
    BY <1>4

\* Of the places kept there is an n-th one, for every n up to their number.
LEMMA PlaceExists ==
  ASSUME NEW len \in Nat, NEW kept \in SUBSET (1..len), NEW n \in 1..Cardinality(kept)
  PROVE  \E i \in kept : Cardinality({j \in kept : j <= i}) = n
  <1> DEFINE upTo(i) == {j \in kept : j <= i}
             T == {i \in 0..len : Cardinality(upTo(i)) >= n}
  <1>1. IsFiniteSet(1..len)
    BY FS_Interval
  <1>2. /\ IsFiniteSet(kept) /\ \A i \in 0..len : IsFiniteSet(upTo(i))
    BY <1>1, FS_Subset
  <1>3. /\ Cardinality(kept) \in Nat /\ n \in Nat \ {0}
        /\ \A i \in 0..len : Cardinality(upTo(i)) \in Nat
    BY <1>2, FS_CardinalityType
  <1>0. \A j \in kept : j \in Nat /\ 1 <= j /\ j <= len
    OBVIOUS
  <1>4. upTo(len) = kept /\ upTo(0) = {}
    <2>1. \A j \in kept : j <= len /\ ~(j <= 0)
      BY <1>0
    <2>2. upTo(len) = kept
      BY <2>1
    <2>3. upTo(0) = {}
      BY <2>1
    <2> QED
      BY <2>2, <2>3
  <1>5. Cardinality(upTo(0)) = 0
    BY <1>4, FS_EmptySet
  <1>6. len \in T /\ T \in SUBSET Nat /\ 0 \notin T
    BY <1>3, <1>4, <1>5
  <1>7. PICK i \in T : \A y \in T : i <= y
    BY <1>6, LeastOf
  <1>8. i \in 1..len /\ i - 1 \in 0..len /\ i - 1 \notin T
    <2>1. i \in 0..len /\ i # 0
      BY <1>6
    <2>2. i - 1 \in T => i <= i - 1
      BY <1>7
    <2> HIDE DEF T
    <2> QED
      BY <2>1, <2>2
  <1>9. Cardinality(upTo(i)) >= n /\ Cardinality(upTo(i - 1)) < n
    <2>1. Cardinality(upTo(i)) >= n
      BY <1>7
    <2>2. ~(Cardinality(upTo(i - 1)) >= n)
      BY <1>8
    <2>3. Cardinality(upTo(i - 1)) \in Nat
      BY <1>3, <1>8
    <2> HIDE DEF upTo
    <2> QED
      BY <1>3, <2>1, <2>2, <2>3
  <1>10. CASE i \notin kept
    <2>1. upTo(i) = upTo(i - 1)
      <3>1. ASSUME NEW j \in kept PROVE j <= i <=> j <= i - 1
        BY <1>0, <1>8, <1>10
      <3> QED
        BY <3>1
    <2> QED
      BY <1>3, <1>8, <1>9, <2>1
  <1>11. CASE i \in kept
    <2>1. upTo(i) = upTo(i - 1) \cup {i} /\ i \notin upTo(i - 1)
      <3>1. ASSUME NEW j \in kept PROVE j <= i <=> j <= i - 1 \/ j = i
        BY <1>0, <1>8
      <3>2. i <= i /\ ~(i <= i - 1)
        BY <1>8
      <3> QED
        BY <1>11, <3>1, <3>2
    <2>2. IsFiniteSet(upTo(i - 1))
      BY <1>2, <1>8
    <2> HIDE DEF upTo
    <2>3. Cardinality(upTo(i)) = Cardinality(upTo(i - 1)) + 1
      BY <2>1, <2>2, FS_AddElement
    <2>4. Cardinality(upTo(i)) = n
      BY <1>3, <1>8, <1>9, <2>3
    <2> QED
      BY <1>11, <2>4 DEF upTo
  <1> QED
    BY <1>10, <1>11

\* trimSyncRecordsLocked makes a list of records out of one.
LEMMA TrimTyped ==
  ASSUME NEW S, NEW log \in Seq(S), NEW a
  PROVE  TrimSyncRecords(log, a) \in Seq(S)
  <1> DEFINE kept == {i \in 1..Len(log) : log[i][1] # a \/ Newer(log, a, i) <= MaxRecords}
             Place(i) == Cardinality({j \in kept : j <= i})
             new == [n \in 1..Cardinality(kept) |-> log[CHOOSE i \in kept : Place(i) = n]]
  <1>1. TrimSyncRecords(log, a) = new
    BY DEF TrimSyncRecords, Taken
  <1>2. Len(log) \in Nat /\ kept \in SUBSET (1..Len(log))
    OBVIOUS
  <1> HIDE DEF kept
  <1>3. IsFiniteSet(kept) /\ Cardinality(kept) \in Nat
    <2>1. IsFiniteSet(1..Len(log))
      BY <1>2, FS_Interval
    <2> QED
      BY <1>2, <2>1, FS_Subset, FS_CardinalityType
  <1>4. ASSUME NEW n \in 1..Cardinality(kept)
        PROVE  log[CHOOSE i \in kept : Place(i) = n] \in S
    <2>1. \E i \in kept : Place(i) = n
      BY <1>2, PlaceExists
    <2>2. (CHOOSE i \in kept : Place(i) = n) \in kept
      BY <2>1
    <2>3. \A i \in kept : log[i] \in S
      BY <1>2
    <2> QED
      BY <2>2, <2>3
  <1>5. new \in [1..Cardinality(kept) -> S]
    BY <1>4
  <1> HIDE DEF new
  <1>6. new \in Seq(S)
    BY <1>3, <1>5
  <1> QED
    BY <1>1, <1>6

\* Inductive: the types, and what handlers have left is the end of their steps.
TInv == TypeOK /\ todo \in [Request -> Rest]

\* What TypeOK says of the parts a step leaves alone together.
LEMMA RestsTyped ==
  ASSUME NEW t \in [Request -> Rest]
  PROVE  t \in [Request -> Seq({"admit", "auth", "target", "enter", "touch", "again", "apply", "status"})]
  BY StepsAreRests DEF StepName

\* The three kinds of step of a handler that goes on.
LEMMA ChangeTyped ==
  ASSUME TInv, NEW r \in Request, NEW new, Typed(new), todo[r] # << >>, Change(r, new),
         records' \in Seq(Account \X Request), crossed' \in BOOLEAN
  PROVE  TInv'
  <1>1. /\ up' = up /\ mem' = Over(mem, new) /\ holder' = r /\ phase' = "metadata" /\ strict'
        /\ UNCHANGED <<metadata, control, sessions, answer, failures, crashes>>
        /\ todo' = [todo EXCEPT ![r] = Tail(todo[r])]
        /\ acked' = [f \in Fact |-> IF f \in Sets(r) THEN Unknown ELSE acked[f]]
        /\ barredBy' = [q \in Request |-> barredBy[q] \ Sets(r)]
        /\ strict' = TRUE
    BY DEF Change, Save, disk, bounds
  <1>2. IsRegistry(mem')
    BY <1>1, OverTyped DEF TInv, TypeOK
  <1>3. todo' \in [Request -> Rest]
    BY <1>1, RestsShrink DEF TInv
  <1>4. DOMAIN acked' = Fact /\ \A f \in Fact : acked'[f] \in Values(f) \cup {Unknown}
    BY <1>1 DEF TInv, TypeOK
  <1>5. barredBy' \in [Request -> SUBSET Fact]
    BY <1>1 DEF TInv, TypeOK
  <1>6. r # Startup
    BY RegistryAssumption
  <1> QED
    BY <1>1, <1>2, <1>3, <1>4, <1>5, <1>6, RestsTyped DEF TInv, TypeOK, IsRegistry

LEMMA FlushTyped ==
  ASSUME TInv, NEW r \in Request, NEW new, Typed(new), todo[r] # << >>, Flush(r, new)
  PROVE  TInv'
  <1>1. /\ up' = up /\ mem' = Over(mem, new) /\ holder' = r /\ phase' = "metadata"
        /\ strict' = FALSE
        /\ UNCHANGED <<records, metadata, control, sessions, answer, acked, barredBy, crossed,
                       failures, crashes>>
        /\ todo' = [todo EXCEPT ![r] = Tail(todo[r])]
    BY DEF Flush, Save, disk, bounds
  <1>2. IsRegistry(mem')
    BY <1>1, OverTyped DEF TInv, TypeOK
  <1>3. todo' \in [Request -> Rest]
    BY <1>1, RestsShrink DEF TInv
  <1>4. r # Startup
    BY RegistryAssumption
  <1> QED
    BY <1>1, <1>2, <1>3, <1>4, RestsTyped DEF TInv, TypeOK, IsRegistry

\* A step that touches the handlers' places only.
LEMMA LooksTyped ==
  ASSUME TInv, Looks, todo' \in [Request -> Rest],
         answer' \in [Request -> {"new", "open", "ok", "refused", "lost"}]
  PROVE  TInv'
  <1>1. UNCHANGED <<up, mem, records, metadata, control, holder, phase, strict, sessions, acked,
                    barredBy, crossed, failures, crashes>>
    BY DEF Looks, disk, saving, bounds
  <1> QED
    BY <1>1, RestsTyped DEF TInv, TypeOK, IsRegistry

LEMMA RefuseTyped ==
  ASSUME TInv, NEW r \in Request, Refuse(r)
  PROVE  TInv'
  <1>1. << >> \in Rest
    BY DEF Rest
  <1>2. /\ todo' \in [Request -> Rest] /\ Looks
        /\ answer' \in [Request -> {"new", "open", "ok", "refused", "lost"}]
    BY <1>1 DEF Refuse, TInv, TypeOK
  <1> QED
    BY <1>2, LooksTyped

LEMMA AdvanceTyped ==
  ASSUME TInv, NEW r \in Request, todo[r] # << >>, Advance(r), Looks
  PROVE  TInv'
  <1>1. Tail(todo[r]) \in Rest
    BY RestsShrink DEF TInv
  <1>2. /\ todo' \in [Request -> Rest]
        /\ answer' \in [Request -> {"new", "open", "ok", "refused", "lost"}]
    BY <1>1 DEF Advance, TInv, TypeOK
  <1> QED
    BY <1>2, LooksTyped

LEMMA AppliesTyped ==
  ASSUME TInv, NEW r \in Request, NEW op, NEW allowed, NEW new,
         Applies(r, op, allowed, new),
         Ask[r].op = op => Typed(new)
  PROVE  TInv'
  <1>1. /\ todo[r] # << >> /\ Ask[r].op = op
        /\ (Change(r, new) /\ UNCHANGED <<records, crossed>>) \/ Refuse(r)
    BY DEF Applies, At
  <1> QED
    BY <1>1, ChangeTyped, RefuseTyped DEF TInv, TypeOK

\* The values of a fact, by its kind.
LEMMA ValuesAre ==
  /\ \A x : Values(<<"token", x>>) = Request \cup {Startup, NoToken}
  /\ \A x : Values(<<"client", x>>) = Account \cup {NoAccount}
  /\ \A x : Values(<<"password", x>>) = Password
  /\ \A x : Values(<<"settings", x>>) = Settings
  /\ \A x : Values(<<"disabled", x>>) = BOOLEAN
  /\ \A x : Values(<<"sync", x>>) = BOOLEAN
  /\ \A x, y : Values(<<"device", x, y>>) = Root \cup {NoRoot, NoDevice}
  /\ \A x, y : Values(<<"space", x, y>>) = {"none", "on", "off"}
  /\ \A x, y : Values(<<"folder", x, y>>) = {"none", "pending", "reported"}
  /\ \A x, y : Values(<<"files", x, y>>) = BOOLEAN
  <1>1. \A x : Values(<<"token", x>>) = Request \cup {Startup, NoToken}
    BY DEF Values
  <1>2. \A x : Values(<<"client", x>>) = Account \cup {NoAccount}
    BY DEF Values
  <1>3. \A x : Values(<<"password", x>>) = Password
    BY DEF Values
  <1>4. \A x : Values(<<"settings", x>>) = Settings
    BY DEF Values
  <1>5. \A x : Values(<<"disabled", x>>) = BOOLEAN
    BY DEF Values
  <1>6. \A x : Values(<<"sync", x>>) = BOOLEAN
    BY DEF Values
  <1>7. \A x, y : Values(<<"device", x, y>>) = Root \cup {NoRoot, NoDevice}
    BY DEF Values
  <1>8. \A x, y : Values(<<"space", x, y>>) = {"none", "on", "off"}
    BY DEF Values
  <1>9. \A x, y : Values(<<"folder", x, y>>) = {"none", "pending", "reported"}
    BY DEF Values
  <1>10. \A x, y : Values(<<"files", x, y>>) = BOOLEAN
    BY DEF Values
  <1> QED
    BY <1>1, <1>2, <1>3, <1>4, <1>5, <1>6, <1>7, <1>8, <1>9, <1>10

\* The facts a request sets, by what it asks.
LEMMA SetsAre ==
  ASSUME NEW r \in Request
  PROVE  /\ Ask[r].op = "toggle" => Sets(r) = {<<"disabled", Ask[r].account>>}
         /\ Ask[r].op = "reset" => Sets(r) = {<<"token", Ask[r].account>>}
         /\ Ask[r].op = "password" => Sets(r) = {<<"password", Ask[r].account>>}
         /\ Ask[r].op = "settings" => Sets(r) = {<<"settings", Ask[r].account>>}
         /\ Ask[r].op = "sync" => Sets(r) = {<<"sync", Ask[r].account>>}
         /\ Ask[r].op \in {"space", "newspace"} =>
              Sets(r) = {<<"space", Ask[r].account, Ask[r].space>>}
         /\ Ask[r].op = "root" => Sets(r) = {<<"device", Ask[r].account, Ask[r].device>>}
         /\ Ask[r].op = "signin" => Sets(r) = {<<"client", r>>}
         /\ Ask[r].op \in {"folder", "children"} =>
              Sets(r) = {<<"folder", Ask[r].account, Ask[r].device>>}
         /\ Ask[r].op = "commit" => Sets(r) = {<<"files", Ask[r].account, Ask[r].space>>}
         /\ Ask[r].op \in {"record", "status"} => Sets(r) = {}
         /\ Ask[r].op \in {"create", "register"} =>
              Sets(r) = (OfAccount \X {Ask[r].account}) \cup {<<"space", Ask[r].account, Default>>}
  <1>1. Ask[r].op = "toggle" => Sets(r) = {<<"disabled", Ask[r].account>>}
    BY DEF Sets
  <1>2. Ask[r].op = "reset" => Sets(r) = {<<"token", Ask[r].account>>}
    BY DEF Sets
  <1>3. Ask[r].op = "password" => Sets(r) = {<<"password", Ask[r].account>>}
    BY DEF Sets
  <1>4. Ask[r].op = "settings" => Sets(r) = {<<"settings", Ask[r].account>>}
    BY DEF Sets
  <1>5. Ask[r].op = "sync" => Sets(r) = {<<"sync", Ask[r].account>>}
    BY DEF Sets
  <1>6. Ask[r].op \in {"space", "newspace"} => Sets(r) = {<<"space", Ask[r].account, Ask[r].space>>}
    BY DEF Sets
  <1>7. Ask[r].op = "root" => Sets(r) = {<<"device", Ask[r].account, Ask[r].device>>}
    BY DEF Sets
  <1>8. Ask[r].op = "signin" => Sets(r) = {<<"client", r>>}
    BY DEF Sets
  <1>9. Ask[r].op \in {"folder", "children"} => Sets(r) = {<<"folder", Ask[r].account, Ask[r].device>>}
    BY DEF Sets
  <1>10. Ask[r].op = "commit" => Sets(r) = {<<"files", Ask[r].account, Ask[r].space>>}
    BY DEF Sets
  <1>11. Ask[r].op \in {"record", "status"} => Sets(r) = {}
    BY DEF Sets
  <1>12. Ask[r].op \in {"create", "register"} => Sets(r) = (OfAccount \X {Ask[r].account}) \cup {<<"space", Ask[r].account, Default>>}
    BY DEF Sets
  <1> QED
    BY <1>1, <1>2, <1>3, <1>4, <1>5, <1>6, <1>7, <1>8, <1>9, <1>10, <1>11, <1>12

\* A request that gives its fact a value of its kind.
LEMMA OneTyped ==
  ASSUME TInv, NEW r \in Request, NEW op, NEW allowed, NEW value,
         Applies(r, op, allowed, [f \in Sets(r) |-> value]),
         Ask[r].op = op => \A f \in Sets(r) : value \in Values(f)
  PROVE  TInv'
  <1>1. Ask[r].op = op => Typed([f \in Sets(r) |-> value])
    BY DEF Typed
  <1> QED
    BY <1>1, AppliesTyped

LEMMA ApplyTyped ==
  ASSUME TInv, NEW r \in Request, Apply(r)
  PROVE  TInv'
  <1> DEFINE a == Ask[r].account
  <1>0. /\ a \in Account /\ Ask[r].on \in BOOLEAN /\ Ask[r].old \in Password
        /\ Ask[r].device \in Device
        /\ Ask[r].op \in {"create", "register"} => Ask[r].value \in Name
        /\ Ask[r].op \in {"signin", "folder"} => Ask[r].value \in Root \cup {NoRoot}
        /\ IsRegistry(mem)
    BY RegistryAssumption DEF TInv, TypeOK
  <1>1. CASE CreateAccount(r)
    <2>1. PICK op \in {"create", "register"} :
            Applies(r, op, \A b \in Account : mem[<<"name", b>>] # Ask[r].value,
              NewAccount(a, Ask[r].value, op = "create" /\ Ask[r].on, Ask[r].old, r))
      BY <1>1 DEF CreateAccount
    <2>2. (op = "create" /\ Ask[r].on) \in BOOLEAN
      OBVIOUS
    <2>3. Ask[r].op = op =>
            Typed(NewAccount(a, Ask[r].value, op = "create" /\ Ask[r].on, Ask[r].old, r))
      BY <1>0, <2>2, NewAccountTyped
    <2> QED
      BY <2>1, <2>3, AppliesTyped
  <1>2. CASE ToggleAccount(r)
    <2> DEFINE new == [f \in {<<"disabled", a>>} |-> Ask[r].on]
    <2>1. Values(<<"disabled", a>>) = BOOLEAN
      BY DEF Values
    <2>2. Typed(new)
      BY <1>0, <2>1 DEF Typed
    <2>3. /\ todo[r] # << >>
          /\ \/ Refuse(r)
             \/ /\ Change(r, new) /\ UNCHANGED records
                /\ crossed' = (crossed \/ (Ask[r].on /\ mem[<<"disabled", Ask[r].by>>]))
      BY <1>2 DEF ToggleAccount, At
    <2>4. crossed' = (crossed \/ (Ask[r].on /\ mem[<<"disabled", Ask[r].by>>]))
            => crossed' \in BOOLEAN
      OBVIOUS
    <2>5. records \in Seq(Account \X Request)
      BY DEF TInv, TypeOK
    <2> HIDE DEF new
    <2> QED
      BY <2>2, <2>3, <2>4, <2>5, ChangeTyped, RefuseTyped
  <1>3. CASE ResetSyncToken(r)
    <2>1. Ask[r].op = "reset" => \A f \in Sets(r) : r \in Values(f)
      BY SetsAre, ValuesAre
    <2> QED
      BY <1>3, <2>1, OneTyped DEF ResetSyncToken
  <1>4. CASE ChangePassword(r)
    <2>1. Ask[r].op = "password" => \A f \in Sets(r) : Ask[r].value \in Values(f)
      BY SetsAre, ValuesAre, RegistryAssumption
    <2> QED
      BY <1>4, <2>1, OneTyped DEF ChangePassword
  <1>5. CASE SetSyncSettings(r)
    <2>1. Ask[r].op = "settings" => \A f \in Sets(r) : Ask[r].value \in Values(f)
      BY SetsAre, ValuesAre, RegistryAssumption
    <2> QED
      BY <1>5, <2>1, OneTyped DEF SetSyncSettings
  <1>6. CASE SetAccountSyncEnabled(r)
    <2>1. Ask[r].op = "sync" => \A f \in Sets(r) : Ask[r].on \in Values(f)
      BY <1>0, SetsAre, ValuesAre
    <2> QED
      BY <1>6, <2>1, OneTyped DEF SetAccountSyncEnabled
  <1>7. CASE CreateSpace(r)
    <2>1. Ask[r].op = "newspace" => \A f \in Sets(r) : "on" \in Values(f)
      BY SetsAre, ValuesAre
    <2> QED
      BY <1>7, <2>1, OneTyped DEF CreateSpace
  <1>8. CASE SetSpaceActive(r)
    <2>1. Ask[r].op = "space" => \A f \in Sets(r) : (IF Ask[r].on THEN "on" ELSE "off") \in Values(f)
      BY SetsAre, ValuesAre
    <2> QED
      BY <1>8, <2>1, OneTyped DEF SetSpaceActive
  <1>9. CASE SetClientStorageRoot(r)
    <2>1. Ask[r].op = "root" => \A f \in Sets(r) : Ask[r].value \in Values(f)
      BY SetsAre, ValuesAre, RegistryAssumption
    <2> QED
      BY <1>9, <2>1, OneTyped DEF SetClientStorageRoot
  <1>10. CASE IssueClientToken(r)
    <2> DEFINE device == SeenDevice(a, Ask[r].device, Ask[r].value)
               new == [f \in Sets(r) \cup DOMAIN device |->
                         IF f \in Sets(r) THEN a ELSE device[f]]
    <2>1. Ask[r].op = "signin" => Typed(new)
      BY <1>0, SetsAre, ValuesAre, SeenTyped DEF Typed
    <2> QED
      BY <1>10, <2>1, AppliesTyped DEF IssueClientToken
  <1>11. CASE ReportFolder(r)
    <2> DEFINE device == SeenDevice(a, Ask[r].device, Ask[r].value)
               state(f) == IF mem[f] = "none" THEN "pending" ELSE mem[f]
               new == [f \in Sets(r) \cup DOMAIN device |->
                         IF f \notin Sets(r) THEN device[f] ELSE state(f)]
    <2>1. Ask[r].op = "folder" => \A f \in Sets(r) \cap Fact : state(f) \in Values(f)
      BY <1>0, SetsAre, ValuesAre DEF IsRegistry
    <2>2. Ask[r].op = "folder" => Typed(new)
      BY <1>0, <2>1, SeenTyped DEF Typed
    <2> QED
      BY <1>11, <2>2, AppliesTyped DEF ReportFolder
  <1>12. CASE MarkChildrenReported(r)
    <2>1. Ask[r].op = "children" => \A f \in Sets(r) : "reported" \in Values(f)
      BY SetsAre, ValuesAre
    <2> QED
      BY <1>12, <2>1, OneTyped DEF MarkChildrenReported
  <1>13. CASE CommitFile(r)
    <2>0. Ask[r].op = "commit" => \A f \in Sets(r) : Values(f) = BOOLEAN
      BY SetsAre, ValuesAre
    <2>1. Ask[r].op = "commit" => Typed([f \in Sets(r) |-> TRUE])
      BY <2>0 DEF Typed
    <2>2. Applies(r, "commit", TRUE, [f \in Sets(r) |-> TRUE])
      BY <1>13 DEF CommitFile
    <2> QED
      BY <2>1, <2>2, AppliesTyped, Zenon
  <1>14. CASE AddSyncRecord(r)
    <2>1. /\ todo[r] # << >> /\ Change(r, << >>) /\ UNCHANGED crossed
          /\ records' = TrimSyncRecords(Append(records, <<a, r>>), a)
      BY <1>14 DEF AddSyncRecord, At
    <2>2. Append(records, <<a, r>>) \in Seq(Account \X Request)
      BY <1>0 DEF TInv, TypeOK
    <2>3. records' \in Seq(Account \X Request)
      BY <2>1, <2>2, TrimTyped
    <2>4. Typed(<< >>)
      BY DEF Typed
    <2> QED
      BY <2>1, <2>3, <2>4, ChangeTyped DEF TInv, TypeOK
  <1> QED
    BY <1>1, <1>2, <1>3, <1>4, <1>5, <1>6, <1>7, <1>8, <1>9, <1>10, <1>11, <1>12, <1>13, <1>14
    DEF Apply

LEMMA HandlerTyped ==
  ASSUME TInv, NEW r \in Request,
         \/ Receive(r) \/ Login(r) \/ Logout(r) \/ Admit(r) \/ FindTarget(r) \/ Authenticate(r)
         \/ Enter(r) \/ Touch(r) \/ LookAgain(r) \/ Status(r)
  PROVE  TInv'
  <1>0. /\ Ask[r].by \in Account /\ Ask[r].account \in Account
        /\ Ask[r].op \in PageOp \cup ClientOp \cup OpenOp
        /\ Ask[r].device \in Device /\ Ask[r].space \in Space
    BY RegistryAssumption
  <1>1. CASE Receive(r)
    <2>1. /\ UNCHANGED <<up, mem, records, metadata, control, holder, phase, strict, sessions,
                         acked, crossed, failures, crashes>>
          /\ answer' = [answer EXCEPT ![r] = "open"]
          /\ todo' = [todo EXCEPT ![r] = Steps(Ask[r].op)]
          /\ barredBy' = [barredBy EXCEPT ![r] = Excludes(r)]
      BY <1>1 DEF Receive, disk, saving, bounds
    <2>2. Steps(Ask[r].op) \in Rest
      BY <1>0, StepsAreRests
    <2>3. todo' \in [Request -> Rest]
      BY <2>1, <2>2 DEF TInv
    <2>4. <<"disabled", Ask[r].by>> \in Fact /\ <<"sync", Ask[r].by>> \in Fact
      BY <1>0 DEF Fact, ControlFact, OfAccount
    <2>5. <<"space", Ask[r].by, Ask[r].space>> \in Fact
      BY <1>0 DEF Fact, ControlFact
    <2>6. Excludes(r) \in SUBSET Fact
      BY <2>4, <2>5 DEF Excludes
    <2>7. barredBy' \in [Request -> SUBSET Fact]
      BY <2>1, <2>6 DEF TInv, TypeOK
    <2>8. answer' \in [Request -> {"new", "open", "ok", "refused", "lost"}]
      BY <2>1 DEF TInv, TypeOK
    <2> QED
      BY <2>1, <2>3, <2>7, <2>8, RestsTyped DEF TInv, TypeOK, IsRegistry
  <1>2. CASE Login(r) \/ Logout(r)
    <2>1. /\ UNCHANGED <<up, mem, records, metadata, control, holder, phase, strict, todo, answer,
                         barredBy, acked, crossed, failures, crashes>>
          /\ sessions' \subseteq Account
      BY <1>0, <1>2 DEF Login, Logout, disk, saving, bounds, handlers, TInv, TypeOK
    <2> QED
      BY <2>1 DEF TInv, TypeOK, IsRegistry
  <1>3. CASE Admit(r) \/ FindTarget(r) \/ Enter(r) \/ LookAgain(r)
    <2>1. todo[r] # << >> /\ (Refuse(r) \/ (Advance(r) /\ Looks))
      BY <1>3 DEF Admit, FindTarget, Enter, LookAgain, At
    <2> QED
      BY <2>1, RefuseTyped, AdvanceTyped
  <1>4. CASE Authenticate(r)
    <2>1. \/ Refuse(r)
          \/ Advance(r) /\ Looks
          \/ /\ \E refused \in BOOLEAN :
                  /\ todo' = [todo EXCEPT ![r] = IF refused THEN << >> ELSE Tail(todo[r])]
                  /\ answer' = [answer EXCEPT ![r] = IF refused THEN "refused" ELSE @]
             /\ Save(r, FALSE)
             /\ UNCHANGED <<up, mem, records, disk, sessions, acked, barredBy, crossed, bounds>>
      BY <1>4 DEF Authenticate
    <2>2. todo[r] # << >>
      BY <1>4 DEF Authenticate, At
    <2>3. ASSUME NEW refused \in BOOLEAN,
                 todo' = [todo EXCEPT ![r] = IF refused THEN << >> ELSE Tail(todo[r])],
                 answer' = [answer EXCEPT ![r] = IF refused THEN "refused" ELSE @],
                 Save(r, FALSE),
                 UNCHANGED <<up, mem, records, disk, sessions, acked, barredBy, crossed, bounds>>
          PROVE  TInv'
      <3>1. /\ holder' = r /\ phase' = "metadata" /\ strict' = FALSE
            /\ UNCHANGED <<up, mem, records, metadata, control, sessions, acked, barredBy,
                           crossed, failures, crashes>>
        BY <2>3 DEF Save, disk, bounds
      <3>2. << >> \in Rest /\ Tail(todo[r]) \in Rest
        BY <2>2, RestsShrink DEF Rest, TInv
      <3>3. /\ todo' \in [Request -> Rest]
            /\ answer' \in [Request -> {"new", "open", "ok", "refused", "lost"}]
        BY <2>3, <3>2 DEF TInv, TypeOK
      <3>4. r # Startup
        BY RegistryAssumption
      <3> QED
        BY <3>1, <3>3, <3>4, RestsTyped DEF TInv, TypeOK, IsRegistry
    <2> QED
      BY <2>1, <2>2, <2>3, RefuseTyped, AdvanceTyped
  <1>5. CASE Touch(r) \/ Status(r)
    <2>1. Typed(<< >>)
      BY DEF Typed
    <2>2. Typed(SeenDevice(Ask[r].by, Ask[r].device, NoRoot))
      BY <1>0, SeenTyped DEF TInv, TypeOK
    <2>3. /\ todo[r] # << >>
          /\ \/ Flush(r, SeenDevice(Ask[r].by, Ask[r].device, NoRoot))
             \/ Flush(r, << >>)
             \/ Advance(r) /\ Looks
      BY <1>5 DEF Touch, Status, At
    <2> QED
      BY <2>1, <2>2, <2>3, FlushTyped, AdvanceTyped
  <1> QED
    BY <1>1, <1>2, <1>3, <1>4, <1>5

\* The end of a save.
LEMMA ReplyTyped ==
  ASSUME TInv, NEW r \in Request, NEW ok \in BOOLEAN, Reply(r, ok)
  PROVE  /\ todo' \in [Request -> Rest]
         /\ answer' \in [Request -> {"new", "open", "ok", "refused", "lost"}]
  <1>1. << >> \in Rest
    BY DEF Rest
  <1> QED
    BY <1>1 DEF Reply, TInv, TypeOK

LEMMA SaveTyped ==
  ASSUME TInv, WriteMetadata \/ WriteControl \/ FailSave
  PROVE  TInv'
  <1>0. Nobody \notin Request /\ Startup \notin Request /\ Nobody # Startup /\ MaxFailures \in Nat
    BY RegistryAssumption
  <1>1. CASE WriteMetadata
    <2>1. /\ metadata' = [reg |-> mem, records |-> records] /\ phase' = "control"
          /\ UNCHANGED <<up, mem, records, control, holder, strict, sessions, todo, answer,
                         barredBy, acked, crossed, failures, crashes>>
      BY <1>1 DEF WriteMetadata, handlers, bounds
    <2> QED
      BY <2>1 DEF TInv, TypeOK, IsRegistry
  <1>2. CASE WriteControl
    <2>1. /\ control' = [f \in ControlFact |-> mem[f]] /\ holder' = Nobody
          /\ holder \in Request /\ Reply(holder, TRUE)
          /\ acked' = IF strict THEN [f \in Fact |-> IF f \in Sets(holder) THEN mem[f] ELSE acked[f]]
                      ELSE acked
          /\ UNCHANGED <<up, mem, records, metadata, phase, strict, barredBy, crossed,
                         failures, crashes>>
      BY <1>2 DEF WriteControl, bounds
    <2>2. sessions' \subseteq Account
      BY <1>2, RegistryAssumption DEF WriteControl, TInv, TypeOK
    <2>3. /\ todo' \in [Request -> Rest]
          /\ answer' \in [Request -> {"new", "open", "ok", "refused", "lost"}]
      BY <2>1, ReplyTyped
    <2>4. ControlFact \subseteq Fact
      BY DEF Fact
    <2>5. DOMAIN control' = ControlFact /\ \A f \in ControlFact : control'[f] \in Values(f)
      BY <2>1, <2>4 DEF TInv, TypeOK, IsRegistry
    <2>6. DOMAIN acked' = Fact /\ \A f \in Fact : acked'[f] \in Values(f) \cup {Unknown}
      BY <2>1 DEF TInv, TypeOK, IsRegistry
    <2> QED
      BY <1>0, <2>1, <2>2, <2>3, <2>5, <2>6, RestsTyped DEF TInv, TypeOK, IsRegistry
  <1>3. CASE FailSave
    <2>1. /\ holder \in Request /\ holder' = Nobody /\ Reply(holder, FALSE)
          /\ failures < MaxFailures /\ failures' = failures + 1
          /\ UNCHANGED <<up, mem, records, metadata, control, phase, strict, sessions, acked,
                         barredBy, crossed, crashes>>
      BY <1>3 DEF FailSave, disk
    <2>2. /\ todo' \in [Request -> Rest]
          /\ answer' \in [Request -> {"new", "open", "ok", "refused", "lost"}]
      BY <2>1, ReplyTyped
    <2>3. failures' \in 0..MaxFailures
      BY <1>0, <2>1 DEF TInv, TypeOK
    <2> QED
      BY <1>0, <2>1, <2>2, <2>3, RestsTyped DEF TInv, TypeOK, IsRegistry
  <1> QED
    BY <1>1, <1>2, <1>3

LEMMA DownTyped ==
  ASSUME TInv, Down, UNCHANGED <<disk, acked, crossed>>,
         failures' \in 0..MaxFailures, crashes' \in 0..MaxCrashes
  PROVE  TInv'
  <1>1. /\ up' = FALSE /\ mem' = Empty /\ records' = << >> /\ holder' = Nobody
        /\ phase' = "metadata" /\ strict' = FALSE /\ sessions' = {}
        /\ todo' = [r \in Request |-> << >>]
        /\ answer' = [r \in Request |-> IF answer[r] = "open" THEN "lost" ELSE answer[r]]
        /\ barredBy' = [r \in Request |-> {}]
        /\ UNCHANGED <<metadata, control, acked, crossed>>
    BY DEF Down, disk
  <1>2. todo' \in [Request -> Rest]
    BY <1>1 DEF Rest
  <1>3. IsRegistry(mem')
    BY <1>1, EmptyTyped
  <1>4. answer' \in [Request -> {"new", "open", "ok", "refused", "lost"}]
    BY <1>1 DEF TInv, TypeOK
  <1>5. barredBy' \in [Request -> SUBSET Fact] /\ records' \in Seq(Account \X Request)
    BY <1>1
  <1>6. todo' \in [Request -> Seq({"admit", "auth", "target", "enter", "touch", "again", "apply", "status"})]
    BY <1>2, RestsTyped
  <1>7. DOMAIN acked' = Fact /\ \A f \in Fact : acked'[f] \in Values(f) \cup {Unknown}
    BY <1>1 DEF TInv, TypeOK
  <1>8. /\ IsRegistry(metadata'.reg) /\ metadata'.records \in Seq(Account \X Request)
        /\ DOMAIN control' = ControlFact /\ \A f \in ControlFact : control'[f] \in Values(f)
    BY <1>1 DEF TInv, TypeOK, IsRegistry
  <1>9. /\ up' \in BOOLEAN /\ strict' \in BOOLEAN /\ crossed' \in BOOLEAN /\ ~up'
        /\ holder' \in Request \cup {Startup, Nobody} /\ phase' \in {"metadata", "control"}
        /\ sessions' \subseteq Account
    BY <1>1 DEF TInv, TypeOK
  <1> QED
    BY <1>2, <1>3, <1>4, <1>5, <1>6, <1>7, <1>8, <1>9 DEF TInv, TypeOK

LEMMA StartTyped ==
  ASSUME TInv, Start \/ Listen \/ Crash \/ FailStart
  PROVE  TInv'
  <1>0. /\ Nobody \notin Request /\ Startup \notin Request /\ Nobody # Startup
        /\ MaxFailures \in Nat /\ MaxCrashes \in Nat
    BY RegistryAssumption
  <1>1. CASE Start
    <2>1. /\ holder' = Startup /\ phase' \in {"metadata", "control"} /\ strict' = FALSE
          /\ ~up /\ records' = metadata.records
          /\ UNCHANGED <<up, metadata, control, sessions, todo, answer, barredBy, acked, crossed,
                         failures, crashes>>
      BY <1>1 DEF Start, disk, handlers, bounds
    <2>2. IsRegistry(Loaded)
      BY LoadedTyped DEF TInv, TypeOK
    <2>3. IsRegistry(mem')
      <3>1. CASE \A a \in Account : ~Exists(Loaded, a)
        <4>1. mem' = Over(Loaded, NewAccount(Admin, AdminName, TRUE, AdminPassword, NoToken))
          BY <1>1, <3>1 DEF Start
        <4>2. Typed(NewAccount(Admin, AdminName, TRUE, AdminPassword, NoToken))
          BY RegistryAssumption, NewAccountTyped
        <4> QED
          BY <2>2, <4>1, <4>2, OverTyped
      <3>2. CASE ~\A a \in Account : ~Exists(Loaded, a)
        <4>1. PICK first \in Account :
                LET f == <<"space", first, Default>>
                    reg == FoldersSeen(Loaded)
                IN  mem' = IF reg[f] = "none" THEN [reg EXCEPT ![f] = "on"] ELSE reg
          BY <1>1, <3>2 DEF Start
        <4> DEFINE missing == {f \in {"device"} \X Account \X Device :
                                 Loaded[f] = NoDevice /\ Loaded[<<"folder", f[2], f[3]>>] # "none"}
        <4>2. \A f \in missing : NoRoot \in Values(f)
          BY ValuesAre
        <4>3. Typed([f \in missing |-> NoRoot])
          BY <4>2 DEF Typed
        <4>4. FoldersSeen(Loaded) = Over(Loaded, [f \in missing |-> NoRoot])
          BY DEF FoldersSeen
        <4> HIDE DEF missing
        <4>5. IsRegistry(FoldersSeen(Loaded))
          BY <2>2, <4>3, <4>4, OverTyped
        <4>6. <<"space", first, Default>> \in Fact
          BY RegistryAssumption DEF Fact, ControlFact
        <4>7. "on" \in Values(<<"space", first, Default>>)
          BY ValuesAre
        <4>8. \A reg, f : IsRegistry(reg) /\ f \in Fact /\ "on" \in Values(f)
                 => IsRegistry([reg EXCEPT ![f] = "on"])
          BY DEF IsRegistry
        <4> QED
          BY <4>1, <4>5, <4>6, <4>7, <4>8
      <3> QED
        BY <3>1, <3>2
    <2> QED
      BY <2>1, <2>3 DEF TInv, TypeOK, IsRegistry
  <1>2. CASE Listen
    <2>1. /\ control' = [f \in ControlFact |-> mem[f]] /\ holder' = Nobody /\ up' = TRUE
          /\ UNCHANGED <<mem, records, metadata, phase, strict, sessions, todo, answer, barredBy,
                         acked, crossed, failures, crashes>>
      BY <1>2 DEF Listen, handlers, bounds
    <2>2. ControlFact \subseteq Fact
      BY DEF Fact
    <2>3. DOMAIN control' = ControlFact /\ \A f \in ControlFact : control'[f] \in Values(f)
      BY <2>1, <2>2 DEF TInv, TypeOK, IsRegistry
    <2> QED
      BY <1>0, <2>1, <2>3 DEF TInv, TypeOK, IsRegistry
  <1>3. CASE Crash
    <2>1. crashes' \in 0..MaxCrashes /\ failures' \in 0..MaxFailures
      BY <1>0, <1>3 DEF Crash, TInv, TypeOK
    <2> QED
      BY <1>3, <2>1, DownTyped DEF Crash
  <1>4. CASE FailStart
    <2>1. crashes' \in 0..MaxCrashes /\ failures' \in 0..MaxFailures
      BY <1>0, <1>4 DEF FailStart, TInv, TypeOK
    <2> QED
      BY <1>4, <2>1, DownTyped DEF FailStart
  <1> QED
    BY <1>1, <1>2, <1>3, <1>4

LEMMA InitTyped == Init => TInv
  <1> SUFFICES ASSUME Init PROVE TInv
    OBVIOUS
  <1>1. PICK reg \in {Empty, Seed} :
          /\ metadata = [reg |-> reg, records |-> << >>]
          /\ control = [f \in ControlFact |-> reg[f]]
    BY DEF Init
  <1>2. IsRegistry(reg) /\ IsRegistry(Empty)
    BY EmptyTyped, RegistryAssumption
  <1>3. ControlFact \subseteq Fact
    BY DEF Fact
  <1>4. DOMAIN control = ControlFact /\ \A f \in ControlFact : control[f] \in Values(f)
    BY <1>1, <1>2, <1>3 DEF IsRegistry
  <1>5. todo \in [Request -> Rest]
    BY DEF Init, Rest
  <1>6. PICK batch \in Batch : answer = [r \in Request |-> IF r \in batch THEN "new" ELSE "lost"]
    BY DEF Init
  <1>7. failures \in 0..MaxFailures /\ crashes \in 0..MaxCrashes
    BY RegistryAssumption DEF Init
  <1>8. answer \in [Request -> {"new", "open", "ok", "refused", "lost"}]
    BY <1>6
  <1>9. barredBy \in [Request -> SUBSET Fact] /\ records \in Seq(Account \X Request)
    BY DEF Init
  <1>10. todo \in [Request -> Seq({"admit", "auth", "target", "enter", "touch", "again", "apply", "status"})]
    BY <1>5, RestsTyped
  <1>11. DOMAIN acked = Fact /\ \A f \in Fact : acked[f] \in Values(f) \cup {Unknown}
    BY DEF Init
  <1>12. /\ IsRegistry(mem) /\ IsRegistry(metadata.reg)
         /\ metadata.records \in Seq(Account \X Request)
    BY <1>1, <1>2 DEF Init
  <1>13. /\ up \in BOOLEAN /\ strict \in BOOLEAN /\ crossed \in BOOLEAN /\ ~up
         /\ holder \in Request \cup {Startup, Nobody} /\ phase \in {"metadata", "control"}
         /\ sessions \subseteq Account
    BY DEF Init
  <1> QED
    BY <1>4, <1>5, <1>7, <1>8, <1>9, <1>10, <1>11, <1>12, <1>13 DEF TInv, TypeOK

LEMMA StepTyped == TInv /\ [Next]_vars => TInv'
  <1> SUFFICES ASSUME TInv, [Next]_vars PROVE TInv'
    OBVIOUS
  <1>1. CASE UNCHANGED vars
    BY <1>1 DEF vars, TInv, TypeOK, IsRegistry
  <1>2. CASE Next
    BY <1>2, ApplyTyped, HandlerTyped, SaveTyped, StartTyped DEF Next
  <1> QED
    BY <1>1, <1>2

\* Every variable keeps its type: in particular a handler never has other
\* steps left than the end of those of a request.
THEOREM RegistryTyped == Spec => []TypeOK
  <1>1. TInv => TypeOK
    BY DEF TInv
  <1> QED
    BY <1>1, InitTyped, StepTyped, PTL DEF Spec
-----------------------------------------------------------------------------
(* A request that came after a switch was answered never takes effect. *)

\* Where a barred request can be: before its first test, refused, or, for a
\* space that is switched off, before its look at the space.
Waits(r) ==
  \/ answer[r] = "open" /\ todo[r] = Steps(Ask[r].op)
  \/ /\ answer[r] = "open" /\ Ask[r].op = "commit" /\ todo[r] = <<"enter", "touch", "again", "apply">>
     /\ barredBy[r] \subseteq {<<"space", Ask[r].by, Ask[r].space>>}
  \/ answer[r] \in {"refused", "lost"} /\ todo[r] = << >>

Stays(r) == barredBy[r] # {} => ~(holder = r /\ strict) /\ Waits(r)

\* Inductive: what bars a request is still promised, the request has not got
\* past the test for it, and what a save is about is not promised yet.
BInv ==
  /\ \A r \in Request : barredBy[r] \subseteq Excludes(r)
  /\ \A r \in Request : Stays(r)
  /\ \A r \in Request : answer[r] = "new" => holder # r /\ todo[r] = << >>
  /\ holder \in Request /\ strict => \A f \in Fact \cap Sets(holder) : acked[f] = Unknown

\* The first test of a request, and what is left after it.
LEMMA FirstSteps ==
  ASSUME NEW r \in Request
  PROVE  /\ Steps(Ask[r].op) # << >>
         /\ Ask[r].op \in PageOp => Head(Steps(Ask[r].op)) = "admit"
         /\ Ask[r].op \in ClientOp => Head(Steps(Ask[r].op)) = "auth"
         /\ Ask[r].op \in OpenOp => Head(Steps(Ask[r].op)) = "apply"
         /\ Ask[r].op = "commit" => Tail(Steps(Ask[r].op)) = <<"enter", "touch", "again", "apply">>
  <1>0. Ask[r].op \in PageOp \cup ClientOp \cup OpenOp
    BY RegistryAssumption
  <1>1. Ask[r].op \in PageOp =>
          Steps(Ask[r].op) \in {<<"admit", "apply">>, <<"admit", "target", "apply">>}
    BY StepsAre DEF PageOp, AdminOp, OwnerOp
  <1>2. Ask[r].op \in ClientOp =>
          Steps(Ask[r].op) \in {<<"auth", "apply">>, <<"auth", "status">>,
                                <<"auth", "apply", "status">>,
                                <<"auth", "enter", "touch", "again", "apply">>}
    BY StepsAre DEF ClientOp, SyncOp, SpaceOp
  <1>3. Ask[r].op \in OpenOp => Steps(Ask[r].op) = <<"apply">>
    BY StepsAre
  <1>4. Ask[r].op = "commit" => Steps(Ask[r].op) = <<"auth", "enter", "touch", "again", "apply">>
    BY StepsAre
  <1>5. \A s \in {<<"admit", "apply">>, <<"admit", "target", "apply">>} :
          s # << >> /\ Head(s) = "admit"
    OBVIOUS
  <1>6. \A s \in {<<"auth", "apply">>, <<"auth", "status">>, <<"auth", "apply", "status">>,
                  <<"auth", "enter", "touch", "again", "apply">>} : s # << >> /\ Head(s) = "auth"
    OBVIOUS
  <1>7. <<"apply">> # << >> /\ Head(<<"apply">>) = "apply"
    OBVIOUS
  <1>8. Tail(<<"auth", "enter", "touch", "again", "apply">>) = <<"enter", "touch", "again", "apply">>
    OBVIOUS
  <1> QED
    BY <1>0, <1>1, <1>2, <1>3, <1>4, <1>5, <1>6, <1>7, <1>8

\* What bars a request is a promise, and the memory has it.
LEMMA BarsAre ==
  ASSUME IInv, BInv, NEW r \in Request, NEW f \in barredBy[r], barredBy[r] \subseteq Fact
  PROVE  /\ acked[f] # Unknown
         /\ up => mem[f] = acked[f]
         /\ \/ f = <<"disabled", Ask[r].by>> /\ acked[f] = TRUE /\ Ask[r].op # "register"
            \/ f = <<"sync", Ask[r].by>> /\ acked[f] = FALSE /\ Ask[r].op \in SyncOp
            \/ /\ f = <<"space", Ask[r].by, Ask[r].space>> /\ acked[f] = "off"
               /\ Ask[r].op \in SpaceOp
  <1>1. f \in Excludes(r) /\ f \in Fact
    BY DEF BInv
  <1>2. \/ f = <<"disabled", Ask[r].by>> /\ acked[f] = TRUE /\ Ask[r].op # "register"
        \/ f = <<"sync", Ask[r].by>> /\ acked[f] = FALSE /\ Ask[r].op \in SyncOp
        \/ f = <<"space", Ask[r].by, Ask[r].space>> /\ acked[f] = "off" /\ Ask[r].op \in SpaceOp
    BY <1>1 DEF Excludes
  <1>3. Unknown \notin Values(f)
    BY <1>1, RegistryAssumption
  <1>4. CASE f = <<"disabled", Ask[r].by>> \/ f = <<"sync", Ask[r].by>>
    <2>1. Values(f) = BOOLEAN
      BY <1>4, ValuesAre
    <2>2. f # <<"space", Ask[r].by, Ask[r].space>>
      BY <1>4
    <2>3. acked[f] = TRUE \/ acked[f] = FALSE
      BY <1>2, <2>2, Zenon
    <2>4. TRUE # Unknown /\ FALSE # Unknown
      BY <1>3, <2>1, Zenon
    <2>5. acked[f] # Unknown
      BY <2>3, <2>4, Zenon
    <2> QED
      BY <1>1, <1>2, <2>5 DEF IInv, InMemory
  <1>5. CASE f = <<"space", Ask[r].by, Ask[r].space>>
    <2>1. Values(f) = {"none", "on", "off"}
      BY <1>5, ValuesAre
    <2>2. f[1] = "space"
      BY <1>5
    <2> QED
      BY <1>1, <1>2, <1>3, <1>5, <2>1, <2>2 DEF IInv, InMemory
  <1> QED
    BY <1>2, <1>4, <1>5

\* A bar stays while its promise does.
LEMMA BarsLast ==
  ASSUME NEW r \in Request, NEW f \in Excludes(r), acked'[f] = acked[f]
  PROVE  f \in Excludes(r)'
  BY DEF Excludes

\* A step of r's handler: what bars anybody stays promised or goes, nobody
\* else moves, and r is where it may be.
LEMMA MoveBars ==
  ASSUME BInv, NEW r \in Request,
         \A q \in Request : /\ barredBy'[q] \subseteq barredBy[q]
                            /\ \A f \in barredBy'[q] : acked'[f] = acked[f],
         \A q \in Request \ {r} : /\ todo'[q] = todo[q] /\ answer'[q] = answer[q]
                                  /\ holder' = q => holder = q /\ (strict' => strict),
         Stays(r)', answer'[r] = "new" => holder' # r /\ todo'[r] = << >>,
         holder' \in Request /\ strict' =>
           \A f \in Fact \cap Sets(holder') : acked'[f] = Unknown
  PROVE  BInv'
  <1>1. ASSUME NEW q \in Request, NEW f \in barredBy'[q] PROVE f \in Excludes(q)'
    BY BarsLast DEF BInv
  <1>2. ASSUME NEW q \in Request \ {r} PROVE Stays(q)'
    <2>1. CASE barredBy'[q] = {}
      BY <2>1 DEF Stays
    <2>2. CASE barredBy'[q] # {}
      <3>1. barredBy[q] # {} /\ ~(holder' = q /\ strict') /\ Waits(q)
        BY <2>2 DEF BInv, Stays
      <3>2. Waits(q)'
        BY <3>1 DEF Waits
      <3> QED
        BY <3>1, <3>2 DEF Stays
    <2> QED
      BY <2>1, <2>2
  <1>3. ASSUME NEW q \in Request, answer'[q] = "new" PROVE holder' # q /\ todo'[q] = << >>
    BY <1>3 DEF BInv
  <1> QED
    BY <1>1, <1>2, <1>3 DEF BInv

\* A request that is refused, or goes on, barred or not.
LEMMA MeetsTest ==
  ASSUME TInv, BInv, NEW r \in Request, up, holder = Nobody,
         holder' = Nobody \/ (holder' = r /\ ~strict'),
         UNCHANGED <<acked, barredBy>>, todo[r] # << >>,
         NEW s, todo' = [todo EXCEPT ![r] = s],
         NEW v \in {answer[r], "refused", "ok"}, answer' = [answer EXCEPT ![r] = v],
         barredBy[r] # {} => Waits(r)'
  PROVE  BInv'
  <1>1. r # Nobody /\ Nobody \notin Request
    BY RegistryAssumption
  <1>2. answer[r] # "new"
    BY DEF BInv
  <1>3. /\ todo' [r] = s /\ answer'[r] = v
        /\ \A q \in Request \ {r} : todo'[q] = todo[q] /\ answer'[q] = answer[q]
    BY DEF TInv, TypeOK
  <1>4. \A q \in Request : /\ barredBy'[q] \subseteq barredBy[q]
                           /\ \A f \in barredBy'[q] : acked'[f] = acked[f]
    OBVIOUS
  <1>5. \A q \in Request \ {r} : holder' = q => holder = q /\ (strict' => strict)
    BY <1>1
  <1>6. Stays(r)'
    BY <1>1 DEF Stays
  <1> QED
    BY <1>1, <1>2, <1>3, <1>4, <1>5, <1>6, MoveBars

\* A request that is refused.
LEMMA RefuseBars ==
  ASSUME TInv, BInv, NEW r \in Request, up, holder = Nobody, todo[r] # << >>, Refuse(r)
  PROVE  BInv'
  <1>1. /\ todo' = [todo EXCEPT ![r] = << >>] /\ answer' = [answer EXCEPT ![r] = "refused"]
        /\ UNCHANGED <<holder, acked, barredBy>>
    BY DEF Refuse, Looks, saving
  <1>2. Waits(r)'
    BY <1>1 DEF Waits, TInv, TypeOK
  <1> QED
    BY <1>1, <1>2, MeetsTest

\* A request that goes on is not barred, or is one to a space that is
\* switched off before its look at the space.
LEMMA AdvanceBars ==
  ASSUME TInv, BInv, NEW r \in Request, up, holder = Nobody, todo[r] # << >>,
         Advance(r), Looks,
         barredBy[r] # {} =>
           /\ answer[r] = "open" /\ Ask[r].op = "commit" /\ todo[r] = Steps("commit")
           /\ barredBy[r] \subseteq {<<"space", Ask[r].by, Ask[r].space>>}
  PROVE  BInv'
  <1> DEFINE v == IF Tail(todo[r]) = << >> THEN "ok" ELSE answer[r]
  <1>1. /\ todo' = [todo EXCEPT ![r] = Tail(todo[r])] /\ answer' = [answer EXCEPT ![r] = v]
        /\ UNCHANGED <<holder, acked, barredBy>>
    BY DEF Advance, Looks, saving
  <1>2. barredBy[r] # {} => Tail(todo[r]) = <<"enter", "touch", "again", "apply">>
    BY FirstSteps
  <1>3. barredBy[r] # {} => Waits(r)'
    <2>1. <<"enter", "touch", "again", "apply">> # << >>
      OBVIOUS
    <2>2. todo'[r] = Tail(todo[r]) /\ answer'[r] = v
      BY <1>1 DEF TInv, TypeOK
    <2>3. barredBy[r] # {} => answer'[r] = "open"
      BY <1>2, <2>1, <2>2
    <2> QED
      BY <1>1, <1>2, <2>2, <2>3 DEF Waits
  <1> QED
    BY <1>1, <1>3, MeetsTest

\* A step that saves a time: as the last one.
LEMMA SavesBars ==
  ASSUME TInv, BInv, NEW r \in Request, up, holder = Nobody, todo[r] # << >>,
         todo' = [todo EXCEPT ![r] = Tail(todo[r])], answer' = answer, Save(r, FALSE),
         UNCHANGED <<acked, barredBy>>,
         barredBy[r] # {} =>
           /\ answer[r] = "open" /\ Ask[r].op = "commit" /\ todo[r] = Steps("commit")
           /\ barredBy[r] \subseteq {<<"space", Ask[r].by, Ask[r].space>>}
  PROVE  BInv'
  <1>1. answer' = [answer EXCEPT ![r] = answer[r]]
    BY DEF TInv, TypeOK
  <1>2. barredBy[r] # {} => Tail(todo[r]) = <<"enter", "touch", "again", "apply">>
    BY FirstSteps
  <1>3. barredBy[r] # {} => Waits(r)'
    BY <1>2 DEF Waits, TInv, TypeOK
  <1>4. holder' = r /\ ~strict'
    BY DEF Save
  <1> QED
    BY <1>1, <1>3, <1>4, MeetsTest

\* Where a barred request is when the lock is free.
LEMMA BarredAt ==
  ASSUME BInv, NEW r \in Request, NEW step, At(r, step), barredBy[r] # {}
  PROVE  /\ answer[r] = "open"
         /\ \/ /\ todo[r] = Steps(Ask[r].op)
               /\ step \in {"admit", "auth", "apply"}
               /\ step = "admit" <=> Ask[r].op \in PageOp
               /\ step = "auth" <=> Ask[r].op \in ClientOp
               /\ step = "apply" <=> Ask[r].op \in OpenOp
            \/ /\ step = "enter" /\ Ask[r].op = "commit"
               /\ todo[r] = <<"enter", "touch", "again", "apply">>
               /\ barredBy[r] = {<<"space", Ask[r].by, Ask[r].space>>}
  <1>1. todo[r] # << >> /\ Head(todo[r]) = step /\ Waits(r)
    BY DEF At, BInv, Stays
  <1>2. CASE todo[r] = Steps(Ask[r].op)
    <2>1. Ask[r].op \in PageOp \cup ClientOp \cup OpenOp
      BY RegistryAssumption
    <2>2. /\ Ask[r].op \in PageOp => step = "admit"
          /\ Ask[r].op \in ClientOp => step = "auth"
          /\ Ask[r].op \in OpenOp => step = "apply"
      BY <1>1, <1>2, FirstSteps
    <2>3. answer[r] = "open"
      BY <1>1, <1>2 DEF Waits
    <2> QED
      BY <1>2, <2>1, <2>2, <2>3
  <1>3. CASE todo[r] # Steps(Ask[r].op)
    <2>1. /\ answer[r] = "open" /\ Ask[r].op = "commit" /\ todo[r] = <<"enter", "touch", "again", "apply">>
          /\ barredBy[r] \subseteq {<<"space", Ask[r].by, Ask[r].space>>}
      BY <1>1, <1>3 DEF Waits
    <2>2. step = "enter"
      BY <1>1, <2>1
    <2> QED
      BY <2>1, <2>2
  <1> QED
    BY <1>2, <1>3

\* The tests.
LEMMA HandlerBars ==
  ASSUME IInv, TInv, BInv, NEW r \in Request,
         \/ Receive(r) \/ Login(r) \/ Logout(r) \/ Admit(r) \/ FindTarget(r) \/ Authenticate(r)
         \/ Enter(r) \/ Touch(r) \/ LookAgain(r) \/ Status(r)
  PROVE  BInv'
  <1> DEFINE by == Ask[r].by
  <1>0. barredBy[r] \subseteq Fact
    BY DEF TInv, TypeOK
  <1>1. CASE Receive(r)
    <2>1. /\ UNCHANGED <<holder, strict, acked>> /\ answer[r] = "new"
          /\ answer' = [answer EXCEPT ![r] = "open"]
          /\ todo' = [todo EXCEPT ![r] = Steps(Ask[r].op)]
          /\ barredBy' = [barredBy EXCEPT ![r] = Excludes(r)]
      BY <1>1 DEF Receive, saving
    <2>2. /\ answer'[r] = "open" /\ todo'[r] = Steps(Ask[r].op) /\ barredBy'[r] = Excludes(r)
          /\ \A q \in Request \ {r} : /\ todo'[q] = todo[q] /\ answer'[q] = answer[q]
                                      /\ barredBy'[q] = barredBy[q]
      BY <2>1 DEF TInv, TypeOK
    <2>3. holder # r
      BY <2>1 DEF BInv
    <2>4. ASSUME NEW q \in Request, NEW f \in barredBy'[q] PROVE f \in Excludes(q)'
      <3>1. f \in Excludes(q)
        BY <2>2 DEF BInv
      <3> QED
        BY <2>1, <3>1, BarsLast
    <2>5. ASSUME NEW q \in Request PROVE Stays(q)'
      BY <2>1, <2>2, <2>3 DEF BInv, Stays, Waits
    <2> QED
      BY <2>1, <2>2, <2>4, <2>5 DEF BInv
  <1>2. CASE Login(r) \/ Logout(r)
    <2>1. UNCHANGED <<holder, strict, acked, answer, todo, barredBy>>
      BY <1>2 DEF Login, Logout, saving, handlers
    <2>2. ASSUME NEW q \in Request PROVE barredBy[q] \subseteq Excludes(q)'
      BY <2>1, BarsLast DEF BInv
    <2> QED
      BY <2>1, <2>2 DEF BInv, Stays, Waits
  <1>3. CASE Admit(r)
    <2>1. At(r, "admit") /\ up /\ holder = Nobody /\ todo[r] # << >>
      BY <1>3 DEF Admit, At
    <2>2. ASSUME NEW f \in barredBy[r] PROVE ~Enabled(mem, by)
      <3>1. Ask[r].op \in PageOp
        BY <2>1, BarredAt
      <3>2. f = <<"disabled", by>> /\ mem[f] = TRUE
        BY <1>0, <2>1, <3>1, BarsAre
        DEF PageOp, AdminOp, OwnerOp, SyncOp, SpaceOp
      <3> QED
        BY <3>2 DEF Enabled
    <2>3. Refuse(r) \/ (Advance(r) /\ Looks /\ barredBy[r] = {})
      BY <1>3, <2>2 DEF Admit
    <2> QED
      BY <2>1, <2>3, RefuseBars, AdvanceBars
  <1>4. CASE FindTarget(r)
    <2>1. At(r, "target") /\ up /\ holder = Nobody /\ todo[r] # << >>
      BY <1>4 DEF FindTarget, At
    <2>2. barredBy[r] = {}
      BY <2>1, BarredAt
    <2> QED
      BY <1>4, <2>1, <2>2, RefuseBars, AdvanceBars DEF FindTarget
  <1>5. CASE Authenticate(r)
    <2>1. At(r, "auth") /\ up /\ holder = Nobody /\ todo[r] # << >>
      BY <1>5 DEF Authenticate, At
    <2> DEFINE refused == Ask[r].op \in SyncOp /\ ~mem[<<"sync", by>>]
    <2>2. ASSUME Enabled(mem, by), ~refused, barredBy[r] # {}
          PROVE  /\ answer[r] = "open" /\ Ask[r].op = "commit" /\ todo[r] = Steps("commit")
                 /\ barredBy[r] \subseteq {<<"space", by, Ask[r].space>>}
      <3>1. answer[r] = "open" /\ todo[r] = Steps(Ask[r].op)
        BY <2>1, <2>2, BarredAt
      <3>2. ASSUME NEW f \in barredBy[r]
            PROVE  f = <<"space", by, Ask[r].space>> /\ Ask[r].op \in SpaceOp
        <4>1. /\ mem[f] = acked[f]
              /\ \/ f = <<"disabled", by>> /\ acked[f] = TRUE
                 \/ f = <<"sync", by>> /\ acked[f] = FALSE /\ Ask[r].op \in SyncOp
                 \/ /\ f = <<"space", by, Ask[r].space>> /\ acked[f] = "off"
                    /\ Ask[r].op \in SpaceOp
          BY <1>0, <2>1, BarsAre
        <4> QED
          BY <2>2, <4>1 DEF Enabled
      <3> QED
        BY <2>2, <3>1, <3>2 DEF SpaceOp
    <2>3. \/ Refuse(r)
          \/ Enabled(mem, by) /\ ~refused /\ Advance(r) /\ Looks
          \/ /\ Enabled(mem, by)
             /\ todo' = [todo EXCEPT ![r] = IF refused THEN << >> ELSE Tail(todo[r])]
             /\ answer' = [answer EXCEPT ![r] = IF refused THEN "refused" ELSE @]
             /\ Save(r, FALSE) /\ UNCHANGED <<acked, barredBy>>
      BY <1>5 DEF Authenticate
    <2>4. CASE /\ Enabled(mem, by)
               /\ todo' = [todo EXCEPT ![r] = IF refused THEN << >> ELSE Tail(todo[r])]
               /\ answer' = [answer EXCEPT ![r] = IF refused THEN "refused" ELSE @]
               /\ Save(r, FALSE) /\ UNCHANGED <<acked, barredBy>>
      <3>1. CASE refused
        <4>1. /\ todo' = [todo EXCEPT ![r] = << >>] /\ answer' = [answer EXCEPT ![r] = "refused"]
              /\ holder' = r /\ ~strict'
          BY <2>4, <3>1 DEF Save
        <4>2. Waits(r)'
          BY <4>1 DEF Waits, TInv, TypeOK
        <4> QED
          BY <2>1, <2>4, <4>1, <4>2, MeetsTest
      <3>2. CASE ~refused
        <4>1. todo' = [todo EXCEPT ![r] = Tail(todo[r])] /\ answer' = answer
          BY <2>4, <3>2 DEF TInv, TypeOK
        <4> QED
          BY <2>1, <2>2, <2>4, <3>2, <4>1, SavesBars
      <3> QED
        BY <3>1, <3>2
    <2> QED
      BY <2>1, <2>2, <2>3, <2>4, RefuseBars, AdvanceBars
  <1>6. CASE Enter(r)
    <2>1. At(r, "enter") /\ up /\ holder = Nobody /\ todo[r] # << >>
      BY <1>6 DEF Enter, At
    <2>2. ASSUME barredBy[r] # {} PROVE mem[<<"space", by, Ask[r].space>>] = "off"
      <3>1. barredBy[r] = {<<"space", by, Ask[r].space>>}
        BY <2>1, <2>2, BarredAt
      <3>2. PICK f \in barredBy[r] : f = <<"space", by, Ask[r].space>>
        BY <3>1
      <3> QED
        BY <1>0, <2>1, <3>2, BarsAre
    <2>3. Refuse(r) \/ (Advance(r) /\ Looks /\ barredBy[r] = {})
      BY <1>6, <2>2 DEF Enter
    <2> QED
      BY <2>1, <2>3, RefuseBars, AdvanceBars
  <1>7. CASE LookAgain(r)
    <2>1. At(r, "again") /\ up /\ holder = Nobody /\ todo[r] # << >>
      BY <1>7 DEF LookAgain, At
    <2>2. barredBy[r] = {}
      BY <2>1, BarredAt
    <2> QED
      BY <1>7, <2>1, <2>2, RefuseBars, AdvanceBars DEF LookAgain
  <1>8. CASE Status(r)
    <2>1. At(r, "status") /\ up /\ holder = Nobody /\ todo[r] # << >>
      BY <1>8 DEF Status, At
    <2>2. barredBy[r] = {}
      BY <2>1, BarredAt
    <2>3. \/ Advance(r) /\ Looks
          \/ /\ todo' = [todo EXCEPT ![r] = Tail(todo[r])] /\ Save(r, FALSE)
             /\ UNCHANGED <<answer, acked, barredBy>>
      BY <1>8 DEF Status, Flush
    <2> QED
      BY <2>1, <2>2, <2>3, SavesBars, AdvanceBars
  <1>9. CASE Touch(r)
    <2>1. At(r, "touch") /\ up /\ holder = Nobody /\ todo[r] # << >>
      BY <1>9 DEF Touch, At
    <2>2. barredBy[r] = {}
      BY <2>1, BarredAt
    <2>3. /\ todo' = [todo EXCEPT ![r] = Tail(todo[r])] /\ Save(r, FALSE)
          /\ UNCHANGED <<answer, acked, barredBy>>
      BY <1>9 DEF Touch, Flush
    <2> QED
      BY <2>1, <2>2, <2>3, SavesBars
  <1> QED
    BY <1>1, <1>2, <1>3, <1>4, <1>5, <1>6, <1>7, <1>8, <1>9

\* The change a request asks for: nobody bars it, and what it asks to set is
\* promised no more.
LEMMA ChangeBars ==
  ASSUME TInv, BInv, NEW r \in Request, NEW new, up, holder = Nobody, todo[r] # << >>,
         barredBy[r] = {}, Change(r, new)
  PROVE  BInv'
  <1>1. /\ todo' = [todo EXCEPT ![r] = Tail(todo[r])] /\ answer' = answer /\ holder' = r
        /\ acked' = [f \in Fact |-> IF f \in Sets(r) THEN Unknown ELSE acked[f]]
        /\ barredBy' = [q \in Request |-> barredBy[q] \ Sets(r)]
    BY DEF Change, Save
  <1>2. ASSUME NEW q \in Request
        PROVE  /\ barredBy'[q] \subseteq barredBy[q]
               /\ \A f \in barredBy'[q] : acked'[f] = acked[f]
    BY <1>1 DEF TInv, TypeOK
  <1>3. \A q \in Request \ {r} : todo'[q] = todo[q] /\ answer'[q] = answer[q]
    BY <1>1 DEF TInv, TypeOK
  <1>4. Stays(r)'
    BY <1>2 DEF Stays
  <1>5. answer[r] # "new"
    BY DEF BInv
  <1>6. \A f \in Fact \cap Sets(holder') : acked'[f] = Unknown
    BY <1>1
  <1> QED
    BY <1>1, <1>2, <1>3, <1>4, <1>5, <1>6, MoveBars

\* A barred request gets as far as its change only if it is a login, whose
\* account is switched off: it is refused.
LEMMA BarredLogin ==
  ASSUME IInv, TInv, BInv, NEW r \in Request, At(r, "apply"), barredBy[r] # {}
  PROVE  Ask[r].op = "signin" /\ ~Enabled(mem, Ask[r].account)
  <1>1. Ask[r].op \in OpenOp
    BY BarredAt
  <1>2. PICK f \in barredBy[r] : TRUE
    OBVIOUS
  <1>3. f \in Fact /\ up
    BY <1>2 DEF TInv, TypeOK, At
  <1>4. f = <<"disabled", Ask[r].by>> /\ mem[f] = TRUE /\ Ask[r].op # "register"
    BY <1>1, <1>3, BarsAre DEF OpenOp, SyncOp, SpaceOp, TInv, TypeOK
  <1>5. Ask[r].account = Ask[r].by
    BY <1>1, RegistryAssumption
  <1> QED
    BY <1>1, <1>4, <1>5 DEF OpenOp, Enabled

LEMMA AppliesBars ==
  ASSUME IInv, TInv, BInv, NEW r \in Request, NEW op, NEW allowed, NEW new,
         Applies(r, op, allowed, new), op = "signin" => ~allowed \/ Enabled(mem, Ask[r].account)
  PROVE  BInv'
  <1>1. /\ At(r, "apply") /\ up /\ holder = Nobody /\ todo[r] # << >> /\ Ask[r].op = op
        /\ Refuse(r) \/ (allowed /\ Change(r, new))
    BY DEF Applies, At
  <1>2. Refuse(r) \/ (barredBy[r] = {} /\ Change(r, new))
    BY <1>1, BarredLogin
  <1> QED
    BY <1>1, <1>2, RefuseBars, ChangeBars

LEMMA ApplyBars ==
  ASSUME IInv, TInv, BInv, NEW r \in Request, Apply(r)
  PROVE  BInv'
  <1>1. CASE ToggleAccount(r) \/ AddSyncRecord(r)
    <2>1. /\ At(r, "apply") /\ up /\ holder = Nobody /\ todo[r] # << >>
          /\ Ask[r].op # "signin"
          /\ Refuse(r) \/ \E new : Change(r, new)
      BY <1>1 DEF ToggleAccount, AddSyncRecord, At
    <2>2. barredBy[r] = {}
      BY <2>1, BarredLogin
    <2> QED
      BY <2>1, <2>2, RefuseBars, ChangeBars
  <1>2. CASE IssueClientToken(r)
    <2> DEFINE allowed == Enabled(mem, Ask[r].account)
                            /\ mem[<<"password", Ask[r].account>>] = Ask[r].old
               device == SeenDevice(Ask[r].account, Ask[r].device, Ask[r].value)
               new == [f \in Sets(r) \cup DOMAIN device |->
                         IF f \in Sets(r) THEN Ask[r].account ELSE device[f]]
    <2>1. Applies(r, "signin", allowed, new) /\ (~allowed \/ Enabled(mem, Ask[r].account))
      BY <1>2 DEF IssueClientToken
    <2> HIDE DEF allowed, new
    <2> QED
      BY <2>1, AppliesBars
  <1>3. CASE ~(ToggleAccount(r) \/ AddSyncRecord(r) \/ IssueClientToken(r))
    <2>1. \E op, allowed, new : op # "signin" /\ Applies(r, op, allowed, new)
      <3>1. CASE CreateAccount(r)
        BY <3>1 DEF CreateAccount
      <3>2. CASE CreateSpace(r)
        BY <3>2 DEF CreateSpace
      <3>3. CASE ReportFolder(r)
        BY <3>3 DEF ReportFolder
      <3>4. CASE \/ ResetSyncToken(r) \/ ChangePassword(r) \/ SetSyncSettings(r)
                 \/ SetAccountSyncEnabled(r) \/ SetSpaceActive(r) \/ SetClientStorageRoot(r)
                 \/ MarkChildrenReported(r) \/ CommitFile(r)
        BY <3>4 DEF ResetSyncToken, ChangePassword, SetSyncSettings, SetAccountSyncEnabled,
          SetSpaceActive, SetClientStorageRoot, MarkChildrenReported, CommitFile
      <3> QED
        BY <1>3, <3>1, <3>2, <3>3, <3>4 DEF Apply
    <2> QED
      BY <2>1, AppliesBars
  <1> QED
    BY <1>1, <1>2, <1>3

LEMMA SaveBars ==
  ASSUME IInv, TInv, BInv, WriteMetadata \/ WriteControl \/ FailSave
  PROVE  BInv'
  <1>0. Nobody \notin Request
    BY RegistryAssumption
  <1>1. CASE WriteMetadata
    <2>1. UNCHANGED <<holder, strict, acked, answer, todo, barredBy>>
      BY <1>1 DEF WriteMetadata, handlers
    <2>2. ASSUME NEW q \in Request PROVE barredBy[q] \subseteq Excludes(q)'
      BY <2>1, BarsLast DEF BInv
    <2> QED
      BY <2>1, <2>2 DEF BInv, Stays, Waits
  <1>2. CASE WriteControl \/ FailSave
    <2>0. PICK r \in Request : holder = r
      BY <1>2 DEF WriteControl, FailSave
    <2>1. PICK ok \in BOOLEAN : Reply(r, ok)
      BY <1>2, <2>0 DEF WriteControl, FailSave
    <2>2. /\ holder' \notin Request /\ UNCHANGED <<strict, barredBy>>
          /\ \A f \in Fact : f \notin Sets(r) \/ ~strict => acked'[f] = acked[f]
      <3>1. holder' \notin Request /\ UNCHANGED <<strict, barredBy>>
        BY <1>0, <1>2 DEF WriteControl, FailSave
      <3>2. \/ acked' = acked
            \/ strict /\ acked' = [f \in Fact |-> IF f \in Sets(r) THEN mem[f] ELSE acked[f]]
        BY <1>2, <2>0 DEF WriteControl, FailSave
      <3> QED
        BY <3>1, <3>2
    <2>3. ASSUME NEW q \in Request, NEW f \in barredBy[q] PROVE acked'[f] = acked[f]
      <3>1. f \in Fact
        BY DEF TInv, TypeOK
      <3>2. acked[f] # Unknown
        BY BarsAre DEF TInv, TypeOK
      <3> QED
        BY <2>0, <2>2, <3>1, <3>2 DEF BInv
    <2>4. Stays(r)'
      <3>1. CASE barredBy[r] = {}
        BY <2>2, <3>1 DEF Stays
      <3>2. CASE barredBy[r] # {}
        <4>1. ~strict /\ Waits(r)
          BY <2>0, <3>2 DEF BInv, Stays
        <4>2. todo[r] = << >> => answer[r] # "open"
          <5>1. Steps(Ask[r].op) # << >>
            BY FirstSteps
          <5>2. <<"enter", "touch", "again", "apply">> # << >>
            OBVIOUS
          <5> QED
            BY <4>1, <5>1, <5>2 DEF Waits
        <4>3. todo' = todo /\ answer' = answer
          BY <2>1, <4>1, <4>2 DEF Reply, TInv, TypeOK
        <4> QED
          BY <2>2, <4>1, <4>3 DEF Stays, Waits
      <3> QED
        BY <3>1, <3>2
    <2>5. answer'[r] # "new"
      <3>1. answer[r] # "new"
        BY <2>0 DEF BInv
      <3> QED
        BY <2>1, <3>1 DEF Reply, TInv, TypeOK
    <2>6. \A q \in Request \ {r} : todo'[q] = todo[q] /\ answer'[q] = answer[q]
      BY <2>1 DEF Reply, TInv, TypeOK
    <2>7. ASSUME NEW q \in Request
          PROVE  /\ barredBy'[q] \subseteq barredBy[q]
                 /\ \A f \in barredBy'[q] : acked'[f] = acked[f]
      BY <2>2, <2>3
    <2> QED
      BY <2>2, <2>4, <2>5, <2>6, <2>7, MoveBars
  <1> QED
    BY <1>1, <1>2

LEMMA StartBars ==
  ASSUME TInv, BInv, Start \/ Listen \/ Crash \/ FailStart
  PROVE  BInv'
  <1>0. Nobody \notin Request /\ Startup \notin Request
    BY RegistryAssumption
  <1>1. CASE Start \/ Listen
    <2>1. holder' \in {Startup, Nobody} /\ UNCHANGED <<acked, answer, todo, barredBy>>
      BY <1>1 DEF Start, Listen, handlers
    <2>2. ASSUME NEW q \in Request PROVE barredBy[q] \subseteq Excludes(q)'
      BY <2>1, BarsLast DEF BInv
    <2> QED
      BY <1>0, <2>1, <2>2 DEF BInv, Stays, Waits
  <1>2. CASE Crash \/ FailStart
    <2>1. /\ holder' = Nobody /\ todo' = [r \in Request |-> << >>]
          /\ barredBy' = [r \in Request |-> {}]
      BY <1>2 DEF Crash, FailStart, Down
    <2> QED
      BY <1>0, <2>1 DEF BInv, Stays
  <1> QED
    BY <1>1, <1>2

LEMMA BarsInit == Init => BInv
  BY RegistryAssumption DEF Init, BInv, Stays

\* Inductive: the three invariants together.
LateInv == IInv /\ TInv /\ BInv

LEMMA LateStep == LateInv /\ [Next]_vars => LateInv'
  <1> SUFFICES ASSUME LateInv, [Next]_vars PROVE LateInv'
    OBVIOUS
  <1>1. IInv' /\ TInv'
    BY IInvStep, StepTyped DEF LateInv
  <1>2. CASE UNCHANGED vars
    <2>1. UNCHANGED <<holder, strict, acked, answer, todo, barredBy>>
      BY <1>2 DEF vars
    <2>2. ASSUME NEW q \in Request PROVE barredBy[q] \subseteq Excludes(q)'
      BY <2>1, BarsLast DEF LateInv, BInv
    <2>3. BInv'
      BY <2>1, <2>2 DEF LateInv, BInv, Stays, Waits
    <2> QED
      BY <1>1, <2>3 DEF LateInv
  <1>3. CASE Next
    <2>1. BInv'
      BY <1>3, ApplyBars, HandlerBars, SaveBars, StartBars DEF Next, LateInv
    <2> QED
      BY <1>1, <2>1 DEF LateInv
  <1> QED
    BY <1>2, <1>3

\* A request that comes after an account, its synchronisation or a space was
\* answered as switched off, while nobody asks for the opposite, is refused:
\* whatever saves fail, whoever crosses it and wherever the server crashes.
THEOREM LateComersFail == Spec => []LateIsRefused
  <1>1. ASSUME LateInv PROVE LateIsRefused
    <2>1. ASSUME NEW r \in Request, barredBy[r] # {}
          PROVE  answer[r] # "ok" /\ ~(holder = r /\ strict)
      BY <1>1, <2>1 DEF LateInv, BInv, Stays, Waits
    <2> QED
      BY <2>1 DEF LateIsRefused
  <1>2. Init => LateInv
    BY IInvInit, InitTyped, BarsInit DEF LateInv
  <1> QED
    BY <1>1, <1>2, LateStep, PTL DEF Spec
-----------------------------------------------------------------------------
(* No start finds what hangs in the air. *)

\* How far the handler of a request that puts something below an account or
\* a space has got, and what it knows by then.
Ready(r) ==
  /\ Ask[r].op = "newspace" =>
       \/ todo[r] \in {<< >>, <<"admit", "target", "apply">>}
       \/ todo[r] = <<"target", "apply">> /\ Exists(mem, Ask[r].by)
       \/ todo[r] = <<"apply">> /\ Exists(mem, Ask[r].account)
  /\ Ask[r].op = "folder" =>
       \/ todo[r] \in {<< >>, <<"auth", "apply">>}
       \/ todo[r] = <<"apply">> /\ Exists(mem, Ask[r].by)
  /\ Ask[r].op = "commit" =>
       \/ todo[r] \in {<< >>, <<"auth", "enter", "touch", "again", "apply">>,
                    <<"enter", "touch", "again", "apply">>}
       \/ /\ todo[r] \in {<<"touch", "again", "apply">>, <<"again", "apply">>, <<"apply">>}
          /\ mem[<<"space", Ask[r].by, Ask[r].space>>] # "none"

\* What the next copy of metadata.json would give a start.
NextLoaded == IF HasAccount(control) THEN Over(mem, control) ELSE mem

\* The two copies and the memory, while no save has failed: a start would
\* find no loose end, now or after the next write, and a server nobody keeps
\* busy has in memory what it has on disk.
Settled ==
  /\ Consistent(Loaded)
  /\ up \/ holder = Startup => Consistent(mem)
  /\ holder # Nobody /\ phase = "metadata" => Consistent(NextLoaded)
  /\ (up /\ holder = Nobody) \/ (holder # Nobody /\ phase = "control") =>
       \A f \in TreeFact : metadata.reg[f] = mem[f]
  /\ up /\ holder = Nobody => \A f \in ControlFact : control[f] = mem[f]

CInv ==
  /\ ~up => \A r \in Request : todo[r] = << >>
  /\ \A r \in Request : Ready(r)
  /\ failures = 0 => Settled

\* New facts whose account and space are known.
Fits(reg, new) ==
  \A f \in DOMAIN new :
    /\ f[1] = "name" => new[f] # NoName
    /\ f[1] = "space" => new[f] # "none" /\ Exists(Over(reg, new), f[2])
    /\ f[1] = "files" => reg[<<"space", f[2], f[3]>>] # "none"
    /\ f[1] = "folder" => Exists(reg, f[2])

\* New facts that take no name and no space away.
Keeps(new) ==
  \A f \in DOMAIN new :
    /\ f[1] = "name" => new[f] # NoName
    /\ f[1] = "space" => new[f] # "none"

\* Names and spaces that are known stay known.
Grown ==
  /\ \A a \in Account : Exists(mem, a) => Exists(mem', a)
  /\ \A a \in Account, s \in Space :
       mem[<<"space", a, s>>] # "none" => mem'[<<"space", a, s>>] # "none"

LEMMA FactsAre ==
  /\ \A a \in Account : <<"name", a>> \in ControlFact
  /\ \A a \in Account, s \in Space :
       <<"space", a, s>> \in ControlFact /\ <<"files", a, s>> \in TreeFact
  /\ \A a \in Account, e \in Device : <<"folder", a, e>> \in TreeFact
  /\ Fact = ControlFact \cup TreeFact
  /\ ControlFact \cap TreeFact = {}
  <1>1. \A a \in Account : <<"name", a>> \in ControlFact
    BY DEF ControlFact, OfAccount
  <1>2. \A a \in Account, s \in Space : <<"space", a, s>> \in ControlFact
    BY DEF ControlFact
  <1>3. /\ \A a \in Account, s \in Space : <<"files", a, s>> \in TreeFact
        /\ \A a \in Account, e \in Device : <<"folder", a, e>> \in TreeFact
    BY DEF TreeFact
  <1>4. \A f \in ControlFact : f[1] \notin {"files", "folder"}
    BY DEF ControlFact, OfAccount
  <1>5. \A f \in TreeFact : f[1] \in {"files", "folder"}
    BY DEF TreeFact
  <1> QED
    BY <1>1, <1>2, <1>3, <1>4, <1>5 DEF Fact

LEMMA SameConsistent ==
  ASSUME NEW reg, NEW other, Consistent(reg), \A f \in Fact : other[f] = reg[f]
  PROVE  Consistent(other)
  BY FactsAre DEF Consistent, Exists

\* The rest of a registry does not matter.
LEMMA ApartFits ==
  ASSUME NEW reg, NEW new, \A f \in DOMAIN new : f[1] \notin {"name", "space", "files", "folder"}
  PROVE  Fits(reg, new) /\ Keeps(new)
  BY DEF Fits, Keeps

LEMMA FitsConsistent ==
  ASSUME NEW reg, NEW new, Consistent(reg), Fits(reg, new)
  PROVE  Consistent(Over(reg, new))
  <1> DEFINE now == Over(reg, new)
  <1>1. \A f \in Fact : now[f] = IF f \in DOMAIN new THEN new[f] ELSE reg[f]
    BY DEF Over
  <1>2. ASSUME NEW a \in Account, Exists(reg, a) PROVE Exists(now, a)
    <2>1. <<"name", a>> \in Fact
      BY FactsAre
    <2>2. <<"name", a>>[1] = "name"
      OBVIOUS
    <2> QED
      BY <1>1, <1>2, <2>1, <2>2 DEF Exists, Fits
  <1>3. ASSUME NEW a \in Account, NEW s \in Space, now[<<"space", a, s>>] # "none"
        PROVE  Exists(now, a)
    <2> DEFINE f == <<"space", a, s>>
    <2>1. f \in Fact /\ f[1] = "space" /\ f[2] = a
      BY FactsAre
    <2>2. CASE f \in DOMAIN new
      BY <2>1, <2>2 DEF Fits
    <2>3. CASE f \notin DOMAIN new
      BY <1>1, <1>2, <1>3, <2>1, <2>3 DEF Consistent
    <2> QED
      BY <2>2, <2>3
  <1>4. ASSUME NEW a \in Account, NEW s \in Space, reg[<<"space", a, s>>] # "none"
        PROVE  now[<<"space", a, s>>] # "none"
    <2> DEFINE f == <<"space", a, s>>
    <2>1. f \in Fact /\ f[1] = "space"
      BY FactsAre
    <2> QED
      BY <1>1, <1>4, <2>1 DEF Fits
  <1>5. ASSUME NEW a \in Account, NEW s \in Space, now[<<"files", a, s>>]
        PROVE  reg[<<"space", a, s>>] # "none"
    <2> DEFINE f == <<"files", a, s>>
    <2>1. f \in Fact /\ f[1] = "files" /\ f[2] = a /\ f[3] = s
      BY FactsAre
    <2>2. CASE f \in DOMAIN new
      BY <2>1, <2>2 DEF Fits
    <2>3. CASE f \notin DOMAIN new
      BY <1>1, <1>5, <2>1, <2>3 DEF Consistent
    <2> QED
      BY <2>2, <2>3
  <1>6. ASSUME NEW a \in Account, NEW e \in Device, now[<<"folder", a, e>>] # "none"
        PROVE  Exists(reg, a)
    <2> DEFINE f == <<"folder", a, e>>
    <2>1. f \in Fact /\ f[1] = "folder" /\ f[2] = a
      BY FactsAre
    <2>2. CASE f \in DOMAIN new
      BY <2>1, <2>2 DEF Fits
    <2>3. CASE f \notin DOMAIN new
      BY <1>1, <1>6, <2>1, <2>3 DEF Consistent
    <2> QED
      BY <2>2, <2>3
  <1> QED
    BY <1>2, <1>3, <1>4, <1>5, <1>6 DEF Consistent

\* The tree of the new registry with the tables of the old one.
LEMMA FitsHalfWay ==
  ASSUME NEW reg, NEW new, Consistent(reg), Fits(reg, new), NEW half,
         \A f \in ControlFact : half[f] = reg[f],
         \A f \in TreeFact : half[f] = Over(reg, new)[f]
  PROVE  Consistent(half)
  <1>1. \A f \in TreeFact : half[f] = IF f \in DOMAIN new THEN new[f] ELSE reg[f]
    BY FactsAre DEF Over
  <1>2. \A a \in Account : Exists(half, a) <=> Exists(reg, a)
    BY FactsAre DEF Exists
  <1>3. \A a \in Account, s \in Space : half[<<"space", a, s>>] = reg[<<"space", a, s>>]
    BY FactsAre
  <1>4. ASSUME NEW a \in Account, NEW s \in Space, half[<<"files", a, s>>]
        PROVE  reg[<<"space", a, s>>] # "none"
    <2> DEFINE f == <<"files", a, s>>
    <2>1. f \in TreeFact /\ f[1] = "files" /\ f[2] = a /\ f[3] = s
      BY FactsAre
    <2>2. CASE f \in DOMAIN new
      BY <2>1, <2>2 DEF Fits
    <2>3. CASE f \notin DOMAIN new
      BY <1>1, <1>4, <2>1, <2>3 DEF Consistent
    <2> QED
      BY <2>2, <2>3
  <1>5. ASSUME NEW a \in Account, NEW e \in Device, half[<<"folder", a, e>>] # "none"
        PROVE  Exists(reg, a)
    <2> DEFINE f == <<"folder", a, e>>
    <2>1. f \in TreeFact /\ f[1] = "folder" /\ f[2] = a
      BY FactsAre
    <2>2. CASE f \in DOMAIN new
      BY <2>1, <2>2 DEF Fits
    <2>3. CASE f \notin DOMAIN new
      BY <1>1, <1>5, <2>1, <2>3 DEF Consistent
    <2> QED
      BY <2>2, <2>3
  <1> QED
    BY <1>2, <1>3, <1>4, <1>5 DEF Consistent

LEMMA KeepsGrown ==
  ASSUME NEW new, Keeps(new), \A f \in Fact : mem'[f] = Over(mem, new)[f]
  PROVE  Grown
  <1>1. \A f \in Fact : mem'[f] = IF f \in DOMAIN new THEN new[f] ELSE mem[f]
    BY DEF Over
  <1>2. ASSUME NEW a \in Account, Exists(mem, a) PROVE Exists(mem', a)
    <2>1. <<"name", a>> \in Fact /\ <<"name", a>>[1] = "name"
      BY FactsAre
    <2> QED
      BY <1>1, <1>2, <2>1 DEF Exists, Keeps
  <1>3. ASSUME NEW a \in Account, NEW s \in Space, mem[<<"space", a, s>>] # "none"
        PROVE  mem'[<<"space", a, s>>] # "none"
    <2> DEFINE f == <<"space", a, s>>
    <2>1. f \in Fact /\ f[1] = "space"
      BY FactsAre
    <2> QED
      BY <1>1, <1>3, <2>1 DEF Keeps
  <1> QED
    BY <1>2, <1>3 DEF Grown

\* A handler that takes the lock to save.
LEMMA TakesLock ==
  ASSUME TInv, Settled, up, holder = Nobody, holder' # Nobody, phase' = "metadata",
         UNCHANGED <<metadata, control>>, NEW new, Fits(mem, new),
         \A f \in Fact : mem'[f] = Over(mem, new)[f]
  PROVE  Settled'
  <1>1. Consistent(mem) /\ Consistent(Loaded)
    BY DEF Settled
  <1>2. Loaded' = Loaded
    BY DEF Loaded
  <1>3. Consistent(mem')
    BY <1>1, FitsConsistent, SameConsistent
  <1>4. Consistent(NextLoaded')
    <2>1. CASE HasAccount(control)
      <3>1. NextLoaded' = Over(mem', control)
        BY <2>1 DEF NextLoaded, HasAccount
      <3>2. DOMAIN control = ControlFact
        BY DEF TInv, TypeOK
      <3>3. \A f \in ControlFact : NextLoaded'[f] = mem[f]
        BY <3>1, <3>2, FactsAre DEF Over, Settled
      <3>4. \A f \in TreeFact : NextLoaded'[f] = Over(mem, new)[f]
        BY <3>1, <3>2, FactsAre DEF Over
      <3> QED
        BY <1>1, <3>3, <3>4, FitsHalfWay
    <2>2. CASE ~HasAccount(control)
      <3>1. NextLoaded' = mem'
        BY <2>2 DEF NextLoaded, HasAccount
      <3> QED
        BY <1>3, <3>1
    <2> QED
      BY <2>1, <2>2
  <1> QED
    BY <1>1, <1>2, <1>3, <1>4 DEF Settled

\* A step that leaves the registry alone.
LEMMA LeavesSettled ==
  ASSUME Settled, UNCHANGED <<up, mem, metadata, control, holder, phase>>
  PROVE  Settled'
  <1>1. Loaded' = Loaded /\ NextLoaded' = NextLoaded
    BY DEF Loaded, NextLoaded, HasAccount, Over
  <1> QED
    BY <1>1 DEF Settled

\* The steps of r's handler, as far as the other requests go.
LEMMA MoveReady ==
  ASSUME TInv, CInv, NEW r \in Request, Grown, up',
         NEW s, todo' = [todo EXCEPT ![r] = s], Ready(r)', failures' = 0 => Settled'
  PROVE  CInv'
  <1>1. ASSUME NEW q \in Request \ {r} PROVE Ready(q)'
    <2>1. Ready(q) /\ todo'[q] = todo[q]
      BY DEF CInv, TInv, TypeOK
    <2>2. /\ Ask[q].by \in Account /\ Ask[q].account \in Account /\ Ask[q].space \in Space
      BY RegistryAssumption
    <2> QED
      BY <2>1, <2>2 DEF Ready, Grown
  <1> QED
    BY <1>1 DEF CInv

\* What r knows after a step that lets it go on.
LEMMA GoesOnReady ==
  ASSUME TInv, CInv, NEW r \in Request, NEW step, At(r, step),
         todo' = [todo EXCEPT ![r] = Tail(todo[r])], Grown,
         step \in {"admit", "auth"} => Exists(mem, Ask[r].by),
         step = "target" =>
           Exists(mem, Ask[r].account) \/ (Ask[r].op = "newspace" /\ Ask[r].account = Ask[r].by),
         step \in {"enter", "again"} => mem[<<"space", Ask[r].by, Ask[r].space>>] # "none"
  PROVE  Ready(r)'
  <1>0. /\ Ask[r].by \in Account /\ Ask[r].account \in Account /\ Ask[r].space \in Space
        /\ todo'[r] = Tail(todo[r]) /\ todo[r] # << >> /\ Head(todo[r]) = step /\ Ready(r)
    BY RegistryAssumption DEF TInv, TypeOK, CInv, At
  <1>1. /\ Head(<<"admit", "target", "apply">>) = "admit"
        /\ Head(<<"target", "apply">>) = "target" /\ Head(<<"apply">>) = "apply"
        /\ Head(<<"auth", "apply">>) = "auth"
        /\ Head(<<"auth", "enter", "touch", "again", "apply">>) = "auth"
        /\ Head(<<"enter", "touch", "again", "apply">>) = "enter"
        /\ Head(<<"touch", "again", "apply">>) = "touch" /\ Head(<<"again", "apply">>) = "again"
    OBVIOUS
  <1>2. /\ Tail(<<"admit", "target", "apply">>) = <<"target", "apply">>
        /\ Tail(<<"target", "apply">>) = <<"apply">> /\ Tail(<<"apply">>) = << >>
        /\ Tail(<<"auth", "apply">>) = <<"apply">>
        /\ Tail(<<"again", "apply">>) = <<"apply">>
    OBVIOUS
  <1>3. /\ Tail(<<"auth", "enter", "touch", "again", "apply">>) = <<"enter", "touch", "again", "apply">>
        /\ Tail(<<"enter", "touch", "again", "apply">>) = <<"touch", "again", "apply">>
        /\ Tail(<<"touch", "again", "apply">>) = <<"again", "apply">>
    OBVIOUS
  <1>4. Ask[r].op = "newspace" =>
          \/ todo'[r] = << >>
          \/ todo'[r] = <<"target", "apply">> /\ Exists(mem, Ask[r].by)
          \/ todo'[r] = <<"apply">> /\ Exists(mem, Ask[r].account)
    BY <1>0, <1>1, <1>2 DEF Ready
  <1>5. Ask[r].op = "folder" =>
          todo'[r] = << >> \/ (todo'[r] = <<"apply">> /\ Exists(mem, Ask[r].by))
    BY <1>0, <1>1, <1>2 DEF Ready
  <1>6. Ask[r].op = "commit" =>
          \/ todo'[r] \in {<< >>, <<"enter", "touch", "again", "apply">>}
          \/ /\ todo'[r] \in {<<"touch", "again", "apply">>, <<"again", "apply">>, <<"apply">>}
             /\ mem[<<"space", Ask[r].by, Ask[r].space>>] # "none"
    BY <1>0, <1>1, <1>2, <1>3 DEF Ready
  <1> QED
    BY <1>0, <1>4, <1>5, <1>6 DEF Ready, Grown

\* The three ways on again: without a save, with one, and with an end.
LEMMA LooksReady ==
  ASSUME TInv, CInv, NEW r \in Request, up, Looks,
         NEW s, todo' = [todo EXCEPT ![r] = s], Ready(r)'
  PROVE  CInv'
  <1>1. UNCHANGED <<up, mem, metadata, control, holder, phase, failures>>
    BY DEF Looks, disk, saving, bounds
  <1>2. Grown
    BY <1>1 DEF Grown
  <1>3. failures' = 0 => Settled'
    BY <1>1, LeavesSettled DEF CInv
  <1> QED
    BY <1>1, <1>2, <1>3, MoveReady

LEMMA EndReady ==
  ASSUME TInv, NEW r \in Request, todo' = [todo EXCEPT ![r] = << >>]
  PROVE  Ready(r)'
  BY DEF TInv, TypeOK, Ready

LEMMA RefuseReady ==
  ASSUME TInv, CInv, NEW r \in Request, up, Refuse(r)
  PROVE  CInv'
  BY EndReady, LooksReady DEF Refuse

LEMMA SavesReady ==
  ASSUME TInv, CInv, NEW r \in Request, up, holder = Nobody, Save(r, strict'),
         UNCHANGED <<up, metadata, control, failures>>,
         NEW s, todo' = [todo EXCEPT ![r] = s], Grown => Ready(r)',
         NEW new, \A f \in Fact : mem'[f] = Over(mem, new)[f], Keeps(new),
         failures = 0 => Fits(mem, new)
  PROVE  CInv'
  <1>1. holder' # Nobody /\ phase' = "metadata"
    BY RegistryAssumption DEF Save
  <1>2. Grown
    BY KeepsGrown
  <1>3. failures' = 0 => Settled'
    BY <1>1, TakesLock DEF CInv
  <1> QED
    BY <1>2, <1>3, MoveReady

\* Nothing new.
LEMMA NothingNew ==
  /\ Fits(mem, << >>) /\ Keeps(<< >>)
  /\ \A f \in Fact : Over(mem, << >>)[f] = mem[f]
  <1>1. DOMAIN << >> = {}
    OBVIOUS
  <1>2. Fits(mem, << >>) /\ Keeps(<< >>)
    BY <1>1, ApartFits
  <1>3. \A f \in Fact : Over(mem, << >>)[f] = mem[f]
    BY <1>1 DEF Over
  <1> QED
    BY <1>2, <1>3

\* What a handler saves that touches a device only.
LEMMA SeenFits ==
  ASSUME NEW a, NEW d, NEW root
  PROVE  Fits(mem, SeenDevice(a, d, root)) /\ Keeps(SeenDevice(a, d, root))
  <1>1. DOMAIN SeenDevice(a, d, root) = {<<"device", a, d>>}
    BY DEF SeenDevice
  <1>2. <<"device", a, d>>[1] = "device"
    OBVIOUS
  <1> QED
    BY <1>1, <1>2, ApartFits

LEMMA HandlerReady ==
  ASSUME TInv, CInv, NEW r \in Request,
         \/ Receive(r) \/ Login(r) \/ Logout(r) \/ Admit(r) \/ FindTarget(r) \/ Authenticate(r)
         \/ Enter(r) \/ Touch(r) \/ LookAgain(r) \/ Status(r)
  PROVE  CInv'
  <1> DEFINE by == Ask[r].by
             there == <<"space", by, Ask[r].space>>
  <1>1. CASE Receive(r)
    <2>1. /\ UNCHANGED <<up, mem, metadata, control, holder, phase, failures>> /\ up
          /\ todo' = [todo EXCEPT ![r] = Steps(Ask[r].op)]
      BY <1>1 DEF Receive, disk, saving, bounds
    <2>2. /\ Steps("newspace") = <<"admit", "target", "apply">>
          /\ Steps("folder") = <<"auth", "apply">>
          /\ Steps("commit") = <<"auth", "enter", "touch", "again", "apply">>
      BY StepsAre
    <2>3. Ready(r)'
      BY <2>1, <2>2 DEF Ready, TInv, TypeOK
    <2>4. Grown
      BY <2>1 DEF Grown
    <2>5. failures' = 0 => Settled'
      BY <2>1, LeavesSettled DEF CInv
    <2> QED
      BY <2>1, <2>3, <2>4, <2>5, MoveReady
  <1>2. CASE Login(r) \/ Logout(r)
    <2>1. UNCHANGED <<up, mem, metadata, control, holder, phase, failures, todo>>
      BY <1>2 DEF Login, Logout, disk, saving, bounds, handlers
    <2>2. failures' = 0 => Settled'
      BY <2>1, LeavesSettled DEF CInv
    <2> QED
      BY <2>1, <2>2 DEF CInv, Ready
  <1>3. CASE Admit(r)
    <2>1. At(r, "admit") /\ up /\ (Refuse(r) \/ (Advance(r) /\ Looks /\ Enabled(mem, by)))
      BY <1>3 DEF Admit, At
    <2>2. CASE Advance(r) /\ Looks /\ Enabled(mem, by)
      <3>1. Grown /\ todo' = [todo EXCEPT ![r] = Tail(todo[r])]
        BY <2>2 DEF Looks, Grown, Advance
      <3>2. Ready(r)'
        BY <2>1, <2>2, <3>1, GoesOnReady DEF Enabled
      <3> QED
        BY <2>1, <2>2, <3>1, <3>2, LooksReady
    <2> QED
      BY <2>1, <2>2, RefuseReady
  <1>4. CASE FindTarget(r)
    <2> DEFINE found == Enabled(mem, Ask[r].account)
                          \/ (Ask[r].op = "newspace" /\ Ask[r].account = by)
    <2>1. At(r, "target") /\ up /\ (Refuse(r) \/ (Advance(r) /\ Looks /\ found))
      BY <1>4 DEF FindTarget, At
    <2>2. CASE Advance(r) /\ Looks /\ found
      <3>1. Grown /\ todo' = [todo EXCEPT ![r] = Tail(todo[r])]
        BY <2>2 DEF Looks, Grown, Advance
      <3>2. Ready(r)'
        BY <2>1, <2>2, <3>1, GoesOnReady DEF Enabled
      <3> QED
        BY <2>1, <2>2, <3>1, <3>2, LooksReady
    <2> QED
      BY <2>1, <2>2, RefuseReady
  <1>5. CASE Authenticate(r)
    <2> DEFINE refused == Ask[r].op \in SyncOp /\ ~mem[<<"sync", by>>]
    <2>1. /\ At(r, "auth") /\ up /\ holder = Nobody
          /\ \/ Refuse(r)
             \/ Advance(r) /\ Looks /\ Enabled(mem, by)
             \/ /\ Enabled(mem, by) /\ Save(r, FALSE)
                /\ todo' = [todo EXCEPT ![r] = IF refused THEN << >> ELSE Tail(todo[r])]
                /\ UNCHANGED <<up, mem, metadata, control, failures>>
      BY <1>5 DEF Authenticate, At, disk, bounds
    <2>2. CASE Advance(r) /\ Looks /\ Enabled(mem, by)
      <3>1. Grown /\ todo' = [todo EXCEPT ![r] = Tail(todo[r])]
        BY <2>2 DEF Looks, Grown, Advance
      <3>2. Ready(r)'
        BY <2>1, <2>2, <3>1, GoesOnReady DEF Enabled
      <3> QED
        BY <2>1, <2>2, <3>1, <3>2, LooksReady
    <2>3. CASE /\ Enabled(mem, by) /\ Save(r, FALSE)
               /\ todo' = [todo EXCEPT ![r] = IF refused THEN << >> ELSE Tail(todo[r])]
               /\ UNCHANGED <<up, mem, metadata, control, failures>>
      <3>1. /\ \A f \in Fact : mem'[f] = Over(mem, << >>)[f]
            /\ Fits(mem, << >>) /\ Keeps(<< >>) /\ Save(r, strict')
        BY <2>3, NothingNew DEF Save
      <3>2. Ready(r)'
        <4>1. CASE refused
          BY <2>3, <4>1, EndReady
        <4>2. CASE ~refused
          <5>1. Grown /\ todo' = [todo EXCEPT ![r] = Tail(todo[r])]
            BY <2>3, <4>2 DEF Grown
          <5> QED
            BY <2>1, <2>3, <5>1, GoesOnReady DEF Enabled
        <4> QED
          BY <4>1, <4>2
      <3> HIDE DEF refused
      <3> QED
        BY <2>1, <2>3, <3>1, <3>2, SavesReady
    <2> QED
      BY <2>1, <2>2, <2>3, RefuseReady
  <1>6. CASE Enter(r)
    <2>1. At(r, "enter") /\ up /\ (Refuse(r) \/ (Advance(r) /\ Looks /\ mem[there] = "on"))
      BY <1>6 DEF Enter, At
    <2>2. CASE Advance(r) /\ Looks /\ mem[there] = "on"
      <3>1. Grown /\ todo' = [todo EXCEPT ![r] = Tail(todo[r])]
        BY <2>2 DEF Looks, Grown, Advance
      <3>2. Ready(r)'
        BY <2>1, <2>2, <3>1, GoesOnReady
      <3> QED
        BY <2>1, <2>2, <3>1, <3>2, LooksReady
    <2> QED
      BY <2>1, <2>2, RefuseReady
  <1>7. CASE LookAgain(r)
    <2>1. At(r, "again") /\ up /\ (Refuse(r) \/ (Advance(r) /\ Looks /\ mem[there] = "on"))
      BY <1>7 DEF LookAgain, At
    <2>2. CASE Advance(r) /\ Looks /\ mem[there] = "on"
      <3>1. Grown /\ todo' = [todo EXCEPT ![r] = Tail(todo[r])]
        BY <2>2 DEF Looks, Grown, Advance
      <3>2. Ready(r)'
        BY <2>1, <2>2, <3>1, GoesOnReady
      <3> QED
        BY <2>1, <2>2, <3>1, <3>2, LooksReady
    <2> QED
      BY <2>1, <2>2, RefuseReady
  <1>8. CASE Status(r)
    <2>1. /\ At(r, "status") /\ up /\ holder = Nobody
          /\ Flush(r, << >>) \/ (Advance(r) /\ Looks)
      BY <1>8 DEF Status, At
    <2>2. CASE Advance(r) /\ Looks
      <3>1. Grown /\ todo' = [todo EXCEPT ![r] = Tail(todo[r])]
        BY <2>2 DEF Looks, Grown, Advance
      <3>2. Ready(r)'
        BY <2>1, <3>1, GoesOnReady
      <3> QED
        BY <2>1, <2>2, <3>1, <3>2, LooksReady
    <2>3. CASE Flush(r, << >>)
      <3>1. /\ mem' = Over(mem, << >>) /\ Save(r, strict')
            /\ todo' = [todo EXCEPT ![r] = Tail(todo[r])]
            /\ UNCHANGED <<up, metadata, control, failures>>
        BY <2>3 DEF Flush, Save, disk, bounds
      <3>2. Fits(mem, << >>) /\ Keeps(<< >>)
        BY NothingNew
      <3>3. Grown => Ready(r)'
        BY <2>1, <3>1, GoesOnReady
      <3> QED
        BY <2>1, <3>1, <3>2, <3>3, SavesReady
    <2> QED
      BY <2>1, <2>2, <2>3
  <1>9. CASE Touch(r)
    <2> DEFINE new == SeenDevice(by, Ask[r].device, NoRoot)
    <2>1. At(r, "touch") /\ up /\ holder = Nobody /\ Flush(r, new)
      BY <1>9 DEF Touch, At
    <2>2. /\ mem' = Over(mem, new) /\ Save(r, strict')
          /\ todo' = [todo EXCEPT ![r] = Tail(todo[r])]
          /\ UNCHANGED <<up, metadata, control, failures>>
      BY <2>1 DEF Flush, Save, disk, bounds
    <2>3. Fits(mem, new) /\ Keeps(new)
      BY SeenFits
    <2>4. Grown => Ready(r)'
      BY <2>1, <2>2, GoesOnReady
    <2> HIDE DEF new
    <2> QED
      BY <2>1, <2>2, <2>3, <2>4, SavesReady
  <1> QED
    BY <1>1, <1>2, <1>3, <1>4, <1>5, <1>6, <1>7, <1>8, <1>9

\* The change a request asks for.
LEMMA ChangeReady ==
  ASSUME TInv, CInv, NEW r \in Request, At(r, "apply"),
         NEW new, Change(r, new), Keeps(new), failures = 0 => Fits(mem, new)
  PROVE  CInv'
  <1>1. /\ mem' = Over(mem, new) /\ Save(r, strict') /\ up /\ holder = Nobody
        /\ todo' = [todo EXCEPT ![r] = Tail(todo[r])]
        /\ UNCHANGED <<up, metadata, control, failures>>
    BY DEF Change, Save, disk, bounds, At
  <1>2. Grown => Ready(r)'
    BY <1>1, GoesOnReady
  <1> QED
    BY <1>1, <1>2, SavesReady

LEMMA AppliesReady ==
  ASSUME TInv, CInv, NEW r \in Request, NEW op, NEW allowed, NEW new,
         Applies(r, op, allowed, new),
         Ask[r].op = op /\ allowed => Keeps(new) /\ (failures = 0 => Fits(mem, new))
  PROVE  CInv'
  <1>1. /\ At(r, "apply") /\ up
        /\ Refuse(r) \/ (Ask[r].op = op /\ allowed /\ Change(r, new))
    BY DEF Applies, At
  <1> QED
    BY <1>1, RefuseReady, ChangeReady

\* A request for a fact that nothing hangs on.
LEMMA ApartReady ==
  ASSUME TInv, CInv, NEW r \in Request, NEW op, NEW allowed, NEW new,
         Applies(r, op, allowed, new),
         Ask[r].op = op => \A f \in DOMAIN new : f[1] \notin {"name", "space", "files", "folder"}
  PROVE  CInv'
  <1>1. Ask[r].op = op => Keeps(new) /\ Fits(mem, new)
    BY ApartFits
  <1> QED
    BY <1>1, AppliesReady

LEMMA NewAccountFits ==
  ASSUME NEW reg, NEW a \in Account, NEW name \in Name, NEW admin, NEW password, NEW token
  PROVE  /\ Fits(reg, NewAccount(a, name, admin, password, token))
         /\ Keeps(NewAccount(a, name, admin, password, token))
  <1> DEFINE new == NewAccount(a, name, admin, password, token)
  <1>1. DOMAIN new = (OfAccount \X {a}) \cup {<<"space", a, Default>>}
    BY DEF NewAccount
  <1>2. new[<<"name", a>>] = name /\ new[<<"space", a, Default>>] = "on"
    BY DEF NewAccount, OfAccount
  <1> HIDE DEF new
  <1>3. \A f \in DOMAIN new :
          /\ f[1] \notin {"files", "folder"}
          /\ f[1] = "name" => f = <<"name", a>>
          /\ f[1] = "space" => f = <<"space", a, Default>>
    BY <1>1 DEF OfAccount
  <1>4. <<"name", a>> \in Fact /\ <<"name", a>> \in DOMAIN new
    BY <1>1, FactsAre DEF OfAccount
  <1>5. Exists(Over(reg, new), a)
    BY <1>2, <1>4, RegistryAssumption DEF Exists, Over
  <1>6. <<"space", a, Default>>[2] = a
    OBVIOUS
  <1>7. Keeps(new)
    BY <1>2, <1>3, RegistryAssumption DEF Keeps
  <1>8. Fits(reg, new)
    BY <1>2, <1>3, <1>5, <1>6, RegistryAssumption DEF Fits
  <1> QED
    BY <1>7, <1>8 DEF new

LEMMA ApplyReady ==
  ASSUME TInv, CInv, NEW r \in Request, Apply(r)
  PROVE  CInv'
  <1> DEFINE a == Ask[r].account
             there == <<"space", a, Ask[r].space>>
             folder == <<"folder", a, Ask[r].device>>
  <1>0. /\ a \in Account /\ Ask[r].by \in Account /\ Ask[r].space \in Space
        /\ Ask[r].device \in Device
        /\ Ask[r].op \in {"create", "register"} => Ask[r].value \in Name
        /\ Ask[r].op \in {"folder", "commit"} => a = Ask[r].by
    BY RegistryAssumption DEF ClientOp, SyncOp, SpaceOp
  <1>1. CASE CreateAccount(r)
    <2>1. PICK op \in {"create", "register"} :
            Applies(r, op, \A b \in Account : mem[<<"name", b>>] # Ask[r].value,
              NewAccount(a, Ask[r].value, op = "create" /\ Ask[r].on, Ask[r].old, r))
      BY <1>1 DEF CreateAccount
    <2> DEFINE new == NewAccount(a, Ask[r].value, op = "create" /\ Ask[r].on, Ask[r].old, r)
    <2>2. Ask[r].op = op => Keeps(new) /\ Fits(mem, new)
      BY <1>0, NewAccountFits
    <2> HIDE DEF new
    <2>3. Applies(r, op, \A b \in Account : mem[<<"name", b>>] # Ask[r].value, new)
      BY <2>1 DEF new
    <2> QED
      BY <2>2, <2>3, AppliesReady
  <1>2. CASE ToggleAccount(r)
    <2> DEFINE new == [f \in {<<"disabled", a>>} |-> Ask[r].on]
    <2>1. At(r, "apply") /\ up /\ (Refuse(r) \/ Change(r, new))
      BY <1>2 DEF ToggleAccount, At
    <2>2. \A f \in DOMAIN new : f[1] \notin {"name", "space", "files", "folder"}
      OBVIOUS
    <2>3. Keeps(new) /\ Fits(mem, new)
      BY <2>2, ApartFits
    <2> HIDE DEF new
    <2> QED
      BY <2>1, <2>3, RefuseReady, ChangeReady
  <1>3. CASE ResetSyncToken(r)
    <2>1. Ask[r].op = "reset" => \A f \in Sets(r) : f[1] = "token"
      BY SetsAre
    <2> QED
      BY <1>3, <2>1, ApartReady DEF ResetSyncToken
  <1>4. CASE ChangePassword(r)
    <2>1. Ask[r].op = "password" => \A f \in Sets(r) : f[1] = "password"
      BY SetsAre
    <2> QED
      BY <1>4, <2>1, ApartReady DEF ChangePassword
  <1>5. CASE SetSyncSettings(r)
    <2>1. Ask[r].op = "settings" => \A f \in Sets(r) : f[1] = "settings"
      BY SetsAre
    <2> QED
      BY <1>5, <2>1, ApartReady DEF SetSyncSettings
  <1>6. CASE SetAccountSyncEnabled(r)
    <2>1. Ask[r].op = "sync" => \A f \in Sets(r) : f[1] = "sync"
      BY SetsAre
    <2> QED
      BY <1>6, <2>1, ApartReady DEF SetAccountSyncEnabled
  <1>7. CASE CreateSpace(r)
    <2> DEFINE new == [f \in Sets(r) |-> "on"]
    <2>1. Applies(r, "newspace", TRUE, new)
      BY <1>7 DEF CreateSpace
    <2>2. ASSUME Ask[r].op = "newspace" PROVE Keeps(new) /\ Fits(mem, new)
      <3>1. DOMAIN new = {there} /\ new[there] = "on" /\ there[1] = "space" /\ there[2] = a
        BY <2>2, SetsAre
      <3>2. Exists(mem, a)
        <4>1. /\ todo[r] # << >> /\ Head(todo[r]) = "apply" /\ Ready(r)
          BY <2>1 DEF Applies, At, CInv
        <4>2. /\ Head(<<"admit", "target", "apply">>) = "admit"
              /\ Head(<<"target", "apply">>) = "target"
          OBVIOUS
        <4> QED
          BY <2>2, <4>1, <4>2 DEF Ready
      <3> HIDE DEF new
      <3>3. Exists(Over(mem, new), a)
        <4>1. <<"name", a>> \in Fact /\ <<"name", a>> # there
          BY <1>0, FactsAre
        <4> QED
          BY <3>1, <3>2, <4>1 DEF Over, Exists
      <3>4. Keeps(new)
        BY <3>1 DEF Keeps
      <3>5. Fits(mem, new)
        BY <3>1, <3>3 DEF Fits
      <3> QED
        BY <3>4, <3>5
    <2> HIDE DEF new
    <2> QED
      BY <2>1, <2>2, AppliesReady
  <1>8. CASE SetSpaceActive(r)
    <2> DEFINE new == [f \in Sets(r) |-> IF Ask[r].on THEN "on" ELSE "off"]
               allowed == mem[there] # "none"
    <2>1. Applies(r, "space", allowed, new)
      BY <1>8 DEF SetSpaceActive
    <2>2. ASSUME Ask[r].op = "space", allowed
          PROVE  Keeps(new) /\ (failures = 0 => Fits(mem, new))
      <3>1. DOMAIN new = {there} /\ new[there] # "none" /\ there[1] = "space" /\ there[2] = a
        BY <2>2, SetsAre
      <3>2. failures = 0 => Exists(mem, a)
        BY <1>0, <2>1, <2>2 DEF CInv, Settled, Consistent, Applies, At
      <3> HIDE DEF new
      <3>3. failures = 0 => Exists(Over(mem, new), a)
        <4>1. <<"name", a>> \in Fact /\ <<"name", a>> # there
          BY <1>0, FactsAre
        <4> QED
          BY <3>1, <3>2, <4>1 DEF Over, Exists
      <3>4. Keeps(new)
        BY <3>1 DEF Keeps
      <3>5. failures = 0 => Fits(mem, new)
        BY <3>1, <3>3 DEF Fits
      <3> QED
        BY <3>4, <3>5
    <2> HIDE DEF new, allowed
    <2> QED
      BY <2>1, <2>2, AppliesReady
  <1>9. CASE SetClientStorageRoot(r)
    <2>1. Ask[r].op = "root" => \A f \in Sets(r) : f[1] = "device"
      BY SetsAre
    <2> QED
      BY <1>9, <2>1, ApartReady DEF SetClientStorageRoot
  <1>10. CASE IssueClientToken(r)
    <2> DEFINE device == SeenDevice(a, Ask[r].device, Ask[r].value)
               new == [f \in Sets(r) \cup DOMAIN device |->
                         IF f \in Sets(r) THEN a ELSE device[f]]
    <2>1. \A f \in DOMAIN device : f[1] = "device"
      BY DEF SeenDevice
    <2>2. Ask[r].op = "signin" => \A f \in Sets(r) : f[1] = "client"
      BY SetsAre
    <2>3. Ask[r].op = "signin" =>
            \A f \in DOMAIN new : f[1] \notin {"name", "space", "files", "folder"}
      BY <2>1, <2>2
    <2> QED
      BY <1>10, <2>3, ApartReady DEF IssueClientToken
  <1>11. CASE ReportFolder(r)
    <2> DEFINE device == SeenDevice(a, Ask[r].device, Ask[r].value)
               new == [f \in Sets(r) \cup DOMAIN device |->
                         IF f \notin Sets(r) THEN device[f]
                         ELSE IF mem[f] = "none" THEN "pending" ELSE mem[f]]
    <2>1. Applies(r, "folder", TRUE, new)
      BY <1>11 DEF ReportFolder
    <2>2. ASSUME Ask[r].op = "folder" PROVE Keeps(new) /\ Fits(mem, new)
      <3>1. \A f \in DOMAIN device : f[1] = "device"
        BY DEF SeenDevice
      <3>2. \A f \in DOMAIN new : f[1] = "device" \/ (f[1] = "folder" /\ f[2] = a)
        BY <2>2, <3>1, SetsAre
      <3>3. Exists(mem, a)
        <4>1. /\ todo[r] # << >> /\ Head(todo[r]) = "apply" /\ Ready(r)
          BY <2>1 DEF Applies, At, CInv
        <4>2. Head(<<"auth", "apply">>) = "auth"
          OBVIOUS
        <4> QED
          BY <1>0, <2>2, <4>1, <4>2 DEF Ready
      <3> HIDE DEF new
      <3> QED
        BY <3>2, <3>3 DEF Keeps, Fits
    <2> HIDE DEF new
    <2> QED
      BY <2>1, <2>2, AppliesReady
  <1>12. CASE MarkChildrenReported(r)
    <2> DEFINE new == [f \in Sets(r) |-> "reported"]
               allowed == mem[folder] # "none"
    <2>1. Applies(r, "children", allowed, new)
      BY <1>12 DEF MarkChildrenReported
    <2>2. ASSUME Ask[r].op = "children", allowed
          PROVE  Keeps(new) /\ (failures = 0 => Fits(mem, new))
      <3>1. \A f \in DOMAIN new : f[1] = "folder" /\ f[2] = a
        BY <2>2, SetsAre
      <3>2. failures = 0 => Exists(mem, a)
        BY <1>0, <2>1, <2>2 DEF CInv, Settled, Consistent, Applies, At
      <3> HIDE DEF new
      <3> QED
        BY <3>1, <3>2 DEF Keeps, Fits
    <2> HIDE DEF new, allowed
    <2> QED
      BY <2>1, <2>2, AppliesReady
  <1>13. CASE CommitFile(r)
    <2> DEFINE new == [f \in Sets(r) |-> TRUE]
    <2>1. Applies(r, "commit", TRUE, new)
      BY <1>13, Zenon DEF CommitFile
    <2>2. ASSUME Ask[r].op = "commit" PROVE Keeps(new) /\ Fits(mem, new)
      <3>1. \A f \in DOMAIN new : f = <<"files", a, Ask[r].space>>
        BY <2>2, SetsAre
      <3>2. mem[there] # "none"
        <4>1. /\ todo[r] # << >> /\ Head(todo[r]) = "apply" /\ Ready(r)
          BY <2>1 DEF Applies, At, CInv
        <4>2. /\ Head(<<"auth", "enter", "touch", "again", "apply">>) = "auth"
              /\ Head(<<"enter", "touch", "again", "apply">>) = "enter"
              /\ Head(<<"touch", "again", "apply">>) = "touch"
          OBVIOUS
        <4> QED
          BY <1>0, <2>2, <4>1, <4>2 DEF Ready
      <3> HIDE DEF new
      <3> QED
        BY <3>1, <3>2 DEF Keeps, Fits
    <2> HIDE DEF new
    <2> QED
      BY <2>1, <2>2, AppliesReady
  <1>14. CASE AddSyncRecord(r)
    <2>1. At(r, "apply") /\ Change(r, << >>)
      BY <1>14 DEF AddSyncRecord
    <2>2. Keeps(<< >>) /\ Fits(mem, << >>)
      BY NothingNew
    <2> QED
      BY <2>1, <2>2, ChangeReady
  <1> QED
    BY <1>1, <1>2, <1>3, <1>4, <1>5, <1>6, <1>7, <1>8, <1>9, <1>10, <1>11, <1>12, <1>13, <1>14
    DEF Apply

LEMMA SaveReady ==
  ASSUME IInv, TInv, CInv, WriteMetadata \/ WriteControl \/ FailSave
  PROVE  CInv'
  <1>1. CASE WriteMetadata
    <2>1. /\ UNCHANGED <<up, mem, control, holder, todo, failures>> /\ phase' = "control"
          /\ holder # Nobody /\ phase = "metadata" /\ metadata'.reg = mem
      BY <1>1 DEF WriteMetadata, handlers, bounds
    <2>2. ASSUME Settled PROVE Settled'
      <3>1. Loaded' = NextLoaded
        BY <2>1 DEF Loaded, NextLoaded, HasAccount, Over
      <3> QED
        BY <2>1, <2>2, <3>1 DEF Settled
    <2> QED
      BY <2>1, <2>2 DEF CInv, Ready
  <1>2. CASE WriteControl \/ FailSave
    <2>0. PICK r \in Request : holder = r
      BY <1>2 DEF WriteControl, FailSave
    <2>1. up /\ UNCHANGED <<up, mem, metadata>> /\ holder' = Nobody
      BY <1>2, <2>0 DEF WriteControl, FailSave, IInv, SaveUnderWay, disk
    <2>2. todo' = todo \/ todo' = [todo EXCEPT ![r] = << >>]
      BY <1>2, <2>0 DEF WriteControl, FailSave, Reply
    <2>3. ASSUME NEW q \in Request PROVE Ready(q)'
      <3>1. Ready(q) /\ (todo'[q] = todo[q] \/ todo'[q] = << >>)
        BY <2>2 DEF CInv, TInv, TypeOK
      <3> QED
        BY <2>1, <3>1 DEF Ready
    <2>4. ASSUME failures' = 0, Settled PROVE Settled'
      <3>1. /\ phase = "control" /\ control' = [f \in ControlFact |-> mem[f]]
        <4>1. FailSave => failures' # 0
          BY DEF FailSave, TInv, TypeOK
        <4> QED
          BY <1>2, <2>4, <4>1 DEF WriteControl
      <3>2. metadata.reg = mem /\ HasAccount(mem) /\ Consistent(mem)
        BY <2>0, <2>1, <2>4, <3>1 DEF IInv, InMemory, SaveUnderWay, Settled
      <3>3. HasAccount(control')
        BY <3>1, <3>2, FactsAre DEF HasAccount
      <3>4. Loaded' = Over(mem, control')
        BY <2>1, <3>2, <3>3 DEF Loaded, HasAccount
      <3>5. \A f \in Fact : Loaded'[f] = mem[f]
        BY <3>1, <3>4 DEF Over
      <3>6. Consistent(Loaded')
        BY <3>2, <3>5, SameConsistent
      <3> QED
        BY <2>1, <3>1, <3>2, <3>6 DEF Settled
    <2>5. failures' = 0 => failures = 0
      <3>1. failures' \in {failures, failures + 1}
        BY <1>2 DEF WriteControl, FailSave, bounds
      <3>2. failures \in Nat
        BY RegistryAssumption DEF TInv, TypeOK
      <3> QED
        BY <3>1, <3>2
    <2> QED
      BY <2>1, <2>3, <2>4, <2>5 DEF CInv
  <1> QED
    BY <1>1, <1>2

\* The memory a start begins with.
LEMMA StartConsistent ==
  ASSUME TInv, Consistent(Loaded), Start
  PROVE  Consistent(mem')
  <1>1. IsRegistry(Loaded)
    BY LoadedTyped DEF TInv, TypeOK
  <1>2. CASE \A a \in Account : ~Exists(Loaded, a)
    <2> DEFINE new == NewAccount(Admin, AdminName, TRUE, AdminPassword, NoToken)
    <2>1. mem' = Over(Loaded, new)
      BY <1>2 DEF Start
    <2>2. Fits(Loaded, new)
      BY NewAccountFits, RegistryAssumption
    <2> HIDE DEF new
    <2> QED
      BY <2>1, <2>2, FitsConsistent
  <1>3. CASE ~\A a \in Account : ~Exists(Loaded, a)
    <2>1. PICK first \in Account :
            /\ Exists(Loaded, first)
            /\ LET f == <<"space", first, Default>>
                   reg == FoldersSeen(Loaded)
               IN  mem' = IF reg[f] = "none" THEN [reg EXCEPT ![f] = "on"] ELSE reg
      BY <1>3 DEF Start
    <2> DEFINE missing == {f \in {"device"} \X Account \X Device :
                             Loaded[f] = NoDevice /\ Loaded[<<"folder", f[2], f[3]>>] # "none"}
               new == [f \in missing |-> NoRoot]
               reg == FoldersSeen(Loaded)
               space == <<"space", first, Default>>
    <2>2. reg = Over(Loaded, new)
      BY DEF FoldersSeen
    <2>3. \A f \in DOMAIN new : f[1] = "device"
      OBVIOUS
    <2>4. Consistent(reg)
      <3> HIDE DEF new, reg
      <3>1. Fits(Loaded, new)
        BY <2>3, ApartFits
      <3> QED
        BY <2>2, <3>1, FitsConsistent
    <2>5. Exists(reg, first)
      <3>1. <<"name", first>> \in Fact /\ <<"name", first>>[1] = "name"
        BY FactsAre
      <3> QED
        BY <2>1, <2>2, <2>3, <3>1 DEF Over, Exists
    <2>6. space \in Fact /\ DOMAIN reg = Fact
      BY <2>2, FactsAre, RegistryAssumption DEF Over
    <2> HIDE DEF new, missing, reg
    <2>7. CASE mem' = reg
      BY <2>4, <2>7
    <2>8. CASE mem' = [reg EXCEPT ![space] = "on"]
      <3>1. \A f \in Fact : f # space => mem'[f] = reg[f]
        BY <2>2, <2>6, <2>8 DEF Over
      <3>2. \A a \in Account : <<"name", a>> # space /\ <<"name", a>> \in Fact
        BY FactsAre
      <3>3. \A a \in Account : Exists(mem', a) <=> Exists(reg, a)
        BY <3>1, <3>2 DEF Exists
      <3>4. mem'[space] = "on"
        BY <2>2, <2>6, <2>8 DEF Over
      <3>5. ASSUME NEW a \in Account, NEW s \in Space
            PROVE  /\ mem'[<<"space", a, s>>] # "none" => Exists(mem', a)
                   /\ mem'[<<"files", a, s>>] => mem'[<<"space", a, s>>] # "none"
        <4>1. /\ <<"space", a, s>> \in Fact /\ <<"files", a, s>> \in Fact
              /\ <<"files", a, s>> # space
              /\ <<"space", a, s>> = space => a = first
          BY FactsAre
        <4>2. mem'[<<"files", a, s>>] = reg[<<"files", a, s>>]
          BY <3>1, <4>1
        <4>3. \/ <<"space", a, s>> = space
              \/ mem'[<<"space", a, s>>] = reg[<<"space", a, s>>]
          BY <3>1, <4>1
        <4> QED
          BY <2>4, <2>5, <3>3, <3>4, <4>1, <4>2, <4>3 DEF Consistent
      <3>6. ASSUME NEW a \in Account, NEW e \in Device, mem'[<<"folder", a, e>>] # "none"
            PROVE  Exists(mem', a)
        <4>1. <<"folder", a, e>> \in Fact /\ <<"folder", a, e>> # space
          BY FactsAre
        <4> QED
          BY <2>4, <3>1, <3>3, <3>6, <4>1 DEF Consistent
      <3> QED
        BY <3>5, <3>6 DEF Consistent
    <2> QED
      BY <2>1, <2>7, <2>8 DEF reg
  <1> QED
    BY <1>2, <1>3

\* What a start leaves of the tree is what it found.
LEMMA StartTree ==
  ASSUME TInv, Start, NEW f \in TreeFact
  PROVE  mem'[f] = metadata.reg[f]
  <1>1. f \in Fact /\ f \notin ControlFact /\ f[1] \in {"files", "folder"}
    BY FactsAre DEF TreeFact
  <1>2. Loaded[f] = metadata.reg[f]
    BY <1>1 DEF Loaded, Over, TInv, TypeOK
  <1>3. CASE \A a \in Account : ~Exists(Loaded, a)
    <2>1. mem' = Over(Loaded, NewAccount(Admin, AdminName, TRUE, AdminPassword, NoToken))
      BY <1>3 DEF Start
    <2>2. f \notin DOMAIN NewAccount(Admin, AdminName, TRUE, AdminPassword, NoToken)
      BY <1>1 DEF NewAccount, OfAccount
    <2> QED
      BY <1>1, <1>2, <2>1, <2>2 DEF Over
  <1>4. CASE ~\A a \in Account : ~Exists(Loaded, a)
    <2>1. PICK first \in Account :
            LET g == <<"space", first, Default>>
                reg == FoldersSeen(Loaded)
            IN  mem' = IF reg[g] = "none" THEN [reg EXCEPT ![g] = "on"] ELSE reg
      BY <1>4 DEF Start
    <2>2. FoldersSeen(Loaded)[f] = Loaded[f]
      BY <1>1 DEF FoldersSeen, Over
    <2>3. f # <<"space", first, Default>>
      BY <1>1
    <2>4. mem'[f] = FoldersSeen(Loaded)[f]
      BY <1>1, <2>1, <2>3 DEF FoldersSeen, Over
    <2> QED
      BY <1>2, <2>2, <2>4
  <1> QED
    BY <1>3, <1>4

LEMMA StartReady ==
  ASSUME IInv, TInv, CInv, Start \/ Listen \/ Crash \/ FailStart
  PROVE  CInv'
  <1>0. Startup # Nobody
    BY RegistryAssumption
  <1>1. CASE Start
    <2>1. /\ ~up /\ holder' = Startup /\ phase' \in {"metadata", "control"}
          /\ UNCHANGED <<up, metadata, control, todo, failures>>
      BY <1>1 DEF Start, disk, handlers, bounds
    <2>2. ASSUME Settled PROVE Settled'
      <3>1. Loaded' = Loaded /\ Consistent(Loaded) /\ Consistent(mem')
        BY <1>1, <2>1, <2>2, StartConsistent DEF Loaded, Settled
      <3>2. Consistent(NextLoaded')
        <4>1. CASE HasAccount(control)
          <5>1. NextLoaded' = Over(mem', control)
            BY <2>1, <4>1 DEF NextLoaded, HasAccount
          <5>2. \A f \in TreeFact : mem'[f] = metadata.reg[f]
            BY <1>1, StartTree
          <5>3. Loaded = Over(metadata.reg, control)
            BY <4>1 DEF Loaded, HasAccount
          <5>4. DOMAIN control = ControlFact
            BY DEF TInv, TypeOK
          <5>5. \A f \in Fact : NextLoaded'[f] = Loaded[f]
            BY <5>1, <5>2, <5>3, <5>4, FactsAre DEF Over
          <5> QED
            BY <3>1, <5>5, SameConsistent
        <4>2. CASE ~HasAccount(control)
          BY <2>1, <3>1, <4>2 DEF NextLoaded, HasAccount
        <4> QED
          BY <4>1, <4>2
      <3>3. \A f \in TreeFact : metadata'.reg[f] = mem'[f]
        BY <1>1, <2>1, StartTree
      <3> QED
        BY <2>1, <3>1, <3>2, <3>3 DEF Settled
    <2>3. \A q \in Request : todo'[q] = << >>
      BY <2>1 DEF CInv
    <2> QED
      BY <2>1, <2>2, <2>3 DEF CInv, Ready
  <1>2. CASE Listen
    <2>1. /\ holder = Startup /\ phase = "control" /\ control' = [f \in ControlFact |-> mem[f]]
          /\ holder' = Nobody /\ UNCHANGED <<mem, metadata, todo, failures>>
      BY <1>2 DEF Listen, handlers, bounds
    <2>2. ASSUME Settled PROVE Settled'
      <3>1. /\ HasAccount(mem) /\ Consistent(mem)
            /\ \A f \in TreeFact : metadata.reg[f] = mem[f]
        BY <1>0, <2>1, <2>2 DEF IInv, InMemory, Settled
      <3>2. HasAccount(control')
        BY <2>1, <3>1, FactsAre DEF HasAccount
      <3>3. Loaded' = Over(metadata.reg, control')
        BY <2>1, <3>2 DEF Loaded, HasAccount
      <3>4. \A f \in Fact : Loaded'[f] = mem[f]
        BY <2>1, <3>1, <3>3, FactsAre DEF Over
      <3>5. Consistent(Loaded')
        BY <3>1, <3>4, SameConsistent
      <3> QED
        BY <2>1, <3>1, <3>5 DEF Settled
    <2>3. \A q \in Request : todo'[q] = << >>
      BY <2>1 DEF CInv, IInv, SaveUnderWay
    <2>4. up'
      BY <1>2 DEF Listen
    <2> QED
      BY <2>1, <2>2, <2>3, <2>4 DEF CInv, Ready
  <1>3. CASE Crash \/ FailStart
    <2>1. /\ ~up' /\ holder' = Nobody /\ todo' = [r \in Request |-> << >>]
          /\ UNCHANGED <<metadata, control>>
          /\ failures' \in {failures, failures + 1} /\ failures \in Nat
      BY <1>3, RegistryAssumption DEF Crash, FailStart, Down, disk, TInv, TypeOK
    <2>2. ASSUME Settled PROVE Settled'
      <3>1. Loaded' = Loaded
        BY <2>1 DEF Loaded
      <3> QED
        BY <1>0, <2>1, <2>2, <3>1 DEF Settled
    <2> QED
      BY <2>1, <2>2 DEF CInv, Ready
  <1> QED
    BY <1>1, <1>2, <1>3

LEMMA ReadyInit == Init => CInv
  <1> SUFFICES ASSUME Init PROVE CInv
    OBVIOUS
  <1>1. PICK reg \in {Empty, Seed} :
          /\ metadata = [reg |-> reg, records |-> << >>]
          /\ control = [f \in ControlFact |-> reg[f]]
    BY DEF Init
  <1>2. Consistent(Empty)
    <2>1. \A a \in Account, s \in Space : Empty[<<"files", a, s>>] = FALSE
      BY FactsAre DEF Empty
    <2>2. \A a \in Account, s \in Space : Empty[<<"space", a, s>>] = "none"
      BY FactsAre DEF Empty
    <2>3. \A a \in Account, e \in Device : Empty[<<"folder", a, e>>] = "none"
      BY FactsAre DEF Empty
    <2> QED
      BY <2>1, <2>2, <2>3 DEF Consistent
  <1>3. Consistent(reg)
    BY <1>2, RegistryAssumption
  <1>4. \A f \in Fact : Loaded[f] = reg[f]
    BY <1>1 DEF Loaded, Over
  <1>5. Consistent(Loaded)
    BY <1>3, <1>4, SameConsistent
  <1>6. Settled
    BY <1>5, RegistryAssumption DEF Init, Settled
  <1> QED
    BY <1>6 DEF Init, CInv, Ready

LEMMA ReadyStep == IInv /\ TInv /\ CInv /\ [Next]_vars => CInv'
  <1> SUFFICES ASSUME IInv, TInv, CInv, [Next]_vars PROVE CInv'
    OBVIOUS
  <1>1. CASE UNCHANGED vars
    <2>1. UNCHANGED <<up, mem, metadata, control, holder, phase, failures, todo>>
      BY <1>1 DEF vars
    <2> QED
      BY <2>1, LeavesSettled DEF CInv, Ready
  <1>2. CASE Next
    BY <1>2, ApplyReady, HandlerReady, SaveReady, StartReady DEF Next
  <1> QED
    BY <1>1, <1>2

\* While no save has failed, whatever moment the server stops at, the two
\* copies a start reads together know the space of every file and the
\* account of every space and folder.
THEOREM StartsAreConsistent == Spec => []LoadedIsConsistent
  <1>1. CInv => LoadedIsConsistent
    BY DEF CInv, Settled, LoadedIsConsistent
  <1>2. Init => IInv /\ TInv /\ CInv
    BY IInvInit, InitTyped, ReadyInit
  <1>3. IInv /\ TInv /\ CInv /\ [Next]_vars => (IInv /\ TInv /\ CInv)'
    BY IInvStep, StepTyped, ReadyStep
  <1> QED
    BY <1>1, <1>2, <1>3, PTL DEF Spec
-----------------------------------------------------------------------------
(* The log of records keeps the newest ones of each account. *)

\* The places of a set of m, in their order.
Lists(e, m, kept) ==
  /\ m \in Nat /\ e \in [1..m -> kept]
  /\ \A p, q \in 1..m : p < q => e[p] < e[q]
  /\ \A i \in kept : \E p \in 1..m : e[p] = i

\* The elements of a log at them.
AtPlaces(log, e, m) == [p \in 1..m |-> log[e[p]]]

\* Which of them are in a set.
Within(e, m, some) == {p \in 1..m : e[p] \in some}

\* Up to the p-th place there are p.
LEMMA ListCounts ==
  ASSUME NEW kept \in SUBSET Nat, NEW e, NEW m, Lists(e, m, kept)
  PROVE  /\ Cardinality(kept) = m
         /\ \A p \in 1..m : Cardinality({j \in kept : j <= e[p]}) = p
  <1>1. /\ m \in Nat /\ e \in [1..m -> kept]
        /\ \A p, q \in 1..m : p < q => e[p] < e[q]
        /\ \A i \in kept : \E p \in 1..m : e[p] = i
    BY DEF Lists
  <1>2. \A p \in 1..m : e[p] \in kept /\ e[p] \in Nat
    BY <1>1
  <1>3. \A p, q \in 1..m : e[p] <= e[q] <=> p <= q
    <2> SUFFICES ASSUME NEW p \in 1..m, NEW q \in 1..m PROVE e[p] <= e[q] <=> p <= q
      OBVIOUS
    <2>1. p \in Nat /\ q \in Nat /\ e[p] \in Nat /\ e[q] \in Nat
      BY <1>1, <1>2
    <2>2. (p < q => e[p] < e[q]) /\ (q < p => e[q] < e[p])
      BY <1>1
    <2> QED
      BY <2>1, <2>2
  <1>4. ASSUME NEW n \in 0..m, NEW S, S = {i \in kept : \E p \in 1..n : e[p] = i}
        PROVE  Cardinality(S) = n
    <2> DEFINE g == [p \in 1..n |-> e[p]]
    <2>1. n \in Nat /\ \A p \in 1..n : p \in 1..m
      BY <1>1
    <2>2. g \in [1..n -> S]
      BY <1>2, <1>4, <2>1
    <2>3. \A p, q \in 1..n : g[p] = g[q] => p = q
      <3> SUFFICES ASSUME NEW p \in 1..n, NEW q \in 1..n, e[p] = e[q] PROVE p = q
        OBVIOUS
      <3>1. p <= q /\ q <= p
        BY <1>2, <1>3, <2>1
      <3> QED
        BY <3>1
    <2>4. \A i \in S : \E p \in 1..n : g[p] = i
      BY <1>4
    <2> HIDE DEF g
    <2>5. g \in Bijection(1..n, S)
      BY <2>2, <2>3, <2>4 DEF Bijection, Injection, Surjection, IsInjective
    <2> QED
      BY <2>1, <2>5, FS_CountingElements DEF ExistsBijection
  <1>5. Cardinality(kept) = m
    <2>1. kept = {i \in kept : \E p \in 1..m : e[p] = i}
      BY <1>1
    <2>2. m \in 0..m
      BY <1>1
    <2> QED
      BY <1>4, <2>1, <2>2
  <1>6. ASSUME NEW p \in 1..m PROVE Cardinality({j \in kept : j <= e[p]}) = p
    <2>1. p \in 0..m /\ \A q \in 1..p : q \in 1..m /\ q <= p
      BY <1>1
    <2>2. ASSUME NEW j \in kept PROVE j <= e[p] <=> \E q \in 1..p : e[q] = j
      <3>1. PICK q \in 1..m : e[q] = j
        BY <1>1
      <3>2. j <= e[p] <=> q <= p
        BY <1>3, <3>1
      <3>3. q <= p => q \in 1..p
        BY <1>1
      <3> QED
        BY <1>3, <2>1, <3>1, <3>2, <3>3
    <2>3. {j \in kept : j <= e[p]} = {i \in kept : \E q \in 1..p : e[q] = i}
      BY <2>2
    <2> QED
      BY <1>4, <2>1, <2>3
  <1> QED
    BY <1>5, <1>6

\* What is taken out of a log are the elements at the places, in their order.
LEMMA TakenIs ==
  ASSUME NEW kept \in SUBSET Nat, NEW e, NEW m, Lists(e, m, kept), NEW log
  PROVE  Taken(log, kept) = AtPlaces(log, e, m)
  <1> DEFINE Place(i) == Cardinality({j \in kept : j <= i})
  <1>1. Cardinality(kept) = m /\ \A p \in 1..m : Place(e[p]) = p
    BY ListCounts
  <1>2. /\ \A p \in 1..m : e[p] \in kept
        /\ \A i \in kept : \E p \in 1..m : e[p] = i
    BY DEF Lists
  <1>0. Taken(log, kept)
          = [n \in 1..Cardinality(kept) |-> log[CHOOSE i \in kept : Place(i) = n]]
    BY DEF Taken
  <1> HIDE DEF Place
  <1>3. ASSUME NEW p \in 1..m PROVE (CHOOSE i \in kept : Place(i) = p) = e[p]
    <2>1. \A i \in kept : Place(i) = p => i = e[p]
      BY <1>1, <1>2
    <2> QED
      BY <1>1, <1>2, <2>1
  <1> QED
    BY <1>0, <1>1, <1>3 DEF AtPlaces

\* Any set of places of a log has such an order.
LEMMA ListExists ==
  ASSUME NEW len \in Nat, NEW kept \in SUBSET (1..len)
  PROVE  \E e, m : Lists(e, m, kept)
  <1> DEFINE upTo(i) == {j \in kept : j <= i}
             Place(i) == Cardinality(upTo(i))
             m == Cardinality(kept)
             e == [p \in 1..m |-> CHOOSE i \in kept : Place(i) = p]
  <1>1. IsFiniteSet(kept) /\ m \in Nat
    <2>1. IsFiniteSet(1..len)
      BY FS_Interval
    <2> QED
      BY <2>1, FS_Subset, FS_CardinalityType
  <1>2. \A p \in 1..m : \E i \in kept : Place(i) = p
    BY PlaceExists
  <1>3. ASSUME NEW i \in kept PROVE IsFiniteSet(upTo(i)) /\ Place(i) \in 1..m
    <2>1. upTo(i) \subseteq kept /\ i \in upTo(i)
      OBVIOUS
    <2> HIDE DEF upTo
    <2>2. IsFiniteSet(upTo(i)) /\ Place(i) <= m
      BY <1>1, <2>1, FS_Subset
    <2>3. Place(i) \in Nat /\ Place(i) # 0
      BY <2>1, <2>2, FS_CardinalityType, FS_EmptySet
    <2> QED
      BY <1>1, <2>2, <2>3
  <1>11. \A i \in kept : i \in Nat /\ Place(i) \in Nat
    <2>1. \A i \in kept : i \in Nat
      OBVIOUS
    <2>2. \A i \in kept : Place(i) \in Nat
      <3>1. m \in Nat /\ \A i \in kept : Place(i) \in 1..m
        BY <1>1, <1>3
      <3> HIDE DEF Place, m
      <3> QED
        BY <3>1
    <2> QED
      BY <2>1, <2>2
  <1>4. ASSUME NEW i \in kept, NEW k \in kept, i < k PROVE Place(i) < Place(k)
    <2>0. i \in Nat /\ k \in Nat /\ \A j \in kept : j \in Nat
      OBVIOUS
    <2>3. ASSUME NEW j \in kept, j <= i PROVE j <= k
      BY <1>4, <2>0, <2>3
    <2>4. k <= k /\ ~(k <= i)
      BY <1>4, <2>0
    <2>1. upTo(i) \subseteq upTo(k) /\ k \in upTo(k) /\ k \notin upTo(i)
      BY <2>3, <2>4
    <2>2. IsFiniteSet(upTo(k)) /\ Place(i) \in Nat /\ Place(k) \in Nat
      BY <1>3
    <2> HIDE DEF upTo
    <2>5. Place(i) <= Place(k) /\ Place(i) # Place(k)
      BY <2>1, <2>2, FS_Subset
    <2> QED
      BY <2>2, <2>5
  <1> HIDE DEF Place, m
  <1>5. \A p \in 1..m : e[p] \in kept /\ Place(e[p]) = p
    BY <1>2
  <1>6. e \in [1..m -> kept]
    BY <1>5
  <1> HIDE DEF e
  <1>7. ASSUME NEW i \in kept, NEW k \in kept, Place(i) < Place(k) PROVE i < k
    <2>1. i \in Nat /\ k \in Nat /\ Place(i) \in Nat /\ Place(k) \in Nat
      BY <1>11
    <2>2. k < i => Place(k) < Place(i)
      BY <1>4
    <2>3. ~(k < i) /\ k # i
      BY <1>7, <2>1, <2>2
    <2> QED
      BY <2>1, <2>3
  <1>8. ASSUME NEW p \in 1..m, NEW q \in 1..m, p < q PROVE e[p] < e[q]
    <2>1. Place(e[p]) < Place(e[q]) /\ e[p] \in kept /\ e[q] \in kept
      BY <1>5, <1>8
    <2> QED
      BY <1>7, <2>1
  <1>9. ASSUME NEW i \in kept PROVE \E p \in 1..m : e[p] = i
    <2>1. e[Place(i)] \in kept /\ Place(e[Place(i)]) = Place(i) /\ Place(i) \in 1..m
      BY <1>3, <1>5
    <2>2. i \in Nat /\ e[Place(i)] \in Nat /\ Place(i) \in Nat
      BY <1>11, <2>1
    <2>3. ~(i < e[Place(i)]) /\ ~(e[Place(i)] < i)
      BY <1>4, <2>1, <2>2
    <2>4. e[Place(i)] = i
      BY <2>2, <2>3
    <2> QED
      BY <2>1, <2>4
  <1>10. Lists(e, m, kept)
    BY <1>1, <1>6, <1>8, <1>9 DEF Lists
  <1> QED
    BY <1>10

\* What is taken out of what was taken out.
LEMMA TakenTwice ==
  ASSUME NEW kept \in SUBSET Nat, NEW some \in SUBSET kept,
         NEW e, NEW m, Lists(e, m, kept), NEW log
  PROVE  Taken(Taken(log, kept), Within(e, m, some)) = Taken(log, some)
  <1> DEFINE T == [p \in 1..m |-> log[e[p]]]
             at == {p \in 1..m : e[p] \in some}
  <1>1. /\ m \in Nat /\ e \in [1..m -> kept]
        /\ \A p, q \in 1..m : p < q => e[p] < e[q]
        /\ \A i \in kept : \E p \in 1..m : e[p] = i
    BY DEF Lists
  <1>2. Taken(log, kept) = T
    <2>1. Taken(log, kept) = AtPlaces(log, e, m)
      BY TakenIs
    <2> QED
      BY <2>1 DEF AtPlaces
  <1>3. PICK g, n : Lists(g, n, at)
    BY <1>1, ListExists
  <1>4. /\ n \in Nat /\ g \in [1..n -> at]
        /\ \A p, q \in 1..n : p < q => g[p] < g[q]
        /\ \A i \in at : \E p \in 1..n : g[p] = i
    BY <1>3 DEF Lists
  <1>5. \A p \in 1..n : g[p] \in 1..m /\ e[g[p]] \in some
    BY <1>4
  <1> DEFINE h == [p \in 1..n |-> e[g[p]]]
  <1>6. Lists(h, n, some)
    <2>1. h \in [1..n -> some]
      BY <1>5
    <2>2. \A p, q \in 1..n : p < q => h[p] < h[q]
      BY <1>1, <1>4, <1>5
    <2>3. \A i \in some : \E p \in 1..n : h[p] = i
      <3> SUFFICES ASSUME NEW i \in some PROVE \E p \in 1..n : h[p] = i
        OBVIOUS
      <3>1. PICK q \in 1..m : e[q] = i
        BY <1>1
      <3>2. PICK p \in 1..n : g[p] = q
        BY <1>4, <3>1
      <3> QED
        BY <3>1, <3>2
    <2> HIDE DEF h
    <2> QED
      BY <1>4, <2>1, <2>2, <2>3 DEF Lists
  <1>7. Taken(T, at) = AtPlaces(T, g, n)
    <2>1. at \in SUBSET Nat
      OBVIOUS
    <2> HIDE DEF T, at
    <2> QED
      BY <1>3, <2>1, TakenIs
  <1>8. Taken(log, some) = AtPlaces(log, h, n)
    <2> HIDE DEF h
    <2>1. some \in SUBSET Nat
      OBVIOUS
    <2> QED
      BY <1>6, <2>1, TakenIs
  <1>9. \A p \in 1..n : T[g[p]] = log[h[p]]
    BY <1>5
  <1> HIDE DEF T, h
  <1> QED
    BY <1>2, <1>7, <1>8, <1>9 DEF AtPlaces, Within

\* What is taken from a place on.
LEMMA TakenFrom ==
  ASSUME NEW S, NEW log \in Seq(S), NEW first \in 0..Len(log)
  PROVE  Taken(log, (first + 1)..Len(log)) = SubSeq(log, first + 1, Len(log))
  <1> DEFINE m == Len(log) - first
             e == [p \in 1..m |-> first + p]
             kept == (first + 1)..Len(log)
  <1>1. Len(log) \in Nat /\ first \in Nat /\ m \in Nat
    OBVIOUS
  <1>2. Lists(e, m, kept)
    <2>1. e \in [1..m -> kept]
      BY <1>1
    <2>2. \A p, q \in 1..m : p < q => e[p] < e[q]
      BY <1>1
    <2>3. ASSUME NEW i \in kept PROVE \E p \in 1..m : e[p] = i
      <3>1. i - first \in 1..m /\ first + (i - first) = i
        BY <1>1
      <3> HIDE DEF m
      <3> QED
        BY <3>1
    <2> HIDE DEF e
    <2> QED
      BY <1>1, <2>1, <2>2, <2>3 DEF Lists
  <1>3. kept \in SUBSET Nat
    BY <1>1
  <1>4. Taken(log, kept) = AtPlaces(log, e, m)
    <2> HIDE DEF e, kept, m
    <2> QED
      BY <1>2, <1>3, TakenIs
  <1>5. SubSeq(log, first + 1, Len(log)) = [p \in 1..m |-> log[first + p]]
    <2>1. SubSeq(log, first + 1, Len(log))
            = [p \in 1..(1 + Len(log) - (first + 1)) |-> log[(first + 1) + p - 1]]
      BY <1>1 DEF SubSeq
    <2>2. 1 + Len(log) - (first + 1) = m
      BY <1>1
    <2>3. \A p \in 1..m : (first + 1) + p - 1 = first + p
      BY <1>1
    <2> HIDE DEF m
    <2> QED
      BY <2>1, <2>2, <2>3
  <1>6. \A p \in 1..m : e[p] = first + p
    OBVIOUS
  <1> HIDE DEF e, m
  <1> QED
    BY <1>4, <1>5, <1>6 DEF AtPlaces

\* The places of an account's records.
Mine(log, b) == {i \in 1..Len(log) : log[i][1] = b}

\* A log that grows by a record of another account, or by one of the same.
LEMMA OfGrown ==
  ASSUME NEW S, NEW log \in Seq(S), NEW new \in S, NEW b
  PROVE  /\ new[1] # b => OfRecords(Append(log, new), b) = OfRecords(log, b)
         /\ new[1] = b => OfRecords(Append(log, new), b) = Append(OfRecords(log, b), new)
  <1> DEFINE grown == Append(log, new)
             len == Len(log)
  <1>1. /\ len \in Nat /\ Len(grown) = len + 1 /\ grown[len + 1] = new
        /\ \A i \in 1..len : grown[i] = log[i] /\ i # len + 1
    OBVIOUS
  <1>2. 1..(len + 1) = (1..len) \cup {len + 1}
    BY <1>1
  <1>3. Mine(log, b) \in SUBSET (1..len) /\ Mine(log, b) \in SUBSET Nat
    BY DEF Mine
  <1>4. PICK e, m : Lists(e, m, Mine(log, b))
    BY <1>1, <1>3, ListExists
  <1>5. /\ m \in Nat /\ e \in [1..m -> Mine(log, b)]
        /\ \A p, q \in 1..m : p < q => e[p] < e[q]
        /\ \A i \in Mine(log, b) : \E p \in 1..m : e[p] = i
    BY <1>4 DEF Lists
  <1>6. OfRecords(log, b) = AtPlaces(log, e, m)
    BY <1>3, <1>4, TakenIs DEF OfRecords, Mine
  <1>7. OfRecords(grown, b) = Taken(grown, Mine(grown, b))
    BY DEF OfRecords, Mine
  <1>8. \A p \in 1..m : e[p] \in 1..len /\ grown[e[p]] = log[e[p]]
    BY <1>1, <1>3, <1>5
  <1> HIDE DEF grown, len
  <1>9. CASE new[1] # b
    <2>1. Mine(grown, b) = {i \in 1..len : log[i][1] = b}
      BY <1>1, <1>2, <1>9 DEF Mine
    <2>2. Mine(grown, b) = Mine(log, b)
      BY <2>1 DEF Mine, len
    <2>3. OfRecords(grown, b) = AtPlaces(grown, e, m)
      BY <1>3, <1>4, <1>7, <2>2, TakenIs
    <2> QED
      BY <1>6, <1>8, <1>9, <2>3 DEF grown, AtPlaces
  <1>10. CASE new[1] = b
    <2> DEFINE g == [p \in 1..(m + 1) |-> IF p = m + 1 THEN len + 1 ELSE e[p]]
    <2>1. Mine(grown, b) = {i \in 1..len : log[i][1] = b} \cup {len + 1}
      BY <1>1, <1>2, <1>10 DEF Mine
    <2>2. Mine(grown, b) = Mine(log, b) \cup {len + 1}
      BY <2>1 DEF Mine, len
    <2>3. \A p \in 1..(m + 1) : p # m + 1 => p \in 1..m
      BY <1>5
    <2>4. m + 1 \in 1..(m + 1) /\ \A p \in 1..m : p \in 1..(m + 1) /\ p # m + 1
      BY <1>5
    <2>5. g \in [1..(m + 1) -> Mine(grown, b)]
      <3>1. \A p \in 1..m : e[p] \in Mine(grown, b)
        BY <1>5, <2>2
      <3> QED
        BY <2>2, <2>3, <3>1
    <2>6. ASSUME NEW p \in 1..(m + 1), NEW q \in 1..(m + 1), p < q PROVE g[p] < g[q]
      <3>1. p \in 1..m /\ p # m + 1
        BY <1>5, <2>6
      <3>2. g[p] = e[p] /\ e[p] \in 1..len
        BY <1>8, <3>1
      <3>3. CASE q = m + 1
        <4>1. g[q] = len + 1
          BY <3>3
        <4> QED
          BY <1>1, <3>2, <4>1
      <3>4. CASE q # m + 1
        <4>1. q \in 1..m /\ g[q] = e[q]
          BY <2>3, <3>4
        <4> QED
          BY <1>5, <2>6, <3>1, <3>2, <4>1
      <3> QED
        BY <3>3, <3>4
    <2>7. ASSUME NEW i \in Mine(grown, b) PROVE \E p \in 1..(m + 1) : g[p] = i
      <3>1. CASE i = len + 1
        BY <2>4, <3>1
      <3>2. CASE i # len + 1
        <4>1. PICK p \in 1..m : e[p] = i
          BY <1>5, <2>2, <3>2
        <4> QED
          BY <2>4, <4>1
      <3> QED
        BY <3>1, <3>2
    <2>8. \A p \in 1..(m + 1) : grown[g[p]] = IF p = m + 1 THEN new ELSE log[e[p]]
      BY <1>1, <1>8, <2>3
    <2> HIDE DEF g
    <2>9. Lists(g, m + 1, Mine(grown, b))
      <3>1. m + 1 \in Nat
        BY <1>5
      <3> QED
        BY <2>5, <2>6, <2>7, <3>1 DEF Lists
    <2>10. Mine(grown, b) \in SUBSET Nat
      BY <1>1, <1>3, <2>2
    <2>11. OfRecords(grown, b) = AtPlaces(grown, g, m + 1)
      BY <1>7, <2>9, <2>10, TakenIs
    <2> DEFINE old == [p \in 1..m |-> log[e[p]]]
    <2>12. Append(old, new) = [p \in 1..(m + 1) |-> IF p = m + 1 THEN new ELSE log[e[p]]]
      <3>1. old \in Seq(S) /\ Len(old) = m
        <4>1. \A p \in 1..m : log[e[p]] \in S
          BY <1>8 DEF len
        <4>2. old \in [1..m -> S]
          BY <4>1
        <4> HIDE DEF old
        <4> QED
          BY <1>5, <4>2
      <3>2. \A p \in 1..m : old[p] = log[e[p]]
        OBVIOUS
      <3> HIDE DEF old
      <3>5. /\ Append(old, new) \in Seq(S) /\ Len(Append(old, new)) = m + 1
            /\ Append(old, new)[m + 1] = new
            /\ \A p \in 1..m : Append(old, new)[p] = old[p]
        BY <3>1, AppendProperties
      <3>3. Append(old, new) = [p \in 1..(m + 1) |-> IF p \in 1..m THEN old[p] ELSE new]
        <4>1. \A p \in 1..(m + 1) :
                Append(old, new)[p] = IF p \in 1..m THEN old[p] ELSE new
          BY <2>3, <3>5
        <4> DEFINE app == Append(old, new)
        <4> HIDE DEF app
        <4>2. app \in Seq(S) /\ Len(app) = m + 1
          BY <3>5 DEF app
        <4>3. app = [p \in 1..(m + 1) |-> app[p]]
          BY <4>2
        <4> QED
          BY <4>1, <4>3 DEF app
      <3>4. \A p \in 1..(m + 1) : p \in 1..m <=> p # m + 1
        BY <2>3, <2>4
      <3> QED
        BY <3>1, <3>2, <3>3, <3>4
    <2> QED
      BY <1>6, <1>10, <2>8, <2>11, <2>12 DEF grown, AtPlaces
  <1> QED
    BY <1>9, <1>10 DEF grown

\* What is left of an account's records is what is left at their places.
LEMMA OfTaken ==
  ASSUME NEW S, NEW log \in Seq(S), NEW kept \in SUBSET (1..Len(log)), NEW b
  PROVE  OfRecords(Taken(log, kept), b) = Taken(log, {i \in kept : log[i][1] = b})
  <1> DEFINE some == {i \in kept : log[i][1] = b}
             len == Len(log)
  <1>1. len \in Nat /\ kept \in SUBSET Nat /\ some \in SUBSET kept
    OBVIOUS
  <1>2. PICK e, m : Lists(e, m, kept)
    BY <1>1, ListExists
  <1>3. m \in Nat /\ e \in [1..m -> kept]
    BY <1>2 DEF Lists
  <1>4. Taken(log, kept) = AtPlaces(log, e, m)
    <2> HIDE DEF len, some
    <2> QED
      BY <1>1, <1>2, TakenIs
  <1>5. Len(AtPlaces(log, e, m)) = m
    BY <1>3 DEF AtPlaces
  <1>6. \A p \in 1..m : AtPlaces(log, e, m)[p][1] = b <=> e[p] \in some
    BY <1>3 DEF AtPlaces
  <1>7. OfRecords(Taken(log, kept), b) = Taken(Taken(log, kept), Within(e, m, some))
    <2> HIDE DEF some
    <2>1. {p \in 1..m : AtPlaces(log, e, m)[p][1] = b} = Within(e, m, some)
      BY <1>6 DEF Within
    <2> QED
      BY <1>4, <1>5, <2>1 DEF OfRecords
  <1>8. Taken(Taken(log, kept), Within(e, m, some)) = Taken(log, some)
    <2> HIDE DEF some, len
    <2> QED
      BY <1>1, <1>2, TakenTwice
  <1> QED
    BY <1>7, <1>8

\* How many records there are from the p-th of an account on.
LEMMA NewerFrom ==
  ASSUME NEW S, NEW log \in Seq(S), NEW a, NEW e, NEW m, Lists(e, m, Mine(log, a)),
         NEW p \in 1..m
  PROVE  Newer(log, a, e[p]) = m - p + 1
  <1> DEFINE len == Len(log)
             from == {j \in e[p]..len : log[j][1] = a}
             n == m - p + 1
             g == [q \in 1..n |-> e[p + q - 1]]
  <1>1. /\ m \in Nat /\ e \in [1..m -> Mine(log, a)]
        /\ \A q, k \in 1..m : q < k => e[q] < e[k]
        /\ \A i \in Mine(log, a) : \E q \in 1..m : e[q] = i
    BY DEF Lists
  <1>2. len \in Nat /\ n \in Nat /\ p \in Nat
    BY <1>1
  <1>3. \A q \in 1..m : e[q] \in 1..len /\ log[e[q]][1] = a /\ e[q] \in Nat
    <2>1. \A q \in 1..m : e[q] \in Mine(log, a)
      BY <1>1
    <2> QED
      BY <2>1 DEF Mine
  <1>4. \A q \in 1..n : p + q - 1 \in 1..m /\ (q # 1 => p < p + q - 1)
    BY <1>1, <1>2
  <1>5. ASSUME NEW q \in 1..n PROVE e[p + q - 1] \in from
    <2>1. p + q - 1 \in 1..m /\ (q # 1 => p < p + q - 1)
      BY <1>4
    <2>2. e[p] \in 1..len /\ e[p + q - 1] \in 1..len /\ log[e[p + q - 1]][1] = a
      BY <1>3, <2>1
    <2>3. q # 1 => e[p] < e[p + q - 1]
      BY <1>1, <2>1
    <2>4. q = 1 => e[p + q - 1] = e[p]
      <3>1. q = 1 => p + q - 1 = p
        BY <1>2
      <3> QED
        BY <3>1
    <2>5. e[p] <= e[p + q - 1] /\ e[p] \in Nat
      BY <1>2, <2>2, <2>3, <2>4
    <2> HIDE DEF n
    <2> QED
      BY <1>2, <2>2, <2>5
  <1>6. ASSUME NEW i \in from PROVE \E q \in 1..n : e[p + q - 1] = i
    <2>1. e[p] \in 1..len
      BY <1>3
    <2>2. i \in 1..len /\ log[i][1] = a /\ e[p] <= i
      BY <1>2, <2>1
    <2>3. PICK k \in 1..m : e[k] = i
      BY <1>1, <2>2 DEF Mine
    <2>4. ~(k < p)
      <3>1. k < p => e[k] < e[p]
        BY <1>1
      <3>2. e[k] \in Nat /\ e[p] \in Nat
        BY <1>3
      <3> QED
        BY <2>2, <2>3, <3>1, <3>2
    <2>5. k - p + 1 \in 1..n /\ p + (k - p + 1) - 1 = k
      BY <1>1, <1>2, <2>4
    <2> HIDE DEF n
    <2> QED
      BY <2>3, <2>5
  <1>7. \A q, k \in 1..n : q < k => e[p + q - 1] < e[p + k - 1]
    <2> SUFFICES ASSUME NEW q \in 1..n, NEW k \in 1..n, q < k
                 PROVE  e[p + q - 1] < e[p + k - 1]
      OBVIOUS
    <2>1. p + q - 1 < p + k - 1
      BY <1>2
    <2> QED
      BY <1>1, <1>4, <2>1
  <1> HIDE DEF n, from
  <1>8. g \in [1..n -> from]
    BY <1>5
  <1>9. \A q \in 1..n : g[q] = e[p + q - 1]
    OBVIOUS
  <1> HIDE DEF g
  <1>10. Lists(g, n, from)
    BY <1>2, <1>6, <1>7, <1>8, <1>9 DEF Lists
  <1>11. from \in SUBSET Nat
    <2>1. e[p] \in Nat
      BY <1>3
    <2> QED
      BY <1>2, <2>1 DEF from
  <1>12. Cardinality(from) = n
    BY <1>10, <1>11, ListCounts
  <1> QED
    BY <1>12 DEF Newer, n, from

\* What trimSyncRecordsLocked leaves of an account's records: all of another
\* account's, and the newest of the one it is called for.
LEMMA TrimLeaves ==
  ASSUME NEW S, NEW log \in Seq(S), NEW a, NEW b
  PROVE  LET all == OfRecords(log, b)
             first == IF Len(all) > MaxRecords /\ b = a THEN Len(all) - MaxRecords ELSE 0
         IN  OfRecords(TrimSyncRecords(log, a), b) = SubSeq(all, first + 1, Len(all))
  <1> DEFINE len == Len(log)
             all == OfRecords(log, b)
             first == IF Len(all) > MaxRecords /\ b = a THEN Len(all) - MaxRecords ELSE 0
             kept == {i \in 1..len : log[i][1] # a \/ Newer(log, a, i) <= MaxRecords}
             some == {i \in kept : log[i][1] = b}
  <1>1. len \in Nat /\ MaxRecords \in Nat
    BY RegistryAssumption
  <1>2. Mine(log, b) \in SUBSET (1..len) /\ Mine(log, b) \in SUBSET Nat
    BY DEF Mine
  <1>3. PICK e, m : Lists(e, m, Mine(log, b))
    BY <1>1, <1>2, ListExists
  <1>4. m \in Nat /\ e \in [1..m -> Mine(log, b)]
    BY <1>3 DEF Lists
  <1>5. all = AtPlaces(log, e, m) /\ all = Taken(log, Mine(log, b))
    <2>1. all = Taken(log, Mine(log, b))
      BY DEF OfRecords, Mine
    <2> HIDE DEF all
    <2> QED
      BY <1>2, <1>3, <2>1, TakenIs
  <1>6. all \in Seq(S) /\ Len(all) = m
    <2>1. \A p \in 1..m : e[p] \in 1..len
      BY <1>2, <1>4
    <2>2. AtPlaces(log, e, m) \in [1..m -> S]
      BY <2>1 DEF AtPlaces
    <2> HIDE DEF all
    <2> QED
      BY <1>4, <1>5, <2>2
  <1>7. first \in 0..m /\ first \in Nat
    <2> HIDE DEF all
    <2> QED
      BY <1>1, <1>4, <1>6
  <1>8. OfRecords(TrimSyncRecords(log, a), b) = Taken(log, some)
    <2>1. kept \in SUBSET (1..Len(log))
      OBVIOUS
    <2>2. TrimSyncRecords(log, a) = Taken(log, kept)
      BY DEF TrimSyncRecords
    <2> HIDE DEF kept
    <2> QED
      BY <2>1, <2>2, OfTaken
  <1>9. some \in SUBSET Mine(log, b)
    BY DEF Mine
  <1>10. ASSUME NEW p \in 1..m PROVE e[p] \in some <=> p \in (first + 1)..m
    <2>1. e[p] \in 1..len /\ log[e[p]][1] = b
      BY <1>4 DEF Mine
    <2>2. CASE b # a
      <3>1. first = 0
        BY <2>2
      <3>2. e[p] \in some
        BY <2>1, <2>2
      <3> HIDE DEF first, some
      <3> QED
        BY <1>4, <3>1, <3>2
    <2>3. CASE b = a
      <3>1. Newer(log, a, e[p]) = m - p + 1
        BY <1>3, <2>3, NewerFrom
      <3>2. e[p] \in some <=> m - p + 1 <= MaxRecords
        BY <2>1, <2>3, <3>1
      <3>3. first = IF m > MaxRecords THEN m - MaxRecords ELSE 0
        <4> HIDE DEF all
        <4> QED
          BY <1>6, <2>3
      <3> HIDE DEF first, some
      <3> QED
        BY <1>1, <1>4, <3>2, <3>3
    <2> QED
      BY <2>2, <2>3
  <1>11. Within(e, m, some) = (first + 1)..m
    <2>1. \A p \in (first + 1)..m : p \in 1..m
      <3> HIDE DEF first
      <3> QED
        BY <1>4, <1>7
    <2> HIDE DEF first, some
    <2> QED
      BY <1>10, <2>1 DEF Within
  <1> HIDE DEF first, some, all, len
  <1>12. Taken(log, some) = Taken(all, Within(e, m, some))
    BY <1>1, <1>2, <1>3, <1>5, <1>9, TakenTwice
  <1>13. Taken(all, (first + 1)..m) = SubSeq(all, first + 1, m)
    BY <1>6, <1>7, TakenFrom
  <1>14. OfRecords(TrimSyncRecords(log, a), b) = SubSeq(all, first + 1, Len(all))
    BY <1>6, <1>8, <1>11, <1>12, <1>13
  <1> QED
    BY <1>14 DEF first, all

\* A request that adds a record to the log takes out the oldest of its
\* account past the limit, and every other account keeps all of its own:
\* whatever the limit and however the accounts' records are mixed.
THEOREM AccountsKeepNewest == Spec => RecordsKeepNewest
  <1> DEFINE Old(a) == OfRecords(records, a)
             All(r, a) == IF a = Ask[r].account THEN Append(Old(a), <<a, r>>) ELSE Old(a)
             First(r, a) == IF Len(All(r, a)) > MaxRecords /\ a = Ask[r].account
                            THEN Len(All(r, a)) - MaxRecords ELSE 0
  <1>1. ASSUME TInv, NEW r \in Having("open"), AddSyncRecord(r), NEW a \in Account
        PROVE  OfRecords(records', a) = SubSeq(All(r, a), First(r, a) + 1, Len(All(r, a)))
    <2> DEFINE own == Ask[r].account
               new == <<own, r>>
               log == Append(records, new)
    <2>1. r \in Request /\ own \in Account
      BY RegistryAssumption DEF Having
    <2>2. records \in Seq(Account \X Request) /\ new \in Account \X Request /\ new[1] = own
      BY <1>1, <2>1 DEF TInv, TypeOK
    <2>3. records' = TrimSyncRecords(log, own)
      BY <1>1 DEF AddSyncRecord
    <2>4. log \in Seq(Account \X Request)
      BY <2>2
    <2> HIDE DEF own, new
    <2>5. OfRecords(log, a) = IF a = own THEN Append(Old(a), new) ELSE Old(a)
      BY <2>2, OfGrown
    <2> HIDE DEF log
    <2>6. OfRecords(log, a) = All(r, a)
      BY <2>5 DEF own, new
    <2> HIDE DEF All
    <2>7. OfRecords(records', a)
            = LET all == OfRecords(log, a)
                  first == IF Len(all) > MaxRecords /\ a = own THEN Len(all) - MaxRecords ELSE 0
              IN  SubSeq(all, first + 1, Len(all))
      BY <2>3, <2>4, TrimLeaves
    <2> QED
      BY <2>6, <2>7 DEF own
  <1>2. TInv => [\A r \in Having("open") : AddSyncRecord(r) =>
                   \A a \in Account :
                     LET old == OfRecords(records, a)
                         all == IF a = Ask[r].account THEN Append(old, <<a, r>>) ELSE old
                         first == IF Len(all) > MaxRecords /\ a = Ask[r].account
                                  THEN Len(all) - MaxRecords ELSE 0
                     IN  OfRecords(records', a) = SubSeq(all, first + 1, Len(all))]_vars
    BY <1>1, Zenon
  <1> QED
    BY <1>2, InitTyped, StepTyped, PTL DEF Spec, RecordsKeepNewest
=============================================================================
