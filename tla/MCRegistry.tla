----------------------------- MODULE MCRegistry -----------------------------
(***************************************************************************)
(* An instance of Registry for TLC: two administrators a1 and a2 with a    *)
(* token and a default space each, left by an earlier life of the server,  *)
(* and requests for every operation.                                       *)
(***************************************************************************)
EXTENDS Registry, TLC

CONSTANTS a1, a2, a3, d, x, y

\* A request of a1 about itself, its default space and d.
Own(op) == [op |-> op, by |-> a1, cred |-> Startup, account |-> a1, space |-> "default",
            device |-> d, value |-> NoRoot, old |-> "first", on |-> TRUE]

MCAsk == [
  off1     |-> [Own("toggle") EXCEPT !.by = a2],
  off2     |-> [Own("toggle") EXCEPT !.account = a2],
  self     |-> Own("toggle"),
  on2      |-> [Own("toggle") EXCEPT !.account = a2, !.on = FALSE],
  create   |-> [Own("create") EXCEPT !.account = a3, !.value = "third"],
  register |-> [Own("register") EXCEPT !.by = a3, !.account = a3, !.value = "third"],
  reset    |-> [Own("reset") EXCEPT !.by = a2],
  password |-> [Own("password") EXCEPT !.value = "second"],
  settings |-> [Own("settings") EXCEPT !.value = "slow"],
  newspace |-> [Own("newspace") EXCEPT !.by = a2, !.space = "docs"],
  close    |-> [Own("space") EXCEPT !.on = FALSE],
  reopen   |-> Own("space"),
  root     |-> [Own("root") EXCEPT !.value = y],
  signin   |-> [Own("signin") EXCEPT !.value = x],
  status   |-> [Own("status") EXCEPT !.cred = "signin"],
  still    |-> [Own("sync") EXCEPT !.on = FALSE],
  folder   |-> [Own("folder") EXCEPT !.value = x],
  children |-> Own("children"),
  commit   |-> Own("commit"),
  draft    |-> [Own("commit") EXCEPT !.space = "docs"],
  record1  |-> Own("record"),
  record2  |-> Own("record"),
  record3  |-> [Own("record") EXCEPT !.by = a2, !.account = a2]]

MCRequest == DOMAIN MCAsk

\* Three requests that touch the same facts.
MCBatch ==
  {{"off1", "off2", "self"}, {"off1", "on2", "reset"}, {"create", "register", "off2"},
   {"signin", "status", "root"}, {"signin", "folder", "root"}, {"folder", "children", "off2"},
   {"close", "reopen", "commit"}, {"newspace", "draft", "still"},
   {"password", "signin", "settings"}, {"record1", "record2", "record3"}}

\* The accounts' tokens are known to their owners: Startup stands for them.
MCSeed == Over(Empty, [f \in ({"name", "admin", "sync", "token"} \X {a1, a2})
                             \cup ({"space"} \X {a1, a2} \X {"default"}) |->
  CASE f[1] = "name"  -> IF f[2] = a1 THEN "root" ELSE "second"
    [] f[1] = "token" -> Startup
    [] f[1] = "space" -> "on"
    [] OTHER          -> TRUE])
=============================================================================
