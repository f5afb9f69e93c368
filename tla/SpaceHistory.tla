---------------------------- MODULE SpaceHistory ----------------------------
(***************************************************************************)
(* What the server promises of a sync space, without requests, retries,    *)
(* entries or events: a history of versions and the head of every path.    *)
(* A version is added only on top of the head it is based on, or as the    *)
(* first version of a new file where no file is; heads of deleted files    *)
(* may expire; a crash goes back to what was saved last, never further.    *)
(***************************************************************************)
EXTENDS FiniteSets

CONSTANTS Path, Vacant

VARIABLES
  cur,    \* [heads |-> Path -> version or Vacant, history |-> set of versions]
  saved   \* the same, as a crash would leave it

vars == <<cur, saved>>

Init ==
  /\ cur = [heads |-> [p \in Path |-> Vacant], history |-> {}]
  /\ saved = cur

\* A new file has a file_id of its own; an update has seen what it replaces.
Fits(s, v) ==
  /\ \A w \in s.history : w.id # v.id
  /\ IF s.heads[v.path] = Vacant
       THEN \A w \in s.history : w.fileID # v.fileID
       ELSE v.fileID = s.heads[v.path].fileID /\ v.base = s.heads[v.path].id

Added(s, v) ==
  [heads |-> [s.heads EXCEPT ![v.path] = v], history |-> s.history \cup {v}]

Deleted(s) == {p \in Path : s.heads[p] # Vacant /\ s.heads[p].state = "deleted"}

Expired(s, P) == [s EXCEPT !.heads = [p \in Path |-> IF p \in P THEN Vacant ELSE @[p]]]

New == cur'.history \ cur.history

\* At most two versions come at once: a parent directory and the entry in it.
Grow ==
  /\ \E P \in SUBSET Deleted(cur) :
       LET s == Expired(cur, P)
       IN  \/ cur' = s
           \/ \E v \in New : Fits(s, v) /\ cur' = Added(s, v)
           \/ \E v, w \in New : /\ Fits(s, v)
                                /\ Fits(Added(s, v), w)
                                /\ cur' = Added(Added(s, v), w)
  /\ saved' \in {saved, cur, cur'}

Crash == cur' = saved /\ UNCHANGED saved

Next == Grow \/ Crash

Spec == Init /\ [][Next]_vars
=============================================================================
