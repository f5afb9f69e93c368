--------------------------- MODULE StoreOpsProofs ---------------------------
(***************************************************************************)
(* What the store's calls do to a metadata value, for every value of the   *)
(* constants: the inductive invariant of one value and the lemmas that the *)
(* calls keep it.  StoreProofs lifts them to the state machine.            *)
(***************************************************************************)
EXTENDS StoreOps, SequenceTheorems, WellFoundedInduction, TLAPS

\* The log's numbers are the last ones up to lastSeq, without a gap.
Window(m) ==
  /\ Len(m.events) = IF m.lastSeq < MaxEvents THEN m.lastSeq ELSE MaxEvents
  /\ \A i \in 1..Len(m.events) : m.events[i].seq = m.lastSeq - Len(m.events) + i

\* Version numbers are below i, the numbers of files below f.
Below(m, i, f) ==
  /\ \A v \in m.versions : v.id < i /\ v.fileID < f
  /\ \A p \in Path : m.files[p] # NoEntry => m.files[p].fileID < f

\* No two versions have one number.
Numbered(m) == \A v, w \in m.versions : v.id = w.id => v = w

\* No two entries hold one file, and the head of an entry is the newest
\* version of its file; an entry without a head has no version.
Headed(m) ==
  /\ \A p, q \in Path :
       m.files[p] # NoEntry /\ m.files[q] # NoEntry /\ m.files[p].fileID = m.files[q].fileID
       => p = q
  /\ \A p \in Path : HasVersion(m.files[p]) =>
       /\ m.files[p].current \in m.versions
       /\ m.files[p].current.path = p
       /\ m.files[p].current.fileID = m.files[p].fileID
       /\ \A v \in m.versions : v.fileID = m.files[p].fileID => v.id <= m.files[p].current.id
  /\ \A p \in Path : m.files[p] # NoEntry /\ m.files[p].current = NoVersion =>
       \A v \in m.versions : v.fileID # m.files[p].fileID

\* Within one file every version is based on the one before it.
Chained(m) ==
  \A v, w \in m.versions :
    /\ v.fileID = w.fileID
    /\ w.id < v.id
    /\ ~\E u \in m.versions : u.fileID = v.fileID /\ w.id < u.id /\ u.id < v.id
    => v.base = w.id

\* An operation has made at most one version, and none before its reply is
\* recorded.
Once(m) ==
  /\ \A v, w \in m.versions : v.op = w.op /\ v.op # NoOp => v = w
  /\ \A v \in m.versions : v.op # NoOp => m.operations[v.op] # NoReply

\* The invariant of a metadata value.
Sound(m, i, f) ==
  /\ m \in Metadata /\ i \in Nat /\ f \in Nat
  /\ Window(m)
  /\ Below(m, i, f)
  /\ Numbered(m)
  /\ Headed(m)
  /\ Chained(m)

-----------------------------------------------------------------------------
(* Numbers. *)

\* A set of natural numbers has a least member.
LEMMA LeastExists ==
  ASSUME NEW T \in SUBSET Nat, T # {}
  PROVE  \E x \in T : \A y \in T : x <= y
<1> DEFINE R == OpToRel(<, Nat)
<1>1. IsWellFoundedOn(R, Nat)
  BY NatLessThanWellFounded
<1>2. \A x, y \in Nat : x < y => <<x, y>> \in R
  BY DEF OpToRel
<1> HIDE DEF R
<1>3. \E x \in T : \A y \in T : <<y, x>> \notin R
  BY <1>1, WFMin
<1>4. PICK x \in T : \A y \in T : <<y, x>> \notin R
  BY <1>3
<1>5. ASSUME NEW y \in T PROVE x <= y
  <2>1. x \in Nat /\ y \in Nat
    OBVIOUS
  <2>2. ~(y < x)
    BY <1>2, <1>4, <2>1
  <2> QED BY <2>1, <2>2
<1> QED BY <1>5

\* A bounded set of natural numbers has a greatest member.
LEMMA GreatestExists ==
  ASSUME NEW T \in SUBSET Nat, T # {}, NEW n \in Nat, \A x \in T : x < n
  PROVE  \E x \in T : \A y \in T : y <= x
<1> DEFINE U == {n - x : x \in T}
<1>1. U \in SUBSET Nat /\ U # {}
  <2>1. \A x \in T : n - x \in Nat
    OBVIOUS
  <2> QED BY <2>1
<1>2. PICK u \in U : \A y \in U : u <= y
  BY <1>1, LeastExists
<1>3. PICK x \in T : u = n - x
  BY <1>2
<1>4. ASSUME NEW y \in T PROVE y <= x
  <2>1. u <= n - y
    BY <1>2
  <2> QED BY <1>3, <2>1
<1> QED BY <1>4

-----------------------------------------------------------------------------
(* The log. *)

\* LastOf keeps the last k elements of a log, in order.
LEMMA LastOfKeeps ==
  ASSUME NEW S, NEW log \in Seq(S), NEW k \in Nat
  PROVE  /\ LastOf(log, k) \in Seq(S)
         /\ Len(LastOf(log, k)) = IF Len(log) > k THEN k ELSE Len(log)
         /\ \A i \in 1..Len(LastOf(log, k)) :
              LastOf(log, k)[i] = log[Len(log) - Len(LastOf(log, k)) + i]
<1>1. CASE Len(log) > k
  <2> DEFINE from == Len(log) - k + 1
  <2>1. from \in Int /\ Len(log) \in Int /\ \A i \in from..Len(log) : log[i] \in S
    BY <1>1
  <2>2. /\ SubSeq(log, from, Len(log)) \in Seq(S)
        /\ Len(SubSeq(log, from, Len(log))) = IF from <= Len(log) THEN Len(log) - from + 1 ELSE 0
        /\ \A i \in 1..(Len(log) - from + 1) : SubSeq(log, from, Len(log))[i] = log[from + i - 1]
    BY <2>1, SubSeqProperties
  <2> QED BY <1>1, <2>2 DEF LastOf
<1>2. CASE ~(Len(log) > k)
  BY <1>2 DEF LastOf
<1> QED BY <1>1, <1>2

\* appendEventLocked: the value keeps its type and its window, and nothing
\* but the log changes.
LEMMA AppendEventKeeps ==
  ASSUME NEW m \in Metadata, NEW v \in Version, Window(m)
  PROVE  /\ AppendEvent(m, v) \in Metadata
         /\ Window(AppendEvent(m, v))
         /\ AppendEvent(m, v).files = m.files
         /\ AppendEvent(m, v).versions = m.versions
         /\ AppendEvent(m, v).operations = m.operations
<1> DEFINE e == [seq |-> m.lastSeq + 1, version |-> v]
           log == Append(m.events, e)
           new == AppendEvent(m, v)
<1>1. /\ m.events \in Seq(Event) /\ m.lastSeq \in Nat /\ e \in Event
      /\ MaxEvents \in Nat \ {0}
  BY LimitAssumption DEF Metadata, Event
<1>2. /\ log \in Seq(Event) /\ Len(log) = Len(m.events) + 1
      /\ \A i \in 1..Len(m.events) : log[i] = m.events[i]
      /\ log[Len(m.events) + 1] = e
  BY <1>1
<1> HIDE DEF log
<1>3. /\ LastOf(log, MaxEvents) \in Seq(Event)
      /\ Len(LastOf(log, MaxEvents)) = IF Len(log) > MaxEvents THEN MaxEvents ELSE Len(log)
      /\ \A i \in 1..Len(LastOf(log, MaxEvents)) :
           LastOf(log, MaxEvents)[i] = log[Len(log) - Len(LastOf(log, MaxEvents)) + i]
  BY <1>1, <1>2, LastOfKeeps
<1> DEFINE tail == LastOf(log, MaxEvents)
<1>4. new = [m EXCEPT !.lastSeq = m.lastSeq + 1, !.events = tail]
  BY DEF AppendEvent, log
<1> HIDE DEF new, tail
<1>5. /\ new.events = tail /\ new.lastSeq = m.lastSeq + 1
      /\ new.files = m.files /\ new.versions = m.versions
      /\ new.operations = m.operations
  BY <1>4 DEF Metadata
<1>6. tail \in Seq(Event)
  BY <1>3 DEF tail
<1>7. new \in Metadata
  <2>1. m.lastSeq + 1 \in Nat
    BY <1>1
  <2>2. [m EXCEPT !.lastSeq = m.lastSeq + 1, !.events = tail] \in Metadata
    BY <1>6, <2>1 DEF Metadata
  <2> QED BY <1>4, <2>2
<1>8. Window(new)
  <2>1. Len(new.events) = IF new.lastSeq < MaxEvents THEN new.lastSeq ELSE MaxEvents
    BY <1>1, <1>2, <1>3, <1>5 DEF Window, tail
  <2>2. ASSUME NEW i \in 1..Len(new.events)
        PROVE  new.events[i].seq = new.lastSeq - Len(new.events) + i
    <3> DEFINE j == Len(log) - Len(new.events) + i
    <3>1. Len(new.events) \in Nat /\ Len(new.events) <= Len(log) /\ Len(log) \in Nat
      BY <1>1, <1>2, <1>3, <1>5 DEF tail
    <3>2. new.events[i] = log[j] /\ j \in 1..Len(log)
      BY <1>3, <1>5, <2>2, <3>1 DEF tail
    <3>3. CASE j = Len(m.events) + 1
      BY <1>1, <1>2, <1>5, <2>2, <3>1, <3>2, <3>3
    <3>4. CASE j \in 1..Len(m.events)
      <4>1. log[j].seq = m.lastSeq - Len(m.events) + j
        BY <1>2, <3>4 DEF Window
      <4>2. Len(new.events) \in Nat /\ i \in Int /\ Len(m.events) \in Nat
        BY <1>1, <2>2, <3>1
      <4> QED BY <1>1, <1>2, <1>5, <3>2, <4>1, <4>2
    <3>5. j = Len(m.events) + 1 \/ j \in 1..Len(m.events)
      <4>1. Len(m.events) \in Nat
        BY <1>1
      <4> HIDE DEF j
      <4> QED BY <1>2, <3>2, <4>1
    <3> QED BY <3>3, <3>4, <3>5
  <2> QED BY <2>1, <2>2 DEF Window
<1> QED BY <1>5, <1>7, <1>8 DEF new

\* The loop over the log: what it has taken up to every event.
IsTaken(loop, log, after) ==
  \A i \in 0..Len(log) :
    loop[i] = IF i = 0 THEN <<>>
              ELSE IF log[i].seq > after THEN Append(loop[i - 1], log[i])
              ELSE loop[i - 1]

LEMMA EventsLoop ==
  ASSUME NEW m, NEW S, m.events \in Seq(S), NEW after
  PROVE  \E loop : EventsAfter(m, after) = loop[Len(m.events)] /\ IsTaken(loop, m.events, after)
<1> DEFINE log == m.events
           n == Len(log)
           Step(f, i) == IF i = 0 THEN <<>>
                         ELSE IF log[i].seq > after THEN Append(f[i - 1], log[i])
                         ELSE f[i - 1]
           IsLoop(f, k) == f = [i \in 0..k |-> Step(f, i)]
           loop == CHOOSE f : f = [i \in 0..n |-> Step(f, i)]
<1>1. EventsAfter(m, after) = loop[n]
  BY DEF EventsAfter
<1>2. n \in Nat /\ \A i \in 1..n : log[i] \in S
  OBVIOUS
<1>3. \A f, g, k, i : i # 0 /\ f[i - 1] = g[i - 1] => Step(f, i) = Step(g, i)
  OBVIOUS
<1> DEFINE Bad == {k \in 0..n : ~\E f : IsLoop(f, k)}
<1>4. Bad = {}
  <2> SUFFICES ASSUME Bad # {} PROVE FALSE
    OBVIOUS
  <2>1. Bad \in SUBSET Nat
    OBVIOUS
  <2> HIDE DEF Bad
  <2>2. PICK k \in Bad : \A j \in Bad : k <= j
    BY <2>1, LeastExists
  <2> USE DEF Bad
  <2>3. k \in 0..n
    BY <2>2
  <2>4. CASE k = 0
    <3> DEFINE g == [i \in 0..0 |-> <<>>]
    <3>1. g = [i \in 0..0 |-> Step(g, i)]
      OBVIOUS
    <3> QED BY <2>2, <2>4, <3>1
  <2>5. CASE k # 0
    <3>1. k - 1 \in 0..n /\ k - 1 \in Nat /\ ~(k <= k - 1)
      BY <2>3, <2>5
    <3>2. PICK f : IsLoop(f, k - 1)
      BY <2>2, <3>1
    <3> DEFINE g == [i \in 0..k |-> IF i = k THEN Step(f, k) ELSE f[i]]
    <3>3. ASSUME NEW i \in 0..k PROVE g[i] = Step(g, i)
      <4>1. CASE i = 0
        BY <3>2, <3>1, <2>5, <4>1
      <4>2. CASE i # 0
        <5>1. i - 1 \in 0..(k - 1) /\ i - 1 # k /\ i - 1 \in 0..k
          BY <2>3, <4>2
        <5>2. g[i - 1] = f[i - 1]
          BY <5>1
        <5>3. Step(g, i) = Step(f, i)
          BY <1>3, <4>2, <5>2
        <5>4. CASE i = k
          BY <5>3, <5>4
        <5>5. CASE i # k
          <6>1. i \in 0..(k - 1)
            BY <2>3, <5>5
          <6>2. f[i] = Step(f, i)
            <7> HIDE DEF Step
            <7> QED BY <3>2, <6>1
          <6>3. g[i] = f[i]
            BY <5>5
          <6> QED BY <5>3, <6>2, <6>3
        <5> QED BY <5>4, <5>5
      <4> QED BY <4>1, <4>2
    <3>4. IsLoop(g, k)
      <4> HIDE DEF Step
      <4>1. g = [i \in 0..k |-> g[i]]
        OBVIOUS
      <4> HIDE DEF g
      <4> QED BY <3>3, <4>1
    <3> QED BY <2>2, <3>4
  <2> QED BY <2>4, <2>5
<1>5. \E f : IsLoop(f, n)
  <2> HIDE DEF Step
  <2>1. n \in 0..n
    BY <1>2
  <2> QED BY <1>4, <2>1
<1> HIDE DEF Bad
<1>6. IsLoop(loop, n)
  <2> HIDE DEF Step
  <2> QED BY <1>5
<1>7. ASSUME NEW i \in 0..n PROVE loop[i] = Step(loop, i)
  <2> HIDE DEF Step, loop
  <2> QED BY <1>6
<1>8. IsTaken(loop, log, after)
  <2> HIDE DEF loop
  <2> QED BY <1>7 DEF IsTaken
<1> HIDE DEF loop, log
<1> QED BY <1>1, <1>8 DEF log

\* EventsAfter takes some elements of the log: what it returns is a sequence of
\* whatever the log is a sequence of.
LEMMA EventsAfterTyped ==
  ASSUME NEW m, NEW S, m.events \in Seq(S), NEW after
  PROVE  EventsAfter(m, after) \in Seq(S)
<1> DEFINE log == m.events
           n == Len(log)
<1>1. PICK loop : EventsAfter(m, after) = loop[n] /\ IsTaken(loop, log, after)
  BY EventsLoop
<1>2. n \in Nat /\ \A i \in 1..n : log[i] \in S
  OBVIOUS
<1>7. ASSUME NEW i \in 0..n, i # 0
      PROVE  loop[i] = IF log[i].seq > after THEN Append(loop[i - 1], log[i]) ELSE loop[i - 1]
  BY <1>1, <1>7 DEF IsTaken
<1>9. loop[0] = <<>>
  BY <1>1, <1>2 DEF IsTaken
<1> DEFINE Wrong == {i \in 0..n : loop[i] \notin Seq(S)}
<1>8. Wrong = {}
  <2> SUFFICES ASSUME Wrong # {} PROVE FALSE
    OBVIOUS
  <2>1. Wrong \in SUBSET Nat
    OBVIOUS
  <2> HIDE DEF Wrong
  <2>2. PICK i \in Wrong : \A j \in Wrong : i <= j
    BY <2>1, LeastExists
  <2> USE DEF Wrong
  <2>3. i \in 0..n
    BY <2>2
  <2>5. i # 0
    <3>1. i = 0 => loop[i] = <<>>
      BY <1>9
    <3>2. <<>> \in Seq(S)
      OBVIOUS
    <3> QED BY <2>2, <3>1, <3>2
  <2>4. loop[i] = IF log[i].seq > after THEN Append(loop[i - 1], log[i]) ELSE loop[i - 1]
    BY <1>7, <2>3, <2>5
  <2>6. i - 1 \in 0..n /\ ~(i <= i - 1) /\ i \in 1..n
    BY <2>3, <2>5
  <2>7. loop[i - 1] \in Seq(S)
    BY <2>2, <2>6
  <2>8. log[i] \in S
    BY <1>2, <2>6
  <2>9. Append(loop[i - 1], log[i]) \in Seq(S)
    BY <2>7, <2>8
  <2> QED BY <2>2, <2>4, <2>5, <2>7, <2>9
<1> QED BY <1>1, <1>2, <1>8

\* A reader whom the log has not left behind gets what came since, all of it and
\* in order.
LEMMA EventsAfterTail ==
  ASSUME NEW m \in Metadata, Window(m),
         NEW after \in Nat, after <= m.lastSeq, m.lastSeq <= after + MaxEvents
  PROVE  LET taken == EventsAfter(m, after)
         IN  /\ Len(taken) = m.lastSeq - after
             /\ \A i \in 1..Len(taken) : taken[i] = m.events[Len(m.events) - Len(taken) + i]
<1> DEFINE log == m.events
           n == Len(log)
           k == m.lastSeq - after
           d == n - k
<1>1. log \in Seq(Event) /\ m.lastSeq \in Nat /\ MaxEvents \in Nat \ {0}
  BY LimitAssumption DEF Metadata
<1>2. n \in Nat /\ k \in Nat /\ d \in Nat /\ n = d + k
  <2>1. n = IF m.lastSeq < MaxEvents THEN m.lastSeq ELSE MaxEvents
    BY DEF Window
  <2> HIDE DEF n
  <2> QED BY <1>1, <2>1
<1>3. ASSUME NEW i \in 1..n
      PROVE  log[i] \in Event /\ (log[i].seq > after <=> i > d)
  <2>1. log[i] \in Event /\ log[i].seq = m.lastSeq - n + i
    BY <1>1, <1>3 DEF Window
  <2>2. i \in Nat
    BY <1>2
  <2> HIDE DEF n, log
  <2>3. \A l, a, x, j \in Nat : l - x + j > a <=> j > x - (l - a)
    OBVIOUS
  <2>4. m.lastSeq - n + i > after <=> i > n - (m.lastSeq - after)
    BY <1>1, <1>2, <2>2, <2>3
  <2> QED BY <2>1, <2>4
<1>4. PICK loop : EventsAfter(m, after) = loop[n] /\ IsTaken(loop, log, after)
  BY <1>1, EventsLoop
<1>5. /\ loop[0] = <<>>
      /\ \A i \in 1..n : loop[i] = IF i > d THEN Append(loop[i - 1], log[i]) ELSE loop[i - 1]
  BY <1>2, <1>3, <1>4 DEF IsTaken
<1> HIDE DEF log, n, k, d
<1> DEFINE Right(i) == /\ loop[i] \in Seq(Event)
                       /\ Len(loop[i]) = IF i > d THEN i - d ELSE 0
                       /\ \A j \in 1..Len(loop[i]) : loop[i][j] = log[d + j]
           Wrong == {i \in 0..n : ~Right(i)}
<1>6. Wrong = {}
  <2> SUFFICES ASSUME Wrong # {} PROVE FALSE
    OBVIOUS
  <2>1. Wrong \in SUBSET Nat
    OBVIOUS
  <2> HIDE DEF Wrong
  <2>2. PICK i \in Wrong : \A j \in Wrong : i <= j
    BY <2>1, LeastExists
  <2>3. i \in 0..n /\ ~Right(i) /\ \A j \in 0..n : ~Right(j) => j \in Wrong
    BY <2>2 DEF Wrong
  <2>4. i # 0
    <3>1. Right(0)
      BY <1>2, <1>5
    <3> QED BY <2>3, <3>1
  <2>5. i - 1 \in 0..n /\ ~(i <= i - 1) /\ i \in 1..n
    BY <1>2, <2>3, <2>4
  <2>6. Right(i - 1)
    BY <2>2, <2>3, <2>5
  <2>7. log[i] \in Event
    BY <1>3, <2>5 DEF log, n
  <2>8. CASE i > d
    <3> DEFINE old == loop[i - 1]
    <3>1. loop[i] = Append(old, log[i]) /\ old \in Seq(Event)
      BY <1>5, <2>5, <2>6, <2>8
    <3>6. Len(old) = (i - 1) - d
      <4>1. Len(old) = IF i - 1 > d THEN (i - 1) - d ELSE 0
        BY <2>6
      <4>2. i - 1 > d \/ i - 1 = d
        BY <1>2, <2>5, <2>8
      <4>3. i - 1 = d => (i - 1) - d = 0
        BY <1>2, <2>5
      <4> HIDE DEF old
      <4> QED BY <4>1, <4>2, <4>3
    <3>2. \A j \in 1..Len(old) : old[j] = log[d + j]
      BY <2>6
    <3> HIDE DEF old
    <3>3. /\ loop[i] \in Seq(Event) /\ Len(loop[i]) = Len(old) + 1
          /\ \A j \in 1..Len(old) : loop[i][j] = old[j]
          /\ loop[i][Len(old) + 1] = log[i]
      BY <2>7, <3>1
    <3>4. Len(loop[i]) = i - d /\ d + (Len(old) + 1) = i /\ Len(old) \in Nat
      BY <1>2, <2>5, <2>8, <3>1, <3>3, <3>6
    <3>5. ASSUME NEW j \in 1..Len(loop[i]) PROVE loop[i][j] = log[d + j]
      <4>1. CASE j = Len(old) + 1
        BY <3>3, <3>4, <4>1
      <4>2. CASE j # Len(old) + 1
        <5>1. j \in 1..Len(old)
          BY <3>3, <3>4, <4>2
        <5> QED BY <3>2, <3>3, <5>1
      <4> QED BY <4>1, <4>2
    <3> QED BY <2>3, <2>8, <3>3, <3>4, <3>5
  <2>9. CASE ~(i > d)
    <3>1. loop[i] = loop[i - 1] /\ ~(i - 1 > d)
      BY <1>2, <1>5, <2>5, <2>9
    <3> QED BY <2>3, <2>6, <2>9, <3>1
  <2> QED BY <2>8, <2>9
<1>7. Right(n)
  BY <1>2, <1>6
<1>8. Len(loop[n]) = k /\ n - k = d
  BY <1>2, <1>7
<1> QED BY <1>4, <1>7, <1>8 DEF log, n, k

-----------------------------------------------------------------------------
(* The installation of a version. *)

\* What Install leaves: v heads the entry at its path, is among the
\* versions, and the log is in order.
LEMMA InstallFields ==
  ASSUME NEW m \in Metadata, NEW v \in Version, Window(m)
  PROVE  /\ Install(m, v) \in Metadata
         /\ Window(Install(m, v))
         /\ Install(m, v).files = [m.files EXCEPT ![v.path] = [fileID |-> v.fileID, current |-> v]]
         /\ Install(m, v).versions = m.versions \cup {v}
         /\ Install(m, v).operations = m.operations
<1> DEFINE files == [m.files EXCEPT ![v.path] = [fileID |-> v.fileID, current |-> v]]
           versions == m.versions \cup {v}
           placed == [m EXCEPT !.files = files, !.versions = versions]
<1>1. m.files \in [Path -> Entry \cup {NoEntry}] /\ m.versions \subseteq Version
  BY DEF Metadata
<1>2. v.path \in Path /\ [fileID |-> v.fileID, current |-> v] \in Entry
  BY DEF Version, Entry
<1>3. files \in [Path -> Entry \cup {NoEntry}] /\ versions \subseteq Version
  BY <1>1, <1>2
<1>4. Install(m, v) = AppendEvent(placed, v)
  BY DEF Install
<1> HIDE DEF files, versions
<1>5. placed \in Metadata
  BY <1>3 DEF Metadata
<1>6. /\ placed.files = files /\ placed.versions = versions
      /\ placed.events = m.events /\ placed.lastSeq = m.lastSeq
      /\ placed.operations = m.operations
  BY DEF Metadata
<1> HIDE DEF placed
<1>7. Window(placed)
  BY <1>6 DEF Window
<1> QED BY <1>4, <1>5, <1>6, <1>7, AppendEventKeeps DEF files, versions

\* A version that is newer than every other keeps the invariant if it heads
\* an entry of its own file and is based on the version it replaces, or if
\* its file is new.
LEMMA InstallKeeps ==
  ASSUME NEW m, NEW i \in Nat, NEW f \in Nat, Sound(m, i, f),
         NEW v \in Version, i <= v.id,
         NEW j \in Nat, NEW g \in Nat, v.id < j, v.fileID < g, f <= g,
         \/ m.files[v.path] = NoEntry /\ f <= v.fileID
         \/ /\ m.files[v.path] # NoEntry
            /\ m.files[v.path].fileID = v.fileID
            /\ HasVersion(m.files[v.path]) => v.base = m.files[v.path].current.id
  PROVE  Sound(Install(m, v), j, g)
<1> DEFINE new == Install(m, v)
           put == [fileID |-> v.fileID, current |-> v]
<1>1. m \in Metadata /\ Window(m)
  BY DEF Sound
<1>2. /\ new \in Metadata /\ Window(new)
      /\ new.files = [m.files EXCEPT ![v.path] = put]
      /\ new.versions = m.versions \cup {v}
  BY <1>1, InstallFields
<1>3. /\ m.files \in [Path -> Entry \cup {NoEntry}] /\ m.versions \subseteq Version
      /\ v.path \in Path /\ put \in Entry /\ put # NoEntry /\ v # NoVersion
      /\ v.id \in Nat /\ v.fileID \in Nat
      /\ \A w \in m.versions : w.id \in Nat /\ w.fileID \in Nat
  BY <1>1, NullAssumption DEF Metadata, Version, Entry
<1>4. /\ new.files[v.path] = put
      /\ \A p \in Path : p # v.path => new.files[p] = m.files[p]
  BY <1>2, <1>3
<1>5. put.fileID = v.fileID /\ put.current = v
  OBVIOUS
<1> HIDE DEF new, put
<1>6. \A p \in Path : m.files[p] # NoEntry => m.files[p].fileID \in Nat
  BY <1>3 DEF Entry
<1>7. /\ \A w \in m.versions : w.id < i /\ w.fileID < f
      /\ \A p \in Path : m.files[p] # NoEntry => m.files[p].fileID < f
  BY DEF Sound, Below
<1>8. Below(new, j, g)
  BY <1>2, <1>3, <1>4, <1>5, <1>6, <1>7 DEF Below
<1>9. Numbered(new)
  BY <1>2, <1>3, <1>7 DEF Sound, Numbered
<1>10. Headed(new)
  <2>1. ASSUME NEW p \in Path, NEW q \in Path, new.files[p] # NoEntry, new.files[q] # NoEntry,
               new.files[p].fileID = new.files[q].fileID
        PROVE  p = q
    BY <1>3, <1>4, <1>5, <1>6, <1>7, <2>1 DEF Sound, Headed
  <2>2. ASSUME NEW p \in Path, HasVersion(new.files[p])
        PROVE  /\ new.files[p].current \in new.versions
               /\ new.files[p].current.path = p
               /\ new.files[p].current.fileID = new.files[p].fileID
               /\ \A w \in new.versions : w.fileID = new.files[p].fileID => w.id <= new.files[p].current.id
    <3>1. CASE p = v.path
      BY <1>2, <1>3, <1>4, <1>5, <1>7, <3>1
    <3>2. CASE p # v.path
      <4>1. /\ new.files[p] = m.files[p] /\ m.files[p] # NoEntry
            /\ HasVersion(m.files[p])
        BY <1>4, <2>2, <3>2 DEF HasVersion
      <4>2. m.files[p].fileID # v.fileID
        BY <1>3, <1>6, <1>7, <3>2, <4>1 DEF Sound, Headed
      <4> QED BY <1>2, <1>4, <4>1, <4>2 DEF Sound, Headed
    <3> QED BY <3>1, <3>2
  <2>3. ASSUME NEW p \in Path, new.files[p] # NoEntry, new.files[p].current = NoVersion
        PROVE  \A w \in new.versions : w.fileID # new.files[p].fileID
    <3>1. p # v.path /\ new.files[p] = m.files[p]
      BY <1>3, <1>4, <1>5, <2>3
    <3>2. m.files[p].fileID # v.fileID
      BY <1>3, <1>6, <1>7, <2>3, <3>1 DEF Sound, Headed
    <3> QED BY <1>2, <2>3, <3>1, <3>2 DEF Sound, Headed
  <2>4. \A p, q \in Path :
          new.files[p] # NoEntry /\ new.files[q] # NoEntry /\ new.files[p].fileID = new.files[q].fileID
          => p = q
    BY <2>1
  <2>5. \A p \in Path : new.files[p] # NoEntry /\ new.files[p].current = NoVersion =>
          \A w \in new.versions : w.fileID # new.files[p].fileID
    BY <2>3
  <2> QED BY <2>2, <2>4, <2>5 DEF Headed
<1>11. Chained(new)
  <2> SUFFICES ASSUME NEW x \in new.versions, NEW w \in new.versions,
                      x.fileID = w.fileID, w.id < x.id,
                      ~\E u \in new.versions : u.fileID = x.fileID /\ w.id < u.id /\ u.id < x.id
               PROVE  x.base = w.id
    BY DEF Chained
  <2>1. CASE x \in m.versions
    <3>1. w \in m.versions
      BY <1>2, <1>3, <1>7, <2>1
    <3> QED BY <1>2, <2>1, <3>1 DEF Sound, Chained
  <2>2. CASE x = v
    <3>1. w \in m.versions
      BY <1>2, <1>3, <2>2
    <3>2. m.files[v.path] # NoEntry /\ m.files[v.path].fileID = v.fileID
      BY <1>3, <1>7, <2>2, <3>1
    <3>3. HasVersion(m.files[v.path])
      BY <1>3, <2>2, <3>1, <3>2 DEF Sound, Headed, HasVersion
    <3> DEFINE h == m.files[v.path].current
    <3>4. /\ h \in m.versions /\ h.fileID = v.fileID /\ w.id <= h.id
          /\ v.base = h.id
      BY <1>3, <2>2, <3>1, <3>2, <3>3 DEF Sound, Headed
    <3> HIDE DEF h
    <3>5. h.id < v.id
      BY <1>3, <1>7, <3>4
    <3>6. ~(w.id < h.id)
      BY <1>2, <2>2, <3>4, <3>5
    <3> QED BY <1>3, <2>2, <3>1, <3>4, <3>6
  <2> QED BY <1>2, <2>1, <2>2
<1> QED BY <1>2, <1>8, <1>9, <1>10, <1>11 DEF Sound, new

-----------------------------------------------------------------------------
(* The calls. *)

\* A smaller bound on the identifiers can be raised.
LEMMA SoundGrows ==
  ASSUME NEW m, NEW i \in Nat, NEW f \in Nat, Sound(m, i, f),
         NEW j \in Nat, NEW g \in Nat, i <= j, f <= g
  PROVE  Sound(m, j, g)
<1>1. \A v \in m.versions : v.id \in Nat /\ v.fileID \in Nat
  BY DEF Sound, Metadata, Version
<1>2. \A p \in Path : m.files[p] # NoEntry => m.files[p].fileID \in Nat
  BY DEF Sound, Metadata, Entry
<1> QED BY <1>1, <1>2 DEF Sound, Below

\* The entry a commit opens: it is there already, or it is new and empty.
LEMMA OpenKeeps ==
  ASSUME NEW m, NEW n \in Nat, Sound(m, n, n), NEW p \in Path
  PROVE  LET opened == [m EXCEPT !.files[p] = Opened(m, p, n)]
         IN  /\ Opened(m, p, n) \in Entry
             /\ Sound(opened, n, n + 1)
             /\ m.files[p] # NoEntry => Sound(opened, n, n)
             /\ opened.versions = m.versions /\ opened.operations = m.operations
             /\ opened.files[p] = Opened(m, p, n)
<1> DEFINE entry == Opened(m, p, n)
           files == [m.files EXCEPT ![p] = entry]
           opened == [m EXCEPT !.files = files]
<1>1. m \in Metadata
  BY DEF Sound
<1>2. m.files \in [Path -> Entry \cup {NoEntry}] /\ m.versions \subseteq Version
  BY <1>1 DEF Metadata
<1>3. entry \in Entry
  BY <1>2 DEF Opened, Entry
<1>4. /\ m.files[p] = NoEntry => entry.fileID = n /\ entry.current = NoVersion
      /\ m.files[p] # NoEntry => entry = m.files[p]
      /\ entry # NoEntry
  BY <1>3, NullAssumption DEF Opened
<1>5. /\ files \in [Path -> Entry \cup {NoEntry}]
      /\ files[p] = entry /\ \A q \in Path : q # p => files[q] = m.files[q]
      /\ m.files[p] # NoEntry => files = m.files
  BY <1>2, <1>3, <1>4
<1> HIDE DEF entry, files
<1>6. opened \in Metadata
  BY <1>1, <1>5 DEF Metadata
<1>7. /\ opened.files = files /\ opened.versions = m.versions
      /\ opened.operations = m.operations /\ opened.events = m.events
      /\ opened.lastSeq = m.lastSeq
  BY <1>1 DEF Metadata
<1> HIDE DEF opened
<1>8. /\ \A v \in m.versions : v.id \in Nat /\ v.fileID \in Nat /\ v.id < n /\ v.fileID < n
      /\ \A q \in Path : m.files[q] # NoEntry => m.files[q].fileID \in Nat /\ m.files[q].fileID < n
  BY <1>2 DEF Sound, Below, Version, Entry
<1>9. Window(opened) /\ Numbered(opened) /\ Chained(opened)
  BY <1>7 DEF Sound, Window, Numbered, Chained
<1>10. CASE m.files[p] # NoEntry
  <2>1. Sound(opened, n, n)
    BY <1>5, <1>6, <1>7, <1>9, <1>10 DEF Sound, Below, Headed
  <2>2. Sound(opened, n, n + 1)
    BY <2>1, SoundGrows
  <2> QED BY <1>3, <1>5, <1>7, <2>1, <2>2 DEF opened, files, entry
<1>11. CASE m.files[p] = NoEntry
  <2>1. Below(opened, n, n + 1)
    BY <1>4, <1>5, <1>7, <1>8, <1>11 DEF Below
  <2>2. \A x, y \in Path :
          files[x] # NoEntry /\ files[y] # NoEntry /\ files[x].fileID = files[y].fileID => x = y
    BY <1>4, <1>5, <1>8, <1>11 DEF Sound, Headed
  <2>3. \A x \in Path : HasVersion(files[x]) => x # p /\ files[x] = m.files[x]
    BY <1>4, <1>5, <1>11 DEF HasVersion
  <2>4. \A x \in Path : files[x] # NoEntry /\ files[x].current = NoVersion =>
          \A v \in m.versions : v.fileID # files[x].fileID
    BY <1>4, <1>5, <1>8, <1>11 DEF Sound, Headed
  <2>5. Headed(opened)
    BY <1>7, <2>2, <2>3, <2>4 DEF Sound, Headed
  <2>6. Sound(opened, n, n + 1)
    BY <1>6, <1>9, <2>1, <2>5 DEF Sound
  <2> QED BY <1>3, <1>5, <1>7, <1>11, <2>6 DEF opened, files, entry
<1> QED BY <1>10, <1>11

\* The versions a commit makes.
LEMMA NewVersionType ==
  ASSUME NEW r \in Request, r.kind \in {"file", "dir"}, NEW path \in Path,
         NEW fileID \in Nat, NEW n \in Nat
  PROVE  /\ NewVersion(r, path, fileID, n) \in Version
         /\ NewVersion(r, path, fileID, n).path = path
         /\ NewVersion(r, path, fileID, n).fileID = fileID
         /\ NewVersion(r, path, fileID, n).id = n
         /\ NewVersion(r, path, fileID, n).base = r.base
         /\ NewVersion(r, path, fileID, n).op = r.op
BY DEF NewVersion, Request, Version

\* What every call does: the result is sound, its reply has the shape of one,
\* and it made no version or one by the operation of its request.
Effect(m, r, n, done) ==
  /\ Sound(done.meta, n, n)
  /\ done.meta.operations = m.operations
  /\ done.ok => done.reply \in Reply
  /\ \/ done.meta.versions = m.versions
     \/ /\ done.ok
        /\ \E v \in Version : v.op = r.op /\ done.meta.versions = m.versions \cup {v}

\* commitEntryLocked.
LEMMA CommitKeeps ==
  ASSUME NEW m, NEW n \in Nat, Sound(m, n, n),
         NEW r \in Request, r.kind \in {"file", "dir"},
         NEW done \in CommitEntry(m, r, n)
  PROVE  Effect(m, r, n + 1, done)
<1> DEFINE entry == Opened(m, r.path, n)
           opened == [m EXCEPT !.files[r.path] = entry]
           copy(c) == NewVersion(r, c, n, n)
           next == NewVersion(r, r.path, entry.fileID, n)
<1>1. r.path \in Path /\ r.base \in Nat
  BY DEF Request
<1>2. /\ entry \in Entry /\ Sound(opened, n, n + 1)
      /\ m.files[r.path] # NoEntry => Sound(opened, n, n)
      /\ opened.versions = m.versions /\ opened.operations = m.operations
      /\ opened.files[r.path] = entry
  BY <1>1, OpenKeeps
<1>3. /\ entry.fileID \in Nat /\ entry.current \in Version \cup {NoVersion}
      /\ HasVersion(entry) => entry.current \in Version
  BY <1>2 DEF Entry, HasVersion
<1>4. \/ done = Rejected(opened)
      \/ HasVersion(entry) /\ done = Accepted(opened, "ok", entry.current, FALSE)
      \/ /\ HasVersion(entry)
         /\ \E c \in FreeCopies(opened, r.path) :
              done = Accepted(Install(opened, copy(c)), "ok", copy(c), TRUE)
      \/ /\ HasVersion(entry) => r.base = entry.current.id
         /\ done = Accepted(Install(opened, next), "ok", next, FALSE)
  BY DEF CommitEntry, IsLiveDir
<1>5. HasVersion(entry) => m.files[r.path] # NoEntry
  BY NullAssumption DEF Opened, HasVersion
<1>6. m.files[r.path] = NoEntry => entry.fileID = n
  BY DEF Opened
<1> HIDE DEF entry, opened
<1>7. Sound(opened, n + 1, n + 1)
  BY <1>2, SoundGrows
<1>8. CASE done = Rejected(opened)
  BY <1>2, <1>7, <1>8 DEF Effect, Rejected
<1>9. CASE HasVersion(entry) /\ done = Accepted(opened, "ok", entry.current, FALSE)
  BY <1>2, <1>3, <1>7, <1>9 DEF Effect, Accepted, Reply
<1>10. ASSUME HasVersion(entry), NEW c \in FreeCopies(opened, r.path),
              done = Accepted(Install(opened, copy(c)), "ok", copy(c), TRUE)
       PROVE  Effect(m, r, n + 1, done)
  <2>1. c \in Path /\ opened.files[c] = NoEntry
    BY <1>10, PathAssumption DEF FreeCopies
  <2>2. /\ copy(c) \in Version /\ copy(c).path = c /\ copy(c).fileID = n
        /\ copy(c).id = n /\ copy(c).op = r.op
    BY <2>1, NewVersionType
  <2>3. Sound(opened, n, n) /\ opened \in Metadata /\ Window(opened)
    BY <1>2, <1>5, <1>10 DEF Sound
  <2> HIDE DEF copy
  <2>4. Sound(Install(opened, copy(c)), n + 1, n + 1)
    BY <2>1, <2>2, <2>3, InstallKeeps
  <2>5. /\ Install(opened, copy(c)).versions = m.versions \cup {copy(c)}
        /\ Install(opened, copy(c)).operations = m.operations
    BY <1>2, <2>2, <2>3, InstallFields
  <2> QED BY <1>10, <2>2, <2>4, <2>5 DEF Effect, Accepted, Reply
<1>11. CASE /\ HasVersion(entry) => r.base = entry.current.id
            /\ done = Accepted(Install(opened, next), "ok", next, FALSE)
  <2>1. /\ next \in Version /\ next.path = r.path /\ next.fileID = entry.fileID
        /\ next.id = n /\ next.base = r.base /\ next.op = r.op
    BY <1>1, <1>3, NewVersionType
  <2>2. opened \in Metadata /\ Window(opened) /\ entry.fileID < n + 1 /\ entry # NoEntry
    BY <1>1, <1>2, NullAssumption DEF Sound, Below
  <2> HIDE DEF next
  <2>3. Sound(Install(opened, next), n + 1, n + 1)
    <3>1. /\ opened.files[next.path] # NoEntry
          /\ opened.files[next.path].fileID = next.fileID
          /\ HasVersion(opened.files[next.path]) => next.base = opened.files[next.path].current.id
      BY <1>2, <1>11, <2>1, <2>2
    <3>2. n + 1 \in Nat /\ n <= next.id /\ next.id < n + 1 /\ next.fileID < n + 1
      BY <2>1, <2>2
    <3> QED BY <1>2, <2>1, <3>1, <3>2, InstallKeeps
  <2>4. /\ Install(opened, next).versions = m.versions \cup {next}
        /\ Install(opened, next).operations = m.operations
    BY <1>2, <2>1, <2>2, InstallFields
  <2> QED BY <1>11, <2>1, <2>3, <2>4 DEF Effect, Accepted, Reply
<1> QED BY <1>4, <1>8, <1>9, <1>10, <1>11

\* ensureParentDirsLocked: sound, no reply changed, and whatever version it
\* makes belongs to no operation.
LEMMA EnsureParentKeeps ==
  ASSUME NEW m, NEW n \in Nat, Sound(m, n, n), NEW r \in Request,
         NEW made \in EnsureParent(m, r, n)
  PROVE  /\ Sound(made, n + 1, n + 1)
         /\ made.operations = m.operations
         /\ \/ made.versions = m.versions
            \/ \E v \in Version : v.op = NoOp /\ made.versions = m.versions \cup {v}
<1> DEFINE dir == Parent[r.path]
           mkdir == [kind |-> "dir", op |-> NoOp, device |-> r.device, path |-> dir,
                     fileID |-> NoId, base |-> NoId, content |-> NoContent]
<1>1. CASE made = m
  BY <1>1, SoundGrows
<1>2. ASSUME dir # NoPath, NEW done \in CommitEntry(m, mkdir, n), made = done.meta
      PROVE  /\ Sound(made, n + 1, n + 1)
             /\ made.operations = m.operations
             /\ \/ made.versions = m.versions
                \/ \E v \in Version : v.op = NoOp /\ made.versions = m.versions \cup {v}
  <2>1. dir \in Path
    BY <1>2, PathAssumption DEF Request
  <2>2. mkdir \in Request /\ mkdir.kind \in {"file", "dir"} /\ mkdir.op = NoOp
    BY <2>1 DEF Request, NoId
  <2> HIDE DEF mkdir
  <2>3. Effect(m, mkdir, n + 1, done)
    BY <1>2, <2>2, CommitKeeps
  <2> QED BY <1>2, <2>2, <2>3 DEF Effect
<1> QED BY <1>1, <1>2 DEF EnsureParent

\* Delete.
LEMMA DeleteKeeps ==
  ASSUME NEW m, NEW n \in Nat, Sound(m, n, n),
         NEW r \in Request, r.kind = "delete"
  PROVE  Effect(m, r, n + 1, DeleteEntry(m, r, n))
<1> DEFINE entry == m.files[r.path]
           grave == Tombstone(r, entry, n)
           done == DeleteEntry(m, r, n)
<1>1. r.path \in Path /\ r.base \in Nat /\ r.device \in Device /\ r.op \in Op \cup {NoOp}
  BY DEF Request
<1>2. /\ m \in Metadata /\ Window(m) /\ Sound(m, n + 1, n + 1)
      /\ entry \in Entry \cup {NoEntry}
  BY <1>1, SoundGrows DEF Sound, Metadata
<1>3. \/ done = Rejected(m)
      \/ done = Accepted(m, "conflict", NoVersion, TRUE)
      \/ IsTombstone(entry) /\ done = Accepted(m, "ok", entry.current, FALSE)
      \/ /\ entry # NoEntry
         /\ HasVersion(entry) => r.base = entry.current.id
         /\ ~IsTombstone(entry)
         /\ done = Accepted(Install(m, grave), "ok", grave, FALSE)
  BY DEF DeleteEntry
<1>4. entry # NoEntry => /\ entry \in Entry /\ entry.fileID \in Nat
                         /\ entry.current \in Version \cup {NoVersion}
  BY <1>2 DEF Entry
<1> HIDE DEF entry, done
<1>5. CASE done = Rejected(m)
  BY <1>2, <1>5 DEF Effect, Rejected, done
<1>6. CASE done = Accepted(m, "conflict", NoVersion, TRUE)
  BY <1>2, <1>6 DEF Effect, Accepted, Reply, done
<1>7. CASE IsTombstone(entry) /\ done = Accepted(m, "ok", entry.current, FALSE)
  <2>1. entry.current \in Version
    BY <1>4, <1>7 DEF IsTombstone, HasVersion
  <2> QED BY <1>2, <1>7, <2>1 DEF Effect, Accepted, Reply, done
<1>8. CASE /\ entry # NoEntry
           /\ HasVersion(entry) => r.base = entry.current.id
           /\ ~IsTombstone(entry)
           /\ done = Accepted(Install(m, grave), "ok", grave, FALSE)
  <2>1. entry.current # NoVersion =>
          /\ entry.current.state \in {"file", "dir"}
          /\ entry.current.content \in Content \cup {NoContent}
    BY <1>4, <1>8 DEF IsTombstone, HasVersion, Version
  <2>2. /\ grave \in Version /\ grave.path = r.path /\ grave.fileID = entry.fileID
        /\ grave.id = n /\ grave.base = r.base /\ grave.op = r.op
    BY <1>1, <1>4, <1>8, <2>1 DEF Tombstone, Version
  <2>3. entry.fileID < n
    BY <1>1, <1>8 DEF Sound, Below, entry
  <2> HIDE DEF grave
  <2>4. Sound(Install(m, grave), n + 1, n + 1)
    BY <1>4, <1>8, <2>2, <2>3, InstallKeeps DEF entry
  <2>5. /\ Install(m, grave).versions = m.versions \cup {grave}
        /\ Install(m, grave).operations = m.operations
    BY <1>2, <2>2, InstallFields
  <2> QED BY <1>8, <2>2, <2>4, <2>5 DEF Effect, Accepted, Reply, done
<1> QED BY <1>3, <1>5, <1>6, <1>7, <1>8 DEF done

\* pruneTrashLocked.
LEMMA PruneKeeps ==
  ASSUME NEW m, NEW n \in Nat, Sound(m, n, n), NEW k
  PROVE  /\ Sound(Prune(m, k), n, n)
         /\ Prune(m, k).versions = m.versions
         /\ Prune(m, k).operations = m.operations
<1> DEFINE files == [p \in Path |->
                       IF IsTombstone(m.files[p]) /\ m.files[p].current.id <= k
                         THEN NoEntry ELSE m.files[p]]
           pruned == [m EXCEPT !.files = files]
<1>1. m \in Metadata /\ m.files \in [Path -> Entry \cup {NoEntry}]
  BY DEF Sound, Metadata
<1>2. /\ files \in [Path -> Entry \cup {NoEntry}]
      /\ \A p \in Path : files[p] \in {NoEntry, m.files[p]}
  BY <1>1
<1> HIDE DEF files
<1>3. pruned \in Metadata
  BY <1>1, <1>2 DEF Metadata
<1>4. /\ pruned.files = files /\ pruned.versions = m.versions
      /\ pruned.operations = m.operations /\ pruned.events = m.events
      /\ pruned.lastSeq = m.lastSeq
  BY <1>1 DEF Metadata
<1>5. Prune(m, k) = pruned
  BY DEF Prune, files
<1> HIDE DEF pruned
<1>6. Window(pruned) /\ Numbered(pruned) /\ Chained(pruned) /\ Below(pruned, n, n)
  BY <1>2, <1>4 DEF Sound, Window, Numbered, Chained, Below
<1>7. Headed(pruned)
  <2>1. \A p \in Path : files[p] # NoEntry => files[p] = m.files[p]
    BY <1>2
  <2>2. \A p \in Path : HasVersion(files[p]) => files[p] = m.files[p]
    BY <2>1 DEF HasVersion
  <2> QED BY <1>4, <2>1, <2>2 DEF Sound, Headed
<1> QED BY <1>3, <1>4, <1>5, <1>6, <1>7 DEF Sound

\* RestoreTrash: there is a last "file" version to restore, and what comes
\* back is its content under the tombstone's file.
LEMMA RestoreKeeps ==
  ASSUME NEW m, NEW n \in Nat, Sound(m, n, n), NEW p \in Path,
         IsTombstone(m.files[p])
  PROVE  /\ Restored(m, p, n) \in Version /\ Restored(m, p, n).op = NoOp
         /\ Sound(Install(m, Restored(m, p, n)), n + 1, n + 1)
         /\ Install(m, Restored(m, p, n)).versions = m.versions \cup {Restored(m, p, n)}
         /\ Install(m, Restored(m, p, n)).operations = m.operations
<1> DEFINE entry == m.files[p]
           kept == {v \in m.versions : v.fileID = entry.fileID /\ v.state = "file"}
           back == Restored(m, p, n)
<1>1. m \in Metadata /\ Window(m) /\ m.versions \subseteq Version
  BY DEF Sound, Metadata
<1>2. entry \in Entry /\ entry # NoEntry /\ entry.current \in Version
  BY <1>1 DEF IsTombstone, HasVersion, Metadata, Entry
<1>3. entry.fileID \in Nat /\ entry.fileID < n
  BY <1>2 DEF Sound, Below, Entry
<1>4. kept # {} => Latest(kept) \in kept
  <2> SUFFICES ASSUME kept # {} PROVE Latest(kept) \in kept
    OBVIOUS
  <2> DEFINE ids == {v.id : v \in kept}
  <2>1. ids \in SUBSET Nat /\ ids # {} /\ \A x \in ids : x < n
    BY <1>1 DEF Sound, Below, Version
  <2> HIDE DEF ids
  <2>2. PICK x \in ids : \A y \in ids : y <= x
    BY <2>1, GreatestExists
  <2>3. PICK v \in kept : v.id = x
    BY DEF ids
  <2>4. \A w \in kept : w.id <= v.id
    BY <2>2, <2>3 DEF ids
  <2> HIDE DEF kept
  <2> QED BY <2>3, <2>4 DEF Latest
<1>5. Restorable(m, p) \in Content \cup {NoContent}
  <2>1. kept # {} => Latest(kept) \in Version
    BY <1>1, <1>4
  <2>2. Restorable(m, p) = IF kept # {} THEN Latest(kept).content ELSE entry.current.content
    BY DEF Restorable
  <2> HIDE DEF kept
  <2> QED BY <1>2, <2>1, <2>2 DEF Version
<1>6. /\ back \in Version /\ back.path = p /\ back.fileID = entry.fileID
      /\ back.id = n /\ back.base = entry.current.id /\ back.op = NoOp
  BY <1>2, <1>3, <1>5 DEF Restored, Version
<1> HIDE DEF back, entry
<1>7. Sound(Install(m, back), n + 1, n + 1)
  BY <1>2, <1>3, <1>6, InstallKeeps DEF entry
<1> QED BY <1>1, <1>6, <1>7, InstallFields DEF back

\* Recording a reply touches nothing the invariant speaks of.
LEMMA RecordKeeps ==
  ASSUME NEW m, NEW n \in Nat, Sound(m, n, n), NEW o \in Op, NEW reply \in Reply
  PROVE  /\ Sound(Record(m, o, reply), n, n)
         /\ Record(m, o, reply).versions = m.versions
         /\ Record(m, o, reply).operations = [m.operations EXCEPT ![o] = reply]
<1> DEFINE operations == [m.operations EXCEPT ![o] = reply]
           new == [m EXCEPT !.operations = operations]
<1>1. m \in Metadata /\ m.operations \in [Op -> Reply \cup {NoReply}]
  BY DEF Sound, Metadata
<1>2. operations \in [Op -> Reply \cup {NoReply}]
  BY <1>1
<1> HIDE DEF operations
<1>3. new \in Metadata
  BY <1>1, <1>2 DEF Metadata
<1>4. /\ new.files = m.files /\ new.versions = m.versions /\ new.events = m.events
      /\ new.lastSeq = m.lastSeq /\ new.operations = operations
  BY <1>1 DEF Metadata
<1>5. Record(m, o, reply) = new
  BY DEF Record, operations
<1> HIDE DEF new
<1> QED BY <1>3, <1>4, <1>5 DEF Sound, Window, Below, Numbered, Headed, Chained, operations

-----------------------------------------------------------------------------
(* What a call does to the heads, the history and the log together.        *)

\* The current version of a path, if it has one.
HeadAt(m, p) == IF HasVersion(m.files[p]) THEN m.files[p].current ELSE NoVersion

\* Nothing a client can see changes: an entry may open, a reply be recorded.
Quiet(m, new) ==
  /\ new.versions = m.versions /\ new.events = m.events /\ new.lastSeq = m.lastSeq
  /\ \A p \in Path : HeadAt(new, p) = HeadAt(m, p)

\* Tombstones leave their entries; their versions and events stay.
Pruned(m, new) ==
  /\ new.versions = m.versions /\ new.events = m.events /\ new.lastSeq = m.lastSeq
  /\ \A p \in Path : \/ HeadAt(new, p) = HeadAt(m, p)
                     \/ /\ HeadAt(new, p) = NoVersion /\ HeadAt(m, p) # NoVersion
                        /\ HeadAt(m, p).state = "deleted"

\* v's event comes last, after a tail of the old log.
LogGrows(old, new, v) ==
  /\ Len(new) \in Nat \ {0} /\ Len(old) \in Nat
  /\ new[Len(new)].version = v
  /\ \A i \in 1..Len(new) : i # Len(new) =>
       /\ Len(old) + 1 - Len(new) + i \in 1..Len(old)
       /\ new[i] = old[Len(old) + 1 - Len(new) + i]

\* v is newer than every version, and it is the first version of a new file
\* or based on the newest version of its file, which is the head it replaces.
OnTop(m, v) ==
  LET h == HeadAt(m, v.path)
  IN  /\ v \in Version
      /\ \A w \in m.versions : w.id < v.id
      /\ h = NoVersion => \A w \in m.versions : w.fileID # v.fileID
      /\ h # NoVersion =>
           /\ h \in m.versions
           /\ v.fileID = h.fileID /\ v.base = h.id
           /\ \A u \in m.versions : u.fileID = v.fileID => u.id <= h.id

\* A tombstone says what it replaces; what an administrator brings back is the
\* file that was deleted.
WellMade(m, v) ==
  LET h == HeadAt(m, v.path)
  IN  /\ v.was # "none" => h # NoVersion /\ h.state = v.was
      /\ v.device = Admin =>
           /\ h # NoVersion /\ h.state = "deleted"
           /\ \A w \in m.versions :
                /\ w.fileID = v.fileID /\ w.state = "file"
                /\ \A u \in m.versions : u.fileID = v.fileID /\ u.id < h.id => u.id <= w.id
                => v.content = w.content

\* One version is added.
Appends(m, new, v) ==
  /\ OnTop(m, v)
  /\ WellMade(m, v)
  /\ new.versions = m.versions \cup {v}
  /\ LogGrows(m.events, new.events, v) /\ new.lastSeq = m.lastSeq + 1
  /\ HeadAt(new, v.path) = v
  /\ \A p \in Path : p # v.path => HeadAt(new, p) = HeadAt(m, p)

\* Quiet changes before or after do not show.
LEMMA QuietAppends ==
  ASSUME NEW m, NEW a, NEW b, NEW v, Quiet(m, a), Appends(a, b, v)
  PROVE  Appends(m, b, v)
<1>1. v.path \in Path
  BY DEF Appends, OnTop, Version
<1> QED BY <1>1 DEF Quiet, Appends, OnTop, WellMade

LEMMA AppendsQuiet ==
  ASSUME NEW m, NEW a, NEW b, NEW v, Appends(m, a, v), Quiet(a, b)
  PROVE  Appends(m, b, v)
<1>1. v.path \in Path
  BY DEF Appends, OnTop, Version
<1> QED BY <1>1 DEF Quiet, Appends

\* An entry that opens has no version yet.
LEMMA OpenQuiet ==
  ASSUME NEW m \in Metadata, NEW p \in Path, NEW n \in Nat
  PROVE  Quiet(m, [m EXCEPT !.files[p] = Opened(m, p, n)])
<1> DEFINE files == [m.files EXCEPT ![p] = Opened(m, p, n)]
           opened == [m EXCEPT !.files = files]
<1>1. m.files \in [Path -> Entry \cup {NoEntry}]
  BY DEF Metadata
<1>2. /\ files[p] = Opened(m, p, n)
      /\ \A q \in Path : q # p => files[q] = m.files[q]
  BY <1>1
<1> HIDE DEF files
<1>3. /\ opened.files = files /\ opened.versions = m.versions
      /\ opened.events = m.events /\ opened.lastSeq = m.lastSeq
  BY DEF Metadata
<1> HIDE DEF opened
<1>4. HeadAt(opened, p) = HeadAt(m, p)
  BY <1>2, <1>3 DEF HeadAt, HasVersion, Opened
<1>5. \A q \in Path : q # p => HeadAt(opened, q) = HeadAt(m, q)
  BY <1>2, <1>3 DEF HeadAt, HasVersion
<1> QED BY <1>3, <1>4, <1>5 DEF Quiet, opened, files

\* appendEventLocked keeps a tail of the log and adds one event.
LEMMA InstallLog ==
  ASSUME NEW m \in Metadata, NEW v \in Version
  PROVE  LogGrows(m.events, Install(m, v).events, v) /\ Install(m, v).lastSeq = m.lastSeq + 1
<1> DEFINE e == [seq |-> m.lastSeq + 1, version |-> v]
           log == Append(m.events, e)
           tail == LastOf(log, MaxEvents)
           placed == [m EXCEPT !.files[v.path] = [fileID |-> v.fileID, current |-> v],
                               !.versions = @ \cup {v}]
<1>1. /\ m.events \in Seq(Event) /\ m.lastSeq \in Nat /\ e \in Event
      /\ MaxEvents \in Nat \ {0} /\ e.version = v
  BY LimitAssumption DEF Metadata, Event
<1>2. /\ log \in Seq(Event) /\ Len(log) = Len(m.events) + 1
      /\ \A i \in 1..Len(m.events) : log[i] = m.events[i]
      /\ log[Len(m.events) + 1] = e
      /\ Len(m.events) \in Nat
  BY <1>1
<1>3. Install(m, v).events = tail /\ Install(m, v).lastSeq = m.lastSeq + 1
  <2>1. placed.events = m.events /\ placed.lastSeq = m.lastSeq
    BY DEF Metadata
  <2>2. Install(m, v) = [placed EXCEPT
          !.lastSeq = placed.lastSeq + 1,
          !.events = LastOf(Append(placed.events, [seq |-> placed.lastSeq + 1, version |-> v]),
                            MaxEvents)]
    BY DEF Install, AppendEvent
  <2>3. "events" \in DOMAIN placed /\ "lastSeq" \in DOMAIN placed
    BY DEF Metadata
  <2> HIDE DEF placed
  <2> QED BY <2>1, <2>2, <2>3
<1> HIDE DEF log, e
<1>4. /\ tail \in Seq(Event)
      /\ Len(tail) = IF Len(log) > MaxEvents THEN MaxEvents ELSE Len(log)
      /\ \A i \in 1..Len(tail) : tail[i] = log[Len(log) - Len(tail) + i]
  BY <1>1, <1>2, LastOfKeeps
<1> HIDE DEF tail
<1>5. Len(tail) \in Nat \ {0} /\ Len(tail) <= Len(log)
  BY <1>1, <1>2, <1>4
<1>6. tail[Len(tail)].version = v
  <2>1. Len(tail) \in 1..Len(tail) /\ Len(log) - Len(tail) + Len(tail) = Len(m.events) + 1
    BY <1>2, <1>5
  <2>2. tail[Len(tail)] = log[Len(m.events) + 1]
    BY <1>4, <2>1
  <2> QED BY <1>1, <1>2, <2>2
<1>7. ASSUME NEW i \in 1..Len(tail), i # Len(tail)
      PROVE  /\ Len(m.events) + 1 - Len(tail) + i \in 1..Len(m.events)
             /\ tail[i] = m.events[Len(m.events) + 1 - Len(tail) + i]
  <2> DEFINE j == Len(m.events) + 1 - Len(tail) + i
  <2>1. j \in 1..Len(m.events) /\ Len(log) - Len(tail) + i = j
    BY <1>2, <1>5, <1>7
  <2>2. tail[i] = log[j]
    BY <1>4, <2>1
  <2> QED BY <1>2, <2>1, <2>2
<1> QED BY <1>2, <1>3, <1>5, <1>6, <1>7 DEF LogGrows

\* A version that keeps the invariant when it is installed comes on top.
LEMMA InstallAppends ==
  ASSUME NEW m, NEW i \in Nat, NEW f \in Nat, Sound(m, i, f),
         NEW v \in Version, i <= v.id,
         \/ m.files[v.path] = NoEntry /\ f <= v.fileID
         \/ /\ m.files[v.path] # NoEntry
            /\ m.files[v.path].fileID = v.fileID
            /\ HasVersion(m.files[v.path]) => v.base = m.files[v.path].current.id,
         WellMade(m, v)
  PROVE  Appends(m, Install(m, v), v)
<1> DEFINE new == Install(m, v)
           h == HeadAt(m, v.path)
<1>1. m \in Metadata /\ Window(m) /\ v.path \in Path /\ v.id \in Nat /\ v.fileID \in Nat
  BY DEF Sound, Version
<1>2. /\ new.files = [m.files EXCEPT ![v.path] = [fileID |-> v.fileID, current |-> v]]
      /\ new.versions = m.versions \cup {v}
      /\ LogGrows(m.events, new.events, v) /\ new.lastSeq = m.lastSeq + 1
  BY <1>1, InstallFields, InstallLog
<1>3. /\ \A w \in m.versions : w.id < i /\ w.fileID < f /\ w.id \in Nat /\ w.fileID \in Nat
      /\ m.files \in [Path -> Entry \cup {NoEntry}]
      /\ [fileID |-> v.fileID, current |-> v] \in Entry /\ v # NoVersion
  BY <1>1, NullAssumption DEF Sound, Below, Metadata, Version, Entry
<1>4. new.files[v.path] = [fileID |-> v.fileID, current |-> v]
  BY <1>1, <1>2, <1>3
<1>5. \A p \in Path : p # v.path => new.files[p] = m.files[p]
  BY <1>2, <1>3
<1>6. HeadAt(new, v.path) = v
  BY <1>3, <1>4, NullAssumption DEF HeadAt, HasVersion
<1>7. \A p \in Path : p # v.path => HeadAt(new, p) = HeadAt(m, p)
  BY <1>5 DEF HeadAt, HasVersion
<1> HIDE DEF new
<1>8. h = NoVersion => \A w \in m.versions : w.fileID # v.fileID
  <2>1. CASE m.files[v.path] = NoEntry
    BY <1>1, <1>3, <2>1
  <2>2. CASE m.files[v.path] # NoEntry /\ m.files[v.path].current = NoVersion
    BY <1>1, <2>2 DEF Sound, Headed
  <2>3. CASE HasVersion(m.files[v.path])
    BY <2>3 DEF HeadAt, HasVersion
  <2> QED BY <2>1, <2>2, <2>3 DEF HasVersion
<1>9. h # NoVersion =>
        /\ h \in m.versions
        /\ v.fileID = h.fileID /\ v.base = h.id
        /\ \A u \in m.versions : u.fileID = v.fileID => u.id <= h.id
  <2>1. h # NoVersion => HasVersion(m.files[v.path]) /\ h = m.files[v.path].current
    BY DEF HeadAt
  <2>2. HasVersion(m.files[v.path]) => m.files[v.path] # NoEntry
    BY DEF HasVersion
  <2> QED BY <1>1, <2>1, <2>2 DEF Sound, Headed
<1>10. \A w \in m.versions : w.id < v.id
  BY <1>1, <1>3
<1>11. OnTop(m, v)
  BY <1>8, <1>9, <1>10 DEF OnTop
<1> QED BY <1>2, <1>6, <1>7, <1>11 DEF Appends, new

\* What one call does: nothing that shows, or one version on top.
Moves(m, new) == Quiet(m, new) \/ \E v \in Version : Appends(m, new, v)

\* commitEntryLocked: nothing that shows, or one version of the sender's on top -
\* at the path asked for if the base is its head, else under a name nothing has.
CommitResult(m, r, n, done) ==
  LET v == done.reply.version
      h == HeadAt(m, r.path)
  IN  \/ Quiet(m, done.meta) /\ (done.ok => r.kind = "dir")
      \/ /\ done.ok /\ done.reply.status = "ok"
         /\ Appends(m, done.meta, v)
         /\ v.id = n /\ v.device = r.device /\ v.state = r.kind
         /\ \/ v.path = r.path /\ (h # NoVersion => r.base = h.id)
            \/ /\ v.path # r.path /\ h # NoVersion /\ r.base # h.id
               /\ \A w \in m.versions : w.path # v.path

LEMMA CommitEnds ==
  ASSUME NEW m, NEW n \in Nat, Sound(m, n, n),
         NEW r \in Request, r.kind \in {"file", "dir"},
         NEW done \in CommitEntry(m, r, n)
  PROVE  CommitResult(m, r, n, done)
<1> DEFINE entry == Opened(m, r.path, n)
           opened == [m EXCEPT !.files[r.path] = entry]
           copy(c) == NewVersion(r, c, n, n)
           next == NewVersion(r, r.path, entry.fileID, n)
           h == HeadAt(m, r.path)
<1>1. r.path \in Path /\ r.base \in Nat /\ r.device # Admin
  BY DistinctAssumption DEF Request
<1>2. /\ entry \in Entry /\ Sound(opened, n, n + 1)
      /\ m.files[r.path] # NoEntry => Sound(opened, n, n)
      /\ opened.files[r.path] = entry
      /\ opened.versions = m.versions
  BY <1>1, OpenKeeps
<1>3. Quiet(m, opened)
  BY <1>1, OpenQuiet DEF Sound
<1>4. \/ done.meta = opened /\ (done.ok => r.kind = "dir")
      \/ /\ HasVersion(entry) /\ r.base # entry.current.id
         /\ \E c \in FreeCopies(opened, r.path) :
              done = Accepted(Install(opened, copy(c)), "ok", copy(c), TRUE)
      \/ /\ HasVersion(entry) => r.base = entry.current.id
         /\ done = Accepted(Install(opened, next), "ok", next, FALSE)
  BY DEF CommitEntry, IsLiveDir, Rejected, Accepted
<1>5. /\ HasVersion(entry) => m.files[r.path] # NoEntry
      /\ h = IF HasVersion(entry) THEN entry.current ELSE NoVersion
  BY NullAssumption DEF Opened, HasVersion, HeadAt
<1> HIDE DEF entry, opened, h
<1>6. CASE done.meta = opened /\ (done.ok => r.kind = "dir")
  BY <1>3, <1>6 DEF CommitResult
<1>7. ASSUME HasVersion(entry), r.base # entry.current.id,
             NEW c \in FreeCopies(opened, r.path),
             done = Accepted(Install(opened, copy(c)), "ok", copy(c), TRUE)
      PROVE  CommitResult(m, r, n, done)
  <2>1. /\ c \in Path /\ opened.files[c] = NoEntry
        /\ \A w \in m.versions : w.path # c
    BY <1>2, <1>7, PathAssumption DEF FreeCopies
  <2>2. /\ copy(c) \in Version /\ copy(c).path = c /\ copy(c).fileID = n /\ copy(c).id = n
    BY <2>1, NewVersionType
  <2>3. /\ copy(c).was = "none" /\ copy(c).device # Admin
        /\ copy(c).device = r.device /\ copy(c).state = r.kind
    BY <1>1 DEF NewVersion
  <2>4. Sound(opened, n, n)
    BY <1>2, <1>5, <1>7
  <2> HIDE DEF copy
  <2>5. Appends(opened, Install(opened, copy(c)), copy(c))
    BY <2>1, <2>2, <2>3, <2>4, InstallAppends DEF WellMade
  <2>6. Appends(m, Install(opened, copy(c)), copy(c))
    BY <1>3, <2>5, QuietAppends
  <2>7. c # r.path
    BY <1>2, <2>1, NullAssumption
  <2>8. h # NoVersion /\ r.base # h.id
    BY <1>5, <1>7 DEF HasVersion
  <2>9. /\ done.ok /\ done.reply.status = "ok" /\ done.reply.version = copy(c)
        /\ done.meta = Install(opened, copy(c))
    BY <1>7 DEF Accepted
  <2> QED BY <2>1, <2>2, <2>3, <2>6, <2>7, <2>8, <2>9 DEF CommitResult, h
<1>8. CASE /\ HasVersion(entry) => r.base = entry.current.id
           /\ done = Accepted(Install(opened, next), "ok", next, FALSE)
  <2>1. /\ next \in Version /\ next.path = r.path /\ next.fileID = entry.fileID
        /\ next.id = n /\ next.base = r.base
    BY <1>1, <1>2, NewVersionType DEF Entry
  <2>2. /\ next.was = "none" /\ next.device # Admin
        /\ next.device = r.device /\ next.state = r.kind
    BY <1>1 DEF NewVersion
  <2>3. entry # NoEntry
    BY <1>2, NullAssumption
  <2> HIDE DEF next
  <2>4. Appends(opened, Install(opened, next), next)
    BY <1>2, <1>8, <2>1, <2>2, <2>3, InstallAppends DEF WellMade
  <2>5. Appends(m, Install(opened, next), next)
    BY <1>3, <2>4, QuietAppends
  <2>6. h # NoVersion => r.base = h.id
    BY <1>5, <1>8
  <2>7. /\ done.ok /\ done.reply.status = "ok" /\ done.reply.version = next
        /\ done.meta = Install(opened, next)
    BY <1>8 DEF Accepted
  <2> QED BY <2>1, <2>2, <2>5, <2>6, <2>7 DEF CommitResult, h
<1> QED BY <1>4, <1>6, <1>7, <1>8

LEMMA CommitMoves ==
  ASSUME NEW m, NEW n \in Nat, Sound(m, n, n),
         NEW r \in Request, r.kind \in {"file", "dir"},
         NEW done \in CommitEntry(m, r, n)
  PROVE  Moves(m, done.meta)
BY CommitEnds DEF CommitResult, Moves, Appends, OnTop

LEMMA EnsureParentMoves ==
  ASSUME NEW m, NEW n \in Nat, Sound(m, n, n), NEW r \in Request,
         NEW made \in EnsureParent(m, r, n)
  PROVE  Moves(m, made)
<1> DEFINE dir == Parent[r.path]
           mkdir == [kind |-> "dir", op |-> NoOp, device |-> r.device, path |-> dir,
                     fileID |-> NoId, base |-> NoId, content |-> NoContent]
<1>1. CASE made = m
  BY <1>1 DEF Moves, Quiet
<1>2. ASSUME dir # NoPath, NEW done \in CommitEntry(m, mkdir, n), made = done.meta
      PROVE  Moves(m, made)
  <2>1. dir \in Path
    BY <1>2, PathAssumption DEF Request
  <2>2. mkdir \in Request /\ mkdir.kind \in {"file", "dir"}
    BY <2>1 DEF Request, NoId
  <2> HIDE DEF mkdir
  <2> QED BY <1>2, <2>2, CommitMoves
<1> QED BY <1>1, <1>2 DEF EnsureParent

\* The rest of Delete: a tombstone of the sender's on the head it named, or
\* nothing at all.
DeleteResult(m, r, n, done) ==
  LET v == done.reply.version
      h == HeadAt(m, r.path)
  IN  \/ done.meta = m /\ ~done.ok
      \/ done.meta = m /\ done.ok /\ done.reply.status = "conflict"
      \/ /\ done.meta = m /\ done.ok
         /\ h # NoVersion /\ r.base = h.id /\ h.state = "deleted"
      \/ /\ done.ok /\ done.reply.status = "ok"
         /\ Appends(m, done.meta, v)
         /\ v.id = n /\ v.device = r.device /\ v.state = "deleted" /\ v.path = r.path
         /\ h # NoVersion => r.base = h.id

LEMMA DeleteEnds ==
  ASSUME NEW m, NEW n \in Nat, Sound(m, n, n),
         NEW r \in Request, r.kind = "delete"
  PROVE  DeleteResult(m, r, n, DeleteEntry(m, r, n))
<1> DEFINE entry == m.files[r.path]
           grave == Tombstone(r, entry, n)
           done == DeleteEntry(m, r, n)
           h == HeadAt(m, r.path)
<1>1. /\ r.path \in Path /\ r.base \in Nat /\ r.op \in Op \cup {NoOp}
      /\ r.device \in Device /\ r.device # Admin
  BY DistinctAssumption DEF Request
<1>2. entry \in Entry \cup {NoEntry}
  BY <1>1 DEF Sound, Metadata
<1>3. \/ done.meta = m /\ ~done.ok
      \/ done.meta = m /\ done.ok /\ done.reply.status = "conflict"
      \/ /\ done.meta = m /\ done.ok
         /\ IsTombstone(entry) /\ r.base = entry.current.id
      \/ /\ entry # NoEntry
         /\ HasVersion(entry) => r.base = entry.current.id
         /\ ~IsTombstone(entry)
         /\ done = Accepted(Install(m, grave), "ok", grave, FALSE)
  BY DEF DeleteEntry, Rejected, Accepted, IsTombstone
<1>4. entry # NoEntry => /\ entry \in Entry /\ entry.fileID \in Nat
                         /\ entry.current \in Version \cup {NoVersion}
  BY <1>2 DEF Entry
<1>0. h = IF HasVersion(entry) THEN entry.current ELSE NoVersion
  BY DEF HeadAt
<1> HIDE DEF entry, done, h
<1>5. CASE /\ done.meta = m /\ done.ok
           /\ IsTombstone(entry) /\ r.base = entry.current.id
  BY <1>0, <1>5 DEF DeleteResult, done, h, IsTombstone, HasVersion
<1>6. CASE /\ entry # NoEntry
           /\ HasVersion(entry) => r.base = entry.current.id
           /\ ~IsTombstone(entry)
           /\ done = Accepted(Install(m, grave), "ok", grave, FALSE)
  <2>1. entry.current # NoVersion =>
          /\ entry.current.state \in {"file", "dir"}
          /\ entry.current.content \in Content \cup {NoContent}
    BY <1>4, <1>6 DEF IsTombstone, HasVersion, Version
  <2>2. /\ grave \in Version /\ grave.path = r.path /\ grave.fileID = entry.fileID
        /\ grave.id = n /\ grave.base = r.base /\ grave.device # Admin
        /\ grave.device = r.device /\ grave.state = "deleted"
    BY <1>1, <1>4, <1>6, <2>1 DEF Tombstone, Version
  <2>3. grave.was # "none" => entry.current # NoVersion /\ entry.current.state = grave.was
    BY DEF Tombstone
  <2> HIDE DEF grave
  <2>4. WellMade(m, grave)
    BY <1>6, <2>2, <2>3 DEF WellMade, HeadAt, HasVersion, entry
  <2>5. Appends(m, Install(m, grave), grave)
    BY <1>4, <1>6, <2>2, <2>4, InstallAppends DEF entry
  <2>6. /\ done.ok /\ done.reply.status = "ok" /\ done.reply.version = grave
        /\ done.meta = Install(m, grave)
    BY <1>6 DEF Accepted
  <2>7. h # NoVersion => r.base = h.id
    BY <1>0, <1>6
  <2> QED BY <2>2, <2>5, <2>6, <2>7 DEF DeleteResult, done, h
<1> QED BY <1>3, <1>5, <1>6 DEF DeleteResult, done

LEMMA DeleteMoves ==
  ASSUME NEW m, NEW n \in Nat, Sound(m, n, n),
         NEW r \in Request, r.kind = "delete"
  PROVE  Moves(m, DeleteEntry(m, r, n).meta)
BY DeleteEnds DEF DeleteResult, Moves, Quiet, Appends, OnTop

LEMMA PruneMoves ==
  ASSUME NEW m \in Metadata, NEW k
  PROVE  Pruned(m, Prune(m, k))
<1> DEFINE files == [p \in Path |->
                       IF IsTombstone(m.files[p]) /\ m.files[p].current.id <= k
                         THEN NoEntry ELSE m.files[p]]
           pruned == [m EXCEPT !.files = files]
<1>1. \A p \in Path : \/ files[p] = m.files[p]
                      \/ files[p] = NoEntry /\ IsTombstone(m.files[p])
  OBVIOUS
<1> HIDE DEF files
<1>2. /\ pruned.files = files /\ pruned.versions = m.versions
      /\ pruned.events = m.events /\ pruned.lastSeq = m.lastSeq
  BY DEF Metadata
<1>3. Prune(m, k) = pruned
  BY DEF Prune, files
<1> HIDE DEF pruned
<1>4. ASSUME NEW p \in Path
      PROVE  \/ HeadAt(pruned, p) = HeadAt(m, p)
             \/ /\ HeadAt(pruned, p) = NoVersion /\ HeadAt(m, p) # NoVersion
                /\ HeadAt(m, p).state = "deleted"
  <2>1. CASE files[p] = m.files[p]
    BY <1>2, <2>1 DEF HeadAt, HasVersion
  <2>2. CASE files[p] = NoEntry /\ IsTombstone(m.files[p])
    BY <1>2, <2>2 DEF HeadAt, HasVersion, IsTombstone
  <2> QED BY <1>1, <2>1, <2>2
<1> QED BY <1>2, <1>3, <1>4 DEF Pruned

LEMMA RecordQuiet ==
  ASSUME NEW m \in Metadata, NEW o, NEW reply
  PROVE  Quiet(m, Record(m, o, reply))
<1> DEFINE new == Record(m, o, reply)
<1>1. /\ new.files = m.files /\ new.versions = m.versions
      /\ new.events = m.events /\ new.lastSeq = m.lastSeq
  BY DEF Record, Metadata
<1> HIDE DEF new
<1>2. Quiet(m, new)
  BY <1>1 DEF Quiet, HeadAt, HasVersion
<1> QED BY <1>2 DEF new

\* RestoreTrash: what comes back is the newest file version, and that is the
\* one the tombstone replaced.
LEMMA RestoreAppends ==
  ASSUME NEW m, NEW n \in Nat, Sound(m, n, n), NEW p \in Path, IsTombstone(m.files[p])
  PROVE  Appends(m, Install(m, Restored(m, p, n)), Restored(m, p, n))
<1> DEFINE entry == m.files[p]
           kept == {v \in m.versions : v.fileID = entry.fileID /\ v.state = "file"}
           back == Restored(m, p, n)
           h == HeadAt(m, p)
<1>1. m.versions \subseteq Version /\ back \in Version
  BY RestoreKeeps DEF Sound, Metadata
<1>2. /\ HasVersion(entry) /\ entry # NoEntry /\ entry.current.state = "deleted"
      /\ h = entry.current /\ h # NoVersion
  BY DEF IsTombstone, HasVersion, HeadAt
<1>3. /\ back.path = p /\ back.fileID = entry.fileID /\ back.id = n
      /\ back.base = entry.current.id /\ back.state = "file" /\ back.was = "none"
      /\ back.content = Restorable(m, p)
  BY DEF Restored
<1>4. h \in m.versions /\ h.fileID = entry.fileID
      /\ \A u \in m.versions : u.fileID = entry.fileID => u.id <= h.id
  BY <1>2 DEF Sound, Headed
<1> HIDE DEF back, h
<1>5. ASSUME NEW w \in m.versions, w.fileID = entry.fileID, w.state = "file",
             \A u \in m.versions : u.fileID = entry.fileID /\ u.id < h.id => u.id <= w.id
      PROVE  back.content = w.content
  <2>1. \A u \in kept : u.id <= w.id
    <3>1. ASSUME NEW u \in kept PROVE u.id <= w.id
      <4>1. u.id # h.id
        BY <1>2, <1>4 DEF Sound, Numbered
      <4>2. u.id \in Nat /\ h.id \in Nat
        BY <1>1, <1>4 DEF Version
      <4> QED BY <1>4, <1>5, <4>1, <4>2
    <3> QED BY <3>1
  <2>2. w \in kept
    BY <1>5
  <2>3. \A u \in kept : u \in m.versions /\ u.id \in Nat
    BY <1>1 DEF Version
  <2>4. Restorable(m, p) = IF kept # {} THEN Latest(kept).content ELSE entry.current.content
    BY DEF Restorable
  <2> HIDE DEF kept
  <2>5. Latest(kept) \in kept /\ \A u \in kept : u.id <= Latest(kept).id
    BY <2>1, <2>2 DEF Latest
  <2>6. Latest(kept).id = w.id
    BY <2>1, <2>2, <2>3, <2>5
  <2>7. Latest(kept) = w
    BY <2>3, <2>2, <2>5, <2>6 DEF Sound, Numbered
  <2> QED BY <1>3, <2>2, <2>4, <2>7
<1>6. WellMade(m, back)
  BY <1>2, <1>3, <1>5 DEF WellMade, h
<1>7. Appends(m, Install(m, back), back)
  <2>1. /\ m.files[back.path] # NoEntry
        /\ m.files[back.path].fileID = back.fileID
        /\ back.base = m.files[back.path].current.id
        /\ n <= back.id
    BY <1>2, <1>3
  <2> QED BY <1>1, <1>6, <2>1, InstallAppends
<1> QED BY <1>7 DEF back

-----------------------------------------------------------------------------
(* What the heads, the history and the log promise together.               *)

\* The last retained event of a path carries its head, unless that is a
\* tombstone that was pruned.
LogMatches(m) ==
  \A i \in 1..Len(m.events) :
    LET v == m.events[i].version
    IN  (\A j \in 1..Len(m.events) : j > i => m.events[j].version.path # v.path)
        => \/ HeadAt(m, v.path) = v
           \/ HeadAt(m, v.path) = NoVersion /\ v.state = "deleted"

\* A file's tombstone is based on the file version it deleted, which is the
\* last one before it.
Graves(m) ==
  \A t \in m.versions : t.state = "deleted" /\ t.was = "file" =>
    \E w \in m.versions :
      /\ w.id = t.base /\ w.fileID = t.fileID /\ w.state = "file"
      /\ \A u \in m.versions : u.fileID = t.fileID /\ u.id < t.id => u.id <= w.id

\* What an administrator brought back is what was deleted.
Returned(m) ==
  \A v \in m.versions : v.device = Admin =>
    \E t, w \in m.versions :
      /\ t.id = v.base /\ t.fileID = v.fileID /\ t.state = "deleted"
      /\ t.was = "file" =>
           w.id = t.base /\ w.fileID = t.fileID /\ w.content = v.content

Consistent(m) ==
  /\ m.versions \subseteq Version
  /\ \A i \in 1..Len(m.events) : m.events[i].version.path \in Path
  /\ LogMatches(m)
  /\ Graves(m)
  /\ Returned(m)

LEMMA QuietConsistent ==
  ASSUME NEW m, NEW new, Consistent(m), Quiet(m, new)
  PROVE  Consistent(new)
BY DEF Consistent, Quiet, LogMatches, Graves, Returned

\* A pruned head was a tombstone, and so is what its last event carries.
LEMMA PrunedConsistent ==
  ASSUME NEW m, NEW new, Consistent(m), Pruned(m, new)
  PROVE  Consistent(new)
<1>1. new.versions = m.versions /\ new.events = m.events
  BY DEF Pruned
<1>2. LogMatches(new)
  <2> SUFFICES ASSUME NEW i \in 1..Len(m.events),
                      \A j \in 1..Len(m.events) :
                        j > i => m.events[j].version.path # m.events[i].version.path
               PROVE  LET v == m.events[i].version
                      IN  \/ HeadAt(new, v.path) = v
                          \/ HeadAt(new, v.path) = NoVersion /\ v.state = "deleted"
    BY <1>1 DEF LogMatches
  <2> DEFINE v == m.events[i].version
  <2>1. \/ HeadAt(m, v.path) = v
        \/ HeadAt(m, v.path) = NoVersion /\ v.state = "deleted"
    BY DEF Consistent, LogMatches
  <2>2. \/ HeadAt(new, v.path) = HeadAt(m, v.path)
        \/ /\ HeadAt(new, v.path) = NoVersion /\ HeadAt(m, v.path) # NoVersion
           /\ HeadAt(m, v.path).state = "deleted"
    BY DEF Consistent, Pruned
  <2> QED BY <2>1, <2>2
<1> QED BY <1>1, <1>2 DEF Consistent, Graves, Returned

\* A version on top keeps all of it.
LEMMA AppendsConsistent ==
  ASSUME NEW m, NEW new, NEW v, Consistent(m), Appends(m, new, v)
  PROVE  Consistent(new)
<1> DEFINE h == HeadAt(m, v.path)
           old == m.events
           log == new.events
           k == Len(old) + 1 - Len(log)
<1>1. /\ v \in Version /\ v.path \in Path /\ new.versions = m.versions \cup {v}
      /\ \A w \in new.versions : w.id \in Nat /\ w.fileID \in Nat
      /\ \A w \in m.versions : w.id < v.id
      /\ m.versions \subseteq Version
  BY DEF Appends, OnTop, Version, Consistent
<1>2. /\ Len(log) \in Nat \ {0} /\ Len(old) \in Nat /\ log[Len(log)].version = v
      /\ \A i \in 1..Len(log) : i # Len(log) => k + i \in 1..Len(old) /\ log[i] = old[k + i]
  BY DEF Appends, LogGrows
<1>3. /\ HeadAt(new, v.path) = v
      /\ \A p \in Path : p # v.path => HeadAt(new, p) = HeadAt(m, p)
  BY DEF Appends
<1>4. \A i \in 1..Len(log) : log[i].version.path \in Path
  BY <1>1, <1>2 DEF Consistent
<1>5. LogMatches(new)
  <2> SUFFICES ASSUME NEW i \in 1..Len(log),
                      \A j \in 1..Len(log) :
                        j > i => log[j].version.path # log[i].version.path
               PROVE  \/ HeadAt(new, log[i].version.path) = log[i].version
                      \/ /\ HeadAt(new, log[i].version.path) = NoVersion
                         /\ log[i].version.state = "deleted"
    BY DEF LogMatches
  <2> HIDE DEF log, old
  <2>1. CASE i = Len(log)
    BY <1>2, <1>3, <2>1
  <2>2. CASE i # Len(log)
    <3>1. /\ k + i \in 1..Len(old) /\ log[i] = old[k + i]
          /\ Len(log) \in 1..Len(log) /\ Len(log) > i
      BY <1>2, <2>2
    <3>2. log[i].version.path # v.path /\ log[i].version.path \in Path
      BY <1>2, <1>4, <3>1
    <3>3. ASSUME NEW j \in 1..Len(old), j > k + i
          PROVE  old[j].version.path # old[k + i].version.path
      <4> DEFINE l == j - k
      <4>1. l \in 1..Len(log) /\ l > i /\ k + l = j
        BY <1>2, <3>1, <3>3
      <4> HIDE DEF l
      <4>2. log[l] = old[j]
        <5>1. l # Len(log)
          BY <1>2, <4>1, <3>3
        <5> QED BY <1>2, <4>1, <5>1
      <4> QED BY <3>1, <4>1, <4>2
    <3>4. \/ HeadAt(m, log[i].version.path) = log[i].version
          \/ /\ HeadAt(m, log[i].version.path) = NoVersion
             /\ log[i].version.state = "deleted"
      BY <3>1, <3>3 DEF Consistent, LogMatches, old
    <3> QED BY <1>3, <3>2, <3>4
  <2> QED BY <2>1, <2>2
<1>6. Graves(new)
  <2> SUFFICES ASSUME NEW t \in new.versions, t.state = "deleted", t.was = "file"
               PROVE  \E w \in new.versions :
                        /\ w.id = t.base /\ w.fileID = t.fileID /\ w.state = "file"
                        /\ \A u \in new.versions :
                             u.fileID = t.fileID /\ u.id < t.id => u.id <= w.id
    BY DEF Graves
  <2>1. CASE t \in m.versions
    <3>1. PICK w \in m.versions :
            /\ w.id = t.base /\ w.fileID = t.fileID /\ w.state = "file"
            /\ \A u \in m.versions : u.fileID = t.fileID /\ u.id < t.id => u.id <= w.id
      BY <2>1 DEF Consistent, Graves
    <3>2. ~(v.id < t.id)
      BY <1>1, <2>1
    <3> QED BY <1>1, <3>1, <3>2
  <2>2. CASE t = v
    <3>1. h \in m.versions /\ h.state = "file" /\ v.fileID = h.fileID /\ v.base = h.id
          /\ \A u \in m.versions : u.fileID = v.fileID => u.id <= h.id
      BY <2>2 DEF Appends, OnTop, WellMade
    <3> HIDE DEF h
    <3>2. ~(v.id < v.id)
      BY <1>1
    <3> QED BY <1>1, <2>2, <3>1, <3>2
  <2> QED BY <1>1, <2>1, <2>2
<1>7. Returned(new)
  <2> SUFFICES ASSUME NEW x \in new.versions, x.device = Admin
               PROVE  \E t, w \in new.versions :
                        /\ t.id = x.base /\ t.fileID = x.fileID /\ t.state = "deleted"
                        /\ t.was = "file" =>
                             w.id = t.base /\ w.fileID = t.fileID /\ w.content = x.content
    BY DEF Returned
  <2>1. CASE x \in m.versions
    BY <1>1, <2>1 DEF Consistent, Returned
  <2>2. CASE x = v
    <3>1. /\ h \in m.versions /\ h.state = "deleted" /\ v.fileID = h.fileID /\ v.base = h.id
          /\ \A w \in m.versions :
               /\ w.fileID = v.fileID /\ w.state = "file"
               /\ \A u \in m.versions : u.fileID = v.fileID /\ u.id < h.id => u.id <= w.id
               => v.content = w.content
      BY <2>2 DEF Appends, OnTop, WellMade
    <3> HIDE DEF h
    <3>2. CASE h.was = "file"
      <4>1. PICK w \in m.versions :
              /\ w.id = h.base /\ w.fileID = h.fileID /\ w.state = "file"
              /\ \A u \in m.versions : u.fileID = h.fileID /\ u.id < h.id => u.id <= w.id
        BY <3>1, <3>2 DEF Consistent, Graves
      <4> QED BY <1>1, <2>2, <3>1, <4>1
    <3>3. CASE h.was # "file"
      BY <1>1, <2>2, <3>1, <3>3
    <3> QED BY <3>2, <3>3
  <2> QED BY <1>1, <2>1, <2>2
<1> QED BY <1>1, <1>4, <1>5, <1>6, <1>7 DEF Consistent
-----------------------------------------------------------------------------
(* The log as a reader sees it.                                            *)

\* The events that can be read.
Log(m) == {m.events[i] : i \in 1..Len(m.events)}

\* A number is given once, and none is above the last.
LEMMA LogRange ==
  ASSUME NEW m \in Metadata, Window(m)
  PROVE  /\ \A e \in Log(m) : e \in Event /\ e.seq \in Nat /\ e.seq <= m.lastSeq
         /\ \A e, f \in Log(m) : e.seq = f.seq => e = f
         /\ \A i, j \in 1..Len(m.events) : i < j => m.events[i].seq < m.events[j].seq
<1>1. m.events \in Seq(Event) /\ m.lastSeq \in Nat /\ Len(m.events) \in Nat
  BY DEF Metadata
<1>2. Len(m.events) <= m.lastSeq
  BY <1>1, LimitAssumption DEF Window
<1>3. ASSUME NEW i \in 1..Len(m.events)
      PROVE  /\ m.events[i] \in Event /\ m.events[i].seq = m.lastSeq - Len(m.events) + i
             /\ m.events[i].seq \in Nat /\ m.events[i].seq <= m.lastSeq
  <2>1. m.events[i] \in Event /\ m.events[i].seq = m.lastSeq - Len(m.events) + i
    BY <1>1 DEF Window
  <2> QED BY <1>1, <1>2, <2>1
<1>4. ASSUME NEW i \in 1..Len(m.events), NEW j \in 1..Len(m.events)
      PROVE  /\ i < j => m.events[i].seq < m.events[j].seq
             /\ m.events[i].seq = m.events[j].seq => i = j
  BY <1>1, <1>3
<1> QED BY <1>3, <1>4 DEF Log

\* A call that adds a version adds one event; an older one stays in the log while
\* MaxEvents later ones have not come.
LEMMA LogGains ==
  ASSUME NEW m \in Metadata, Window(m), NEW new \in Metadata, Window(new), NEW v,
         LogGrows(m.events, new.events, v), new.lastSeq = m.lastSeq + 1
  PROVE  /\ \A e \in Log(new) : e \in Log(m) \/ (e.version = v /\ e.seq = new.lastSeq)
         /\ \E e \in Log(new) : e.version = v /\ e.seq = new.lastSeq
         /\ \A e \in Log(m) : new.lastSeq < e.seq + MaxEvents => e \in Log(new)
<1> DEFINE a == Len(m.events)
           b == Len(new.events)
<1>1. /\ a \in Nat /\ b \in Nat \ {0} /\ m.lastSeq \in Nat /\ new.lastSeq \in Nat
      /\ MaxEvents \in Nat \ {0}
  BY LimitAssumption DEF LogGrows, Metadata
<1>2. /\ b = (IF new.lastSeq < MaxEvents THEN new.lastSeq ELSE MaxEvents)
      /\ a = (IF m.lastSeq < MaxEvents THEN m.lastSeq ELSE MaxEvents)
      /\ \A i \in 1..b : new.events[i].seq = new.lastSeq - b + i
      /\ \A i \in 1..a : m.events[i].seq = m.lastSeq - a + i
  BY DEF Window
<1>3. new.events[b].version = v
  BY DEF LogGrows
<1>4. \A i \in 1..b : i # b => /\ a + 1 - b + i \in 1..a
                               /\ new.events[i] = m.events[a + 1 - b + i]
  BY DEF LogGrows
<1>5. /\ Log(m) = {m.events[i] : i \in 1..a}
      /\ Log(new) = {new.events[i] : i \in 1..b}
  BY DEF Log
<1> HIDE DEF a, b
<1>6. b \in 1..b /\ new.events[b].seq = new.lastSeq
  <2>1. b \in 1..b /\ new.lastSeq - b + b = new.lastSeq
    BY <1>1
  <2> QED BY <1>2, <2>1
<1>7. ASSUME NEW e \in Log(new)
      PROVE  e \in Log(m) \/ (e.version = v /\ e.seq = new.lastSeq)
  <2>1. PICK i \in 1..b : e = new.events[i]
    BY <1>5
  <2>2. CASE i = b
    BY <1>3, <1>6, <2>1, <2>2
  <2>3. CASE i # b
    BY <1>4, <1>5, <2>1, <2>3
  <2> QED BY <2>2, <2>3
<1>8. \E e \in Log(new) : e.version = v /\ e.seq = new.lastSeq
  BY <1>3, <1>5, <1>6
<1>9. ASSUME NEW e \in Log(m), new.lastSeq < e.seq + MaxEvents
      PROVE  e \in Log(new)
  <2>1. PICK j \in 1..a : e = m.events[j]
    BY <1>5
  <2>2. e.seq = m.lastSeq - a + j /\ j \in Nat /\ 1 <= j /\ j <= a
    BY <1>1, <1>2, <2>1
  <2> DEFINE i == j - (a + 1 - b)
  <2>3. i \in 1..b /\ i # b /\ a + 1 - b + i = j
    <3> DEFINE s == e.seq
    <3>1. s = m.lastSeq - a + j /\ new.lastSeq < s + MaxEvents
      BY <1>9, <2>2
    <3>2. b <= a + 1
      <4>1. b - 1 \in 1..b \/ b = 1
        BY <1>1
      <4>2. CASE b = 1
        BY <1>1, <4>2
      <4>3. CASE b # 1
        <5>1. 1 \in 1..b /\ 1 # b
          BY <1>1, <4>3
        <5>2. a + 1 - b + 1 \in 1..a
          BY <1>4, <5>1
        <5> QED BY <1>1, <5>2
      <4> QED BY <4>2, <4>3
    <3>3. new.lastSeq = m.lastSeq + 1
      OBVIOUS
    <3> HIDE DEF s
    <3>4. i < b
      BY <1>1, <2>2, <3>2
    <3>5. i >= 1
      <4>1. CASE new.lastSeq < MaxEvents
        <5>1. a = m.lastSeq /\ b = m.lastSeq + 1
          BY <1>1, <1>2, <3>3, <4>1
        <5> QED BY <1>1, <2>2, <5>1
      <4>2. CASE ~(new.lastSeq < MaxEvents)
        BY <1>1, <1>2, <2>2, <3>1, <3>3, <4>2
      <4> QED BY <4>1, <4>2
    <3> QED BY <1>1, <2>2, <3>4, <3>5
  <2>4. new.events[i] = m.events[j]
    BY <1>4, <2>3
  <2> HIDE DEF i
  <2> QED BY <1>5, <2>1, <2>3, <2>4
<1> QED BY <1>7, <1>8, <1>9

\* The last event of a path tells its head, unless that was pruned.
LEMMA LastTells ==
  ASSUME NEW m \in Metadata, Window(m), Consistent(m), NEW e \in Log(m),
         \A f \in Log(m) : f.version.path = e.version.path => f.seq <= e.seq
  PROVE  \/ HeadAt(m, e.version.path) = e.version
         \/ HeadAt(m, e.version.path) = NoVersion /\ e.version.state = "deleted"
<1>1. PICK i \in 1..Len(m.events) : e = m.events[i]
  BY DEF Log
<1>2. ASSUME NEW j \in 1..Len(m.events), j > i PROVE m.events[j].version.path # e.version.path
  <2>1. m.events[j] \in Log(m) /\ e.seq \in Nat /\ m.events[j].seq \in Nat
    BY LogRange DEF Log
  <2>2. e.seq < m.events[j].seq
    BY <1>1, <1>2, LogRange
  <2> QED BY <2>1, <2>2
<1> QED BY <1>1, <1>2 DEF Consistent, LogMatches

\* A path with an event has a last one.
LEMMA LastExists ==
  ASSUME NEW m \in Metadata, Window(m), NEW e \in Log(m)
  PROVE  \E f \in Log(m) :
           /\ f.version.path = e.version.path /\ e.seq <= f.seq
           /\ \A g \in Log(m) : g.version.path = e.version.path => g.seq <= f.seq
<1> DEFINE T == {g.seq : g \in {h \in Log(m) : h.version.path = e.version.path}}
<1>1. \A g \in Log(m) : g.seq \in Nat /\ g.seq < m.lastSeq + 1
  <2>1. m.lastSeq \in Nat
    BY DEF Metadata
  <2> QED BY <2>1, LogRange
<1>2. T \in SUBSET Nat /\ T # {} /\ (\A x \in T : x < m.lastSeq + 1) /\ m.lastSeq + 1 \in Nat
  BY <1>1 DEF Metadata
<1>3. \A g \in Log(m) : g.version.path = e.version.path => g.seq \in T
  OBVIOUS
<1>4. \A x \in T : \E g \in Log(m) : g.version.path = e.version.path /\ x = g.seq
  OBVIOUS
<1> HIDE DEF T
<1>5. PICK x \in T : \A y \in T : y <= x
  BY <1>2, GreatestExists
<1> QED BY <1>3, <1>4, <1>5
=============================================================================
