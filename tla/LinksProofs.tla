----------------------------- MODULE LinksProofs -----------------------------
(***************************************************************************)
(* Theorems about the links to the outside.  Connection, for any number of *)
(* publishers and readers: the lock has one line, in which only its head   *)
(* opens or closes, and a connection that is up is not replaced.  BatchWriter,*)
(* for any number of events, sizes of the queue and of the batches, and    *)
(* outages: no batch overtakes another one and none gets lost until stop() *)
(* is called.  ModbusSync, for any registers and mappings: what flickers is *)
(* not published.  And that all of this holds of their composition.        *)
(***************************************************************************)
EXTENDS MCLinks, NumberSets, SequenceTheorems, TLAPS

-----------------------------------------------------------------------------
(* The line of those who hold or want the lock.                            *)

\* No task stands in line twice.
Line(q) == q \in Seq(Task) /\ \A i, j \in 1 .. Len(q) : q[i] = q[j] => i = j

In(q, t) == \E i \in 1 .. Len(q) : q[i] = t

First(q, t) == q # <<>> /\ Head(q) = t

\* Who joins the line stands at its end.
LEMMA Joined ==
    ASSUME NEW q, Line(q), NEW t \in Task, ~In(q, t)
    PROVE  /\ Line(Append(q, t))
           /\ \A u \in Task : In(Append(q, t), u) <=> In(q, u) \/ u = t
           /\ \A u \in Task : First(Append(q, t), u) <=> First(q, u) \/ (q = <<>> /\ u = t)
<1> DEFINE a == Append(q, t)
<1>1. q \in Seq(Task) /\ Len(q) \in Nat
  BY DEF Line
<1>2. a \in Seq(Task) /\ Len(a) = Len(q) + 1 /\ a[Len(q) + 1] = t
      /\ \A i \in 1 .. Len(q) : a[i] = q[i]
  BY <1>1
<1> HIDE DEF a
<1>3. 1 .. Len(a) = (1 .. Len(q)) \cup {Len(q) + 1} /\ Len(q) + 1 \notin 1 .. Len(q)
  BY <1>1, <1>2
<1>4. Line(a)
  BY <1>1, <1>2, <1>3 DEF Line, In
<1>5. \A u \in Task : In(a, u) <=> In(q, u) \/ u = t
  BY <1>2, <1>3 DEF In
<1>6. a # <<>> /\ Head(a) = a[1]
  BY <1>1, <1>2
<1>7. CASE q = <<>>
  BY <1>1, <1>2, <1>4, <1>5, <1>6, <1>7 DEF First, a
<1>8. CASE q # <<>>
  <2>1. 1 \in 1 .. Len(q) /\ Head(q) = q[1]
    BY <1>1, <1>8
  <2> QED
    BY <1>2, <1>4, <1>5, <1>6, <1>8, <2>1 DEF First, a
<1> QED
  BY <1>7, <1>8

\* The head hands the lock on.
LEMMA HandedOn ==
    ASSUME NEW q, Line(q), NEW t \in Task, First(q, t)
    PROVE  /\ Line(Tail(q))
           /\ \A u \in Task : In(Tail(q), u) <=> In(q, u) /\ u # t
           /\ ~In(Tail(q), t)
<1> DEFINE a == Tail(q)
<1>1. q \in Seq(Task) /\ Len(q) \in Nat /\ Len(q) > 0 /\ q[1] = t
  BY DEF Line, First
<1>2. a \in Seq(Task) /\ Len(a) = Len(q) - 1 /\ \A i \in 1 .. Len(a) : a[i] = q[i + 1]
  BY <1>1
<1> HIDE DEF a
<1>3. \A i \in 1 .. Len(a) : i + 1 \in 1 .. Len(q) /\ i + 1 # 1
  BY <1>1, <1>2
<1>4. \A i \in 1 .. Len(q) : i # 1 => i - 1 \in 1 .. Len(a) /\ (i - 1) + 1 = i
  BY <1>1, <1>2
<1>5. Line(a)
  <2>1. ASSUME NEW i \in 1 .. Len(a), NEW j \in 1 .. Len(a), a[i] = a[j]
        PROVE  i = j
    <3>1. i + 1 = j + 1
      BY <1>2, <1>3, <2>1 DEF Line
    <3> QED
      BY <3>1
  <2> QED
    BY <1>2, <2>1 DEF Line
<1>6. \A u \in Task : In(a, u) => In(q, u) /\ u # t
  BY <1>1, <1>2, <1>3 DEF In, Line
<1>7. \A u \in Task : In(q, u) /\ u # t => In(a, u)
  <2> SUFFICES ASSUME NEW u \in Task, NEW i \in 1 .. Len(q), q[i] = u, u # t
               PROVE  \E k \in 1 .. Len(a) : a[k] = u
    BY DEF In
  <2>1. i # 1 /\ i - 1 \in 1 .. Len(a) /\ (i - 1) + 1 = i
    BY <1>1, <1>4
  <2> QED
    BY <1>2, <2>1
<1> QED
  BY <1>5, <1>6, <1>7 DEF a

\* Who is cancelled leaves the line.
LEMMA LeftLine ==
    ASSUME NEW q, Line(q), NEW t \in Task
    PROVE  /\ Line(RemoveFirst(q, t))
           /\ \A u \in Task : In(RemoveFirst(q, t), u) <=> In(q, u) /\ u # t
           /\ \A u \in Task : First(q, u) /\ u # t => First(RemoveFirst(q, t), u)
<1>1. CASE ~In(q, t)
  BY <1>1 DEF In, RemoveFirst
<1>2. CASE In(q, t)
  <2>1. PICK i \in 1 .. Len(q) : q[i] = t
    BY <1>2 DEF In
  <2>2. {k \in 1 .. Len(q) : q[k] = t} = {i}
    BY <2>1 DEF Line
  <2>3. Min({i}) = i
    BY DEF Min
  <2> DEFINE a == RemoveAt(q, i)
  <2>4. RemoveFirst(q, t) = a
    BY <2>1, <2>2, <2>3 DEF RemoveFirst, SelectInSeq
  <2>5. Len(q) \in Nat /\ i \in Nat \ {0} /\ i <= Len(q) /\ \A k \in 1 .. Len(q) : q[k] \in Task
    BY LenProperties, ElementOfSeq DEF Line
  <2>6. /\ SubSeq(q, 1, i - 1) \in Seq(Task)
        /\ Len(SubSeq(q, 1, i - 1)) = i - 1
        /\ \A k \in 1 .. i - 1 : SubSeq(q, 1, i - 1)[k] = q[k]
    <3>1. 1 \in Int /\ i - 1 \in Int /\ \A k \in 1 .. i - 1 : q[k] \in Task
      BY <2>5
    <3>2. /\ SubSeq(q, 1, i - 1) \in Seq(Task)
          /\ Len(SubSeq(q, 1, i - 1)) = IF 1 <= i - 1 THEN (i - 1) - 1 + 1 ELSE 0
          /\ \A k \in 1 .. (i - 1) - 1 + 1 : SubSeq(q, 1, i - 1)[k] = q[1 + k - 1]
      BY <3>1, SubSeqProperties
    <3> QED
      BY <2>5, <3>2
  <2>7. /\ SubSeq(q, i + 1, Len(q)) \in Seq(Task)
        /\ Len(SubSeq(q, i + 1, Len(q))) = Len(q) - i
        /\ \A k \in 1 .. Len(q) - i : SubSeq(q, i + 1, Len(q))[k] = q[i + k]
    <3>1. i + 1 \in Int /\ Len(q) \in Int /\ \A k \in i + 1 .. Len(q) : q[k] \in Task
      BY <2>5
    <3>2. /\ SubSeq(q, i + 1, Len(q)) \in Seq(Task)
          /\ Len(SubSeq(q, i + 1, Len(q))) = IF i + 1 <= Len(q) THEN Len(q) - (i + 1) + 1 ELSE 0
          /\ \A k \in 1 .. Len(q) - (i + 1) + 1 :
                SubSeq(q, i + 1, Len(q))[k] = q[(i + 1) + k - 1]
      BY <3>1, SubSeqProperties
    <3> QED
      BY <2>5, <3>2
  <2>8. /\ a \in Seq(Task) /\ Len(a) = Len(q) - 1
        /\ \A k \in 1 .. Len(a) : a[k] = IF k < i THEN q[k] ELSE q[k + 1]
    <3> DEFINE front == SubSeq(q, 1, i - 1)
               rest == SubSeq(q, i + 1, Len(q))
    <3>1. front \in Seq(Task) /\ rest \in Seq(Task) /\ a = front \o rest
      BY <2>6, <2>7 DEF RemoveAt
    <3>2. Len(front) = i - 1 /\ Len(rest) = Len(q) - i
      BY <2>6, <2>7
    <3>3. /\ \A k \in 1 .. i - 1 : front[k] = q[k]
          /\ \A k \in 1 .. Len(q) - i : rest[k] = q[i + k]
      BY <2>6, <2>7
    <3> HIDE DEF front, rest, a
    <3>4. /\ a \in Seq(Task) /\ Len(a) = Len(front) + Len(rest)
          /\ \A k \in 1 .. Len(front) + Len(rest) :
                a[k] = IF k <= Len(front) THEN front[k] ELSE rest[k - Len(front)]
      BY <3>1, ConcatProperties
    <3>5. Len(a) = Len(q) - 1 /\ Len(front) + Len(rest) = Len(q) - 1
      BY <2>5, <3>2, <3>4
    <3>6. ASSUME NEW k \in 1 .. Len(a), k < i
          PROVE  a[k] = q[k]
      <4>1. k \in 1 .. i - 1 /\ k <= Len(front) /\ k \in 1 .. Len(front) + Len(rest)
        BY <2>5, <3>2, <3>5, <3>6
      <4> QED
        BY <3>3, <3>4, <4>1
    <3>7. ASSUME NEW k \in 1 .. Len(a), ~ k < i
          PROVE  a[k] = q[k + 1]
      <4>1. /\ ~ k <= Len(front) /\ k \in 1 .. Len(front) + Len(rest)
            /\ k - Len(front) \in 1 .. Len(q) - i /\ i + (k - Len(front)) = k + 1
        BY <2>5, <3>2, <3>5, <3>7
      <4> QED
        BY <3>3, <3>4, <4>1
    <3> QED
      BY <3>4, <3>5, <3>6, <3>7
  <2> HIDE DEF a
  <2>9. \A k \in 1 .. Len(a) : \E n \in 1 .. Len(q) :
           n # i /\ a[k] = q[n] /\ n = (IF k < i THEN k ELSE k + 1)
    BY <2>5, <2>8
  <2>10. \A n \in 1 .. Len(q) : n # i =>
            \E k \in 1 .. Len(a) : a[k] = q[n] /\ k = (IF n < i THEN n ELSE n - 1)
    <3> SUFFICES ASSUME NEW n \in 1 .. Len(q), n # i
                 PROVE  \E k \in 1 .. Len(a) : a[k] = q[n] /\ k = (IF n < i THEN n ELSE n - 1)
      OBVIOUS
    <3>1. CASE n < i
      BY <2>5, <2>8, <3>1
    <3>2. CASE n > i
      <4>1. n - 1 \in 1 .. Len(a) /\ a[n - 1] = q[n] /\ ~ n < i
        BY <2>5, <2>8, <3>2
      <4> QED
        BY <4>1
    <3> QED
      BY <2>5, <3>1, <3>2
  <2>11. Line(a)
    <3>1. ASSUME NEW k \in 1 .. Len(a), NEW m \in 1 .. Len(a), a[k] = a[m]
          PROVE  k = m
      <4>1. PICK x \in 1 .. Len(q) : a[k] = q[x] /\ x = (IF k < i THEN k ELSE k + 1)
        BY <2>9
      <4>2. PICK y \in 1 .. Len(q) : a[m] = q[y] /\ y = (IF m < i THEN m ELSE m + 1)
        BY <2>9
      <4>3. x = y
        BY <3>1, <4>1, <4>2 DEF Line
      <4> QED
        BY <2>5, <4>1, <4>2, <4>3
    <3> QED
      BY <2>8, <3>1 DEF Line
  <2>12. \A u \in Task : In(a, u) => In(q, u) /\ u # t
    BY <2>1, <2>9 DEF In, Line
  <2>13. \A u \in Task : In(q, u) /\ u # t => In(a, u)
    BY <2>1, <2>10 DEF In
  <2>14. ASSUME NEW u \in Task, First(q, u), u # t
         PROVE  First(a, u)
    <3>1. q \in Seq(Task) /\ 1 \in 1 .. Len(q) /\ q[1] = u
      BY <2>14, <2>5 DEF First, Line
    <3>2. 1 # i /\ 1 < i
      BY <2>1, <2>5, <2>14, <3>1
    <3>3. a[1] = u /\ Len(a) >= 1
      BY <2>5, <2>8, <3>1, <3>2
    <3> QED
      BY <2>8, <3>3 DEF First
  <2> QED
    BY <2>4, <2>11, <2>12, <2>13, <2>14
<1> QED
  BY <1>1, <1>2

-----------------------------------------------------------------------------
(* The inductive invariant.                                                *)

State == {"disconnected", "connecting", "connected", "reconnecting", "failed"}
ClientState == {"none", "dead", "live"}
Place == {"new", "idle", "waiting", "opening", "using", "asleep", "closing"}
InLine == {"waiting", "opening", "closing"}

ConnectionTypes ==
    /\ state \in State /\ client \in ClientState
    /\ at \in [Task -> Place]
    /\ reconnects \in 0 .. MaxAttempts /\ shutdown \in BOOLEAN /\ losses \in 0 .. MaxLosses

\* Who stands in line waits or is served, and only the head is served.
Served == {"opening", "closing"}

Queued ==
    /\ Line(lock)
    /\ \A t \in Task : In(lock, t) <=> at[t] \in InLine
    /\ \A t \in Task : at[t] \in Served => First(lock, t)

\* A connection that is up is known to be, and nobody opens another one.
Known ==
    /\ client = "live" => state = "connected"
    /\ \A t \in Task : at[t] = "opening" => client # "live"

\* The setup comes first, disconnect closes once.
Ordered ==
    /\ at[Setup] = "new" => client = "none" /\ \A t \in Task \ {Setup} : at[t] = "idle"
    /\ at[Close] \in {"idle", "waiting", "closing"}
    /\ ~shutdown => at[Close] = "idle"

CInv == ConnectionTypes /\ Queued /\ Known /\ Ordered

\* The setup, the reconnect loop and disconnect are tasks of their own.
LEMMA Tasks ==
    /\ Setup \in Task /\ Loop \in Task /\ Close \in Task
    /\ Setup # Loop /\ Setup # Close /\ Loop # Close
    /\ \A t \in User : t \in Task /\ t # Setup /\ t # Loop /\ t # Close
    /\ Reader \subseteq User /\ Publisher \subseteq User
    /\ MaxAttempts \in Nat /\ MaxAttempts >= 1 /\ MaxLosses \in Nat
BY TaskAssumption, AttemptsAssumption DEF Task, User

LEMMA ConnectionTypeCorrect == CInv => TypeOK
<1> SUFFICES ASSUME CInv PROVE TypeOK
  OBVIOUS
<1>1. lock \in Seq(Task) /\ IsInjective(lock)
  BY DEF CInv, Queued, Line, IsInjective
<1> QED
  BY <1>1 DEF CInv, ConnectionTypes, TypeOK, State, ClientState, Place

LEMMA InitCInv == Init => CInv
<1> SUFFICES ASSUME Init PROVE CInv
  OBVIOUS
<1>0. at \in [Task -> Place] /\ \A t \in Task : at[t] = IF t = Setup THEN "new" ELSE "idle"
  BY DEF Init, Place
<1>1. ConnectionTypes
  <2>1. 0 \in 0 .. MaxAttempts /\ 0 \in 0 .. MaxLosses
    BY Tasks
  <2> QED
    BY <1>0, <2>1 DEF Init, ConnectionTypes, State, ClientState
<1>3. Known
  BY <1>0 DEF Init, Known
<1>4. Ordered
  BY <1>0, Tasks DEF Init, Ordered
<1>2. Queued
  BY <1>0 DEF Init, Queued, Line, In, Served, InLine
<1> QED
  BY <1>1, <1>2, <1>3, <1>4 DEF CInv

-----------------------------------------------------------------------------
(* The line after a step.                                                  *)

\* Task t moves to p without joining or leaving the line, or being served.
LEMMA Moves ==
    ASSUME CInv, NEW t \in Task, NEW p \in Place, p \notin InLine,
           at' = [at EXCEPT ![t] = p], lock' = lock, at[t] \notin InLine
    PROVE  Queued'
BY DEF CInv, ConnectionTypes, Queued, Served, InLine

\* The head t gives the lock back and moves to p.
LEMMA Releases ==
    ASSUME CInv, NEW t \in Task, First(lock, t), NEW p \in Place, p \notin InLine,
           at' = [at EXCEPT ![t] = p], lock' = Tail(lock)
    PROVE  Queued' /\ \A u \in Task : at'[u] \notin Served
<1>1. First(lock, t) /\ Line(lock)
  BY DEF CInv, Queued
<1>2. \A u \in Task : at'[u] \notin Served
  BY <1>1 DEF CInv, ConnectionTypes, Queued, First, Served, InLine
<1> QED
  BY <1>1, <1>2, HandedOn DEF CInv, ConnectionTypes, Queued

\* Task t gets in line, and is served at once when nobody else is there.
LEMMA Joins ==
    ASSUME CInv, NEW t \in Task, ~In(lock, t), NEW p \in Place,
           p = "waiting" \/ (lock = <<>> /\ p \in Served),
           at' = [at EXCEPT ![t] = p], lock' = Append(lock, t)
    PROVE  Queued'
<1>1. Line(lock)
  BY DEF CInv, Queued
<1>2. \A u \in Task : at'[u] = IF u = t THEN p ELSE at[u]
  BY DEF CInv, ConnectionTypes
<1>3. Line(lock')
  BY <1>1, Joined
<1>4. ASSUME NEW u \in Task, In(lock', u)
      PROVE  at'[u] \in InLine
  BY <1>1, <1>2, <1>4, Joined DEF CInv, Queued, InLine, Served
<1>6. ASSUME NEW u \in Task, at'[u] \in InLine
      PROVE  In(lock', u)
  BY <1>1, <1>2, <1>6, Joined DEF CInv, Queued
<1>5. ASSUME NEW u \in Task, at'[u] \in Served
      PROVE  First(lock', u)
  BY <1>1, <1>2, <1>5, Joined DEF CInv, Queued, Served
<1> QED
  BY <1>3, <1>4, <1>5, <1>6 DEF Queued

\* The head is served.
LEMMA Serves ==
    ASSUME CInv, NEW t \in Task, First(lock, t), at[t] = "waiting", NEW p \in Served,
           at' = [at EXCEPT ![t] = p], lock' = lock
    PROVE  Queued'
BY DEF CInv, ConnectionTypes, Queued, Served, InLine

\* Task t is cancelled.
LEMMA Leaves ==
    ASSUME CInv, NEW t \in Task,
           at' = [at EXCEPT ![t] = "idle"], lock' = RemoveFirst(lock, t)
    PROVE  Queued'
<1>1. Line(lock)
  BY DEF CInv, Queued
<1>2. \A u \in Task : at'[u] = IF u = t THEN "idle" ELSE at[u]
  BY DEF CInv, ConnectionTypes
<1> QED
  BY <1>1, <1>2, LeftLine DEF CInv, Queued, Served, InLine

\* Connect by a task that is not in line: it opens at once, or waits.
LEMMA Connecting ==
    ASSUME CInv, NEW t \in Task, ~In(lock, t), Connect(t)
    PROVE  /\ Queued'
           /\ \/ /\ lock = <<>> /\ at' = [at EXCEPT ![t] = "opening"]
                 /\ client' = "dead" /\ state' = "connecting"
              \/ at' = [at EXCEPT ![t] = "waiting"] /\ UNCHANGED <<client, state>>
BY Joins DEF Connect, Opening, Served, Place

-----------------------------------------------------------------------------
(* The steps.                                                              *)

\* What stays when t moves from one place to another and has not been new.
LEMMA Moved ==
    ASSUME CInv, NEW t \in Task, NEW p \in Place, at' = [at EXCEPT ![t] = p]
    PROVE  at' \in [Task -> Place] /\ \A u \in Task : at'[u] = IF u = t THEN p ELSE at[u]
BY DEF CInv, ConnectionTypes

\* Who is not in one of the places of the line is not in line.
LEMMA NotInLine ==
    ASSUME CInv, NEW t \in Task
    PROVE  /\ at[t] \notin InLine => ~In(lock, t)
           /\ at[t] \in InLine => lock # <<>>
<1>1. lock = <<>> => ~In(lock, t)
  BY DEF In
<1> QED
  BY <1>1 DEF CInv, Queued

\* As long as the setup has not begun, nothing else moves.
LEMMA SetupFirst ==
    ASSUME CInv, NEW t \in Task, t # Setup, at[t] # "idle"
    PROVE  at[Setup] # "new"
BY DEF CInv, Ordered

LEMMA OpenSucceedsKeeps ==
    ASSUME CInv, NEW t \in Task, OpenSucceeds(t)
    PROVE  CInv'
<1>1. at[t] = "opening" /\ at[t] \in Served /\ lock' = Tail(lock)
  BY DEF OpenSucceeds, Served
<1>2. PICK p \in {"using", "idle"} : at' = [at EXCEPT ![t] = p]
  BY DEF OpenSucceeds, With
<1>3. p \in Place /\ p \notin InLine /\ First(lock, t)
  BY <1>1 DEF Place, InLine, CInv, Queued
<1>4. Queued' /\ \A u \in Task : at'[u] \notin Served
  BY <1>1, <1>2, <1>3, Releases
<1>5. at' \in [Task -> Place] /\ \A u \in Task : at'[u] = IF u = t THEN p ELSE at[u]
  BY <1>2, <1>3, Moved
<1>6. ConnectionTypes'
  BY <1>5, Tasks DEF CInv, ConnectionTypes, OpenSucceeds, State, ClientState
<1>7. Known'
  BY <1>4 DEF Known, OpenSucceeds, Served
<1>8. t # Close /\ at[Setup] # "opening" => at[Setup] # "new"
  BY <1>1, Tasks DEF CInv, Ordered
<1>9. Ordered'
  BY <1>1, <1>5, <1>8, Tasks DEF CInv, Ordered, OpenSucceeds
<1> QED
  BY <1>4, <1>6, <1>7, <1>9 DEF CInv

LEMMA UserFailsKeeps ==
    ASSUME CInv, NEW t \in Task, t # Loop, at[t] = "opening", UserFails(t),
           UNCHANGED <<shutdown, losses>>
    PROVE  CInv'
<1>1. at[t] \in Served /\ client # "live" /\ t # Close /\ First(lock, t)
  BY Tasks DEF CInv, Queued, Known, Ordered, Served
<1> DEFINE failed == [at EXCEPT ![t] = Without(t)]
<1>2. Without(t) \in {"asleep", "idle"} /\ Without(t) \in Place /\ Without(t) \notin InLine
  BY DEF Without, Place, InLine
<1>3. failed \in [Task -> Place] /\ \A u \in Task : failed[u] = IF u = t THEN Without(t) ELSE at[u]
  BY <1>2 DEF CInv, ConnectionTypes
<1>4. at[Setup] # "new" /\ failed[Setup] # "new"
  BY <1>2, <1>3, Tasks DEF CInv, Ordered
<1>5. CASE at' = failed /\ lock' = Released(t) /\ UNCHANGED client
  <2>1. Queued' /\ \A u \in Task : at'[u] \notin Served
    BY <1>1, <1>2, <1>5, Releases DEF Released
  <2>2. ConnectionTypes'
    BY <1>3, <1>5 DEF CInv, ConnectionTypes, UserFails, State
  <2>3. Known'
    BY <1>1, <1>5, <2>1 DEF Known, Served
  <2>4. Ordered'
    BY <1>1, <1>3, <1>4, <1>5, Tasks DEF CInv, Ordered
  <2> QED
    BY <2>1, <2>2, <2>3, <2>4 DEF CInv
<1>6. CASE /\ at[Loop] = "idle"
           /\ lock' = Append(Released(t), Loop)
           /\ state' = IF Released(t) = <<>> THEN "connecting" ELSE "reconnecting"
           /\ client' = "dead"
           /\ at' = [failed EXCEPT ![Loop] = IF Released(t) = <<>> THEN "opening" ELSE "waiting"]
  <2> DEFINE p == IF Released(t) = <<>> THEN "opening" ELSE "waiting"
  <2>1. at' \in [Task -> Place] /\ \A u \in Task : at'[u] = IF u = Loop THEN p ELSE failed[u]
    BY <1>3, <1>6, Tasks DEF Place
  <2>2. Line(Released(t)) /\ \A u \in Task : In(Released(t), u) <=> In(lock, u) /\ u # t
    BY <1>1, HandedOn DEF CInv, Queued, Released
  <2>3. ~In(lock, Loop) /\ ~In(Released(t), Loop)
    BY <1>6, <2>2, NotInLine, Tasks DEF InLine
  <2>4. \A u \in Task : failed[u] \notin Served
    BY <1>1, <1>2, <1>3 DEF CInv, Queued, First, Served, InLine
  <2>5. Queued'
    <3>1. Line(lock')
      BY <1>6, <2>2, <2>3, Joined, Tasks
    <3>2. ASSUME NEW u \in Task, In(lock', u)
          PROVE  at'[u] \in InLine
      <4>1. In(Released(t), u) \/ u = Loop
        BY <1>6, <2>2, <2>3, <3>2, Joined, Tasks
      <4> QED
        BY <1>3, <2>1, <2>2, <4>1 DEF CInv, Queued, InLine
    <3>4. ASSUME NEW u \in Task, at'[u] \in InLine
          PROVE  In(lock', u)
      <4>1. u = Loop \/ (u # t /\ at[u] \in InLine)
        BY <1>2, <1>3, <2>1, <3>4 DEF InLine
      <4> QED
        BY <1>6, <2>2, <2>3, <4>1, Joined, Tasks DEF CInv, Queued
    <3>3. ASSUME NEW u \in Task, at'[u] \in Served
          PROVE  First(lock', u)
      <4>1. u = Loop /\ Released(t) = <<>>
        BY <2>1, <2>4, <3>3 DEF Served
      <4> QED
        BY <1>6, <2>2, <2>3, <4>1, Joined, Tasks
    <3> QED
      BY <3>1, <3>2, <3>3, <3>4 DEF Queued
  <2>6. ConnectionTypes'
    BY <1>6, <2>1 DEF CInv, ConnectionTypes, UserFails, State, ClientState
  <2>7. Known'
    BY <1>6 DEF Known
  <2>8. Ordered'
    BY <1>1, <1>3, <1>4, <2>1, Tasks DEF CInv, Ordered
  <2> QED
    BY <2>5, <2>6, <2>7, <2>8 DEF CInv
<1> QED
  BY <1>5, <1>6 DEF UserFails

LEMMA LoopFailsKeeps ==
    ASSUME CInv, at[Loop] = "opening", LoopFails, UNCHANGED <<shutdown, losses>>
    PROVE  CInv'
<1>1. at[Loop] \in Served /\ client # "live" /\ Loop \in Task
  BY Tasks DEF CInv, Known, Served
<1>2. PICK p \in {"asleep", "idle"} : at' = [at EXCEPT ![Loop] = p]
  BY DEF LoopFails
<1>3. p \in Place /\ p \notin InLine /\ First(lock, Loop)
  BY <1>1 DEF Place, InLine, CInv, Queued
<1>4. Queued' /\ \A u \in Task : at'[u] \notin Served
  BY <1>1, <1>2, <1>3, Releases DEF LoopFails, Released
<1>5. at' \in [Task -> Place] /\ \A u \in Task : at'[u] = IF u = Loop THEN p ELSE at[u]
  BY <1>1, <1>2, <1>3, Moved
<1>6. ConnectionTypes'
  <2>1. Counted \in 0 .. MaxAttempts
    BY Tasks DEF CInv, ConnectionTypes, Counted
  <2> QED
    BY <1>5, <2>1 DEF CInv, ConnectionTypes, LoopFails, State
<1>7. Known'
  BY <1>1, <1>4 DEF Known, LoopFails, Served
<1>8. Ordered'
  BY <1>5, Tasks DEF CInv, Ordered
<1> QED
  BY <1>4, <1>6, <1>7, <1>8 DEF CInv

\* After Connect by a task that was in no line and is not disconnect's.
LEMMA ConnectKeeps ==
    ASSUME CInv, NEW t \in Task, t # Close, at[t] \notin InLine, client # "live" \/ state = "connected",
           lock = <<>> => client # "live",
           t = Setup \/ at[Setup] # "new",
           Connect(t), UNCHANGED <<reconnects, shutdown, losses>>
    PROVE  CInv' /\ (client = "live" => client' = "live")
<1>1. ~In(lock, t)
  BY NotInLine
<1>2. PICK p \in {"opening", "waiting"} : at' = [at EXCEPT ![t] = p]
  BY <1>1, Connecting
<1>3. at' \in [Task -> Place] /\ \A u \in Task : at'[u] = IF u = t THEN p ELSE at[u]
  BY <1>2, Moved DEF Place
<1>4. Queued'
  BY <1>1, Connecting
<1>5. ConnectionTypes' /\ Known' /\ (client = "live" => client' = "live")
  <2>1. CASE lock = <<>> /\ client' = "dead" /\ state' = "connecting"
    BY <1>3, <2>1 DEF CInv, ConnectionTypes, Known, State, ClientState
  <2>2. CASE at' = [at EXCEPT ![t] = "waiting"] /\ UNCHANGED <<client, state>>
    <3>1. \A u \in Task : at'[u] = IF u = t THEN "waiting" ELSE at[u]
      BY <2>2, Moved DEF Place
    <3> QED
      BY <1>3, <2>2, <3>1 DEF CInv, ConnectionTypes, Known
  <2> QED
    BY <1>1, <2>1, <2>2, Connecting
<1>6. Ordered'
  BY <1>3, Tasks DEF CInv, Ordered
<1> QED
  BY <1>4, <1>5, <1>6 DEF CInv

\* A task moves without touching the line, the client or the state.
LEMMA MoveKeeps ==
    ASSUME CInv, NEW t \in Task, t # Setup, t # Close, at[t] \notin InLine, at[t] # "new",
           at[Setup] # "new",
           NEW p \in {"idle", "using", "asleep"}, at' = [at EXCEPT ![t] = p],
           UNCHANGED <<state, client, lock, reconnects, shutdown, losses>>
    PROVE  CInv'
<1>1. at' \in [Task -> Place] /\ \A u \in Task : at'[u] = IF u = t THEN p ELSE at[u]
  BY Moved DEF Place
<1>2. Queued'
  BY Moves DEF Place, InLine
<1>3. ConnectionTypes' /\ Known' /\ Ordered'
  BY <1>1, Tasks DEF CInv, ConnectionTypes, Known, Ordered
<1> QED
  BY <1>2, <1>3 DEF CInv

LEMMA GetLockKeeps ==
    ASSUME CInv, NEW t \in Task, GetLock(t)
    PROVE  CInv' /\ (client = "live" => client' = "live")
<1>1. at[t] = "waiting" /\ Head(lock) = t /\ t # Close /\ UNCHANGED <<reconnects, shutdown, losses>>
  BY DEF GetLock
<1>2. t = Setup \/ at[Setup] # "new"
  BY <1>1, SetupFirst
<1>3. at[Setup] # "new"
  BY <1>1, <1>2
<1>5. First(lock, t)
  BY <1>1, NotInLine DEF First, InLine
<1>4. CASE state = "connected"
  <2>1. PICK p \in {"using", "idle"} : at' = [at EXCEPT ![t] = p]
    BY <1>1, <1>4 DEF GetLock, Proceed, With
  <2>2. lock' = Tail(lock) /\ UNCHANGED <<state, client>>
    BY <1>1, <1>4 DEF GetLock, Proceed
  <2>3. at' \in [Task -> Place] /\ \A u \in Task : at'[u] = IF u = t THEN p ELSE at[u]
    BY <2>1, Moved DEF Place
  <2>4. ConnectionTypes' /\ Known' /\ Ordered'
    BY <1>1, <1>3, <2>2, <2>3, Tasks DEF CInv, ConnectionTypes, Known, Ordered
  <2>5. Queued'
    BY <1>5, <2>1, <2>2, Releases DEF Place, InLine
  <2> QED
    BY <2>2, <2>4, <2>5 DEF CInv
<1>6. CASE state # "connected"
  <2>1. /\ at' = [at EXCEPT ![t] = "opening"] /\ client' = "dead" /\ state' = "connecting"
        /\ lock' = lock
    BY <1>1, <1>6 DEF GetLock, Proceed, Opening
  <2>2. at' \in [Task -> Place] /\ \A u \in Task : at'[u] = IF u = t THEN "opening" ELSE at[u]
    BY <2>1, Moved DEF Place
  <2>3. Queued'
    BY <1>1, <1>5, <2>1, Serves DEF Served
  <2>4. ConnectionTypes' /\ Known' /\ Ordered'
    BY <1>1, <1>3, <2>1, <2>2, Tasks DEF CInv, ConnectionTypes, Known, Ordered, State, ClientState
  <2> QED
    BY <1>6, <2>3, <2>4 DEF CInv, Known
<1> QED
  BY <1>4, <1>6

LEMMA StopReaderKeeps ==
    ASSUME CInv, NEW r \in Task, StopReader(r)
    PROVE  CInv'
<1>1. /\ r \in Reader /\ at[r] # "idle" /\ at' = [at EXCEPT ![r] = "idle"]
      /\ lock' = RemoveFirst(lock, r)
      /\ UNCHANGED <<state, client, reconnects, shutdown, losses>>
  BY DEF StopReader
<1>2. at' \in [Task -> Place] /\ \A u \in Task : at'[u] = IF u = r THEN "idle" ELSE at[u]
  BY <1>1, Moved DEF Place
<1>3. Queued'
  BY <1>1, Leaves
<1>4. ConnectionTypes' /\ Known' /\ Ordered'
  BY <1>1, <1>2, Tasks DEF CInv, ConnectionTypes, Known, Ordered
<1> QED
  BY <1>3, <1>4 DEF CInv

LEMMA DisconnectKeeps ==
    ASSUME CInv, Disconnect
    PROVE  CInv'
<1> DEFINE others == RemoveFirst(lock, Loop)
           p == IF others = <<>> THEN "closing" ELSE "waiting"
<1>1. /\ ~shutdown /\ shutdown' = TRUE /\ at[Setup] = "idle"
      /\ lock' = Append(others, Close)
      /\ at' = [at EXCEPT ![Loop] = "idle", ![Close] = p]
      /\ UNCHANGED <<state, client, reconnects, losses>>
  BY DEF Disconnect
<1>2. /\ at' \in [Task -> Place]
      /\ \A u \in Task : at'[u] = IF u = Close THEN p ELSE IF u = Loop THEN "idle" ELSE at[u]
  BY <1>1, Tasks DEF CInv, ConnectionTypes, Place
<1>3. at[Close] = "idle" /\ ~In(lock, Close)
  BY <1>1, NotInLine, Tasks DEF CInv, Ordered, InLine
<1>4. /\ Line(others)
      /\ \A u \in Task : In(others, u) <=> In(lock, u) /\ u # Loop
      /\ \A u \in Task : First(lock, u) /\ u # Loop => First(others, u)
      /\ ~In(others, Close)
  BY <1>3, LeftLine, Tasks DEF CInv, Queued
<1> HIDE DEF others
<1>5. Queued'
  <2>1. Line(lock')
    BY <1>1, <1>4, Joined, Tasks
  <2>2. ASSUME NEW u \in Task
        PROVE  In(lock', u) <=> at'[u] \in InLine
    <3>1. In(lock', u) <=> (In(lock, u) /\ u # Loop) \/ u = Close
      BY <1>1, <1>4, Joined, Tasks
    <3>2. p \in InLine /\ "idle" \notin InLine
      BY DEF InLine
    <3> QED
      BY <1>2, <3>1, <3>2, Tasks DEF CInv, Queued
  <2>3. ASSUME NEW u \in Task, at'[u] \in Served
        PROVE  First(lock', u)
    <3>1. (u = Close /\ others = <<>>) \/ (u # Loop /\ at[u] \in Served)
      BY <1>2, <2>3 DEF Served
    <3> QED
      BY <1>1, <1>4, <3>1, Joined, Tasks DEF CInv, Queued
  <2> QED
    BY <2>1, <2>2, <2>3 DEF Queued
<1>6. ConnectionTypes' /\ Known' /\ Ordered'
  BY <1>1, <1>2, Tasks DEF CInv, ConnectionTypes, Known, Ordered
<1> QED
  BY <1>5, <1>6 DEF CInv

LEMMA CloseKeeps ==
    ASSUME CInv, CloseGetsLock \/ Closed
    PROVE  CInv'
<1>1. CASE CloseGetsLock
  <2>1. First(lock, Close) /\ at[Close] = "waiting" /\ at' = [at EXCEPT ![Close] = "closing"]
        /\ UNCHANGED <<state, client, lock, reconnects, shutdown, losses>>
    BY <1>1, NotInLine, Tasks DEF CloseGetsLock, First, InLine
  <2>2. /\ at' \in [Task -> Place]
        /\ \A u \in Task : at'[u] = IF u = Close THEN "closing" ELSE at[u]
    BY <2>1, Moved, Tasks DEF Place
  <2>3. Queued'
    BY <2>1, Serves, Tasks DEF Served
  <2>4. shutdown /\ at[Setup] # "new"
    BY <2>1, SetupFirst, Tasks DEF CInv, ConnectionTypes, Ordered
  <2>5. ConnectionTypes' /\ Known' /\ Ordered'
    BY <2>1, <2>2, <2>4, Tasks DEF CInv, ConnectionTypes, Known, Ordered
  <2> QED
    BY <2>3, <2>5 DEF CInv
<1>2. CASE Closed
  <2>1. at[Close] = "closing" /\ client' = "none" /\ state' = "disconnected"
        /\ lock' = Tail(lock) /\ at' = [at EXCEPT ![Close] = "idle"]
        /\ UNCHANGED <<reconnects, shutdown, losses>>
    BY <1>2 DEF Closed
  <2>2. /\ at' \in [Task -> Place]
        /\ \A u \in Task : at'[u] = IF u = Close THEN "idle" ELSE at[u]
    BY <2>1, Moved, Tasks DEF Place
  <2>3. Queued'
    BY <2>1, Releases, Tasks DEF CInv, Queued, Served, InLine, Place
  <2>4. ConnectionTypes' /\ Known' /\ Ordered'
    BY <2>1, <2>2, Tasks DEF CInv, ConnectionTypes, Known, Ordered, State, ClientState
  <2> QED
    BY <2>3, <2>4 DEF CInv
<1> QED
  BY <1>1, <1>2

\* The users and the sleeping loop: they move, or call Connect.
LEMMA EnsureConnectedKeeps ==
    ASSUME CInv, NEW t \in Task, EnsureConnected(t)
    PROVE  CInv' /\ (client = "live" => client' = "live")
<1>1. /\ t \in User /\ at[Setup] # "new" /\ at[t] \in {"idle", "asleep"}
      /\ UNCHANGED <<reconnects, shutdown, losses>>
  BY DEF EnsureConnected
<1>2. t # Setup /\ t # Close /\ at[t] \notin InLine /\ at[t] # "new"
  BY <1>1, Tasks DEF InLine
<1>3. CASE \/ state = "connected" /\ at' = [at EXCEPT ![t] = "using"] /\ UNCHANGED <<state, client, lock>>
           \/ at' = [at EXCEPT ![t] = Without(t)] /\ UNCHANGED <<state, client, lock>>
  <2>1. PICK p \in {"idle", "using", "asleep"} : at' = [at EXCEPT ![t] = p]
    BY <1>3 DEF Without
  <2>2. UNCHANGED <<state, client, lock>>
    BY <1>3
  <2> QED
    BY <1>1, <1>2, <2>1, <2>2, MoveKeeps
<1>4. CASE ~(state = "connected" /\ client # "none") /\ Connect(t)
  <2>1. client # "live"
    BY <1>4 DEF CInv, Known
  <2> QED
    BY <1>1, <1>2, <1>4, <2>1, ConnectKeeps
<1> QED
  BY <1>3, <1>4 DEF EnsureConnected

LEMMA LoopWakesKeeps ==
    ASSUME CInv, LoopWakes
    PROVE  CInv' /\ (client = "live" => client' = "live")
<1>1. /\ at[Loop] = "asleep" /\ at[Loop] \notin InLine /\ Loop \in Task /\ Loop # Close
      /\ Loop # Setup /\ at[Setup] # "new" /\ UNCHANGED <<reconnects, shutdown, losses>>
  BY SetupFirst, Tasks DEF LoopWakes, InLine
<1>2. CASE at' = [at EXCEPT ![Loop] = "idle"] /\ UNCHANGED <<state, client, lock>>
  BY <1>1, <1>2, MoveKeeps
<1>3. CASE ~(state = "connected" /\ lock = <<>>) /\ Connect(Loop)
  <2>1. (client # "live" \/ state = "connected") /\ (lock = <<>> => client # "live")
    BY <1>3 DEF CInv, Known
  <2> QED
    BY <1>1, <1>3, <2>1, ConnectKeeps
<1> QED
  BY <1>2, <1>3 DEF LoopWakes

LEMMA SetUpKeeps ==
    ASSUME CInv, SetUp
    PROVE  CInv' /\ (client = "live" => client' = "live")
<1>1. client # "live" /\ at[Setup] \notin InLine
  BY DEF SetUp, CInv, Ordered, InLine
<1> QED
  BY <1>1, ConnectKeeps, Tasks DEF SetUp

LEMMA ConnectionBreaksKeeps ==
    ASSUME CInv, ConnectionBreaks
    PROVE  CInv'
<1>1. ConnectionTypes'
  BY Tasks DEF CInv, ConnectionTypes, ConnectionBreaks, ClientState
<1>2. Queued'
  BY DEF CInv, Queued, ConnectionBreaks
<1>3. Known' /\ Ordered'
  BY DEF CInv, Known, Ordered, ConnectionBreaks
<1> QED
  BY <1>1, <1>2, <1>3 DEF CInv

-----------------------------------------------------------------------------
(* The theorems.                                                           *)

\* Every step keeps the invariant, and the connection unless it breaks or is closed.
LEMMA StepKeeps ==
    ASSUME CInv, [Next]_connectionVars
    PROVE  CInv' /\ (client = "live" /\ client' # "live" => ConnectionBreaks \/ Closed)
<1>1. CASE UNCHANGED connectionVars
  <2>1. ConnectionTypes' /\ Known' /\ Ordered'
    BY <1>1 DEF CInv, ConnectionTypes, Known, Ordered, connectionVars
  <2>2. Queued'
    BY <1>1 DEF CInv, Queued, connectionVars
  <2> QED
    BY <1>1, <2>1, <2>2 DEF CInv, connectionVars
<1>2. ASSUME NEW t \in Task, ConnectionStep(t)
      PROVE  CInv' /\ (client = "live" /\ client' # "live" => Closed)
  <2>1. CASE OpenSucceeds(t)
    BY <2>1, OpenSucceedsKeeps DEF OpenSucceeds
  <2>2. CASE OpenFails(t)
    <3>1. at[t] = "opening" /\ client # "live" /\ UNCHANGED <<shutdown, losses>>
      BY <2>2 DEF OpenFails, CInv, Known
    <3>2. CASE t = Loop
      BY <2>2, <3>1, <3>2, LoopFailsKeeps DEF OpenFails
    <3>3. CASE t # Loop
      BY <2>2, <3>1, <3>3, UserFailsKeeps DEF OpenFails
    <3> QED
      BY <3>2, <3>3
  <2>3. CASE GetLock(t)
    BY <2>3, GetLockKeeps
  <2>4. CASE Published(t)
    <3>1. t # Setup /\ t # Close /\ at[t] \notin InLine /\ at[t] = "using" /\ at[Setup] # "new"
      BY <2>4, SetupFirst, Tasks DEF Published, InLine
    <3> QED
      BY <2>4, <3>1, MoveKeeps DEF Published
  <2>5. CASE ReadingEnds(t)
    <3>1. t # Setup /\ t # Close /\ at[t] \notin InLine /\ at[t] = "using" /\ at[Setup] # "new"
      BY <2>5, SetupFirst, Tasks DEF ReadingEnds, InLine
    <3> QED
      BY <2>5, <3>1, MoveKeeps DEF ReadingEnds
  <2>6. CASE LoopWakes
    BY <2>6, LoopWakesKeeps
  <2>7. CASE CloseGetsLock \/ Closed
    BY <2>7, CloseKeeps DEF CloseGetsLock
  <2>8. CASE EnsureConnected(t)
    BY <2>8, EnsureConnectedKeeps
  <2> QED
    BY <1>2, <2>1, <2>2, <2>3, <2>4, <2>5, <2>6, <2>7, <2>8 DEF ConnectionStep
<1>3. CASE SetUp
  BY <1>3, SetUpKeeps
<1>4. ASSUME NEW u \in User, EnsureConnected(u) \/ StopReader(u)
      PROVE  CInv' /\ (client = "live" => client' = "live")
  <2>1. u \in Task
    BY Tasks
  <2>2. StopReader(u) => UNCHANGED client
    BY DEF StopReader
  <2> QED
    BY <1>4, <2>1, <2>2, EnsureConnectedKeeps, StopReaderKeeps
<1>5. CASE Disconnect
  BY <1>5, DisconnectKeeps DEF Disconnect
<1>6. CASE ConnectionBreaks
  BY <1>6, ConnectionBreaksKeeps
<1> QED
  BY <1>1, <1>2, <1>3, <1>4, <1>5, <1>6 DEF Next

\* The inductive invariant of the connection: the line at the lock, who is served,
\* and that the manager knows of a connection that is up (connect,
\* ensure_connected, _reconnect_loop and disconnect of the three managers).
THEOREM ConnectionInvariance == Spec => []CInv
<1>1. Init => CInv
  BY InitCInv
<1>2. CInv /\ [Next]_connectionVars => CInv'
  BY StepKeeps
<1> QED
  BY <1>1, <1>2, PTL DEF Spec

\* Every variable of Connection keeps its type, and no task stands twice in the
\* line for _lock.
THEOREM ConnectionTypesHold == Spec => []TypeOK
BY ConnectionInvariance, ConnectionTypeCorrect, PTL

\* A connection that is up ends only when it breaks or when disconnect closes it:
\* no connect() that has waited for _lock opens another client in its place.
THEOREM ClientKept == Spec => LiveClientKept
<1>1. CInv /\ [Next]_connectionVars
      => [client = "live" /\ client' # "live" => ConnectionBreaks \/ Closed]_connectionVars
  BY StepKeeps
<1> QED
  BY <1>1, ConnectionInvariance, PTL DEF Spec, LiveClientKept

-----------------------------------------------------------------------------
(* The inductive invariant.                                                *)

Events == Seq(Nat)

BatchTypes ==
    /\ published \in Nat /\ waiting \in Events /\ buffer \in Events /\ accepted \in Events
    /\ bus \in [pc : {"idle", "update", "lock", "flush", "off"}, event : Nat]
    /\ timer \in {"sleep", "flush", "off"}
    /\ stopper \in {"off", "drain", "flush", "raised", "bus", "stopped"}
    /\ flushing \in [bus : Events, timer : Events, stopper : Events]

\* One of the two tasks flushes at a time, and only who flushes holds events.
OneFlush ==
    /\ ~(bus.pc = "flush" /\ timer = "flush")
    /\ flushing.bus # <<>> => bus.pc = "flush"
    /\ flushing.timer # <<>> => timer = "flush"

\* The events of `left` are the last ones of `all`, and those before are in `done`.
EndOf(left, all, done) ==
    \E n \in Nat :
        /\ Len(all) = n + Len(left)
        /\ \A i \in 1 .. Len(left) : left[i] = all[n + i]
        /\ \A i \in 1 .. n : all[i] \in done

\* What is not persisted, in its order.
Left == (flushing.bus \o flushing.timer) \o buffer

BInv ==
    /\ BatchTypes /\ OneFlush
    /\ stopper = "off" => EndOf(Left, accepted, persisted)

-----------------------------------------------------------------------------
(* The events that are left.                                               *)

\* Of the two tasks one holds nothing.
LEMMA LeftOf ==
    ASSUME NEW f \in [bus : Events, timer : Events, stopper : Events], NEW b \in Events
    PROVE  /\ f.bus = <<>> => (f.bus \o f.timer) \o b = f.timer \o b
           /\ f.timer = <<>> => (f.bus \o f.timer) \o b = f.bus \o b
           /\ f.bus = <<>> /\ f.timer = <<>> => (f.bus \o f.timer) \o b = b
<1>1. f.bus \in Seq(Nat) /\ f.timer \in Seq(Nat) /\ b \in Seq(Nat)
  BY DEF Events
<1>2. <<>> \o f.timer = f.timer /\ f.bus \o <<>> = f.bus /\ <<>> \o b = b
  BY <1>1, ConcatEmptySeq
<1> QED
  BY <1>2

\* An event comes in behind those that are left.
LEMMA ComesIn ==
    ASSUME NEW left \in Events, NEW all \in Events, NEW done, NEW e \in Nat,
           EndOf(left, all, done)
    PROVE  EndOf(Append(left, e), Append(all, e), done)
<1> DEFINE l == Append(left, e)
           a == Append(all, e)
<1>1. PICK n \in Nat : /\ Len(all) = n + Len(left)
                       /\ \A i \in 1 .. Len(left) : left[i] = all[n + i]
                       /\ \A i \in 1 .. n : all[i] \in done
  BY DEF EndOf
<1>2. /\ Len(left) \in Nat /\ Len(all) \in Nat
      /\ Len(l) = Len(left) + 1 /\ Len(a) = Len(all) + 1
      /\ \A i \in 1 .. Len(left) : l[i] = left[i]
      /\ \A i \in 1 .. Len(all) : a[i] = all[i]
      /\ l[Len(left) + 1] = e /\ a[Len(all) + 1] = e
  BY AppendProperties DEF Events
<1> HIDE DEF l, a
<1>3. Len(a) = n + Len(l)
  BY <1>1, <1>2
<1>4. ASSUME NEW i \in 1 .. Len(l)
      PROVE  l[i] = a[n + i]
  <2>1. CASE i \in 1 .. Len(left)
    <3>1. n + i \in 1 .. Len(all)
      BY <1>1, <1>2, <2>1
    <3> QED
      BY <1>1, <1>2, <2>1, <3>1
  <2>2. CASE i = Len(left) + 1
    <3>1. n + i = Len(all) + 1
      BY <1>1, <1>2, <2>2
    <3> QED
      BY <1>2, <2>2, <3>1
  <2> QED
    BY <1>2, <2>1, <2>2
<1>5. \A i \in 1 .. n : i \in 1 .. Len(all) /\ a[i] \in done
  BY <1>1, <1>2
<1> QED
  BY <1>3, <1>4, <1>5 DEF EndOf, l, a

\* The first ones of those that are left are committed.
LEMMA GoesOut ==
    ASSUME NEW first \in Events, NEW rest \in Events, NEW all \in Events, NEW done,
           EndOf(first \o rest, all, done)
    PROVE  EndOf(rest, all, done \cup ToSet(first))
<1> DEFINE l == first \o rest
<1>1. PICK n \in Nat : /\ Len(all) = n + Len(l)
                       /\ \A i \in 1 .. Len(l) : l[i] = all[n + i]
                       /\ \A i \in 1 .. n : all[i] \in done
  BY DEF EndOf
<1>2. /\ Len(first) \in Nat /\ Len(rest) \in Nat /\ Len(l) = Len(first) + Len(rest)
      /\ \A i \in 1 .. Len(first) + Len(rest) :
            l[i] = IF i <= Len(first) THEN first[i] ELSE rest[i - Len(first)]
  BY ConcatProperties DEF Events
<1> HIDE DEF l
<1> DEFINE m == n + Len(first)
<1>3. m \in Nat /\ Len(all) = m + Len(rest)
  BY <1>1, <1>2
<1>4. ASSUME NEW i \in 1 .. Len(rest)
      PROVE  rest[i] = all[m + i]
  <2>1. /\ Len(first) + i \in 1 .. Len(l) /\ ~ Len(first) + i <= Len(first)
        /\ (Len(first) + i) - Len(first) = i /\ n + (Len(first) + i) = m + i
    BY <1>2
  <2>2. l[Len(first) + i] = rest[i]
    BY <1>2, <2>1
  <2>3. l[Len(first) + i] = all[n + (Len(first) + i)]
    BY <1>1, <2>1
  <2> QED
    BY <2>1, <2>2, <2>3
<1>5. ASSUME NEW i \in 1 .. m
      PROVE  all[i] \in done \cup ToSet(first)
  <2>1. CASE i <= n
    BY <1>1, <2>1
  <2>2. CASE i > n
    <3>1. /\ i - n \in 1 .. Len(first) /\ i - n \in 1 .. Len(l) /\ i - n <= Len(first)
          /\ n + (i - n) = i /\ i - n \in 1 .. Len(first) + Len(rest)
      BY <1>2, <2>2
    <3>2. all[i] = first[i - n]
      BY <1>1, <1>2, <3>1
    <3>3. DOMAIN first = 1 .. Len(first)
      BY LenProperties DEF Events
    <3> QED
      BY <3>1, <3>2, <3>3 DEF ToSet
  <2> QED
    BY <2>1, <2>2
<1> QED
  BY <1>3, <1>4, <1>5 DEF EndOf

LEMMA MoreDone ==
    ASSUME NEW left, NEW all, NEW done, NEW more, EndOf(left, all, done), done \subseteq more
    PROVE  EndOf(left, all, more)
BY DEF EndOf

\* The invariant is as strong as the property.
LEMMA InOrder == BInv => BatchesInOrder
<1> SUFFICES ASSUME BInv, stopper = "off"
             PROVE  LET done == Len(accepted) - Len(Left)
                    IN /\ Left = SubSeq(accepted, done + 1, Len(accepted))
                       /\ ToSet(SubSeq(accepted, 1, done)) \subseteq persisted
  BY DEF BatchesInOrder, Left
<1>1. /\ flushing.bus \in Seq(Nat) /\ flushing.timer \in Seq(Nat) /\ buffer \in Seq(Nat)
      /\ accepted \in Seq(Nat)
  BY DEF BInv, BatchTypes, Events
<1>2. Left \in Seq(Nat)
  BY <1>1, ConcatProperties DEF Left
<1>3. PICK n \in Nat : /\ Len(accepted) = n + Len(Left)
                       /\ \A i \in 1 .. Len(Left) : Left[i] = accepted[n + i]
                       /\ \A i \in 1 .. n : accepted[i] \in persisted
  BY DEF BInv, EndOf
<1>4. Len(Left) \in Nat /\ Len(accepted) \in Nat /\ Len(accepted) - Len(Left) = n
      /\ \A i \in 1 .. Len(accepted) : accepted[i] \in Nat
  BY <1>1, <1>2, <1>3, LenProperties, ElementOfSeq
<1> DEFINE end == SubSeq(accepted, n + 1, Len(accepted))
           start == SubSeq(accepted, 1, n)
<1>5. Left = end
  <2>1. n + 1 \in Int /\ Len(accepted) \in Int
        /\ \A i \in n + 1 .. Len(accepted) : accepted[i] \in Nat
    BY <1>4
  <2>2. /\ end \in Seq(Nat)
        /\ Len(end) = IF n + 1 <= Len(accepted) THEN Len(accepted) - (n + 1) + 1 ELSE 0
        /\ \A i \in 1 .. Len(accepted) - (n + 1) + 1 : end[i] = accepted[(n + 1) + i - 1]
    BY <2>1, SubSeqProperties
  <2> HIDE DEF end
  <2>3. Len(end) = Len(Left)
    BY <1>3, <1>4, <2>2
  <2>4. \A i \in 1 .. Len(Left) : i \in 1 .. Len(accepted) - (n + 1) + 1
                                  /\ (n + 1) + i - 1 = n + i
    BY <1>3, <1>4
  <2>5. \A i \in 1 .. Len(Left) : Left[i] = end[i]
    BY <1>3, <2>2, <2>4
  <2> QED
    BY <1>2, <2>2, <2>3, <2>5, SeqEqual
<1>6. ToSet(start) \subseteq persisted
  <2>1. 1 \in Int /\ n \in Int /\ \A i \in 1 .. n : accepted[i] \in Nat
    BY <1>3, <1>4
  <2>2. /\ start \in Seq(Nat) /\ Len(start) = IF 1 <= n THEN n - 1 + 1 ELSE 0
        /\ \A i \in 1 .. n - 1 + 1 : start[i] = accepted[1 + i - 1]
    BY <2>1, SubSeqProperties
  <2>3. DOMAIN start = 1 .. Len(start)
    BY <2>2, LenProperties
  <2> HIDE DEF start
  <2>4. \A i \in DOMAIN start : i \in 1 .. n /\ i \in 1 .. n - 1 + 1 /\ 1 + i - 1 = i
    BY <2>2, <2>3
  <2> QED
    BY <1>3, <2>2, <2>4 DEF ToSet
<1> QED
  BY <1>4, <1>5, <1>6

-----------------------------------------------------------------------------
(* The steps.                                                              *)

LEMMA InitBInv == BatchInit => BInv
<1> SUFFICES ASSUME BatchInit PROVE BInv
  OBVIOUS
<1>1. <<>> \in Events /\ Len(<<>>) = 0
  BY DEF Events
<1>2. BatchTypes /\ OneFlush
  BY <1>1 DEF BatchInit, BatchTypes, OneFlush, Idle
<1>3. Left = <<>>
  BY <1>1, <1>2, LeftOf DEF BatchInit, Left, BatchTypes
<1>4. EndOf(<<>>, <<>>, persisted)
  BY <1>1 DEF EndOf
<1> QED
  BY <1>2, <1>3, <1>4 DEF BInv, BatchInit

\* Steps that leave the buffer, the flushes and what came in alone.
LEMMA LeavesEvents ==
    ASSUME BInv, UNCHANGED <<buffer, flushing, accepted, persisted, stopper>>, BatchTypes', OneFlush'
    PROVE  BInv'
BY DEF BInv, Left

\* Once stop() has been called the order is no longer promised.
LEMMA AfterStop ==
    ASSUME stopper' # "off", BatchTypes', OneFlush'
    PROVE  BInv'
BY DEF BInv

\* What a step of the tasks does to the types.
LEMMA BufferKeeps ==
    ASSUME BInv, Buffer
    PROVE  BInv'
<1> DEFINE more == Append(buffer, bus.event)
<1>1. /\ bus.pc = "lock" /\ timer # "flush"
      /\ accepted' = Append(accepted, bus.event)
      /\ UNCHANGED <<published, waiting, timer, stopper, persisted, outages>>
  BY DEF Buffer, LockHeld
<1>2. flushing.bus = <<>> /\ flushing.timer = <<>>
  BY <1>1 DEF BInv, OneFlush
<1>3. bus.event \in Nat /\ buffer \in Events /\ accepted \in Events
      /\ flushing \in [bus : Events, timer : Events, stopper : Events]
  BY DEF BInv, BatchTypes
<1>4. more \in Events /\ accepted' \in Events /\ <<>> \in Events
  BY <1>1, <1>3, AppendProperties DEF Events
<1>5. Left = buffer
  BY <1>2, <1>3, LeftOf DEF Left
<1>6. stopper = "off" => EndOf(more, accepted', persisted)
  BY <1>1, <1>3, <1>5, ComesIn DEF BInv
<1> HIDE DEF more
<1>7. CASE bus' = Idle /\ buffer' = more /\ UNCHANGED flushing
  <2>1. BatchTypes' /\ OneFlush'
    BY <1>1, <1>2, <1>4, <1>7 DEF BInv, BatchTypes, OneFlush, Idle
  <2>2. Left' = more
    BY <1>2, <1>3, <1>4, <1>7, LeftOf DEF Left
  <2> QED
    BY <1>1, <1>6, <2>1, <2>2 DEF BInv
<1>8. CASE /\ bus' = [bus EXCEPT !.pc = "flush"]
           /\ buffer' = <<>> /\ flushing' = [flushing EXCEPT !.bus = more]
  <2>1. flushing' \in [bus : Events, timer : Events, stopper : Events]
        /\ flushing'.bus = more /\ flushing'.timer = <<>>
    BY <1>2, <1>3, <1>4, <1>8
  <2>2. BatchTypes' /\ OneFlush'
    BY <1>1, <1>4, <1>8, <2>1 DEF BInv, BatchTypes, OneFlush
  <2>3. Left' = more \o <<>>
    BY <1>4, <1>8, <2>1, LeftOf DEF Left
  <2>4. more \o <<>> = more
    BY <1>4, ConcatEmptySeq DEF Events
  <2> QED
    BY <1>1, <1>6, <2>2, <2>3, <2>4 DEF BInv
<1> QED
  BY <1>7, <1>8 DEF Buffer, more

LEMMA TimeIsUpKeeps ==
    ASSUME BInv, TimeIsUp
    PROVE  BInv'
<1>1. /\ timer = "sleep" /\ bus.pc # "flush" /\ timer' = "flush"
      /\ flushing' = [flushing EXCEPT !["timer"] = buffer] /\ buffer' = <<>>
      /\ UNCHANGED <<published, waiting, bus, stopper, accepted, persisted>>
  BY DEF TimeIsUp, Begins, LockHeld
<1>2. flushing.bus = <<>> /\ flushing.timer = <<>>
  BY <1>1 DEF BInv, OneFlush
<1>3. /\ flushing \in [bus : Events, timer : Events, stopper : Events] /\ buffer \in Events
      /\ <<>> \in Events
  BY DEF BInv, BatchTypes, Events
<1>4. flushing' \in [bus : Events, timer : Events, stopper : Events]
      /\ flushing'.timer = buffer /\ flushing'.bus = <<>>
  BY <1>1, <1>2, <1>3
<1>5. BatchTypes' /\ OneFlush'
  BY <1>1, <1>3, <1>4 DEF BInv, BatchTypes, OneFlush
<1>6. Left = buffer /\ Left' = buffer \o <<>>
  BY <1>1, <1>2, <1>3, <1>4, LeftOf DEF Left
<1>7. buffer \o <<>> = buffer
  BY <1>3, ConcatEmptySeq DEF Events
<1> QED
  BY <1>1, <1>5, <1>6, <1>7 DEF BInv

\* A task's flush ends: the batch is committed, or goes back to the front.
LEMMA FlushEnds ==
    ASSUME BInv, NEW who \in {"bus", "timer"}, NEW other \in {"bus", "timer"} \ {who},
           flushing[other] = <<>>,
           Commits(who) \/ FlushFails(who),
           UNCHANGED <<accepted, stopper>>
    PROVE  /\ flushing' \in [bus : Events, timer : Events, stopper : Events]
           /\ buffer' \in Events /\ flushing'.bus = <<>> /\ flushing'.timer = <<>>
           /\ stopper = "off" => EndOf(Left, accepted, persisted)'
<1>1. /\ flushing \in [bus : Events, timer : Events, stopper : Events] /\ buffer \in Events
      /\ accepted \in Events /\ <<>> \in Events
  BY DEF BInv, BatchTypes, Events
<1> DEFINE batch == flushing[who]
<1>2. batch \in Events /\ Left = batch \o buffer
  BY <1>1, LeftOf DEF Left
<1>3. flushing' = [flushing EXCEPT ![who] = <<>>]
  BY DEF Commits, FlushFails
<1>4. /\ flushing' \in [bus : Events, timer : Events, stopper : Events]
      /\ flushing'.bus = <<>> /\ flushing'.timer = <<>>
  BY <1>1, <1>3
<1>5. CASE Commits(who)
  <2>1. buffer' = buffer /\ persisted' = persisted \cup ToSet(batch)
    BY <1>5 DEF Commits
  <2>2. Left' = buffer
    BY <1>1, <1>4, <2>1, LeftOf DEF Left
  <2>3. stopper = "off" => EndOf(buffer, accepted, persisted \cup ToSet(batch))
    BY <1>1, <1>2, GoesOut DEF BInv
  <2> QED
    BY <1>1, <1>4, <2>1, <2>2, <2>3
<1>6. CASE FlushFails(who)
  <2>1. buffer' = batch \o buffer /\ persisted \subseteq persisted'
    BY <1>6 DEF FlushFails, Requeued
  <2>2. buffer' \in Events
    BY <1>1, <1>2, <2>1, ConcatProperties DEF Events
  <2>3. Left' = Left
    BY <1>2, <1>4, <2>1, <2>2, LeftOf DEF Left
  <2>4. stopper = "off" => EndOf(Left, accepted, persisted')
    BY <2>1, MoreDone DEF BInv
  <2> QED
    BY <1>4, <2>2, <2>3, <2>4
<1> QED
  BY <1>5, <1>6

LEMMA BusFlushedKeeps ==
    ASSUME BInv, BusFlushed
    PROVE  BInv'
<1>1. /\ bus.pc = "flush" /\ bus' = Idle /\ (Commits("bus") \/ FlushFails("bus"))
      /\ UNCHANGED <<published, waiting, timer, stopper, accepted>>
  BY DEF BusFlushed
<1>2. flushing["timer"] = <<>>
  BY <1>1 DEF BInv, OneFlush
<1>3. /\ flushing' \in [bus : Events, timer : Events, stopper : Events]
      /\ buffer' \in Events /\ flushing'.bus = <<>> /\ flushing'.timer = <<>>
      /\ stopper = "off" => EndOf(Left, accepted, persisted)'
  BY <1>1, <1>2, FlushEnds
<1>4. BatchTypes' /\ OneFlush'
  BY <1>1, <1>3 DEF BInv, BatchTypes, OneFlush, Idle
<1> QED
  BY <1>1, <1>3, <1>4 DEF BInv

LEMMA TimerFlushedKeeps ==
    ASSUME BInv, TimerFlushed
    PROVE  BInv'
<1>1. /\ timer = "flush" /\ timer' = "sleep" /\ (Commits("timer") \/ FlushFails("timer"))
      /\ UNCHANGED <<published, waiting, bus, stopper, accepted>>
  BY DEF TimerFlushed, AfterFailure
<1>2. flushing["bus"] = <<>>
  BY <1>1 DEF BInv, OneFlush
<1>3. /\ flushing' \in [bus : Events, timer : Events, stopper : Events]
      /\ buffer' \in Events /\ flushing'.bus = <<>> /\ flushing'.timer = <<>>
      /\ stopper = "off" => EndOf(Left, accepted, persisted)'
  BY <1>1, <1>2, FlushEnds
<1>4. BatchTypes' /\ OneFlush'
  BY <1>1, <1>3 DEF BInv, BatchTypes, OneFlush
<1> QED
  BY <1>1, <1>3, <1>4 DEF BInv

LEMMA BusTakesKeep ==
    ASSUME BInv, Publish \/ Take \/ UpdateCache
    PROVE  BInv'
<1>1. CASE Publish
  <2>1. published + 1 \in Nat
    BY DEF BInv, BatchTypes
  <2>2. waiting' \in Events
    BY <1>1, <2>1, AppendProperties DEF BInv, BatchTypes, Publish, Events
  <2>3. BatchTypes' /\ OneFlush'
    BY <1>1, <2>1, <2>2 DEF BInv, BatchTypes, OneFlush, Publish
  <2> QED
    BY <1>1, <2>3, LeavesEvents DEF Publish
<1>2. CASE Take
  <2>1. Head(waiting) \in Nat /\ Tail(waiting) \in Events
    BY <1>2, HeadTailProperties DEF BInv, BatchTypes, Take, Events
  <2>2. BatchTypes' /\ OneFlush'
    BY <1>2, <2>1 DEF BInv, BatchTypes, OneFlush, Take
  <2> QED
    BY <1>2, <2>2, LeavesEvents DEF Take
<1>3. CASE UpdateCache
  <2>1. bus' \in [pc : {"idle", "lock"}, event : Nat] /\ bus.pc = "update"
    BY <1>3 DEF BInv, BatchTypes, UpdateCache, Idle
  <2>2. BatchTypes' /\ OneFlush'
    BY <1>3, <2>1 DEF BInv, BatchTypes, OneFlush, UpdateCache
  <2> QED
    BY <1>3, <2>2, LeavesEvents DEF UpdateCache
<1> QED
  BY <1>1, <1>2, <1>3

LEMMA StoppingKeeps ==
    ASSUME BInv, Stop \/ Drain \/ Drained \/ StopBus
    PROVE  BInv'
<1>0. /\ flushing \in [bus : Events, timer : Events, stopper : Events] /\ buffer \in Events
      /\ <<>> \in Events
  BY DEF BInv, BatchTypes, Events
<1>1. CASE Stop
  <2>1. BatchTypes' /\ OneFlush' /\ stopper' # "off"
    BY <1>0, <1>1 DEF BInv, BatchTypes, OneFlush, Stop, Cancelled
  <2> QED
    BY <2>1, AfterStop
<1>2. CASE Drain
  <2>1. BatchTypes' /\ OneFlush' /\ stopper' # "off"
    BY <1>0, <1>2 DEF BInv, BatchTypes, OneFlush, Drain, Begins
  <2> QED
    BY <2>1, AfterStop
<1>3. CASE Drained
  <2>0. flushing.stopper \o buffer \in Events
    BY <1>0, ConcatProperties DEF Events
  <2>1. buffer' \in Events
    BY <1>0, <1>3, <2>0 DEF Drained, Commits, FlushFails, Requeued
  <2>2. flushing' = [flushing EXCEPT !["stopper"] = <<>>] /\ stopper' \in {"bus", "raised"}
        /\ UNCHANGED <<published, waiting, bus, timer, accepted>>
    BY <1>3 DEF Drained, Commits, FlushFails
  <2>3. BatchTypes' /\ OneFlush' /\ stopper' # "off"
    BY <1>0, <2>1, <2>2 DEF BInv, BatchTypes, OneFlush
  <2> QED
    BY <2>3, AfterStop
<1>4. CASE StopBus
  <2>1. BatchTypes' /\ OneFlush' /\ stopper' # "off"
    BY <1>0, <1>4 DEF BInv, BatchTypes, OneFlush, StopBus, Cancelled
  <2> QED
    BY <2>1, AfterStop
<1> QED
  BY <1>1, <1>2, <1>3, <1>4

-----------------------------------------------------------------------------
(* The theorems.                                                           *)

\* The inductive invariant of the writer: one flush at a time, and what is not
\* persisted is the end of what came in (_handle_event, _periodic_flush,
\* _flush_buffer and stop).
THEOREM BatchInvariance == BatchSpec => []BInv
<1>1. BatchInit => BInv
  BY InitBInv
<1>2. BInv /\ [BatchNext]_batchVars => BInv'
  <2> SUFFICES ASSUME BInv, [BatchNext]_batchVars PROVE BInv'
    OBVIOUS
  <2>1. CASE UNCHANGED batchVars
    BY <2>1 DEF BInv, BatchTypes, OneFlush, EndOf, Left, batchVars
  <2>2. CASE Publish \/ Take \/ UpdateCache
    BY <2>2, BusTakesKeep
  <2>3. CASE Buffer
    BY <2>3, BufferKeeps
  <2>4. CASE BusFlushed
    BY <2>4, BusFlushedKeeps
  <2>5. CASE TimeIsUp
    BY <2>5, TimeIsUpKeeps
  <2>6. CASE TimerFlushed
    BY <2>6, TimerFlushedKeeps
  <2>7. CASE Stop \/ Drain \/ Drained \/ StopBus
    BY <2>7, StoppingKeeps
  <2> QED
    BY <2>1, <2>2, <2>3, <2>4, <2>5, <2>6, <2>7 DEF BatchNext, BusStep, TimerStep
<1> QED
  BY <1>1, <1>2, PTL DEF BatchSpec

\* Until stop() is called what is not persisted is the end of what came in, in its
\* order, although flushes fail while events come in and two tasks take turns.
THEOREM InOrderAlways == BatchSpec => []BatchesInOrder
BY BatchInvariance, InOrder, PTL

-----------------------------------------------------------------------------
(* The types of the writer.                                                *)

\* The bounds, and where the events that are held come from.
BatchBounds ==
    /\ published \in 0 .. MaxEvents /\ Len(waiting) <= MaxSize /\ outages \in 0 .. MaxFaults
    /\ flushing.stopper # <<>> => stopper = "flush"
    /\ persisted \cup ToSet(buffer) \cup ToSet(flushing.bus) \cup ToSet(flushing.timer)
          \cup ToSet(flushing.stopper) \subseteq ToSet(accepted)

LEMMA AppendedSet ==
    ASSUME NEW s \in Events, NEW e \in Nat
    PROVE  ToSet(Append(s, e)) = ToSet(s) \cup {e}
<1> DEFINE a == Append(s, e)
<1>1. /\ a \in Seq(Nat) /\ Len(s) \in Nat /\ Len(a) = Len(s) + 1 /\ a[Len(s) + 1] = e
      /\ \A i \in 1 .. Len(s) : a[i] = s[i]
      /\ DOMAIN a = 1 .. Len(a) /\ DOMAIN s = 1 .. Len(s)
  BY AppendProperties, LenProperties DEF Events
<1> HIDE DEF a
<1>2. DOMAIN a = DOMAIN s \cup {Len(s) + 1}
  BY <1>1
<1> QED
  BY <1>1, <1>2 DEF ToSet, a

LEMMA JoinedSet ==
    ASSUME NEW s \in Events, NEW t \in Events
    PROVE  ToSet(s \o t) \subseteq ToSet(s) \cup ToSet(t)
<1> DEFINE a == s \o t
<1>1. /\ a \in Seq(Nat) /\ Len(s) \in Nat /\ Len(t) \in Nat /\ Len(a) = Len(s) + Len(t)
      /\ \A i \in 1 .. Len(s) + Len(t) :
            a[i] = IF i <= Len(s) THEN s[i] ELSE t[i - Len(s)]
      /\ DOMAIN a = 1 .. Len(a) /\ DOMAIN s = 1 .. Len(s) /\ DOMAIN t = 1 .. Len(t)
  BY ConcatProperties, LenProperties DEF Events
<1> HIDE DEF a
<1>2. ASSUME NEW i \in DOMAIN a PROVE a[i] \in ToSet(s) \cup ToSet(t)
  <2>1. CASE i <= Len(s)
    <3>1. i \in DOMAIN s /\ a[i] = s[i]
      BY <1>1, <2>1
    <3> QED
      BY <3>1 DEF ToSet
  <2>2. CASE ~ i <= Len(s)
    <3>1. i - Len(s) \in DOMAIN t /\ a[i] = t[i - Len(s)]
      BY <1>1, <2>2
    <3> QED
      BY <3>1 DEF ToSet
  <2> QED
    BY <2>1, <2>2
<1> QED
  BY <1>2 DEF ToSet, a

\* A flush ends, is cancelled or begins: the events only change hands.
LEMMA ChangesHands ==
    ASSUME BInv, BatchBounds, NEW who \in {"bus", "timer", "stopper"},
           Commits(who) \/ FlushFails(who) \/ (Cancelled(who) /\ UNCHANGED <<buffer, outages>>),
           UNCHANGED <<published, waiting, accepted>>,
           who = "stopper" \/ stopper # "flush" \/ UNCHANGED stopper
    PROVE  BatchBounds'
<1>1. /\ flushing \in [bus : Events, timer : Events, stopper : Events] /\ buffer \in Events
      /\ flushing' = [flushing EXCEPT ![who] = <<>>]
  BY DEF BInv, BatchTypes, Commits, FlushFails, Cancelled
<1> DEFINE all == ToSet(accepted)
<1>2. /\ persisted \subseteq all /\ ToSet(buffer) \subseteq all
      /\ ToSet(flushing.bus) \subseteq all /\ ToSet(flushing.timer) \subseteq all
      /\ ToSet(flushing.stopper) \subseteq all /\ ToSet(flushing[who]) \subseteq all
  BY DEF BatchBounds
<1>3. ToSet(<<>>) = {}
  BY DEF ToSet
<1>4. /\ ToSet(flushing'.bus) \subseteq all /\ ToSet(flushing'.timer) \subseteq all
      /\ ToSet(flushing'.stopper) \subseteq all
      /\ flushing'.stopper # <<>> => who # "stopper" /\ flushing.stopper # <<>>
  BY <1>1, <1>2, <1>3
<1>5. persisted' \subseteq all
  BY <1>2 DEF Commits, FlushFails, Cancelled
<1>6. outages' \in 0 .. MaxFaults
  BY BatchAssumption DEF BatchBounds, Commits, FlushFails, Cancelled, Outage
<1>7. ToSet(buffer') \subseteq all
  <2>1. flushing[who] \in Events
    BY <1>1
  <2>2. ToSet(flushing[who] \o buffer) \subseteq all
    BY <1>1, <1>2, <2>1, JoinedSet
  <2> QED
    BY <1>2, <2>2 DEF Commits, FlushFails, Requeued
<1>8. (flushing.stopper # <<>> => stopper = "flush") /\ published \in 0 .. MaxEvents
      /\ Len(waiting) <= MaxSize
  BY DEF BatchBounds
<1> HIDE DEF all
<1> QED
  BY <1>4, <1>5, <1>6, <1>7, <1>8 DEF BatchBounds, all

LEMMA NextBounds ==
    ASSUME BInv, BatchBounds, [BatchNext]_batchVars
    PROVE  BatchBounds'
<1> DEFINE all == ToSet(accepted)
<1>1. /\ flushing \in [bus : Events, timer : Events, stopper : Events]
      /\ buffer \in Events /\ waiting \in Events /\ accepted \in Events
      /\ published \in 0 .. MaxEvents /\ outages \in 0 .. MaxFaults /\ Len(waiting) <= MaxSize
      /\ bus.event \in Nat /\ Len(waiting) \in Nat
      /\ MaxEvents \in Nat /\ MaxSize \in Nat /\ MaxFaults \in Nat
  BY BatchAssumption, LenProperties DEF BInv, BatchTypes, BatchBounds, Events
<1>2. /\ persisted \subseteq all /\ ToSet(buffer) \subseteq all
      /\ ToSet(flushing.bus) \subseteq all /\ ToSet(flushing.timer) \subseteq all
      /\ ToSet(flushing.stopper) \subseteq all /\ ToSet(<<>>) = {}
      /\ flushing.stopper # <<>> => stopper = "flush"
  <2>1. ToSet(<<>>) = {}
    BY DEF ToSet
  <2> QED
    BY <2>1 DEF BatchBounds
<1> HIDE DEF all
<1>3. CASE Publish
  <2>1. published' = published + 1 /\ waiting' = Append(waiting, published')
        /\ published < MaxEvents /\ Len(waiting) < MaxSize
        /\ UNCHANGED <<buffer, stopper, flushing, accepted, persisted, outages>>
    BY <1>3 DEF Publish
  <2>2. published' \in 0 .. MaxEvents /\ published + 1 \in Nat
    BY <1>1, <2>1
  <2>3. Len(waiting') = Len(waiting) + 1
    BY <1>1, <2>1, <2>2, AppendProperties DEF Events
  <2>4. Len(waiting') <= MaxSize
    BY <1>1, <2>1, <2>3
  <2> QED
    BY <1>1, <1>2, <2>1, <2>2, <2>4 DEF BatchBounds, all
<1>4. CASE Take
  <2>1. waiting # <<>> /\ waiting' = Tail(waiting)
        /\ UNCHANGED <<published, buffer, stopper, flushing, accepted, persisted, outages>>
    BY <1>4 DEF Take
  <2>2. Len(waiting') <= MaxSize
    BY <1>1, <2>1, HeadTailProperties DEF Events
  <2> QED
    BY <1>1, <1>2, <2>1, <2>2 DEF BatchBounds, all
<1>5. CASE UpdateCache
  <2>1. outages' \in 0 .. MaxFaults
        /\ UNCHANGED <<published, waiting, buffer, stopper, flushing, accepted, persisted>>
    BY <1>1, <1>5 DEF UpdateCache, Outage
  <2> QED
    BY <1>1, <1>2, <2>1 DEF BatchBounds, all
<1>6. CASE Buffer
  <2> DEFINE more == Append(buffer, bus.event)
  <2>1. /\ accepted' = Append(accepted, bus.event)
        /\ UNCHANGED <<published, waiting, stopper, persisted, outages>>
    BY <1>6 DEF Buffer
  <2>2. ToSet(accepted') = all \cup {bus.event} /\ ToSet(more) = ToSet(buffer) \cup {bus.event}
    BY <1>1, <2>1, AppendedSet DEF all
  <2> HIDE DEF more
  <2>3. CASE buffer' = more /\ UNCHANGED flushing
    BY <1>1, <1>2, <2>1, <2>2, <2>3 DEF BatchBounds
  <2>4. CASE buffer' = <<>> /\ flushing' = [flushing EXCEPT !.bus = more]
    <3>1. flushing'.bus = more /\ flushing'.timer = flushing.timer
          /\ flushing'.stopper = flushing.stopper
      BY <1>1, <2>4
    <3> QED
      BY <1>1, <1>2, <2>1, <2>2, <2>4, <3>1 DEF BatchBounds
  <2> QED
    BY <1>6, <2>3, <2>4 DEF Buffer, more
<1>7. CASE BusFlushed
  BY <1>7, ChangesHands DEF BusFlushed
<1>8. CASE TimerFlushed
  BY <1>8, ChangesHands DEF TimerFlushed
<1>9. CASE Drained
  BY <1>9, ChangesHands DEF Drained
<1>10. CASE Stop
  BY <1>10, ChangesHands DEF Stop
<1>11. CASE StopBus
  BY <1>11, ChangesHands DEF StopBus
<1>12. ASSUME NEW who \in {"timer", "stopper"}, Begins(who), who = "stopper" => stopper' = "flush",
              who # "stopper" => UNCHANGED stopper,
              UNCHANGED <<published, waiting, accepted, persisted, outages>>
       PROVE  BatchBounds'
  <2>1. buffer' = <<>> /\ flushing' = [flushing EXCEPT ![who] = buffer]
    BY <1>12 DEF Begins
  <2>2. /\ ToSet(flushing'.bus) \subseteq all /\ ToSet(flushing'.timer) \subseteq all
        /\ ToSet(flushing'.stopper) \subseteq all
        /\ who # "stopper" => flushing'.stopper = flushing.stopper
    BY <1>1, <1>2, <2>1
  <2> QED
    BY <1>1, <1>2, <1>12, <2>1, <2>2 DEF BatchBounds, all
<1>13. CASE TimeIsUp
  BY <1>12, <1>13 DEF TimeIsUp
<1>14. CASE Drain
  <2>1. CASE UNCHANGED <<buffer, flushing>>
    BY <1>1, <1>2, <1>14, <2>1 DEF Drain, BatchBounds, all
  <2> QED
    BY <1>12, <1>14, <2>1 DEF Drain
<1>15. CASE UNCHANGED batchVars
  BY <1>15 DEF batchVars, BatchBounds
<1> QED
  BY <1>3, <1>4, <1>5, <1>6, <1>7, <1>8, <1>9, <1>10, <1>11, <1>13, <1>14, <1>15
  DEF BatchNext, BusStep, TimerStep

LEMMA InitBounds == BatchInit => BatchBounds
<1> SUFFICES ASSUME BatchInit PROVE BatchBounds
  OBVIOUS
<1>1. <<>> \in Events /\ Len(<<>>) = 0 /\ ToSet(<<>>) = {}
  BY DEF Events, ToSet
<1> QED
  BY <1>1, BatchAssumption DEF BatchInit, BatchBounds

\* The types of the writer: the queue stays within its size, and what is persisted
\* came in (InMemoryEventBus, MicroBatchWriter).
THEOREM BatchTypesHold == BatchSpec => []BatchTypeOK
<1>1. BInv /\ BatchBounds => BatchTypeOK
  BY DEF BInv, BatchTypes, OneFlush, BatchBounds, BatchTypeOK
<1>2. BatchInit => BInv /\ BatchBounds
  BY InitBInv, InitBounds
<1> QED
  BY <1>1, <1>2, BatchInvariance, NextBounds, PTL DEF BatchSpec

-----------------------------------------------------------------------------
(* ModbusSync: what the count of a poll stands for.                        *)

\* Off, and what a poll remembers.
PollRow == [r \in Register |-> [mapping |-> poll[r].mapping, last |-> poll[r].last,
                                pending |-> poll[r].pending, counter |-> poll[r].counter]]

\* Polls are records; of each register the last values read are kept.
NoiseTypes ==
    /\ poll = PollRow
    /\ \A r \in Register : poll[r].counter \in Nat
    /\ DOMAIN reads = Register
    /\ \A r \in Register : (\E S : reads[r] \in Seq(S)) /\ Len(reads[r]) <= Debounce

\* The count is that of the last reads that agree on the value that is pending,
\* and it is not reached.
CountsReads ==
    \A r \in Register :
       /\ poll[r].counter <= Len(reads[r]) /\ poll[r].counter < Debounce
       /\ poll[r].last = Nothing => poll[r].pending = Nothing /\ poll[r].counter = 0
       /\ \A k \in 0 .. poll[r].counter - 1 :
             reads[r][Len(reads[r]) - k] = poll[r].pending

NoiseInv == NoiseTypes /\ CountsReads

\* What is kept when v is read: it stands at the end, the others one before.
LEMMA OneMoreRead ==
    ASSUME NEW S, NEW s \in Seq(S), Len(s) <= Debounce, NEW v
    PROVE  /\ Latest(Append(s, v)) \in Seq(S \cup {v})
           /\ Len(Latest(Append(s, v))) <= Debounce
           /\ Len(s) < Debounce => Len(Latest(Append(s, v))) = Len(s) + 1
           /\ Len(s) = Debounce => Len(Latest(Append(s, v))) = Len(s)
           /\ Latest(Append(s, v))[Len(Latest(Append(s, v)))] = v
           /\ \A k \in 1 .. Len(Latest(Append(s, v))) - 1 :
                 Latest(Append(s, v))[Len(Latest(Append(s, v))) - k] = s[Len(s) - k + 1]
<1> DEFINE a == Append(s, v)
<1>1. s \in Seq(S \cup {v}) /\ a \in Seq(S \cup {v}) /\ Len(a) = Len(s) + 1 /\ Len(s) \in Nat
  OBVIOUS
<1>2. /\ a[Len(s) + 1] = v
      /\ \A i \in 1 .. Len(s) : a[i] = s[i]
  OBVIOUS
<1>3. Debounce \in Nat /\ Debounce > 0
  BY ModbusAssumption
<1> HIDE DEF a
<1>4. CASE Len(s) < Debounce
  <2>1. Latest(a) = a
    BY <1>1, <1>3, <1>4 DEF Latest
  <2> QED
    BY <2>1, <1>1, <1>2, <1>3, <1>4 DEF a
<1>5. CASE Len(s) = Debounce
  <2>1. Latest(a) = Tail(a)
    BY <1>1, <1>3, <1>5 DEF Latest
  <2>2. /\ Tail(a) \in Seq(S \cup {v}) /\ Len(Tail(a)) = Len(s)
        /\ \A i \in 1 .. Len(s) : Tail(a)[i] = a[i + 1]
    BY <1>1, <1>3, <1>5
  <2> QED
    BY <2>1, <2>2, <1>1, <1>2, <1>3, <1>5 DEF a
<1> QED
  BY <1>1, <1>3, <1>4, <1>5

\* A read that succeeds keeps the count true, and publishes only what all the
\* reads that are kept agree on.
LEMMA ReadKeepsCount ==
    ASSUME NoiseInv, NEW r \in Register, PollRead(r)
    PROVE  /\ NoiseInv'
           /\ elementValue' # elementValue
              => \A i \in 1 .. Debounce : i <= Len(reads'[r]) /\ reads'[r][i] = register[r]
<1> DEFINE p == poll[r]
           v == register[r]
           s == reads[r]
           t == Latest(Append(s, v))
<1>1. Debounce \in Nat /\ Debounce > 0
  BY ModbusAssumption
<1>2. PICK S : s \in Seq(S)
  BY DEF NoiseInv, NoiseTypes
<1>3. Len(s) \in Nat /\ Len(s) <= Debounce
  BY <1>2 DEF NoiseInv, NoiseTypes
<1>4. /\ t \in Seq(S \cup {v}) /\ Len(t) \in Nat /\ Len(t) <= Debounce
      /\ Len(s) < Debounce => Len(t) = Len(s) + 1
      /\ Len(s) = Debounce => Len(t) = Len(s)
      /\ t[Len(t)] = v
      /\ \A k \in 1 .. Len(t) - 1 : t[Len(t) - k] = s[Len(s) - k + 1]
  <2>1. t \in Seq(S \cup {v})
    BY <1>2, <1>3, OneMoreRead
  <2>2. Len(t) \in Nat
    BY <2>1
  <2> QED
    BY <1>2, <1>3, <2>1, <2>2, OneMoreRead
<1>5. /\ reads' = [reads EXCEPT ![r] = t] /\ DOMAIN reads = Register
  BY DEF PollRead, NoiseInv, NoiseTypes
<1>6. /\ reads'[r] = t /\ DOMAIN reads' = Register
      /\ \A q \in Register \ {r} : reads'[q] = reads[q]
  BY <1>5
<1>7. /\ p = [mapping |-> p.mapping, last |-> p.last, pending |-> p.pending, counter |-> p.counter]
      /\ p.counter \in Nat /\ p.counter <= Len(s) /\ p.counter < Debounce
      /\ p.last = Nothing => p.pending = Nothing /\ p.counter = 0
      /\ \A k \in 0 .. p.counter - 1 : s[Len(s) - k] = p.pending
      /\ DOMAIN poll = Register
  BY DEF NoiseInv, NoiseTypes, PollRow, CountsReads
<1> HIDE DEF t, s, p, v
\* What the poll knows next.
<1>8. /\ Settled(p) = [mapping |-> p.mapping, last |-> p.last, pending |-> Nothing, counter |-> 0]
      /\ [p EXCEPT !.last = v] = [mapping |-> p.mapping, last |-> v, pending |-> p.pending, counter |-> p.counter]
      /\ [p EXCEPT !.counter = @ + 1]
         = [mapping |-> p.mapping, last |-> p.last, pending |-> p.pending, counter |-> p.counter + 1]
      /\ [p EXCEPT !.pending = v, !.counter = 1]
         = [mapping |-> p.mapping, last |-> p.last, pending |-> v, counter |-> 1]
  <2>1. PICK a, b, c, d : /\ p = [mapping |-> a, last |-> b, pending |-> c, counter |-> d]
                          /\ a = p.mapping /\ b = p.last /\ c = p.pending /\ d = p.counter
    BY <1>7
  <2>2. [p EXCEPT !.last = v] = [mapping |-> a, last |-> v, pending |-> c, counter |-> d]
    BY <2>1
  <2>3. [p EXCEPT !.counter = @ + 1] = [mapping |-> a, last |-> b, pending |-> c, counter |-> d + 1]
    BY <2>1
  <2>4. ASSUME NEW x, NEW n
        PROVE  [p EXCEPT !.pending = x, !.counter = n]
               = [mapping |-> a, last |-> b, pending |-> x, counter |-> n]
    <3>1. PICK q : q = [p EXCEPT !.pending = x]
      OBVIOUS
    <3>2. q = [mapping |-> a, last |-> b, pending |-> x, counter |-> d]
      BY <2>1, <3>1
    <3>3. [p EXCEPT !.pending = x, !.counter = n] = [q EXCEPT !.counter = n]
      BY <3>1
    <3>4. [q EXCEPT !.counter = n] = [mapping |-> a, last |-> b, pending |-> x, counter |-> n]
      BY <3>2
    <3> QED
      BY Zenon, <3>3, <3>4
  <2>5. /\ [p EXCEPT !.pending = v, !.counter = 1]
           = [mapping |-> a, last |-> b, pending |-> v, counter |-> 1]
        /\ [p EXCEPT !.pending = Nothing, !.counter = 0]
           = [mapping |-> a, last |-> b, pending |-> Nothing, counter |-> 0]
    BY ONLY <2>4
  <2> QED
    BY <2>1, <2>2, <2>3, <2>4, <2>5 DEF Settled
<1>9. \/ /\ p.last = Nothing
         /\ Observed(p, v) = [mapping |-> p.mapping, last |-> v, pending |-> p.pending, counter |-> p.counter]
      \/ /\ v = p.last
         /\ Observed(p, v) = [mapping |-> p.mapping, last |-> p.last, pending |-> Nothing, counter |-> 0]
      \/ /\ p.last # Nothing /\ v # p.last /\ v = p.pending
         /\ Observed(p, v)
            = [mapping |-> p.mapping, last |-> p.last, pending |-> p.pending, counter |-> p.counter + 1]
      \/ /\ p.last # Nothing /\ v # p.last
         /\ Observed(p, v) = [mapping |-> p.mapping, last |-> p.last, pending |-> v, counter |-> 1]
  BY <1>7, <1>8 DEF Observed
<1> DEFINE o == Observed(p, v)
<1>10. /\ o = [mapping |-> o.mapping, last |-> o.last, pending |-> o.pending, counter |-> o.counter]
       /\ o.counter \in Nat /\ o.counter <= Len(t)
       /\ o.last = Nothing => o.pending = Nothing /\ o.counter = 0
       /\ \A k \in 0 .. o.counter - 1 : t[Len(t) - k] = o.pending
       /\ o.counter < Debounce \/ (p.last \notin {Nothing, v} /\ o.pending = v)
  <2>1. CASE \/ p.last = Nothing /\ o = [mapping |-> p.mapping, last |-> v, pending |-> p.pending, counter |-> p.counter]
             \/ v = p.last /\ o = [mapping |-> p.mapping, last |-> p.last, pending |-> Nothing, counter |-> 0]
    <3>1. o.counter = 0 /\ o.pending = Nothing
      BY <2>1, <1>7
    <3>2. o = [mapping |-> o.mapping, last |-> o.last, pending |-> o.pending, counter |-> o.counter]
      BY <2>1
    <3> QED
      BY <3>1, <3>2, <1>1, <1>4
  <2>2. CASE /\ p.last # Nothing /\ v # p.last /\ v = p.pending
             /\ o = [mapping |-> p.mapping, last |-> p.last, pending |-> p.pending, counter |-> p.counter + 1]
    <3>1. /\ o.counter = p.counter + 1 /\ o.pending = v /\ o.last = p.last
          /\ o = [mapping |-> o.mapping, last |-> o.last, pending |-> o.pending, counter |-> o.counter]
      BY <2>2
    <3>2. o.counter <= Len(t)
      BY <3>1, <1>1, <1>3, <1>4, <1>7
    <3>3. ASSUME NEW k \in 0 .. o.counter - 1 PROVE t[Len(t) - k] = v
      <4>1. CASE k = 0
        BY <4>1, <1>4
      <4>2. CASE k # 0
        <5>1. k \in 1 .. Len(t) - 1 /\ k - 1 \in 0 .. p.counter - 1
          BY <4>2, <3>1, <3>2, <1>4, <1>7
        <5>2. t[Len(t) - k] = s[Len(s) - k + 1] /\ s[Len(s) - (k - 1)] = v
          BY <5>1, <1>4, <1>7, <2>2
        <5> QED
          BY <5>1, <5>2, <1>3
      <4> QED
        BY <4>1, <4>2
    <3> QED
      BY <3>1, <3>2, <3>3, <2>2, <1>7
  <2>3. CASE /\ p.last # Nothing /\ v # p.last
             /\ o = [mapping |-> p.mapping, last |-> p.last, pending |-> v, counter |-> 1]
    <3>1. /\ o.counter = 1 /\ o.pending = v /\ o.last = p.last
          /\ o = [mapping |-> o.mapping, last |-> o.last, pending |-> o.pending, counter |-> o.counter]
      BY <2>3
    <3>2. Len(t) >= 1
      BY <1>1, <1>3, <1>4
    <3>3. \A k \in 0 .. o.counter - 1 : t[Len(t) - k] = v
      BY <3>1, <1>4
    <3> QED
      BY <3>1, <3>2, <3>3, <2>3
  <2> QED
    BY <1>9, <2>1, <2>2, <2>3
<1> HIDE DEF o
<1>11. /\ UNCHANGED elementValue \/ (Changed(p, v) /\ poll'[r].mapping = p.mapping)
       /\ \/ ~Changed(p, v) /\ poll' = [poll EXCEPT ![r] = o] /\ UNCHANGED elementValue
          \/ Changed(p, v) /\ poll' = [poll EXCEPT ![r] = [Off EXCEPT !.mapping = p.mapping, !.last = v]]
  BY <1>7 DEF PollRead, p, v, o, Off
<1>12. Changed(p, v) <=> p.last \notin {Nothing, v} /\ o.counter >= Debounce
  BY DEF Changed, o
<1> DEFINE n == IF Changed(p, v)
                THEN [mapping |-> p.mapping, last |-> v, pending |-> Nothing, counter |-> 0]
                ELSE o
<1>13. poll' = [poll EXCEPT ![r] = n]
  BY <1>11 DEF Off
<1>14. /\ n = [mapping |-> n.mapping, last |-> n.last, pending |-> n.pending, counter |-> n.counter]
       /\ n.counter \in Nat /\ n.counter <= Len(t) /\ n.counter < Debounce
       /\ n.last = Nothing => n.pending = Nothing /\ n.counter = 0
       /\ \A k \in 0 .. n.counter - 1 : t[Len(t) - k] = n.pending
  <2>1. CASE Changed(p, v)
    BY <2>1, <1>1, <1>4
  <2>2. CASE ~Changed(p, v)
    <3>1. n = o /\ o.counter < Debounce
      BY <2>2, <1>1, <1>10, <1>12
    <3> QED
      BY <3>1, <1>10
  <2> QED
    BY <2>1, <2>2
<1> HIDE DEF n
<1>15. /\ poll'[r] = n /\ DOMAIN poll' = Register
       /\ \A q \in Register \ {r} : poll'[q] = poll[q]
  BY <1>13, <1>7
<1>16. NoiseTypes'
  <2>1. poll' = PollRow'
    <3>1. \A q \in Register : poll'[q] = [mapping |-> poll'[q].mapping, last |-> poll'[q].last,
                                          pending |-> poll'[q].pending, counter |-> poll'[q].counter]
      BY <1>14, <1>15 DEF NoiseInv, NoiseTypes, PollRow
    <3> QED
      BY <3>1, <1>13, <1>15 DEF NoiseInv, NoiseTypes, PollRow
  <2>2. \A q \in Register : poll'[q].counter \in Nat
    BY <1>14, <1>15 DEF NoiseInv, NoiseTypes
  <2>3. ASSUME NEW q \in Register PROVE (\E Z : reads'[q] \in Seq(Z)) /\ Len(reads'[q]) <= Debounce
    BY <1>4, <1>6 DEF NoiseInv, NoiseTypes
  <2> QED
    BY <2>1, <2>2, <2>3, <1>6 DEF NoiseTypes
<1>17. CountsReads'
  <2>1. ASSUME NEW q \in Register
        PROVE  /\ poll'[q].counter <= Len(reads'[q]) /\ poll'[q].counter < Debounce
               /\ poll'[q].last = Nothing => poll'[q].pending = Nothing /\ poll'[q].counter = 0
               /\ \A k \in 0 .. poll'[q].counter - 1 :
                     reads'[q][Len(reads'[q]) - k] = poll'[q].pending
    <3>1. CASE q = r
      BY <3>1, <1>6, <1>14, <1>15
    <3>2. CASE q # r
      BY <3>2, <1>6, <1>15 DEF NoiseInv, CountsReads
    <3> QED
      BY <3>1, <3>2
  <2> QED
    BY <2>1 DEF CountsReads
<1>18. ASSUME elementValue' # elementValue
       PROVE  \A i \in 1 .. Debounce : i <= Len(t) /\ t[i] = v
  <2>1. o.counter >= Debounce /\ o.pending = v
    BY <1>18, <1>1, <1>10, <1>11, <1>12
  <2>2. Len(t) = Debounce
    BY <2>1, <1>1, <1>4, <1>10
  <2>3. ASSUME NEW i \in 1 .. Debounce PROVE t[i] = v
    <3>1. Len(t) - i \in 0 .. o.counter - 1 /\ Len(t) - (Len(t) - i) = i
      BY <2>1, <2>2, <1>1, <1>10
    <3> QED
      BY <3>1, <2>1, <1>10
  <2> QED
    BY <2>2, <2>3, <1>1
<1> QED
  BY <1>6, <1>16, <1>17, <1>18 DEF NoiseInv, v

\* The polls of a start, a stop, a failed read and of the device's own changes.
LEMMA OthersKeepCount ==
    ASSUME NoiseInv,
           \/ StartSync \/ StopSync
           \/ \E r \in Register : ReadFails(r) \/ \E v \in Reading : RegisterChanges(r, v)
           \/ \E e \in Element, v \in Reading : HandleElementEvent(e, v)
           \/ UNCHANGED modbusVars
    PROVE  NoiseInv' /\ UNCHANGED elementValue
<1>1. Debounce \in Nat /\ Debounce > 0
  BY ModbusAssumption
<1>2. CASE StartSync
  <2>1. /\ UNCHANGED elementValue
        /\ DOMAIN poll' = Register /\ DOMAIN reads' = Register
        /\ poll' = [r \in Register |-> poll'[r]]
    BY <1>2 DEF StartSync
  <2>2. ASSUME NEW r \in Register
        PROVE  \/ poll'[r] = poll[r] /\ reads'[r] = reads[r]
               \/ /\ poll'[r] = [mapping |-> poll'[r].mapping, last |-> Nothing,
                                 pending |-> Nothing, counter |-> 0]
                  /\ reads'[r] = <<>>
    <3>1. CASE r \in Polled
      BY <3>1, <1>2 DEF StartSync
    <3>2. CASE r \notin Polled
      <4>1. poll[r] = Off /\ reads'[r] = <<>>
        BY <3>2, <1>2 DEF StartSync, Polled
      <4>2. poll'[r] = Off \/ poll'[r] = [Off EXCEPT !.mapping = Mappings[Min(Asking(r))]]
        BY <3>2, <4>1, <1>2 DEF StartSync
      <4> QED
        BY <4>1, <4>2 DEF Off
    <3> QED
      BY <3>1, <3>2
  <2>3. ASSUME NEW r \in Register
        PROVE  /\ poll'[r] = [mapping |-> poll'[r].mapping, last |-> poll'[r].last,
                              pending |-> poll'[r].pending, counter |-> poll'[r].counter]
               /\ poll'[r].counter \in Nat
               /\ (\E S : reads'[r] \in Seq(S)) /\ Len(reads'[r]) <= Debounce
               /\ poll'[r].counter <= Len(reads'[r]) /\ poll'[r].counter < Debounce
               /\ poll'[r].last = Nothing => poll'[r].pending = Nothing /\ poll'[r].counter = 0
               /\ \A k \in 0 .. poll'[r].counter - 1 :
                     reads'[r][Len(reads'[r]) - k] = poll'[r].pending
    <3>1. CASE poll'[r] = poll[r] /\ reads'[r] = reads[r]
      BY <3>1 DEF NoiseInv, NoiseTypes, CountsReads, PollRow
    <3>2. CASE /\ poll'[r] = [mapping |-> poll'[r].mapping, last |-> Nothing,
                              pending |-> Nothing, counter |-> 0]
               /\ reads'[r] = <<>>
      <4>1. poll'[r].last = Nothing /\ poll'[r].pending = Nothing /\ poll'[r].counter = 0
        BY <3>2
      <4>2. reads'[r] \in Seq({}) /\ Len(reads'[r]) = 0
        BY <3>2
      <4> QED
        BY <3>2, <4>1, <4>2, <1>1
    <3> QED
      BY <2>2, <3>1, <3>2
  <2> QED
    BY <2>1, <2>3 DEF NoiseInv, NoiseTypes, CountsReads, PollRow
<1>3. CASE StopSync
  <2>1. poll' = [r \in Register |-> Off] /\ UNCHANGED <<reads, elementValue>>
    BY <1>3 DEF StopSync
  <2>2. \A r \in Register : /\ poll'[r] = [mapping |-> Nothing, last |-> Nothing,
                                           pending |-> Nothing, counter |-> 0]
    BY <2>1 DEF Off
  <2>3. \A r \in Register : Len(reads[r]) \in Nat
    BY DEF NoiseInv, NoiseTypes
  <2> QED
    BY <2>1, <2>2, <2>3, <1>1 DEF NoiseInv, NoiseTypes, CountsReads, PollRow
<1>4. ASSUME NEW r \in Register, ReadFails(r) PROVE UNCHANGED <<poll, reads, elementValue>>
  <2>1. poll' = [poll EXCEPT ![r] = poll[r]] /\ UNCHANGED <<reads, elementValue>>
    BY <1>4 DEF ReadFails, Missed
  <2>2. poll = PollRow
    BY DEF NoiseInv, NoiseTypes
  <2> QED
    BY <2>1, <2>2 DEF PollRow
<1>5. ASSUME UNCHANGED <<poll, reads, elementValue>> PROVE NoiseInv' /\ UNCHANGED elementValue
  BY <1>5 DEF NoiseInv, NoiseTypes, CountsReads, PollRow
<1>6. \A r, v : RegisterChanges(r, v) => UNCHANGED <<poll, reads, elementValue>>
  BY DEF RegisterChanges
<1>7. \A e, v : HandleElementEvent(e, v) => UNCHANGED <<poll, reads, elementValue>>
  BY <1>6 DEF HandleElementEvent
<1>8. UNCHANGED modbusVars => UNCHANGED <<poll, reads, elementValue>>
  BY DEF modbusVars
<1> QED
  BY <1>2, <1>3, <1>4, <1>5, <1>6, <1>7, <1>8

\* Counts are true for ever.
LEMMA NoiseInvariance == ModbusSpec => []NoiseInv
<1>1. ModbusInit => NoiseInv
  <2> SUFFICES ASSUME ModbusInit PROVE NoiseInv
    OBVIOUS
  <2>1. poll = [r \in Register |-> Off] /\ reads = [r \in Register |-> <<>>]
    BY DEF ModbusInit
  <2>2. /\ \A r \in Register : poll[r] = [mapping |-> Nothing, last |-> Nothing,
                                          pending |-> Nothing, counter |-> 0]
        /\ \A r \in Register : reads[r] \in Seq({}) /\ Len(reads[r]) = 0
    BY <2>1 DEF Off
  <2> QED
    BY <2>1, <2>2, ModbusAssumption DEF NoiseInv, NoiseTypes, CountsReads, PollRow
<1>2. NoiseInv /\ [ModbusNext]_modbusVars => NoiseInv'
  BY ReadKeepsCount, OthersKeepCount DEF ModbusNext
<1> QED
  BY <1>1, <1>2, PTL DEF ModbusSpec

\* NoiseStaysOut, for any registers, mappings, values and debounce count: what a
\* poll publishes is what all of the last Debounce reads have agreed on.
THEOREM NoiseNeverPublished == ModbusSpec => NoiseStaysOut
<1>1. NoiseInv /\ [ModbusNext]_modbusVars
      => [\A r \in Register :
            elementValue' # elementValue /\ PollRead(r)
            => \A i \in 1 .. Debounce : i <= Len(reads'[r]) /\ reads'[r][i] = register[r]]_modbusVars
  BY ReadKeepsCount
<1> QED
  BY <1>1, NoiseInvariance, PTL DEF ModbusSpec, NoiseStaysOut

-----------------------------------------------------------------------------
(* The values of the registers.                                            *)

Value == 0 .. RegisterMax

\* A poll that is on is for its register, and remembers values of registers.
PollFits(r, p) ==
    /\ p.mapping \in Range(Mappings) /\ p.mapping.register = r
    /\ {p.last, p.pending} \subseteq Value \cup {Nothing}

ValuesInv ==
    /\ register \in [Register -> Value] /\ reads = [r \in Register |-> reads[r]]
    /\ \A r \in Register : reads[r] \in Seq(Value) /\ (poll[r] # Off => PollFits(r, poll[r]))

\* The whole part of a quotient is within its bounds.
LEMMA QuotientWithin ==
    ASSUME NEW d \in Nat \ {0}, NEW m \in Nat, NEW a \in 0 .. m * d
    PROVE  a \div d \in 0 .. m
<1>1. a \div d \in Int /\ a % d \in 0 .. d - 1 /\ a = d * (a \div d) + (a % d)
  OBVIOUS
<1> DEFINE q == a \div d
<1> HIDE DEF q
<1>2. PICK k \in 0 .. d - 1 : q \in Int /\ a = d * q + k
  BY <1>1 DEF q
<1>3. ASSUME q >= m + 1 PROVE FALSE
  <2>1. d * q >= d * (m + 1)
    BY <1>2, <1>3
  <2>2. d * (m + 1) = m * d + d /\ m * d \in Int
    OBVIOUS
  <2> QED
    BY <1>2, <2>1, <2>2
<1>4. ASSUME q <= -1 PROVE FALSE
  <2>1. d * q <= d * (-1)
    BY <1>2, <1>4
  <2> QED
    BY <1>2, <2>1
<1> QED
  BY <1>2, <1>3, <1>4 DEF q

\* What is written on a register is one of its values, whatever the sign of the scale.
LEMMA RegisterValue ==
    ASSUME NEW m, m.scale[1] \in Int, m.scale[2] \in Nat, m.offset \in Int, NEW v \in Int,
           InRange(m, v)
    PROVE  ValueToRegister(m, v) \in Value
<1> DEFINE n == m.scale[1]
           a == Unscaled(m, v) * n
<1>1. n \in Int /\ n # 0 /\ a \in 0 .. RegisterMax * n * n
  BY DEF InRange
<1>2. a \div (n * n) = ValueToRegister(m, v)
  BY DEF ValueToRegister
<1> HIDE DEF n, a
<1>3. n * n \in Nat \ {0}
  BY <1>1
<1>4. RegisterMax * n * n = RegisterMax * (n * n)
  BY <1>1, ModbusAssumption
<1> QED
  BY <1>1, <1>2, <1>3, <1>4, QuotientWithin, ModbusAssumption DEF Value

LEMMA MappingOf ==
    ASSUME NEW i \in DOMAIN Mappings
    PROVE  /\ i \in Nat /\ i <= Len(Mappings) /\ Len(Mappings) \in Nat
           /\ Mappings[i] \in Range(Mappings) /\ Mappings[i].register \in Register
           /\ Mappings[i].offset \in Int /\ Mappings[i].scale[1] \in Int
           /\ Mappings[i].scale[2] \in Nat
<1>1. i \in 1 .. Len(Mappings) /\ Len(Mappings) \in Nat
  BY ModbusAssumption, LenProperties
<1>2. Mappings[i] \in Range(Mappings)
  BY DEF Range
<1> QED
  BY <1>1, <1>2, ModbusAssumption

LEMMA NextValues ==
    ASSUME NoiseInv, ValuesInv, [ModbusNext]_modbusVars
    PROVE  ValuesInv'
<1>1. /\ register \in [Register -> Value] /\ DOMAIN poll = Register /\ DOMAIN reads = Register
      /\ reads = [r \in Register |-> reads[r]]
      /\ \A r \in Register : reads[r] \in Seq(Value) /\ (poll[r] # Off => PollFits(r, poll[r]))
  BY DEF NoiseInv, NoiseTypes, ValuesInv, PollRow
<1>2. CASE StartSync
  <2>1. ASSUME NEW r \in Register, poll'[r] # Off PROVE PollFits(r, poll'[r])
    <3>1. CASE poll'[r] = poll[r]
      BY <1>1, <2>1, <3>1
    <3>2. CASE Asking(r) # {} /\ poll'[r] = [Off EXCEPT !.mapping = Mappings[Min(Asking(r))]]
      <4>1. Asking(r) \in SUBSET Nat
        BY MappingOf DEF Asking
      <4>2. PICK i \in Asking(r) : i = Min(Asking(r))
        BY <3>2, <4>1, MinOf
      <4>3. Mappings[i] \in Range(Mappings) /\ Mappings[i].register = r
        BY MappingOf DEF Asking
      <4>4. /\ poll'[r].mapping = Mappings[i] /\ poll'[r].last = Nothing
            /\ poll'[r].pending = Nothing
        BY <3>2, <4>2 DEF Off
      <4> QED
        BY <4>3, <4>4 DEF PollFits
    <3> QED
      BY <1>2, <3>1, <3>2 DEF StartSync
  <2>2. \A r \in Register : reads'[r] \in Seq(Value)
    BY <1>1, <1>2 DEF StartSync
  <2> QED
    BY <1>1, <1>2, <2>1, <2>2 DEF StartSync, ValuesInv
<1>3. CASE StopSync
  BY <1>1, <1>3 DEF StopSync, ValuesInv
<1>4. ASSUME NEW r \in Register, PollRead(r) PROVE ValuesInv'
  <2> DEFINE p == poll[r]
             v == register[r]
  <2>1. v \in Value /\ PollFits(r, p) /\ p = PollRow[r] /\ register' = register
    BY <1>1, <1>4 DEF PollRead, Polled, NoiseInv, NoiseTypes
  <2>2. PollFits(r, Observed(p, v)) /\ PollFits(r, [Off EXCEPT !.mapping = p.mapping, !.last = v])
    <3>1. /\ Observed(p, v).mapping = p.mapping
          /\ Observed(p, v).last \in {p.last, v}
          /\ Observed(p, v).pending \in {p.pending, Nothing, v}
      BY <2>1 DEF Observed, Settled, PollRow
    <3>2. /\ [Off EXCEPT !.mapping = p.mapping, !.last = v].mapping = p.mapping
          /\ [Off EXCEPT !.mapping = p.mapping, !.last = v].last = v
          /\ [Off EXCEPT !.mapping = p.mapping, !.last = v].pending = Nothing
      BY DEF Off
    <3> QED
      BY <2>1, <3>1, <3>2 DEF PollFits
  <2>3. Latest(Append(reads[r], v)) \in Seq(Value)
    <3>1. reads[r] \in Seq(Value) /\ Len(reads[r]) <= Debounce
      BY <1>1 DEF NoiseInv, NoiseTypes
    <3>2. Latest(Append(reads[r], v)) \in Seq(Value \cup {v})
      BY <3>1, OneMoreRead
    <3>3. Value \cup {v} = Value
      BY <2>1
    <3> QED
      BY <3>2, <3>3
  <2>4. PollFits(r, poll'[r]) /\ \A q \in Register \ {r} : poll'[q] = poll[q]
    BY <1>1, <1>4, <2>2 DEF PollRead
  <2>5. \A q \in Register : reads'[q] \in Seq(Value)
    BY <1>1, <1>4, <2>3 DEF PollRead
  <2>6. reads' = [q \in Register |-> reads'[q]]
    <3>1. reads' = [reads EXCEPT ![r] = Latest(Append(reads[r], v))]
      BY <1>4 DEF PollRead
    <3> QED
      BY <1>1, <3>1
  <2> QED
    BY <1>1, <2>1, <2>4, <2>5, <2>6 DEF ValuesInv
<1>5. ASSUME UNCHANGED <<poll, reads>>, register' \in [Register -> Value] PROVE ValuesInv'
  BY <1>1, <1>5 DEF ValuesInv
<1>6. ASSUME NEW r \in Register, ReadFails(r) PROVE ValuesInv'
  <2>1. poll' = [poll EXCEPT ![r] = poll[r]] /\ poll = PollRow /\ UNCHANGED <<register, reads>>
    BY <1>6 DEF ReadFails, Missed, NoiseInv, NoiseTypes
  <2>2. poll' = poll
    BY <2>1 DEF PollRow
  <2> QED
    BY <1>1, <1>5, <2>1, <2>2
<1>7. ASSUME NEW r \in Register, NEW v \in Value, RegisterChanges(r, v) PROVE ValuesInv'
  BY <1>1, <1>5, <1>7 DEF RegisterChanges
<1>8. ASSUME NEW r \in Register, NEW v \in Reading, RegisterChanges(r, v) PROVE ValuesInv'
  BY <1>7, <1>8, ModbusAssumption DEF Value
<1>9. ASSUME NEW e \in Element, NEW v \in Reading, HandleElementEvent(e, v) PROVE ValuesInv'
  <2> DEFINE asked == {i \in DOMAIN Mappings : Mappings[i].element = e}
  <2>1. asked # {} /\ asked \in SUBSET (0 .. Len(Mappings)) /\ Len(Mappings) \in Nat
    BY MappingOf, ModbusAssumption DEF Element
  <2>2. PICK i \in DOMAIN Mappings : GetByElement(e) = Mappings[i]
    BY <2>1, MaxOf DEF GetByElement
  <2>3. /\ RegisterChanges(Mappings[i].register, ValueToRegister(Mappings[i], v))
        /\ InRange(Mappings[i], v) /\ v \in Int
    BY <1>9, <2>2, ModbusAssumption DEF HandleElementEvent
  <2>4. ValueToRegister(Mappings[i], v) \in Value
    BY <2>3, MappingOf, RegisterValue
  <2> QED
    BY <1>7, <2>3, <2>4, MappingOf
<1>10. CASE UNCHANGED modbusVars
  BY <1>1, <1>5, <1>10 DEF modbusVars
<1> QED
  BY <1>2, <1>3, <1>4, <1>6, <1>8, <1>9, <1>10 DEF ModbusNext

\* What registers, polls and the reads that are kept hold are values of registers: the
\* conversion of an element's value, with any offset and any scale, is refused outside
\* of them (RegisterMapping.value_to_register).
THEOREM ModbusTypesHold == ModbusSpec => []ModbusTypeOK
<1>1. ModbusInit => ValuesInv
  <2> SUFFICES ASSUME ModbusInit PROVE ValuesInv
    OBVIOUS
  <2>1. register \in [Register -> Value]
    BY ModbusAssumption DEF ModbusInit, Value
  <2>2. \A r \in Register : reads[r] = <<>> /\ poll[r] = Off
    BY DEF ModbusInit
  <2>3. reads = [r \in Register |-> reads[r]]
    BY DEF ModbusInit
  <2>4. <<>> \in Seq(Value)
    OBVIOUS
  <2> QED
    BY <2>1, <2>2, <2>3, <2>4 DEF ValuesInv
<1>2. NoiseInv /\ ValuesInv => ModbusTypeOK
  <2> SUFFICES ASSUME NoiseInv, ValuesInv PROVE ModbusTypeOK
    OBVIOUS
  <2>1. ASSUME NEW r \in Register
        PROVE  reads[r] \in UNION {[1 .. n -> Value] : n \in 0 .. Debounce}
    <3>1. reads[r] \in Seq(Value) /\ Len(reads[r]) <= Debounce
      BY DEF NoiseInv, NoiseTypes, ValuesInv
    <3>2. Len(reads[r]) \in 0 .. Debounce /\ reads[r] \in [1 .. Len(reads[r]) -> Value]
      BY <3>1, ModbusAssumption
    <3> QED
      BY <3>2
  <2>2. reads \in [Register -> UNION {[1 .. n -> Value] : n \in 0 .. Debounce}]
    <3>1. reads = [r \in Register |-> reads[r]]
      BY DEF ValuesInv
    <3> QED
      BY <2>1, <3>1
  <2>3. \A r \in Register : poll[r].counter \in 0 .. Debounce - 1
    BY ModbusAssumption DEF NoiseInv, NoiseTypes, CountsReads
  <2> QED
    BY <2>2, <2>3 DEF ModbusTypeOK, ValuesInv, Value, Polled, PollFits
<1> QED
  BY <1>1, <1>2, NoiseInvariance, NextValues, PTL DEF ModbusSpec

-----------------------------------------------------------------------------
(* The composition of MCLinks.  Whichever part moves, the others keep still. *)

\* The connection, the batches and the registers behave, one beside the other, as each
\* does alone.
THEOREM LinksBehave == LinksSpec => Spec /\ BatchSpec /\ ModbusSpec
<1>1. LinksInit => Init /\ BatchInit /\ ModbusInit
  BY DEF LinksInit
<1>2. [LinksNext]_linkVars
      => [Next]_connectionVars /\ [BatchNext]_batchVars /\ [ModbusNext]_modbusVars
  BY DEF LinksNext, OfConnection, OfBatches, OfEdge, OfRegisters, linkVars
<1> QED
  BY <1>1, <1>2, PTL DEF LinksSpec, Spec, BatchSpec, ModbusSpec

\* So what was proved of the parts holds of the composition: their types, nobody opens a
\* connection over a live one, batches come in order, and noise is not published.
THEOREM LinksHold ==
    LinksSpec => [](LinksTypeOK /\ BatchesInOrder) /\ LiveClientKept /\ NoiseStaysOut
BY LinksBehave, ConnectionTypesHold, ClientKept, BatchTypesHold, InOrderAlways, ModbusTypesHold,
   NoiseNeverPublished, PTL DEF LinksTypeOK
=============================================================================
