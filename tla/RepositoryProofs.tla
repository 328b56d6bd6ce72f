--------------------------- MODULE RepositoryProofs ---------------------------
(***************************************************************************)
(* Theorems about Repository: IInv is an invariant for any number of       *)
(* clients, shells, Submodels and mutations, so is everything the runs     *)
(* check of the cache and of the events, the handlers implement            *)
(* DocumentStore, and a client alone finds nothing stale.                  *)
(***************************************************************************)
EXTENDS RepositoryInvariant, SequenceTheorems, TLAPS

-----------------------------------------------------------------------------
(* Requests and their remaining steps.                                     *)

\* What is left after the next step of a handler is its remaining steps, one
\* position earlier.
LEMMA TodoSplit ==
    ASSUME NEW r \in Request, r.todo # << >>
    PROVE  /\ Len(r.todo) \in Nat \ {0}
           /\ Head(r.todo) = r.todo[1]
           /\ Head(r.todo) \in Effect
           /\ Tail(r.todo) \in Seq(Effect)
           /\ Len(Tail(r.todo)) = Len(r.todo) - 1
           /\ \A i \in 1 .. Len(Tail(r.todo)) : Tail(r.todo)[i] = r.todo[i + 1]
<1>1. r.todo \in Seq(Effect)
  BY DEF Request
<1>2. Len(r.todo) \in Nat \ {0}
  BY <1>1, EmptySeq
<1> QED
  BY <1>1, <1>2, HeadTailProperties

\* The idle request, which every finished handler leaves, is a request.
LEMMA IdleIsWellFormed ==
    ASSUME NEW h
    PROVE  Idle \in Request /\ WellFormed(Idle, h)
<1>1. NothingRead \in [Key -> DocOrAbsent]
  BY DEF NothingRead, DocOrAbsent
<1>2. Idle \in Request
  BY <1>1, EmptySeq, ConstantsAssumption DEF Idle, Request, Family, Change
<1>3. WellAddressed(Idle)
  BY EmptySeq DEF WellAddressed, Idle, Writing
<1>4. WellRead(Idle)
  BY EmptySeq, ConstantsAssumption DEF WellRead, Idle, Wanted
<1>5. WellCommitted(Idle, h)
  BY EmptySeq DEF WellCommitted, Idle, NothingRead
<1> QED
  BY <1>2, <1>3, <1>4, <1>5 DEF WellFormed

\* A well-formed request stays so when its next step is done, if that step has
\* read what it was there to read and nothing relied on is lost.
LEMMA StepDone ==
    ASSUME NEW r \in Request, NEW h,
           WellFormed(r, h), r.todo # << >>,
           NEW snap \in [Key -> DocOrAbsent],
           \A k \in Key : snap[k] # Absent => snap[k] \in h[k],
           \A k \in Key : r.snap[k] # Absent
                          => snap[k] # Absent
                             \/ (Head(r.todo).do = "probe" /\ k = Head(r.todo).key),
           Head(r.todo).do \in {"lookup", "fetch"}
             => snap[Head(r.todo).key] # Absent
    PROVE  LET q == AfterStep(r, Tail(r.todo), snap)
           IN  q \in Request /\ WellFormed(q, h)
<1> DEFINE q == [r EXCEPT !.todo = Tail(r.todo), !.snap = snap]
<1>1. AfterStep(r, Tail(r.todo), snap) \in {Idle, q}
  BY DEF AfterStep
<1>2. q \in Request
  BY TodoSplit DEF Request
<1>3. /\ q.family = r.family /\ q.key = r.key /\ q.shell = r.shell
      /\ q.snap = snap /\ q.todo = Tail(r.todo)
  BY DEF Request
<1>4. WellAddressed(q)
  <2>1. WellAddressed(r)
    BY DEF WellFormed
  <2>2. q.family # "idle"
    BY <2>1, <1>3 DEF WellAddressed
  <2>3. ASSUME NEW i \in 1 .. Len(q.todo), q.todo[i].do = "link"
        PROVE  q.todo[i].key \in Submodel /\ q.shell \in Shell /\ q.snap[q.shell] # Absent
    <3>1. i + 1 \in 1 .. Len(r.todo) /\ q.todo[i] = r.todo[i + 1] /\ Len(r.todo) # 1
      BY <1>3, TodoSplit
    <3>2. q.todo[i].key \in Submodel /\ r.shell \in Shell /\ r.snap[r.shell] # Absent
      BY <2>1, <2>3, <3>1 DEF WellAddressed
    <3>3. Head(r.todo).do # "probe"
      <4>1. WellRead(r) /\ Head(r.todo) = r.todo[1] /\ 1 \in 1 .. Len(r.todo)
        BY TodoSplit DEF WellFormed
      <4> QED
        BY <3>1, <4>1 DEF WellRead
    <3> QED
      BY <3>2, <3>3, <1>3 DEF Key
  <2> QED
    BY <2>1, <2>2, <2>3, <1>3, TodoSplit DEF WellAddressed, Writing
<1>5. Wanted(q) = Wanted(r)
  BY <1>3 DEF Wanted
<1>6. \A k \in Key, i \in 1 .. Len(Tail(r.todo)) + 1 :
         Available(r, k, i + 1)
         /\ ~(Head(r.todo).do = "probe" /\ k = Head(r.todo).key)
         => Available(q, k, i)
  <2> SUFFICES ASSUME NEW k \in Key, NEW i \in 1 .. Len(Tail(r.todo)) + 1,
                      Available(r, k, i + 1),
                      ~(Head(r.todo).do = "probe" /\ k = Head(r.todo).key)
               PROVE  Available(q, k, i)
    OBVIOUS
  <2>1. CASE r.snap[k] # Absent
    BY <2>1, <1>3 DEF Available
  <2>2. CASE r.snap[k] = Absent
    <3>1. PICK j \in 1 .. i : r.todo[j].do \in {"lookup", "fetch"} /\ r.todo[j].key = k
      BY <2>2, TodoSplit DEF Available
    <3>2. CASE j = 1
      BY <3>1, <3>2, <1>3, TodoSplit DEF Available
    <3>3. CASE j # 1
      <4>1. j - 1 \in 1 .. (i - 1) /\ j - 1 \in 1 .. Len(Tail(r.todo))
        BY <3>3, TodoSplit
      <4>2. q.todo[j - 1] = r.todo[j]
        BY <4>1, <1>3, TodoSplit
      <4> QED
        BY <3>1, <4>1, <4>2 DEF Available
    <3> QED
      BY <3>2, <3>3
  <2> QED
    BY <2>1, <2>2
<1>7. WellRead(q)
  <2>1. WellRead(r)
    BY DEF WellFormed
  <2>2. Head(r.todo).do = "probe"
        => Len(r.todo) = 1 /\ Head(r.todo).key \notin Wanted(r)
    <3>1. 1 \in 1 .. Len(r.todo) /\ Head(r.todo) = r.todo[1]
      BY TodoSplit
    <3> QED
      BY <2>1, <3>1 DEF WellRead
  <2> HIDE DEF q
  <2>3. ASSUME NEW i \in 1 .. Len(q.todo)
        PROVE  /\ q.todo[i].do \in {"fill", "value_set"} => Available(q, q.todo[i].key, i)
               /\ q.todo[i].do = "probe"
                  => i = Len(q.todo) /\ q.todo[i].key \notin Wanted(q)
    <3>1. i + 1 \in 1 .. Len(r.todo) /\ q.todo[i] = r.todo[i + 1]
      BY <1>3, TodoSplit
    <3>2. q.todo[i].key \in Key
      <4>1. q.todo \in Seq(Effect)
        BY <1>2 DEF Request
      <4>2. q.todo[i] \in Effect
        BY <4>1, ElementOfSeq
      <4> QED
        BY <4>2 DEF Effect
    <3>3. Head(r.todo).do # "probe"
      BY <2>2, <3>1, TodoSplit
    <3> QED
      BY <2>1, <3>1, <3>2, <3>3, <1>3, <1>5, <1>6, TodoSplit DEF WellRead
  <2>4. ASSUME NEW k \in Wanted(q)
        PROVE  Available(q, k, Len(q.todo) + 1)
    <3>1. k \in Key /\ k \in Wanted(r)
      BY <1>5 DEF Wanted
    <3>2. Available(r, k, Len(r.todo) + 1)
      BY <2>1, <3>1 DEF WellRead
    <3> QED
      BY <2>2, <3>1, <3>2, <1>3, <1>6, TodoSplit
  <2> QED
    BY <2>3, <2>4 DEF WellRead
<1>8. WellCommitted(q, h)
  <2>1. WellCommitted(r, h)
    BY DEF WellFormed
  <2>2. \A i \in 1 .. Len(q.todo) :
           i + 1 \in 1 .. Len(r.todo) /\ q.todo[i] = r.todo[i + 1]
    BY <1>3, TodoSplit
  <2> QED
    BY <2>1, <2>2, <1>3 DEF WellCommitted
<1> QED
  BY <1>1, <1>2, <1>4, <1>7, <1>8, IdleIsWellFormed DEF WellFormed

\* Nor is anything lost when a cache miss makes a handler read the row.
LEMMA LookupMissed ==
    ASSUME NEW r \in Request, NEW h,
           WellFormed(r, h), r.todo # << >>,
           Head(r.todo).do = "lookup"
    PROVE  LET k == Head(r.todo).key
               rest == <<Await("fetch", k), Await("fill", k)>> \o Tail(r.todo)
               q == AfterStep(r, rest, r.snap)
           IN  q \in Request /\ WellFormed(q, h)
<1> DEFINE k == Head(r.todo).key
           two == <<Await("fetch", k), Await("fill", k)>>
           rest == two \o Tail(r.todo)
           q == [r EXCEPT !.todo = rest, !.snap = r.snap]
<1>1. /\ Head(r.todo) = r.todo[1] /\ k \in Key /\ 1 \in 1 .. Len(r.todo)
      /\ Len(r.todo) \in Nat \ {0} /\ Len(Tail(r.todo)) = Len(r.todo) - 1
      /\ \A i \in 1 .. Len(Tail(r.todo)) : Tail(r.todo)[i] = r.todo[i + 1]
  BY TodoSplit DEF Effect
<1>2. Await("fetch", k) \in Effect /\ Await("fill", k) \in Effect
  BY <1>1 DEF Await, Effect, ReadStep, DocOrAbsent
<1>3. two \in Seq(Effect) /\ Len(two) = 2
      /\ two[1] = Await("fetch", k) /\ two[2] = Await("fill", k)
  <2> HIDE DEF k
  <2> QED
    BY <1>2
<1>4. /\ rest \in Seq(Effect)
      /\ Len(rest) = Len(r.todo) + 1
      /\ rest[1] = Await("fetch", k) /\ rest[2] = Await("fill", k)
      /\ \A i \in 3 .. Len(rest) : rest[i] = r.todo[i - 1]
  <2>1. /\ rest \in Seq(Effect)
        /\ Len(rest) = 2 + Len(Tail(r.todo))
        /\ \A i \in 1 .. 2 + Len(Tail(r.todo)) :
              rest[i] = IF i <= 2 THEN two[i] ELSE Tail(r.todo)[i - 2]
    <3>1. Tail(r.todo) \in Seq(Effect)
      BY TodoSplit
    <3> HIDE DEF two
    <3>2. /\ two \o Tail(r.todo) \in Seq(Effect)
          /\ Len(two \o Tail(r.todo)) = Len(two) + Len(Tail(r.todo))
          /\ \A i \in 1 .. Len(two) + Len(Tail(r.todo)) :
                (two \o Tail(r.todo))[i] =
                   IF i <= Len(two) THEN two[i] ELSE Tail(r.todo)[i - Len(two)]
      BY <1>3, <3>1, ConcatProperties
    <3> QED
      BY <1>3, <3>2
  <2> HIDE DEF rest, two, k
  <2>2. \A i \in 3 .. Len(rest) : i - 2 \in 1 .. Len(Tail(r.todo)) /\ (i - 2) + 1 = i - 1
    BY <2>1, <1>1
  <2>3. \A i \in 3 .. Len(rest) : rest[i] = Tail(r.todo)[i - 2]
    <3>1. \A i \in 3 .. Len(rest) : i \in 1 .. 2 + Len(Tail(r.todo)) /\ ~(i <= 2)
      BY <2>1, <1>1
    <3> QED
      BY <2>1, <3>1
  <2>4. \A i \in 3 .. Len(rest) : rest[i] = r.todo[i - 1]
    BY <2>2, <2>3, <1>1
  <2>5. rest[1] = two[1] /\ rest[2] = two[2] /\ Len(rest) = Len(r.todo) + 1
    BY <2>1, <1>1
  <2> QED
    BY <2>1, <2>4, <2>5, <1>3
<1>5. rest # << >>
  BY <1>4, <1>1, EmptySeq
<1>6. AfterStep(r, rest, r.snap) = q
  BY <1>5 DEF AfterStep
<1> HIDE DEF rest, two
<1>7. /\ q \in Request
      /\ q.family = r.family /\ q.key = r.key /\ q.shell = r.shell
      /\ q.snap = r.snap /\ q.todo = rest
  BY <1>4 DEF Request
<1> HIDE DEF q
<1>8. Wanted(q) = Wanted(r)
  BY <1>7 DEF Wanted
<1>9. \A x \in Key, i \in 2 .. Len(r.todo) + 1 :
         Available(r, x, i) => Available(q, x, i + 1)
  <2> SUFFICES ASSUME NEW x \in Key, NEW i \in 2 .. Len(r.todo) + 1,
                      Available(r, x, i)
               PROVE  Available(q, x, i + 1)
    OBVIOUS
  <2>1. CASE r.snap[x] # Absent
    BY <2>1, <1>7 DEF Available
  <2>2. CASE r.snap[x] = Absent
    <3>1. PICK j \in 1 .. (i - 1) : r.todo[j].do \in {"lookup", "fetch"} /\ r.todo[j].key = x
      BY <2>2 DEF Available
    <3>2. CASE j = 1
      <4>1. rest[1].do = "fetch" /\ rest[1].key = x
        BY <3>1, <3>2, <1>1, <1>4 DEF Await
      <4>2. 1 \in 1 .. (i + 1) - 1
        BY <1>1
      <4> QED
        BY <4>1, <4>2, <1>7 DEF Available
    <3>3. CASE j # 1
      <4>1. j + 1 \in 3 .. Len(rest) /\ j + 1 \in 1 .. (i + 1) - 1
        BY <3>3, <1>1, <1>4
      <4>2. rest[j + 1] = r.todo[j]
        BY <4>1, <1>1, <1>4
      <4> QED
        BY <3>1, <4>1, <4>2, <1>7 DEF Available
    <3> QED
      BY <3>2, <3>3
  <2> QED
    BY <2>1, <2>2
<1>10. ASSUME NEW i \in 1 .. Len(rest)
       PROVE  \/ i = 1 /\ rest[i] = Await("fetch", k)
              \/ i = 2 /\ rest[i] = Await("fill", k)
              \/ i - 1 \in 2 .. Len(r.todo) /\ rest[i] = r.todo[i - 1]
  BY <1>1, <1>4
<1>11. WellAddressed(q)
  <2>1. WellAddressed(r)
    BY DEF WellFormed
  <2>2. q.family # "idle"
    BY <2>1, <1>7 DEF WellAddressed
  <2>3. ASSUME NEW i \in 1 .. Len(q.todo), q.todo[i].do = "link"
        PROVE  q.todo[i].key \in Submodel /\ q.shell \in Shell /\ q.snap[q.shell] # Absent
    BY <2>1, <2>3, <1>7, <1>10 DEF WellAddressed, Await
  <2> QED
    BY <2>1, <2>2, <2>3, <1>7 DEF WellAddressed, Writing
<1>12. WellRead(q)
  <2>1. WellRead(r)
    BY DEF WellFormed
  <2>2. ASSUME NEW i \in 1 .. Len(q.todo)
        PROVE  /\ q.todo[i].do \in {"fill", "value_set"} => Available(q, q.todo[i].key, i)
               /\ q.todo[i].do = "probe"
                  => i = Len(q.todo) /\ q.todo[i].key \notin Wanted(q)
    <3>1. CASE i = 1
      BY <3>1, <1>4, <1>7 DEF Await
    <3>2. CASE i = 2
      <4>1. 1 \in 1 .. i - 1 /\ rest[1].do = "fetch" /\ rest[1].key = k /\ rest[2].key = k
        BY <3>2, <1>4 DEF Await
      <4> QED
        BY <3>2, <4>1, <1>4, <1>7 DEF Await, Available
    <3>3. CASE i \notin {1, 2}
      <4>1. i - 1 \in 2 .. Len(r.todo) /\ i - 1 \in 1 .. Len(r.todo) /\ q.todo[i] = r.todo[i - 1]
        BY <3>3, <1>1, <1>7, <1>10
      <4>2. q.todo[i].key \in Key
        <5>1. q.todo \in Seq(Effect)
          BY <1>7 DEF Request
        <5>2. q.todo[i] \in Effect
          BY <5>1, ElementOfSeq
        <5> QED
          BY <5>2 DEF Effect
      <4>3. ASSUME q.todo[i].do \in {"fill", "value_set"}
            PROVE  Available(q, q.todo[i].key, (i - 1) + 1)
        <5>1. Available(r, q.todo[i].key, i - 1)
          BY <2>1, <4>1, <4>3 DEF WellRead
        <5>2. i - 1 \in 2 .. Len(r.todo) + 1
          BY <4>1, <1>1
        <5> QED
          BY <4>2, <5>1, <5>2, <1>9
      <4>4. (i - 1) + 1 = i
        BY <4>1
      <4>5. q.todo[i].do = "probe" => i = Len(q.todo) /\ q.todo[i].key \notin Wanted(q)
        BY <2>1, <4>1, <1>1, <1>4, <1>7, <1>8 DEF WellRead
      <4> QED
        BY <4>3, <4>4, <4>5
    <3> QED
      BY <3>1, <3>2, <3>3
  <2>3. ASSUME NEW x \in Wanted(q)
        PROVE  Available(q, x, Len(q.todo) + 1)
    <3>1. x \in Key /\ Available(r, x, Len(r.todo) + 1)
      BY <2>1, <1>8 DEF WellRead, Wanted
    <3> QED
      BY <3>1, <1>1, <1>4, <1>7, <1>9
  <2> QED
    BY <2>2, <2>3 DEF WellRead
<1>13. WellCommitted(q, h)
  <2>1. WellCommitted(r, h)
    BY DEF WellFormed
  <2>2. ASSUME NEW i \in 1 .. Len(q.todo)
        PROVE  /\ q.todo[i].do = "set" => q.todo[i].doc \in h[q.todo[i].key] \ {Absent}
               /\ q.todo[i].do \in PublishStep => q.todo[i].doc \in h[q.todo[i].key]
    <3>1. CASE i \in {1, 2}
      BY <3>1, <1>4, <1>7 DEF Await, PublishStep
    <3>2. CASE i \notin {1, 2}
      <4>1. i - 1 \in 1 .. Len(r.todo) /\ q.todo[i] = r.todo[i - 1]
        BY <3>2, <1>1, <1>7, <1>10
      <4> QED
        BY <2>1, <4>1 DEF WellCommitted
    <3> QED
      BY <3>1, <3>2
  <2> QED
    BY <2>1, <2>2, <1>7 DEF WellCommitted
<1> QED
  BY <1>6, <1>7, <1>11, <1>12, <1>13 DEF WellFormed, rest, two

\* Committing more documents takes nothing back.
LEMMA HistoryGrows ==
    ASSUME NEW r \in Request, NEW h, NEW g,
           WellFormed(r, h), \A k \in Key : h[k] \subseteq g[k]
    PROVE  WellFormed(r, g)
<1>1. \A i \in 1 .. Len(r.todo) : r.todo[i].key \in Key
  <2>1. r.todo \in Seq(Effect)
    BY DEF Request
  <2>2. \A i \in 1 .. Len(r.todo) : r.todo[i] \in Effect
    BY <2>1, ElementOfSeq
  <2> QED
    BY <2>2 DEF Effect
<1> QED
  BY <1>1 DEF WellFormed, WellCommitted

-----------------------------------------------------------------------------
(* New requests.                                                           *)

\* A request as its handler begins it.
Startable(r) ==
    /\ r \in Request
    /\ r.family \notin {"idle", "committed"}
    /\ r.snap = NothingRead
    /\ \A i \in 1 .. Len(r.todo) : r.todo[i].do \in ReadStep
    /\ WellAddressed(r)
    /\ WellRead(r)

\* What the handlers have in common: awaits on some keys, and one family.
LEMMA StartableAwaits ==
    ASSUME NEW family \in Family \ {"idle", "committed"},
           NEW k \in Key, NEW s \in Shell \cup {None}, NEW tag \in Doc \cup {None},
           NEW change \in Change, NEW edit \in 0 .. MaxMutations,
           family \in {"attach", "detach", "put_for_shell", "delete_for_shell"}
             => k \in Submodel /\ s \in Shell,
           NEW todo \in Seq(Effect),
           \A i \in 1 .. Len(todo) : todo[i].do \in ReadStep,
           WellRead(Sent(family, k, s, tag, change, edit, todo))
    PROVE  Startable(Sent(family, k, s, tag, change, edit, todo))
<1> DEFINE r == Sent(family, k, s, tag, change, edit, todo)
<1>1. NothingRead \in [Key -> DocOrAbsent]
  BY DEF NothingRead, DocOrAbsent
<1>2. r \in Request
  BY <1>1 DEF Sent, Request
<1>3. /\ r.family = family /\ r.key = k /\ r.shell = s /\ r.snap = NothingRead
      /\ r.todo = todo
  BY DEF Sent
<1>4. \A i \in 1 .. Len(todo) : todo[i].do # "link"
  BY DEF ReadStep
<1>5. WellAddressed(r)
  <2> HIDE DEF r
  <2> QED
    BY <1>3, <1>4 DEF WellAddressed, Writing
<1> QED
  BY <1>2, <1>3, <1>5 DEF Startable

\* Every list of awaits some handler begins with.
LEMMA AwaitLists ==
    ASSUME NEW k \in Key, NEW x \in Key
    PROVE  /\ << >> \in Seq(Effect)
           /\ \A a \in ReadStep :
                 /\ <<Await(a, k)>> \in Seq(Effect)
                 /\ Await(a, k).do = a /\ Await(a, k).key = k
           /\ \A a, b \in ReadStep :
                 <<Await(a, k), Await(b, x)>> \in Seq(Effect)
           /\ \A a, b, d \in ReadStep :
                 <<Await(a, k), Await(b, k), Await(d, k)>> \in Seq(Effect)
<1>1. \A a \in ReadStep, y \in Key : Await(a, y) \in Effect
  BY DEF Await, Effect, DocOrAbsent
<1> QED
  BY <1>1 DEF Await

\* What a client's new request does to the state of the model.
Begun(c, r) ==
    /\ req[c].family = "idle"
    /\ Startable(r)
    /\ req' = [req EXCEPT ![c] = r]
    /\ Writing(r) => r.edit = started + 1 /\ started < MaxMutations
    /\ started' = IF Writing(r) THEN started + 1 ELSE started
    /\ UNCHANGED <<db, cache, values, event, history>>

\* One Begin of a handler, given that the handler asks for what it relies on.
LEMMA BeginBegins ==
    ASSUME started \in 0 .. MaxMutations,
           NEW c \in Client, NEW family \in Family \ {"idle", "committed"},
           NEW k \in Key, NEW s \in Shell \cup {None}, NEW tag \in Doc \cup {None},
           NEW change \in Change,
           family \in {"attach", "detach", "put_for_shell", "delete_for_shell"}
             => k \in Submodel /\ s \in Shell,
           NEW todo \in Seq(Effect),
           \A i \in 1 .. Len(todo) : todo[i].do \in ReadStep,
           \A edit : WellRead(Sent(family, k, s, tag, change, edit, todo)),
           Begin(c, family, k, s, tag, change, todo)
    PROVE  \E r : Begun(c, r)
<1> DEFINE edit == IF Mutating(family) THEN started + 1 ELSE 0
           r == Sent(family, k, s, tag, change, edit, todo)
<1>1. edit \in 0 .. MaxMutations
  BY ConstantsAssumption DEF Begin
<1>2. Startable(r)
  <2> HIDE DEF edit
  <2> QED
    BY <1>1, StartableAwaits
<1>3. r.family = family /\ r.edit = edit
  BY DEF Sent
<1>4. Writing(r) <=> Mutating(family)
  BY <1>3 DEF Writing, Mutating
<1>5. Begun(c, r)
  BY <1>2, <1>3, <1>4, ConstantsAssumption DEF Begin, Begun
<1> QED
  BY <1>5

\* One await is enough where nothing else is relied on.
LEMMA OneAwait ==
    ASSUME NEW r, NEW a, NEW y,
           r.todo = <<Await(a, y)>>,
           a \notin {"fill", "value_set"},
           a = "probe" => y \notin Wanted(r),
           \A k \in Wanted(r) : k = y /\ a \in {"lookup", "fetch"}
    PROVE  WellRead(r)
<1>1. Len(r.todo) = 1 /\ r.todo[1].do = a /\ r.todo[1].key = y
  BY DEF Await
<1> QED
  BY <1>1 DEF WellRead, Available

\* Two awaits: the first reads, the second reads, probes or fills.
LEMMA TwoAwaits ==
    ASSUME NEW r, NEW a \in {"lookup", "fetch"}, NEW y, NEW b, NEW z,
           r.todo = <<Await(a, y), Await(b, z)>>,
           b # "value_set",
           b = "fill" => z = y,
           b = "probe" => z \notin Wanted(r),
           \A k \in Wanted(r) : k = y \/ (k = z /\ b \in {"lookup", "fetch"})
    PROVE  WellRead(r)
<1>1. /\ Len(r.todo) = 2 /\ r.todo[1].do = a /\ r.todo[1].key = y
      /\ r.todo[2].do = b /\ r.todo[2].key = z
  BY DEF Await
<1>2. ASSUME NEW i \in 1 .. Len(r.todo)
      PROVE  /\ r.todo[i].do \in {"fill", "value_set"} => Available(r, r.todo[i].key, i)
             /\ r.todo[i].do = "probe" => i = Len(r.todo) /\ r.todo[i].key \notin Wanted(r)
  BY <1>1 DEF Available
<1>3. ASSUME NEW k \in Wanted(r)
      PROVE  Available(r, k, Len(r.todo) + 1)
  BY <1>1 DEF Available
<1> QED
  BY <1>2, <1>3 DEF WellRead

\* What a request that names these keys relies on at its decision.
LEMMA WantedBySent ==
    ASSUME NEW family, NEW k, NEW s, NEW tag, NEW change, NEW edit, NEW todo
    PROVE  LET r == Sent(family, k, s, tag, change, edit, todo) IN
           /\ r.todo = todo
           /\ Wanted(r) = {y \in Key : y = s \/ (y = k /\ family \in {"modify", "quiet_modify"})}
           /\ None \notin Wanted(r)
  BY ConstantsAssumption DEF Sent, Wanted

\* Lookups only, of the shell first where there is one.
LEMMA LookupsOnly ==
    ASSUME NEW r, \A i \in 1 .. Len(r.todo) : r.todo[i].do = "lookup",
           \A k \in Wanted(r) : Len(r.todo) >= 1 /\ r.todo[1].key = k,
           Len(r.todo) \in Nat
    PROVE  WellRead(r)
<1>1. ASSUME NEW k \in Wanted(r)
      PROVE  Available(r, k, Len(r.todo) + 1)
  BY DEF Available
<1> QED
  BY <1>1 DEF WellRead

\* A reading handler begins a well-formed request, whatever plan of its set it
\* follows.
LEMMA ReadsBegin ==
    ASSUME TypeOK, NEW c \in Client, NEW k \in Key
    PROVE  /\ \A plans \in SUBSET {Cached(k), Uncached(k),
                                   <<Await("value_get", k), Await("lookup", k),
                                     Await("value_set", k)>>} :
                 Read(c, k, None, plans) => \E r : Begun(c, r)
           /\ \A s \in Shell :
                 /\ \A plans \in SUBSET {LoadSubmodelForShell(s, k)} :
                       Read(c, k, s, plans) => \E r : Begun(c, r)
                 /\ Read(c, k, s, GetSubmodelsForShell(s, k)) => \E r : Begun(c, r)
<1>1. started \in 0 .. MaxMutations
  BY DEF TypeOK
<1>2. "read" \in Family \ {"idle", "committed"} /\ "none" \in Change
  BY DEF Family, Change
<1>3. \A a \in {"lookup", "fetch", "fill", "value_get", "value_set"} : a \in ReadStep
  BY DEF ReadStep
<1>4. Begin(c, "read", k, None, None, "none", Cached(k)) => \E r : Begun(c, r)
  <2> DEFINE todo == <<Await("lookup", k)>>
  <2>1. todo \in Seq(Effect) /\ \A i \in 1 .. Len(todo) : todo[i].do \in ReadStep
    BY <1>3, AwaitLists
  <2>2. \A edit : WellRead(Sent("read", k, None, None, "none", edit, todo))
    BY WantedBySent, OneAwait
  <2> HIDE DEF todo
  <2>3. Begin(c, "read", k, None, None, "none", todo) => \E r : Begun(c, r)
    BY <1>1, <1>2, <2>1, <2>2, BeginBegins
  <2> QED
    BY <2>3 DEF Cached, todo
<1>5. Begin(c, "read", k, None, None, "none", Uncached(k)) => \E r : Begun(c, r)
  <2> DEFINE todo == <<Await("fetch", k), Await("fill", k)>>
  <2>1. todo \in Seq(Effect) /\ \A i \in 1 .. Len(todo) : todo[i].do \in ReadStep
    BY <1>3, AwaitLists DEF Await
  <2>2. \A edit : WellRead(Sent("read", k, None, None, "none", edit, todo))
    BY WantedBySent, TwoAwaits
  <2> HIDE DEF todo
  <2>3. Begin(c, "read", k, None, None, "none", todo) => \E r : Begun(c, r)
    BY <1>1, <1>2, <2>1, <2>2, BeginBegins
  <2> QED
    BY <2>3 DEF Uncached, todo
<1>6. Begin(c, "read", k, None, None, "none",
            <<Await("value_get", k), Await("lookup", k), Await("value_set", k)>>)
      => \E r : Begun(c, r)
  <2> DEFINE todo == <<Await("value_get", k), Await("lookup", k), Await("value_set", k)>>
  <2>1. todo \in Seq(Effect)
    <3>1. \A a, b, d \in ReadStep :
             <<Await(a, k), Await(b, k), Await(d, k)>> \in Seq(Effect)
      BY AwaitLists
    <3> QED
      BY <1>3, <3>1
  <2>2. /\ Len(todo) = 3
        /\ todo[1].do = "value_get" /\ todo[2].do = "lookup" /\ todo[3].do = "value_set"
        /\ todo[2].key = k /\ todo[3].key = k
    BY DEF Await
  <2> HIDE DEF todo
  <2>3. ASSUME NEW edit
        PROVE  WellRead(Sent("read", k, None, None, "none", edit, todo))
    <3> DEFINE r == Sent("read", k, None, None, "none", edit, todo)
    <3>1. r.todo = todo /\ Wanted(r) = {}
      BY WantedBySent
    <3> HIDE DEF r
    <3>2. Available(r, k, 3)
      BY <2>2, <3>1 DEF Available
    <3>3. ASSUME NEW i \in 1 .. Len(r.todo)
          PROVE  /\ r.todo[i].do \in {"fill", "value_set"} => Available(r, r.todo[i].key, i)
                 /\ r.todo[i].do = "probe" => i = Len(r.todo) /\ r.todo[i].key \notin Wanted(r)
      <4>1. i \in 1 .. 3
        BY <2>2, <3>1, Zenon
      <4>2. CASE i = 1
        BY <4>2, <2>2, <3>1
      <4>3. CASE i = 2
        BY <4>3, <2>2, <3>1
      <4>4. CASE i = 3
        BY <4>4, <2>2, <3>1, <3>2
      <4> QED
        BY <4>1, <4>2, <4>3, <4>4, SMT
    <3>4. WellRead(r)
      BY <3>1, <3>3 DEF WellRead
    <3> QED
      BY <3>4 DEF r
  <2>4. \A i \in 1 .. Len(todo) : todo[i].do \in ReadStep
    BY <1>3, <2>2
  <2>5. Begin(c, "read", k, None, None, "none", todo) => \E r : Begun(c, r)
    BY <1>1, <1>2, <2>1, <2>3, <2>4, BeginBegins
  <2> QED
    BY <2>5 DEF todo
<1>7. ASSUME NEW s \in Shell,
             Begin(c, "read", k, s, None, "none", LoadSubmodelForShell(s, k))
      PROVE  \E r : Begun(c, r)
  <2> DEFINE todo == <<Await("lookup", s), Await("lookup", k)>>
  <2>1. todo \in Seq(Effect) /\ \A i \in 1 .. Len(todo) : todo[i].do \in ReadStep
    BY <1>3, AwaitLists DEF Await, Key
  <2>2. \A edit : WellRead(Sent("read", k, s, None, "none", edit, todo))
    BY WantedBySent, TwoAwaits
  <2> HIDE DEF todo
  <2>3. Begin(c, "read", k, s, None, "none", todo) => \E r : Begun(c, r)
    BY <1>1, <1>2, <2>1, <2>2, BeginBegins
  <2> QED
    BY <1>7, <2>3 DEF LoadSubmodelForShell, todo
<1>8. ASSUME NEW s \in Shell, NEW n \in Nat, NEW l \in [1 .. n -> Submodel],
             Begin(c, "read", k, s, None, "none",
                   LoadSubmodelForShell(s, k)
                   \o [i \in DOMAIN l |-> Await("lookup", l[i])])
      PROVE  \E r : Begun(c, r)
  <2> DEFINE two == LoadSubmodelForShell(s, k)
             more == [i \in DOMAIN l |-> Await("lookup", l[i])]
             todo == two \o more
  <2>1. \A y \in Key : Await("lookup", y) \in Effect /\ Await("lookup", y).do = "lookup"
                       /\ Await("lookup", y).key = y
    BY <1>3 DEF Await, Effect, DocOrAbsent
  <2>2. s \in Key /\ \A i \in 1 .. n : l[i] \in Key
    BY DEF Key
  <2>3. /\ two \in Seq(Effect) /\ Len(two) = 2
        /\ two[1] = Await("lookup", s) /\ two[2] = Await("lookup", k)
    BY <2>1, <2>2 DEF LoadSubmodelForShell
  <2>4. /\ more \in Seq(Effect) /\ Len(more) = n
        /\ \A i \in 1 .. n : more[i] = Await("lookup", l[i])
    BY <2>1, <2>2
  <2> HIDE DEF two, more
  <2>5. /\ todo \in Seq(Effect) /\ Len(todo) = n + 2
        /\ todo[1] = two[1] /\ todo[2] = two[2]
        /\ \A i \in 3 .. n + 2 : todo[i] = more[i - 2]
    <3>1. /\ todo \in Seq(Effect) /\ Len(todo) = Len(two) + Len(more)
          /\ \A i \in 1 .. Len(two) + Len(more) :
                todo[i] = IF i <= Len(two) THEN two[i] ELSE more[i - Len(two)]
      BY <2>3, <2>4, ConcatProperties
    <3> HIDE DEF todo
    <3> QED
      BY <3>1, <2>3, <2>4
  <2>6. \A i \in 1 .. Len(todo) : todo[i].do = "lookup"
    <3> SUFFICES ASSUME NEW i \in 1 .. Len(todo) PROVE todo[i].do = "lookup"
      OBVIOUS
    <3>1. CASE i \in 3 .. n + 2
      <4>1. i - 2 \in 1 .. n
        BY <3>1
      <4> QED
        BY <4>1, <2>1, <2>2, <2>4, <2>5, <3>1
    <3>2. CASE i = 1
      BY <3>2, <2>1, <2>2, <2>3, <2>5
    <3>3. CASE i = 2
      BY <3>3, <2>1, <2>3, <2>5
    <3> QED
      BY <2>5, <3>1, <3>2, <3>3
  <2>7. todo[1].key = s
    BY <2>1, <2>2, <2>3, <2>5
  <2>8. Begin(c, "read", k, s, None, "none", todo)
    BY <1>8 DEF two, more
  <2> HIDE DEF todo
  <2>9. ASSUME NEW edit
        PROVE  WellRead(Sent("read", k, s, None, "none", edit, todo))
    <3> DEFINE r == Sent("read", k, s, None, "none", edit, todo)
    <3>1. r.todo = todo /\ Wanted(r) \subseteq {s}
      BY WantedBySent
    <3> HIDE DEF r
    <3>2. WellRead(r)
      BY <2>5, <2>6, <2>7, <3>1, LookupsOnly, SMTT(60)
    <3> QED
      BY <3>2 DEF r
  <2> QED
    BY <1>1, <1>2, <1>3, <2>5, <2>6, <2>8, <2>9, BeginBegins
<1>9. ASSUME NEW plans \in SUBSET {Cached(k), Uncached(k),
                                  <<Await("value_get", k), Await("lookup", k),
                                    Await("value_set", k)>>},
             Read(c, k, None, plans)
      PROVE  \E r : Begun(c, r)
  BY <1>4, <1>5, <1>6, <1>9 DEF Read
<1>10. ASSUME NEW s \in Shell, NEW plans \in SUBSET {LoadSubmodelForShell(s, k)},
              Read(c, k, s, plans)
       PROVE  \E r : Begun(c, r)
  BY <1>7, <1>10 DEF Read
<1>11. ASSUME NEW s \in Shell, Read(c, k, s, GetSubmodelsForShell(s, k))
       PROVE  \E r : Begun(c, r)
  <2>1. PICK l \in Others(k) :
              Begin(c, "read", k, s, None, "none",
                    LoadSubmodelForShell(s, k)
                    \o [i \in DOMAIN l |-> Await("lookup", l[i])])
    BY <1>11 DEF Read, GetSubmodelsForShell
  <2>2. PICK n \in 0 .. Cardinality(Submodel) - 1 : l \in [1 .. n -> Submodel \ {k}]
    BY DEF Others
  <2>3. n \in Nat /\ l \in [1 .. n -> Submodel]
    BY <2>2
  <2> QED
    BY <1>8, <2>1, <2>3
<1> QED
  BY <1>9, <1>10, <1>11

\* So do the handlers that write one row and read at most that row.
LEMMA WritesBegin ==
    ASSUME TypeOK, NEW c \in Client, NEW k \in Key
    PROVE  /\ PostOne(c, k) => \E r : Begun(c, r)
           /\ PutOne(c, k) => \E r : Begun(c, r)
           /\ DeleteOne(c, k) => \E r : Begun(c, r)
           /\ QuietCreate(c, k) => \E r : Begun(c, r)
           /\ QuietDelete(c, k) => \E r : Begun(c, r)
           /\ QuietModify(c, k) => \E r : Begun(c, r)
           /\ \A x \in Key : InstantiateTemplate(c, x, k) => \E r : Begun(c, r)
           /\ \A tags \in SUBSET (Doc \cup {None}), change \in Change :
                 Modify(c, k, tags, change) => \E r : Begun(c, r)
<1>1. started \in 0 .. MaxMutations
  BY DEF TypeOK
<1>2. \A f \in {"create", "put", "delete", "modify", "quiet_create", "quiet_delete",
               "quiet_modify"} :
         /\ f \in Family \ {"idle", "committed"}
         /\ f \notin {"attach", "detach", "put_for_shell", "delete_for_shell"}
  BY DEF Family
<1>3. "probe" \in ReadStep /\ "fetch" \in ReadStep
  BY DEF ReadStep
<1>4. IfMatch(k) \subseteq Doc \cup {None}
  BY DEF IfMatch, TypeOK, DocOrAbsent
<1>5. \A x \in {"none", "replace", "add"} : x \in Change
  BY DEF Change
<1>6. ASSUME NEW f \in {"create", "put"}, NEW tag \in Doc \cup {None},
             Begin(c, f, k, None, tag, "replace", <<Await("probe", k)>>)
      PROVE  \E r : Begun(c, r)
  <2> DEFINE todo == <<Await("probe", k)>>
  <2>1. todo \in Seq(Effect) /\ \A i \in 1 .. Len(todo) : todo[i].do \in ReadStep
    BY <1>3, AwaitLists
  <2>2. \A edit : WellRead(Sent(f, k, None, tag, "replace", edit, todo))
    BY WantedBySent, OneAwait, ConstantsAssumption
  <2>3. Begin(c, f, k, None, tag, "replace", todo)
    BY <1>6
  <2> HIDE DEF todo
  <2> QED
    BY <1>1, <1>2, <1>5, <2>1, <2>2, <2>3, BeginBegins
<1>7. ASSUME NEW f \in {"delete", "quiet_create", "quiet_delete"}, NEW change \in Change,
             Begin(c, f, k, None, None, change, << >>)
      PROVE  \E r : Begun(c, r)
  <2> DEFINE todo == << >>
  <2>1. todo \in Seq(Effect) /\ \A i \in 1 .. Len(todo) : todo[i].do \in ReadStep
    BY EmptySeq
  <2>2. \A edit : WellRead(Sent(f, k, None, None, change, edit, todo))
    BY WantedBySent, ConstantsAssumption DEF WellRead
  <2>3. Begin(c, f, k, None, None, change, todo)
    BY <1>7
  <2> HIDE DEF todo
  <2> QED
    BY <1>1, <1>2, <2>1, <2>2, <2>3, BeginBegins
<1>8. ASSUME NEW f \in {"modify", "quiet_modify"}, NEW tag \in Doc \cup {None},
             NEW change \in Change,
             Begin(c, f, k, None, tag, change, <<Await("fetch", k)>>)
      PROVE  \E r : Begun(c, r)
  <2> DEFINE todo == <<Await("fetch", k)>>
  <2>1. todo \in Seq(Effect) /\ \A i \in 1 .. Len(todo) : todo[i].do \in ReadStep
    BY <1>3, AwaitLists
  <2>2. \A edit : WellRead(Sent(f, k, None, tag, change, edit, todo))
    BY WantedBySent, OneAwait, ConstantsAssumption
  <2>3. Begin(c, f, k, None, tag, change, todo)
    BY <1>8
  <2> HIDE DEF todo
  <2> QED
    BY <1>1, <1>2, <2>1, <2>2, <2>3, BeginBegins
<1>9. ASSUME NEW x \in Key, InstantiateTemplate(c, x, k)
      PROVE  \E r : Begun(c, r)
  <2> DEFINE todo == <<Await("fetch", x), Await("probe", k)>>
  <2>1. todo \in Seq(Effect) /\ \A i \in 1 .. Len(todo) : todo[i].do \in ReadStep
    BY <1>3, AwaitLists DEF Await
  <2>2. \A edit : WellRead(Sent("create", k, None, None, "replace", edit, todo))
    BY WantedBySent, TwoAwaits, ConstantsAssumption
  <2>3. Begin(c, "create", k, None, None, "replace", todo)
    BY <1>9 DEF InstantiateTemplate
  <2> HIDE DEF todo
  <2> QED
    BY <1>1, <1>2, <1>5, <2>1, <2>2, <2>3, BeginBegins
<1> QED
  BY <1>4, <1>5, <1>6, <1>7, <1>8, <1>9
     DEF PostOne, PutOne, DeleteOne, QuietCreate, QuietDelete, QuietModify, Modify

\* And so do the writing handlers scoped to a shell.
LEMMA ScopedWritesBegin ==
    ASSUME TypeOK, NEW c \in Client, NEW s \in Shell, NEW m \in Submodel
    PROVE  /\ PostSubmodelReference(c, s, m) => \E r : Begun(c, r)
           /\ DeleteSubmodelReference(c, s, m) => \E r : Begun(c, r)
           /\ PutSubmodelByIdForShell(c, s, m) => \E r : Begun(c, r)
           /\ DeleteSubmodelByIdForShell(c, s, m) => \E r : Begun(c, r)
           /\ \A tags \in SUBSET (Doc \cup {None}), change \in Change :
                 ModifyForShell(c, s, m, tags, change) => \E r : Begun(c, r)
<1>1. started \in 0 .. MaxMutations
  BY DEF TypeOK
<1>2. {"attach", "detach", "put_for_shell", "delete_for_shell", "modify"}
         \subseteq Family \ {"idle", "committed"}
  BY DEF Family
<1>3. "probe" \in ReadStep /\ "lookup" \in ReadStep
  BY DEF ReadStep
<1>4. IfMatch(m) \subseteq Doc \cup {None}
  BY DEF IfMatch, TypeOK, DocOrAbsent, Key
<1>5. "none" \in Change /\ "replace" \in Change
  BY DEF Change
<1>6. s \in Key /\ m \in Key /\ m # s
  BY ConstantsAssumption DEF Key
<1>7. ASSUME NEW f \in {"attach", "put_for_shell"}, NEW tag \in Doc \cup {None},
             NEW change \in Change,
             Begin(c, f, m, s, tag, change, <<Await("lookup", s), Await("probe", m)>>)
      PROVE  \E r : Begun(c, r)
  <2> DEFINE todo == <<Await("lookup", s), Await("probe", m)>>
  <2>1. todo \in Seq(Effect) /\ \A i \in 1 .. Len(todo) : todo[i].do \in ReadStep
    BY <1>3, <1>6, AwaitLists DEF Await
  <2>2. ASSUME NEW edit
        PROVE  WellRead(Sent(f, m, s, tag, change, edit, todo))
    BY <1>6, WantedBySent, TwoAwaits
  <2>3. Begin(c, f, m, s, tag, change, todo)
    BY <1>7
  <2> HIDE DEF todo
  <2> QED
    BY <1>1, <1>2, <1>6, <2>1, <2>2, <2>3, BeginBegins
<1>8. ASSUME NEW f \in {"detach", "delete_for_shell"},
             Begin(c, f, m, s, None, "none", <<Await("lookup", s)>>)
      PROVE  \E r : Begun(c, r)
  <2> DEFINE todo == <<Await("lookup", s)>>
  <2>1. todo \in Seq(Effect) /\ \A i \in 1 .. Len(todo) : todo[i].do \in ReadStep
    BY <1>3, <1>6, AwaitLists
  <2>2. ASSUME NEW edit
        PROVE  WellRead(Sent(f, m, s, None, "none", edit, todo))
    BY WantedBySent, OneAwait
  <2>3. Begin(c, f, m, s, None, "none", todo)
    BY <1>8
  <2> HIDE DEF todo
  <2> QED
    BY <1>1, <1>2, <1>5, <1>6, <2>1, <2>2, <2>3, BeginBegins
<1>9. ASSUME NEW tag \in Doc \cup {None}, NEW change \in Change,
             Begin(c, "modify", m, s, tag, change, LoadSubmodelForShell(s, m))
      PROVE  \E r : Begun(c, r)
  <2> DEFINE todo == <<Await("lookup", s), Await("lookup", m)>>
  <2>1. todo \in Seq(Effect) /\ \A i \in 1 .. Len(todo) : todo[i].do \in ReadStep
    BY <1>3, <1>6, AwaitLists DEF Await
  <2>2. ASSUME NEW edit
        PROVE  WellRead(Sent("modify", m, s, tag, change, edit, todo))
    BY WantedBySent, TwoAwaits
  <2>3. Begin(c, "modify", m, s, tag, change, todo)
    BY <1>9 DEF LoadSubmodelForShell
  <2> HIDE DEF todo
  <2> QED
    BY <1>1, <1>2, <1>6, <2>1, <2>2, <2>3, BeginBegins
<1> QED
  BY <1>4, <1>5, <1>7, <1>8, <1>9
     DEF PostSubmodelReference, DeleteSubmodelReference, PutSubmodelByIdForShell,
         DeleteSubmodelByIdForShell, ModifyForShell

\* Every request of the model, whatever its handler.
LEMMA NewRequestBegins ==
    ASSUME TypeOK, NEW c \in Client, HttpRequest(c) \/ QuietRequest(c)
    PROVE  \E r : Begun(c, r)
<1>1. Shell \subseteq Key /\ Submodel \subseteq Key /\ Concept \subseteq Key
  BY DEF Key
<1>2. \A k \in Key : IfMatch(k) \in SUBSET (Doc \cup {None}) /\ {None} \in SUBSET (Doc \cup {None})
  BY DEF IfMatch, TypeOK, DocOrAbsent
<1>3. "add" \in Change /\ "swap" \in Change /\ "drop" \in Change
  BY DEF Change
<1>4. ASSUME NEW s \in Shell, ShellRequest(c, s)
      PROVE  \E r : Begun(c, r)
  <2>1. ShellReads(s) \in SUBSET {Cached(s), Uncached(s)}
    BY DEF ShellReads, GetShellById, GetShellMetadata, GetShellReference,
           GetAssetInformation, GetAssetInformationThumbnail, GetSubmodelReferences
  <2>2. Read(c, s, None, ShellReads(s)) => \E r : Begun(c, r)
    BY <1>1, <2>1, ReadsBegin
  <2> QED
    BY <1>1, <1>2, <1>3, <1>4, <2>2, WritesBegin
       DEF ShellRequest, PostShell, PutShellById, DeleteShellById,
           PutAssetInformation, PutThumbnail, DeleteThumbnail
<1>5. ASSUME NEW m \in Submodel, SubmodelRequest(c, m)
      PROVE  \E r : Begun(c, r)
  <2>1. SubmodelReads(m) \in SUBSET {Cached(m), Uncached(m),
                                     <<Await("value_get", m), Await("lookup", m),
                                       Await("value_set", m)>>}
    BY DEF SubmodelReads, GetSubmodelById, GetSubmodelMetadata, GetSubmodelValue,
           GetSubmodelReference, GetSubmodelPath, GetSubmodelElements,
           GetAllSubmodelElementsMetadata, GetAllSubmodelElementsValue,
           GetAllSubmodelElementsReference, GetAllSubmodelElementsPath,
           GetSubmodelElementByPath, GetElementMetadata, GetElementReference,
           GetElementPath, GetElementAttachment, GetElementValue
  <2>2. Read(c, m, None, SubmodelReads(m)) => \E r : Begun(c, r)
    BY <1>1, <2>1, ReadsBegin
  <2> QED
    BY <1>1, <1>2, <1>3, <1>5, <2>2, WritesBegin
       DEF SubmodelRequest, PostSubmodel, PutSubmodelById, DeleteSubmodelById,
           PatchSubmodelValue, PatchSubmodelMetadata, PutElementAttachment,
           DeleteElementAttachment, PostSubmodelElement, PostNestedSubmodelElement,
           PutSubmodelElement, PatchElementValue, PatchSubmodelElement,
           DeleteSubmodelElement
<1>6. ASSUME NEW d \in Concept, ConceptRequest(c, d)
      PROVE  \E r : Begun(c, r)
  <2>1. Read(c, d, None, GetConceptDescriptionById(d)) => \E r : Begun(c, r)
    BY <1>1, ReadsBegin DEF GetConceptDescriptionById
  <2> QED
    BY <1>1, <1>6, <2>1, WritesBegin
       DEF ConceptRequest, PostConceptDescription, PutConceptDescriptionById,
           DeleteConceptDescriptionById
<1>7. ASSUME NEW s \in Shell, NEW m \in Submodel, ScopedRequest(c, s, m)
      PROVE  \E r : Begun(c, r)
  <2>1. ASSUME NEW plan \in ScopedReads(s, m)
        PROVE  plan = LoadSubmodelForShell(s, m) \/ plan \in GetSubmodelsForShell(s, m)
    BY DEF ScopedReads, GetSubmodelByIdForShell, GetSubmodelMetadataForShell,
           GetSubmodelValueForShell, GetSubmodelReferenceForShell,
           GetSubmodelPathForShell, GetSubmodelElementsForShell,
           GetAllSubmodelElementsMetadataForShell, GetAllSubmodelElementsValueForShell,
           GetAllSubmodelElementsReferenceForShell, GetAllSubmodelElementsPathForShell,
           GetSubmodelElementByPathForShell, GetSubmodelElementMetadataForShell,
           GetSubmodelElementValueForShell, GetSubmodelElementReferenceForShell,
           GetSubmodelElementPathForShell, GetElementAttachmentForShell
  <2>2. Read(c, m, s, ScopedReads(s, m))
        => \/ Read(c, m, s, {LoadSubmodelForShell(s, m)})
           \/ Read(c, m, s, GetSubmodelsForShell(s, m))
    BY <2>1 DEF Read
  <2>3. Read(c, m, s, ScopedReads(s, m)) => \E r : Begun(c, r)
    BY <1>1, <2>2, ReadsBegin
  <2> QED
    BY <1>1, <1>2, <1>3, <1>7, <2>3, ScopedWritesBegin
       DEF ScopedRequest, PatchSubmodelByIdForShell, PatchSubmodelMetadataForShell,
           PatchSubmodelValueForShell, PutElementAttachmentForShell,
           DeleteElementAttachmentForShell, PostSubmodelElementForShell,
           PostNestedSubmodelElementForShell, PutSubmodelElementForShell,
           PatchSubmodelElementValueForShell, PatchSubmodelElementForShell,
           DeleteSubmodelElementForShell
<1>8. ASSUME QuietRequest(c)
      PROVE  \E r : Begun(c, r)
  BY <1>1, <1>8, WritesBegin
     DEF QuietRequest, CreateShellMutation, UpdateShellMutation, DeleteShellMutation,
         CreateSubmodelMutation, UpdateSubmodelMutation, DeleteSubmodelMutation,
         MqttUpdateElementValue, CreateConceptMutation, UpdateConceptMutation,
         DeleteConceptMutation
<1> QED
  BY <1>4, <1>5, <1>6, <1>7, <1>8 DEF HttpRequest

-----------------------------------------------------------------------------
(* Requests after their commit.                                            *)

\* A request that has committed, if all it has left to cache and to publish is
\* in the history.
LEMMA CommittedIsWellFormed ==
    ASSUME NEW q \in Request, NEW h,
           q.family = "committed",
           \A k \in Key : q.snap[k] # Absent => q.snap[k] \in h[k],
           q.shell # None => q.snap[q.shell] # Absent,
           \A i \in 1 .. Len(q.todo) :
              \/ q.todo[i].do = "set" /\ q.todo[i].doc \in h[q.todo[i].key] \ {Absent}
              \/ q.todo[i].do \in {"evict", "drop_values"}
              \/ q.todo[i].do \in PublishStep /\ q.todo[i].doc \in h[q.todo[i].key]
              \/ q.todo[i].do = "link" /\ q.todo[i].key \in Submodel /\ q.shell \in Shell
    PROVE  WellFormed(q, h)
<1>1. WellAddressed(q)
  BY ConstantsAssumption DEF WellAddressed, Writing, PublishStep, Key
<1>2. WellRead(q)
  <2>1. \A k \in Wanted(q) : q.snap[k] # Absent
    BY ConstantsAssumption DEF Wanted
  <2> QED
    BY <2>1 DEF WellRead, Available, PublishStep
<1>3. WellCommitted(q, h)
  BY DEF WellCommitted, PublishStep
<1> QED
  BY <1>1, <1>2, <1>3 DEF WellFormed

\* Then makes such a request of effects that are all to be cached or published.
LEMMA ThenIsWellFormed ==
    ASSUME NEW h, NEW effects \in Seq(Effect), effects # << >>,
           \A i \in 1 .. Len(effects) :
              \/ effects[i].do = "set" /\ effects[i].doc \in h[effects[i].key] \ {Absent}
              \/ effects[i].do \in {"evict", "drop_values"}
              \/ effects[i].do \in PublishStep /\ effects[i].doc \in h[effects[i].key]
    PROVE  LET q == [Idle EXCEPT !.family = "committed", !.todo = effects]
           IN  q \in Request /\ ~Writing(q) /\ WellFormed(q, h)
<1> DEFINE q == [Idle EXCEPT !.family = "committed", !.todo = effects]
<1>1. Idle \in Request
  BY IdleIsWellFormed
<1>2. q \in Request
  BY <1>1 DEF Request, Family
<1>3. /\ q.family = "committed" /\ q.shell = None /\ q.snap = NothingRead
      /\ q.todo = effects
  BY DEF Idle
<1> HIDE DEF q
<1>4. \A k \in Key : q.snap[k] = Absent
  BY <1>3 DEF NothingRead
<1>5. WellFormed(q, h)
  BY <1>2, <1>3, <1>4, CommittedIsWellFormed
<1> QED
  BY <1>2, <1>3, <1>5 DEF q, Writing

\* What the handlers announce of a new document.
LEMMA AnnounceLists ==
    ASSUME NEW step \in {"created", "updated"}, NEW k \in Key, NEW d \in Doc
    PROVE  /\ Announce(step, k, d) \in Seq(Effect)
           /\ Announce(step, k, d) # << >>
           /\ \A i \in 1 .. Len(Announce(step, k, d)) :
                 LET e == Announce(step, k, d)[i] IN
                 /\ e.key = k
                 /\ \/ e.do = "set" /\ e.doc = d
                    \/ e.do = "drop_values"
                    \/ e.do \in PublishStep /\ e.doc = d
<1>1. /\ AwaitWith("set", k, d) \in Effect /\ Await("drop_values", k) \in Effect
      /\ AwaitWith(step, k, d) \in Effect
  BY DEF AwaitWith, Await, Effect, WriteStep, PublishStep, DocOrAbsent
<1>2. CASE k \in Submodel
  <2> DEFINE l == <<AwaitWith("set", k, d), Await("drop_values", k), AwaitWith(step, k, d)>>
  <2>1. Announce(step, k, d) = l
    BY <1>2 DEF Announce
  <2>2. l \in Seq(Effect) /\ l # << >> /\ Len(l) = 3
    BY <1>1
  <2>3. \A i \in 1 .. 3 : i = 1 \/ i = 2 \/ i = 3
    OBVIOUS
  <2> QED
    BY <2>1, <2>2, <2>3 DEF AwaitWith, Await, PublishStep
<1>3. CASE k \notin Submodel
  <2> DEFINE l == <<AwaitWith("set", k, d), AwaitWith(step, k, d)>>
  <2>1. Announce(step, k, d) = l
    BY <1>3 DEF Announce
  <2>2. l \in Seq(Effect) /\ l # << >> /\ Len(l) = 2
    BY <1>1
  <2>3. \A i \in 1 .. 2 : i = 1 \/ i = 2
    OBVIOUS
  <2> QED
    BY <2>1, <2>2, <2>3 DEF AwaitWith, Await, PublishStep
<1> QED
  BY <1>2, <1>3

\* What the handlers announce of a deletion.
LEMMA RetractLists ==
    ASSUME NEW k \in Key
    PROVE  /\ Retract(k) \in Seq(Effect)
           /\ Retract(k) # << >>
           /\ \A i \in 1 .. Len(Retract(k)) :
                 LET e == Retract(k)[i] IN
                 /\ e.key = k /\ e.doc = Absent
                 /\ e.do \in {"evict", "drop_values", "deleted"}
<1>1. /\ Await("evict", k) \in Effect /\ Await("drop_values", k) \in Effect
      /\ Await("deleted", k) \in Effect
  BY DEF Await, Effect, WriteStep, PublishStep, DocOrAbsent
<1>2. CASE k \in Submodel
  <2> DEFINE l == <<Await("evict", k), Await("drop_values", k), Await("deleted", k)>>
  <2>1. Retract(k) = l
    BY <1>2 DEF Retract
  <2>2. l \in Seq(Effect) /\ l # << >> /\ Len(l) = 3
    BY <1>1
  <2>3. \A i \in 1 .. 3 : i = 1 \/ i = 2 \/ i = 3
    OBVIOUS
  <2> QED
    BY <2>1, <2>2, <2>3 DEF Await
<1>3. CASE k \notin Submodel
  <2> DEFINE l == <<Await("evict", k), Await("deleted", k)>>
  <2>1. Retract(k) = l
    BY <1>3 DEF Retract
  <2>2. l \in Seq(Effect) /\ l # << >> /\ Len(l) = 2
    BY <1>1
  <2>3. \A i \in 1 .. 2 : i = 1 \/ i = 2
    OBVIOUS
  <2> QED
    BY <2>1, <2>2, <2>3 DEF Await
<1> QED
  BY <1>2, <1>3

-----------------------------------------------------------------------------
(* The invariant is inductive: what a step of one request does to the      *)
(* requests.                                                               *)

\* The part of IInv that speaks of the requests in flight.
RequestsInv ==
    /\ req \in [Client -> Request]
    /\ \A c \in Client : WellFormed(req[c], history)
    /\ WellNumbered

\* A step of one request that commits nothing.
LEMMA NothingCommitted ==
    ASSUME IInv, NEW c \in Client, NEW q \in Request,
           WellFormed(q, history),
           Writing(q) => Writing(req[c]) /\ q.edit = req[c].edit,
           req' = [req EXCEPT ![c] = q],
           UNCHANGED <<history, started>>
    PROVE  RequestsInv'
<1>1. req \in [Client -> Request]
  BY DEF IInv, TypeOK
<1>2. req' \in [Client -> Request] /\ req'[c] = q
      /\ \A o \in Client \ {c} : req'[o] = req[o]
  BY <1>1
<1>3. \A o \in Client : WellFormed(req'[o], history')
  BY <1>2 DEF IInv
<1>4. WellNumbered'
  <2>1. WellNumbered
    BY DEF IInv
  <2> QED
    BY <1>2, <2>1 DEF WellNumbered, Unused, Documents
<1> QED
  BY <1>2, <1>3, <1>4 DEF RequestsInv

\* A document made of the Submodels' identifiers, the request's own edit and
\* the documents it has read.
Derived(c, d) ==
    /\ d \in Doc
    /\ \A x \in d :
          \/ x \in Submodel
          \/ Writing(req[c]) /\ x = req[c].edit
          \/ \E k \in Key : req[c].snap[k] # Absent /\ x \in req[c].snap[k]

\* Such a document has none of the other requests' edits.
LEMMA DerivedIsNew ==
    ASSUME IInv, NEW c \in Client, NEW d, Derived(c, d)
    PROVE  /\ d \cap Edit \subseteq 1 .. started
           /\ \A o \in Client \ {c} : Writing(req[o]) => req[o].edit \notin d
<1>1. \A k \in Key : req[c].snap[k] # Absent => req[c].snap[k] \in Documents(k)
  BY DEF IInv, WellFormed, WellCommitted, Documents
<1>2. Edit \cap Submodel = {} /\ 1 .. started \subseteq Edit
  BY ConstantsAssumption DEF IInv, TypeOK, Edit
<1> QED
  BY <1>1, <1>2 DEF Derived, IInv, WellNumbered, Unused

\* A step of one request that commits such documents, and deletions.
LEMMA DocumentsCommitted ==
    ASSUME IInv, NEW c \in Client, NEW q \in Request,
           history' \in [Key -> SUBSET DocOrAbsent],
           \A k \in Key : history[k] \subseteq history'[k],
           \A k \in Key : \A d \in history'[k] \ history[k] :
              d = Absent \/ Derived(c, d),
           WellFormed(q, history'), ~Writing(q),
           req' = [req EXCEPT ![c] = q],
           UNCHANGED started
    PROVE  RequestsInv'
<1>1. req \in [Client -> Request]
  BY DEF IInv, TypeOK
<1>2. req' \in [Client -> Request] /\ req'[c] = q
      /\ \A o \in Client \ {c} : req'[o] = req[o]
  BY <1>1
<1>3. \A o \in Client : WellFormed(req'[o], history')
  <2>1. ASSUME NEW o \in Client \ {c}
        PROVE  WellFormed(req[o], history')
    BY <1>1, HistoryGrows DEF IInv
  <2> QED
    BY <1>2, <2>1
<1>4. \A k \in Key : \A d \in Documents(k)' :
         d \in Documents(k) \/ Derived(c, d)
  BY DEF Documents
<1>5. WellNumbered'
  <2>1. WellNumbered
    BY DEF IInv
  <2>2. ASSUME NEW o \in Client, Writing(req'[o])
        PROVE  /\ o # c
               /\ req'[o] = req[o]
               /\ Writing(req[o])
    BY <1>2, <2>2
  <2>3. ASSUME NEW o \in Client, Writing(req'[o])
        PROVE  req'[o].edit \in 1 .. started'
    <3>1. Writing(req[o]) /\ req'[o] = req[o]
      BY <2>2, <2>3
    <3>2. req[o].edit \in 1 .. started
      BY <2>1, <3>1 DEF WellNumbered
    <3> QED
      BY <3>1, <3>2
  <2>4. ASSUME NEW o \in Client, Writing(req'[o]), NEW k \in Key, NEW d \in Documents(k)'
        PROVE  req'[o].edit \notin d
    <3>1. o # c /\ Writing(req[o]) /\ req'[o] = req[o]
      BY <2>2, <2>4
    <3>2. CASE d \in Documents(k)
      BY <2>1, <3>1, <3>2 DEF WellNumbered, Unused
    <3>3. CASE Derived(c, d)
      BY <3>1, <3>3, DerivedIsNew
    <3> QED
      BY <2>4, <3>2, <3>3, <1>4
  <2>5. \A a, b \in Client : a # b /\ Writing(req'[a]) /\ Writing(req'[b])
                             => req'[a].edit # req'[b].edit
    BY <2>1, <2>2 DEF WellNumbered
  <2>6. ASSUME NEW k \in Key, NEW d \in Documents(k)'
        PROVE  d \cap Edit \subseteq 1 .. started'
    BY <2>1, <2>6, <1>4, DerivedIsNew DEF WellNumbered
  <2>7. (\A o \in Client : Writing(req[o]) => Unused(req[o].edit))'
    BY <2>4 DEF Unused
  <2> QED
    BY <2>3, <2>5, <2>6, <2>7 DEF WellNumbered
<1> QED
  BY <1>2, <1>3, <1>5 DEF RequestsInv

-----------------------------------------------------------------------------
(* The invariant is inductive: the steps that commit nothing.              *)

\* The rest of IInv holds while the shared state stays as it is.
LEMMA SharedStateKept ==
    ASSUME IInv, RequestsInv', started' \in 0 .. MaxMutations,
           UNCHANGED <<db, cache, values, event, history>>
    PROVE  IInv'
  BY DEF IInv, RequestsInv, TypeOK, StoreCommitted, NothingUncommittedLeaks, Documents

\* A new request of a client.
LEMMA BeginKeeps ==
    ASSUME IInv, NEW c \in Client, HttpRequest(c) \/ QuietRequest(c)
    PROVE  IInv'
<1>1. PICK r : Begun(c, r)
  BY NewRequestBegins DEF IInv
<1>2. /\ req \in [Client -> Request] /\ started \in 0 .. MaxMutations
      /\ MaxMutations \in Nat
  BY ConstantsAssumption DEF IInv, TypeOK
<1>3. r \in Request /\ history' = history
  BY <1>1 DEF Begun, Startable
<1>4. req' \in [Client -> Request] /\ req'[c] = r
      /\ \A o \in Client \ {c} : req'[o] = req[o]
  BY <1>1, <1>2, <1>3 DEF Begun
<1>5. WellFormed(r, history)
  <2>1. WellAddressed(r) /\ WellRead(r)
    BY <1>1 DEF Begun, Startable
  <2>2. WellCommitted(r, history)
    BY <1>1 DEF Begun, Startable, WellCommitted, NothingRead, ReadStep, PublishStep
  <2> QED
    BY <2>1, <2>2 DEF WellFormed
<1>6. \A o \in Client : WellFormed(req'[o], history')
  BY <1>3, <1>4, <1>5 DEF IInv
<1>7. Writing(r) => r.edit = started + 1 /\ started' = started + 1
                    /\ started + 1 \in 1 .. MaxMutations
  BY <1>1, <1>2 DEF Begun
<1>8. started' \in 0 .. MaxMutations /\ started <= started'
  BY <1>1, <1>2, <1>7 DEF Begun
<1>9. WellNumbered
  BY DEF IInv
<1>10. WellNumbered'
  <2>1. \A k \in Key : Documents(k)' = Documents(k)
    BY <1>3 DEF Documents
  <2>2. ASSUME NEW o \in Client, Writing(req'[o])
        PROVE  /\ req'[o].edit \in 1 .. started'
               /\ \A k \in Key : \A d \in Documents(k) : req'[o].edit \notin d
    <3>1. CASE o # c
      <4>1. req[o].edit \in 1 .. started /\ Unused(req[o].edit)
        BY <2>2, <3>1, <1>4, <1>9 DEF WellNumbered
      <4> QED
        BY <4>1, <3>1, <1>2, <1>4, <1>8 DEF Unused
    <3>2. CASE o = c
      <4>1. req'[o].edit = started + 1 /\ started + 1 \in Edit /\ started + 1 \notin 1 .. started
        BY <2>2, <3>2, <1>2, <1>4, <1>7 DEF Edit
      <4>2. \A k \in Key : \A d \in Documents(k) : started + 1 \notin d
        BY <4>1, <1>9 DEF WellNumbered
      <4> QED
        BY <2>2, <3>2, <4>1, <4>2, <1>2, <1>4, <1>7
    <3> QED
      BY <3>1, <3>2
  <2>3. ASSUME NEW a \in Client, NEW b \in Client, a # b, Writing(req'[a]), Writing(req'[b])
        PROVE  req'[a].edit # req'[b].edit
    <3>1. \A o \in Client \ {c} : Writing(req'[o]) => req'[o].edit \in 1 .. started
      BY <1>4, <1>9 DEF WellNumbered
    <3>2. Writing(req'[c]) => req'[c].edit = started + 1
      BY <1>4, <1>7
    <3> QED
      BY <2>3, <3>1, <3>2, <1>2, <1>4, <1>9 DEF WellNumbered
  <2>4. \A k \in Key : \A d \in Documents(k) : d \cap Edit \subseteq 1 .. started'
    BY <1>2, <1>8, <1>9 DEF WellNumbered
  <2>5. (\A o \in Client : Writing(req[o]) => req[o].edit \in 1 .. started /\ Unused(req[o].edit))'
    BY <2>1, <2>2 DEF Unused
  <2> QED
    BY <2>1, <2>3, <2>4, <2>5 DEF WellNumbered
<1>11. RequestsInv'
  BY <1>4, <1>6, <1>10 DEF RequestsInv
<1> QED
  BY <1>1, <1>8, <1>11, SharedStateKept DEF Begun

\* What AfterStep leaves writes only if the request was about to write.
LEMMA AfterStepWrites ==
    ASSUME NEW r \in Request, NEW rest, NEW snap
    PROVE  LET q == AfterStep(r, rest, snap)
           IN  Writing(q) => Writing(r) /\ q.edit = r.edit
  BY DEF AfterStep, Writing, Idle, Request

\* A request at one of its awaits.
LEMMA RequestAt ==
    ASSUME IInv, NEW c \in Client, NEW step, At(c, step)
    PROVE  /\ req[c] \in Request /\ WellFormed(req[c], history)
           /\ req[c].todo # << >> /\ Head(req[c].todo) = Next1(c)
           /\ Next1(c).do = step /\ Next1(c).key \in Key /\ Next1(c).doc \in DocOrAbsent
           /\ req[c].snap \in [Key -> DocOrAbsent]
           /\ \A k \in Key : req[c].snap[k] # Absent => req[c].snap[k] \in history[k]
<1>1. req[c] \in Request /\ WellFormed(req[c], history)
  BY DEF IInv, TypeOK
<1>2. req[c].todo # << >> /\ Head(req[c].todo) = Next1(c) /\ Next1(c).do = step
  BY DEF At, Next1
<1>3. Next1(c) \in Effect
  BY <1>1, <1>2, TodoSplit
<1> QED
  BY <1>1, <1>2, <1>3 DEF Effect, Request, WellFormed, WellCommitted

\* One step of a handler that commits nothing keeps the requests in order.
LEMMA GoOnKeeps ==
    ASSUME IInv, NEW c \in Client, NEW step, At(c, step),
           NEW snap \in [Key -> DocOrAbsent],
           \A k \in Key : snap[k] # Absent => snap[k] \in history[k],
           \A k \in Key : req[c].snap[k] # Absent
                          => snap[k] # Absent \/ (step = "probe" /\ k = Next1(c).key),
           step \in {"lookup", "fetch"} => snap[Next1(c).key] # Absent,
           GoOn(c, Rest(c), snap),
           UNCHANGED <<history, started>>
    PROVE  RequestsInv'
<1> DEFINE q == AfterStep(req[c], Tail(req[c].todo), snap)
<1>1. q \in Request /\ WellFormed(q, history)
  BY RequestAt, StepDone
<1>2. Writing(q) => Writing(req[c]) /\ q.edit = req[c].edit
  BY RequestAt, AfterStepWrites
<1>3. req' = [req EXCEPT ![c] = q]
  BY DEF GoOn, Rest
<1> HIDE DEF q
<1> QED
  BY <1>1, <1>2, <1>3, NothingCommitted

\* So does the end of a handler.
LEMMA FinishKeeps ==
    ASSUME IInv, NEW c \in Client, Finish(c), UNCHANGED <<history, started>>
    PROVE  RequestsInv'
<1>1. ~Writing(Idle)
  BY DEF Writing, Idle
<1> QED
  BY <1>1, IdleIsWellFormed, NothingCommitted DEF Finish

\* cache.get_element_value.
LEMMA ValueGetKeeps ==
    ASSUME IInv, NEW c \in Client, ValueGet(c)
    PROVE  IInv'
<1>1. At(c, "value_get") /\ UNCHANGED <<db, cache, values, event, history, started>>
  BY DEF ValueGet
<1>2. RequestsInv'
  <2>1. CASE Finish(c)
    BY <1>1, <2>1, FinishKeeps
  <2>2. CASE GoOn(c, Rest(c), req[c].snap)
    BY <1>1, <2>2, RequestAt, GoOnKeeps
  <2> QED
    BY <2>1, <2>2 DEF ValueGet
<1> QED
  BY <1>1, <1>2, SharedStateKept DEF IInv, TypeOK

\* cache.get_aas, get_submodel and get_concept_description, hit or miss.
LEMMA LookupKeeps ==
    ASSUME IInv, NEW c \in Client, Lookup(c)
    PROVE  IInv'
<1> DEFINE k == Next1(c).key
           hit == [req[c].snap EXCEPT ![k] = cache[k]]
           two == <<Await("fetch", k), Await("fill", k)>>
<1>1. At(c, "lookup") /\ UNCHANGED <<db, cache, values, event, history, started>>
  BY DEF Lookup
<1>2. /\ k \in Key /\ cache \in [Key -> DocOrAbsent]
      /\ cache[k] # Absent => cache[k] \in history[k]
      /\ req[c].snap \in [Key -> DocOrAbsent]
      /\ \A x \in Key : req[c].snap[x] # Absent => req[c].snap[x] \in history[x]
  BY <1>1, RequestAt DEF IInv, TypeOK, StoreCommitted
<1>3. RequestsInv'
  <2>1. CASE Finish(c)
    BY <1>1, <2>1, FinishKeeps
  <2>2. CASE cache[k] # Absent /\ GoOn(c, Rest(c), hit)
    <3>1. /\ hit \in [Key -> DocOrAbsent]
          /\ hit[k] = cache[k]
          /\ \A x \in Key \ {k} : hit[x] = req[c].snap[x]
      BY <1>2
    <3> HIDE DEF hit
    <3> QED
      BY <1>1, <1>2, <2>2, <3>1, GoOnKeeps
  <2>3. CASE GoOn(c, two \o Rest(c), req[c].snap)
    <3> DEFINE q == AfterStep(req[c], two \o Rest(c), req[c].snap)
    <3>1. q \in Request /\ WellFormed(q, history)
      BY <1>1, RequestAt, LookupMissed DEF Rest
    <3>2. Writing(q) => Writing(req[c]) /\ q.edit = req[c].edit
      BY <1>1, RequestAt, AfterStepWrites
    <3>3. req' = [req EXCEPT ![c] = q]
      BY <2>3 DEF GoOn
    <3> HIDE DEF q
    <3> QED
      BY <1>1, <3>1, <3>2, <3>3, NothingCommitted
  <2> QED
    BY <2>1, <2>2, <2>3 DEF Lookup
<1> QED
  BY <1>1, <1>3, SharedStateKept DEF IInv, TypeOK

\* repo.get_bytes_by_id, get_model_by_id and exists.
LEMMA ReadRowKeeps ==
    ASSUME IInv, NEW c \in Client, ReadRow(c)
    PROVE  IInv'
<1> DEFINE k == Next1(c).key
           read == [req[c].snap EXCEPT ![k] = db[k]]
<1>1. UNCHANGED <<db, cache, values, event, history, started>>
  BY DEF ReadRow
<1>2. PICK step \in {"fetch", "probe"} : At(c, step)
  BY DEF ReadRow
<1>3. /\ k \in Key /\ db \in [Key -> DocOrAbsent] /\ Next1(c).do = step
      /\ db[k] # Absent => db[k] \in history[k]
      /\ req[c].snap \in [Key -> DocOrAbsent]
      /\ \A x \in Key : req[c].snap[x] # Absent => req[c].snap[x] \in history[x]
  BY <1>2, RequestAt DEF IInv, TypeOK, StoreCommitted
<1>4. RequestsInv'
  <2>1. CASE Finish(c)
    BY <1>1, <2>1, FinishKeeps
  <2>2. CASE (step = "fetch" => db[k] # Absent) /\ GoOn(c, Rest(c), read)
    <3>1. /\ read \in [Key -> DocOrAbsent]
          /\ read[k] = db[k]
          /\ \A x \in Key \ {k} : read[x] = req[c].snap[x]
      BY <1>3
    <3> HIDE DEF read
    <3> QED
      BY <1>1, <1>2, <1>3, <2>2, <3>1, GoOnKeeps
  <2> QED
    BY <1>3, <2>1, <2>2 DEF ReadRow
<1> QED
  BY <1>1, <1>4, SharedStateKept DEF IInv, TypeOK

\* A fill finds the document it is to fill in among those that were read.
LEMMA FillHasADocument ==
    ASSUME IInv, NEW c \in Client, NEW step \in {"fill", "value_set"}, At(c, step)
    PROVE  LET d == req[c].snap[Next1(c).key]
           IN  d # Absent /\ d \in Doc /\ d \in history[Next1(c).key]
<1>1. WellRead(req[c]) /\ 1 \in 1 .. Len(req[c].todo) /\ Next1(c) = req[c].todo[1]
  BY RequestAt, TodoSplit DEF WellFormed
<1>2. Available(req[c], Next1(c).key, 1)
  BY <1>1, RequestAt DEF WellRead
<1>3. req[c].snap[Next1(c).key] # Absent
  BY <1>2 DEF Available
<1> QED
  BY <1>3, RequestAt DEF DocOrAbsent

\* The cache fill after a miss puts a committed document there.
LEMMA FillKeeps ==
    ASSUME IInv, NEW c \in Client, Fill(c)
    PROVE  IInv'
<1>1. At(c, "fill") /\ UNCHANGED <<db, values, event, history, started>>
  BY DEF Fill
<1>2. RequestsInv'
  BY <1>1, RequestAt, GoOnKeeps DEF Fill
<1>3. /\ cache' \in [Key -> DocOrAbsent]
      /\ \A k \in Key : cache'[k] # Absent => cache'[k] \in history[k]
  BY <1>1, RequestAt, FillHasADocument DEF Fill, IInv, TypeOK, StoreCommitted, DocOrAbsent
<1> QED
  BY <1>1, <1>2, <1>3
     DEF IInv, RequestsInv, TypeOK, StoreCommitted, NothingUncommittedLeaks, Documents

\* So does the fill of an element $value.
LEMMA ValueSetKeeps ==
    ASSUME IInv, NEW c \in Client, ValueSet(c)
    PROVE  IInv'
<1>1. At(c, "value_set") /\ UNCHANGED <<db, cache, event, history, started>>
  BY DEF ValueSet
<1>2. RequestsInv'
  BY <1>1, RequestAt, GoOnKeeps DEF ValueSet
<1>3. /\ values' \in [Submodel -> DocOrAbsent]
      /\ \A m \in Submodel : values'[m] # Absent => values'[m] \in Documents(m)
  BY <1>1, RequestAt, FillHasADocument
     DEF ValueSet, IInv, TypeOK, NothingUncommittedLeaks, DocOrAbsent, Documents
<1> QED
  BY <1>1, <1>2, <1>3
     DEF IInv, RequestsInv, TypeOK, StoreCommitted, NothingUncommittedLeaks, Documents

\* The first effect that is left is a committed one.
LEMMA EffectIsCommitted ==
    ASSUME IInv, NEW c \in Client, NEW step, At(c, step)
    PROVE  /\ step = "set" => Next1(c).doc \in history[Next1(c).key] \ {Absent}
           /\ step \in PublishStep => Next1(c).doc \in history[Next1(c).key]
<1>1. WellCommitted(req[c], history) /\ 1 \in 1 .. Len(req[c].todo)
      /\ Next1(c) = req[c].todo[1]
  BY RequestAt, TodoSplit DEF WellFormed
<1> QED
  BY <1>1, RequestAt DEF WellCommitted

\* The cache is given what the handler has committed.
LEMMA SetCacheKeeps ==
    ASSUME IInv, NEW c \in Client, SetCache(c)
    PROVE  IInv'
<1>1. At(c, "set") /\ UNCHANGED <<db, values, event, history, started>>
  BY DEF SetCache
<1>2. RequestsInv'
  BY <1>1, RequestAt, GoOnKeeps DEF SetCache
<1>3. /\ cache' \in [Key -> DocOrAbsent]
      /\ \A k \in Key : cache'[k] # Absent => cache'[k] \in history[k]
  BY <1>1, RequestAt, EffectIsCommitted DEF SetCache, IInv, TypeOK, StoreCommitted
<1> QED
  BY <1>1, <1>2, <1>3
     DEF IInv, RequestsInv, TypeOK, StoreCommitted, NothingUncommittedLeaks, Documents

\* cache.delete_* after a deletion.
LEMMA EvictCacheKeeps ==
    ASSUME IInv, NEW c \in Client, EvictCache(c)
    PROVE  IInv'
<1>1. At(c, "evict") /\ UNCHANGED <<db, values, event, history, started>>
  BY DEF EvictCache
<1>2. RequestsInv'
  BY <1>1, RequestAt, GoOnKeeps DEF EvictCache
<1>3. /\ cache' \in [Key -> DocOrAbsent]
      /\ \A k \in Key : cache'[k] # Absent => cache'[k] \in history[k]
  BY <1>1, RequestAt DEF EvictCache, IInv, TypeOK, StoreCommitted, DocOrAbsent
<1> QED
  BY <1>1, <1>2, <1>3
     DEF IInv, RequestsInv, TypeOK, StoreCommitted, NothingUncommittedLeaks, Documents

\* cache.invalidate_submodel_elements.
LEMMA DropValuesKeeps ==
    ASSUME IInv, NEW c \in Client, DropValues(c)
    PROVE  IInv'
<1>1. At(c, "drop_values") /\ UNCHANGED <<db, cache, event, history, started>>
  BY DEF DropValues
<1>2. RequestsInv'
  BY <1>1, RequestAt, GoOnKeeps DEF DropValues
<1>3. /\ values' \in [Submodel -> DocOrAbsent]
      /\ \A m \in Submodel : values'[m] # Absent => values'[m] \in Documents(m)
  BY <1>1, RequestAt DEF DropValues, IInv, TypeOK, NothingUncommittedLeaks, DocOrAbsent
<1> QED
  BY <1>1, <1>2, <1>3
     DEF IInv, RequestsInv, TypeOK, StoreCommitted, NothingUncommittedLeaks, Documents

\* A published event tells of something that was committed.
LEMMA PublishKeeps ==
    ASSUME IInv, NEW c \in Client, Publish(c)
    PROVE  IInv'
<1>1. UNCHANGED <<db, cache, values, history, started>> /\ event' = Next1(c)
  BY DEF Publish
<1>2. PICK step \in PublishStep : At(c, step)
  BY DEF Publish
<1>3. step \notin {"lookup", "fetch", "probe"}
  BY DEF PublishStep
<1>4. RequestsInv'
  BY <1>1, <1>2, <1>3, RequestAt, GoOnKeeps DEF Publish
<1>5. event' \in Effect /\ event'.doc \in history[event'.key]
  BY <1>1, <1>2, RequestAt, TodoSplit, EffectIsCommitted
<1> QED
  BY <1>1, <1>4, <1>5
     DEF IInv, RequestsInv, TypeOK, StoreCommitted, NothingUncommittedLeaks, Documents

\* Error responses and handlers cut short.
LEMMA RefuseAndAbortKeep ==
    ASSUME IInv, NEW c \in Client, Refuse(c) \/ Abort(c)
    PROVE  IInv'
<1>1. Finish(c) /\ UNCHANGED <<db, cache, values, event, history, started>>
  BY DEF Refuse, Abort
<1> QED
  BY <1>1, FinishKeeps, SharedStateKept DEF IInv, TypeOK

\* Redis drops an entry whose time to live is over.
LEMMA ExpiryKeeps ==
    ASSUME IInv, Expiry
    PROVE  IInv'
<1>1. RequestsInv'
  BY DEF Expiry, Expire, ExpireValue, IInv, RequestsInv, TypeOK, WellNumbered, Unused, Documents
<1>2. CASE \E k \in Key : Expire(k)
  BY <1>1, <1>2 DEF Expire, IInv, RequestsInv, TypeOK, StoreCommitted,
                    NothingUncommittedLeaks, Documents, DocOrAbsent
<1>3. CASE \E m \in Submodel : ExpireValue(m)
  BY <1>1, <1>3 DEF ExpireValue, IInv, RequestsInv, TypeOK, StoreCommitted,
                    NothingUncommittedLeaks, Documents, DocOrAbsent
<1> QED
  BY <1>2, <1>3 DEF Expiry

-----------------------------------------------------------------------------
(* The invariant is inductive: the commits.                                *)

\* What a request knows once its reads are done.
LEMMA AtDecision ==
    ASSUME IInv, NEW c \in Client, NEW family, Ready(c, family),
           family \notin {"idle", "read", "committed"}
    PROVE  /\ req[c] \in Request /\ Writing(req[c]) /\ req[c].key \in Key
           /\ req[c].edit \in Edit
           /\ req[c].snap \in [Key -> DocOrAbsent]
           /\ req[c].shell # None
              => req[c].shell \in Shell /\ req[c].snap[req[c].shell] \in Doc
           /\ family \in {"modify", "quiet_modify"} => req[c].snap[req[c].key] \in Doc
           /\ family \in {"attach", "detach", "put_for_shell", "delete_for_shell"}
              => /\ req[c].key \in Submodel /\ req[c].shell \in Shell
                 /\ req[c].key \in Mark /\ req[c].shell \in Key
<1> DEFINE r == req[c]
<1>1. r \in Request /\ WellFormed(r, history) /\ r.family = family /\ r.todo = << >>
  BY DEF IInv, TypeOK, Ready
<1>2. Writing(r) /\ r.key \in Key
  BY <1>1 DEF Writing, WellFormed, WellAddressed
<1>3. r.edit \in Edit
  BY <1>2, ConstantsAssumption DEF IInv, TypeOK, WellNumbered, Edit
<1>4. r.snap \in [Key -> DocOrAbsent]
  BY <1>1 DEF Request
<1>5. \A k \in Wanted(r) : r.snap[k] # Absent
  BY <1>1, EmptySeq DEF WellFormed, WellRead, Available
<1>6. \A k \in Wanted(r) : r.snap[k] \in Doc
  BY <1>4, <1>5 DEF Wanted, DocOrAbsent
<1>7. r.shell # None => r.shell \in Shell /\ r.shell \in Wanted(r)
  BY <1>1 DEF Request, Wanted, Key
<1>8. family \in {"modify", "quiet_modify"} => r.key \in Wanted(r)
  BY <1>1, <1>2 DEF Wanted
<1>9. family \in {"attach", "detach", "put_for_shell", "delete_for_shell"}
      => r.key \in Submodel /\ r.shell \in Shell
  BY <1>1 DEF WellFormed, WellAddressed
<1> QED
  BY <1>1, <1>2, <1>3, <1>4, <1>6, <1>7, <1>8, <1>9 DEF Mark, Key

\* The documents the handlers commit are made of what they have read.
LEMMA BodiesAreDerived ==
    ASSUME IInv, NEW c \in Client, Writing(req[c]), req[c].edit \in Edit,
           NEW d, d \in Bodies(req[c]) \/ d = {req[c].edit}
    PROVE  Derived(c, d)
  BY DEF Bodies, Derived, Doc, Mark

\* So are the documents that the element and attachment handlers make.
LEMMA ChangedIsDerived ==
    ASSUME IInv, NEW c \in Client, Writing(req[c]), req[c].edit \in Edit,
           req[c].key \in Key, req[c].snap[req[c].key] \in Doc,
           NEW d \in Changed(req[c])
    PROVE  Derived(c, d)
<1> DEFINE r == req[c]
           e == r.snap[r.key]
<1>1. e # Absent /\ e \subseteq Mark /\ r.edit \in Mark
  BY ConstantsAssumption DEF Doc, Mark
<1>2. d \subseteq e \cup {r.edit}
  BY DEF Changed
<1> QED
  BY <1>1, <1>2 DEF Derived, Doc

\* Writing one row, with the request well-formed afterwards.
LEMMA RowCommitted ==
    ASSUME IInv, NEW c \in Client, NEW k \in Key, NEW d \in DocOrAbsent,
           d = Absent \/ Derived(c, d),
           WriteRow(k, d),
           NEW q \in Request, ~Writing(q), WellFormed(q, history'),
           req' = [req EXCEPT ![c] = q]
    PROVE  IInv'
<1>1. /\ db \in [Key -> DocOrAbsent] /\ history \in [Key -> SUBSET DocOrAbsent]
      /\ db' = [db EXCEPT ![k] = d]
      /\ history' = [history EXCEPT ![k] = @ \cup {d}]
      /\ UNCHANGED <<cache, values, event, started>>
  BY DEF IInv, TypeOK, WriteRow, Committed
<1>2. /\ db' \in [Key -> DocOrAbsent] /\ history' \in [Key -> SUBSET DocOrAbsent]
      /\ db'[k] = d /\ \A x \in Key \ {k} : db'[x] = db[x]
      /\ history'[k] = history[k] \cup {d} /\ \A x \in Key \ {k} : history'[x] = history[x]
  BY <1>1
<1>3. \A x \in Key : history[x] \subseteq history'[x]
  BY <1>2
<1>4. RequestsInv'
  BY <1>1, <1>2, <1>3, DocumentsCommitted
<1>5. StoreCommitted'
  BY <1>1, <1>2, <1>3 DEF IInv, StoreCommitted
<1>6. NothingUncommittedLeaks'
  <2>1. \A m \in Submodel : m \in Key
    BY DEF Key
  <2>2. event # NoEvent => event.key \in Key
    BY DEF IInv, TypeOK, Effect
  <2> QED
    BY <1>1, <1>3, <2>1, <2>2 DEF IInv, NothingUncommittedLeaks, Documents
<1> QED
  BY <1>1, <1>2, <1>4, <1>5, <1>6 DEF IInv, RequestsInv, TypeOK

\* After a commit, what is announced of the new document is in the history.
LEMMA AnnouncedIsWellFormed ==
    ASSUME IInv, NEW k \in Key, NEW d \in Doc, WriteRow(k, d),
           NEW step \in {"created", "updated"}
    PROVE  LET q == [Idle EXCEPT !.family = "committed", !.todo = Announce(step, k, d)]
           IN  q \in Request /\ ~Writing(q) /\ WellFormed(q, history')
<1> DEFINE effects == Announce(step, k, d)
<1>1. d \in history'[k] \ {Absent}
  BY ConstantsAssumption DEF IInv, TypeOK, WriteRow, Committed
<1>2. effects \in Seq(Effect) /\ effects # << >>
  BY AnnounceLists
<1>3. \A i \in 1 .. Len(effects) :
         /\ effects[i].key = k
         /\ \/ effects[i].do = "set" /\ effects[i].doc = d
            \/ effects[i].do = "drop_values"
            \/ effects[i].do \in PublishStep /\ effects[i].doc = d
  BY AnnounceLists
<1> HIDE DEF effects
<1>4. \A i \in 1 .. Len(effects) :
         \/ effects[i].do = "set" /\ effects[i].doc \in (history')[effects[i].key] \ {Absent}
         \/ effects[i].do \in {"evict", "drop_values"}
         \/ effects[i].do \in PublishStep /\ effects[i].doc \in (history')[effects[i].key]
  BY <1>1, <1>3
<1>5. LET q == [Idle EXCEPT !.family = "committed", !.todo = effects]
      IN  q \in Request /\ ~Writing(q) /\ WellFormed(q, history')
  BY <1>2, <1>4, ThenIsWellFormed
<1> QED
  BY <1>5 DEF effects

\* post_shell, post_submodel and post_concept_description commit their body.
LEMMA CommitCreateKeeps ==
    ASSUME IInv, NEW c \in Client, CommitCreate(c)
    PROVE  IInv'
<1> DEFINE k == req[c].key
<1>1. Ready(c, "create")
  BY DEF CommitCreate
<1>2. PICK d \in Bodies(req[c]) :
         /\ WriteRow(k, d)
         /\ Then(c, <<AwaitWith("set", k, d), AwaitWith("created", k, d)>>)
  BY DEF CommitCreate
<1>3. k \in Key /\ Derived(c, d) /\ d \in Doc
  BY <1>1, AtDecision, BodiesAreDerived DEF Derived
<1>4. d \in history'[k] \ {Absent}
  BY <1>2, <1>3, ConstantsAssumption DEF IInv, TypeOK, WriteRow, Committed
<1> DEFINE effects == <<AwaitWith("set", k, d), AwaitWith("created", k, d)>>
           q == [Idle EXCEPT !.family = "committed", !.todo = effects]
<1>5. AwaitWith("set", k, d) \in Effect /\ AwaitWith("created", k, d) \in Effect
  BY <1>3 DEF AwaitWith, Effect, WriteStep, PublishStep, DocOrAbsent
<1>6. /\ effects \in Seq(Effect) /\ effects # << >> /\ Len(effects) = 2
      /\ effects[1].do = "set" /\ effects[1].doc = d /\ effects[1].key = k
      /\ effects[2].do = "created" /\ effects[2].doc = d /\ effects[2].key = k
  BY <1>5 DEF AwaitWith
<1>7. req' = [req EXCEPT ![c] = q]
  BY <1>2, <1>6 DEF Then
<1> HIDE DEF effects
<1>8. \A i \in 1 .. Len(effects) :
         \/ effects[i].do = "set" /\ effects[i].doc \in (history')[effects[i].key] \ {Absent}
         \/ effects[i].do \in PublishStep /\ effects[i].doc \in (history')[effects[i].key]
  <2>1. \A i \in 1 .. 2 : i = 1 \/ i = 2
    OBVIOUS
  <2> QED
    BY <1>4, <1>6, <2>1 DEF PublishStep
<1>9. q \in Request /\ ~Writing(q) /\ WellFormed(q, history')
  BY <1>6, <1>8, ThenIsWellFormed
<1> HIDE DEF q
<1> QED
  BY <1>2, <1>3, <1>7, <1>9, RowCommitted DEF DocOrAbsent

\* Any commit of a document that goes on with Announce.
LEMMA AnnouncedCommitKeeps ==
    ASSUME IInv, NEW c \in Client, NEW k \in Key, NEW d \in Doc, Derived(c, d),
           NEW step \in {"created", "updated"},
           WriteRow(k, d), Then(c, Announce(step, k, d))
    PROVE  IInv'
<1> DEFINE q == [Idle EXCEPT !.family = "committed", !.todo = Announce(step, k, d)]
<1>1. q \in Request /\ ~Writing(q) /\ WellFormed(q, history')
  <2>1. LET p == [Idle EXCEPT !.family = "committed", !.todo = Announce(step, k, d)]
        IN  p \in Request /\ ~Writing(p) /\ WellFormed(p, history')
    BY AnnouncedIsWellFormed
  <2> QED
    BY <2>1
<1>2. req' = [req EXCEPT ![c] = q]
  <2>1. Announce(step, k, d) # << >>
    BY AnnounceLists
  <2> QED
    BY <2>1 DEF Then
<1> HIDE DEF q
<1> QED
  BY <1>1, <1>2, RowCommitted DEF DocOrAbsent

\* The commits of the put_*_by_id handlers.
LEMMA CommitPutKeeps ==
    ASSUME IInv, NEW c \in Client, CommitPut(c)
    PROVE  IInv'
<1>1. Ready(c, "put")
  BY DEF CommitPut
<1>2. PICK d \in Bodies(req[c]) :
         WriteRow(req[c].key, d) /\ Then(c, Announce(PutStep(req[c]), req[c].key, d))
  BY DEF CommitPut
<1>3. PutStep(req[c]) \in {"created", "updated"}
  BY DEF PutStep
<1>4. req[c].key \in Key /\ Derived(c, d) /\ d \in Doc
  BY <1>1, AtDecision, BodiesAreDerived DEF Derived
<1> QED
  BY <1>2, <1>3, <1>4, AnnouncedCommitKeeps

\* The commits of the handlers that change part of a document.
LEMMA CommitModifyKeeps ==
    ASSUME IInv, NEW c \in Client, CommitModify(c)
    PROVE  IInv'
<1>1. Ready(c, "modify")
  BY DEF CommitModify
<1>2. PICK d \in Changed(req[c]) :
         WriteRow(req[c].key, d) /\ Then(c, Announce("updated", req[c].key, d))
  BY DEF CommitModify
<1>3. req[c].key \in Key /\ Derived(c, d) /\ d \in Doc
  BY <1>1, AtDecision, ChangedIsDerived DEF Derived
<1> QED
  BY <1>2, <1>3, AnnouncedCommitKeeps

\* The commits of the delete_*_by_id handlers.
LEMMA CommitDeleteKeeps ==
    ASSUME IInv, NEW c \in Client, CommitDelete(c)
    PROVE  IInv'
<1> DEFINE k == req[c].key
           q == [Idle EXCEPT !.family = "committed", !.todo = Retract(k)]
<1>1. Ready(c, "delete") /\ WriteRow(k, Absent) /\ Then(c, Retract(k))
  BY DEF CommitDelete
<1>2. k \in Key
  BY <1>1, AtDecision
<1>3. Absent \in history'[k]
  BY <1>1, <1>2 DEF IInv, TypeOK, WriteRow, Committed
<1>4. q \in Request /\ ~Writing(q) /\ WellFormed(q, history')
  <2>1. /\ Retract(k) \in Seq(Effect) /\ Retract(k) # << >>
        /\ \A i \in 1 .. Len(Retract(k)) :
              /\ Retract(k)[i].key = k /\ Retract(k)[i].doc = Absent
              /\ Retract(k)[i].do \in {"evict", "drop_values", "deleted"}
    BY <1>2, RetractLists
  <2>2. \A i \in 1 .. Len(Retract(k)) :
           \/ Retract(k)[i].do \in {"evict", "drop_values"}
           \/ Retract(k)[i].do \in PublishStep
              /\ Retract(k)[i].doc \in history'[Retract(k)[i].key]
    BY <1>3, <2>1 DEF PublishStep
  <2> QED
    BY <2>1, <2>2, ThenIsWellFormed, ZenonT(60)
<1>5. req' = [req EXCEPT ![c] = q]
  BY <1>1, <1>2, RetractLists DEF Then
<1> HIDE DEF q
<1> QED
  BY <1>1, <1>2, <1>4, <1>5, RowCommitted DEF DocOrAbsent

\* post_submodel_reference.
LEMMA CommitAttachKeeps ==
    ASSUME IInv, NEW c \in Client, CommitAttach(c)
    PROVE  IInv'
<1> DEFINE s == req[c].shell
           d == req[c].snap[s] \cup {req[c].key}
<1>1. Ready(c, "attach") /\ WriteRow(s, d) /\ Then(c, Announce("updated", s, d))
  BY DEF CommitAttach
<1>2. /\ Writing(req[c]) /\ s \in Key /\ req[c].key \in Submodel /\ req[c].key \in Mark
      /\ req[c].snap[s] \in Doc
  BY <1>1, AtDecision, ConstantsAssumption DEF Key
<1>3. Derived(c, d) /\ d \in Doc
  BY <1>2, ConstantsAssumption DEF Derived, Doc
<1> QED
  BY <1>1, <1>2, <1>3, AnnouncedCommitKeeps

\* delete_submodel_reference.
LEMMA CommitDetachKeeps ==
    ASSUME IInv, NEW c \in Client, CommitDetach(c)
    PROVE  IInv'
<1> DEFINE s == req[c].shell
           d == req[c].snap[s] \ {req[c].key}
<1>1. Ready(c, "detach") /\ WriteRow(s, d) /\ Then(c, Announce("updated", s, d))
  BY DEF CommitDetach
<1>2. s \in Key /\ req[c].snap[s] \in Doc
  BY <1>1, AtDecision, ConstantsAssumption DEF Key
<1>3. Derived(c, d) /\ d \in Doc
  BY <1>2, ConstantsAssumption DEF Derived, Doc
<1> QED
  BY <1>1, <1>2, <1>3, AnnouncedCommitKeeps

\* The announcement of the Submodel and the link step behind it.
LEMMA LinkedLists ==
    ASSUME NEW step \in {"created", "updated"}, NEW k \in Submodel, NEW d \in Doc
    PROVE  LET l == Append(Announce(step, k, d), Await("link", k)) IN
           /\ l \in Seq(Effect)
           /\ \A i \in 1 .. Len(l) :
                 /\ l[i].key = k
                 /\ \/ l[i].do = "set" /\ l[i].doc = d
                    \/ l[i].do = "drop_values"
                    \/ l[i].do \in PublishStep /\ l[i].doc = d
                    \/ l[i].do = "link"
<1> DEFINE a == Announce(step, k, d)
           e == Await("link", k)
           l == Append(a, e)
<1>1. k \in Key
  BY DEF Key
<1>2. e \in Effect /\ e.do = "link" /\ e.key = k
  BY <1>1 DEF Await, Effect, WriteStep, DocOrAbsent
<1>3. a \in Seq(Effect)
  BY <1>1, AnnounceLists
<1>4. \A i \in 1 .. Len(a) :
         /\ a[i].key = k
         /\ \/ a[i].do = "set" /\ a[i].doc = d
            \/ a[i].do = "drop_values"
            \/ a[i].do \in PublishStep /\ a[i].doc = d
  BY <1>1, AnnounceLists
<1> HIDE DEF a, e
<1>5. /\ l \in Seq(Effect) /\ Len(l) = Len(a) + 1 /\ Len(a) \in Nat
      /\ \A i \in 1 .. Len(a) : l[i] = a[i]
      /\ l[Len(a) + 1] = e
  BY <1>2, <1>3
<1>6. \A i \in 1 .. Len(l) : i \in 1 .. Len(a) \/ i = Len(a) + 1
  BY <1>5
<1> HIDE DEF l
<1>7. /\ l \in Seq(Effect)
      /\ \A i \in 1 .. Len(l) :
            /\ l[i].key = k
            /\ \/ l[i].do = "set" /\ l[i].doc = d
               \/ l[i].do = "drop_values"
               \/ l[i].do \in PublishStep /\ l[i].doc = d
               \/ l[i].do = "link"
  BY <1>2, <1>4, <1>5, <1>6
<1> QED
  BY <1>7 DEF l, a, e

\* put_submodel_by_id_for_shell commits its body and keeps the shell it has read.
LEMMA CommitPutForShellKeeps ==
    ASSUME IInv, NEW c \in Client, CommitPutForShell(c)
    PROVE  IInv'
<1> DEFINE k == req[c].key
           s == req[c].shell
<1>1. Ready(c, "put_for_shell")
  BY DEF CommitPutForShell
<1>2. PICK d \in Bodies(req[c]) :
         /\ WriteRow(k, d)
         /\ ThenInShell(c, s, Append(Announce(PutStep(req[c]), k, d), Await("link", k)))
  BY DEF CommitPutForShell
<1> DEFINE effects == Append(Announce(PutStep(req[c]), k, d), Await("link", k))
           read == [NothingRead EXCEPT ![s] = req[c].snap[s]]
           q == [Idle EXCEPT !.family = "committed", !.todo = effects,
                             !.shell = s, !.snap = read]
<1>3. /\ k \in Key /\ k \in Submodel /\ Derived(c, d) /\ d \in Doc
      /\ s \in Shell /\ s \in Key
  BY <1>1, AtDecision, BodiesAreDerived DEF Derived
<1>4. req[c].snap[s] \in Doc
  BY <1>1, <1>3, AtDecision, ConstantsAssumption DEF Key
<1>5. req[c].snap[s] \in history[s]
  <2>1. WellFormed(req[c], history)
    BY DEF IInv
  <2> QED
    BY <2>1, <1>3, <1>4, ConstantsAssumption DEF WellFormed, WellCommitted
<1>6. d \in history'[k] \ {Absent} /\ \A x \in Key : history[x] \subseteq history'[x]
  BY <1>2, <1>3, ConstantsAssumption DEF IInv, TypeOK, WriteRow, Committed
<1>7. PutStep(req[c]) \in {"created", "updated"}
  BY DEF PutStep
<1>8. /\ effects \in Seq(Effect)
      /\ \A i \in 1 .. Len(effects) :
            /\ effects[i].key = k
            /\ \/ effects[i].do = "set" /\ effects[i].doc = d
               \/ effects[i].do = "drop_values"
               \/ effects[i].do \in PublishStep /\ effects[i].doc = d
               \/ effects[i].do = "link"
  BY <1>3, <1>7, LinkedLists
<1> HIDE DEF effects
<1>9. /\ read \in [Key -> DocOrAbsent] /\ read[s] = req[c].snap[s]
      /\ \A x \in Key \ {s} : read[x] = Absent
  BY <1>3, <1>4 DEF NothingRead, DocOrAbsent
<1> HIDE DEF read
<1>10. q \in Request
  BY <1>3, <1>8, <1>9, IdleIsWellFormed DEF Request, Family
<1>11. q.family = "committed" /\ q.shell = s /\ q.snap = read /\ q.todo = effects
  BY DEF Idle
<1>12. req' = [req EXCEPT ![c] = q]
  BY <1>2 DEF ThenInShell, effects, read
<1> HIDE DEF q
<1>13. ~Writing(q)
  BY <1>11 DEF Writing
<1>14. \A x \in Key : q.snap[x] # Absent => q.snap[x] \in (history')[x]
  BY <1>5, <1>6, <1>9, <1>11
<1>15. q.shell # None => q.snap[q.shell] # Absent
  BY <1>4, <1>9, <1>11, ConstantsAssumption
<1>16. \A i \in 1 .. Len(q.todo) :
         \/ q.todo[i].do = "set" /\ q.todo[i].doc \in (history')[q.todo[i].key] \ {Absent}
         \/ q.todo[i].do \in {"evict", "drop_values"}
         \/ q.todo[i].do \in PublishStep /\ q.todo[i].doc \in (history')[q.todo[i].key]
         \/ q.todo[i].do = "link" /\ q.todo[i].key \in Submodel /\ q.shell \in Shell
  BY <1>3, <1>6, <1>8, <1>11
<1>17. WellFormed(q, history')
  BY <1>10, <1>11, <1>14, <1>15, <1>16, CommittedIsWellFormed
<1> QED
  BY <1>2, <1>3, <1>10, <1>12, <1>13, <1>17, RowCommitted DEF DocOrAbsent

\* The link step has the shell it read, to which it adds a Submodel.
LEMMA LinkedDocument ==
    ASSUME IInv, NEW c \in Client, Link(c)
    PROVE  LET s == req[c].shell
               d == req[c].snap[s] \cup {Next1(c).key}
           IN  s \in Key /\ d \in Doc /\ Derived(c, d)
<1> DEFINE s == req[c].shell
           m == Next1(c).key
<1>1. At(c, "link")
  BY DEF Link
<1>2. /\ WellAddressed(req[c]) /\ 1 \in 1 .. Len(req[c].todo)
      /\ req[c].todo[1] = Next1(c) /\ req[c].snap \in [Key -> DocOrAbsent]
  BY <1>1, RequestAt, TodoSplit DEF WellFormed
<1>3. m \in Submodel /\ s \in Shell /\ s \in Key
  BY <1>1, <1>2, RequestAt DEF WellAddressed, Key
<1>4. req[c].snap[s] \in Doc
  BY <1>1, <1>2, <1>3, RequestAt DEF WellAddressed, DocOrAbsent
<1> QED
  BY <1>3, <1>4, ConstantsAssumption DEF Derived, Doc, Mark

\* The second transaction of put_submodel_by_id_for_shell.
LEMMA LinkKeeps ==
    ASSUME IInv, NEW c \in Client, Link(c)
    PROVE  IInv'
<1> DEFINE s == req[c].shell
           d == req[c].snap[s] \cup {Next1(c).key}
<1>1. CASE Finish(c) /\ UNCHANGED <<db, history, cache, values, event, started>>
  BY <1>1, FinishKeeps, SharedStateKept DEF IInv, TypeOK
<1>2. CASE WriteRow(s, d) /\ Then(c, Announce("updated", s, d))
  <2>1. s \in Key /\ d \in Doc /\ Derived(c, d)
    BY LinkedDocument
  <2> HIDE DEF d
  <2> QED
    BY <1>2, <2>1, AnnouncedCommitKeeps
<1> QED
  BY <1>1, <1>2 DEF Link

\* What delete_submodel_by_id_for_shell has to do after its transaction.
LEMMA ForShellLists ==
    ASSUME NEW k \in Key, NEW s \in Key, NEW d \in Doc, NEW h,
           Absent \in h[k], d \in h[s] \ {Absent}
    PROVE  LET l == <<Await("evict", k), Await("drop_values", k),
                      AwaitWith("set", s, d), Await("deleted", k),
                      AwaitWith("updated", s, d)>> IN
           /\ l \in Seq(Effect) /\ l # << >>
           /\ \A i \in 1 .. Len(l) :
                 \/ l[i].do = "set" /\ l[i].doc \in h[l[i].key] \ {Absent}
                 \/ l[i].do \in {"evict", "drop_values"}
                 \/ l[i].do \in PublishStep /\ l[i].doc \in h[l[i].key]
<1> DEFINE l == <<Await("evict", k), Await("drop_values", k),
                  AwaitWith("set", s, d), Await("deleted", k),
                  AwaitWith("updated", s, d)>>
<1>1. /\ Await("evict", k) \in Effect /\ Await("drop_values", k) \in Effect
      /\ AwaitWith("set", s, d) \in Effect /\ Await("deleted", k) \in Effect
      /\ AwaitWith("updated", s, d) \in Effect
  BY DEF Await, AwaitWith, Effect, WriteStep, PublishStep, DocOrAbsent
<1>2. l \in Seq(Effect) /\ l # << >> /\ Len(l) = 5
  BY <1>1
<1>3. /\ l[1].do = "evict" /\ l[2].do = "drop_values"
      /\ l[3].do = "set" /\ l[3].doc = d /\ l[3].key = s
      /\ l[4].do = "deleted" /\ l[4].doc = Absent /\ l[4].key = k
      /\ l[5].do = "updated" /\ l[5].doc = d /\ l[5].key = s
  BY DEF Await, AwaitWith
<1> HIDE DEF l
<1>4. \A i \in 1 .. 5 : i = 1 \/ i = 2 \/ i = 3 \/ i = 4 \/ i = 5
  OBVIOUS
<1>5. \A i \in 1 .. Len(l) :
         \/ l[i].do = "set" /\ l[i].doc \in h[l[i].key] \ {Absent}
         \/ l[i].do \in {"evict", "drop_values"}
         \/ l[i].do \in PublishStep /\ l[i].doc \in h[l[i].key]
  BY <1>2, <1>3, <1>4 DEF PublishStep
<1> QED
  BY <1>2, <1>5 DEF l

\* delete_submodel_by_id_for_shell writes two rows at once.
LEMMA CommitDeleteForShellKeeps ==
    ASSUME IInv, NEW c \in Client, CommitDeleteForShell(c)
    PROVE  IInv'
<1> DEFINE k == req[c].key
           s == req[c].shell
           d == req[c].snap[s] \ {k}
           effects == <<Await("evict", k), Await("drop_values", k),
                        AwaitWith("set", s, d), Await("deleted", k),
                        AwaitWith("updated", s, d)>>
           q == [Idle EXCEPT !.family = "committed", !.todo = effects]
<1>1. /\ Ready(c, "delete_for_shell")
      /\ db' = [db EXCEPT ![k] = Absent, ![s] = d]
      /\ history' = [history EXCEPT ![k] = @ \cup {Absent}, ![s] = @ \cup {d}]
      /\ Then(c, effects)
      /\ UNCHANGED <<cache, values, event, started>>
  BY DEF CommitDeleteForShell
<1>2. /\ k \in Submodel /\ k \in Key /\ s \in Shell /\ s \in Key /\ k # s
      /\ req[c].snap[s] \in Doc
  BY <1>1, AtDecision, ConstantsAssumption DEF Key
<1>3. Derived(c, d) /\ d \in Doc /\ d # Absent
  BY <1>2, ConstantsAssumption DEF Derived, Doc
<1> HIDE DEF d
<1>4. db \in [Key -> DocOrAbsent] /\ history \in [Key -> SUBSET DocOrAbsent]
  BY DEF IInv, TypeOK
<1>5. /\ db' \in [Key -> DocOrAbsent] /\ db'[k] = Absent /\ db'[s] = d
      /\ \A x \in Key \ {k, s} : db'[x] = db[x]
  BY <1>1, <1>2, <1>3, <1>4 DEF DocOrAbsent
<1>6. /\ history' \in [Key -> SUBSET DocOrAbsent]
      /\ history'[k] = history[k] \cup {Absent} /\ history'[s] = history[s] \cup {d}
      /\ \A x \in Key \ {k, s} : history'[x] = history[x]
  BY <1>1, <1>2, <1>3, <1>4 DEF DocOrAbsent
<1>7. \A x \in Key : history[x] \subseteq history'[x]
  BY <1>6
<1>8. effects \in Seq(Effect) /\ effects # << >>
      /\ \A i \in 1 .. Len(effects) :
           \/ effects[i].do = "set"
              /\ effects[i].doc \in (history')[effects[i].key] \ {Absent}
           \/ effects[i].do \in {"evict", "drop_values"}
           \/ effects[i].do \in PublishStep /\ effects[i].doc \in (history')[effects[i].key]
  <2>1. Absent \in (history')[k] /\ d \in (history')[s] \ {Absent}
    BY <1>3, <1>6
  <2> HIDE DEF k, s
  <2> QED
    BY <1>2, <1>3, <2>1, ForShellLists
<1> HIDE DEF effects
<1>9. q \in Request /\ ~Writing(q) /\ WellFormed(q, history')
  BY <1>8, ThenIsWellFormed
<1>10. req' = [req EXCEPT ![c] = q]
  BY <1>1, <1>8 DEF Then
<1> HIDE DEF q
<1>11. \A x \in Key : \A e \in history'[x] \ history[x] : e = Absent \/ Derived(c, e)
  BY <1>3, <1>6
<1>12. RequestsInv'
  BY <1>1, <1>6, <1>7, <1>9, <1>10, <1>11, DocumentsCommitted
<1>13. StoreCommitted'
  BY <1>1, <1>5, <1>6, <1>7 DEF IInv, StoreCommitted
<1>14. NothingUncommittedLeaks'
  <2>1. \A m \in Submodel : m \in Key
    BY DEF Key
  <2>2. event # NoEvent => event.key \in Key
    BY DEF IInv, TypeOK, Effect
  <2> QED
    BY <1>1, <1>7, <2>1, <2>2 DEF IInv, NothingUncommittedLeaks, Documents
<1> QED
  BY <1>1, <1>5, <1>6, <1>12, <1>13, <1>14 DEF IInv, RequestsInv, TypeOK

\* The GraphQL mutations and the MQTT subscriber write the row and are done.
LEMMA CommitQuietlyKeeps ==
    ASSUME IInv, NEW c \in Client, CommitQuietly(c)
    PROVE  IInv'
<1> DEFINE r == req[c]
<1>1. Ready(c, r.family) /\ QuietAllowed(r) /\ Finish(c)
  BY DEF CommitQuietly
<1>2. PICK d \in QuietResult(r) : WriteRow(r.key, d)
  BY DEF CommitQuietly
<1>3. r.family \in {"quiet_create", "quiet_modify", "quiet_delete"}
  BY <1>1 DEF QuietAllowed
<1>4. r.key \in Key /\ Writing(r) /\ r.edit \in Edit
  BY <1>1, <1>3, AtDecision
<1>5. d = Absent \/ (Derived(c, d) /\ d \in Doc)
  <2>1. CASE r.family = "quiet_create"
    BY <1>4, <2>1, BodiesAreDerived DEF QuietResult, Derived
  <2>2. CASE r.family = "quiet_modify"
    BY <1>1, <1>4, <2>2, AtDecision, ChangedIsDerived DEF QuietResult, Derived
  <2>3. CASE r.family = "quiet_delete"
    BY <2>3 DEF QuietResult
  <2> QED
    BY <1>3, <2>1, <2>2, <2>3
<1>6. ~Writing(Idle)
  BY DEF Writing, Idle
<1> QED
  BY <1>1, <1>2, <1>4, <1>5, <1>6, IdleIsWellFormed, RowCommitted DEF Finish, DocOrAbsent

-----------------------------------------------------------------------------
(* The theorems.                                                           *)

\* The invariant holds when the program starts, whatever the tables hold.
LEMMA InitInv ==
    ASSUME Init
    PROVE  IInv
<1>1. SUBSET Submodel \subseteq Doc /\ MaxMutations \in Nat
  BY ConstantsAssumption DEF Doc, Mark
<1>2. TypeOK
  <2>1. db \in [Key -> DocOrAbsent] /\ cache \in [Key -> DocOrAbsent]
        /\ values \in [Submodel -> DocOrAbsent]
    BY <1>1 DEF Init, NothingRead, DocOrAbsent
  <2>2. history \in [Key -> SUBSET DocOrAbsent]
    BY <2>1 DEF Init
  <2>3. req \in [Client -> Request]
    BY IdleIsWellFormed DEF Init
  <2> QED
    BY <1>1, <2>1, <2>2, <2>3 DEF Init, TypeOK
<1>3. StoreCommitted
  BY DEF Init, StoreCommitted, NothingRead
<1>4. NothingUncommittedLeaks
  BY DEF Init, NothingUncommittedLeaks
<1>5. \A c \in Client : WellFormed(req[c], history)
  BY IdleIsWellFormed DEF Init
<1>6. WellNumbered
  <2>1. \A c \in Client : ~Writing(req[c])
    BY DEF Init, Writing, Idle
  <2>2. \A k \in Key : \A d \in Documents(k) : d \cap Edit = {}
    BY ConstantsAssumption DEF Init, Documents
  <2> QED
    BY <2>1, <2>2 DEF WellNumbered
<1> QED
  BY <1>2, <1>3, <1>4, <1>5, <1>6 DEF IInv

\* Every step of every handler, and every expiry, keeps the invariant.
LEMMA NextKeeps ==
    ASSUME IInv, [Next]_vars
    PROVE  IInv'
<1>1. CASE UNCHANGED vars
  BY <1>1 DEF vars, IInv, TypeOK, StoreCommitted, NothingUncommittedLeaks, Documents,
              WellNumbered, Unused
<1>2. CASE Expiry
  BY <1>2, ExpiryKeeps
<1>3. ASSUME NEW c \in Client, HttpRequest(c) \/ QuietRequest(c)
      PROVE  IInv'
  BY <1>3, BeginKeeps
<1>4. ASSUME NEW c \in Client, ReadOrPublish(c)
      PROVE  IInv'
  BY <1>4, ValueGetKeeps, LookupKeeps, ReadRowKeeps, FillKeeps, ValueSetKeeps,
     SetCacheKeeps, EvictCacheKeeps, DropValuesKeeps, PublishKeeps DEF ReadOrPublish
<1>5. ASSUME NEW c \in Client, Decide(c)
      PROVE  IInv'
  BY <1>5, CommitCreateKeeps, CommitPutKeeps, CommitModifyKeeps, CommitDeleteKeeps,
     CommitAttachKeeps, CommitDetachKeeps, CommitPutForShellKeeps, LinkKeeps,
     CommitDeleteForShellKeeps, CommitQuietlyKeeps, RefuseAndAbortKeep DEF Decide
<1>6. ASSUME NEW c \in Client, Abort(c)
      PROVE  IInv'
  BY <1>6, RefuseAndAbortKeep
<1> QED
  BY <1>1, <1>2, <1>3, <1>4, <1>5, <1>6 DEF Next, Step

\* What every request in flight knows and owes, for any number of concurrent
\* requests, shells, Submodels and mutations.
THEOREM Invariance == Spec => []IInv
<1>1. Init => IInv
  BY InitInv
<1>2. IInv /\ [Next]_vars => IInv'
  BY NextKeeps
<1> QED
  BY <1>1, <1>2, PTL DEF Spec

\* Every variable keeps its type.
THEOREM TypeCorrectness == Spec => []TypeOK
<1>1. IInv => TypeOK
  BY DEF IInv
<1> QED
  BY <1>1, Invariance, PTL

\* A cached $value comes from a committed document, an event carries one or
\* reports a deletion that happened, however requests interleave and abort.
THEOREM NoLeak == Spec => []NothingUncommittedLeaks
<1>1. IInv => NothingUncommittedLeaks
  BY DEF IInv
<1> QED
  BY <1>1, Invariance, PTL

-----------------------------------------------------------------------------
(* Refinement: the handlers implement DocumentStore.                       *)

\* The documents ever committed, as DocumentStore sees them.
Past == [k \in Key |-> Documents(k)]

\* What writing one row means for DocumentStore.
LEMMA RowWritten ==
    ASSUME IInv, NEW k \in Key, NEW d \in DocOrAbsent, WriteRow(k, d)
    PROVE  /\ db' = [db EXCEPT ![k] = d]
           /\ d \in Doc => Past' = [Past EXCEPT ![k] = @ \cup {d}]
           /\ d = Absent => Past' = Past
           /\ cache' = cache
<1>1. /\ history \in [Key -> SUBSET DocOrAbsent]
      /\ history' = [history EXCEPT ![k] = @ \cup {d}]
      /\ db' = [db EXCEPT ![k] = d] /\ cache' = cache
  BY DEF IInv, TypeOK, WriteRow, Committed
<1>2. history'[k] = history[k] \cup {d} /\ \A x \in Key \ {k} : history'[x] = history[x]
  BY <1>1
<1>3. Past = [x \in Key |-> history[x] \ {Absent}]
      /\ Past' = [x \in Key |-> (history')[x] \ {Absent}]
  BY DEF Past, Documents
<1>4. ASSUME d \in Doc
      PROVE  Past' = [Past EXCEPT ![k] = @ \cup {d}]
  <2>1. d # Absent
    BY <1>4, ConstantsAssumption
  <2>2. \A x \in Key :
          (history')[x] \ {Absent} = [Past EXCEPT ![k] = @ \cup {d}][x]
    BY <2>1, <1>2, <1>3
  <2> QED
    BY <2>2, <1>3
<1>5. ASSUME d = Absent
      PROVE  Past' = Past
  <2>1. \A x \in Key : (history')[x] \ {Absent} = history[x] \ {Absent}
    BY <1>2, <1>5
  <2> QED
    BY <2>1, <1>3
<1> QED
  BY <1>1, <1>4, <1>5

\* A document with the edit of a request that had not committed, put where
\* there was no row, is a Create.
LEMMA NewRowCreates ==
    ASSUME IInv, NEW c \in Client, NEW d \in Doc, Writing(req[c]),
           req[c].key \in Key, WriteRow(req[c].key, d),
           db[req[c].key] = Absent, req[c].edit \in d
    PROVE  Store!Next
<1> DEFINE k == req[c].key
<1>1. /\ db' = [db EXCEPT ![k] = d] /\ cache' = cache
      /\ Past' = [Past EXCEPT ![k] = @ \cup {d}]
  BY RowWritten DEF DocOrAbsent
<1>2. d \notin Documents(k)
  BY DEF IInv, WellNumbered, Unused
<1>3. Store!Create(k, d)
  BY <1>1, <1>2 DEF Store!Create, Store!Remember, Past
<1> QED
  BY <1>3 DEF Store!Next

\* A document put where there is a row is a Replace.
LEMMA RowReplaces ==
    ASSUME IInv, NEW k \in Key, NEW d \in Doc, WriteRow(k, d), db[k] # Absent
    PROVE  Store!Next
<1>1. /\ db' = [db EXCEPT ![k] = d] /\ cache' = cache
      /\ Past' = [Past EXCEPT ![k] = @ \cup {d}]
  BY RowWritten DEF DocOrAbsent
<1>2. Store!Replace(k, d)
  BY <1>1 DEF Store!Replace, Store!Remember, Past
<1> QED
  BY <1>2 DEF Store!Next

\* A row that is deleted is a Remove.
LEMMA RowRemoved ==
    ASSUME IInv, NEW k \in Key, WriteRow(k, Absent), db[k] # Absent
    PROVE  Store!Next
<1>1. db' = [db EXCEPT ![k] = Absent] /\ cache' = cache /\ Past' = Past
  BY RowWritten DEF DocOrAbsent
<1>2. Store!Remove(k)
  BY <1>1 DEF Store!Remove, Past
<1> QED
  BY <1>2 DEF Store!Next

\* What a step that writes no row does to the cache is a Serve, if it puts a
\* committed document there, or nothing.
LEMMA CacheServes ==
    ASSUME IInv, NEW k \in Key, NEW v \in DocOrAbsent,
           v # Absent => v \in history[k],
           cache' = [cache EXCEPT ![k] = v], UNCHANGED <<db, history>>
    PROVE  Store!Next
<1>1. Past' = Past
  BY DEF Past, Documents
<1>2. v \in Documents(k) \cup {Absent}
  BY DEF Documents
<1>3. Store!Serve(k, v)
  BY <1>1, <1>2 DEF Store!Serve, Past
<1> QED
  BY <1>3 DEF Store!Next, DocOrAbsent

\* The creating and replacing commits.
LEMMA PutImplements ==
    ASSUME IInv, NEW c \in Client, NEW family, Ready(c, family),
           family \in {"create", "put", "put_for_shell"},
           CreateAllowed(req[c]) \/ PutAllowed(req[c]),
           NEW d \in Bodies(req[c]), WriteRow(req[c].key, d)
    PROVE  Store!Next
<1>1. /\ Writing(req[c]) /\ req[c].key \in Key
      /\ Derived(c, d) /\ d \in Doc /\ req[c].edit \in d
  BY AtDecision, BodiesAreDerived DEF Derived, Bodies
<1>2. CASE db[req[c].key] = Absent
  BY <1>1, <1>2, NewRowCreates
<1>3. CASE db[req[c].key] # Absent
  BY <1>1, <1>3, RowReplaces
<1> QED
  BY <1>2, <1>3

\* The deletion of a Submodel behind a shell is one step of DocumentStore too.
LEMMA DeleteForShellImplements ==
    ASSUME IInv, NEW c \in Client, CommitDeleteForShell(c)
    PROVE  Store!Next
<1> DEFINE k == req[c].key
           s == req[c].shell
           d == req[c].snap[s] \ {k}
<1>1. /\ Ready(c, "delete_for_shell")
      /\ db[k] # Absent /\ db[s] # Absent
      /\ db' = [db EXCEPT ![k] = Absent, ![s] = d]
      /\ history' = [history EXCEPT ![k] = @ \cup {Absent}, ![s] = @ \cup {d}]
      /\ cache' = cache
  BY DEF CommitDeleteForShell, DeleteForShellAllowed
<1>2. /\ k \in Submodel /\ k \in Key /\ s \in Shell /\ s \in Key /\ k # s
      /\ req[c].snap[s] \in Doc
  BY <1>1, AtDecision, ConstantsAssumption DEF Key
<1>3. d \in Doc /\ d # Absent
  BY <1>2, ConstantsAssumption DEF Doc
<1> HIDE DEF d, k, s
<1>4. history \in [Key -> SUBSET DocOrAbsent]
  BY DEF IInv, TypeOK
<1>5. /\ history'[k] = history[k] \cup {Absent} /\ history'[s] = history[s] \cup {d}
      /\ \A x \in Key \ {k, s} : history'[x] = history[x]
  BY <1>1, <1>2, <1>4
<1>6. Past = [x \in Key |-> history[x] \ {Absent}]
      /\ Past' = [x \in Key |-> (history')[x] \ {Absent}]
  BY DEF Past, Documents
<1>7. \A x \in Key : (history')[x] \ {Absent} = [Past EXCEPT ![s] = @ \cup {d}][x]
  BY <1>2, <1>3, <1>5, <1>6
<1>8. Past' = [Past EXCEPT ![s] = @ \cup {d}]
  BY <1>6, <1>7
<1>9. Store!RemoveAndDetach(k, s, d)
  BY <1>1, <1>2, <1>8 DEF Store!RemoveAndDetach, Store!Remember, Past
<1> QED
  BY <1>2, <1>3, <1>9 DEF Store!Next

\* Every step of every handler is a step of DocumentStore or leaves the rows
\* and the cached documents alone.
LEMMA StepImplements ==
    ASSUME IInv, Next
    PROVE  Store!Next \/ UNCHANGED <<db, Past, cache>>
<1>1. ASSUME UNCHANGED <<db, history, cache>>
      PROVE  UNCHANGED <<db, Past, cache>>
  BY <1>1 DEF Past, Documents
<1>2. ASSUME NEW c \in Client,
             \/ HttpRequest(c) \/ QuietRequest(c) \/ Abort(c) \/ Refuse(c)
             \/ ValueGet(c) \/ Lookup(c) \/ ReadRow(c) \/ ValueSet(c)
             \/ DropValues(c) \/ Publish(c)
      PROVE  UNCHANGED <<db, history, cache>>
  <2>1. CASE HttpRequest(c) \/ QuietRequest(c)
    BY <2>1, NewRequestBegins DEF IInv, Begun
  <2> QED
    BY <1>2, <2>1 DEF Abort, Refuse, ValueGet, Lookup, ReadRow, ValueSet, DropValues, Publish
<1>3. ASSUME NEW c \in Client, Fill(c)
      PROVE  Store!Next
  <2>1. At(c, "fill")
    BY <1>3 DEF Fill
  <2> QED
    BY <1>3, <2>1, RequestAt, FillHasADocument, CacheServes DEF Fill, DocOrAbsent
<1>4. ASSUME NEW c \in Client, SetCache(c)
      PROVE  Store!Next
  <2>1. At(c, "set")
    BY <1>4 DEF SetCache
  <2> QED
    BY <1>4, <2>1, RequestAt, EffectIsCommitted, CacheServes DEF SetCache
<1>5. ASSUME NEW c \in Client, EvictCache(c)
      PROVE  Store!Next
  <2>1. At(c, "evict")
    BY <1>5 DEF EvictCache
  <2> QED
    BY <1>5, <2>1, RequestAt, CacheServes DEF EvictCache, DocOrAbsent
<1>6. ASSUME NEW c \in Client, CommitCreate(c) \/ CommitPut(c) \/ CommitPutForShell(c)
      PROVE  Store!Next
  <2>1. CASE CommitCreate(c)
    BY <2>1, PutImplements DEF CommitCreate
  <2>2. CASE CommitPut(c)
    BY <2>2, PutImplements DEF CommitPut
  <2>3. CASE CommitPutForShell(c)
    BY <2>3, PutImplements DEF CommitPutForShell
  <2> QED
    BY <1>6, <2>1, <2>2, <2>3
<1>7. ASSUME NEW c \in Client, CommitModify(c)
      PROVE  Store!Next
  <2>1. Ready(c, "modify") /\ db[req[c].key] # Absent
    BY <1>7 DEF CommitModify, ModifyAllowed
  <2>2. PICK d \in Changed(req[c]) : WriteRow(req[c].key, d)
    BY <1>7 DEF CommitModify
  <2>3. req[c].key \in Key /\ d \in Doc
    BY <2>1, AtDecision, ChangedIsDerived DEF Derived
  <2> QED
    BY <2>1, <2>2, <2>3, RowReplaces
<1>8. ASSUME NEW c \in Client, CommitDelete(c)
      PROVE  Store!Next
  <2>1. /\ Ready(c, "delete") /\ db[req[c].key] # Absent
        /\ WriteRow(req[c].key, Absent)
    BY <1>8 DEF CommitDelete, DeleteAllowed
  <2>2. req[c].key \in Key
    BY <2>1, AtDecision
  <2> QED
    BY <2>1, <2>2, RowRemoved
<1>9. ASSUME NEW c \in Client, CommitAttach(c)
      PROVE  Store!Next
  <2> DEFINE s == req[c].shell
             d == req[c].snap[s] \cup {req[c].key}
  <2>1. Ready(c, "attach") /\ db[s] # Absent /\ WriteRow(s, d)
    BY <1>9 DEF CommitAttach, AttachAllowed
  <2>2. s \in Key /\ req[c].key \in Mark /\ req[c].snap[s] \in Doc
    BY <2>1, AtDecision, ConstantsAssumption DEF Key
  <2>3. d \in Doc
    BY <2>2 DEF Doc
  <2> HIDE DEF d
  <2> QED
    BY <2>1, <2>2, <2>3, RowReplaces
<1>10. ASSUME NEW c \in Client, CommitDetach(c)
       PROVE  Store!Next
  <2> DEFINE s == req[c].shell
             d == req[c].snap[s] \ {req[c].key}
  <2>1. Ready(c, "detach") /\ db[s] # Absent /\ WriteRow(s, d)
    BY <1>10 DEF CommitDetach, DetachAllowed
  <2>2. s \in Key /\ req[c].snap[s] \in Doc
    BY <2>1, AtDecision, ConstantsAssumption DEF Key
  <2>3. d \in Doc
    BY <2>2 DEF Doc
  <2> HIDE DEF d
  <2> QED
    BY <2>1, <2>2, <2>3, RowReplaces
<1>11. ASSUME NEW c \in Client, Link(c)
       PROVE  Store!Next \/ UNCHANGED <<db, history, cache>>
  <2> DEFINE s == req[c].shell
             m == Next1(c).key
             d == req[c].snap[s] \cup {m}
  <2>1. CASE UNCHANGED <<db, history, cache, values, event, started>>
    BY <2>1
  <2>2. CASE db[s] # Absent /\ WriteRow(s, d)
    <3>1. s \in Key /\ d \in Doc
      BY <1>11, LinkedDocument
    <3> HIDE DEF d
    <3> QED
      BY <2>2, <3>1, RowReplaces
  <2> QED
    BY <1>11, <2>1, <2>2 DEF Link
<1>12. ASSUME NEW c \in Client, CommitQuietly(c)
       PROVE  Store!Next
  <2> DEFINE r == req[c]
  <2>1. Ready(c, r.family) /\ QuietAllowed(r)
    BY <1>12 DEF CommitQuietly
  <2>2. PICK d \in QuietResult(r) : WriteRow(r.key, d)
    BY <1>12 DEF CommitQuietly
  <2>3. r.family \in {"quiet_create", "quiet_modify", "quiet_delete"}
    BY <2>1 DEF QuietAllowed
  <2>4. r.key \in Key /\ Writing(r) /\ r.edit \in Edit
    BY <2>1, <2>3, AtDecision
  <2>5. CASE r.family = "quiet_create"
    <3>1. d = {r.edit} /\ db[r.key] = Absent /\ d \in Doc
      BY <2>1, <2>4, <2>5 DEF QuietResult, QuietAllowed, Doc, Mark
    <3> QED
      BY <2>2, <2>4, <3>1, NewRowCreates
  <2>6. CASE r.family = "quiet_modify"
    <3>1. db[r.key] # Absent /\ d \in Changed(r)
      BY <2>1, <2>6 DEF QuietResult, QuietAllowed
    <3>2. d \in Doc
      BY <2>1, <2>4, <2>6, <3>1, AtDecision, ChangedIsDerived DEF Derived
    <3> QED
      BY <2>2, <2>4, <3>1, <3>2, RowReplaces
  <2>7. CASE r.family = "quiet_delete"
    <3>1. db[r.key] # Absent /\ d = Absent
      BY <2>1, <2>7 DEF QuietResult, QuietAllowed
    <3> QED
      BY <2>2, <2>4, <3>1, RowRemoved
  <2> QED
    BY <2>3, <2>5, <2>6, <2>7
<1>13. ASSUME Expiry
       PROVE  Store!Next \/ UNCHANGED <<db, history, cache>>
  <2>1. ASSUME NEW k \in Key, Expire(k)
        PROVE  Store!Next
    BY <2>1, CacheServes DEF Expire, DocOrAbsent
  <2> QED
    BY <1>13, <2>1 DEF Expiry, ExpireValue
<1>14. ASSUME NEW c \in Client, Step(c)
       PROVE  Store!Next \/ UNCHANGED <<db, Past, cache>>
  BY <1>14, <1>1, <1>2, <1>3, <1>4, <1>5, <1>6, <1>7, <1>8, <1>9, <1>10, <1>11, <1>12,
     DeleteForShellImplements DEF Step, ReadOrPublish, Decide
<1> QED
  BY <1>1, <1>2, <1>13, <1>14 DEF Next

\* The handlers implement DocumentStore: whatever their interleaving, no update
\* writes back a deleted document, a Submodel deleted behind a shell leaves its
\* row and the reference in one step, and the cache only serves documents that
\* were committed.
THEOREM Refinement == Spec => ImplementsStore
<1>1. Init => Store!Init
  <2> SUFFICES ASSUME Init PROVE Store!Init
    OBVIOUS
  <2>1. db \in [Key -> Doc \cup {Absent}]
    BY DEF Init, Doc, Mark
  <2>2. Past = [k \in Key |-> {db[k]} \ {Absent}]
    BY DEF Init, Past, Documents
  <2> QED
    BY <2>1, <2>2 DEF Init, NothingRead, Store!Init, Past
<1>2. IInv /\ [Next]_vars => [Store!Next]_(Store!vars)
  <2> SUFFICES ASSUME IInv, [Next]_vars
               PROVE  [Store!Next]_(Store!vars)
    OBVIOUS
  <2>1. CASE Next
    BY <2>1, StepImplements DEF Store!vars, Past
  <2>2. CASE UNCHANGED vars
    BY <2>2 DEF vars, Store!vars, Documents
  <2> QED
    BY <2>1, <2>2
<1> QED
  BY <1>1, <1>2, Invariance, PTL DEF Spec, ImplementsStore, Store!Spec

-----------------------------------------------------------------------------
(* One client at a time.                                                   *)

\* The family of a request is the one its handler begins it with.
LEMMA HttpFamily ==
    ASSUME NEW c \in Client, req \in [Client -> Request], HttpRequest(c)
    PROVE  req'[c].family \notin QuietFamily
<1>1. ASSUME NEW f \in {"read", "create", "put", "modify", "delete", "attach", "detach",
                        "put_for_shell", "delete_for_shell"},
             NEW k, NEW s, NEW tag, NEW change, NEW todo,
             Begin(c, f, k, s, tag, change, todo)
      PROVE  req'[c].family \notin QuietFamily
  BY <1>1 DEF Begin, Sent, QuietFamily
<1> DEFINE Good == req'[c].family \notin QuietFamily
<1> HIDE DEF Good
<1>2. \A k, s, plans : Read(c, k, s, plans) => Good
  BY <1>1 DEF Read, Good
<1>3. \A k : PostOne(c, k) \/ PutOne(c, k) \/ DeleteOne(c, k) => Good
  BY <1>1 DEF PostOne, PutOne, DeleteOne, Good
<1>4. \A k, tags, change : Modify(c, k, tags, change) => Good
  BY <1>1 DEF Modify, Good
<1>5. \A k, x : InstantiateTemplate(c, x, k) => Good
  BY <1>1 DEF InstantiateTemplate, Good
<1>6. \A s, m, tags, change : ModifyForShell(c, s, m, tags, change) => Good
  BY <1>1 DEF ModifyForShell, Good
<1>7. \A s, m : \/ PostSubmodelReference(c, s, m) \/ DeleteSubmodelReference(c, s, m)
                \/ PutSubmodelByIdForShell(c, s, m) \/ DeleteSubmodelByIdForShell(c, s, m)
                => Good
  BY <1>1 DEF PostSubmodelReference, DeleteSubmodelReference, PutSubmodelByIdForShell,
              DeleteSubmodelByIdForShell, Good
<1>8. ASSUME NEW s, ShellRequest(c, s)
      PROVE  Good
  BY <1>8, <1>2, <1>3, <1>4
     DEF ShellRequest, PostShell, PutShellById, DeleteShellById,
         PutAssetInformation, PutThumbnail, DeleteThumbnail
<1>9. ASSUME NEW m, SubmodelRequest(c, m)
      PROVE  Good
  BY <1>9, <1>2, <1>3, <1>4, <1>5
     DEF SubmodelRequest, PostSubmodel, PutSubmodelById, DeleteSubmodelById,
         PatchSubmodelValue, PatchSubmodelMetadata, PutElementAttachment,
         DeleteElementAttachment, PostSubmodelElement, PostNestedSubmodelElement,
         PutSubmodelElement, PatchElementValue, PatchSubmodelElement,
         DeleteSubmodelElement
<1>10. ASSUME NEW d, ConceptRequest(c, d)
       PROVE  Good
  BY <1>10, <1>2, <1>3
     DEF ConceptRequest, PostConceptDescription, PutConceptDescriptionById,
         DeleteConceptDescriptionById
<1>11. ASSUME NEW s, NEW m, ScopedRequest(c, s, m)
       PROVE  Good
  BY <1>11, <1>2, <1>6, <1>7
     DEF ScopedRequest, PatchSubmodelByIdForShell, PatchSubmodelMetadataForShell,
         PatchSubmodelValueForShell, PutElementAttachmentForShell,
         DeleteElementAttachmentForShell, PostSubmodelElementForShell,
         PostNestedSubmodelElementForShell, PutSubmodelElementForShell,
         PatchSubmodelElementValueForShell, PatchSubmodelElementForShell,
         DeleteSubmodelElementForShell
<1> QED
  BY <1>8, <1>9, <1>10, <1>11 DEF HttpRequest, Good

\* The idle request knows nothing and owes nothing.
LEMMA IdleIsUpToDate ==
    /\ Idle.family = "idle" /\ Idle.family \notin QuietFamily /\ Idle.todo = << >>
    /\ \A k \in Key : Idle.snap[k] = Absent
  BY DEF Idle, QuietFamily, NothingRead

\* A request that ends, with nothing stale, leaves nothing stale.
LEMMA FinishSettles ==
    ASSUME NEW c \in Client, req \in [Client -> Request],
           req' = [req EXCEPT ![c] = Idle], Fresh'
    PROVE  Settles(req[c])'
<1>1. req'[c] = Idle
  OBVIOUS
<1> HIDE DEF Idle
<1> QED
  BY <1>1, IdleIsUpToDate, EmptySeq DEF Settles, UpToDate

\* A request with nothing left to do has left nothing stale.
LEMMA DoneIsFresh ==
    ASSUME NEW r \in Request, Settles(r),
           r.todo = << >> \/ r.family # "committed"
    PROVE  Fresh
  BY EmptySeq DEF Settles, UpToDate, Owing, Owes, Fresh

\* While it reads it stays up to date.
LEMMA ReadingSettles ==
    ASSUME NEW c \in Client, req \in [Client -> Request],
           Settles(req[c]), req[c].family # "committed",
           NEW rest \in Seq(Effect), NEW snap,
           \A k \in Key : snap[k] \in {Absent, db[k]},
           \A i \in 1 .. Len(rest) : rest[i].do \in ReadStep,
           GoOn(c, rest, snap), Fresh', db' = db
    PROVE  Settles(req[c])'
<1> DEFINE q == [req[c] EXCEPT !.todo = rest, !.snap = snap]
<1>1. CASE req' = [req EXCEPT ![c] = Idle]
  BY <1>1, FinishSettles
<1>2. CASE req' = [req EXCEPT ![c] = q]
  <2>1. req'[c] = q
    BY <1>2
  <2>2. req[c] \in Request
    OBVIOUS
  <2>3. q.family = req[c].family /\ q.todo = rest /\ q.snap = snap
    BY <2>2 DEF Request
  <2> HIDE DEF q
  <2> QED
    BY <2>1, <2>3 DEF Settles, UpToDate
<1> QED
  BY <1>1, <1>2 DEF GoOn, AfterStep

\* The next step of a request, and what it says of the stretch the request is in.
LEMMA StretchAt ==
    ASSUME IInv, NEW c \in Client, NEW step, At(c, step), Settles(req[c])
    PROVE  /\ req \in [Client -> Request] /\ req[c] \in Request
           /\ Rest(c) \in Seq(Effect) /\ Len(Rest(c)) = Len(req[c].todo) - 1
           /\ Len(req[c].todo) \in Nat \ {0}
           /\ Next1(c) = req[c].todo[1] /\ Next1(c).do = step /\ Next1(c).key \in Key
           /\ \A i \in 1 .. Len(Rest(c)) :
                 /\ i + 1 \in 1 .. Len(req[c].todo)
                 /\ Rest(c)[i] = req[c].todo[i + 1]
           /\ step \in ReadStep <=> req[c].family # "committed"
<1>1. /\ req \in [Client -> Request] /\ req[c] \in Request /\ req[c].todo # << >>
      /\ Head(req[c].todo) = Next1(c) /\ Next1(c).do = step /\ Next1(c).key \in Key
  BY RequestAt DEF IInv, TypeOK
<1>2. /\ Rest(c) \in Seq(Effect) /\ Len(Rest(c)) = Len(req[c].todo) - 1
      /\ Len(req[c].todo) \in Nat \ {0} /\ Next1(c) = req[c].todo[1]
      /\ \A i \in 1 .. Len(Rest(c)) : Rest(c)[i] = req[c].todo[i + 1]
  BY <1>1, TodoSplit DEF Rest
<1>3. step \in ReadStep <=> req[c].family # "committed"
  BY <1>1, <1>2 DEF Settles, UpToDate, Owing
<1> QED
  BY <1>1, <1>2, <1>3

\* The reading steps.
LEMMA ReadStepSettles ==
    ASSUME IInv, NEW c \in Client, Settles(req[c]),
           ValueGet(c) \/ Lookup(c) \/ ReadRow(c) \/ Fill(c) \/ ValueSet(c)
    PROVE  Settles(req[c])'
<1> DEFINE r == req[c]
<1>1. PICK step \in ReadStep : At(c, step)
  BY DEF ValueGet, Lookup, ReadRow, Fill, ValueSet, ReadStep
<1>2. /\ req \in [Client -> Request] /\ r \in Request /\ r.family # "committed"
      /\ Rest(c) \in Seq(Effect) /\ Next1(c).key \in Key /\ Next1(c).do = step
  BY <1>1, StretchAt
<1>3. /\ Fresh /\ \A k \in Key : r.snap[k] \in {Absent, db[k]}
      /\ \A i \in 1 .. Len(Rest(c)) : Rest(c)[i].do \in ReadStep
  BY <1>1, <1>2, StretchAt DEF Settles, UpToDate
<1>4. /\ cache \in [Key -> DocOrAbsent] /\ values \in [Submodel -> DocOrAbsent]
      /\ r.snap \in [Key -> DocOrAbsent]
  BY <1>2 DEF IInv, TypeOK, Request
<1>5. ASSUME NEW snap, GoOn(c, Rest(c), snap), Fresh', db' = db,
             \A k \in Key : snap[k] \in {Absent, db[k]}
      PROVE  Settles(req[c])'
  BY <1>2, <1>3, <1>5, ReadingSettles
<1>6. CASE ValueGet(c)
  <2>1. Fresh' /\ db' = db
    BY <1>3, <1>6 DEF ValueGet, Fresh
  <2>2. CASE Finish(c)
    BY <1>2, <2>1, <2>2, FinishSettles DEF Finish
  <2>3. CASE GoOn(c, Rest(c), r.snap)
    BY <1>3, <1>5, <2>1, <2>3
  <2> QED
    BY <1>6, <2>2, <2>3 DEF ValueGet
<1>7. CASE Lookup(c)
  <2> DEFINE k == Next1(c).key
  <2>1. Fresh' /\ db' = db
    BY <1>3, <1>7 DEF Lookup, Fresh
  <2>2. CASE Finish(c)
    BY <1>2, <2>1, <2>2, FinishSettles DEF Finish
  <2>3. CASE GoOn(c, Rest(c), [r.snap EXCEPT ![k] = cache[k]])
    <3>1. cache[k] \in {Absent, db[k]}
      BY <1>2, <1>3 DEF Fresh
    <3>2. \A x \in Key : [r.snap EXCEPT ![k] = cache[k]][x] \in {Absent, db[x]}
      BY <1>3, <1>4, <3>1
    <3> QED
      BY <1>5, <2>1, <2>3, <3>2
  <2>4. CASE GoOn(c, <<Await("fetch", k), Await("fill", k)>> \o Rest(c), r.snap)
    <3> DEFINE two == <<Await("fetch", k), Await("fill", k)>>
               all == two \o Rest(c)
    <3>1. Await("fetch", k) \in Effect /\ Await("fill", k) \in Effect
      BY <1>2 DEF Await, Effect, ReadStep, DocOrAbsent
    <3>2. two \in Seq(Effect) /\ Len(two) = 2
          /\ two[1].do = "fetch" /\ two[2].do = "fill"
      BY <3>1 DEF Await
    <3>3. GoOn(c, all, r.snap)
      BY <2>4
    <3> HIDE DEF two
    <3>4. /\ all \in Seq(Effect) /\ Len(all) = 2 + Len(Rest(c))
          /\ \A i \in 1 .. Len(all) :
                all[i] = IF i <= 2 THEN two[i] ELSE Rest(c)[i - 2]
      <4>1. /\ all \in Seq(Effect) /\ Len(all) = Len(two) + Len(Rest(c))
            /\ \A i \in 1 .. Len(two) + Len(Rest(c)) :
                  all[i] = IF i <= Len(two) THEN two[i] ELSE Rest(c)[i - Len(two)]
        BY <1>2, <3>2, ConcatProperties
      <4> QED
        BY <3>2, <4>1
    <3> HIDE DEF all
    <3>5. Len(Rest(c)) \in Nat
      BY <1>2
    <3>6. ASSUME NEW i \in 1 .. Len(all)
          PROVE  all[i].do \in ReadStep
      <4>1. CASE i <= 2
        BY <3>2, <3>4, <4>1 DEF ReadStep
      <4>2. CASE i > 2
        <5>1. i - 2 \in 1 .. Len(Rest(c)) /\ all[i] = Rest(c)[i - 2]
          BY <3>4, <3>5, <4>2
        <5> QED
          BY <1>3, <5>1
      <4> QED
        BY <4>1, <4>2
    <3> QED
      BY <1>2, <1>3, <2>1, <3>3, <3>4, <3>6, ReadingSettles
  <2> QED
    BY <1>7, <2>2, <2>3, <2>4 DEF Lookup
<1>8. CASE ReadRow(c)
  <2> DEFINE k == Next1(c).key
  <2>1. Fresh' /\ db' = db
    BY <1>3, <1>8 DEF ReadRow, Fresh
  <2>2. CASE Finish(c)
    BY <1>2, <2>1, <2>2, FinishSettles DEF Finish
  <2>3. CASE GoOn(c, Rest(c), [r.snap EXCEPT ![k] = db[k]])
    <3>1. \A x \in Key : [r.snap EXCEPT ![k] = db[k]][x] \in {Absent, db[x]}
      BY <1>3, <1>4
    <3> QED
      BY <1>5, <2>1, <2>3, <3>1
  <2> QED
    BY <1>8, <2>2, <2>3 DEF ReadRow
<1>9. CASE Fill(c)
  <2>1. Fresh'
    <3> DEFINE k == Next1(c).key
    <3>1. /\ cache' = [cache EXCEPT ![k] = r.snap[k]] /\ k \in Key
          /\ UNCHANGED <<db, values>> /\ r.snap[k] \in {Absent, db[k]}
      BY <1>2, <1>3, <1>9 DEF Fill
    <3> HIDE DEF k, r
    <3>2. \A x \in Key : cache'[x] \in {cache[x], r.snap[k]} /\ (x # k => cache'[x] = cache[x])
      BY <1>4, <3>1
    <3>3. cache'[k] = r.snap[k]
      BY <1>4, <3>1
    <3> QED
      BY <1>3, <3>1, <3>2, <3>3 DEF Fresh
  <2> QED
    BY <1>3, <1>5, <1>9, <2>1 DEF Fill
<1>10. CASE ValueSet(c)
  <2>1. Fresh'
    <3> DEFINE k == Next1(c).key
    <3>1. /\ values' = [values EXCEPT ![k] = r.snap[k]] /\ k \in Key
          /\ UNCHANGED <<db, cache>> /\ r.snap[k] \in {Absent, db[k]}
      BY <1>2, <1>3, <1>10 DEF ValueSet
    <3> HIDE DEF k, r
    <3>2. \A x \in Submodel : values'[x] = IF x = k THEN r.snap[k] ELSE values[x]
      BY <1>4, <3>1
    <3> QED
      BY <1>3, <3>1, <3>2 DEF Fresh
  <2> QED
    BY <1>3, <1>5, <1>10, <2>1 DEF ValueSet
<1> QED
  BY <1>6, <1>7, <1>8, <1>9, <1>10

\* The steps after a commit, each of which pays one debt.
LEMMA WriteStepSettles ==
    ASSUME IInv, NEW c \in Client, Settles(req[c]),
           SetCache(c) \/ EvictCache(c) \/ DropValues(c) \/ Publish(c)
    PROVE  Settles(req[c])'
<1> DEFINE r == req[c]
           n == AfterStep(r, Rest(c), r.snap)
<1>1. PICK step \in {"set", "evict", "drop_values"} \cup PublishStep : At(c, step)
  BY DEF SetCache, EvictCache, DropValues, Publish
<1>2. step \notin ReadStep /\ step # "link"
  BY DEF ReadStep, PublishStep
<1>3. /\ req \in [Client -> Request] /\ r \in Request /\ r.family = "committed"
      /\ Rest(c) \in Seq(Effect) /\ Next1(c).key \in Key /\ Next1(c).do = step
      /\ Len(r.todo) \in Nat \ {0} /\ Next1(c) = r.todo[1]
      /\ Len(Rest(c)) = Len(r.todo) - 1
      /\ \A i \in 1 .. Len(Rest(c)) :
            i + 1 \in 1 .. Len(r.todo) /\ Rest(c)[i] = r.todo[i + 1]
  BY <1>1, <1>2, StretchAt
<1>4. Owing(r)
  BY <1>3 DEF Settles
<1>5. /\ cache \in [Key -> DocOrAbsent] /\ values \in [Submodel -> DocOrAbsent]
  BY DEF IInv, TypeOK
<1>6. req' = [req EXCEPT ![c] = n] /\ db' = db
  BY DEF SetCache, EvictCache, DropValues, Publish, GoOn
<1>7. /\ \A k \in Key : \/ cache'[k] \in {Absent, db[k]}
                         \/ /\ cache'[k] = cache[k]
                            /\ ~(step \in {"set", "evict"} /\ Next1(c).key = k)
      /\ \A m \in Submodel : \/ values'[m] = Absent
                              \/ /\ values'[m] = values[m]
                                 /\ ~(step = "drop_values" /\ Next1(c).key = m)
  <2>1. CASE SetCache(c)
    <3>1. step = "set" /\ Next1(c).doc = db[Next1(c).key]
      BY <1>3, <1>4, <2>1 DEF SetCache, At, Owing
    <3> QED
      BY <1>3, <1>5, <2>1, <3>1 DEF SetCache
  <2>2. CASE EvictCache(c)
    <3>1. step = "evict"
      BY <1>3, <2>2 DEF EvictCache, At
    <3> QED
      BY <1>3, <1>5, <2>2, <3>1 DEF EvictCache
  <2>3. CASE DropValues(c)
    <3>1. step = "drop_values"
      BY <1>3, <2>3 DEF DropValues, At
    <3> QED
      BY <1>3, <1>5, <2>3, <3>1 DEF DropValues
  <2>4. CASE Publish(c)
    <3>1. step \in PublishStep
      BY <1>3, <2>4 DEF Publish, At
    <3> QED
      BY <1>5, <2>4, <3>1 DEF Publish, PublishStep
  <2> QED
    BY <2>1, <2>2, <2>3, <2>4
\* What is still stale afterwards is on the list of a later step.
<1>8. ASSUME NEW steps \in {{"set", "evict"}, {"drop_values"}}, NEW k,
             Owes(r, steps, k), ~(step \in steps /\ Next1(c).key = k)
      PROVE  \E i \in 1 .. Len(Rest(c)) : Rest(c)[i].do \in steps /\ Rest(c)[i].key = k
  <2>1. PICK i \in 1 .. Len(r.todo) : r.todo[i].do \in steps /\ r.todo[i].key = k
    BY <1>8 DEF Owes
  <2>2. i # 1
    BY <1>3, <1>8, <2>1
  <2>3. i - 1 \in 1 .. Len(Rest(c)) /\ (i - 1) + 1 = i
    BY <1>3, <2>2
  <2>4. Rest(c)[i - 1] = r.todo[i]
    BY <1>3, <2>3
  <2> QED
    BY <2>1, <2>3, <2>4
<1> DEFINE Later(steps, k) ==
              \E i \in 1 .. Len(Rest(c)) : Rest(c)[i].do \in steps /\ Rest(c)[i].key = k
<1>9. /\ \A k \in Key : cache'[k] \in {Absent, db[k]} \/ Later({"set", "evict"}, k)
      /\ \A m \in Submodel : values'[m] \in {Absent, db[m]} \/ Later({"drop_values"}, m)
  <2> HIDE DEF r
  <2>1. ASSUME NEW k \in Key
        PROVE  cache'[k] \in {Absent, db[k]} \/ Later({"set", "evict"}, k)
    BY <1>4, <1>7, <1>8 DEF Owing
  <2>2. ASSUME NEW m \in Submodel
        PROVE  values'[m] \in {Absent, db[m]} \/ Later({"drop_values"}, m)
    BY <1>4, <1>7, <1>8 DEF Owing
  <2> QED
    BY <2>1, <2>2
<1>10. CASE Rest(c) = << >>
  <2>1. Fresh'
    BY <1>6, <1>9, <1>10 DEF Fresh
  <2>2. n = Idle
    BY <1>3, <1>10 DEF AfterStep
  <2> QED
    BY <1>3, <1>6, <2>1, <2>2, FinishSettles
<1>11. CASE Rest(c) # << >>
  <2>1. n.family = "committed" /\ n.todo = Rest(c)
    BY <1>3, <1>11 DEF AfterStep, Request
  <2>2. req'[c] = n
    BY <1>3, <1>6
  <2> HIDE DEF n
  <2>3. \A i \in 1 .. Len(Rest(c)) :
          /\ Rest(c)[i].do \notin ReadStep
          /\ Rest(c)[i].do = "set" => Rest(c)[i].doc = db[Rest(c)[i].key]
          /\ Rest(c)[i].do = "link" => i = Len(Rest(c))
    BY <1>3, <1>4 DEF Owing
  <2> HIDE DEF r
  <2>4. "committed" \notin QuietFamily
    BY DEF QuietFamily
  <2> QED
    BY <1>6, <1>9, <2>1, <2>2, <2>3, <2>4 DEF Settles, Owing, Owes
<1> QED
  BY <1>10, <1>11

\* A commit, with the steps it leaves to do: each row it writes is set or evicted,
\* and its element values are dropped where there may be any.
LEMMA CommitSettles ==
    ASSUME NEW c \in Client, req \in [Client -> Request], Fresh,
           UNCHANGED <<cache, values>>,
           NEW n, req' = [req EXCEPT ![c] = n], n.family = "committed",
           \A k \in Key : db'[k] = db[k] \/ Owes(n, {"set", "evict"}, k),
           \A m \in Submodel : db'[m] = db[m] \/ values[m] = Absent \/ Owes(n, {"drop_values"}, m),
           \A i \in 1 .. Len(n.todo) :
              /\ n.todo[i].do \notin ReadStep
              /\ n.todo[i].do = "set" => n.todo[i].doc = db'[n.todo[i].key]
              /\ n.todo[i].do = "link" => i = Len(n.todo)
    PROVE  Settles(req[c])'
<1>1. req'[c] = n
  OBVIOUS
<1>2. "committed" \notin QuietFamily
  BY DEF QuietFamily
<1>3. \A k \in Key : cache'[k] \in {Absent, db'[k]} \/ Owes(n, {"set", "evict"}, k)
  BY DEF Fresh
<1>4. \A m \in Submodel : values'[m] \in {Absent, db'[m]} \/ Owes(n, {"drop_values"}, m)
  BY DEF Fresh
<1> QED
  BY <1>1, <1>2, <1>3, <1>4 DEF Settles, Owing, Owes

\* What follows the commit of a document pays for it: the entry is set, and the
\* values of a Submodel are dropped.
LEMMA AnnouncePays ==
    ASSUME NEW step \in {"created", "updated"}, NEW k \in Key, NEW d \in Doc
    PROVE  /\ \E i \in 1 .. Len(Announce(step, k, d)) :
                 /\ Announce(step, k, d)[i].do = "set"
                 /\ Announce(step, k, d)[i].key = k
           /\ k \in Submodel
              => \E i \in 1 .. Len(Announce(step, k, d)) :
                    /\ Announce(step, k, d)[i].do = "drop_values"
                    /\ Announce(step, k, d)[i].key = k
<1>1. CASE k \in Submodel
  <2> DEFINE l == <<AwaitWith("set", k, d), Await("drop_values", k), AwaitWith(step, k, d)>>
  <2>1. Announce(step, k, d) = l
    BY <1>1 DEF Announce
  <2>2. /\ 1 \in 1 .. Len(l) /\ 2 \in 1 .. Len(l)
        /\ l[1].do = "set" /\ l[1].key = k /\ l[2].do = "drop_values" /\ l[2].key = k
    BY DEF AwaitWith, Await
  <2> HIDE DEF l
  <2> QED
    BY <2>1, <2>2
<1>2. CASE k \notin Submodel
  <2> DEFINE l == <<AwaitWith("set", k, d), AwaitWith(step, k, d)>>
  <2>1. Announce(step, k, d) = l
    BY <1>2 DEF Announce
  <2>2. 1 \in 1 .. Len(l) /\ l[1].do = "set" /\ l[1].key = k
    BY DEF AwaitWith
  <2> HIDE DEF l
  <2> QED
    BY <1>2, <2>1, <2>2
<1> QED
  BY <1>1, <1>2

\* So does what follows a deletion.
LEMMA RetractPays ==
    ASSUME NEW k \in Key
    PROVE  /\ \E i \in 1 .. Len(Retract(k)) :
                 Retract(k)[i].do = "evict" /\ Retract(k)[i].key = k
           /\ k \in Submodel
              => \E i \in 1 .. Len(Retract(k)) :
                    Retract(k)[i].do = "drop_values" /\ Retract(k)[i].key = k
<1>1. CASE k \in Submodel
  <2> DEFINE l == <<Await("evict", k), Await("drop_values", k), Await("deleted", k)>>
  <2>1. Retract(k) = l
    BY <1>1 DEF Retract
  <2>2. /\ 1 \in 1 .. Len(l) /\ 2 \in 1 .. Len(l)
        /\ l[1].do = "evict" /\ l[1].key = k /\ l[2].do = "drop_values" /\ l[2].key = k
    BY DEF Await
  <2> HIDE DEF l
  <2> QED
    BY <2>1, <2>2
<1>2. CASE k \notin Submodel
  <2> DEFINE l == <<Await("evict", k), Await("deleted", k)>>
  <2>1. Retract(k) = l
    BY <1>2 DEF Retract
  <2>2. 1 \in 1 .. Len(l) /\ l[1].do = "evict" /\ l[1].key = k
    BY DEF Await
  <2> HIDE DEF l
  <2> QED
    BY <1>2, <2>1, <2>2
<1> QED
  BY <1>1, <1>2

\* A commit of one row, with the steps the handler makes of it.
LEMMA RowSettles ==
    ASSUME IInv, NEW c \in Client, Fresh,
           NEW k \in Key, NEW d \in DocOrAbsent, WriteRow(k, d),
           NEW n, req' = [req EXCEPT ![c] = n], n.family = "committed",
           Owes(n, {"set", "evict"}, k),
           k \in Submodel => values[k] = Absent \/ Owes(n, {"drop_values"}, k),
           \A i \in 1 .. Len(n.todo) :
              /\ n.todo[i].key = k
              /\ n.todo[i].do \notin ReadStep
              /\ n.todo[i].do = "set" => n.todo[i].doc = d
              /\ n.todo[i].do = "link" => i = Len(n.todo)
    PROVE  Settles(req[c])'
<1>1. /\ req \in [Client -> Request] /\ db \in [Key -> DocOrAbsent]
      /\ UNCHANGED <<cache, values>> /\ db' = [db EXCEPT ![k] = d]
  BY DEF IInv, TypeOK, WriteRow
<1>2. db'[k] = d /\ \A x \in Key : x # k => db'[x] = db[x]
  BY <1>1
<1>3. Submodel \subseteq Key
  BY DEF Key
<1>4. \A x \in Key : db'[x] = db[x] \/ Owes(n, {"set", "evict"}, x)
  BY <1>2
<1>5. \A m \in Submodel :
         db'[m] = db[m] \/ values[m] = Absent \/ Owes(n, {"drop_values"}, m)
  BY <1>2, <1>3
<1>6. \A i \in 1 .. Len(n.todo) :
         /\ n.todo[i].do \notin ReadStep
         /\ n.todo[i].do = "set" => n.todo[i].doc = db'[n.todo[i].key]
         /\ n.todo[i].do = "link" => i = Len(n.todo)
  BY <1>2
<1> QED
  BY <1>1, <1>4, <1>5, <1>6, CommitSettles

\* A request that has committed, with effects to make.
LEMMA AfterCommit ==
    ASSUME NEW effects
    PROVE  LET n == [Idle EXCEPT !.family = "committed", !.todo = effects]
           IN  n.family = "committed" /\ n.todo = effects
  BY DEF Idle

\* Every commit that is announced.
LEMMA AnnouncedSettles ==
    ASSUME IInv, NEW c \in Client, Fresh,
           NEW step \in {"created", "updated"}, NEW k \in Key, NEW d \in Doc,
           WriteRow(k, d), Then(c, Announce(step, k, d))
    PROVE  Settles(req[c])'
<1> DEFINE l == Announce(step, k, d)
           n == [Idle EXCEPT !.family = "committed", !.todo = l]
<1>1. l # << >>
  BY AnnounceLists
<1>2. req' = [req EXCEPT ![c] = n]
  BY <1>1 DEF Then
<1>3. n.family = "committed" /\ n.todo = l
  BY AfterCommit
<1>4. \A i \in 1 .. Len(l) :
         /\ l[i].key = k
         /\ l[i].do \notin ReadStep
         /\ l[i].do = "set" => l[i].doc = d
         /\ l[i].do # "link"
  BY AnnounceLists DEF ReadStep, PublishStep
<1>5. d \in DocOrAbsent
  BY DEF DocOrAbsent
<1> HIDE DEF n
<1>6. /\ Owes(n, {"set", "evict"}, k)
      /\ k \in Submodel => Owes(n, {"drop_values"}, k)
  BY <1>3, AnnouncePays DEF Owes
<1> HIDE DEF l
<1> QED
  BY <1>2, <1>3, <1>4, <1>5, <1>6, RowSettles

\* At its decision a request that runs alone finds nothing stale.
LEMMA DecisionIsFresh ==
    ASSUME IInv, NEW c \in Client, Settles(req[c]), NEW family, Ready(c, family)
    PROVE  Fresh /\ family = req[c].family /\ req[c] \in Request
  BY DoneIsFresh DEF IInv, TypeOK, Ready

\* POST has nothing to drop: there was no document the values could be of.
LEMMA CommitCreateSettles ==
    ASSUME IInv, NEW c \in Client, Settles(req[c]), CommitCreate(c)
    PROVE  Settles(req[c])'
<1> DEFINE k == req[c].key
<1>1. /\ Ready(c, "create") /\ db[k] = Absent
  BY DEF CommitCreate, CreateAllowed
<1>2. PICK d \in Bodies(req[c]) :
         /\ WriteRow(k, d)
         /\ Then(c, <<AwaitWith("set", k, d), AwaitWith("created", k, d)>>)
  BY DEF CommitCreate
<1> DEFINE l == <<AwaitWith("set", k, d), AwaitWith("created", k, d)>>
           n == [Idle EXCEPT !.family = "committed", !.todo = l]
<1>3. k \in Key /\ d \in DocOrAbsent
  BY <1>1, AtDecision, BodiesAreDerived DEF Derived, DocOrAbsent
<1>4. Fresh
  BY <1>1, DecisionIsFresh
<1>5. k \in Submodel => values[k] = Absent
  BY <1>1, <1>4 DEF Fresh
<1>6. /\ l # << >> /\ Len(l) = 2 /\ 1 \in 1 .. Len(l)
      /\ l[1].do = "set" /\ l[1].key = k /\ l[1].doc = d
      /\ l[2].do = "created" /\ l[2].key = k
  BY DEF AwaitWith
<1>7. req' = [req EXCEPT ![c] = n]
  BY <1>2, <1>6 DEF Then
<1>8. n.family = "committed" /\ n.todo = l
  BY AfterCommit
<1> HIDE DEF n, l
<1>9. \A i \in 1 .. Len(l) :
         /\ l[i].key = k
         /\ l[i].do \notin ReadStep
         /\ l[i].do = "set" => l[i].doc = d
         /\ l[i].do = "link" => i = Len(l)
  <2>1. \A i \in 1 .. 2 : i = 1 \/ i = 2
    OBVIOUS
  <2> QED
    BY <1>6, <2>1 DEF ReadStep
<1>10. Owes(n, {"set", "evict"}, k)
  BY <1>6, <1>8 DEF Owes
<1> HIDE DEF k
<1> QED
  BY <1>2, <1>3, <1>4, <1>5, <1>7, <1>8, <1>9, <1>10, RowSettles

\* The handlers that announce what they have committed.
LEMMA AnnouncersSettle ==
    ASSUME IInv, NEW c \in Client, Settles(req[c]),
           CommitPut(c) \/ CommitModify(c) \/ CommitAttach(c) \/ CommitDetach(c)
    PROVE  Settles(req[c])'
<1> DEFINE r == req[c]
<1>1. CASE CommitPut(c)
  <2>1. Ready(c, "put")
    BY <1>1 DEF CommitPut
  <2>2. PICK d \in Bodies(r) : WriteRow(r.key, d) /\ Then(c, Announce(PutStep(r), r.key, d))
    BY <1>1 DEF CommitPut
  <2>3. PutStep(r) \in {"created", "updated"}
    BY DEF PutStep
  <2>4. r.key \in Key /\ d \in Doc
    BY <2>1, AtDecision, BodiesAreDerived DEF Derived
  <2> HIDE DEF r
  <2> QED
    BY <2>1, <2>2, <2>3, <2>4, DecisionIsFresh, AnnouncedSettles
<1>2. CASE CommitModify(c)
  <2>1. Ready(c, "modify")
    BY <1>2 DEF CommitModify
  <2>2. PICK d \in Changed(r) : WriteRow(r.key, d) /\ Then(c, Announce("updated", r.key, d))
    BY <1>2 DEF CommitModify
  <2>3. r.key \in Key /\ d \in Doc
    BY <2>1, AtDecision, ChangedIsDerived DEF Derived
  <2> HIDE DEF r
  <2> QED
    BY <2>1, <2>2, <2>3, DecisionIsFresh, AnnouncedSettles
<1>3. CASE CommitAttach(c)
  <2> DEFINE d == r.snap[r.shell] \cup {r.key}
  <2>1. /\ Ready(c, "attach") /\ WriteRow(r.shell, d)
        /\ Then(c, Announce("updated", r.shell, d))
    BY <1>3 DEF CommitAttach
  <2>2. r.shell \in Key /\ r.key \in Mark /\ r.snap[r.shell] \in Doc
    BY <2>1, AtDecision, ConstantsAssumption DEF Key
  <2>3. d \in Doc
    BY <2>2 DEF Doc
  <2> HIDE DEF r, d
  <2> QED
    BY <2>1, <2>2, <2>3, DecisionIsFresh, AnnouncedSettles
<1>4. CASE CommitDetach(c)
  <2> DEFINE d == r.snap[r.shell] \ {r.key}
  <2>1. /\ Ready(c, "detach") /\ WriteRow(r.shell, d)
        /\ Then(c, Announce("updated", r.shell, d))
    BY <1>4 DEF CommitDetach
  <2>2. r.shell \in Key /\ r.snap[r.shell] \in Doc
    BY <2>1, AtDecision, ConstantsAssumption DEF Key
  <2>3. d \in Doc
    BY <2>2 DEF Doc
  <2> HIDE DEF r, d
  <2> QED
    BY <2>1, <2>2, <2>3, DecisionIsFresh, AnnouncedSettles
<1> QED
  BY <1>1, <1>2, <1>3, <1>4

\* The commits of the delete_*_by_id handlers.
LEMMA CommitDeleteSettles ==
    ASSUME IInv, NEW c \in Client, Settles(req[c]), CommitDelete(c)
    PROVE  Settles(req[c])'
<1> DEFINE k == req[c].key
           l == Retract(k)
           n == [Idle EXCEPT !.family = "committed", !.todo = l]
<1>1. Ready(c, "delete") /\ WriteRow(k, Absent) /\ Then(c, l)
  BY DEF CommitDelete
<1>2. k \in Key /\ Fresh
  BY <1>1, AtDecision, DecisionIsFresh
<1>3. req' = [req EXCEPT ![c] = n]
  BY <1>1, <1>2, RetractLists DEF Then
<1>4. n.family = "committed" /\ n.todo = l
  BY AfterCommit
<1> HIDE DEF n
<1>5. \A i \in 1 .. Len(l) :
         l[i].key = k /\ l[i].do \notin ReadStep /\ l[i].do # "set" /\ l[i].do # "link"
  BY <1>2, RetractLists DEF ReadStep
<1>6. Owes(n, {"set", "evict"}, k) /\ (k \in Submodel => Owes(n, {"drop_values"}, k))
  BY <1>2, <1>4, RetractPays DEF Owes
<1>7. Absent \in DocOrAbsent
  BY DEF DocOrAbsent
<1> HIDE DEF l, k
<1> QED
  BY <1>1, <1>2, <1>3, <1>4, <1>5, <1>6, <1>7, RowSettles

\* put_submodel_by_id_for_shell announces the Submodel before it links it.
LEMMA CommitPutForShellSettles ==
    ASSUME IInv, NEW c \in Client, Settles(req[c]), CommitPutForShell(c)
    PROVE  Settles(req[c])'
<1> DEFINE k == req[c].key
           s == req[c].shell
           step == PutStep(req[c])
<1>1. Ready(c, "put_for_shell")
  BY DEF CommitPutForShell
<1>2. PICK d \in Bodies(req[c]) :
         /\ WriteRow(k, d)
         /\ ThenInShell(c, s, Append(Announce(step, k, d), Await("link", k)))
  BY DEF CommitPutForShell
<1> DEFINE a == Announce(step, k, d)
           l == Append(a, Await("link", k))
           n == [Idle EXCEPT !.family = "committed", !.todo = l, !.shell = s,
                             !.snap = [NothingRead EXCEPT ![s] = req[c].snap[s]]]
<1>3. k \in Key /\ d \in Doc /\ d \in DocOrAbsent /\ Fresh
  BY <1>1, AtDecision, BodiesAreDerived, DecisionIsFresh DEF Derived, DocOrAbsent
<1>4. step \in {"created", "updated"}
  BY DEF PutStep
<1>5. req' = [req EXCEPT ![c] = n]
  BY <1>2 DEF ThenInShell
<1>6. n.family = "committed" /\ n.todo = l
  BY DEF Idle
<1> HIDE DEF n
<1>7. Await("link", k) \in Effect /\ Await("link", k).do = "link" /\ Await("link", k).key = k
  BY <1>3 DEF Await, Effect, WriteStep, DocOrAbsent
<1> HIDE DEF step
<1>8. /\ a \in Seq(Effect)
      /\ \A i \in 1 .. Len(a) :
            /\ a[i].key = k /\ a[i].do \notin ReadStep
            /\ a[i].do = "set" => a[i].doc = d
            /\ a[i].do # "link"
  BY <1>3, <1>4, AnnounceLists DEF ReadStep, PublishStep
<1>9. /\ \E i \in 1 .. Len(a) : a[i].do = "set" /\ a[i].key = k
      /\ k \in Submodel => \E i \in 1 .. Len(a) : a[i].do = "drop_values" /\ a[i].key = k
  <2> HIDE DEF k
  <2> QED
    BY <1>3, <1>4, AnnouncePays
<1> HIDE DEF a
<1>10. /\ Len(l) = Len(a) + 1 /\ Len(a) \in Nat
       /\ \A i \in 1 .. Len(a) : l[i] = a[i]
       /\ l[Len(a) + 1] = Await("link", k)
  BY <1>7, <1>8
<1>11. \A i \in 1 .. Len(l) : i \in 1 .. Len(a) \/ i = Len(l)
  BY <1>10
<1>12. \A i \in 1 .. Len(a) : i \in 1 .. Len(l)
  BY <1>10
<1> HIDE DEF l
<1>13. \A i \in 1 .. Len(l) :
          /\ l[i].key = k /\ l[i].do \notin ReadStep
          /\ l[i].do = "set" => l[i].doc = d
          /\ l[i].do = "link" => i = Len(l)
  BY <1>7, <1>8, <1>10, <1>11 DEF ReadStep
<1>14. Owes(n, {"set", "evict"}, k) /\ (k \in Submodel => Owes(n, {"drop_values"}, k))
  BY <1>6, <1>9, <1>10, <1>12 DEF Owes
<1> HIDE DEF k
<1> QED
  BY <1>2, <1>3, <1>5, <1>6, <1>13, <1>14, RowSettles

\* The link comes when the Submodel is settled, and announces the shell.
LEMMA LinkSettles ==
    ASSUME IInv, NEW c \in Client, Settles(req[c]), Link(c)
    PROVE  Settles(req[c])'
<1> DEFINE s == req[c].shell
           d == req[c].snap[s] \cup {Next1(c).key}
<1>1. At(c, "link")
  BY DEF Link
<1>2. /\ req[c].family = "committed" /\ Len(req[c].todo) \in Nat \ {0}
      /\ Next1(c) = req[c].todo[1] /\ Next1(c).do = "link"
      /\ req \in [Client -> Request] /\ req[c] \in Request
  BY <1>1, StretchAt DEF ReadStep
<1>3. Owing(req[c])
  BY <1>2 DEF Settles
<1>4. Len(req[c].todo) = 1
  <2>1. 1 \in 1 .. Len(req[c].todo) /\ req[c].todo[1].do = "link"
    BY <1>2
  <2> QED
    BY <1>3, <2>1 DEF Owing
<1>5. \A i \in 1 .. Len(req[c].todo) : req[c].todo[i].do = "link"
  BY <1>2, <1>4
<1>6. Fresh
  BY <1>3, <1>5 DEF Owing, Owes, Fresh
<1>7. CASE Finish(c) /\ UNCHANGED <<db, history, cache, values, event, started>>
  <2>1. Fresh'
    BY <1>6, <1>7 DEF Fresh
  <2> QED
    BY <1>2, <1>7, <2>1, FinishSettles DEF Finish
<1>8. CASE WriteRow(s, d) /\ Then(c, Announce("updated", s, d))
  <2>1. s \in Key /\ d \in Doc
    BY LinkedDocument
  <2> HIDE DEF d, s
  <2> QED
    BY <1>6, <1>8, <2>1, AnnouncedSettles
<1> QED
  BY <1>7, <1>8 DEF Link

\* delete_submodel_by_id_for_shell settles both rows.
LEMMA CommitDeleteForShellSettles ==
    ASSUME IInv, NEW c \in Client, Settles(req[c]), CommitDeleteForShell(c)
    PROVE  Settles(req[c])'
<1> DEFINE k == req[c].key
           s == req[c].shell
           d == req[c].snap[s] \ {k}
           l == <<Await("evict", k), Await("drop_values", k),
                  AwaitWith("set", s, d), Await("deleted", k),
                  AwaitWith("updated", s, d)>>
           n == [Idle EXCEPT !.family = "committed", !.todo = l]
<1>1. /\ Ready(c, "delete_for_shell")
      /\ db' = [db EXCEPT ![k] = Absent, ![s] = d]
      /\ Then(c, l)
      /\ UNCHANGED <<cache, values>>
  BY DEF CommitDeleteForShell
<1>2. /\ k \in Submodel /\ k \in Key /\ s \in Shell /\ s \in Key /\ k # s /\ s \notin Submodel
  BY <1>1, AtDecision, ConstantsAssumption DEF Key
<1>3. Fresh
  BY <1>1, DecisionIsFresh
<1>4. db \in [Key -> DocOrAbsent] /\ req \in [Client -> Request]
  BY DEF IInv, TypeOK
<1>5. /\ l # << >> /\ Len(l) = 5
      /\ l[1].do = "evict" /\ l[1].key = k
      /\ l[2].do = "drop_values" /\ l[2].key = k
      /\ l[3].do = "set" /\ l[3].doc = d /\ l[3].key = s
      /\ l[4].do = "deleted" /\ l[5].do = "updated"
  BY DEF Await, AwaitWith
<1>6. req' = [req EXCEPT ![c] = n]
  BY <1>1, <1>5 DEF Then
<1>7. n.family = "committed" /\ n.todo = l
  BY AfterCommit
<1> HIDE DEF n, l, d
<1>8. db'[s] = d /\ \A x \in Key : x \notin {k, s} => db'[x] = db[x]
  BY <1>1, <1>2, <1>4
<1>9. /\ 1 \in 1 .. Len(l) /\ 2 \in 1 .. Len(l) /\ 3 \in 1 .. Len(l)
      /\ \A i \in 1 .. Len(l) : i = 1 \/ i = 2 \/ i = 3 \/ i = 4 \/ i = 5
  BY <1>5
<1>10. /\ Owes(n, {"set", "evict"}, k) /\ Owes(n, {"set", "evict"}, s)
       /\ Owes(n, {"drop_values"}, k)
  BY <1>5, <1>7, <1>9 DEF Owes
<1>11. \A i \in 1 .. Len(n.todo) :
          /\ n.todo[i].do \notin ReadStep
          /\ n.todo[i].do = "set" => n.todo[i].doc = db'[n.todo[i].key]
          /\ n.todo[i].do = "link" => i = Len(n.todo)
  BY <1>5, <1>7, <1>8, <1>9 DEF ReadStep
<1>12. \A x \in Key : db'[x] = db[x] \/ Owes(n, {"set", "evict"}, x)
  BY <1>8, <1>10
<1>13. \A m \in Submodel : db'[m] = db[m] \/ values[m] = Absent \/ Owes(n, {"drop_values"}, m)
  BY <1>2, <1>8, <1>10 DEF Key
<1> HIDE DEF k, s
<1> QED
  BY <1>1, <1>3, <1>4, <1>6, <1>7, <1>11, <1>12, <1>13, CommitSettles

\* What ends a request without a commit, or before it.
LEMMA EndSettles ==
    ASSUME IInv, NEW c \in Client, Settles(req[c]),
           Refuse(c) \/ (req[c].family # "committed" /\ Abort(c))
    PROVE  Settles(req[c])'
<1>1. req \in [Client -> Request] /\ req[c] \in Request
  BY DEF IInv, TypeOK
<1>2. Fresh
  BY <1>1, DoneIsFresh DEF Refuse, Ready
<1>3. Fresh' /\ req' = [req EXCEPT ![c] = Idle]
  BY <1>2 DEF Refuse, Abort, Finish, Fresh
<1> QED
  BY <1>1, <1>3, FinishSettles

\* An entry that expires was stale or not; it is no longer there.
LEMMA ExpirySettles ==
    ASSUME IInv, NEW c \in Client, Settles(req[c]), Expiry
    PROVE  Settles(req[c])'
<1>1. /\ cache \in [Key -> DocOrAbsent] /\ values \in [Submodel -> DocOrAbsent]
  BY DEF IInv, TypeOK
<1>2. /\ UNCHANGED <<db, req>>
      /\ \A k \in Key : cache'[k] \in {Absent, cache[k]}
      /\ \A m \in Submodel : values'[m] \in {Absent, values[m]}
  BY <1>1 DEF Expiry, Expire, ExpireValue
<1>3. CASE req[c].family = "committed"
  BY <1>2, <1>3 DEF Settles, Owing, Owes
<1>4. CASE req[c].family # "committed"
  BY <1>2, <1>4 DEF Settles, UpToDate, Fresh
<1> QED
  BY <1>3, <1>4

\* A client that was idle begins with nothing stale.
LEMMA HttpRequestSettles ==
    ASSUME IInv, NEW c \in Client, Settles(req[c]), HttpRequest(c)
    PROVE  Settles(req[c])'
<1>1. PICK r : Begun(c, r)
  BY NewRequestBegins DEF IInv
<1>2. req \in [Client -> Request] /\ req'[c] = r
  BY <1>1 DEF IInv, TypeOK, Begun
<1>3. r.family \notin QuietFamily /\ r.family # "committed"
  BY <1>1, <1>2, HttpFamily DEF Begun, Startable
<1>4. Fresh
  BY <1>1, <1>2, DoneIsFresh DEF Begun
<1>5. Fresh'
  BY <1>1, <1>4 DEF Begun, Fresh
<1>6. /\ \A k \in Key : r.snap[k] = Absent
      /\ \A i \in 1 .. Len(r.todo) : r.todo[i].do \in ReadStep
  BY <1>1 DEF Begun, Startable, NothingRead
<1> QED
  BY <1>2, <1>3, <1>5, <1>6 DEF Settles, UpToDate

\* Where one client runs at a time and all writes come through the HTTP API, no
\* handler leaves a stale document or $value behind in the cache.
THEOREM NothingStaleAlone ==
    ASSUME NEW c, Client = {c}
    PROVE  CarefulSpec => []SequentialFresh
<1>1. Init => IInv /\ AloneInv
  <2>1. Init => Fresh
    BY DEF Init, Fresh, NothingRead
  <2>2. ASSUME Init, NEW o \in Client
        PROVE  Settles(req[o])
    <3>1. req[o] = Idle
      BY <2>2 DEF Init
    <3> HIDE DEF Idle
    <3> QED
      BY <2>1, <2>2, <3>1, IdleIsUpToDate, EmptySeq DEF Settles, UpToDate
  <2> QED
    BY <2>2, InitInv DEF AloneInv
<1>2. IInv /\ AloneInv /\ [CarefulNext]_vars => IInv' /\ AloneInv'
  <2> SUFFICES ASSUME IInv, AloneInv, [CarefulNext]_vars
               PROVE  IInv' /\ AloneInv'
    OBVIOUS
  <2>1. [Next]_vars
    BY DEF CarefulNext, Next
  <2>2. c \in Client /\ Settles(req[c])
    BY DEF AloneInv
  <2>3. ASSUME UNCHANGED vars
        PROVE  Settles(req[c])'
    BY <2>2, <2>3 DEF vars, Settles, UpToDate, Owing, Owes, Fresh
  <2>4. ASSUME Expiry
        PROVE  Settles(req[c])'
    BY <2>2, <2>4, ExpirySettles
  <2>5. ASSUME HttpRequest(c)
        PROVE  Settles(req[c])'
    BY <2>2, <2>5, HttpRequestSettles
  <2>6. ASSUME ReadOrPublish(c)
        PROVE  Settles(req[c])'
    BY <2>2, <2>6, ReadStepSettles, WriteStepSettles DEF ReadOrPublish
  <2>7. ASSUME Decide(c)
        PROVE  Settles(req[c])'
    <3>1. ~CommitQuietly(c)
      BY <2>2 DEF CommitQuietly, QuietAllowed, Settles, QuietFamily
    <3> QED
      BY <2>2, <2>7, <3>1, CommitCreateSettles, AnnouncersSettle, CommitDeleteSettles,
         CommitPutForShellSettles, LinkSettles, CommitDeleteForShellSettles, EndSettles
         DEF Decide
  <2>8. ASSUME req[c].family # "committed" /\ Abort(c)
        PROVE  Settles(req[c])'
    BY <2>2, <2>8, EndSettles
  <2>9. Settles(req[c])'
    BY <2>3, <2>4, <2>5, <2>6, <2>7, <2>8 DEF CarefulNext, Step
  <2> QED
    BY <2>1, <2>9, NextKeeps DEF AloneInv
<1>3. IInv /\ AloneInv => SequentialFresh
  BY DEF IInv, TypeOK, AloneInv, SequentialFresh, Active, Settles, UpToDate
<1> QED
  BY <1>1, <1>2, <1>3, PTL DEF CarefulSpec
=============================================================================
