---------------------------- MODULE JobQueueProofs ----------------------------
(***************************************************************************)
(* Theorems about JobQueue, for any number of jobs, workers and clients:   *)
(* the types, that a job stands in one list once, that the queue           *)
(* implements JobPool, so that no job is ever in two workers' hands, and   *)
(* that without faults and cancels no job is lost and no result taken back.*)
(***************************************************************************)
EXTENDS JobQueue, NumberSets, SequenceTheorems, TLAPS

-----------------------------------------------------------------------------
(* The inductive invariant.                                                *)

\* A coroutine that has read a job has a job, and a record to write back.
InStep ==
    /\ \A w \in Worker :
         /\ worker[w].pc = "idle" <=> worker[w].job = Nothing
         /\ worker[w].pc \notin {"idle", "popped", "expired"} => worker[w].copy \in Record
    /\ \A c \in Client :
         /\ client[c].pc # "idle" => client[c].job \in Job
         /\ client[c].pc \in {"cancelling", "removing", "marking"} => client[c].copy \in Record

\* The job a worker has is not to be claimed, not buried, and nobody else's;
\* once fail_job has removed it, it is not in the processing list either.
HandsApart ==
    \A w \in Worker : worker[w].job # Nothing =>
        /\ worker[w].job \notin unused \cup ToSet(pending) \cup ToSet(dlq)
        /\ \A v \in Worker \ {w} : worker[v].job # worker[w].job
        /\ worker[w].pc \in {"moving", "queueing"}
           => worker[w].job \notin ToSet(processing)

\* A job on its way from SET to LPUSH is nowhere yet.
SubmitsApart ==
    /\ \A c \in Client : client[c].pc = "submitting" =>
         /\ client[c].job \notin unused
         /\ client[c].job \notin ToSet(pending) \cup ToSet(processing) \cup ToSet(dlq)
         /\ \A w \in Worker : worker[w].job # client[c].job
         /\ \A b \in Client \ {c} :
              client[b].pc = "submitting" => client[b].job # client[c].job
    /\ unused \cap (ToSet(pending) \cup ToSet(processing) \cup ToSet(dlq)) = {}

JInv == QueueTypeOK /\ InOneListOnce /\ InStep /\ HandsApart /\ SubmitsApart

-----------------------------------------------------------------------------
(* Lists.                                                                  *)

\* The elements of a list.
LEMMA Elements ==
    ASSUME NEW S, NEW s \in Seq(S)
    PROVE  /\ ToSet(s) \subseteq S
           /\ \A x : x \in ToSet(s) <=> \E i \in 1 .. Len(s) : s[i] = x
<1>1. DOMAIN s = 1 .. Len(s) /\ \A i \in 1 .. Len(s) : s[i] \in S
  BY LenProperties, ElementOfSeq
<1> QED
  BY <1>1 DEF ToSet

\* LPUSH adds its job; a job that was not there is there once.
LEMMA Pushed ==
    ASSUME NEW s \in Seq(Job), NEW j \in Job
    PROVE  /\ Push(s, j) \in Seq(Job)
           /\ ToSet(Push(s, j)) = ToSet(s) \cup {j}
           /\ Once(s) /\ j \notin ToSet(s) => Once(Push(s, j))
<1> DEFINE t == Push(s, j)
<1>1. <<j>> \in Seq(Job) /\ Len(<<j>>) = 1 /\ <<j>>[1] = j
  OBVIOUS
<1>2. /\ t \in Seq(Job) /\ Len(t) = Len(s) + 1 /\ Len(s) \in Nat
      /\ \A i \in 1 .. Len(s) + 1 : t[i] = IF i <= 1 THEN <<j>>[i] ELSE s[i - 1]
  BY <1>1, ConcatProperties, LenProperties DEF Push
<1> HIDE DEF t
<1>3. t[1] = j /\ \A i \in 2 .. Len(t) : i - 1 \in 1 .. Len(s) /\ t[i] = s[i - 1]
  BY <1>1, <1>2
<1>4. \A i \in 1 .. Len(s) : i + 1 \in 2 .. Len(t) /\ t[i + 1] = s[i]
  BY <1>2, <1>3
<1>5. \A i \in 1 .. Len(t) : i = 1 \/ i \in 2 .. Len(t)
  BY <1>2
<1>6. 1 \in 1 .. Len(t) /\ \A i \in 2 .. Len(t) : i \in 1 .. Len(t)
  BY <1>2
<1>7. ToSet(t) = ToSet(s) \cup {j}
  <2>1. /\ \A x : x \in ToSet(s) <=> \E i \in 1 .. Len(s) : s[i] = x
        /\ \A x : x \in ToSet(t) <=> \E i \in 1 .. Len(t) : t[i] = x
    BY <1>2, Elements
  <2>2. \A x \in ToSet(t) : x \in ToSet(s) \cup {j}
    BY <1>3, <1>5, <2>1
  <2>3. \A x \in ToSet(s) \cup {j} : x \in ToSet(t)
    BY <1>3, <1>4, <1>6, <2>1
  <2> QED
    BY <2>2, <2>3
<1>8. ASSUME Once(s), j \notin ToSet(s)
      PROVE  Once(t)
  <2> SUFFICES ASSUME NEW i \in 1 .. Len(t), NEW k \in 1 .. Len(t), t[i] = t[k]
               PROVE  i = k
    BY DEF Once
  <2>1. \A n \in 2 .. Len(t) : t[n] # j
    BY <1>3, <1>8, Elements
  <2> QED
    BY <1>3, <1>5, <1>8, <2>1 DEF Once
<1> QED
  BY <1>2, <1>7, <1>8 DEF t

\* BRPOP takes the last job of a list.
LEMMA Popped ==
    ASSUME NEW s \in Seq(Job), s # << >>, Once(s)
    PROVE  /\ Last(s) \in Job /\ Last(s) \in ToSet(s)
           /\ Front(s) \in Seq(Job) /\ Once(Front(s))
           /\ ToSet(Front(s)) = ToSet(s) \ {Last(s)}
<1> DEFINE t == Front(s)
<1>0. t = SubSeq(s, 1, Len(s) - 1)
  BY DEF Front
<1> HIDE DEF t
<1>1. Len(s) \in Nat \ {0} /\ \A i \in 1 .. Len(s) : s[i] \in Job
  BY EmptySeq, LenProperties, ElementOfSeq
<1>2. /\ t \in Seq(Job) /\ Len(t) = Len(s) - 1
      /\ \A i \in 1 .. Len(s) - 1 : t[i] = s[i]
  <2>1. 1 \in Int /\ Len(s) - 1 \in Int /\ \A i \in 1 .. Len(s) - 1 : s[i] \in Job
    BY <1>1
  <2>2. /\ SubSeq(s, 1, Len(s) - 1) \in Seq(Job)
        /\ Len(SubSeq(s, 1, Len(s) - 1)) = IF 1 <= Len(s) - 1 THEN (Len(s) - 1) - 1 + 1 ELSE 0
        /\ \A i \in 1 .. (Len(s) - 1) - 1 + 1 : SubSeq(s, 1, Len(s) - 1)[i] = s[1 + i - 1]
    BY <2>1, SubSeqProperties
  <2>4. (Len(s) - 1) - 1 + 1 = Len(s) - 1 /\ \A i \in 1 .. Len(s) - 1 : 1 + i - 1 = i
    BY <1>1
  <2>5. \A i \in 1 .. Len(s) - 1 : t[i] = s[i]
    BY <1>0, <2>2, <2>4
  <2>6. t \in Seq(Job) /\ Len(t) = IF 1 <= Len(s) - 1 THEN Len(s) - 1 ELSE 0
    BY <1>0, <2>2, <2>4
  <2>7. Len(t) = Len(s) - 1
    <3> DEFINE n == Len(s)
    <3>1. n \in Int /\ n >= 1
      BY <1>1
    <3> HIDE DEF n
    <3>2. n - 1 = IF 1 <= n - 1 THEN n - 1 ELSE 0
      BY <3>1
    <3> QED
      BY <2>6, <3>2 DEF n
  <2> QED
    BY <2>5, <2>6, <2>7
<1>3. Last(s) = s[Len(s)] /\ Len(s) \in 1 .. Len(s)
  BY <1>1 DEF Last
<1>4. \A i \in 1 .. Len(t) : i \in 1 .. Len(s) /\ i # Len(s) /\ t[i] = s[i]
  BY <1>1, <1>2
<1>5. \A i \in 1 .. Len(s) : i = Len(s) \/ i \in 1 .. Len(t)
  BY <1>1, <1>2
<1>6. Once(t)
  BY <1>4 DEF Once
<1>7. ToSet(t) = ToSet(s) \ {Last(s)}
  <2>1. /\ \A x : x \in ToSet(s) <=> \E i \in 1 .. Len(s) : s[i] = x
        /\ \A x : x \in ToSet(t) <=> \E i \in 1 .. Len(t) : t[i] = x
    BY <1>2, Elements
  <2>2. \A i \in 1 .. Len(t) : s[i] # Last(s)
    BY <1>3, <1>4 DEF Once
  <2>3. \A x \in ToSet(t) : x \in ToSet(s) \ {Last(s)}
    BY <1>4, <2>1, <2>2
  <2>4. \A x \in ToSet(s) \ {Last(s)} : x \in ToSet(t)
    BY <1>3, <1>4, <1>5, <2>1
  <2> QED
    BY <2>3, <2>4
<1> QED
  BY <1>1, <1>2, <1>3, <1>6, <1>7, Elements DEF t

\* LREM takes its job out of a list that has it at most once.
LEMMA RemovedOnce ==
    ASSUME NEW s \in Seq(Job), NEW j \in Job, Once(s)
    PROVE  /\ Removed(s, j) \in Seq(Job) /\ Once(Removed(s, j))
           /\ ToSet(Removed(s, j)) = ToSet(s) \ {j}
<1>1. CASE ~ \E i \in 1 .. Len(s) : s[i] = j
  BY <1>1, Elements DEF Removed, RemoveFirst
<1>2. CASE \E i \in 1 .. Len(s) : s[i] = j
  <2>1. PICK i \in 1 .. Len(s) : s[i] = j
    BY <1>2
  <2>2. {k \in 1 .. Len(s) : s[k] = j} = {i}
    BY <2>1 DEF Once
  <2>3. Min({i}) = i
    BY LenProperties DEF Min
  <2>4. Removed(s, j) = RemoveAt(s, i)
    BY <1>2, <2>2, <2>3 DEF Removed, RemoveFirst, SelectInSeq
  <2> DEFINE t == RemoveAt(s, i)
  <2>5. Len(s) \in Nat /\ i \in Nat \ {0} /\ i <= Len(s) /\ \A k \in 1 .. Len(s) : s[k] \in Job
    BY LenProperties, ElementOfSeq
  <2>6. /\ SubSeq(s, 1, i - 1) \in Seq(Job)
        /\ Len(SubSeq(s, 1, i - 1)) = i - 1
        /\ \A k \in 1 .. i - 1 : SubSeq(s, 1, i - 1)[k] = s[k]
    <3>1. 1 \in Int /\ i - 1 \in Int /\ \A k \in 1 .. i - 1 : s[k] \in Job
      BY <2>5
    <3>2. /\ SubSeq(s, 1, i - 1) \in Seq(Job)
          /\ Len(SubSeq(s, 1, i - 1)) = IF 1 <= i - 1 THEN (i - 1) - 1 + 1 ELSE 0
          /\ \A k \in 1 .. (i - 1) - 1 + 1 : SubSeq(s, 1, i - 1)[k] = s[1 + k - 1]
      BY <3>1, SubSeqProperties
    <3> QED
      BY <2>5, <3>2
  <2>7. /\ SubSeq(s, i + 1, Len(s)) \in Seq(Job)
        /\ Len(SubSeq(s, i + 1, Len(s))) = Len(s) - i
        /\ \A k \in 1 .. Len(s) - i : SubSeq(s, i + 1, Len(s))[k] = s[i + k]
    <3>1. i + 1 \in Int /\ Len(s) \in Int /\ \A k \in i + 1 .. Len(s) : s[k] \in Job
      BY <2>5
    <3>2. /\ SubSeq(s, i + 1, Len(s)) \in Seq(Job)
          /\ Len(SubSeq(s, i + 1, Len(s))) = IF i + 1 <= Len(s) THEN Len(s) - (i + 1) + 1 ELSE 0
          /\ \A k \in 1 .. Len(s) - (i + 1) + 1 :
                SubSeq(s, i + 1, Len(s))[k] = s[(i + 1) + k - 1]
      BY <3>1, SubSeqProperties
    <3> QED
      BY <2>5, <3>2
  <2>8. /\ t \in Seq(Job) /\ Len(t) = Len(s) - 1
        /\ \A k \in 1 .. Len(t) : t[k] = IF k < i THEN s[k] ELSE s[k + 1]
    <3> DEFINE a == SubSeq(s, 1, i - 1)
               b == SubSeq(s, i + 1, Len(s))
    <3>1. a \in Seq(Job) /\ b \in Seq(Job) /\ t = a \o b
      BY <2>6, <2>7 DEF RemoveAt
    <3>2. Len(a) = i - 1 /\ Len(b) = Len(s) - i
      BY <2>6, <2>7
    <3>3. (\A k \in 1 .. i - 1 : a[k] = s[k]) /\ (\A k \in 1 .. Len(s) - i : b[k] = s[i + k])
      BY <2>6, <2>7
    <3> HIDE DEF a, b, t
    <3>4. /\ t \in Seq(Job) /\ Len(t) = Len(a) + Len(b)
          /\ \A k \in 1 .. Len(a) + Len(b) :
                t[k] = IF k <= Len(a) THEN a[k] ELSE b[k - Len(a)]
      BY <3>1, ConcatProperties
    <3>5. Len(t) = Len(s) - 1 /\ Len(a) + Len(b) = Len(s) - 1
      BY <2>5, <3>2, <3>4
    <3>6. ASSUME NEW k \in 1 .. Len(t), k < i
          PROVE  t[k] = s[k]
      <4>1. k \in 1 .. i - 1 /\ k <= Len(a) /\ k \in 1 .. Len(a) + Len(b)
        BY <2>5, <3>2, <3>5, <3>6
      <4> QED
        BY <3>3, <3>4, <4>1
    <3>7. ASSUME NEW k \in 1 .. Len(t), ~ k < i
          PROVE  t[k] = s[k + 1]
      <4>1. /\ ~ k <= Len(a) /\ k \in 1 .. Len(a) + Len(b)
            /\ k - Len(a) \in 1 .. Len(s) - i /\ i + (k - Len(a)) = k + 1
        BY <2>5, <3>2, <3>5, <3>7
      <4> QED
        BY <3>3, <3>4, <4>1
    <3> QED
      BY <3>4, <3>5, <3>6, <3>7
  <2> HIDE DEF t
  <2>9. \A k \in 1 .. Len(t) : \E n \in 1 .. Len(s) :
           n # i /\ t[k] = s[n] /\ n = (IF k < i THEN k ELSE k + 1)
    BY <2>5, <2>8
  <2>10. \A n \in 1 .. Len(s) : n # i => \E k \in 1 .. Len(t) : t[k] = s[n]
    <3> SUFFICES ASSUME NEW n \in 1 .. Len(s), n # i
                 PROVE  \E k \in 1 .. Len(t) : t[k] = s[n]
      OBVIOUS
    <3>1. CASE n < i
      BY <2>5, <2>8, <3>1
    <3>2. CASE n > i
      <4>1. n - 1 \in 1 .. Len(t) /\ t[n - 1] = s[n]
        BY <2>5, <2>8, <3>2
      <4> QED
        BY <4>1
    <3> QED
      BY <2>5, <3>1, <3>2
  <2>11. Once(t)
    BY <2>5, <2>8, <2>9 DEF Once
  <2>12. ToSet(t) = ToSet(s) \ {j}
    <3>1. /\ \A x : x \in ToSet(s) <=> \E n \in 1 .. Len(s) : s[n] = x
          /\ \A x : x \in ToSet(t) <=> \E n \in 1 .. Len(t) : t[n] = x
      BY <2>8, Elements
    <3>2. \A n \in 1 .. Len(s) : s[n] = j <=> n = i
      BY <2>2
    <3>3. \A x \in ToSet(t) : x \in ToSet(s) \ {j}
      BY <2>9, <3>1, <3>2
    <3>4. \A x \in ToSet(s) \ {j} : x \in ToSet(t)
      BY <2>10, <3>1, <3>2
    <3> QED
      BY <3>3, <3>4
  <2> QED
    BY <2>4, <2>8, <2>11, <2>12 DEF t
<1> QED
  BY <1>1, <1>2

-----------------------------------------------------------------------------
(* Steps of one coroutine.                                                 *)

\* A list that has lost some job, or none.
LEMMA Shorter ==
    ASSUME NEW s \in Seq(Job), NEW t, NEW j \in Job, Once(s),
           t = s \/ t = Removed(s, j)
    PROVE  t \in Seq(Job) /\ Once(t) /\ ToSet(t) \subseteq ToSet(s)
<1>1. CASE t = s
  BY <1>1
<1>2. CASE t = Removed(s, j)
  BY <1>2, RemovedOnce
<1> QED
  BY <1>1, <1>2

\* What a worker has read and is about to do.
LEMMA WorkerTyped ==
    ASSUME JInv, NEW w \in Worker
    PROVE  /\ worker[w] \in Coroutine(WorkerPc)
           /\ worker[w] = [pc |-> worker[w].pc, job |-> worker[w].job,
                           copy |-> worker[w].copy]
           /\ worker[w].pc \in WorkerPc
           /\ worker[w].job \in Job \cup {Nothing}
           /\ worker[w].copy \in Record \cup {Nothing}
           /\ worker[w].pc # "idle" => worker[w].job \in Job /\ worker[w].job # Nothing
           /\ worker[w].pc \notin {"idle", "popped", "expired"} => worker[w].copy \in Record
<1>1. worker[w] \in Coroutine(WorkerPc)
  BY DEF JInv, QueueTypeOK
<1>2. /\ worker[w] = [pc |-> worker[w].pc, job |-> worker[w].job,
                      copy |-> worker[w].copy]
      /\ worker[w].pc \in WorkerPc
      /\ worker[w].job \in Job \cup {Nothing}
      /\ worker[w].copy \in Record \cup {Nothing}
  BY <1>1 DEF Coroutine
<1> QED
  BY <1>1, <1>2 DEF JInv, InStep

\* What a client has read and is about to do.
LEMMA ClientTyped ==
    ASSUME JInv, NEW c \in Client
    PROVE  /\ client[c] \in Coroutine(ClientPc)
           /\ client[c] = [pc |-> client[c].pc, job |-> client[c].job,
                           copy |-> client[c].copy]
           /\ client[c].pc \in ClientPc
           /\ client[c].copy \in Record \cup {Nothing}
           /\ client[c].pc # "idle" => client[c].job \in Job
           /\ client[c].pc \in {"cancelling", "removing", "marking"}
              => client[c].copy \in Record
<1>1. client[c] \in Coroutine(ClientPc)
  BY DEF JInv, QueueTypeOK
<1>2. /\ client[c] = [pc |-> client[c].pc, job |-> client[c].job,
                      copy |-> client[c].copy]
      /\ client[c].pc \in ClientPc
      /\ client[c].copy \in Record \cup {Nothing}
  BY <1>1 DEF Coroutine
<1> QED
  BY <1>1, <1>2 DEF JInv, InStep

\* The effect of GoOn.
LEMMA WentOn ==
    ASSUME JInv, NEW w \in Worker, NEW place \in WorkerPc,
           NEW copy \in Record \cup {Nothing}, GoOn(w, place, copy)
    PROVE  /\ worker' \in [Worker -> Coroutine(WorkerPc)]
           /\ worker'[w].pc = place /\ worker'[w].job = worker[w].job
           /\ worker'[w].copy = copy
           /\ \A v \in Worker \ {w} : worker'[v] = worker[v]
           /\ \A v \in Worker : worker'[v].job = worker[v].job
<1> DEFINE r == At(place, worker[w].job, copy)
<1>1. worker \in [Worker -> Coroutine(WorkerPc)]
  BY DEF JInv, QueueTypeOK
<1>2. r \in Coroutine(WorkerPc)
  BY WorkerTyped DEF At, Coroutine
<1>3. worker' = [worker EXCEPT ![w] = r]
  BY <1>1 DEF GoOn
<1>4. r.pc = place /\ r.job = worker[w].job /\ r.copy = copy
  BY DEF At
<1> HIDE DEF r
<1> QED
  BY <1>1, <1>2, <1>3, <1>4

\* A worker that goes on with its job, having removed it from the processing
\* list or not, and before it enters the tail of fail_job having done so.
LEMMA GoingOn ==
    ASSUME JInv, NEW w \in Worker, NEW place \in WorkerPc,
           NEW copy \in Record \cup {Nothing}, GoOn(w, place, copy),
           worker[w].pc # "idle", place # "idle",
           place \notin {"idle", "popped", "expired"} => copy \in Record,
           job' \in [Job -> Record \cup {Nothing}],
           processing' = processing \/ processing' = Removed(processing, worker[w].job),
           place \in {"moving", "queueing"} => worker[w].job \notin ToSet(processing'),
           UNCHANGED <<pending, dlq, unused, client>>
    PROVE  JInv'
<1>1. /\ worker' \in [Worker -> Coroutine(WorkerPc)]
      /\ worker'[w].pc = place /\ worker'[w].copy = copy
      /\ \A v \in Worker \ {w} : worker'[v] = worker[v]
      /\ \A v \in Worker : worker'[v].job = worker[v].job
  BY WentOn
<1>2. worker[w].job \in Job /\ worker[w].job # Nothing
  BY WorkerTyped
<1>3. /\ processing' \in Seq(Job) /\ Once(processing')
      /\ ToSet(processing') \subseteq ToSet(processing)
  BY <1>2, Shorter DEF JInv, QueueTypeOK, InOneListOnce
<1>4. QueueTypeOK'
  BY <1>1, <1>3 DEF JInv, QueueTypeOK
<1>5. InOneListOnce'
  BY <1>3 DEF JInv, InOneListOnce
<1>6. InStep'
  BY <1>1, <1>2 DEF JInv, InStep
<1>7. HandsApart'
  BY <1>1, <1>3 DEF JInv, HandsApart
<1>8. SubmitsApart'
  BY <1>1, <1>3 DEF JInv, SubmitsApart
<1> QED
  BY <1>4, <1>5, <1>6, <1>7, <1>8 DEF JInv

\* The effect of Rest.
LEMMA Rested ==
    ASSUME JInv, NEW w \in Worker, Rest(w)
    PROVE  /\ worker' \in [Worker -> Coroutine(WorkerPc)]
           /\ worker'[w] = Idle /\ worker'[w].pc = "idle" /\ worker'[w].job = Nothing
           /\ \A v \in Worker \ {w} : worker'[v] = worker[v]
<1>1. worker \in [Worker -> Coroutine(WorkerPc)]
  BY DEF JInv, QueueTypeOK
<1>2. Idle \in Coroutine(WorkerPc) /\ Idle.pc = "idle" /\ Idle.job = Nothing
  BY DEF Idle, At, Coroutine, WorkerPc
<1> QED
  BY <1>1, <1>2 DEF Rest

\* A worker that is done with its job without putting it anywhere.
LEMMA ComesToRest ==
    ASSUME JInv, NEW w \in Worker, Rest(w), worker[w].pc # "idle",
           processing' = processing \/ processing' = Removed(processing, worker[w].job),
           UNCHANGED <<job, pending, dlq, unused, client>>
    PROVE  JInv'
<1>1. /\ worker' \in [Worker -> Coroutine(WorkerPc)]
      /\ worker'[w].pc = "idle" /\ worker'[w].job = Nothing
      /\ \A v \in Worker \ {w} : worker'[v] = worker[v]
  BY Rested
<1>2. worker[w].job \in Job
  BY WorkerTyped
<1>3. /\ processing' \in Seq(Job) /\ Once(processing')
      /\ ToSet(processing') \subseteq ToSet(processing)
  BY <1>2, Shorter DEF JInv, QueueTypeOK, InOneListOnce
<1>4. QueueTypeOK'
  BY <1>1, <1>3 DEF JInv, QueueTypeOK
<1>5. InOneListOnce'
  BY <1>3 DEF JInv, InOneListOnce
<1>6. InStep'
  BY <1>1 DEF JInv, InStep
<1>7. HandsApart'
  BY <1>1, <1>3 DEF JInv, HandsApart
<1>8. SubmitsApart'
  <2>1. \A v \in Worker : worker'[v].job = worker[v].job \/ worker'[v].job = Nothing
    BY <1>1
  <2>2. \A c \in Client : client[c].pc = "submitting" => client[c].job # Nothing
    BY ClientTyped, JobAssumption
  <2> QED
    BY <1>3, <2>1, <2>2 DEF JInv, SubmitsApart
<1> QED
  BY <1>4, <1>5, <1>6, <1>7, <1>8 DEF JInv

\* A client that goes on, or ends, with a cancel; or that dies.
LEMMA Cancelling ==
    ASSUME JInv, NEW c \in Client, NEW k \in Coroutine(ClientPc),
           client' = [client EXCEPT ![c] = k],
           k.pc # "submitting",
           k.pc # "idle" => k.job \in Job /\ k.copy \in Record,
           NEW j \in Job,
           pending' = pending \/ pending' = Removed(pending, j),
           processing' = processing \/ processing' = Removed(processing, j),
           job' \in [Job -> Record \cup {Nothing}],
           UNCHANGED <<dlq, unused, worker>>
    PROVE  JInv'
<1>1. /\ client' \in [Client -> Coroutine(ClientPc)]
      /\ client'[c] = k
      /\ \A b \in Client \ {c} : client'[b] = client[b]
  BY DEF JInv, QueueTypeOK
<1>2. /\ processing' \in Seq(Job) /\ Once(processing')
      /\ ToSet(processing') \subseteq ToSet(processing)
      /\ pending' \in Seq(Job) /\ Once(pending')
      /\ ToSet(pending') \subseteq ToSet(pending)
  BY Shorter DEF JInv, QueueTypeOK, InOneListOnce
<1>3. QueueTypeOK'
  BY <1>1, <1>2 DEF JInv, QueueTypeOK
<1>4. InOneListOnce'
  BY <1>2 DEF JInv, InOneListOnce
<1>5. InStep'
  BY <1>1 DEF JInv, InStep
<1>6. HandsApart'
  BY <1>2 DEF JInv, HandsApart
<1>7. SubmitsApart'
  BY <1>1, <1>2 DEF JInv, SubmitsApart
<1> QED
  BY <1>3, <1>4, <1>5, <1>6, <1>7 DEF JInv

-----------------------------------------------------------------------------
(* Steps that put a job into a list.                                       *)

\* BRPOPLPUSH gives the worker a job that is in no other list or hand.
LEMMA PopKeeps ==
    ASSUME JInv, NEW w \in Worker, Pop(w)
    PROVE  JInv'
<1> DEFINE j == Last(pending)
           k == At("popped", j, Nothing)
<1>1. /\ worker[w].pc = "idle" /\ pending' = Front(pending)
      /\ processing' = Push(processing, j)
      /\ worker' = [worker EXCEPT ![w] = k]
      /\ UNCHANGED <<job, dlq, unused, client>>
  BY DEF Pop, WorkerAt
<1>2. /\ j \in Job /\ j \in ToSet(pending)
      /\ pending' \in Seq(Job) /\ Once(pending')
      /\ ToSet(pending') = ToSet(pending) \ {j}
  BY Popped DEF JInv, QueueTypeOK, InOneListOnce, Pop
<1> HIDE DEF j
<1>3. j \notin ToSet(processing) /\ j \notin ToSet(dlq) /\ j \notin unused
  BY <1>2 DEF JInv, InOneListOnce, SubmitsApart
<1>4. /\ processing' \in Seq(Job) /\ Once(processing')
      /\ ToSet(processing') = ToSet(processing) \cup {j}
  BY <1>1, <1>2, <1>3, Pushed DEF JInv, QueueTypeOK, InOneListOnce
<1>5. k \in Coroutine(WorkerPc) /\ k.pc = "popped" /\ k.job = j /\ j # Nothing
  BY <1>2, JobAssumption DEF At, Coroutine, WorkerPc
<1> HIDE DEF k
<1>6. /\ worker' \in [Worker -> Coroutine(WorkerPc)]
      /\ worker'[w] = k /\ \A v \in Worker \ {w} : worker'[v] = worker[v]
  BY <1>1, <1>5 DEF JInv, QueueTypeOK
<1>7. QueueTypeOK'
  BY <1>1, <1>2, <1>4, <1>6 DEF JInv, QueueTypeOK
<1>8. InOneListOnce'
  BY <1>1, <1>2, <1>3, <1>4 DEF JInv, InOneListOnce
<1>9. InStep'
  BY <1>1, <1>5, <1>6 DEF JInv, InStep
<1>10. HandsApart'
  <2>1. \A v \in Worker \ {w} : worker[v].job # j
    BY <1>2, <1>5 DEF JInv, HandsApart
  <2> QED
    BY <1>1, <1>2, <1>3, <1>4, <1>5, <1>6, <2>1 DEF JInv, HandsApart
<1>11. SubmitsApart'
  BY <1>1, <1>2, <1>4, <1>5, <1>6 DEF JInv, SubmitsApart
<1> QED
  BY <1>7, <1>8, <1>9, <1>10, <1>11 DEF JInv

\* fail_job puts its job back into the pending list or the dead letter queue.
LEMMA PuttingBack ==
    ASSUME JInv, NEW w \in Worker, WorkerAt(w, "queueing"), Rest(w),
           \/ pending' = Push(pending, worker[w].job) /\ dlq' = dlq
           \/ pending' = pending /\ dlq' = Push(dlq, worker[w].job),
           UNCHANGED <<job, processing, unused, client>>
    PROVE  JInv'
<1> DEFINE j == worker[w].job
<1>1. /\ worker' \in [Worker -> Coroutine(WorkerPc)]
      /\ worker'[w].pc = "idle" /\ worker'[w].job = Nothing
      /\ \A v \in Worker \ {w} : worker'[v] = worker[v]
  BY Rested
<1>2. j \in Job /\ j # Nothing
  BY WorkerTyped DEF WorkerAt
<1>3. /\ j \notin ToSet(pending) /\ j \notin ToSet(processing) /\ j \notin ToSet(dlq)
      /\ j \notin unused
      /\ \A v \in Worker \ {w} : worker[v].job # j
  BY <1>2 DEF JInv, HandsApart, WorkerAt
<1>4. \A c \in Client : client[c].pc = "submitting" =>
         client[c].job # j /\ client[c].job # Nothing
  BY <1>2, ClientTyped, JobAssumption DEF JInv, SubmitsApart
<1>5. /\ pending' \in Seq(Job) /\ Once(pending')
      /\ dlq' \in Seq(Job) /\ Once(dlq')
      /\ \/ ToSet(pending') = ToSet(pending) \cup {j} /\ ToSet(dlq') = ToSet(dlq)
         \/ ToSet(pending') = ToSet(pending) /\ ToSet(dlq') = ToSet(dlq) \cup {j}
  BY <1>2, <1>3, Pushed DEF JInv, QueueTypeOK, InOneListOnce
<1> HIDE DEF j
<1>6. QueueTypeOK'
  BY <1>1, <1>5 DEF JInv, QueueTypeOK
<1>7. InOneListOnce'
  BY <1>3, <1>5 DEF JInv, InOneListOnce
<1>8. InStep'
  BY <1>1 DEF JInv, InStep
<1>9. HandsApart'
  BY <1>1, <1>3, <1>5 DEF JInv, HandsApart
<1>10. SubmitsApart'
  <2>1. \A v \in Worker : worker'[v].job = worker[v].job \/ worker'[v].job = Nothing
    BY <1>1
  <2> QED
    BY <1>3, <1>4, <1>5, <2>1 DEF JInv, SubmitsApart
<1> QED
  BY <1>6, <1>7, <1>8, <1>9, <1>10 DEF JInv

\* The SET of a submit draws an identifier that is nowhere.
LEMMA SubmitKeeps ==
    ASSUME JInv, NEW c \in Client, Submit(c)
    PROVE  JInv'
<1>1. PICK j \in unused :
         /\ Write(j, [status |-> "pending", attempts |-> 0])
         /\ unused' = unused \ {j}
         /\ client' = [client EXCEPT ![c] = At("submitting", j, Nothing)]
  BY DEF Submit
<1>2. client[c].pc = "idle" /\ UNCHANGED <<pending, processing, dlq, worker>>
  BY DEF Submit
<1>3. j \in Job /\ unused' \in SUBSET Job
  BY <1>1 DEF JInv, QueueTypeOK
<1> DEFINE k == At("submitting", j, Nothing)
<1>4. k \in Coroutine(ClientPc) /\ k.pc = "submitting" /\ k.job = j
  BY <1>3 DEF At, Coroutine, ClientPc
<1>5. client' = [client EXCEPT ![c] = k]
  BY <1>1
<1> HIDE DEF k
<1>6. /\ client' \in [Client -> Coroutine(ClientPc)]
      /\ client'[c] = k /\ \A b \in Client \ {c} : client'[b] = client[b]
  BY <1>4, <1>5 DEF JInv, QueueTypeOK
<1>7. job' \in [Job -> Record \cup {Nothing}]
  <2>1. [status |-> "pending", attempts |-> 0] \in Record
    BY DEF Record, Status
  <2> QED
    BY <1>1, <2>1 DEF JInv, QueueTypeOK, Write
<1>8. QueueTypeOK'
  BY <1>2, <1>3, <1>6, <1>7 DEF JInv, QueueTypeOK
<1>9. InOneListOnce'
  BY <1>2 DEF JInv, InOneListOnce
<1>10. InStep'
  BY <1>2, <1>3, <1>4, <1>6 DEF JInv, InStep
<1>11. HandsApart'
  BY <1>1, <1>2 DEF JInv, HandsApart
<1>12. SubmitsApart'
  <2>1. \A w \in Worker : worker[w].job # j
    BY <1>1, <1>3, JobAssumption DEF JInv, HandsApart
  <2>2. \A b \in Client : client[b].pc = "submitting" => client[b].job # j
    BY <1>1 DEF JInv, SubmitsApart
  <2> QED
    BY <1>1, <1>2, <1>4, <1>6, <2>1, <2>2 DEF JInv, SubmitsApart
<1> QED
  BY <1>8, <1>9, <1>10, <1>11, <1>12 DEF JInv

\* The LPUSH of a submit.
LEMMA SubmitPushKeeps ==
    ASSUME JInv, NEW c \in Client, SubmitPush(c)
    PROVE  JInv'
<1> DEFINE j == client[c].job
<1>1. /\ client[c].pc = "submitting" /\ pending' = Push(pending, j)
      /\ client' = [client EXCEPT ![c] = Idle]
      /\ UNCHANGED <<job, processing, dlq, unused, worker>>
  BY DEF SubmitPush
<1>2. j \in Job
  BY <1>1, ClientTyped
<1>3. /\ j \notin unused
      /\ j \notin ToSet(pending) /\ j \notin ToSet(processing) /\ j \notin ToSet(dlq)
      /\ \A w \in Worker : worker[w].job # j
      /\ \A b \in Client \ {c} : client[b].pc = "submitting" => client[b].job # j
  BY <1>1 DEF JInv, SubmitsApart
<1>4. /\ pending' \in Seq(Job) /\ Once(pending')
      /\ ToSet(pending') = ToSet(pending) \cup {j}
  BY <1>1, <1>2, <1>3, Pushed DEF JInv, QueueTypeOK, InOneListOnce
<1> HIDE DEF j
<1>5. Idle \in Coroutine(ClientPc) /\ Idle.pc = "idle"
  BY DEF Idle, At, Coroutine, ClientPc
<1>6. /\ client' \in [Client -> Coroutine(ClientPc)]
      /\ client'[c] = Idle /\ \A b \in Client \ {c} : client'[b] = client[b]
  BY <1>1, <1>5 DEF JInv, QueueTypeOK
<1>7. QueueTypeOK'
  BY <1>1, <1>4, <1>6 DEF JInv, QueueTypeOK
<1>8. InOneListOnce'
  BY <1>1, <1>3, <1>4 DEF JInv, InOneListOnce
<1>9. InStep'
  BY <1>1, <1>5, <1>6 DEF JInv, InStep
<1>10. HandsApart'
  BY <1>1, <1>3, <1>4 DEF JInv, HandsApart
<1>11. SubmitsApart'
  BY <1>1, <1>3, <1>4, <1>5, <1>6 DEF JInv, SubmitsApart
<1> QED
  BY <1>7, <1>8, <1>9, <1>10, <1>11 DEF JInv

-----------------------------------------------------------------------------
(* Every step keeps the invariant.                                         *)

\* The records the coroutines compute.
LEMMA Records ==
    ASSUME NEW r \in Record
    PROVE  /\ [status |-> "running", attempts |-> r.attempts + 1] \in Record
           /\ \A s \in Status : [r EXCEPT !.status = s] \in Record
           /\ \A retry \in BOOLEAN : Failed(r, retry) \in Record
<1>1. r.attempts + 1 \in Nat /\ "running" \in Status
  BY DEF Record, Status
<1>2. \A s \in Status : [r EXCEPT !.status = s] \in Record
  BY DEF Record
<1>3. "pending" \in Status /\ "dead" \in Status
  BY DEF Status
<1> QED
  BY <1>1, <1>2, <1>3 DEF Record, Failed

\* SET of a record or expiry keeps the type of the job keys.
LEMMA Written ==
    ASSUME JInv, NEW j, NEW r \in Record \cup {Nothing}, Write(j, r)
    PROVE  job' \in [Job -> Record \cup {Nothing}]
BY DEF JInv, QueueTypeOK, Write

LEMMA ClaimKeeps ==
    ASSUME JInv, NEW w \in Worker, Claim(w)
    PROVE  JInv'
<1>1. CASE Pop(w)
  BY <1>1, PopKeeps
<1>2. CASE ReadClaimed(w)
  <2>1. worker[w].pc = "popped" /\ worker[w].job \in Job
    BY <1>2, WorkerTyped DEF ReadClaimed, WorkerAt
  <2>2. job[worker[w].job] \in Record \cup {Nothing}
    BY <2>1 DEF JInv, QueueTypeOK
  <2>3. CASE job[worker[w].job] = Nothing
    <3>1. GoOn(w, "expired", Nothing)
      BY <1>2, <2>3 DEF ReadClaimed
    <3> QED
      BY <1>2, <2>1, <3>1, GoingOn DEF ReadClaimed, WorkerPc, JInv, QueueTypeOK
  <2>4. CASE job[worker[w].job] # Nothing
    <3> DEFINE copy == [status |-> "running", attempts |-> job[worker[w].job].attempts + 1]
    <3>1. GoOn(w, "claiming", copy)
      BY <1>2, <2>4 DEF ReadClaimed
    <3>2. copy \in Record
      BY <2>2, <2>4, Records
    <3> HIDE DEF copy
    <3> QED
      BY <1>2, <2>1, <3>1, <3>2, GoingOn DEF ReadClaimed, WorkerPc, JInv, QueueTypeOK
  <2> QED
    BY <2>3, <2>4
<1>3. CASE DropExpired(w)
  BY <1>3, ComesToRest DEF DropExpired, WorkerAt
<1>4. CASE StartJob(w)
  <2>1. worker[w].pc = "claiming" /\ worker[w].copy \in Record
    BY <1>4, WorkerTyped DEF StartJob, WorkerAt
  <2>2. job' \in [Job -> Record \cup {Nothing}]
    BY <1>4, <2>1, Written DEF StartJob
  <2> QED
    BY <1>4, <2>1, <2>2, GoingOn DEF StartJob, WorkerPc
<1> QED
  BY <1>1, <1>2, <1>3, <1>4 DEF Claim

LEMMA CompleteKeeps ==
    ASSUME JInv, NEW w \in Worker,
           Complete(w) \/ LeaveProcessingUnanswered(w)
    PROVE  JInv'
<1>1. CASE ReadToComplete(w)
  <2>1. worker[w].pc = "running" /\ worker[w].job \in Job
    BY <1>1, WorkerTyped DEF ReadToComplete, WorkerAt
  <2>2. job[worker[w].job] \in Record \cup {Nothing}
    BY <2>1 DEF JInv, QueueTypeOK
  <2>3. CASE job[worker[w].job] = Nothing
    BY <1>1, <2>1, <2>3, ComesToRest DEF ReadToComplete
  <2>4. CASE job[worker[w].job] # Nothing
    <3> DEFINE copy == [job[worker[w].job] EXCEPT !.status = "completed"]
    <3>1. GoOn(w, "completing", copy)
      BY <1>1, <2>4 DEF ReadToComplete
    <3>2. copy \in Record
      BY <2>2, <2>4, Records DEF Status
    <3> HIDE DEF copy
    <3> QED
      BY <1>1, <2>1, <3>1, <3>2, GoingOn DEF ReadToComplete, WorkerPc, JInv, QueueTypeOK
  <2> QED
    BY <2>3, <2>4
<1>2. CASE WriteCompleted(w)
  <2>1. worker[w].pc = "completing" /\ worker[w].copy \in Record
    BY <1>2, WorkerTyped DEF WriteCompleted, WorkerAt
  <2>2. job' \in [Job -> Record \cup {Nothing}]
    BY <1>2, <2>1, Written DEF WriteCompleted
  <2> QED
    BY <1>2, <2>1, <2>2, GoingOn DEF WriteCompleted, WorkerPc
<1>3. CASE LeaveProcessing(w)
  BY <1>3, ComesToRest DEF LeaveProcessing, WorkerAt
<1>4. CASE LeaveProcessingUnanswered(w)
  <2>1. worker[w].pc = "completed" /\ worker[w].copy \in Record
    BY <1>4, WorkerTyped DEF LeaveProcessingUnanswered, WorkerAt
  <2> QED
    BY <1>4, <2>1, GoingOn DEF LeaveProcessingUnanswered, WorkerPc, JInv, QueueTypeOK
<1> QED
  BY <1>1, <1>2, <1>3, <1>4 DEF Complete

LEMMA FailKeeps ==
    ASSUME JInv, NEW w \in Worker, Fail(w) \/ CompletionFails(w)
    PROVE  JInv'
<1>1. ASSUME NEW retry \in BOOLEAN, ReadToFail(w, retry),
             worker[w].pc \in {"running", "completing", "completed", "raised"}
      PROVE  JInv'
  <2>1. worker[w].pc # "idle" /\ worker[w].job \in Job
    BY <1>1, WorkerTyped
  <2>2. job[worker[w].job] \in Record \cup {Nothing}
    BY <2>1 DEF JInv, QueueTypeOK
  <2>3. CASE job[worker[w].job] = Nothing
    BY <1>1, <2>1, <2>3, ComesToRest DEF ReadToFail
  <2>4. CASE job[worker[w].job] # Nothing
    <3> DEFINE copy == Failed(job[worker[w].job], retry)
    <3>1. GoOn(w, "failing", copy)
      BY <1>1, <2>4 DEF ReadToFail
    <3>2. copy \in Record
      BY <2>2, <2>4, Records
    <3> HIDE DEF copy
    <3> QED
      BY <1>1, <2>1, <3>1, <3>2, GoingOn DEF ReadToFail, WorkerPc, JInv, QueueTypeOK
  <2> QED
    BY <2>3, <2>4
<1>2. CASE HandlerFails(w)
  BY <1>1, <1>2 DEF HandlerFails, WorkerAt
<1>3. CASE CompletionFails(w)
  BY <1>1, <1>3 DEF CompletionFails
<1>4. CASE FailRemove(w)
  <2>1. /\ worker[w].pc = "failing" /\ worker[w].copy \in Record
        /\ worker[w].job \in Job
    BY <1>4, WorkerTyped DEF FailRemove, WorkerAt
  <2>2. worker[w].job \notin ToSet(processing')
    BY <1>4, <2>1, RemovedOnce DEF FailRemove, JInv, QueueTypeOK, InOneListOnce
  <2> QED
    BY <1>4, <2>1, <2>2, GoingOn DEF FailRemove, WorkerPc, JInv, QueueTypeOK
<1>5. CASE WriteFailed(w)
  <2>1. /\ worker[w].pc = "moving" /\ worker[w].copy \in Record
        /\ worker[w].job # Nothing
    BY <1>5, WorkerTyped DEF WriteFailed, WorkerAt
  <2>2. job' \in [Job -> Record \cup {Nothing}]
    BY <1>5, <2>1, Written DEF WriteFailed
  <2>3. worker[w].job \notin ToSet(processing')
    BY <1>5, <2>1 DEF WriteFailed, JInv, HandsApart
  <2> QED
    BY <1>5, <2>1, <2>2, <2>3, GoingOn DEF WriteFailed, WorkerPc
<1>6. CASE Requeue(w)
  BY <1>6, PuttingBack DEF Requeue
<1>7. CASE Bury(w)
  BY <1>7, PuttingBack DEF Bury
<1> QED
  BY <1>2, <1>3, <1>4, <1>5, <1>6, <1>7 DEF Fail

LEMMA CancelKeeps ==
    ASSUME JInv, NEW c \in Client, CancelJob(c)
    PROVE  JInv'
<1>1. CASE Cancel(c)
  <2>1. PICK j \in Job :
           /\ job[j] # Nothing
           /\ client' = [client EXCEPT ![c] =
                           At("cancelling", j, [job[j] EXCEPT !.status = "cancelled"])]
    BY <1>1 DEF Cancel
  <2> DEFINE copy == [job[j] EXCEPT !.status = "cancelled"]
             k == At("cancelling", j, copy)
  <2>2. copy \in Record
    BY <2>1, Records DEF JInv, QueueTypeOK, Status
  <2>3. client' = [client EXCEPT ![c] = k]
    BY <2>1
  <2> HIDE DEF copy
  <2>4. /\ k \in Coroutine(ClientPc) /\ k.pc = "cancelling"
        /\ k.job \in Job /\ k.copy \in Record
    BY <2>2 DEF At, Coroutine, ClientPc
  <2> HIDE DEF k
  <2>5. job' \in [Job -> Record \cup {Nothing}]
    BY <1>1 DEF Cancel, JInv, QueueTypeOK
  <2> QED
    BY <1>1, <2>3, <2>4, <2>5, Cancelling DEF Cancel
<1>2. ASSUME client[c].pc \in {"cancelling", "removing"}, NEW place \in {"removing", "marking"},
             client' = [client EXCEPT ![c] = At(place, @.job, @.copy)],
             \/ pending' = pending \/ pending' = Removed(pending, client[c].job),
             \/ processing' = processing \/ processing' = Removed(processing, client[c].job),
             UNCHANGED <<job, dlq, unused, worker>>
      PROVE  JInv'
  <2> DEFINE k == At(place, client[c].job, client[c].copy)
  <2>1. client' = [client EXCEPT ![c] = k]
    BY <1>2 DEF JInv, QueueTypeOK
  <2>2. client[c].job \in Job /\ client[c].copy \in Record
    BY <1>2, ClientTyped
  <2>3. k \in Coroutine(ClientPc) /\ k.pc = place /\ k.job \in Job /\ k.copy \in Record
    BY <1>2, <2>2 DEF At, Coroutine, ClientPc
  <2> HIDE DEF k
  <2>4. job' \in [Job -> Record \cup {Nothing}]
    BY <1>2 DEF JInv, QueueTypeOK
  <2> QED
    BY <1>2, <2>1, <2>2, <2>3, <2>4, Cancelling
<1>3. CASE CancelPending(c)
  BY <1>2, <1>3 DEF CancelPending
<1>4. CASE CancelProcessing(c)
  BY <1>2, <1>4 DEF CancelProcessing
<1>5. CASE WriteCancelled(c)
  <2>1. client[c].job \in Job /\ client[c].copy \in Record
    BY <1>5, ClientTyped DEF WriteCancelled
  <2>2. job' \in [Job -> Record \cup {Nothing}]
    BY <1>5, <2>1, Written DEF WriteCancelled
  <2>3. Idle \in Coroutine(ClientPc) /\ Idle.pc = "idle"
    BY DEF Idle, At, Coroutine, ClientPc
  <2> QED
    BY <1>5, <2>1, <2>2, <2>3, Cancelling DEF WriteCancelled
<1> QED
  BY <1>1, <1>3, <1>4, <1>5 DEF CancelJob

LEMMA CrashKeeps ==
    ASSUME JInv,
           \/ \E w \in Worker : AbortWorker(w)
           \/ \E c \in Client : AbortClient(c)
           \/ \E j \in Job : Expire(j)
    PROVE  JInv'
<1>1. ASSUME NEW w \in Worker, AbortWorker(w)
      PROVE  JInv'
  BY <1>1, ComesToRest DEF AbortWorker, WorkerAt
<1>2. ASSUME NEW c \in Client, AbortClient(c)
      PROVE  JInv'
  <2>1. Idle \in Coroutine(ClientPc) /\ Idle.pc = "idle"
    BY DEF Idle, At, Coroutine, ClientPc
  <2>2. client[c].job \in Job
    BY <1>2, ClientTyped DEF AbortClient
  <2>3. job' \in [Job -> Record \cup {Nothing}]
    BY <1>2 DEF AbortClient, JInv, QueueTypeOK
  <2> QED
    BY <1>2, <2>1, <2>2, <2>3, Cancelling DEF AbortClient
<1>3. ASSUME NEW j \in Job, Expire(j)
      PROVE  JInv'
  <2>1. job' \in [Job -> Record \cup {Nothing}]
    BY <1>3, Written DEF Expire
  <2> QED
    BY <1>3, <2>1 DEF Expire, JInv, QueueTypeOK, InOneListOnce, InStep, HandsApart, SubmitsApart
<1> QED
  BY <1>1, <1>2, <1>3

-----------------------------------------------------------------------------
(* The theorems.                                                           *)

LEMMA JobsInitially ==
    QueueInit => JInv
<1> SUFFICES ASSUME QueueInit
             PROVE  JInv
  OBVIOUS
<1>1. /\ Idle \in Coroutine(WorkerPc) /\ Idle \in Coroutine(ClientPc)
      /\ Idle.pc = "idle" /\ Idle.job = Nothing
  BY DEF Idle, At, Coroutine, WorkerPc, ClientPc
<1>2. << >> \in Seq(Job) /\ Len(<< >>) = 0
  OBVIOUS
<1>3. ToSet(<< >>) = {} /\ Once(<< >>)
  <2>1. \A x : x \in ToSet(<< >>) <=> \E i \in 1 .. Len(<< >>) : << >>[i] = x
    BY <1>2, Elements
  <2>2. 1 .. Len(<< >>) = {}
    BY <1>2
  <2> QED
    BY <2>1, <2>2 DEF Once
<1>4. QueueTypeOK
  BY <1>1, <1>2 DEF QueueInit, QueueTypeOK
<1>5. InOneListOnce
  BY <1>3 DEF QueueInit, InOneListOnce
<1>6. InStep /\ HandsApart /\ SubmitsApart
  BY <1>1, <1>3 DEF QueueInit, InStep, HandsApart, SubmitsApart
<1> QED
  BY <1>4, <1>5, <1>6 DEF JInv

LEMMA JobsInductive ==
    JInv /\ [QueueNext]_queueVars => JInv'
<1> SUFFICES ASSUME JInv, [QueueNext]_queueVars
             PROVE  JInv'
  OBVIOUS
<1>1. ASSUME NEW w \in Worker, Claim(w) \/ Complete(w) \/ Fail(w)
      PROVE  JInv'
  BY <1>1, ClaimKeeps, CompleteKeeps, FailKeeps
<1>2. ASSUME NEW c \in Client, Submit(c) \/ SubmitPush(c) \/ CancelJob(c)
      PROVE  JInv'
  BY <1>2, SubmitKeeps, SubmitPushKeeps, CancelKeeps
<1>3. CASE QueueFault
  BY <1>3, CompleteKeeps, FailKeeps, CrashKeeps DEF QueueFault
<1>4. CASE UNCHANGED queueVars
  BY <1>4 DEF queueVars, JInv, QueueTypeOK, InOneListOnce, InStep, HandsApart, SubmitsApart
<1> QED
  BY <1>1, <1>2, <1>3, <1>4 DEF QueueNext, CalmNext

\* The invariant of the queue holds in every state, for any number of jobs,
\* workers and clients, whatever crashes, expires or is cancelled.
THEOREM JobsInvariance ==
    QueueSpec => []JInv
BY JobsInitially, JobsInductive, PTL DEF QueueSpec

\* Every variable keeps its type.
THEOREM JobTypes ==
    QueueSpec => []QueueTypeOK
<1>1. JInv => QueueTypeOK
  BY DEF JInv
<1> QED
  BY <1>1, JobsInvariance, PTL

\* No job stands twice in the lists of titan.jobs.queue, however many workers
\* fail, die and retry while clients cancel.
THEOREM ListedOnce ==
    QueueSpec => []InOneListOnce
<1>1. JInv => InOneListOnce
  BY DEF JInv
<1> QED
  BY <1>1, JobsInvariance, PTL

-----------------------------------------------------------------------------
(* The queue implements JobPool.                                           *)

Holds == [w \in Worker |-> worker[w].job]
New == unused \cup Submitting

\* A step that moves no worker's job and no waiting or new one is a stutter.
LEMMA Stuttering ==
    ASSUME \A w \in Worker : worker'[w].job = worker[w].job,
           ToSet(pending)' = ToSet(pending), New' = New
    PROVE  UNCHANGED Pool!vars
BY DEF Pool!vars, New

\* Rest ends what the worker holds.
LEMMA RestHolds ==
    ASSUME JInv, NEW w \in Worker, Rest(w), worker[w].pc # "idle"
    PROVE  /\ Holds[w] # Nothing /\ Holds[w] = worker[w].job
           /\ Holds' = [Holds EXCEPT ![w] = Nothing]
<1>1. /\ worker'[w].job = Nothing
      /\ \A v \in Worker \ {w} : worker'[v] = worker[v]
  BY Rested
<1> QED
  BY <1>1, WorkerTyped DEF Holds

\* A worker that is done with its job and puts it nowhere finishes it.
LEMMA RestFinishes ==
    ASSUME JInv, NEW w \in Worker, Rest(w), worker[w].pc # "idle",
           UNCHANGED <<pending, unused, client>>
    PROVE  Pool!Next
<1>1. Pool!Finish(w)
  BY RestHolds DEF Pool!Finish, Holds, Submitting
<1> QED
  BY <1>1 DEF Pool!Next

\* A worker that goes on holds what it held.
LEMMA GoOnStutters ==
    ASSUME JInv, NEW w \in Worker, NEW place \in WorkerPc,
           NEW copy \in Record \cup {Nothing}, GoOn(w, place, copy),
           UNCHANGED <<pending, unused, client>>
    PROVE  UNCHANGED Pool!vars
<1>1. \A v \in Worker : worker'[v].job = worker[v].job
  BY WentOn
<1> QED
  BY <1>1, Stuttering DEF New, Submitting

LEMMA WorkerImplements ==
    ASSUME JInv, NEW w \in Worker, Claim(w) \/ Complete(w) \/ Fail(w)
    PROVE  [Pool!Next]_(Pool!vars)
<1>1. CASE Pop(w)
  <2>1. PICK j \in Job :
           /\ j = Last(pending) /\ j \in ToSet(pending)
           /\ ToSet(Front(pending)) = ToSet(pending) \ {j}
    BY <1>1, Popped DEF JInv, QueueTypeOK, InOneListOnce, Pop
  <2>2. /\ worker[w].pc = "idle" /\ pending' = Front(pending)
        /\ worker' = [worker EXCEPT ![w] = At("popped", j, Nothing)]
        /\ UNCHANGED <<unused, client>>
    BY <1>1, <2>1 DEF Pop, WorkerAt
  <2>3. At("popped", j, Nothing).job = j
    BY DEF At
  <2>4. worker[w].job = Nothing /\ worker'[w].job = j
        /\ \A v \in Worker \ {w} : worker'[v] = worker[v]
    BY <2>2, <2>3 DEF JInv, InStep, QueueTypeOK
  <2>5. Holds[w] = Nothing /\ Holds' = [Holds EXCEPT ![w] = j]
    BY <2>4 DEF Holds
  <2>6. Pool!Take(w, j)
    BY <2>1, <2>2, <2>5 DEF Pool!Take, Holds, Submitting
  <2> QED
    BY <2>6 DEF Pool!Next
<1>2. CASE Requeue(w)
  <2>1. /\ worker[w].pc = "queueing" /\ Rest(w)
        /\ pending' = Push(pending, worker[w].job) /\ UNCHANGED <<unused, client>>
    BY <1>2 DEF Requeue, WorkerAt
  <2>2. ToSet(pending') = ToSet(pending) \cup {worker[w].job}
    BY <2>1, WorkerTyped, Pushed DEF JInv, QueueTypeOK
  <2>3. Pool!Return(w)
    BY <2>1, <2>2, RestHolds DEF Pool!Return, Holds, Submitting
  <2> QED
    BY <2>3 DEF Pool!Next
<1>3. ASSUME \/ DropExpired(w) \/ LeaveProcessing(w) \/ Bury(w)
             \/ ReadToComplete(w) /\ Rest(w)
             \/ HandlerFails(w) /\ Rest(w)
      PROVE  Pool!Next
  BY <1>3, RestFinishes
     DEF DropExpired, LeaveProcessing, Bury, ReadToComplete, HandlerFails,
         ReadToFail, WorkerAt
<1>4. ASSUME \/ ReadClaimed(w) \/ StartJob(w) \/ WriteCompleted(w)
             \/ FailRemove(w) \/ WriteFailed(w)
             \/ ReadToComplete(w) /\ ~ Rest(w)
             \/ HandlerFails(w) /\ ~ Rest(w)
      PROVE  UNCHANGED Pool!vars
  <2>1. worker[w].pc # "idle" /\ UNCHANGED <<pending, unused, client>>
    BY <1>4 DEF ReadClaimed, StartJob, WriteCompleted, FailRemove, WriteFailed,
                ReadToComplete, HandlerFails, ReadToFail, WorkerAt
  <2>2. worker[w].job \in Job /\ job[worker[w].job] \in Record \cup {Nothing}
    BY <2>1, WorkerTyped DEF JInv, QueueTypeOK
  <2>3. \E place \in WorkerPc, copy \in Record \cup {Nothing} : GoOn(w, place, copy)
    <3>1. CASE ReadClaimed(w)
      BY <2>2, <3>1, Records DEF ReadClaimed, WorkerPc
    <3>2. CASE StartJob(w) \/ WriteCompleted(w) \/ FailRemove(w) \/ WriteFailed(w)
      BY <3>2, WorkerTyped DEF StartJob, WriteCompleted, FailRemove, WriteFailed, WorkerPc
    <3>3. CASE ReadToComplete(w) /\ ~ Rest(w)
      BY <2>2, <3>3, Records DEF ReadToComplete, WorkerPc, Status
    <3>4. CASE HandlerFails(w) /\ ~ Rest(w)
      BY <2>2, <3>4, Records DEF HandlerFails, ReadToFail, WorkerPc
    <3> QED
      BY <1>4, <3>1, <3>2, <3>3, <3>4
  <2> QED
    BY <2>1, <2>3, GoOnStutters
<1> QED
  BY <1>1, <1>2, <1>3, <1>4 DEF Claim, Complete, Fail

\* A client's step outside of submit.
LEMMA CancelImplements ==
    ASSUME JInv, NEW c \in Client, CancelJob(c)
    PROVE  [Pool!Next]_(Pool!vars)
<1>1. /\ \A w \in Worker : worker'[w].job = worker[w].job
      /\ unused' = unused
  BY DEF CancelJob, Cancel, CancelPending, CancelProcessing, WriteCancelled
<1>2. Submitting' = Submitting
  <2>1. client[c].pc # "submitting" /\ client'[c].pc # "submitting"
        /\ \A b \in Client \ {c} : client'[b] = client[b]
    <3>1. \A j, copy : At("cancelling", j, copy).pc # "submitting"
          /\ At("removing", j, copy).pc # "submitting"
          /\ At("marking", j, copy).pc # "submitting"
          /\ Idle.pc # "submitting"
      BY DEF At, Idle
    <3>2. CASE Cancel(c)
      BY <3>1, <3>2 DEF Cancel, JInv, QueueTypeOK
    <3>3. CASE CancelPending(c) \/ CancelProcessing(c)
      BY <3>1, <3>3 DEF CancelPending, CancelProcessing, JInv, QueueTypeOK
    <3>4. CASE WriteCancelled(c)
      BY <3>1, <3>4 DEF WriteCancelled, JInv, QueueTypeOK
    <3> QED
      BY <3>2, <3>3, <3>4 DEF CancelJob
  <2> QED
    BY <2>1 DEF Submitting
<1>3. CASE CancelPending(c)
  <2> DEFINE j == client[c].job
  <2>1. j \in Job /\ pending' = Removed(pending, j)
    BY <1>3, ClientTyped DEF CancelPending
  <2>2. ToSet(pending') = ToSet(pending) \ {j}
    BY <2>1, RemovedOnce DEF JInv, QueueTypeOK, InOneListOnce
  <2>3. CASE j \in ToSet(pending)
    <3>1. Pool!Withdraw(j)
      BY <1>1, <1>2, <2>2, <2>3 DEF Pool!Withdraw
    <3> QED
      BY <2>1, <3>1 DEF Pool!Next
  <2>4. CASE j \notin ToSet(pending)
    BY <1>1, <1>2, <2>2, <2>4, Stuttering DEF New
  <2> QED
    BY <2>3, <2>4
<1>4. CASE Cancel(c) \/ CancelProcessing(c) \/ WriteCancelled(c)
  <2>1. pending' = pending
    BY <1>4 DEF Cancel, CancelProcessing, WriteCancelled
  <2> QED
    BY <1>1, <1>2, <2>1, Stuttering DEF New
<1> QED
  BY <1>3, <1>4 DEF CancelJob

\* A submit: the identifier stays new until LPUSH.
LEMMA SubmitImplements ==
    ASSUME JInv, NEW c \in Client, Submit(c) \/ SubmitPush(c)
    PROVE  [Pool!Next]_(Pool!vars)
<1>1. CASE Submit(c)
  <2>1. PICK j \in unused :
           /\ unused' = unused \ {j}
           /\ client' = [client EXCEPT ![c] = At("submitting", j, Nothing)]
    BY <1>1 DEF Submit
  <2>2. client[c].pc # "submitting" /\ UNCHANGED <<pending, worker>>
    BY <1>1 DEF Submit
  <2>3. At("submitting", j, Nothing).pc = "submitting" /\ At("submitting", j, Nothing).job = j
    BY DEF At
  <2>4. /\ client'[c].pc = "submitting" /\ client'[c].job = j
        /\ \A b \in Client \ {c} : client'[b] = client[b]
    BY <2>1, <2>3 DEF JInv, QueueTypeOK
  <2>5. Submitting' = Submitting \cup {j}
    BY <2>2, <2>4 DEF Submitting
  <2>6. New' = New
    BY <2>1, <2>5 DEF New
  <2> QED
    BY <2>2, <2>6, Stuttering
<1>2. CASE SubmitPush(c)
  <2> DEFINE j == client[c].job
  <2>1. /\ client[c].pc = "submitting" /\ j \in Job
        /\ pending' = Push(pending, j) /\ UNCHANGED <<unused, worker>>
        /\ client' = [client EXCEPT ![c] = Idle]
    BY <1>2, ClientTyped DEF SubmitPush
  <2>2. ToSet(pending') = ToSet(pending) \cup {j}
    BY <2>1, Pushed DEF JInv, QueueTypeOK
  <2>3. Idle.pc # "submitting"
    BY DEF Idle, At
  <2>4. /\ client'[c].pc # "submitting"
        /\ \A b \in Client \ {c} : client'[b] = client[b]
    BY <2>1, <2>3 DEF JInv, QueueTypeOK
  <2>5. Submitting' = Submitting \ {j} /\ j \in Submitting /\ j \notin unused
    BY <2>1, <2>4 DEF Submitting, JInv, SubmitsApart
  <2>6. Pool!Submit(j)
    BY <2>1, <2>2, <2>5 DEF Pool!Submit
  <2> QED
    BY <2>1, <2>6 DEF Pool!Next
<1> QED
  BY <1>1, <1>2

LEMMA FaultImplements ==
    ASSUME JInv, QueueFault
    PROVE  [Pool!Next]_(Pool!vars)
<1>1. ASSUME NEW w \in Worker, LeaveProcessingUnanswered(w)
      PROVE  UNCHANGED Pool!vars
  <2>1. "raised" \in WorkerPc
    BY DEF WorkerPc
  <2> QED
    BY <1>1, <2>1, WorkerTyped, GoOnStutters DEF LeaveProcessingUnanswered
<1>2. ASSUME NEW w \in Worker, CompletionFails(w)
      PROVE  [Pool!Next]_(Pool!vars)
  <2>1. worker[w].pc # "idle" /\ ReadToFail(w, TRUE)
    BY <1>2 DEF CompletionFails
  <2>2. worker[w].job \in Job /\ job[worker[w].job] \in Record \cup {Nothing}
    BY <2>1, WorkerTyped DEF JInv, QueueTypeOK
  <2>3. CASE job[worker[w].job] = Nothing
    BY <2>1, <2>3, RestFinishes DEF ReadToFail
  <2>4. CASE job[worker[w].job] # Nothing
    <3>1. GoOn(w, "failing", Failed(job[worker[w].job], TRUE))
      BY <2>1, <2>4 DEF ReadToFail
    <3>2. Failed(job[worker[w].job], TRUE) \in Record /\ "failing" \in WorkerPc
      BY <2>2, <2>4, Records DEF WorkerPc
    <3> QED
      BY <2>1, <3>1, <3>2, GoOnStutters DEF ReadToFail
  <2> QED
    BY <2>3, <2>4
<1>3. ASSUME NEW w \in Worker, AbortWorker(w)
      PROVE  Pool!Next
  BY <1>3, RestFinishes DEF AbortWorker, WorkerAt
<1>4. ASSUME NEW c \in Client, AbortClient(c)
      PROVE  [Pool!Next]_(Pool!vars)
  <2> DEFINE j == client[c].job
  <2>1. /\ j \in Job /\ UNCHANGED <<pending, unused, worker>>
        /\ client' = [client EXCEPT ![c] = Idle]
    BY <1>4, ClientTyped DEF AbortClient
  <2>2. Idle.pc # "submitting"
    BY DEF Idle, At
  <2>3. /\ client'[c].pc # "submitting"
        /\ \A b \in Client \ {c} : client'[b] = client[b]
    BY <2>1, <2>2 DEF JInv, QueueTypeOK
  <2>4. CASE client[c].pc = "submitting"
    <3>1. Submitting' = Submitting \ {j} /\ j \in Submitting /\ j \notin unused
      BY <2>3, <2>4 DEF Submitting, JInv, SubmitsApart
    <3>2. Pool!Lose(j)
      BY <2>1, <3>1 DEF Pool!Lose
    <3> QED
      BY <2>1, <3>2 DEF Pool!Next
  <2>5. CASE client[c].pc # "submitting"
    <3>1. Submitting' = Submitting
      BY <2>3, <2>5 DEF Submitting
    <3> QED
      BY <2>1, <3>1, Stuttering DEF New
  <2> QED
    BY <2>4, <2>5
<1>5. ASSUME NEW j \in Job, Expire(j)
      PROVE  UNCHANGED Pool!vars
  BY <1>5, Stuttering DEF Expire, New, Submitting
<1> QED
  BY <1>1, <1>2, <1>3, <1>4, <1>5 DEF QueueFault

\* titan.jobs.queue implements JobPool: whatever crashes, expires, is retried
\* or cancelled, a worker gets a job only from the pending list, and no job is
\* in the hands of two workers.
THEOREM Refinement ==
    QueueSpec => ImplementsPool
<1>1. QueueInit => Pool!Init
  <2> SUFFICES ASSUME QueueInit
               PROVE  Pool!Init
    OBVIOUS
  <2>1. Idle.pc # "submitting" /\ Idle.job = Nothing
    BY DEF Idle, At
  <2>2. Submitting = {}
    BY <2>1 DEF QueueInit, Submitting
  <2>3. << >> \in Seq(Job) /\ 1 .. Len(<< >>) = {}
    OBVIOUS
  <2>4. ToSet(<< >>) = {}
    BY <2>3, Elements
  <2> QED
    BY <2>1, <2>2, <2>4 DEF QueueInit, Pool!Init
<1>2. JInv /\ [QueueNext]_queueVars => [Pool!Next]_(Pool!vars)
  <2> SUFFICES ASSUME JInv, [QueueNext]_queueVars
               PROVE  [Pool!Next]_(Pool!vars)
    OBVIOUS
  <2>1. CASE UNCHANGED queueVars
    BY <2>1, Stuttering DEF queueVars, New, Submitting
  <2> QED
    BY <2>1, WorkerImplements, SubmitImplements, CancelImplements, FaultImplements
       DEF QueueNext, CalmNext
<1> QED
  BY <1>1, <1>2, JobsInvariance, PTL DEF QueueSpec, ImplementsPool, Pool!Spec

-----------------------------------------------------------------------------
(* Without faults and cancels.                                             *)

\* How the record of a worker's job stands at each of the worker's steps.
InTime(w) ==
    LET r == job[worker[w].job]
        copy == worker[w].copy
        place == worker[w].pc
    IN /\ place \notin {"expired", "raised"}
       /\ place # "idle" => r # Nothing
       /\ place \in {"popped", "claiming"} => r.status = "pending"
       /\ place \in {"running", "completing", "failing", "moving"} => r.status = "running"
       /\ place = "claiming" => copy.status = "running"
       /\ place = "completing" => copy.status = "completed"
       /\ place \in {"failing", "moving", "queueing"} => copy.status \in {"pending", "dead"}
       /\ place = "completed" => r.status = "completed"
       /\ place = "queueing" => r.status = copy.status

\* Fresh identifiers have no record; the jobs that wait are pending.
Waiting ==
    /\ \A j \in unused : job[j] = Nothing
    /\ \A j \in ToSet(pending) : job[j] # Nothing /\ job[j].status = "pending"
    /\ \A c \in Client :
          /\ client[c].pc \in {"idle", "submitting"}
          /\ client[c].pc = "idle" => client[c].job = Nothing
          /\ client[c].pc = "submitting" =>
                job[client[c].job] # Nothing /\ job[client[c].job].status = "pending"

CalmInv ==
    /\ JInv /\ Waiting
    /\ \A w \in Worker : InTime(w)
    /\ \A j \in Job : job[j] # Nothing /\ job[j].status \notin Final
                        => j \in ToSet(pending) \/ InHand(j)

LEMMA CalmInitially == QueueInit => CalmInv
<1> SUFFICES ASSUME QueueInit PROVE CalmInv
  OBVIOUS
<1>1. JInv
  BY JobsInitially
<1>2. /\ \A j \in Job : job[j] = Nothing
      /\ ToSet(pending) = {}
      /\ \A c \in Client : client[c].pc = "idle" /\ client[c].job = Nothing
      /\ \A w \in Worker : worker[w].pc = "idle"
  BY DEF QueueInit, Idle, At, ToSet
<1>3. Waiting
  BY <1>1, <1>2 DEF Waiting, JInv, QueueTypeOK
<1>4. \A w \in Worker : InTime(w)
  BY <1>2 DEF InTime
<1> QED
  BY <1>1, <1>2, <1>3, <1>4 DEF CalmInv

\* CalmInv says what NothingLost does, and that finished jobs are not pending.
LEMMA CalmFinds == CalmInv => NothingLost
BY DEF CalmInv, Waiting, NothingLost, Final

\* A step of worker w with job k, which is nobody else's.
LEMMA WorkerCalm ==
    ASSUME CalmInv, JInv', NEW w \in Worker, NEW k \in Job,
           worker[w].job \in {k, Nothing}, worker'[w].job \in {k, Nothing},
           k \in ToSet(pending) \/ worker[w].job = k,
           \A v \in Worker \ {w} : worker'[v] = worker[v],
           \A j \in Job \ {k} : job'[j] = job[j],
           \A j \in Job \ {k} : j \in ToSet(pending') <=> j \in ToSet(pending),
           UNCHANGED <<unused, client>>,
           job'[k] # Nothing,
           k \in ToSet(pending') => job'[k].status = "pending",
           job'[k].status \notin Final => k \in ToSet(pending') \/ worker'[w].job = k,
           InTime(w)'
    PROVE  CalmInv'
<1>0. k # Nothing /\ JInv
  BY JobAssumption DEF CalmInv
<1>1. k \notin unused /\ \A v \in Worker \ {w} : worker[v].job # k
  <2>1. CASE k \in ToSet(pending)
    BY <1>0, <2>1 DEF JInv, HandsApart, SubmitsApart
  <2>2. CASE worker[w].job = k
    BY <1>0, <2>2 DEF JInv, HandsApart
  <2> QED
    BY <2>1, <2>2
<1>2. ASSUME NEW c \in Client, client[c].pc = "submitting"
      PROVE  client[c].job \in Job \ {k}
  <2>1. client[c].job \in Job /\ client[c].job \notin ToSet(pending) /\ worker[w].job # client[c].job
    BY <1>0, <1>2, ClientTyped DEF JInv, SubmitsApart
  <2> QED
    BY <2>1
<1>3. ToSet(pending') \subseteq Job
  BY Elements DEF JInv, QueueTypeOK
<1>4. Waiting'
  <2>1. \A j \in unused' : job'[j] = Nothing
    BY <1>1 DEF CalmInv, Waiting, JInv, QueueTypeOK
  <2>2. \A j \in ToSet(pending') : job'[j] # Nothing /\ job'[j].status = "pending"
    BY <1>3 DEF CalmInv, Waiting
  <2>3. \A c \in Client :
          /\ client'[c].pc \in {"idle", "submitting"}
          /\ client'[c].pc = "idle" => client'[c].job = Nothing
          /\ client'[c].pc = "submitting" =>
                job'[client'[c].job] # Nothing /\ job'[client'[c].job].status = "pending"
    BY <1>2 DEF CalmInv, Waiting
  <2> QED
    BY <2>1, <2>2, <2>3 DEF Waiting
<1>5. ASSUME NEW v \in Worker
      PROVE  InTime(v)'
  <2>1. CASE v = w
    BY <2>1
  <2>2. CASE v # w
    <3>1. worker'[v] = worker[v] /\ InTime(v)
      BY <2>2 DEF CalmInv
    <3>2. worker[v].pc # "idle" => job'[worker[v].job] = job[worker[v].job]
      BY <1>1, <2>2, WorkerTyped DEF CalmInv
    <3>3. worker[v].pc = "idle" => InTime(v)'
      BY <3>1 DEF InTime
    <3>4. worker[v].pc # "idle" => InTime(v)'
      BY <3>1, <3>2 DEF InTime
    <3> QED
      BY <3>3, <3>4
  <2> QED
    BY <2>1, <2>2
<1>6. ASSUME NEW j \in Job, job'[j] # Nothing, job'[j].status \notin Final
      PROVE  j \in ToSet(pending') \/ InHand(j)'
  <2>1. CASE j = k
    BY <1>6, <2>1 DEF InHand
  <2>2. CASE j # k
    <3>1. j \in ToSet(pending) \/ InHand(j)
      BY <1>6, <2>2 DEF CalmInv
    <3>2. j # Nothing
      BY JobAssumption
    <3>3. InHand(j) => InHand(j)'
      BY <2>2, <3>2 DEF InHand
    <3> QED
      BY <2>2, <3>1, <3>3
  <2> QED
    BY <2>1, <2>2
<1> QED
  BY <1>4, <1>5, <1>6 DEF CalmInv

\* The records of jobs.
LEMMA RecordOf ==
    ASSUME JInv, NEW j \in Job, job[j] # Nothing
    PROVE  job[j] \in Record /\ job[j].status \in Status /\ job[j].attempts \in Nat
BY DEF JInv, QueueTypeOK, Record

\* A worker goes on with a job that is neither written nor put anywhere.
LEMMA GoesOnCalm ==
    ASSUME CalmInv, JInv', NEW w \in Worker, NEW place \in WorkerPc,
           NEW copy \in Record \cup {Nothing}, GoOn(w, place, copy), worker[w].pc # "idle",
           UNCHANGED <<job, pending, unused, client>>, InTime(w)'
    PROVE  CalmInv'
<1> DEFINE k == worker[w].job
<1>1. JInv /\ k \in Job /\ job[k] # Nothing
  BY WorkerTyped DEF CalmInv, InTime
<1>2. worker'[w].job = k /\ \A v \in Worker \ {w} : worker'[v] = worker[v]
  BY <1>1, WentOn
<1>3. k \in ToSet(pending') => job'[k].status = "pending"
  BY DEF CalmInv, Waiting
<1> HIDE DEF k
<1> QED
  BY <1>1, <1>2, <1>3, WorkerCalm DEF k

\* A worker writes its copy of the record.
LEMMA WritesCalm ==
    ASSUME CalmInv, JInv', NEW w \in Worker, NEW place \in WorkerPc, place # "idle",
           GoOn(w, place, worker[w].copy), worker[w].pc \in {"claiming", "completing", "moving"},
           Write(worker[w].job, worker[w].copy),
           UNCHANGED <<pending, unused, client>>,
           LET status == worker[w].copy.status
           IN \/ place = "running" /\ status = "running"
              \/ place = "completed" /\ status = "completed"
              \/ place = "queueing" /\ status \in {"pending", "dead"}
    PROVE  CalmInv'
<1> DEFINE k == worker[w].job
           copy == worker[w].copy
<1>1. JInv /\ k \in Job /\ copy \in Record /\ copy # Nothing
  BY WorkerTyped, JobAssumption DEF CalmInv
<1>2. /\ worker'[w].pc = place /\ worker'[w].job = k /\ worker'[w].copy = copy
      /\ \A v \in Worker \ {w} : worker'[v] = worker[v]
  BY <1>1, WentOn
<1>3. job'[k] = copy /\ \A j \in Job \ {k} : job'[j] = job[j]
  BY <1>1 DEF Write, JInv, QueueTypeOK
<1>4. k \notin ToSet(pending)
  BY <1>1, JobAssumption DEF JInv, HandsApart
<1>5. InTime(w)'
  BY <1>1, <1>2, <1>3 DEF InTime
<1> HIDE DEF k, copy
<1> QED
  BY <1>1, <1>2, <1>3, <1>4, <1>5, WorkerCalm DEF k

LEMMA ClaimCalm ==
    ASSUME CalmInv, JInv', NEW w \in Worker, Claim(w)
    PROVE  CalmInv'
<1> DEFINE k == worker[w].job
<1>0. JInv /\ InTime(w)
  BY DEF CalmInv
<1>1. CASE Pop(w)
  <2> DEFINE j == Last(pending)
  <2>1. /\ worker[w].pc = "idle" /\ pending # <<>> /\ pending' = Front(pending)
        /\ worker' = [worker EXCEPT ![w] = At("popped", j, Nothing)]
        /\ UNCHANGED <<job, unused, client>>
    BY <1>1 DEF Pop, WorkerAt
  <2>2. worker[w].job = Nothing
    BY <1>0, <2>1 DEF JInv, InStep
  <2>3. j \in Job /\ j \in ToSet(pending) /\ ToSet(pending') = ToSet(pending) \ {j}
    BY <1>0, <2>1, Popped DEF JInv, QueueTypeOK, InOneListOnce
  <2>4. job[j] # Nothing /\ job[j].status = "pending"
    BY <2>3 DEF CalmInv, Waiting
  <2>5. /\ worker'[w].pc = "popped" /\ worker'[w].job = j
        /\ \A v \in Worker \ {w} : worker'[v] = worker[v]
    BY <1>0, <2>1 DEF At, JInv, QueueTypeOK
  <2>6. InTime(w)'
    BY <2>1, <2>4, <2>5 DEF InTime
  <2> HIDE DEF j
  <2> QED
    BY <2>1, <2>2, <2>3, <2>4, <2>5, <2>6, WorkerCalm
<1>2. CASE ReadClaimed(w)
  <2> DEFINE copy == [status |-> "running", attempts |-> job[k].attempts + 1]
  <2>1. k \in Job /\ job[k] # Nothing /\ job[k].status = "pending" /\ worker[w].pc = "popped"
    BY <1>0, <1>2, WorkerTyped DEF InTime, ReadClaimed, WorkerAt
  <2>2. GoOn(w, "claiming", copy) /\ UNCHANGED <<job, pending, unused, client>>
    BY <1>2, <2>1 DEF ReadClaimed
  <2>3. copy \in Record /\ copy.status = "running"
    BY <1>0, <2>1, RecordOf DEF Record, Status
  <2> HIDE DEF copy
  <2>4. "claiming" \in WorkerPc
    BY DEF WorkerPc
  <2>5. worker'[w].pc = "claiming" /\ worker'[w].job = k /\ worker'[w].copy = copy
    BY <1>0, <2>2, <2>3, <2>4, WentOn
  <2>6. InTime(w)'
    BY <2>1, <2>2, <2>3, <2>5 DEF InTime
  <2> QED
    BY <2>1, <2>2, <2>3, <2>4, <2>6, GoesOnCalm
<1>3. CASE DropExpired(w)
  BY <1>0, <1>3 DEF DropExpired, WorkerAt, InTime
<1>4. CASE StartJob(w)
  BY <1>0, <1>4, WritesCalm DEF StartJob, WorkerAt, InTime, WorkerPc
<1> QED
  BY <1>1, <1>2, <1>3, <1>4 DEF Claim

LEMMA CompleteCalm ==
    ASSUME CalmInv, JInv', NEW w \in Worker, Complete(w)
    PROVE  CalmInv'
<1> DEFINE k == worker[w].job
<1>0. JInv /\ InTime(w)
  BY DEF CalmInv
<1>1. CASE ReadToComplete(w)
  <2> DEFINE copy == [job[k] EXCEPT !.status = "completed"]
  <2>1. k \in Job /\ job[k] # Nothing /\ job[k].status = "running" /\ worker[w].pc = "running"
    BY <1>0, <1>1, WorkerTyped DEF InTime, ReadToComplete, WorkerAt
  <2>2. GoOn(w, "completing", copy) /\ UNCHANGED <<job, pending, unused, client>>
    BY <1>1, <2>1 DEF ReadToComplete
  <2>3. copy \in Record /\ copy.status = "completed"
    BY <1>0, <2>1, RecordOf DEF Record, Status
  <2> HIDE DEF copy
  <2>4. "completing" \in WorkerPc
    BY DEF WorkerPc
  <2>5. worker'[w].pc = "completing" /\ worker'[w].job = k /\ worker'[w].copy = copy
    BY <1>0, <2>2, <2>3, <2>4, WentOn
  <2>6. InTime(w)'
    BY <2>1, <2>2, <2>3, <2>5 DEF InTime
  <2> QED
    BY <2>1, <2>2, <2>3, <2>4, <2>6, GoesOnCalm
<1>2. CASE WriteCompleted(w)
  BY <1>0, <1>2, WritesCalm DEF WriteCompleted, WorkerAt, InTime, WorkerPc
<1>3. CASE LeaveProcessing(w)
  <2>1. k \in Job /\ job[k] # Nothing /\ job[k].status = "completed"
    BY <1>0, <1>3, WorkerTyped DEF InTime, LeaveProcessing, WorkerAt
  <2>2. /\ worker'[w].pc = "idle" /\ worker'[w].job = Nothing
        /\ \A v \in Worker \ {w} : worker'[v] = worker[v]
        /\ UNCHANGED <<job, pending, unused, client>>
    BY <1>0, <1>3, Rested DEF LeaveProcessing
  <2>3. InTime(w)'
    BY <2>2 DEF InTime
  <2>4. k \notin ToSet(pending)
    BY <1>0, <2>1, JobAssumption DEF JInv, HandsApart
  <2> HIDE DEF k
  <2> QED
    BY <2>1, <2>2, <2>3, <2>4, WorkerCalm DEF k, Final
<1> QED
  BY <1>1, <1>2, <1>3 DEF Complete

LEMMA FailCalm ==
    ASSUME CalmInv, JInv', NEW w \in Worker, Fail(w)
    PROVE  CalmInv'
<1> DEFINE k == worker[w].job
<1>0. JInv /\ InTime(w)
  BY DEF CalmInv
<1>1. CASE HandlerFails(w)
  <2>1. k \in Job /\ job[k] # Nothing /\ job[k].status = "running" /\ worker[w].pc = "running"
    BY <1>0, <1>1, WorkerTyped DEF InTime, HandlerFails, WorkerAt
  <2>2. PICK retry \in BOOLEAN : ReadToFail(w, retry)
    BY <1>1 DEF HandlerFails
  <2> DEFINE copy == Failed(job[k], retry)
  <2>3. GoOn(w, "failing", copy) /\ UNCHANGED <<job, pending, unused, client>>
    BY <2>1, <2>2 DEF ReadToFail
  <2>4. copy \in Record /\ copy.status \in {"pending", "dead"}
    BY <1>0, <2>1, RecordOf DEF Failed, Record, Status
  <2> HIDE DEF copy
  <2>5. "failing" \in WorkerPc
    BY DEF WorkerPc
  <2>6. worker'[w].pc = "failing" /\ worker'[w].job = k /\ worker'[w].copy = copy
    BY <1>0, <2>3, <2>4, <2>5, WentOn
  <2>7. InTime(w)'
    BY <2>1, <2>3, <2>4, <2>6 DEF InTime
  <2> QED
    BY <2>1, <2>3, <2>4, <2>5, <2>7, GoesOnCalm
<1>2. CASE FailRemove(w)
  <2>1. k \in Job /\ job[k] # Nothing /\ job[k].status = "running" /\ worker[w].pc = "failing"
        /\ worker[w].copy \in Record /\ worker[w].copy.status \in {"pending", "dead"}
    BY <1>0, <1>2, WorkerTyped DEF InTime, FailRemove, WorkerAt
  <2>2. GoOn(w, "moving", worker[w].copy) /\ UNCHANGED <<job, pending, unused, client>>
    BY <1>2 DEF FailRemove
  <2>3. "moving" \in WorkerPc
    BY DEF WorkerPc
  <2>4. worker'[w].pc = "moving" /\ worker'[w].job = k /\ worker'[w].copy = worker[w].copy
    BY <1>0, <2>1, <2>2, <2>3, WentOn
  <2>5. InTime(w)'
    BY <2>1, <2>2, <2>4 DEF InTime
  <2> QED
    BY <2>1, <2>2, <2>3, <2>5, GoesOnCalm
<1>3. CASE WriteFailed(w)
  BY <1>0, <1>3, WritesCalm DEF WriteFailed, WorkerAt, InTime, WorkerPc
<1>4. CASE Requeue(w) \/ Bury(w)
  <2>1. /\ k \in Job /\ job[k] # Nothing /\ job[k].status = worker[w].copy.status
        /\ worker[w].pc = "queueing"
    BY <1>0, <1>4, WorkerTyped DEF InTime, Requeue, Bury, WorkerAt
  <2>2. /\ worker'[w].pc = "idle" /\ worker'[w].job = Nothing
        /\ \A v \in Worker \ {w} : worker'[v] = worker[v]
        /\ UNCHANGED <<job, unused, client>>
    BY <1>0, <1>4, Rested DEF Requeue, Bury
  <2>3. InTime(w)'
    BY <2>2 DEF InTime
  <2>4. CASE Requeue(w)
    <3>1. job[k].status = "pending" /\ ToSet(pending') = ToSet(pending) \cup {k}
      BY <1>0, <2>1, <2>4, Pushed DEF Requeue, JInv, QueueTypeOK
    <3> HIDE DEF k
    <3> QED
      BY <2>1, <2>2, <2>3, <3>1, WorkerCalm DEF k
  <2>5. CASE Bury(w)
    <3>1. job[k].status = "dead" /\ pending' = pending
      BY <2>1, <2>5 DEF Bury
    <3>2. k \notin ToSet(pending)
      BY <1>0, <2>1, JobAssumption DEF JInv, HandsApart
    <3> HIDE DEF k
    <3> QED
      BY <2>1, <2>2, <2>3, <3>1, <3>2, WorkerCalm DEF k, Final
  <2> QED
    BY <1>4, <2>4, <2>5
<1> QED
  BY <1>1, <1>2, <1>3, <1>4 DEF Fail

LEMMA SubmitCalm ==
    ASSUME CalmInv, JInv', NEW c \in Client, Submit(c)
    PROVE  CalmInv'
<1>0. JInv
  BY DEF CalmInv
<1>1. PICK j \in unused :
         /\ Write(j, [status |-> "pending", attempts |-> 0])
         /\ unused' = unused \ {j}
         /\ client' = [client EXCEPT ![c] = At("submitting", j, Nothing)]
  BY DEF Submit
<1>2. /\ client[c].pc = "idle" /\ UNCHANGED <<pending, worker>> /\ j \in Job
  BY <1>0 DEF Submit, JInv, QueueTypeOK
<1>3. /\ job'[j] = [status |-> "pending", attempts |-> 0]
      /\ \A i \in Job \ {j} : job'[i] = job[i]
  BY <1>0, <1>1, <1>2 DEF Write, JInv, QueueTypeOK
<1>4. job'[j] # Nothing /\ job'[j].status = "pending"
  BY <1>3, JobAssumption DEF Record, Status
<1>5. /\ client'[c].pc = "submitting" /\ client'[c].job = j
      /\ \A b \in Client \ {c} : client'[b] = client[b]
  BY <1>0, <1>1 DEF At, JInv, QueueTypeOK
<1>6. /\ j \notin ToSet(pending) /\ ToSet(pending) \subseteq Job
      /\ \A w \in Worker : worker[w].pc # "idle" => worker[w].job \in Job \ {j}
      /\ \A b \in Client : client[b].pc = "submitting" => client[b].job \in Job \ {j}
  BY <1>0, <1>1, WorkerTyped, ClientTyped, Elements, JobAssumption
     DEF JInv, QueueTypeOK, HandsApart, SubmitsApart
<1>7. Waiting'
  <2>1. \A i \in unused' : job'[i] = Nothing
    BY <1>0, <1>1, <1>3 DEF CalmInv, Waiting, JInv, QueueTypeOK
  <2>2. \A i \in ToSet(pending') : job'[i] # Nothing /\ job'[i].status = "pending"
    BY <1>2, <1>3, <1>6 DEF CalmInv, Waiting
  <2>3. ASSUME NEW b \in Client
        PROVE  /\ client'[b].pc \in {"idle", "submitting"}
               /\ client'[b].pc = "idle" => client'[b].job = Nothing
               /\ client'[b].pc = "submitting" =>
                     job'[client'[b].job] # Nothing /\ job'[client'[b].job].status = "pending"
    BY <1>3, <1>4, <1>5, <1>6 DEF CalmInv, Waiting
  <2> QED
    BY <2>1, <2>2, <2>3 DEF Waiting
<1>8. ASSUME NEW w \in Worker
      PROVE  InTime(w)'
  <2>1. CASE worker[w].pc = "idle"
    BY <1>2, <2>1 DEF InTime
  <2>2. CASE worker[w].pc # "idle"
    <3>1. job'[worker[w].job] = job[worker[w].job] /\ InTime(w)
      BY <1>3, <1>6, <2>2 DEF CalmInv
    <3> QED
      BY <1>2, <3>1 DEF InTime
  <2> QED
    BY <2>1, <2>2
<1>9. ASSUME NEW i \in Job, job'[i] # Nothing, job'[i].status \notin Final
      PROVE  i \in ToSet(pending') \/ InHand(i)'
  <2>1. CASE i = j
    BY <1>5, <2>1 DEF InHand
  <2>2. CASE i # j
    <3>1. i \in ToSet(pending) \/ InHand(i)
      BY <1>3, <1>9, <2>2 DEF CalmInv
    <3>2. client[c].job # i
      BY <1>2, JobAssumption DEF CalmInv, Waiting
    <3> QED
      BY <1>2, <1>5, <3>1, <3>2 DEF InHand
  <2> QED
    BY <2>1, <2>2
<1> QED
  BY <1>7, <1>8, <1>9 DEF CalmInv

LEMMA SubmitPushCalm ==
    ASSUME CalmInv, JInv', NEW c \in Client, SubmitPush(c)
    PROVE  CalmInv'
<1> DEFINE k == client[c].job
<1>0. JInv
  BY DEF CalmInv
<1>1. /\ client[c].pc = "submitting" /\ pending' = Push(pending, k)
      /\ client' = [client EXCEPT ![c] = Idle]
      /\ UNCHANGED <<job, unused, worker>>
  BY DEF SubmitPush
<1>2. k \in Job /\ job[k] # Nothing /\ job[k].status = "pending"
  BY <1>0, <1>1, ClientTyped DEF CalmInv, Waiting
<1>3. ToSet(pending') = ToSet(pending) \cup {k}
  BY <1>0, <1>1, <1>2, Pushed DEF JInv, QueueTypeOK
<1>4. /\ client'[c].pc = "idle" /\ client'[c].job = Nothing
      /\ \A b \in Client \ {c} : client'[b] = client[b]
  BY <1>0, <1>1 DEF Idle, At, JInv, QueueTypeOK
<1> HIDE DEF k
<1>5. Waiting'
  BY <1>1, <1>2, <1>3, <1>4 DEF CalmInv, Waiting
<1>6. \A w \in Worker : InTime(w)'
  BY <1>1 DEF CalmInv, InTime
<1>7. ASSUME NEW i \in Job, job'[i] # Nothing, job'[i].status \notin Final
      PROVE  i \in ToSet(pending') \/ InHand(i)'
  <2>1. CASE i = k
    BY <1>3, <2>1
  <2>2. CASE i # k
    <3>1. i \in ToSet(pending) \/ InHand(i)
      BY <1>1, <1>7 DEF CalmInv
    <3>2. client[c].job # i
      BY <2>2 DEF k
    <3> QED
      BY <1>1, <1>3, <1>4, <3>1, <3>2 DEF InHand
  <2> QED
    BY <2>1, <2>2
<1> QED
  BY <1>5, <1>6, <1>7 DEF CalmInv

LEMMA CalmStep == CalmInv /\ [CalmNext]_queueVars => CalmInv'
<1> SUFFICES ASSUME CalmInv, [CalmNext]_queueVars
             PROVE  CalmInv'
  OBVIOUS
<1>1. JInv'
  BY JobsInductive DEF CalmInv, QueueNext
<1>2. ASSUME NEW w \in Worker, Claim(w) \/ Complete(w) \/ Fail(w)
      PROVE  CalmInv'
  BY <1>1, <1>2, ClaimCalm, CompleteCalm, FailCalm
<1>3. ASSUME NEW c \in Client, Submit(c) \/ SubmitPush(c)
      PROVE  CalmInv'
  BY <1>1, <1>3, SubmitCalm, SubmitPushCalm
<1>4. CASE UNCHANGED queueVars
  <2>1. Waiting'
    BY <1>4 DEF CalmInv, Waiting, queueVars
  <2>2. \A w \in Worker : InTime(w)'
    BY <1>4 DEF CalmInv, InTime, queueVars
  <2> QED
    BY <1>1, <1>4, <2>1, <2>2 DEF CalmInv, InHand, queueVars
<1> QED
  BY <1>2, <1>3, <1>4 DEF CalmNext

\* Without faults and cancels no job is lost between the pending list and the
\* workers (submit, claim_jobs, complete_job, fail_job), however many workers
\* and clients there are and however their commands interleave.
THEOREM NeverLost == CalmSpec => []NothingLost
<1>1. QueueInit => CalmInv
  BY CalmInitially
<1>2. CalmInv /\ [CalmNext]_queueVars => CalmInv'
  BY CalmStep
<1>3. CalmInv => NothingLost
  BY CalmFinds
<1>4. CalmSpec => QueueInit /\ [][CalmNext]_queueVars
  BY PTL DEF CalmSpec
<1> QED
  BY <1>1, <1>2, <1>3, <1>4, PTL

\* A job that a calm step writes was new, pending or running.
LEMMA FinalKept ==
    ASSUME CalmInv, CalmNext,
           NEW j \in Job, job[j] # Nothing, job[j].status \in Final
    PROVE  job'[j] = job[j]
<1>0. JInv /\ job \in [Job -> Record \cup {Nothing}]
  BY DEF CalmInv, JInv, QueueTypeOK
<1>1. ASSUME NEW i, NEW r, i # j, Write(i, r)
      PROVE  job'[j] = job[j]
  BY <1>0, <1>1 DEF Write
<1>2. ASSUME NEW w \in Worker, worker[w].pc \in {"claiming", "completing", "moving"}
      PROVE  worker[w].job # j
  BY <1>2, JobAssumption DEF CalmInv, InTime, JInv, InStep, Final
<1>3. ASSUME NEW w \in Worker, Claim(w) \/ Complete(w) \/ Fail(w)
      PROVE  job'[j] = job[j]
  <2>1. CASE StartJob(w) \/ WriteCompleted(w) \/ WriteFailed(w)
    BY <1>1, <1>2, <2>1 DEF StartJob, WriteCompleted, WriteFailed, WorkerAt
  <2>2. CASE ~(StartJob(w) \/ WriteCompleted(w) \/ WriteFailed(w))
    BY <1>3, <2>2 DEF Claim, Pop, ReadClaimed, DropExpired, Complete, ReadToComplete,
                      LeaveProcessing, Fail, HandlerFails, ReadToFail, FailRemove,
                      Requeue, Bury
  <2> QED
    BY <2>1, <2>2
<1>4. ASSUME NEW c \in Client, Submit(c) \/ SubmitPush(c)
      PROVE  job'[j] = job[j]
  <2>1. j \notin unused
    BY DEF CalmInv, Waiting
  <2>2. CASE Submit(c)
    BY <1>1, <2>1, <2>2 DEF Submit
  <2>3. CASE SubmitPush(c)
    BY <2>3 DEF SubmitPush
  <2> QED
    BY <1>4, <2>2, <2>3
<1> QED
  BY <1>3, <1>4 DEF CalmNext

\* Without faults and cancels no step takes the result of a job back, and none
\* revives a dead one: whoever writes the record of a job read it unfinished
\* and still has the job to himself.
THEOREM ResultsStay == CalmSpec => FinishedStays
<1>1. QueueInit => CalmInv
  BY CalmInitially
<1>2. CalmInv /\ [CalmNext]_queueVars => CalmInv'
  BY CalmStep
<1>3. CalmInv /\ [CalmNext]_queueVars
      => [\A j \in Job :
            job[j] # Nothing /\ job[j].status \in Final => job'[j] = job[j]]_queueVars
  BY FinalKept
<1>4. CalmSpec => QueueInit /\ [][CalmNext]_queueVars
  BY PTL DEF CalmSpec
<1> QED
  BY <1>1, <1>2, <1>3, <1>4, PTL DEF FinishedStays
=============================================================================
