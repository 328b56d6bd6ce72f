--------------------------- MODULE BackgroundProofs ---------------------------
(***************************************************************************)
(* Theorems about the work in the background.  LeaderElection, for any     *)
(* number of instances and every lease that is longer than a renewal may   *)
(* take (LeaseAssumption).  Scheduler, for any number of instances and     *)
(* schedules, any expressions and any calendar.  And that all of this, and *)
(* what JobQueueProofs says of the job queue, holds of their composition.  *)
(***************************************************************************)
EXTENDS MCBackground, JobQueueProofs

-----------------------------------------------------------------------------
(* The leader election: the inductive invariant.                           *)

\* While nobody has been late, who leads, has won or has just renewed owns the
\* lock, and for longer than it can take until its next EXPIRE or its release.
Covered(i) ==
    /\ pc[i] \in {"won", "renewed"}
       => lock = i /\ ttl > timer[i] + Interval + 2 * Latency
    /\ pc[i] = "won_once" => lock = i /\ ttl > timer[i] + BodyTime + Latency
    /\ pc[i] = "sleep" /\ leader[i] => lock = i /\ ttl > timer[i] + 2 * Latency
    /\ pc[i] \in {"get", "expire", "body"} => lock = i /\ ttl > timer[i] + Latency
    /\ pc[i] = "release" => lock = i /\ ttl > timer[i]
    /\ pc[i] # "demoted"

\* A command is under way for no longer than Latency; who tries to take the
\* lock does not lead.
InTurn(i) ==
    /\ pc[i] \in {"set", "get", "expire", "set_once"} => timer[i] <= Latency
    /\ pc[i] \in {"set", "won", "set_once", "won_once"} => ~leader[i]

LInv ==
    /\ TypeOK
    /\ \A i \in Instance : InTurn(i)
    /\ ~late => \A i \in Instance : Covered(i)

-----------------------------------------------------------------------------
\* The constants as the arithmetic needs them.
LEMMA Lease ==
    /\ LeaseTtl \in Int /\ Interval \in Int /\ Latency \in Int /\ BodyTime \in Int
    /\ Interval >= 0 /\ Latency >= 0 /\ BodyTime >= 0
    /\ LeaseTtl > Interval + Latency + 2 * Latency
    /\ LeaseTtl > BodyTime + Latency + Latency
BY LeaseAssumption

\* A step of instance i alone: the others' places and timers are as they were,
\* so only their lock and its lease are at stake.
LEMMA OthersCovered ==
    ASSUME LInv, ~late, NEW i \in Instance, NEW k \in Instance \ {i},
           pc'[k] = pc[k], timer'[k] = timer[k], leader'[k] = leader[k],
           lock = k => lock' = k /\ ttl' >= ttl, ttl' \in Int
    PROVE  Covered(k)'
<1>1. Covered(k) /\ ttl \in Int /\ timer[k] \in Int
  BY DEF LInv, TypeOK
<1> QED
  BY <1>1, Lease DEF Covered

LEMMA OthersInTurn ==
    ASSUME LInv, NEW k \in Instance,
           pc'[k] = pc[k], timer'[k] = timer[k], leader'[k] = leader[k]
    PROVE  InTurn(k)'
BY DEF LInv, InTurn

\* The effect of GoTo and of Next1.
LEMMA Went ==
    ASSUME LInv, NEW i \in Instance, NEW p \in Pc, NEW t \in Nat,
           GoTo(i, p, t) \/ (Next1(i, p) /\ t = timer[i])
    PROVE  /\ pc' \in [Instance -> Pc] /\ timer' \in [Instance -> Nat]
           /\ pc'[i] = p /\ timer'[i] = t
           /\ \A k \in Instance \ {i} : pc'[k] = pc[k] /\ timer'[k] = timer[k]
BY DEF LInv, TypeOK, GoTo, Next1

\* The effect of Lead.
LEMMA Led ==
    ASSUME LInv, NEW i \in Instance, NEW b \in BOOLEAN, Lead(i, b)
    PROVE  /\ leader' \in [Instance -> BOOLEAN] /\ leader'[i] = b
           /\ \A k \in Instance \ {i} : leader'[k] = leader[k]
BY DEF LInv, TypeOK, Lead

\* A step of instance i keeps the invariant if it keeps the types, covers i and
\* leaves the lock of another one to its owner.
LEMMA OneStep ==
    ASSUME LInv, NEW i \in Instance, NEW p \in Pc, NEW t \in Nat,
           GoTo(i, p, t) \/ (Next1(i, p) /\ t = timer[i]),
           leader' \in [Instance -> BOOLEAN],
           \A k \in Instance \ {i} : leader'[k] = leader[k],
           lock' \in Instance \cup {Nobody}, ttl' \in 0 .. LeaseTtl,
           \A k \in Instance \ {i} : lock = k => lock' = k /\ ttl' >= ttl,
           late' = late, faults' \in 0 .. MaxFaults,
           InTurn(i)', ~late => Covered(i)'
    PROVE  LInv'
<1>1. /\ pc' \in [Instance -> Pc] /\ timer' \in [Instance -> Nat]
      /\ \A k \in Instance \ {i} : pc'[k] = pc[k] /\ timer'[k] = timer[k]
  BY Went
<1>2. TypeOK'
  BY <1>1 DEF LInv, TypeOK
<1>3. \A k \in Instance \ {i} : InTurn(k)'
  BY <1>1, OthersInTurn
<1>4. ASSUME ~late, NEW k \in Instance \ {i}
      PROVE  Covered(k)'
  <2>1. ttl' \in Int
    BY LeaseAssumption
  <2> QED
    BY <1>1, <1>4, <2>1, OthersCovered
<1> QED
  BY <1>2, <1>3, <1>4 DEF LInv

\* The count of faults keeps its type.
LEMMA Faults ==
    ASSUME LInv, Fault \/ UNCHANGED faults
    PROVE  faults' \in 0 .. MaxFaults
<1>1. faults \in Int /\ 0 <= faults /\ faults <= MaxFaults /\ MaxFaults \in Int
  BY LeaseAssumption DEF LInv, TypeOK
<1> QED
  BY <1>1 DEF Fault

-----------------------------------------------------------------------------
(* The steps.                                                              *)

\* An instance that turns up or is gone, and holds nothing.
LEMMA ComesOrGoes ==
    ASSUME LInv, NEW i \in Instance, Start(i) \/ Enter(i) \/ Crash(i)
    PROVE  LInv'
<1>1. leader' \in [Instance -> BOOLEAN] /\ leader'[i] = FALSE
      /\ \A k \in Instance \ {i} : leader'[k] = leader[k]
  BY Led DEF Start, Enter, Crash
<1>2. /\ lock' \in Instance \cup {Nobody} /\ ttl' \in 0 .. LeaseTtl
      /\ lock' = lock /\ ttl' = ttl /\ late' = late /\ ttl \in Int
      /\ faults' \in 0 .. MaxFaults
  <2>1. lock' = lock /\ ttl' = ttl /\ late' = late
    BY DEF Start, Enter, Crash
  <2>2. faults' \in 0 .. MaxFaults
    BY Faults DEF Start, Enter, Crash
  <2> QED
    BY <2>1, <2>2, LeaseAssumption DEF LInv, TypeOK
<1>3. PICK p \in {"set", "set_once", "off"}, t \in {Latency, 0} :
         GoTo(i, p, t) /\ (p # "off" => t = Latency)
  BY DEF Start, Enter, Crash
<1>4. p \in Pc /\ t \in Nat
  BY LeaseAssumption DEF Pc
<1>5. pc'[i] = p /\ timer'[i] = t
  BY <1>3, <1>4, Went
<1>6. InTurn(i)' /\ Covered(i)'
  BY <1>1, <1>3, <1>4, <1>5, Lease DEF InTurn, Covered
<1> QED
  BY <1>1, <1>2, <1>3, <1>4, <1>6, OneStep

\* SET NX: nobody's lock becomes the instance's, or it sleeps, or gives up.
LEMMA SetKeeps ==
    ASSUME LInv, NEW i \in Instance, ExecuteSet(i) \/ ExecuteSetOnce(i)
    PROVE  LInv'
<1>1. /\ leader' = leader /\ late' = late /\ faults' \in 0 .. MaxFaults
      /\ leader' \in [Instance -> BOOLEAN] /\ ~leader[i]
      /\ timer[i] \in Nat /\ timer[i] <= Latency
  BY DEF LInv, TypeOK, InTurn, ExecuteSet, ExecuteSetOnce
<1>2. CASE lock = Nobody
  <2>1. PICK p \in {"won", "won_once"} : Next1(i, p)
    BY <1>2 DEF ExecuteSet, ExecuteSetOnce
  <2>2. p \in Pc /\ lock' = i /\ ttl' = LeaseTtl
    BY <1>2, <2>1 DEF Pc, ExecuteSet, ExecuteSetOnce, TakeLock
  <2>3. pc'[i] = p /\ timer'[i] = timer[i]
    BY <1>1, <2>1, <2>2, Went
  <2>4. InTurn(i)' /\ Covered(i)'
    BY <1>1, <2>1, <2>2, <2>3, Lease DEF InTurn, Covered
  <2>5. ttl' \in 0 .. LeaseTtl /\ lock' \in Instance \cup {Nobody}
    BY <2>2, LeaseAssumption
  <2>6. \A k \in Instance \ {i} : lock # k
    BY <1>2, LeaseAssumption
  <2> QED
    BY <1>1, <2>1, <2>2, <2>4, <2>5, <2>6, OneStep
<1>3. CASE lock # Nobody
  <2>1. PICK p \in {"sleep", "off"}, t \in {Interval, 0} : GoTo(i, p, t)
    BY <1>3 DEF ExecuteSet, ExecuteSetOnce
  <2>2. p \in Pc /\ t \in Nat /\ lock' = lock /\ ttl' = ttl
    BY <1>3, LeaseAssumption DEF Pc, ExecuteSet, ExecuteSetOnce
  <2>3. pc'[i] = p /\ timer'[i] = t
    BY <2>1, <2>2, Went
  <2>4. InTurn(i)' /\ Covered(i)'
    BY <1>1, <2>1, <2>3 DEF InTurn, Covered
  <2>5. ttl' \in 0 .. LeaseTtl /\ lock' \in Instance \cup {Nobody} /\ ttl \in Int
    BY <2>2, LeaseAssumption DEF LInv, TypeOK
  <2> QED
    BY <1>1, <2>1, <2>2, <2>4, <2>5, OneStep
<1> QED
  BY <1>2, <1>3

\* The answers that make a leader or unmake it, and exceptions.
LEMMA AnswerKeeps ==
    ASSUME LInv, NEW i \in Instance,
           Elected(i) \/ RunBody(i) \/ Demoted(i) \/ RedisError(i)
    PROVE  LInv'
<1>1. PICK b \in BOOLEAN :
         /\ Lead(i, b)
         /\ b => pc[i] \in {"won", "won_once"}
  BY DEF Elected, RunBody, Demoted, RedisError
<1>2. leader' \in [Instance -> BOOLEAN] /\ leader'[i] = b
      /\ \A k \in Instance \ {i} : leader'[k] = leader[k]
  BY <1>1, Led
<1>3. /\ lock' \in Instance \cup {Nobody} /\ ttl' \in 0 .. LeaseTtl
      /\ lock' = lock /\ ttl' = ttl /\ late' = late /\ ttl \in Int /\ timer[i] \in Nat
      /\ faults' \in 0 .. MaxFaults
  <2>1. lock' = lock /\ ttl' = ttl /\ late' = late
    BY DEF Elected, RunBody, Demoted, RedisError
  <2>2. faults' \in 0 .. MaxFaults
    BY Faults DEF Elected, RunBody, Demoted, RedisError
  <2> QED
    BY <2>1, <2>2, LeaseAssumption DEF LInv, TypeOK
<1>4. CASE RunBody(i)
  <2>1. GoTo(i, "body", BodyTime) /\ "body" \in Pc /\ BodyTime \in Nat /\ pc[i] = "won_once"
    BY <1>4, LeaseAssumption DEF RunBody, Pc
  <2>2. pc'[i] = "body" /\ timer'[i] = BodyTime
    BY <2>1, Went
  <2>3. InTurn(i)'
    BY <2>2 DEF InTurn
  <2>4. ~late => Covered(i)'
    BY <1>3, <2>1, <2>2, Lease DEF LInv, Covered
  <2> QED
    BY <1>2, <1>3, <2>1, <2>3, <2>4, OneStep
<1>5. CASE Elected(i) \/ Demoted(i) \/ RedisError(i)
  <2>1. GoTo(i, "sleep", Interval) /\ "sleep" \in Pc /\ Interval \in Nat
    BY <1>5, LeaseAssumption DEF Elected, Demoted, RedisError, Pc
  <2>2. pc'[i] = "sleep" /\ timer'[i] = Interval
    BY <2>1, Went
  <2>3. InTurn(i)'
    BY <2>2 DEF InTurn
  <2>4. ~late => Covered(i)'
    <3>1. CASE b
      <4>1. pc[i] = "won"
        BY <1>1, <1>2, <1>5, <3>1 DEF Elected, Demoted, RedisError, Lead, LInv, TypeOK
      <4> QED
        BY <1>3, <2>2, <4>1, Lease DEF LInv, Covered
    <3>2. CASE ~b
      BY <1>2, <2>2, <3>2 DEF Covered
    <3> QED
      BY <3>1, <3>2
  <2> QED
    BY <1>2, <1>3, <2>1, <2>3, <2>4, OneStep
<1> QED
  BY <1>4, <1>5

\* Waking, renewing, stopping: the lock stays whose it was.
LEMMA LoopKeeps ==
    ASSUME LInv, NEW i \in Instance,
           \/ Wake(i) \/ ExecuteGet(i) \/ ExecuteExpire(i) \/ Renewed(i)
           \/ Exit(i) \/ Stop(i)
    PROVE  LInv'
<1>1. /\ lock' = lock /\ lock' \in Instance \cup {Nobody} /\ late' = late
      /\ leader' = leader /\ leader' \in [Instance -> BOOLEAN]
      /\ ttl \in Int /\ timer[i] \in Nat /\ faults' \in 0 .. MaxFaults
      /\ ttl' \in 0 .. LeaseTtl /\ ttl' >= ttl
  <2>1. lock' = lock /\ leader' = leader /\ late' = late
        /\ (ttl' = ttl \/ ttl' = LeaseTtl)
    BY DEF Wake, ExecuteGet, ExecuteExpire, Renewed, Exit, Stop
  <2>2. faults' \in 0 .. MaxFaults
    BY Faults DEF Wake, ExecuteGet, ExecuteExpire, Renewed, Exit, Stop
  <2> QED
    BY <2>1, <2>2, LeaseAssumption DEF LInv, TypeOK
<1>2. CASE Wake(i)
  <2>1. PICK p \in {"get", "set"} :
           GoTo(i, p, Latency) /\ (p = "get" <=> leader[i])
    BY <1>2 DEF Wake
  <2>2. p \in Pc /\ Latency \in Nat
    BY LeaseAssumption DEF Pc
  <2>3. pc'[i] = p /\ timer'[i] = Latency
    BY <2>1, <2>2, Went
  <2>4. InTurn(i)'
    BY <1>1, <2>1, <2>3, Lease DEF InTurn
  <2>5. ~late => Covered(i)'
    BY <1>1, <1>2, <2>1, <2>3, Lease DEF Wake, LInv, Covered
  <2> QED
    BY <1>1, <2>1, <2>2, <2>4, <2>5, OneStep
<1>3. CASE ExecuteGet(i)
  <2>1. PICK p \in {"expire", "demoted"} :
           Next1(i, p) /\ (lock = i => p = "expire")
    BY <1>3 DEF ExecuteGet
  <2>2. p \in Pc
    BY DEF Pc
  <2>3. pc'[i] = p /\ timer'[i] = timer[i] /\ pc[i] = "get"
    BY <1>1, <1>3, <2>1, <2>2, Went DEF ExecuteGet
  <2>4. InTurn(i)'
    BY <1>1, <2>1, <2>3 DEF LInv, InTurn
  <2>5. ~late => Covered(i)'
    BY <1>1, <2>1, <2>3, Lease DEF LInv, Covered
  <2> QED
    BY <1>1, <2>1, <2>2, <2>4, <2>5, OneStep
<1>4. CASE ExecuteExpire(i)
  <2>1. Next1(i, "renewed") /\ "renewed" \in Pc /\ pc[i] = "expire"
    BY <1>4 DEF ExecuteExpire, Pc
  <2>2. pc'[i] = "renewed" /\ timer'[i] = timer[i]
    BY <1>1, <2>1, Went
  <2>3. InTurn(i)'
    BY <2>2 DEF InTurn
  <2>4. ~late => Covered(i)'
    <3>1. SUFFICES ASSUME ~late
                   PROVE  Covered(i)'
      OBVIOUS
    <3>2. lock = i /\ timer[i] <= Latency
      BY <2>1, <3>1 DEF LInv, Covered, InTurn
    <3>3. ttl' = LeaseTtl
      BY <1>4, <3>2, LeaseAssumption DEF ExecuteExpire
    <3> QED
      BY <1>1, <2>2, <3>2, <3>3, Lease DEF Covered
  <2> QED
    BY <1>1, <2>1, <2>3, <2>4, OneStep
<1>5. CASE Renewed(i)
  <2>1. GoTo(i, "sleep", Interval) /\ "sleep" \in Pc /\ Interval \in Nat /\ pc[i] = "renewed"
    BY <1>5, LeaseAssumption DEF Renewed, Pc
  <2>2. pc'[i] = "sleep" /\ timer'[i] = Interval
    BY <2>1, Went
  <2>3. InTurn(i)'
    BY <2>2 DEF InTurn
  <2>4. ~late => Covered(i)'
    BY <1>1, <2>1, <2>2, Lease DEF LInv, Covered
  <2> QED
    BY <1>1, <2>1, <2>3, <2>4, OneStep
<1>6. CASE Exit(i) \/ Stop(i)
  <2>1. PICK p \in {"release", "off"}, t \in {Latency, 0} :
           /\ GoTo(i, p, t)
           /\ p = "release" => t = Latency /\ (leader[i] \/ pc[i] = "body")
    BY <1>6 DEF Exit, Stop
  <2>2. /\ p \in Pc /\ t \in Nat
        /\ pc[i] \in {"set", "won", "get", "expire", "renewed", "demoted", "sleep", "body"}
    BY <1>6, LeaseAssumption DEF Pc, Exit, Stop
  <2>3. pc'[i] = p /\ timer'[i] = t
    BY <2>1, <2>2, Went
  <2>4. InTurn(i)'
    BY <2>1, <2>3 DEF InTurn
  <2>5. ~late => Covered(i)'
    <3>1. CASE p = "off"
      BY <2>3, <3>1 DEF Covered
    <3>2. ASSUME ~late, p = "release"
          PROVE  Covered(i)'
      <4>1. Covered(i) /\ InTurn(i)
        BY <3>2 DEF LInv
      <4>2. lock = i /\ ttl > Latency
        BY <1>1, <2>1, <2>2, <3>2, <4>1, Lease DEF Covered, InTurn
      <4> QED
        BY <1>1, <2>1, <2>3, <3>2, <4>2, Lease DEF Covered
    <3> QED
      BY <2>1, <3>1, <3>2
  <2> QED
    BY <1>1, <2>1, <2>2, <2>4, <2>5, OneStep
<1> QED
  BY <1>2, <1>3, <1>4, <1>5, <1>6

LEMMA ReleaseKeeps ==
    ASSUME LInv, NEW i \in Instance, Release(i)
    PROVE  LInv'
<1>1. GoTo(i, "off", 0) /\ "off" \in Pc /\ late' = late /\ faults' \in 0 .. MaxFaults
  BY DEF Release, Pc, LInv, TypeOK
<1>2. pc'[i] = "off" /\ timer'[i] = 0
  BY <1>1, Went
<1>3. InTurn(i)' /\ Covered(i)'
  BY <1>2 DEF InTurn, Covered
<1>4. /\ leader' \in [Instance -> BOOLEAN]
      /\ \A k \in Instance \ {i} : leader'[k] = leader[k]
  BY Led DEF Release, Unlock, LInv, TypeOK
<1>5. /\ lock' \in Instance \cup {Nobody} /\ ttl' \in 0 .. LeaseTtl /\ ttl \in Int
      /\ \A k \in Instance \ {i} : lock = k => lock' = k /\ ttl' >= ttl
  <2>1. 0 \in 0 .. LeaseTtl /\ lock \in Instance \cup {Nobody} /\ ttl \in 0 .. LeaseTtl
    BY LeaseAssumption DEF LInv, TypeOK
  <2>2. \/ lock = i /\ lock' = Nobody /\ ttl' = 0
        \/ lock' = lock /\ ttl' = ttl
    BY DEF Release, Unlock
  <2> QED
    BY <2>1, <2>2
<1> QED
  BY <1>1, <1>3, <1>4, <1>5, OneStep

\* Time: the lease and the timers run down together.
LEMMA TickKeeps ==
    ASSUME LInv, Tick
    PROVE  LInv'
<1>1. /\ ttl \in Int /\ 0 <= ttl /\ ttl <= LeaseTtl
      /\ \A i \in Instance : timer[i] \in Int /\ timer[i] >= 0
  BY LeaseAssumption DEF LInv, TypeOK
<1>2. /\ leader' = leader /\ pc' = pc
      /\ \A i \in Instance : timer'[i] = IF timer[i] = 0 THEN 0 ELSE timer[i] - 1
  BY DEF Tick
<1>3. TypeOK'
  <2>1. timer' \in [Instance -> Nat]
    BY <1>1 DEF Tick
  <2>2. ttl' \in 0 .. LeaseTtl
    BY <1>1, LeaseAssumption DEF Tick
  <2>3. lock' \in Instance \cup {Nobody} /\ late' \in BOOLEAN
    BY DEF Tick, LInv, TypeOK
  <2> QED
    BY <2>1, <2>2, <2>3 DEF Tick, LInv, TypeOK
<1>4. ASSUME NEW i \in Instance
      PROVE  InTurn(i)'
  BY <1>1, <1>2, Lease DEF LInv, InTurn
<1>5. ASSUME ~late', NEW i \in Instance
      PROVE  Covered(i)'
  <2>1. ~late /\ (pc[i] # "off" => timer[i] # 0)
    BY <1>5 DEF Tick, Overdue
  <2>2. Covered(i)
    BY <2>1 DEF LInv
  <2>3. pc[i] # "off" => timer'[i] = timer[i] - 1 /\ timer[i] >= 1
    BY <1>1, <1>2, <2>1
  <2>4. ttl >= 2 => ttl' = ttl - 1 /\ lock' = lock
    BY <1>1 DEF Tick
  <2> QED
    BY <1>1, <1>2, <2>2, <2>3, <2>4, Lease DEF Covered
<1> QED
  BY <1>3, <1>4, <1>5 DEF LInv

-----------------------------------------------------------------------------
(* The theorems.                                                           *)

LEMMA LeaseInitially ==
    Init => LInv
<1> SUFFICES ASSUME Init
             PROVE  LInv
  OBVIOUS
<1>1. \A i \in Instance : pc[i] = "off" /\ timer[i] = 0 /\ leader[i] = FALSE
  BY DEF Init
<1>2. 0 \in 0 .. LeaseTtl /\ 0 \in 0 .. MaxFaults /\ "off" \in Pc
  BY LeaseAssumption DEF Pc
<1>3. TypeOK
  BY <1>2 DEF Init, TypeOK
<1> QED
  BY <1>1, <1>3 DEF LInv, InTurn, Covered

LEMMA LeaseInductive ==
    LInv /\ [Next]_vars => LInv'
<1> SUFFICES ASSUME LInv, [Next]_vars
             PROVE  LInv'
  OBVIOUS
<1>1. CASE UNCHANGED vars
  BY <1>1 DEF vars, LInv, TypeOK, InTurn, Covered
<1>2. ASSUME NEW i \in Instance,
             Start(i) \/ Enter(i) \/ Step(i) \/ Stop(i) \/ RedisError(i) \/ Crash(i)
      PROVE  LInv'
  BY <1>2, ComesOrGoes, SetKeeps, AnswerKeeps, LoopKeeps, ReleaseKeeps DEF Step
<1> QED
  BY <1>1, <1>2, TickKeeps DEF Next

\* The lease covers every turn of the loop, in every state.
THEOREM LeaseInvariance ==
    Spec => []LInv
BY LeaseInitially, LeaseInductive, PTL DEF Spec

\* Every variable keeps its type.
THEOREM LeaseTypes ==
    Spec => []TypeOK
<1>1. LInv => TypeOK
  BY DEF LInv
<1> QED
  BY <1>1, LeaseInvariance, PTL

\* There is one leader at most as long as no instance has been late, for any
\* number of instances and any lease longer than a renewal.
THEOREM NoSplitBrainInTime ==
    Spec => []OneLeaderUnlessLate
<1>1. LInv => OneLeaderUnlessLate
  <2> SUFFICES ASSUME LInv, ~late, NEW i \in Instance, Leads(i)
               PROVE  lock = i
    BY DEF OneLeaderUnlessLate, OneLeader
  <2> QED
    BY DEF LInv, TypeOK, Leads, Covered, InTurn, Pc
<1> QED
  BY <1>1, LeaseInvariance, PTL

\* No instance takes another one's lock away, late or not.
THEOREM LocksAreSafe ==
    Spec => OnlyOwnersUnlock
<1>1. [Next]_vars => [lock # Nobody /\ lock' # lock
                      => lock' = Nobody /\ (ttl = 1 \/ pc[lock] = "release")]_vars
  BY DEF Next, vars, Start, Enter, Step, Stop, RedisError, Crash, Tick,
         Wake, ExecuteSet, Elected, ExecuteGet, ExecuteExpire, Renewed, Demoted,
         Release, Unlock, ExecuteSetOnce, RunBody, Exit
<1> QED
  BY <1>1, PTL DEF Spec, OnlyOwnersUnlock

-----------------------------------------------------------------------------
(* The scheduler.  What waits for its time in a schedule has a time that    *)
(* matches and that is later than the check that submitted it last; what is *)
(* being submitted has matched since.                                       *)

\* The last submission of a job was taken and reported as taken, and the time of its
\* next run could be computed.
Settled(i, j) ==
    /\ last[i][j] # Nothing /\ <<i, j>> \notin unanswered
    /\ ~Raises(Cron[j], last[i][j])

AtHand(i, j) == loop[i] = "submitting" /\ check[i].job = j

CheckState == [now : Nat, job : ScheduledJob \cup {Nothing}, held : BOOLEAN,
               todo : SUBSET ScheduledJob, size : {Cardinality(js) : js \in SUBSET ScheduledJob} \cup {0},
               gone : BOOLEAN]

SchedulerTypes ==
    /\ now \in 0 .. Horizon
    /\ jobs \in Schedules /\ enabled \in Schedules
    /\ nextRun \in [Scheduling -> [ScheduledJob -> Nat]]
    /\ elected \subseteq Scheduling
    /\ loop \in [Scheduling -> {"off", "asleep", "submitting"}]
    /\ check \in [Scheduling -> CheckState]
    /\ last \in [Scheduling -> [ScheduledJob -> (0 .. Horizon) \cup {Nothing}]]
    /\ unanswered \subseteq Scheduling \X ScheduledJob

\* Only a running scheduler leads; a check is not ahead of the clock, has no job
\* twice, and a submission is one of an earlier check.
ChecksInTurn(i) ==
    /\ i \in elected => loop[i] # "off"
    /\ check[i].now <= now
    /\ loop[i] = "submitting" => check[i].job \in ScheduledJob /\ check[i].job \notin check[i].todo
    /\ \A j \in ScheduledJob : last[i][j] # Nothing => last[i][j] <= now

TimeAhead(i, j) ==
    /\ Settled(i, j) /\ j \in jobs[i] =>
          nextRun[i][j] > last[i][j] /\ Matches(Cron[j], nextRun[i][j])
    /\ AtHand(i, j) /\ ~check[i].held /\ j \in jobs[i] =>
          nextRun[i][j] > check[i].now /\ Matches(Cron[j], nextRun[i][j])
    /\ AtHand(i, j) /\ Settled(i, j) => MatchedSince(i, j)

Sound(i) == ChecksInTurn(i) /\ \A j \in ScheduledJob : TimeAhead(i, j)

SchedulerInv == SchedulerTypes /\ \A i \in Scheduling : Sound(i)

\* What next_run returns matches and is later than the time it is given.
LEMMA NextRunIsAhead ==
    ASSUME NEW t \in 0 .. Horizon, NEW c, ~Raises(c, t)
    PROVE  NextRun(c, t) \in Nat /\ NextRun(c, t) > t /\ Matches(c, NextRun(c, t))
<1>1. t \in Nat /\ HourLength \in Nat /\ DayLength \in Nat /\ MonthEnds \subseteq Nat
  BY SchedulerAssumption
<1> DEFINE ends == {e \in MonthEnds : e >= Day(t)}
<1>2. ends \in SUBSET Nat /\ ends # {}
  BY SchedulerAssumption
<1> HIDE DEF ends
<1>3. Min(ends) \in Nat
  BY <1>2, MinOf
<1> PICK e \in Nat : e = Min(ends)
  BY <1>3
<1>4. LastMinute(t) = (e + 1) * HourLength * DayLength - 1
  BY DEF LastMinute, ends
<1>5. (e + 1) * HourLength \in Nat
  BY <1>1
<1>6. (e + 1) * HourLength * DayLength \in Nat
  BY <1>1, <1>5
<1>7. LastMinute(t) \in Int
  BY <1>4, <1>6
<1>8. Ahead(c, t) \in SUBSET Nat /\ Ahead(c, t) # {}
  BY <1>1, <1>7 DEF Ahead, Raises
<1>9. Min(Ahead(c, t)) \in Ahead(c, t)
  BY <1>8, MinOf
<1> QED
  BY <1>1, <1>7, <1>8, <1>9 DEF Ahead, NextRun

\* An instance whose schedule nobody touches stays sound, whatever the time is.
LEMMA OthersSound ==
    ASSUME SchedulerInv, NEW i \in Scheduling, now' \in {now, now + 1},
           loop'[i] = loop[i], check'[i] = check[i], jobs'[i] = jobs[i],
           nextRun'[i] = nextRun[i], last'[i] = last[i],
           i \in elected' => loop[i] # "off",
           \A j \in ScheduledJob : <<i, j>> \in unanswered' <=> <<i, j>> \in unanswered
    PROVE  Sound(i)'
<1>1. now \in Int /\ check[i].now \in Int /\ Sound(i)
  BY DEF SchedulerInv, SchedulerTypes, CheckState
<1>2. \A j \in ScheduledJob : last[i][j] # Nothing => last[i][j] \in Int
  BY DEF SchedulerInv, SchedulerTypes
<1>3. ChecksInTurn(i)'
  BY <1>1, <1>2 DEF Sound, ChecksInTurn
<1>4. ASSUME NEW j \in ScheduledJob PROVE TimeAhead(i, j)'
  BY <1>1 DEF Sound, TimeAhead, Settled, AtHand, MatchedSince
<1> QED
  BY <1>3, <1>4 DEF Sound

\* A step of one instance leaves the others sound.
LEMMA OneInstance ==
    ASSUME SchedulerInv, NEW i \in Scheduling, now' = now, SchedulerTypes', Sound(i)',
           \A k \in Scheduling \ {i} :
              /\ loop'[k] = loop[k] /\ check'[k] = check[k] /\ jobs'[k] = jobs[k]
              /\ nextRun'[k] = nextRun[k] /\ last'[k] = last[k]
              /\ k \in elected' => k \in elected
              /\ \A j \in ScheduledJob : <<k, j>> \in unanswered' <=> <<k, j>> \in unanswered
    PROVE  SchedulerInv'
<1>1. ASSUME NEW k \in Scheduling \ {i} PROVE Sound(k)'
  BY <1>1, OthersSound DEF SchedulerInv, Sound, ChecksInTurn
<1> QED
  BY <1>1 DEF SchedulerInv

-----------------------------------------------------------------------------
(* Changes of the schedules.                                               *)

LEMMA AddJobSound ==
    ASSUME SchedulerInv, NEW i \in Scheduling, NEW j \in ScheduledJob, AddJob(i, j)
    PROVE  SchedulerInv'
<1> DEFINE next == NextRun(Cron[j], now)
<1>1. /\ ~Raises(Cron[j], now)
      /\ jobs' = [jobs EXCEPT ![i] = @ \cup {j}]
      /\ enabled' = [enabled EXCEPT ![i] = @ \cup {j}]
      /\ nextRun' = [nextRun EXCEPT ![i][j] = next]
      /\ check' = [check EXCEPT ![i].held = @ /\ check[i].job # j]
      /\ now' = now /\ elected' = elected /\ loop' = loop /\ last' = last /\ unanswered' = unanswered
  BY DEF AddJob
<1>2. next \in Nat /\ next > now /\ Matches(Cron[j], next)
  BY <1>1, NextRunIsAhead DEF SchedulerInv, SchedulerTypes
<1> HIDE DEF next
<1>3. check[i] \in CheckState /\ check'[i] = [check[i] EXCEPT !.held = @ /\ check[i].job # j]
  BY <1>1 DEF SchedulerInv, SchedulerTypes
<1>4. /\ check'[i] \in CheckState
      /\ check'[i].now = check[i].now /\ check'[i].job = check[i].job
      /\ check'[i].todo = check[i].todo
      /\ check'[i].held <=> check[i].held /\ check[i].job # j
  BY <1>3 DEF CheckState
<1>5. SchedulerTypes'
  <2>1. check' \in [Scheduling -> CheckState]
    BY <1>1, <1>4 DEF SchedulerInv, SchedulerTypes
  <2>2. nextRun' \in [Scheduling -> [ScheduledJob -> Nat]]
    BY <1>1, <1>2 DEF SchedulerInv, SchedulerTypes
  <2> QED
    BY <1>1, <2>1, <2>2 DEF SchedulerInv, SchedulerTypes, Schedules
<1>6. Sound(i)'
  <2>1. Sound(i) /\ now \in Nat /\ check[i].now \in Nat
    BY DEF SchedulerInv, SchedulerTypes, CheckState
  <2>2. ChecksInTurn(i)'
    BY <1>1, <1>4, <2>1 DEF Sound, ChecksInTurn
  <2>3. /\ nextRun'[i][j] = next
        /\ \A k \in ScheduledJob \ {j} : nextRun'[i][k] = nextRun[i][k] /\ (k \in jobs'[i] <=> k \in jobs[i])
    BY <1>1 DEF SchedulerInv, SchedulerTypes, Schedules
  <2>4. TimeAhead(i, j)'
    <3>1. last[i][j] # Nothing => last[i][j] \in Nat /\ last[i][j] <= now
      BY <2>1 DEF Sound, ChecksInTurn, SchedulerInv, SchedulerTypes
    <3>2. check[i].now <= now
      BY <2>1 DEF Sound, ChecksInTurn
    <3>3. AtHand(i, j) /\ Settled(i, j) => MatchedSince(i, j)
      BY <2>1 DEF Sound, TimeAhead
    <3> QED
      BY <1>1, <1>2, <1>4, <2>1, <2>3, <3>1, <3>2, <3>3
         DEF TimeAhead, Settled, AtHand, MatchedSince
  <2>5. ASSUME NEW k \in ScheduledJob \ {j} PROVE TimeAhead(i, k)'
    <3>1. TimeAhead(i, k)
      BY <2>1 DEF Sound
    <3> QED
      BY <1>1, <1>4, <2>3, <3>1 DEF TimeAhead, Settled, AtHand, MatchedSince
  <2> QED
    BY <2>2, <2>4, <2>5 DEF Sound
<1>7. \A k \in Scheduling \ {i} :
         check'[k] = check[k] /\ jobs'[k] = jobs[k] /\ nextRun'[k] = nextRun[k]
  BY <1>1 DEF SchedulerInv, SchedulerTypes, Schedules
<1> QED
  BY <1>1, <1>5, <1>6, <1>7, OneInstance

LEMMA RemoveJobSound ==
    ASSUME SchedulerInv, NEW i \in Scheduling, NEW j \in ScheduledJob, RemoveJob(i, j)
    PROVE  SchedulerInv'
<1>1. /\ jobs' = [jobs EXCEPT ![i] = @ \ {j}]
      /\ check' = [check EXCEPT ![i].held = @ /\ check[i].job # j,
                               ![i].gone = @ \/ (loop[i] = "submitting" /\ j \notin check[i].todo)]
      /\ now' = now /\ elected' = elected /\ loop' = loop /\ last' = last /\ unanswered' = unanswered
      /\ enabled' = enabled /\ nextRun' = nextRun
  BY DEF RemoveJob
<1>2. PICK gone \in BOOLEAN : gone <=> check[i].gone \/ (loop[i] = "submitting" /\ j \notin check[i].todo)
  OBVIOUS
<1>3. /\ check[i] \in CheckState
      /\ check'[i] = [check[i] EXCEPT !.held = @ /\ check[i].job # j, !.gone = gone]
  BY <1>1, <1>2 DEF SchedulerInv, SchedulerTypes, CheckState
<1>4. /\ check'[i] \in CheckState
      /\ check'[i].now = check[i].now /\ check'[i].job = check[i].job
      /\ check'[i].todo = check[i].todo
      /\ check'[i].held <=> check[i].held /\ check[i].job # j
  BY <1>3 DEF CheckState
<1>5. SchedulerTypes'
  <2>1. check' \in [Scheduling -> CheckState]
    BY <1>1, <1>4 DEF SchedulerInv, SchedulerTypes
  <2> QED
    BY <1>1, <2>1 DEF SchedulerInv, SchedulerTypes, Schedules
<1>6. Sound(i)'
  <2>1. Sound(i)
    BY DEF SchedulerInv
  <2>2. ChecksInTurn(i)'
    BY <1>1, <1>4, <2>1 DEF Sound, ChecksInTurn
  <2>3. \A k \in ScheduledJob : k \in jobs'[i] <=> k \in jobs[i] /\ k # j
    BY <1>1 DEF SchedulerInv, SchedulerTypes, Schedules
  <2>4. ASSUME NEW k \in ScheduledJob PROVE TimeAhead(i, k)'
    BY <1>1, <1>4, <2>1, <2>3 DEF Sound, TimeAhead, Settled, AtHand, MatchedSince
  <2> QED
    BY <2>2, <2>4 DEF Sound
<1>7. \A k \in Scheduling \ {i} : check'[k] = check[k] /\ jobs'[k] = jobs[k]
  BY <1>1 DEF SchedulerInv, SchedulerTypes, Schedules
<1> QED
  BY <1>1, <1>5, <1>6, <1>7, OneInstance

\* What is enabled or disabled, who leads and which loops run says nothing about times.
LEMMA TimesStand ==
    ASSUME SchedulerInv, UNCHANGED <<jobs, nextRun, check, last, unanswered>>,
           now' \in {now, now + 1}, SchedulerTypes',
           \A i \in Scheduling :
              /\ i \in elected' => loop'[i] # "off"
              /\ loop'[i] = "submitting" <=> loop[i] = "submitting"
    PROVE  SchedulerInv'
<1>1. ASSUME NEW i \in Scheduling PROVE Sound(i)'
  <2>1. Sound(i) /\ now \in Int /\ check[i].now \in Int
    BY DEF SchedulerInv, SchedulerTypes, CheckState
  <2>2. \A j \in ScheduledJob : last[i][j] # Nothing => last[i][j] \in Int
    BY DEF SchedulerInv, SchedulerTypes
  <2>3. ChecksInTurn(i)'
    BY <2>1, <2>2 DEF Sound, ChecksInTurn
  <2>4. ASSUME NEW j \in ScheduledJob PROVE TimeAhead(i, j)'
    BY <2>1 DEF Sound, TimeAhead, Settled, AtHand, MatchedSince
  <2> QED
    BY <2>3, <2>4 DEF Sound
<1> QED
  BY <1>1 DEF SchedulerInv

LEMMA EnabledSound ==
    ASSUME SchedulerInv, NEW i \in Scheduling, NEW j \in ScheduledJob,
           EnableJob(i, j) \/ DisableJob(i, j)
    PROVE  SchedulerInv'
<1>1. /\ UNCHANGED <<now, jobs, nextRun, elected, loop, check, last, unanswered>>
      /\ \/ enabled' = [enabled EXCEPT ![i] = @ \cup {j}]
         \/ enabled' = [enabled EXCEPT ![i] = @ \ {j}]
  BY DEF EnableJob, DisableJob
<1>2. enabled \in [Scheduling -> SUBSET ScheduledJob]
  BY DEF SchedulerInv, SchedulerTypes, Schedules
<1>3. enabled' \in [Scheduling -> SUBSET ScheduledJob]
  <2>1. CASE enabled' = [enabled EXCEPT ![i] = @ \cup {j}]
    BY <1>2, <2>1
  <2>2. CASE enabled' = [enabled EXCEPT ![i] = @ \ {j}]
    BY <1>2, <2>2
  <2> QED
    BY <1>1, <2>1, <2>2
<1>4. SchedulerTypes'
  BY <1>1, <1>3 DEF SchedulerInv, SchedulerTypes, Schedules
<1> QED
  BY <1>1, <1>4, TimesStand DEF SchedulerInv, Sound, ChecksInTurn, SchedulerTypes

LEMMA LeadersSound ==
    ASSUME SchedulerInv, NEW i \in Scheduling,
           StartScheduler(i) \/ StopScheduler(i) \/ GainsLead(i) \/ LosesLead(i)
    PROVE  SchedulerInv'
<1>1. /\ UNCHANGED <<now, jobs, enabled, nextRun, check, last, unanswered>>
      /\ loop' \in {loop, [loop EXCEPT ![i] = "asleep"], [loop EXCEPT ![i] = "off"]}
      /\ elected' \in {elected, {i}, elected \ {i}}
  BY DEF StartScheduler, StopScheduler, GainsLead, LosesLead
<1>2. SchedulerTypes'
  <2>1. loop' \in [Scheduling -> {"off", "asleep", "submitting"}] /\ elected' \subseteq Scheduling
    BY <1>1 DEF SchedulerInv, SchedulerTypes
  <2> QED
    BY <1>1, <2>1 DEF SchedulerInv, SchedulerTypes
<1>3. ASSUME NEW k \in Scheduling
      PROVE  /\ k \in elected' => loop'[k] # "off"
             /\ loop'[k] = "submitting" <=> loop[k] = "submitting"
  BY DEF StartScheduler, StopScheduler, GainsLead, LosesLead,
         SchedulerInv, SchedulerTypes, Sound, ChecksInTurn
<1> QED
  BY <1>1, <1>2, <1>3, TimesStand

LEMMA MinuteSound == ASSUME SchedulerInv, MinutePasses PROVE SchedulerInv'
<1>1. /\ now' = now + 1 /\ now' \in 0 .. Horizon
      /\ UNCHANGED <<jobs, enabled, nextRun, elected, loop, check, last, unanswered>>
  BY SchedulerAssumption DEF MinutePasses, SchedulerInv, SchedulerTypes
<1>2. SchedulerTypes'
  BY <1>1 DEF SchedulerInv, SchedulerTypes
<1> QED
  BY <1>1, <1>2, TimesStand DEF SchedulerInv, Sound, ChecksInTurn

-----------------------------------------------------------------------------
(* The loop.                                                               *)

\* What is due has matched since it was submitted last.
LEMMA DueHasMatched ==
    ASSUME SchedulerInv, NEW i \in Scheduling, NEW j \in jobs[i], NEW t \in Nat,
           IsDue(t, nextRun[i][j]), Settled(i, j)
    PROVE  \E u \in last[i][j] + 1 .. t : Matches(Cron[j], u)
<1>1. j \in ScheduledJob /\ nextRun[i][j] \in Nat /\ last[i][j] \in Nat
  BY DEF SchedulerInv, SchedulerTypes, Schedules, Settled
<1>2. nextRun[i][j] > last[i][j] /\ Matches(Cron[j], nextRun[i][j])
  BY <1>1 DEF SchedulerInv, Sound, TimeAhead
<1>3. nextRun[i][j] \in last[i][j] + 1 .. t
  BY <1>1, <1>2 DEF IsDue
<1> QED
  BY <1>2, <1>3

LEMMA CheckSound == ASSUME SchedulerInv, NEW i \in Scheduling, Check(i) PROVE SchedulerInv'
<1>1. PICK j \in Due(i, now, jobs[i]), passed \in SUBSET (jobs[i] \ Due(i, now, jobs[i])) :
         check' = [check EXCEPT ![i] = [now |-> now, job |-> j, held |-> TRUE,
                                        todo |-> jobs[i] \ (passed \cup {j}),
                                        size |-> Cardinality(jobs[i]), gone |-> FALSE]]
  BY DEF Check
<1> DEFINE new == [now |-> now, job |-> j, held |-> TRUE, todo |-> jobs[i] \ (passed \cup {j}),
                   size |-> Cardinality(jobs[i]), gone |-> FALSE]
<1>2. /\ loop[i] = "asleep" /\ i \in elected /\ loop' = [loop EXCEPT ![i] = "submitting"]
      /\ UNCHANGED <<now, jobs, enabled, nextRun, elected, last, unanswered>>
  BY DEF Check
<1>3. j \in jobs[i] /\ j \in ScheduledJob /\ IsDue(now, nextRun[i][j]) /\ now \in Nat
      /\ jobs[i] \in SUBSET ScheduledJob
  BY SchedulerAssumption DEF Due, SchedulerInv, SchedulerTypes, Schedules
<1>4. new \in CheckState
  BY <1>3 DEF CheckState
<1>5. new.now = now /\ new.job = j /\ new.held = TRUE /\ j \notin new.todo
  OBVIOUS
<1>6. check' = [check EXCEPT ![i] = new]
  BY <1>1
<1> HIDE DEF new
<1>7. SchedulerTypes'
  <2>1. check' \in [Scheduling -> CheckState]
    BY <1>4, <1>6 DEF SchedulerInv, SchedulerTypes
  <2>2. loop' \in [Scheduling -> {"off", "asleep", "submitting"}]
    BY <1>2 DEF SchedulerInv, SchedulerTypes
  <2> QED
    BY <1>2, <2>1, <2>2 DEF SchedulerInv, SchedulerTypes
<1>8. check'[i] = new /\ loop'[i] = "submitting"
  BY <1>2, <1>6 DEF SchedulerInv, SchedulerTypes
<1>9. Sound(i)'
  <2>1. Sound(i)
    BY DEF SchedulerInv
  <2>2. ChecksInTurn(i)'
    BY <1>2, <1>3, <1>5, <1>8, <2>1 DEF Sound, ChecksInTurn
  <2>3. Settled(i, j) => \E u \in last[i][j] + 1 .. now : Matches(Cron[j], u)
    BY <1>3, DueHasMatched
  <2>4. ASSUME NEW k \in ScheduledJob PROVE TimeAhead(i, k)'
    <3>1. TimeAhead(i, k)
      BY <2>1 DEF Sound
    <3> QED
      BY <1>2, <1>5, <1>8, <2>3, <3>1 DEF TimeAhead, Settled, AtHand, MatchedSince
  <2> QED
    BY <2>2, <2>4 DEF Sound
<1>10. \A k \in Scheduling \ {i} : check'[k] = check[k] /\ loop'[k] = loop[k]
  BY <1>2, <1>6 DEF SchedulerInv, SchedulerTypes
<1> QED
  BY <1>2, <1>7, <1>9, <1>10, OneInstance

\* A submission that is over, reported as taken or as failed, and the next one.
LEMMA GoesOn ==
    ASSUME SchedulerInv, NEW i \in Scheduling, NEW j, j = check[i].job, loop[i] = "submitting",
           NEW n \in [ScheduledJob -> Nat], \A k \in ScheduledJob \ {j} : n[k] = nextRun[i][k],
           nextRun' = [nextRun EXCEPT ![i] = n], Continue(i, n), UNCHANGED <<now, jobs, enabled>>,
           last' \in {last, [last EXCEPT ![i][j] = check[i].now]},
           unanswered' \in {unanswered, unanswered \cup {<<i, j>>}, unanswered \ {<<i, j>>}},
           Settled(i, j)' /\ j \in jobs[i] => n[j] > last'[i][j] /\ Matches(Cron[j], n[j])
    PROVE  SchedulerInv'
<1>1. /\ Sound(i) /\ j \in ScheduledJob /\ j \notin check[i].todo
      /\ check[i] \in CheckState /\ check[i].now \in Nat /\ check[i].now <= now /\ now \in 0 .. Horizon
      /\ check[i].now \in 0 .. Horizon
  BY SchedulerAssumption DEF SchedulerInv, Sound, ChecksInTurn, SchedulerTypes, CheckState
<1>2. /\ last' \in [Scheduling -> [ScheduledJob -> (0 .. Horizon) \cup {Nothing}]]
      /\ nextRun' \in [Scheduling -> [ScheduledJob -> Nat]] /\ nextRun'[i] = n
      /\ unanswered' \subseteq Scheduling \X ScheduledJob
      /\ \A k \in ScheduledJob \ {j} :
            last'[i][k] = last[i][k] /\ (<<i, k>> \in unanswered' <=> <<i, k>> \in unanswered)
      /\ last'[i][j] \in {last[i][j], check[i].now}
      /\ \A k \in Scheduling \ {i} :
            /\ last'[k] = last[k] /\ nextRun'[k] = nextRun[k]
            /\ \A m \in ScheduledJob : <<k, m>> \in unanswered' <=> <<k, m>> \in unanswered
  <2>1. /\ last' \in [Scheduling -> [ScheduledJob -> (0 .. Horizon) \cup {Nothing}]]
        /\ \A k \in ScheduledJob \ {j} : last'[i][k] = last[i][k]
        /\ last'[i][j] \in {last[i][j], check[i].now}
        /\ \A k \in Scheduling \ {i} : last'[k] = last[k]
    <3>1. CASE last' = last
      BY <3>1 DEF SchedulerInv, SchedulerTypes
    <3>2. CASE last' = [last EXCEPT ![i][j] = check[i].now]
      BY <1>1, <3>2 DEF SchedulerInv, SchedulerTypes
    <3> QED
      BY <3>1, <3>2
  <2>2. /\ nextRun' \in [Scheduling -> [ScheduledJob -> Nat]] /\ nextRun'[i] = n
        /\ \A k \in Scheduling \ {i} : nextRun'[k] = nextRun[k]
    BY DEF SchedulerInv, SchedulerTypes
  <2>3. /\ unanswered' \subseteq Scheduling \X ScheduledJob
        /\ \A k \in ScheduledJob \ {j} : <<i, k>> \in unanswered' <=> <<i, k>> \in unanswered
        /\ \A k \in Scheduling \ {i}, m \in ScheduledJob :
              <<k, m>> \in unanswered' <=> <<k, m>> \in unanswered
    BY <1>1 DEF SchedulerInv, SchedulerTypes
  <2> QED
    BY <2>1, <2>2, <2>3
<1>3. ASSUME NEW k \in ScheduledJob, Settled(i, k)', k \in jobs[i]
      PROVE  nextRun'[i][k] > last'[i][k] /\ Matches(Cron[k], nextRun'[i][k])
  <2>1. CASE k = j
    BY <1>2, <1>3, <2>1
  <2>2. CASE k # j
    <3>1. Settled(i, k) /\ TimeAhead(i, k)
      BY <1>1, <1>2, <1>3, <2>2 DEF Settled, Sound
    <3> QED
      BY <1>2, <1>3, <2>2, <3>1 DEF TimeAhead
  <2> QED
    BY <2>1, <2>2
<1>4. \A k \in ScheduledJob : last'[i][k] # Nothing => last'[i][k] <= now
  BY <1>1, <1>2 DEF Sound, ChecksInTurn
<1>5. CASE loop' \in {[loop EXCEPT ![i] = "off"], [loop EXCEPT ![i] = "asleep"]}
           /\ check' = [check EXCEPT ![i] = NoCheck] /\ elected' \in {elected, elected \ {i}}
           /\ (i \in elected' => loop'[i] # "off")
  <2>1. NoCheck \in CheckState /\ NoCheck.now = 0
    BY DEF NoCheck, CheckState
  <2>2. SchedulerTypes'
    <3>1. check' \in [Scheduling -> CheckState]
      BY <1>5, <2>1 DEF SchedulerInv, SchedulerTypes
    <3>2. loop' \in [Scheduling -> {"off", "asleep", "submitting"}] /\ elected' \subseteq Scheduling
      BY <1>5 DEF SchedulerInv, SchedulerTypes
    <3> QED
      BY <1>2, <3>1, <3>2 DEF SchedulerInv, SchedulerTypes
  <2>3. check'[i].now = 0 /\ loop'[i] # "submitting"
    BY <1>5, <2>1 DEF SchedulerInv, SchedulerTypes
  <2>4. Sound(i)'
    <3>1. ChecksInTurn(i)'
      BY <1>1, <1>4, <1>5, <2>3 DEF ChecksInTurn
    <3>2. \A k \in ScheduledJob : TimeAhead(i, k)'
      BY <1>3, <2>3 DEF TimeAhead, AtHand
    <3> QED
      BY <3>1, <3>2 DEF Sound
  <2>5. \A k \in Scheduling \ {i} :
           check'[k] = check[k] /\ loop'[k] = loop[k] /\ (k \in elected' => k \in elected)
    BY <1>5 DEF SchedulerInv, SchedulerTypes
  <2> QED
    BY <1>2, <2>2, <2>4, <2>5, OneInstance
<1>6. ASSUME NEW k \in check[i].todo \cap jobs[i] \cap enabled[i], IsDue(check[i].now, n[k]),
             NEW passed \in SUBSET ScheduledJob,
             check' = [check EXCEPT ![i].job = k, ![i].held = TRUE, ![i].todo = @ \ (passed \cup {k})],
             UNCHANGED <<loop, elected>>
      PROVE  SchedulerInv'
  <2> DEFINE new == [check[i] EXCEPT !.job = k, !.held = TRUE, !.todo = @ \ (passed \cup {k})]
  <2>1. check' = [check EXCEPT ![i] = new]
    BY <1>6 DEF SchedulerInv, SchedulerTypes
  <2>2. k \in ScheduledJob /\ k # j /\ k \in jobs[i]
    BY <1>1 DEF CheckState
  <2>3. /\ new \in CheckState /\ new.now = check[i].now /\ new.job = k /\ new.held = TRUE
        /\ k \notin new.todo
    BY <1>1, <2>2 DEF CheckState
  <2> HIDE DEF new
  <2>4. SchedulerTypes'
    <3>1. check' \in [Scheduling -> CheckState]
      BY <2>1, <2>3 DEF SchedulerInv, SchedulerTypes
    <3> QED
      BY <1>2, <1>6, <3>1 DEF SchedulerInv, SchedulerTypes
  <2>5. check'[i] = new
    BY <2>1 DEF SchedulerInv, SchedulerTypes
  <2>6. Sound(i)'
    <3>1. ChecksInTurn(i)'
      BY <1>1, <1>4, <1>6, <2>2, <2>3, <2>5 DEF ChecksInTurn, Sound
    <3>2. Settled(i, k) => \E u \in last[i][k] + 1 .. check[i].now : Matches(Cron[k], u)
      <4>1. n[k] = nextRun[i][k]
        BY <2>2
      <4> QED
        BY <1>1, <1>6, <2>2, <4>1, DueHasMatched
    <3>3. ASSUME NEW m \in ScheduledJob PROVE TimeAhead(i, m)'
      <4>1. Settled(i, m)' /\ m \in jobs[i] =>
               nextRun'[i][m] > last'[i][m] /\ Matches(Cron[m], nextRun'[i][m])
        BY <1>3
      <4>2. check'[i].held
        BY <2>3, <2>5
      <4>3. ASSUME m = k, Settled(i, m)' PROVE MatchedSince(i, m)'
        <5>1. Settled(i, k) /\ last'[i][k] = last[i][k]
          BY <1>2, <2>2, <4>3 DEF Settled
        <5> QED
          BY <2>3, <2>5, <3>2, <4>3, <5>1 DEF MatchedSince
      <4> QED
        BY <2>3, <2>5, <4>1, <4>2, <4>3 DEF TimeAhead, AtHand
    <3> QED
      BY <3>1, <3>3 DEF Sound
  <2>7. \A m \in Scheduling \ {i} : check'[m] = check[m]
    BY <2>1 DEF SchedulerInv, SchedulerTypes
  <2> QED
    BY <1>2, <1>6, <2>4, <2>6, <2>7, OneInstance
<1> QED
  <2>1. CASE loop' = [loop EXCEPT ![i] = "off"] /\ elected' = elected \ {i}
             /\ check' = [check EXCEPT ![i] = NoCheck]
    BY <1>5, <2>1
  <2>2. CASE loop' = [loop EXCEPT ![i] = "asleep"] /\ elected' = elected
             /\ check' = [check EXCEPT ![i] = NoCheck]
    <3>1. loop'[i] # "off"
      BY <2>2 DEF SchedulerInv, SchedulerTypes
    <3> QED
      BY <1>5, <2>2, <3>1
  <2>3. check[i].todo \subseteq ScheduledJob
    BY <1>1 DEF CheckState
  <2> QED
    BY <1>6, <2>1, <2>2, <2>3 DEF Continue

LEMMA SubmitReturnsSound ==
    ASSUME SchedulerInv, NEW i \in Scheduling, SubmitReturns(i) PROVE SchedulerInv'
<1> PICK j : j = check[i].job
  OBVIOUS
<1> DEFINE n == Reschedule(i, j)
<1>1. /\ loop[i] = "submitting" /\ last' = [last EXCEPT ![i][j] = check[i].now]
      /\ unanswered' = unanswered \ {<<i, j>>} /\ nextRun' = [nextRun EXCEPT ![i] = n]
      /\ Continue(i, n) /\ UNCHANGED <<now, jobs, enabled>>
  BY DEF SubmitReturns, Submitted
<1>2. /\ j \in ScheduledJob /\ TimeAhead(i, j) /\ check[i].now \in 0 .. Horizon
      /\ nextRun[i] \in [ScheduledJob -> Nat]
  BY <1>1, SchedulerAssumption
     DEF SchedulerInv, Sound, ChecksInTurn, SchedulerTypes, CheckState
<1>3. last'[i][j] = check[i].now
  BY <1>1, <1>2 DEF SchedulerInv, SchedulerTypes
<1>4. /\ n \in [ScheduledJob -> Nat] /\ \A k \in ScheduledJob \ {j} : n[k] = nextRun[i][k]
      /\ ~Raises(Cron[j], check[i].now) /\ j \in jobs[i] =>
            n[j] > check[i].now /\ Matches(Cron[j], n[j])
  <2>1. CASE ~check[i].held
    BY <1>1, <1>2, <2>1 DEF Reschedule, TimeAhead, AtHand
  <2>2. CASE Raises(Cron[j], check[i].now)
    BY <1>2, <2>2 DEF Reschedule
  <2>3. CASE check[i].held /\ ~Raises(Cron[j], check[i].now)
    <3> DEFINE next == NextRun(Cron[j], check[i].now)
    <3>1. next \in Nat /\ next > check[i].now /\ Matches(Cron[j], next)
      BY <1>2, <2>3, NextRunIsAhead
    <3>2. n = [nextRun[i] EXCEPT ![j] = next]
      BY <2>3 DEF Reschedule
    <3> HIDE DEF next, n
    <3> QED
      BY <1>2, <3>1, <3>2
  <2> QED
    BY <2>1, <2>2, <2>3
<1>5. Settled(i, j)' /\ j \in jobs[i] => n[j] > last'[i][j] /\ Matches(Cron[j], n[j])
  BY <1>3, <1>4 DEF Settled
<1> HIDE DEF n
<1> QED
  BY <1>1, <1>4, <1>5, GoesOn

LEMMA SubmitRaisesSound ==
    ASSUME SchedulerInv, NEW i \in Scheduling, SubmitRaises(i) PROVE SchedulerInv'
<1> PICK j : j = check[i].job
  OBVIOUS
<1> PICK n : n = nextRun[i]
  OBVIOUS
<1>1. /\ loop[i] = "submitting" /\ nextRun' = nextRun
      /\ \/ last' = [last EXCEPT ![i][j] = check[i].now] /\ unanswered' = unanswered \cup {<<i, j>>}
         \/ last' = last /\ unanswered' = unanswered
      /\ Continue(i, n) /\ UNCHANGED <<now, jobs, enabled>>
  BY DEF SubmitRaises, Submitted
<1>2. /\ j \in ScheduledJob /\ TimeAhead(i, j) /\ n \in [ScheduledJob -> Nat]
      /\ nextRun' = [nextRun EXCEPT ![i] = n]
  BY <1>1 DEF SchedulerInv, Sound, ChecksInTurn, SchedulerTypes
<1>3. Settled(i, j)' /\ j \in jobs[i] => n[j] > last'[i][j] /\ Matches(Cron[j], n[j])
  BY <1>1, <1>2 DEF Settled, TimeAhead
<1> QED
  BY <1>1, <1>2, <1>3, GoesOn

LEMMA SchedulerCrashesSound ==
    ASSUME SchedulerInv, NEW i \in Scheduling, SchedulerCrashes(i) PROVE SchedulerInv'
<1>1. /\ loop' = [loop EXCEPT ![i] = "off"] /\ jobs' = [jobs EXCEPT ![i] = {}]
      /\ enabled' = [enabled EXCEPT ![i] = {}] /\ elected' = elected \ {i}
      /\ check' = [check EXCEPT ![i] = NoCheck]
      /\ last' = [last EXCEPT ![i] = [j \in ScheduledJob |-> Nothing]]
      /\ unanswered' = {u \in unanswered : u[1] # i} /\ now' = now /\ nextRun' = nextRun
  BY DEF SchedulerCrashes
<1>2. NoCheck \in CheckState /\ NoCheck.now = 0 /\ now \in Nat
  BY SchedulerAssumption DEF NoCheck, CheckState, SchedulerInv, SchedulerTypes
<1>3. SchedulerTypes'
  <2>1. check' \in [Scheduling -> CheckState] /\ loop' \in [Scheduling -> {"off", "asleep", "submitting"}]
    BY <1>1, <1>2 DEF SchedulerInv, SchedulerTypes
  <2>2. last' \in [Scheduling -> [ScheduledJob -> (0 .. Horizon) \cup {Nothing}]]
    BY <1>1 DEF SchedulerInv, SchedulerTypes
  <2>3. jobs' \in Schedules /\ enabled' \in Schedules
    BY <1>1 DEF SchedulerInv, SchedulerTypes, Schedules
  <2> QED
    BY <1>1, <2>1, <2>2, <2>3 DEF SchedulerInv, SchedulerTypes
<1>4. Sound(i)'
  <2>1. /\ loop'[i] = "off" /\ jobs'[i] = {} /\ check'[i].now = 0
        /\ \A j \in ScheduledJob : last'[i][j] = Nothing
    BY <1>1, <1>2 DEF SchedulerInv, SchedulerTypes, Schedules
  <2> QED
    BY <1>1, <1>2, <2>1 DEF Sound, ChecksInTurn, TimeAhead, AtHand
<1>5. \A k \in Scheduling \ {i} :
         /\ loop'[k] = loop[k] /\ check'[k] = check[k] /\ jobs'[k] = jobs[k]
         /\ last'[k] = last[k] /\ (k \in elected' => k \in elected)
         /\ \A j \in ScheduledJob : <<k, j>> \in unanswered' <=> <<k, j>> \in unanswered
  BY <1>1 DEF SchedulerInv, SchedulerTypes, Schedules
<1> QED
  BY <1>1, <1>3, <1>4, <1>5, OneInstance

LEMMA NextScheduler ==
    ASSUME SchedulerInv, [SchedulerNext]_schedulerVars PROVE SchedulerInv'
<1>1. CASE UNCHANGED schedulerVars
  BY <1>1, TimesStand DEF schedulerVars, SchedulerInv, SchedulerTypes, Sound, ChecksInTurn
<1>2. ASSUME NEW i \in Scheduling, NEW j \in ScheduledJob,
             \/ AddJob(i, j) \/ RemoveJob(i, j) \/ EnableJob(i, j) \/ DisableJob(i, j)
      PROVE  SchedulerInv'
  BY <1>2, AddJobSound, RemoveJobSound, EnabledSound
<1> QED
  BY <1>1, <1>2, LeadersSound, CheckSound, SubmitReturnsSound, SubmitRaisesSound, SchedulerCrashesSound,
     MinuteSound DEF SchedulerNext, SchedulerStep

LEMMA InitScheduler == SchedulerInit => SchedulerInv
<1> SUFFICES ASSUME SchedulerInit PROVE SchedulerInv
  OBVIOUS
<1>1. /\ now = 0 /\ now \in 0 .. Horizon
      /\ jobs = [i \in Scheduling |-> {j \in ScheduledJob : ~Raises(Cron[j], 0)}] /\ enabled = jobs
      /\ nextRun = [i \in Scheduling |->
                      [j \in ScheduledJob |-> IF Raises(Cron[j], 0) THEN 0 ELSE NextRun(Cron[j], 0)]]
      /\ elected \subseteq Scheduling
      /\ loop = [i \in Scheduling |-> "asleep"]
      /\ check = [i \in Scheduling |-> NoCheck]
      /\ last = [i \in Scheduling |-> [j \in ScheduledJob |-> Nothing]] /\ unanswered = {}
  BY SchedulerAssumption DEF SchedulerInit
<1>2. NoCheck \in CheckState /\ NoCheck.now = 0
  BY DEF NoCheck, CheckState
<1>3. SchedulerTypes
  <2>1. \A j \in ScheduledJob : ~Raises(Cron[j], 0) => NextRun(Cron[j], 0) \in Nat
    BY <1>1, NextRunIsAhead
  <2>2. nextRun \in [Scheduling -> [ScheduledJob -> Nat]]
    BY <1>1, <2>1
  <2> QED
    BY <1>1, <1>2, <2>2 DEF SchedulerTypes, Schedules
<1>4. ASSUME NEW i \in Scheduling PROVE Sound(i)
  BY <1>1, <1>2 DEF Sound, ChecksInTurn, TimeAhead, Settled, AtHand
<1> QED
  BY <1>3, <1>4 DEF SchedulerInv

\* The variables of the scheduler keep their types, and only a scheduler that runs
\* leads, for any number of instances and schedules, any expressions and calendar.
THEOREM SchedulerTypesHold == SchedulerSpec => []SchedulerTypeOK
<1>1. SchedulerInv => SchedulerTypeOK
  <2> SUFFICES ASSUME SchedulerInv PROVE SchedulerTypeOK
    OBVIOUS
  <2>1. elected \subseteq {i \in Scheduling : loop[i] # "off"}
    BY DEF SchedulerInv, SchedulerTypes, Sound, ChecksInTurn
  <2>2. \A i \in Scheduling : loop[i] = "submitting" => check[i].job \in ScheduledJob
    BY DEF SchedulerInv, Sound, ChecksInTurn
  <2> QED
    BY <2>1, <2>2 DEF SchedulerTypeOK, SchedulerInv, SchedulerTypes
<1> QED
  BY <1>1, InitScheduler, NextScheduler, PTL DEF SchedulerSpec

\* Whatever is added, removed, replaced, enabled or disabled while a submission is
\* awaited, a job is submitted again only when its expression has matched since the
\* check that submitted it last, unless that submission was reported as failed or
\* next_run raised (JobScheduler._check_schedules).
THEOREM SubmittedOncePerInstance == SchedulerSpec => OncePerMatchAndInstance
<1>1. SchedulerInv =>
         \A i \in Scheduling, j \in ScheduledJob :
            SubmitsAgain(i, j)
            => \/ MatchedSince(i, j)
               \/ <<i, j>> \in unanswered
               \/ Raises(Cron[j], last[i][j])
  BY DEF SchedulerInv, Sound, TimeAhead, SubmitsAgain, AtHand, Settled
<1> QED
  BY <1>1, InitScheduler, NextScheduler, PTL DEF SchedulerSpec, OncePerMatchAndInstance
-----------------------------------------------------------------------------
(* The composition of MCBackground.  Whichever part moves, the others keep *)
(* still, so that each behaves as it does alone.                           *)

\* The elections, the queue without faults and the schedulers behave, one beside the
\* other, as each does alone.
THEOREM PartsBehave ==
    BackgroundSpec => /\ Spec /\ SchedulerSpec
                      /\ QueueSpec /\ QueueInit /\ [][CalmNext]_queueVars
<1>1. BackgroundInit => Init /\ QueueInit /\ SchedulerInit
  BY DEF BackgroundInit
<1>2. [BackgroundNext]_backgroundVars
      => /\ [Next]_vars /\ [SchedulerNext]_schedulerVars
         /\ [QueueNext]_queueVars /\ [CalmNext]_queueVars
  <2>1. ASSUME UNCHANGED backgroundVars
        PROVE  UNCHANGED vars /\ UNCHANGED queueVars /\ UNCHANGED schedulerVars
    BY <2>1 DEF backgroundVars, leaderVars, vars
  <2>2. ASSUME OfLeader(Next)
        PROVE  Next /\ UNCHANGED queueVars /\ UNCHANGED schedulerVars
    BY <2>2 DEF OfLeader
  <2>3. ASSUME OfQueue(CalmNext)
        PROVE  UNCHANGED vars /\ CalmNext /\ QueueNext /\ UNCHANGED schedulerVars
    BY <2>3 DEF OfQueue, leaderVars, vars, QueueNext
  <2>4. ASSUME \/ OfSchedule("schedule", SchedulerNext /\ OneSchedule)
               \/ OfSchedule("failover", SchedulerNext /\ Failover)
        PROVE  UNCHANGED vars /\ UNCHANGED queueVars /\ SchedulerNext
    BY <2>4 DEF OfSchedule, leaderVars, vars
  <2> QED
    BY <2>1, <2>2, <2>3, <2>4 DEF BackgroundNext
<1> QED
  BY <1>1, <1>2, PTL DEF BackgroundSpec, Spec, QueueSpec, SchedulerSpec

\* So all that was proved of the parts holds of the composition: the types, at most one
\* leader unless somebody is late, locks that only their owners release, no job that is
\* lost or loses its result, and one submission per match of an expression.
THEOREM BackgroundHolds ==
    BackgroundSpec => /\ [](BackgroundTypeOK /\ OneLeaderUnlessLate /\ NothingLost)
                      /\ OnlyOwnersUnlock /\ FinishedStays /\ OncePerMatchAndInstance
<1>1. QueueInit => CalmInv
  BY CalmInitially
<1>2. CalmInv /\ [CalmNext]_queueVars => CalmInv'
  BY CalmStep
<1>3. CalmInv => NothingLost
  BY CalmFinds
<1>4. CalmInv /\ [CalmNext]_queueVars
      => [\A j \in Job :
            job[j] # Nothing /\ job[j].status \in Final => job'[j] = job[j]]_queueVars
  BY FinalKept
<1>5. QueueInit /\ [][CalmNext]_queueVars => []NothingLost /\ FinishedStays
  BY <1>1, <1>2, <1>3, <1>4, PTL DEF FinishedStays
<1>6. TypeOK /\ QueueTypeOK /\ SchedulerTypeOK => BackgroundTypeOK
  BY DEF BackgroundTypeOK
<1> QED
  BY <1>5, <1>6, PartsBehave, LeaseTypes, JobTypes, SchedulerTypesHold, NoSplitBrainInTime,
     LocksAreSafe, SubmittedOncePerInstance, PTL
=============================================================================
