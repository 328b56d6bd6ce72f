----------------------------- MODULE ServicesProofs -----------------------------
(***************************************************************************)
(* Theorems about the services around the documents: the rate limiter, for *)
(* any window, limit and delay; the federation, for any number of peers,   *)
(* entities, changes and overlapping runs; the edge controller, for any    *)
(* number of tasks and any size of its offline queue; the clients that are *)
(* told of events, for any number of them, of topics and of events; the    *)
(* engine of the access control, for any policies and requests; and the    *)
(* plugins, for any number of them and of tasks that load or execute them. *)
(* For each of them its types, and what it promises; and that all of this, *)
(* and what JobQueueProofs says, holds of their composition, MCServices.   *)
(***************************************************************************)
EXTENDS MCServices, JobQueueProofs

-----------------------------------------------------------------------------
(* The rate limiter.  An entry that a transaction removes has left the     *)
(* window of that transaction, whose stamp is not later than the clock: a  *)
(* stamp that is counted and still in the window of the clock is an entry. *)

NoneForgotten == \A c \in counted : c > time - Window => c \in entries

StampsInTime ==
    \A r \in Request : stamp[r] # Nothing => stamp[r] \in 0 .. time /\ time <= stamp[r] + MaxDelay

LimiterInv == RateTypeOK /\ NoneForgotten /\ StampsInTime /\ LimitHolds /\ RefusedOnlyWhenFull

LEMMA LimiterSizes ==
    /\ Window \in Nat /\ Limit \in Nat /\ MaxDelay \in Nat /\ MaxTime \in Nat
    /\ \A n \in Nat : n # Nothing
BY LimiterAssumption

\* Sets of stamps are finite, and their sizes are ordered as they are.
LEMMA Stamps ==
    ASSUME NEW n \in Nat, NEW S \in SUBSET (0 .. n), NEW T \in SUBSET S
    PROVE  /\ IsFiniteSet(S) /\ IsFiniteSet(T)
           /\ Cardinality(S) \in Nat /\ Cardinality(T) \in Nat
           /\ Cardinality(T) <= Cardinality(S)
<1> PICK low, high : low = 0 /\ high = n
  OBVIOUS
<1>1. low \in Int /\ high \in Int /\ S \in SUBSET (low .. high)
  OBVIOUS
<1> QED
  BY ONLY <1>1, T \in SUBSET S, Within

\* What is remembered of requests are their stamps, and all of them were counted.
LEMMA CountedStamps ==
    ASSUME RateTypeOK
    PROVE  /\ time \in Nat /\ counted \subseteq 0 .. time
           /\ entries \subseteq counted /\ admitted \subseteq counted /\ refused \subseteq counted
BY LimiterSizes DEF RateTypeOK

\* The requests let through in the window that ends at t.
AdmittedIn(t) == {a \in admitted : t - (Window - MaxDelay) < a /\ a <= t}

\* Who was counted besides s, and less than a window before it.
CountedBeside(s) == {c \in counted \ {s} : c > s - Window}

LEMMA LimiterStands ==
    ASSUME LimiterInv, UNCHANGED <<counted, admitted, refused>>, time' \in {time, time + 1},
           NoneForgotten', StampsInTime', RateTypeOK'
    PROVE  LimiterInv'
<1>1. ASSUME NEW t \in 0 .. time' PROVE Cardinality(AdmittedIn(t)) <= Limit
  <2>1. CASE t \in 0 .. time
    BY <2>1 DEF LimiterInv, LimitHolds, AdmittedIn
  <2>2. CASE t = time + 1
    <3>1. time \in 0 .. time /\ time \in Nat
      BY LimiterSizes DEF LimiterInv, RateTypeOK
    <3>2. admitted \subseteq 0 .. time
      BY CountedStamps DEF LimiterInv
    <3>3. AdmittedIn(t) \subseteq AdmittedIn(time)
      <4> SUFFICES ASSUME NEW a \in AdmittedIn(t) PROVE a \in AdmittedIn(time)
        OBVIOUS
      <4>1. a \in admitted /\ a \in Nat /\ a <= time /\ t - (Window - MaxDelay) < a
        BY <3>2 DEF AdmittedIn
      <4>2. time - (Window - MaxDelay) < a
        BY <2>2, <3>1, <4>1, LimiterSizes
      <4> QED
        BY <4>1, <4>2 DEF AdmittedIn
    <3>4. AdmittedIn(time) \in SUBSET (0 .. time)
      BY <3>2 DEF AdmittedIn
    <3>5. Cardinality(AdmittedIn(time)) <= Limit
      BY <3>1 DEF LimiterInv, LimitHolds, AdmittedIn
    <3>6. /\ Cardinality(AdmittedIn(t)) <= Cardinality(AdmittedIn(time))
          /\ Cardinality(AdmittedIn(t)) \in Nat /\ Cardinality(AdmittedIn(time)) \in Nat
      BY <3>1, <3>3, <3>4, Stamps
    <3> QED
      BY <3>5, <3>6, LimiterSizes
  <2> QED
    BY <2>1, <2>2 DEF LimiterInv, RateTypeOK
<1>2. LimitHolds'
  BY <1>1 DEF LimitHolds, AdmittedIn
<1>3. RefusedOnlyWhenFull'
  BY DEF LimiterInv, RefusedOnlyWhenFull
<1> QED
  BY <1>2, <1>3 DEF LimiterInv

LEMMA TickLimiter == ASSUME LimiterInv, Tick PROVE LimiterInv'
<1>1. RateTypeOK'
  BY LimiterSizes DEF LimiterInv, Tick, RateTypeOK
<1>2. NoneForgotten'
  BY LimiterSizes DEF LimiterInv, Tick, RateTypeOK, NoneForgotten
<1>3. StampsInTime'
  BY LimiterSizes DEF LimiterInv, Tick, RateTypeOK, StampsInTime
<1> QED
  BY <1>1, <1>2, <1>3, LimiterStands DEF Tick

LEMMA DispatchLimiter ==
    ASSUME LimiterInv, NEW r \in Request, Dispatch(r) PROVE LimiterInv'
<1>1. RateTypeOK'
  BY LimiterSizes DEF LimiterInv, Dispatch, RateTypeOK
<1>2. NoneForgotten'
  BY DEF LimiterInv, Dispatch, NoneForgotten
<1>3. StampsInTime'
  BY LimiterSizes DEF LimiterInv, Dispatch, RateTypeOK, StampsInTime
<1> QED
  BY <1>1, <1>2, <1>3, LimiterStands DEF Dispatch

\* The transaction keeps what the clock's window needs.
LEMMA Counts ==
    ASSUME LimiterInv, NEW r \in Request, stamp[r] # Nothing,
           entries' = InWindow(stamp[r]) \cup {stamp[r]}, counted' = counted \cup {stamp[r]},
           stamp' = [stamp EXCEPT ![r] = Nothing], time' = time,
           admitted' \cup refused' \subseteq admitted \cup refused \cup {stamp[r]}
    PROVE  RateTypeOK' /\ NoneForgotten' /\ StampsInTime'
<1>1. stamp[r] \in 0 .. time /\ time \in 0 .. MaxTime
  BY DEF LimiterInv, StampsInTime, RateTypeOK
<1>2. entries \subseteq counted /\ admitted \cup refused \subseteq entries \cup counted
  BY DEF LimiterInv, RateTypeOK
<1>3. entries' \cup admitted' \cup refused' \subseteq counted'
  BY <1>2 DEF InWindow, LimiterInv, RateTypeOK
<1>4. stamp' \in [Request -> {Nothing} \cup 0 .. time]
  BY DEF LimiterInv, RateTypeOK
<1>5. RateTypeOK'
  BY <1>1, <1>3, <1>4 DEF LimiterInv, RateTypeOK
<1>6. NoneForgotten'
  BY <1>1, LimiterSizes DEF LimiterInv, NoneForgotten, InWindow, RateTypeOK
<1>7. StampsInTime'
  BY DEF LimiterInv, StampsInTime, RateTypeOK
<1> QED
  BY <1>5, <1>6, <1>7

\* Who is refused has a full window of stamps, and keeps it.
LEMMA RefusalsStand ==
    ASSUME LimiterInv, RateTypeOK', counted \subseteq counted', NEW s \in refused
    PROVE  Cardinality(CountedBeside(s))' >= Limit - 1
<1>1. Cardinality(CountedBeside(s)) >= Limit - 1
  BY DEF LimiterInv, RefusedOnlyWhenFull, CountedBeside
<1>2. CountedBeside(s) \subseteq CountedBeside(s)'
  BY DEF CountedBeside
<1>3. time' \in Nat /\ CountedBeside(s)' \in SUBSET (0 .. time')
  <2>1. time' \in Nat /\ counted' \in SUBSET (0 .. time')
    BY LimiterSizes DEF RateTypeOK
  <2> QED
    BY <2>1 DEF CountedBeside
<1>4. Cardinality(CountedBeside(s)) <= Cardinality(CountedBeside(s))'
  BY <1>2, <1>3, Stamps
<1>5. Cardinality(CountedBeside(s)) \in Nat /\ Cardinality(CountedBeside(s))' \in Nat
  BY <1>2, <1>3, Stamps
<1> QED
  BY <1>1, <1>4, <1>5, LimiterSizes

LEMMA RedisFailsLimiter ==
    ASSUME LimiterInv, NEW r \in Request, RedisFails(r) PROVE LimiterInv'
<1>1. CASE UNCHANGED <<entries, counted>>
  <2>1. RateTypeOK' /\ StampsInTime'
    BY <1>1 DEF LimiterInv, RedisFails, RateTypeOK, StampsInTime
  <2>2. NoneForgotten'
    BY <1>1 DEF LimiterInv, RedisFails, NoneForgotten
  <2> QED
    BY <1>1, <2>1, <2>2, LimiterStands DEF RedisFails
<1>2. CASE entries' = InWindow(stamp[r]) \cup {stamp[r]} /\ counted' = counted \cup {stamp[r]}
  <2>1. RateTypeOK' /\ NoneForgotten' /\ StampsInTime'
    BY <1>2, Counts DEF RedisFails
  <2>2. LimitHolds'
    BY DEF RedisFails, LimiterInv, LimitHolds
  <2>3. RefusedOnlyWhenFull'
    BY <1>2, <2>1, RefusalsStand DEF RefusedOnlyWhenFull, CountedBeside, RedisFails
  <2> QED
    BY <2>1, <2>2, <2>3 DEF LimiterInv
<1> QED
  BY <1>1, <1>2 DEF RedisFails

LEMMA IsAllowedLimiter ==
    ASSUME LimiterInv, NEW r \in Request, IsAllowed(r) PROVE LimiterInv'
<1> PICK now : now = stamp[r]
  OBVIOUS
<1>1. RateTypeOK' /\ NoneForgotten' /\ StampsInTime'
  BY Counts DEF IsAllowed
<1>2. /\ now \in 0 .. time /\ time <= now + MaxDelay /\ time \in Nat /\ now \in Nat
      /\ time' = time /\ counted' = counted \cup {now}
  BY DEF IsAllowed, LimiterInv, StampsInTime, RateTypeOK
<1>3. InWindow(now) \in SUBSET (0 .. time) /\ InWindow(now) \subseteq counted
  BY DEF InWindow, LimiterInv, RateTypeOK
<1>4. IsFiniteSet(InWindow(now)) /\ Cardinality(InWindow(now)) \in Nat
  BY <1>2, <1>3, Stamps
<1>5. CASE Admits(Cardinality(InWindow(now))) /\ admitted' = admitted \cup {now} /\ refused' = refused
  <2>1. ASSUME NEW t \in 0 .. time PROVE Cardinality(AdmittedIn(t)') <= Limit
    <3>1. CASE now \notin AdmittedIn(t)'
      <4>1. AdmittedIn(t)' = AdmittedIn(t)
        BY <1>5, <3>1 DEF AdmittedIn
      <4> QED
        BY <4>1 DEF LimiterInv, LimitHolds, AdmittedIn
    <3>2. CASE now \in AdmittedIn(t)'
      <4>1. ASSUME NEW a \in AdmittedIn(t)' PROVE a \in InWindow(now) \cup {now}
        <5>1. CASE a = now
          BY <5>1
        <5>2. CASE a # now
          <6>1. a \in admitted /\ t - (Window - MaxDelay) < a
            BY <1>5, <4>1, <5>2 DEF AdmittedIn
          <6>2. a \in counted /\ a \in Nat
            BY <6>1, CountedStamps DEF LimiterInv
          <6>3. now <= t /\ t \in Nat
            BY <1>2, <3>2 DEF AdmittedIn
          <6>4. a > now - Window /\ a > time - Window
            BY <1>2, <6>1, <6>2, <6>3, LimiterSizes
          <6> QED
            BY <6>2, <6>4 DEF LimiterInv, NoneForgotten, InWindow
        <5> QED
          BY <5>1, <5>2
      <4>2. InWindow(now) \cup {now} \in SUBSET (0 .. time)
        BY <1>2, <1>3
      <4>3. AdmittedIn(t)' \in SUBSET (InWindow(now) \cup {now})
        BY <4>1
      <4>4. Cardinality(AdmittedIn(t)') <= Cardinality(InWindow(now) \cup {now})
        BY <1>2, <4>2, <4>3, Stamps
      <4>5. Cardinality(InWindow(now) \cup {now})
               = IF now \in InWindow(now) THEN Cardinality(InWindow(now))
                 ELSE Cardinality(InWindow(now)) + 1
        BY <1>4, FS_AddElement
      <4>6. Cardinality(InWindow(now)) < Limit
        BY <1>5 DEF Admits
      <4>7. /\ Cardinality(AdmittedIn(t)') \in Nat
            /\ Cardinality(InWindow(now) \cup {now}) \in Nat
        BY <1>2, <4>2, <4>3, Stamps
      <4> QED
        BY <1>4, <4>4, <4>5, <4>6, <4>7, LimiterSizes
    <3> QED
      BY <3>1, <3>2
  <2>2. LimitHolds'
    BY <1>2, <2>1 DEF LimitHolds, AdmittedIn
  <2>3. RefusedOnlyWhenFull'
    BY <1>1, <1>2, <1>5, RefusalsStand DEF RefusedOnlyWhenFull, CountedBeside
  <2> QED
    BY <1>1, <2>2, <2>3 DEF LimiterInv
<1>6. CASE ~Admits(Cardinality(InWindow(now))) /\ refused' = refused \cup {now} /\ admitted' = admitted
  <2>1. LimitHolds'
    BY <1>2, <1>6 DEF LimiterInv, LimitHolds
  <2>2. Cardinality(CountedBeside(now)') >= Limit - 1
    <3>1. InWindow(now) \ {now} \subseteq CountedBeside(now)'
      BY <1>2, <1>3 DEF InWindow, CountedBeside
    <3>2. CountedBeside(now)' \in SUBSET (0 .. time)
      BY <1>1, <1>2 DEF CountedBeside, RateTypeOK
    <3>3. /\ Cardinality(InWindow(now) \ {now}) <= Cardinality(CountedBeside(now)')
          /\ Cardinality(CountedBeside(now)') \in Nat
          /\ Cardinality(InWindow(now) \ {now}) \in Nat
      BY <1>2, <3>1, <3>2, Stamps
    <3>4. Cardinality(InWindow(now) \ {now})
             = IF now \in InWindow(now) THEN Cardinality(InWindow(now)) - 1
               ELSE Cardinality(InWindow(now))
      BY <1>4, FS_RemoveElement
    <3>5. Cardinality(InWindow(now)) >= Limit
      BY <1>4, <1>6, LimiterSizes DEF Admits
    <3> QED
      BY <1>4, <3>3, <3>4, <3>5, LimiterSizes
  <2>3. \A s \in refused : Cardinality(CountedBeside(s)') >= Limit - 1
    BY <1>1, <1>2, RefusalsStand
  <2>4. RefusedOnlyWhenFull'
    BY <1>6, <2>2, <2>3 DEF RefusedOnlyWhenFull, CountedBeside
  <2> QED
    BY <1>1, <2>1, <2>4 DEF LimiterInv
<1> QED
  BY <1>5, <1>6 DEF IsAllowed

LEMMA NextLimiter == ASSUME LimiterInv, [RateNext]_rateVars PROVE LimiterInv'
<1>1. CASE UNCHANGED rateVars
  BY <1>1 DEF rateVars, LimiterInv, RateTypeOK, NoneForgotten, StampsInTime, LimitHolds,
     RefusedOnlyWhenFull
<1> QED
  BY <1>1, TickLimiter, DispatchLimiter, IsAllowedLimiter, RedisFailsLimiter DEF RateNext

LEMMA InitLimiter == RateInit => LimiterInv
<1> SUFFICES ASSUME RateInit PROVE LimiterInv
  OBVIOUS
<1>1. RateTypeOK /\ NoneForgotten /\ StampsInTime
  BY LimiterSizes DEF RateInit, RateTypeOK, NoneForgotten, StampsInTime
<1>2. \A t \in 0 .. time : AdmittedIn(t) = {}
  BY DEF RateInit, AdmittedIn
<1>3. LimitHolds
  BY <1>2, FS_EmptySet, LimiterSizes DEF LimitHolds, AdmittedIn
<1> QED
  BY <1>1, <1>3 DEF RateInit, LimiterInv, RefusedOnlyWhenFull

\* The limiter's state is of its types: what it holds, lets through and refuses are stamps
\* of requests that came, and none is of the future (RateLimiter).
THEOREM RateTypesHold == RateSpec => []RateTypeOK
<1>1. LimiterInv => RateTypeOK
  BY DEF LimiterInv
<1> QED
  BY <1>1, InitLimiter, NextLimiter, PTL DEF RateSpec

\* The limiter keeps its limit in every window, shortened by what a transaction may
\* be late, and refuses only where a window is full, for any window, limit, delay
\* and number of requests in flight (SlidingWindowRateLimiter.is_allowed).
THEOREM LimiterIsExact == RateSpec => []LimiterExact
<1>1. LimiterInv => LimiterExact
  BY DEF LimiterInv, LimiterExact
<1> QED
  BY <1>1, InitLimiter, NextLimiter, PTL DEF RateSpec

-----------------------------------------------------------------------------
(* The federation.  A run knows what the peer it is at has taken from it;  *)
(* what a peer took from a run that has left it is before the stamp that   *)
(* the run gave the peer.                                                  *)

RunState == [pc : {"idle", "push", "pull"}, peer : Peer \cup {Nothing}, peers : SUBSET Peer,
             changes : SUBSET Nat, tried : SUBSET Nat, synced : SUBSET Nat, page : Nat,
             alone : BOOLEAN]

TrackedChange == [entity : Entity, operation : Operation]

Running(r) == sync[r].pc # "idle"

\* What a run has at hand are changes, and its peer is off its list.
GoodRun(s) ==
    /\ s.pc = "push" => s.changes # {}
    /\ s.changes \cup s.tried \subseteq 1 .. Now
    /\ s.pc # "idle" => s.peer \in Peer \ s.peers
    /\ s.synced \subseteq s.tried

GoodRuns ==
    /\ tracked \in Seq(TrackedChange)
    /\ sync \in [Sync -> RunState]
    /\ \A r \in Sync : GoodRun(sync[r])

SyncedTaken == \A r \in Sync : \A n \in sync[r].synced : <<n, sync[r].peer>> \in taken

\* Run r has tried change m at peer p.
TriedAt(r, m, p) == Running(r) /\ sync[r].peer = p /\ m \in sync[r].tried

TakenStamped ==
    \A m \in 1 .. Now, p \in Peer :
        <<m, p>> \in taken => m <= lastSync[p] \/ \E r \in Sync : TriedAt(r, m, p)

AloneRuns ==
    \A r, o \in Sync : r # o /\ Running(r) /\ sync[r].alone => ~Running(o)

\* What is left to push is after the stamp, and after what was tried.
InOrder ==
    \A r \in Sync : Delta /\ sync[r].pc = "push" /\ sync[r].alone =>
        \A n \in sync[r].changes :
            n > lastSync[sync[r].peer] /\ \A m \in sync[r].tried : m < n

FedInv ==
    FederationTypeOK /\ GoodRuns /\ SyncedTaken /\ TakenStamped /\ AloneRuns /\ InOrder

\* Sets of changes are finite, and their sizes are ordered as they are.
LEMMA Changes ==
    ASSUME NEW n \in Nat, NEW S \in SUBSET (1 .. n), NEW T \in SUBSET S
    PROVE  /\ IsFiniteSet(S) /\ IsFiniteSet(T)
           /\ Cardinality(S) \in Nat /\ Cardinality(T) \in Nat
           /\ Cardinality(T) <= Cardinality(S)
           /\ Cardinality(T) = Cardinality(S) => T = S
<1> PICK low, high : low = 1 /\ high = n
  OBVIOUS
<1>1. low \in Int /\ high \in Int /\ S \in SUBSET (low .. high)
  OBVIOUS
<1> QED
  BY ONLY <1>1, T \in SUBSET S, Within

LEMMA NowIsNat == ASSUME GoodRuns PROVE Now \in Nat
BY DEF GoodRuns, Now

\* What does not concern the runs and what the peers took leaves the invariant alone.
LEMMA FedStands ==
    ASSUME FedInv, UNCHANGED <<tracked, lastSync, sync, taken>>, FederationTypeOK'
    PROVE  FedInv'
<1>1. GoodRuns' /\ SyncedTaken'
  BY DEF FedInv, GoodRuns, GoodRun, SyncedTaken, Now
<1>2. TakenStamped' /\ AloneRuns' /\ InOrder'
  BY DEF FedInv, TakenStamped, AloneRuns, InOrder, TriedAt, Running, Now
<1> QED
  BY <1>1, <1>2 DEF FedInv

\* A peer, a document, a conflict or a status changes; the queue may be cleared.
LEMMA Besides ==
    ASSUME FedInv, UNCHANGED <<tracked, lastSync, sync, taken, etags, mode>>,
           queue' \in {queue, {}}, remote' \in [Peer -> [Entity -> -1 .. Now]]
    PROVE  FedInv'
<1>1. Cardinality({}) = 0
  BY FS_EmptySet
<1>2. MaxSize > 1 => Cardinality(queue') <= MaxSize
  <2>1. MaxSize > 1 => Cardinality(queue) <= MaxSize /\ 0 <= MaxSize
    BY FederationAssumption DEF FedInv, FederationTypeOK
  <2>2. CASE queue' = {}
    BY <1>1, <2>1, <2>2
  <2>3. CASE queue' = queue
    BY <2>1, <2>3
  <2> QED
    BY <2>2, <2>3
<1>3. FederationTypeOK'
  BY <1>2 DEF FedInv, FederationTypeOK, Now
<1> QED
  BY <1>3, FedStands

-----------------------------------------------------------------------------
(* The queue.                                                              *)

\* Of the newest changes there are no more than are asked for.
LEMMA NewestFew ==
    ASSUME NEW n \in Nat, NEW q \in SUBSET (1 .. n), NEW k \in Nat \ {0}
    PROVE  Newest(q, k) \subseteq q /\ Cardinality(Newest(q, k)) <= k
<1> DEFINE from(x) == {m \in q : m >= x}
<1>1. Newest(q, k) \subseteq q /\ Newest(q, k) \in SUBSET Nat
  <2>1. Newest(q, k) \subseteq q
    BY DEF Newest
  <2>2. q \subseteq Nat
    OBVIOUS
  <2> QED
    BY <2>1, <2>2
<1>2. CASE Newest(q, k) = {}
  BY <1>2, FS_EmptySet
<1>3. CASE Newest(q, k) # {}
  <2>1. PICK x \in Newest(q, k) : \A y \in Newest(q, k) : x <= y
    BY <1>1, <1>3, Least
  <2>2. Cardinality(from(x)) <= k
    BY <2>1 DEF Newest
  <2>3. Newest(q, k) \subseteq from(x)
    BY <1>1, <2>1
  <2>4. from(x) \in SUBSET (1 .. n)
    OBVIOUS
  <2>5. /\ Cardinality(Newest(q, k)) <= Cardinality(from(x))
        /\ Cardinality(Newest(q, k)) \in Nat /\ Cardinality(from(x)) \in Nat
    BY <2>3, <2>4, Changes
  <2> QED
    BY <1>1, <2>2, <2>5
<1> QED
  BY <1>2, <1>3

\* A change added to a queue that is not too long leaves it so, and what it drops
\* is the oldest of a full queue.
LEMMA AddKeeps ==
    ASSUME NEW n \in Nat, NEW q \in SUBSET (1 .. n), MaxSize > 1 => Cardinality(q) <= MaxSize
    PROVE  /\ AddChange(q, n + 1) \subseteq 1 .. n + 1
           /\ MaxSize > 1 => Cardinality(AddChange(q, n + 1)) <= MaxSize
           /\ \A k \in q \ AddChange(q, n + 1) : Cardinality(q) >= MaxSize /\ k = Min(q)
<1> DEFINE kept == IF Cardinality(q) >= MaxSize THEN Newest(q, MaxSize - 1) ELSE q
<1>1. MaxSize \in Nat \ {0} /\ Cardinality(q) \in Nat /\ IsFiniteSet(q)
  BY FederationAssumption, Changes
<1>2. kept \subseteq q
  BY DEF Newest
<1>3. AddChange(q, n + 1) = kept \cup {n + 1}
  BY DEF AddChange
<1>4. AddChange(q, n + 1) \subseteq 1 .. n + 1
  <2>1. q \subseteq 1 .. n + 1 /\ n + 1 \in 1 .. n + 1
    OBVIOUS
  <2> HIDE DEF kept
  <2> QED
    BY <1>2, <1>3, <2>1
<1>5. ASSUME MaxSize > 1 PROVE Cardinality(AddChange(q, n + 1)) <= MaxSize
  <2>1. Cardinality(kept) <= MaxSize - 1
    <3>1. CASE Cardinality(q) >= MaxSize
      <4>1. MaxSize - 1 \in Nat \ {0}
        BY <1>1, <1>5
      <4>2. Cardinality(Newest(q, MaxSize - 1)) <= MaxSize - 1
        BY <4>1, NewestFew
      <4> QED
        BY <3>1, <4>2
    <3>2. CASE ~(Cardinality(q) >= MaxSize)
      BY <1>1, <3>2
    <3> QED
      BY <3>1, <3>2
  <2> HIDE DEF kept
  <2>2. IsFiniteSet(kept) /\ Cardinality(kept) \in Nat
    BY <1>2, Changes
  <2>3. Cardinality(kept \cup {n + 1})
           = IF n + 1 \in kept THEN Cardinality(kept) ELSE Cardinality(kept) + 1
    BY <2>2, FS_AddElement
  <2>4. Cardinality(kept \cup {n + 1}) <= MaxSize
    BY <1>1, <2>1, <2>2, <2>3
  <2> QED
    BY <1>3, <2>4
<1>6. ASSUME NEW k \in q \ AddChange(q, n + 1)
      PROVE  Cardinality(q) >= MaxSize /\ k = Min(q)
  <2>1. k \notin kept
    BY <1>3, <1>6
  <2>2. Cardinality(q) >= MaxSize /\ k \notin Newest(q, MaxSize - 1)
    BY <2>1
  <2> DEFINE from == {m \in q : m >= k}
  <2>3. MaxSize - 1 # 0 /\ ~(Cardinality(from) <= MaxSize - 1)
    BY <2>2 DEF Newest
  <2>4. Cardinality(q) = MaxSize
    BY <1>1, <2>2, <2>3
  <2>5. Cardinality(from) <= Cardinality(q) /\ Cardinality(from) \in Nat
    BY Changes
  <2>6. Cardinality(from) = Cardinality(q)
    BY <1>1, <2>3, <2>4, <2>5
  <2>7. from = q
    BY <2>6, Changes
  <2>8. \A m \in q : m >= k
    BY <2>7
  <2>9. q \in SUBSET Nat /\ k \in q
    BY <1>6
  <2>10. Min(q) \in q /\ Min(q) <= k
    BY <2>9, MinOf
  <2>11. Min(q) \in Nat /\ k \in Nat /\ Min(q) >= k
    BY <2>8, <2>9, <2>10
  <2>12. k = Min(q)
    BY <2>10, <2>11
  <2> QED
    BY <2>2, <2>12
<1> QED
  BY <1>4, <1>5, <1>6

-----------------------------------------------------------------------------
(* Steps of the federation.                                                *)

LEMMA TrackChangeFed ==
    ASSUME FedInv, NEW e \in Entity, NEW operation \in Operation, NEW tagged \in BOOLEAN,
           TrackChange(e, operation, tagged)
    PROVE  FedInv' /\ \A n \in queue \ queue' : Now' > Now /\ Cardinality(queue) >= MaxSize
                                                /\ n = Min(queue)
<1>1. Now \in Nat /\ Now' = Now + 1 /\ tracked' \in Seq(TrackedChange)
  BY DEF FedInv, GoodRuns, TrackChange, Now, TrackedChange
<1>2. queue' = AddChange(queue, Now + 1)
  BY DEF TrackChange
<1>3. queue \in SUBSET (1 .. Now) /\ (MaxSize > 1 => Cardinality(queue) <= MaxSize)
  BY DEF FedInv, FederationTypeOK
<1>4. /\ queue' \subseteq 1 .. Now' /\ (MaxSize > 1 => Cardinality(queue') <= MaxSize)
      /\ \A n \in queue \ queue' : Cardinality(queue) >= MaxSize /\ n = Min(queue)
  BY <1>1, <1>2, <1>3, AddKeeps
<1>5. FederationTypeOK'
  <2>1. etags' \in [Entity -> 0 .. Now']
    BY <1>1 DEF FedInv, FederationTypeOK, TrackChange
  <2>2. lastSync' \in [Peer -> 0 .. Now']
    BY <1>1 DEF FedInv, FederationTypeOK, TrackChange
  <2>3. remote' \in [Peer -> [Entity -> -1 .. Now']]
    <3>1. -1 .. Now \subseteq -1 .. Now'
      BY <1>1
    <3>2. remote' = remote /\ remote \in [Peer -> [Entity -> -1 .. Now]]
      BY DEF FedInv, FederationTypeOK, TrackChange
    <3> QED
      BY <3>1, <3>2
  <2>4. taken' \subseteq (1 .. Now') \X Peer
    BY <1>1 DEF FedInv, FederationTypeOK, TrackChange
  <2>5. \A r \in Sync : sync'[r] = sync[r] /\ sync[r].changes \subseteq 1 .. Now
    BY DEF FedInv, GoodRuns, GoodRun, TrackChange
  <2>6. 1 .. Now \subseteq 1 .. Now'
    BY <1>1
  <2>7. mode' = mode
    BY DEF TrackChange
  <2> QED
    BY <1>4, <2>1, <2>2, <2>3, <2>4, <2>5, <2>6, <2>7 DEF FedInv, FederationTypeOK
<1>6. GoodRuns'
  <2>1. 1 .. Now \subseteq 1 .. Now'
    BY <1>1
  <2> QED
    BY <1>1, <2>1 DEF FedInv, GoodRuns, GoodRun, TrackChange
<1>7. SyncedTaken' /\ AloneRuns' /\ InOrder'
  BY DEF FedInv, SyncedTaken, AloneRuns, InOrder, Running, TrackChange
<1>8. TakenStamped'
  <2>1. \A m \in 1 .. Now', p \in Peer : <<m, p>> \in taken => m \in 1 .. Now
    BY DEF FedInv, FederationTypeOK
  <2> QED
    BY <2>1 DEF FedInv, TakenStamped, TriedAt, Running, TrackChange
<1> QED
  BY <1>1, <1>4, <1>5, <1>6, <1>7, <1>8 DEF FedInv

\* Run r is now at the next of the peers on its list, with what the queue has for
\* it, or over; the peers it is done with have their stamp.
Arrived(r, s, done, q) ==
    /\ sync' \in [Sync -> RunState]
    /\ lastSync' \in [Peer -> 0 .. Now]
    /\ \A p \in Peer : lastSync'[p] = Now \/ (lastSync'[p] = lastSync[p] /\ p \notin done)
    /\ \/ sync'[r].pc = "idle" /\ sync'[r].synced = {} /\ sync'[r].tried = {} /\ sync'[r].changes = {}
       \/ /\ sync'[r].pc # "idle" /\ sync'[r].peer \in s.peers \ sync'[r].peers
          /\ sync'[r].tried = {} /\ sync'[r].synced = {} /\ sync'[r].alone = s.alone
          /\ sync'[r].changes \subseteq q
          /\ sync'[r].pc = "push" => sync'[r].changes # {}
          /\ Delta /\ sync'[r].peer \notin done =>
                \A n \in sync'[r].changes : n > lastSync'[sync'[r].peer]

LEMMA NoRunState == NoRun \in RunState
BY DEF NoRun, RunState

LEMMA Arrives ==
    ASSUME FedInv, NEW runs \in [Sync -> RunState], NEW r \in Sync, NEW s \in RunState,
           NEW done \in SUBSET Peer, NEW q \in SUBSET (1 .. Now), NEW m \in Mode,
           NextPeer(runs, r, s, done, q, m)
    PROVE  Arrived(r, s, done, q) /\ \A o \in Sync \ {r} : sync'[o] = runs[o]
<1> DEFINE skipped == {p \in s.peers : ToPush(q, p, m) = {} /\ ~Pulls(m)}
<1>1. /\ Now \in Nat /\ lastSync \in [Peer -> 0 .. Now] /\ s.peers \subseteq Peer
      /\ \A p \in Peer : ToPush(q, p, m) \subseteq q
  BY NowIsNat DEF FedInv, FederationTypeOK, RunState, ToPush, GetPending
<1>2. ASSUME NEW peers \in SUBSET Peer, lastSync' = Stamp(peers, s), done \subseteq peers
      PROVE  /\ lastSync' \in [Peer -> 0 .. Now]
             /\ \A p \in Peer : \/ lastSync'[p] = Now
                                \/ (lastSync'[p] = lastSync[p] /\ p \notin done)
             /\ \A p \in Peer \ peers : lastSync'[p] = lastSync[p]
  BY <1>1, <1>2 DEF Stamp
<1>3. CASE /\ sync' = [runs EXCEPT ![r] = NoRun]
           /\ lastSync' = Stamp(done \cup skipped, s)
  <2>1. sync' \in [Sync -> RunState] /\ sync'[r] = NoRun
    BY <1>3, NoRunState
  <2>2. done \cup skipped \in SUBSET Peer
    BY <1>1
  <2>3. /\ lastSync' \in [Peer -> 0 .. Now]
        /\ \A p \in Peer : lastSync'[p] = Now \/ (lastSync'[p] = lastSync[p] /\ p \notin done)
    BY <1>2, <1>3, <2>2
  <2> QED
    BY <1>3, <2>1, <2>3 DEF Arrived, NoRun
<1>4. ASSUME NEW p \in s.peers \ skipped, NEW before \in SUBSET skipped,
             sync' = [runs EXCEPT ![r] =
                [s EXCEPT !.pc = IF ToPush(q, p, m) = {} THEN "pull" ELSE "push",
                          !.peer = p, !.peers = @ \ (before \cup {p}),
                          !.changes = ToPush(q, p, m), !.tried = {}, !.synced = {},
                          !.page = 1]],
             lastSync' = Stamp(done \cup before, s)
      PROVE  Arrived(r, s, done, q) /\ \A o \in Sync \ {r} : sync'[o] = runs[o]
  <2>1. done \cup before \in SUBSET Peer /\ p \in Peer /\ p \notin before
    BY <1>1, <1>4
  <2>2. /\ lastSync' \in [Peer -> 0 .. Now]
        /\ \A x \in Peer : lastSync'[x] = Now \/ (lastSync'[x] = lastSync[x] /\ x \notin done)
        /\ p \notin done => lastSync'[p] = lastSync[p]
    BY <1>2, <1>4, <2>1
  <2>3. /\ sync'[r].pc = IF ToPush(q, p, m) = {} THEN "pull" ELSE "push"
        /\ sync'[r].peer = p /\ sync'[r].peers = s.peers \ (before \cup {p})
        /\ sync'[r].changes = ToPush(q, p, m) /\ sync'[r].tried = {} /\ sync'[r].synced = {}
        /\ sync'[r].alone = s.alone
    BY <1>4 DEF RunState
  <2>4. sync' \in [Sync -> RunState]
    <3>1. ToPush(q, p, m) \in SUBSET Nat /\ s.peers \ (before \cup {p}) \in SUBSET Peer
      <4>1. s.peers \ (before \cup {p}) \in SUBSET Peer
        BY <1>1
      <4>2. ToPush(q, p, m) \subseteq q
        BY <1>1, <2>1
      <4>3. q \subseteq Nat
        BY <1>1
      <4> QED
        BY <4>1, <4>2, <4>3
    <3>2. [s EXCEPT !.pc = IF ToPush(q, p, m) = {} THEN "pull" ELSE "push",
                    !.peer = p, !.peers = @ \ (before \cup {p}),
                    !.changes = ToPush(q, p, m), !.tried = {}, !.synced = {},
                    !.page = 1] \in RunState
      BY <2>1, <3>1 DEF RunState
    <3> QED
      BY <1>4, <3>2
  <2>5. Delta => \A n \in ToPush(q, p, m) : n > lastSync[p]
    BY DEF ToPush, GetPending
  <2>6. \A o \in Sync \ {r} : sync'[o] = runs[o]
    BY <1>4
  <2> QED
    BY <1>1, <2>1, <2>2, <2>3, <2>4, <2>5, <2>6 DEF Arrived
<1> QED
  BY <1>3, <1>4 DEF NextPeer

\* The others are as they were, but no longer alone if they run.
OthersStand(r) ==
    \A o \in Sync \ {r} :
        /\ sync'[o] = [sync[o] EXCEPT !.alone = sync'[o].alone]
        /\ Running(o) => ~sync'[o].alone

LEMMA RunGoesOn ==
    ASSUME FedInv, NEW r \in Sync, NEW s \in RunState, NEW done \in SUBSET Peer,
           NEW q \in SUBSET (1 .. Now), Arrived(r, s, done, q), OthersStand(r),
           s.peers \cap done = {}, s.alone => \A o \in Sync \ {r} : ~Running(o),
           tracked' = tracked, taken \subseteq taken', taken' \subseteq (1 .. Now) \X Peer,
           \A m \in 1 .. Now, p \in Peer : <<m, p>> \in taken' =>
               m <= lastSync[p] \/ p \in done \/ \E o \in Sync \ {r} : TriedAt(o, m, p)
    PROVE  GoodRuns' /\ SyncedTaken' /\ TakenStamped' /\ AloneRuns' /\ InOrder'
<1>1. Now' = Now /\ Now \in Nat /\ sync \in [Sync -> RunState] /\ sync' \in [Sync -> RunState]
  BY NowIsNat DEF FedInv, GoodRuns, Now, Arrived
<1>2. \A o \in Sync \ {r} :
         /\ sync'[o].pc = sync[o].pc /\ sync'[o].peer = sync[o].peer
         /\ sync'[o].peers = sync[o].peers /\ sync'[o].changes = sync[o].changes
         /\ sync'[o].tried = sync[o].tried /\ sync'[o].synced = sync[o].synced
         /\ Running(o) => ~sync'[o].alone
  BY <1>1 DEF OthersStand, RunState
<1>3. GoodRuns'
  <2>1. ASSUME NEW o \in Sync \ {r} PROVE GoodRun(sync[o])'
    BY <1>1, <1>2 DEF FedInv, GoodRuns, GoodRun
  <2>2. GoodRun(sync[r])'
    <3>1. s.peers \subseteq Peer
      BY DEF RunState
    <3> QED
      BY <1>1, <3>1 DEF GoodRun, Arrived
  <2> QED
    BY <1>1, <2>1, <2>2 DEF FedInv, GoodRuns
<1>4. SyncedTaken'
  BY <1>2 DEF FedInv, SyncedTaken, Arrived
<1>5. \A p \in Peer : lastSync'[p] >= lastSync[p] /\ lastSync[p] \in Nat /\ lastSync'[p] \in Nat
  BY <1>1 DEF FedInv, FederationTypeOK, Arrived
<1>6. TakenStamped'
  <2> SUFFICES ASSUME NEW m \in 1 .. Now, NEW p \in Peer, <<m, p>> \in taken'
               PROVE  m <= lastSync'[p] \/ \E o \in Sync : TriedAt(o, m, p)'
    BY <1>1 DEF TakenStamped
  <2>1. CASE m <= lastSync[p]
    BY <1>5, <2>1
  <2>2. CASE p \in done
    BY <1>1, <2>2 DEF Arrived
  <2>3. ASSUME NEW o \in Sync \ {r}, TriedAt(o, m, p) PROVE TriedAt(o, m, p)'
    BY <1>2, <2>3 DEF TriedAt, Running
  <2> QED
    BY <2>1, <2>2, <2>3
<1>7. AloneRuns'
  BY <1>2 DEF AloneRuns, Running, Arrived
<1>8. InOrder'
  <2>1. s.peers \subseteq Peer
    BY DEF RunState
  <2> QED
    BY <1>2, <2>1 DEF InOrder, Running, Arrived
<1> QED
  BY <1>3, <1>4, <1>6, <1>7, <1>8

LEMMA TriggerSyncFed ==
    ASSUME FedInv, NEW r \in Sync, NEW m \in Mode, TriggerSync(r, m) PROVE FedInv'
<1> DEFINE others == {o \in Sync : sync[o].pc # "idle"}
           runs == [o \in Sync |-> [sync[o] EXCEPT !.alone = @ /\ o \notin others]]
           s == [NoRun EXCEPT !.peers = GetSyncPeers, !.alone = others = {}]
<1>1. /\ ~Running(r) /\ NextPeer(runs, r, s, {}, queue, m)
      /\ mode' = m /\ UNCHANGED <<tracked, queue, etags, remote, taken>>
  BY DEF TriggerSync, Running
<1>2. /\ queue \in SUBSET (1 .. Now) /\ sync \in [Sync -> RunState]
      /\ taken \subseteq (1 .. Now) \X Peer
  BY DEF FedInv, FederationTypeOK, GoodRuns
<1>3. runs \in [Sync -> RunState]
  BY <1>2 DEF RunState
<1>4. /\ s \in RunState /\ s.alone = (others = {})
  BY DEF RunState, NoRun, GetSyncPeers, ListHealthy
<1>5. \A o \in Sync : runs[o] = [sync[o] EXCEPT !.alone = sync[o].alone /\ o \notin others]
  BY <1>2 DEF RunState
<1> HIDE DEF runs, s
<1>6. Arrived(r, s, {}, queue) /\ \A o \in Sync \ {r} : sync'[o] = runs[o]
  BY <1>1, <1>2, <1>3, <1>4, Arrives
<1>7. OthersStand(r)
  <2> SUFFICES ASSUME NEW o \in Sync \ {r}
               PROVE  /\ sync'[o] = [sync[o] EXCEPT !.alone = sync'[o].alone]
                      /\ Running(o) => ~sync'[o].alone
    BY DEF OthersStand
  <2>1. sync'[o] = [sync[o] EXCEPT !.alone = sync[o].alone /\ o \notin others]
    BY <1>5, <1>6
  <2>2. sync'[o].alone = (sync[o].alone /\ o \notin others)
    BY <1>2, <2>1 DEF RunState
  <2> QED
    BY <2>1, <2>2 DEF Running
<1>8. s.alone => \A o \in Sync \ {r} : ~Running(o)
  BY <1>4 DEF Running
<1>9. \A x \in 1 .. Now, p \in Peer : <<x, p>> \in taken' =>
         x <= lastSync[p] \/ \E o \in Sync \ {r} : TriedAt(o, x, p)
  BY <1>1 DEF FedInv, TakenStamped, TriedAt
<1>10. GoodRuns' /\ SyncedTaken' /\ TakenStamped' /\ AloneRuns' /\ InOrder'
  BY <1>1, <1>2, <1>4, <1>6, <1>7, <1>8, <1>9, RunGoesOn
<1>11. FederationTypeOK'
  <2>1. Now' = Now /\ lastSync' \in [Peer -> 0 .. Now]
    BY <1>1, <1>6 DEF Now, Arrived
  <2> QED
    BY <1>1, <1>10, <2>1 DEF FedInv, FederationTypeOK, GoodRuns, GoodRun, RunState
<1> QED
  BY <1>10, <1>11 DEF FedInv

\* A run leaves its peer, which gets its stamp.
LEMMA LeavesPeer ==
    ASSUME FedInv, NEW r \in Sync, Running(r), NEW s \in RunState, NEW q \in SUBSET (1 .. Now),
           NextPeer(sync, r, s, {sync[r].peer}, q, mode),
           s.peers = sync[r].peers, s.alone = sync[r].alone, tracked' = tracked,
           taken \subseteq taken', taken' \subseteq taken \cup ((1 .. Now) \X {sync[r].peer})
    PROVE  /\ GoodRuns' /\ SyncedTaken' /\ TakenStamped' /\ AloneRuns' /\ InOrder'
           /\ lastSync' \in [Peer -> 0 .. Now]
<1>1. /\ sync \in [Sync -> RunState] /\ sync[r].peer \in Peer /\ sync[r].peer \notin s.peers
      /\ mode \in Mode
  BY DEF FedInv, FederationTypeOK, GoodRuns, GoodRun, Running
<1>2. Arrived(r, s, {sync[r].peer}, q) /\ \A o \in Sync \ {r} : sync'[o] = sync[o]
  BY <1>1, Arrives
<1>3. OthersStand(r)
  <2>1. \A o \in Sync \ {r} : Running(o) => ~sync[o].alone
    BY DEF FedInv, AloneRuns
  <2>2. \A o \in Sync : sync[o] = [sync[o] EXCEPT !.alone = sync[o].alone]
    BY <1>1 DEF RunState
  <2> QED
    BY <1>2, <2>1, <2>2 DEF OthersStand
<1>4. s.alone => \A o \in Sync \ {r} : ~Running(o)
  BY DEF FedInv, AloneRuns
<1>5. taken' \subseteq (1 .. Now) \X Peer
  BY <1>1 DEF FedInv, FederationTypeOK
<1>6. ASSUME NEW m \in 1 .. Now, NEW p \in Peer, <<m, p>> \in taken'
      PROVE  m <= lastSync[p] \/ p \in {sync[r].peer} \/ \E o \in Sync \ {r} : TriedAt(o, m, p)
  <2>1. CASE p = sync[r].peer
    BY <2>1
  <2>2. CASE p # sync[r].peer
    <3>1. <<m, p>> \in taken
      BY <1>6, <2>2
    <3>2. m <= lastSync[p] \/ \E o \in Sync : TriedAt(o, m, p)
      BY <3>1 DEF FedInv, TakenStamped
    <3>3. ~TriedAt(r, m, p)
      BY <2>2 DEF TriedAt
    <3> QED
      BY <3>2, <3>3
  <2> QED
    BY <2>1, <2>2
<1>7. {sync[r].peer} \in SUBSET Peer /\ s.peers \cap {sync[r].peer} = {}
  BY <1>1
<1>8. GoodRuns' /\ SyncedTaken' /\ TakenStamped' /\ AloneRuns' /\ InOrder'
  BY <1>2, <1>3, <1>4, <1>5, <1>6, <1>7, RunGoesOn
<1> QED
  BY <1>2, <1>8 DEF Arrived

\* A run goes on at its peer: it has tried no more than one change, the oldest it
\* had, and what counts as synced the peer has taken.
LEMMA StaysAtPeer ==
    ASSUME FedInv, NEW r \in Sync, Running(r), NEW s \in RunState,
           sync' = [sync EXCEPT ![r] = s], UNCHANGED <<tracked, lastSync>>,
           s.pc # "idle", s.peer = sync[r].peer, s.peers = sync[r].peers,
           s.alone = sync[r].alone, GoodRun(s), taken \subseteq taken',
           \A m \in sync[r].tried : m \in s.tried,
           \A m \in s.synced : <<m, s.peer>> \in taken',
           taken' \subseteq taken \cup (s.tried \X {s.peer}),
           s.pc = "push" => /\ sync[r].pc = "push" /\ s.changes \subseteq sync[r].changes
                            /\ \A m \in s.tried, n \in s.changes : m \in sync[r].tried \/ m < n
    PROVE  /\ GoodRuns' /\ SyncedTaken' /\ TakenStamped' /\ AloneRuns' /\ InOrder'
           /\ lastSync' \in [Peer -> 0 .. Now]
<1>1. /\ Now' = Now /\ lastSync' = lastSync /\ sync \in [Sync -> RunState]
      /\ sync'[r] = s /\ \A o \in Sync \ {r} : sync'[o] = sync[o]
  BY DEF FedInv, GoodRuns, Now
<1>2. GoodRuns'
  BY <1>1 DEF FedInv, GoodRuns, GoodRun
<1>3. SyncedTaken'
  BY <1>1 DEF FedInv, SyncedTaken
<1>4. TakenStamped'
  <2> SUFFICES ASSUME NEW m \in 1 .. Now, NEW p \in Peer, <<m, p>> \in taken'
               PROVE  m <= lastSync[p] \/ \E o \in Sync : TriedAt(o, m, p)'
    BY <1>1 DEF TakenStamped
  <2>1. CASE <<m, p>> \in s.tried \X {s.peer}
    <3>1. TriedAt(r, m, p)'
      BY <1>1, <2>1 DEF TriedAt, Running
    <3> QED
      BY <3>1
  <2>2. CASE <<m, p>> \in taken
    <3>1. m <= lastSync[p] \/ \E o \in Sync : TriedAt(o, m, p)
      BY <2>2 DEF FedInv, TakenStamped
    <3>2. \A o \in Sync : TriedAt(o, m, p) => TriedAt(o, m, p)'
      BY <1>1 DEF TriedAt, Running
    <3> QED
      BY <3>1, <3>2
  <2> QED
    BY <2>1, <2>2
<1>5. AloneRuns'
  BY <1>1 DEF FedInv, AloneRuns, Running
<1>6. InOrder'
  <2>1. ASSUME NEW o \in Sync, Delta, sync'[o].pc = "push", sync'[o].alone,
               NEW n \in sync'[o].changes
        PROVE  n > lastSync'[sync'[o].peer] /\ \A m \in sync'[o].tried : m < n
    <3>1. CASE o = r
      BY <1>1, <2>1, <3>1 DEF FedInv, InOrder
    <3>2. CASE o # r
      BY <1>1, <2>1, <3>2 DEF FedInv, InOrder
    <3> QED
      BY <3>1, <3>2
  <2> QED
    BY <2>1 DEF InOrder
<1>7. lastSync \in [Peer -> 0 .. Now]
  BY DEF FedInv, FederationTypeOK
<1> QED
  BY <1>1, <1>2, <1>3, <1>4, <1>5, <1>6, <1>7

\* The push of the oldest change ends: what leaves the queue the peer has taken.
LEMMA PushEndsFed ==
    ASSUME FedInv, NEW r \in Sync, sync[r].pc = "push", NEW ok \in BOOLEAN, PushEnds(r, ok),
           UNCHANGED <<tracked, mode>>, NEW n, n = Min(sync[r].changes),
           taken \subseteq taken', taken' \subseteq taken \cup {<<n, sync[r].peer>>},
           ok => <<n, sync[r].peer>> \in taken'
    PROVE  /\ GoodRuns' /\ SyncedTaken' /\ TakenStamped' /\ AloneRuns' /\ InOrder'
           /\ lastSync' \in [Peer -> 0 .. Now] /\ queue' \subseteq queue
           /\ \A k \in queue \ queue' : \E p \in Peer : <<k, p>> \in taken'
<1> DEFINE s == sync[r]
           after == [s EXCEPT !.changes = @ \ {n}, !.tried = @ \cup {n},
                              !.synced = IF ok THEN @ \cup {n} ELSE @]
<1>1. /\ s \in RunState /\ GoodRun(s) /\ s.changes # {} /\ s.peer \in Peer /\ Running(r)
      /\ s.changes \subseteq 1 .. Now /\ s.tried \subseteq 1 .. Now /\ Now \in Nat
  BY NowIsNat DEF FedInv, GoodRuns, GoodRun, Running
<1>2. n \in s.changes /\ \A k \in s.changes : n <= k
  <2>1. s.changes \in SUBSET Nat
    BY <1>1
  <2> QED
    BY <1>1, <2>1, MinOf
<1>3. /\ after \in RunState /\ after.pc = "push" /\ after.peer = s.peer /\ after.peers = s.peers
      /\ after.alone = s.alone /\ after.changes = s.changes \ {n}
      /\ after.tried = s.tried \cup {n}
      /\ after.synced = IF ok THEN s.synced \cup {n} ELSE s.synced
  BY <1>1, <1>2 DEF RunState
<1>4. /\ after.changes \subseteq 1 .. Now /\ after.tried \subseteq 1 .. Now
      /\ after.synced \subseteq after.tried /\ after.peer \in Peer \ after.peers
  BY <1>1, <1>2, <1>3 DEF GoodRun
<1>5. \A m \in after.synced : <<m, s.peer>> \in taken'
  BY <1>3 DEF FedInv, SyncedTaken
<1>6. /\ taken' \subseteq taken \cup (after.tried \X {s.peer})
      /\ taken' \subseteq taken \cup ((1 .. Now) \X {s.peer})
  BY <1>1, <1>2, <1>3
<1>7. \A k \in after.changes : k \in Nat /\ n < k
  BY <1>1, <1>2, <1>3
<1>8. /\ s.changes # {n} => sync' = [sync EXCEPT ![r] = after] /\ UNCHANGED <<queue, lastSync>>
      /\ s.changes = {n} =>
           /\ queue' = MarkSynced(queue, after.tried, after.synced)
           /\ Pulls(mode) => sync' = [sync EXCEPT ![r] = [after EXCEPT !.pc = "pull"]]
                             /\ UNCHANGED lastSync
           /\ ~Pulls(mode) => NextPeer(sync, r, after, {s.peer}, queue', mode)
  BY DEF PushEnds
<1> HIDE DEF after
<1>9. CASE s.changes # {n}
  <2>1. GoodRun(after)
    BY <1>1, <1>2, <1>3, <1>4, <1>9 DEF GoodRun
  <2>2. \A m \in after.tried, k \in after.changes : m \in s.tried \/ m < k
    BY <1>3, <1>7
  <2>3. \A m \in s.tried : m \in after.tried
    BY <1>3
  <2>4. after.changes \subseteq s.changes
    BY <1>3
  <2>5. sync' = [sync EXCEPT ![r] = after] /\ UNCHANGED <<queue, lastSync>>
    BY <1>8, <1>9
  <2> QED
    BY <1>1, <1>3, <1>5, <1>6, <2>1, <2>2, <2>3, <2>4, <2>5, StaysAtPeer
<1>10. CASE s.changes = {n}
  <2>1. /\ queue' \subseteq queue
        /\ \A k \in queue \ queue' : <<k, s.peer>> \in taken'
    BY <1>5, <1>8, <1>10 DEF MarkSynced
  <2>2. CASE Pulls(mode)
    <3> DEFINE there == [after EXCEPT !.pc = "pull"]
    <3>1. /\ there \in RunState /\ there.pc = "pull" /\ there.peer = s.peer
          /\ there.peers = s.peers /\ there.alone = s.alone /\ there.changes = after.changes
          /\ there.tried = after.tried /\ there.synced = after.synced
      BY <1>3 DEF RunState
    <3>2. sync' = [sync EXCEPT ![r] = there] /\ UNCHANGED lastSync
      BY <1>8, <1>10, <2>2
    <3> HIDE DEF there
    <3>3. GoodRun(there)
      BY <1>3, <1>4, <3>1 DEF GoodRun
    <3>4. \A m \in s.tried : m \in there.tried
      BY <1>3, <3>1
    <3>5. /\ GoodRuns' /\ SyncedTaken' /\ TakenStamped' /\ AloneRuns' /\ InOrder'
          /\ lastSync' \in [Peer -> 0 .. Now]
      BY <1>1, <1>5, <1>6, <3>1, <3>2, <3>3, <3>4, StaysAtPeer
    <3> QED
      BY <1>1, <2>1, <3>5
  <2>3. CASE ~Pulls(mode)
    <3>1. queue' \in SUBSET (1 .. Now)
      BY <2>1 DEF FedInv, FederationTypeOK
    <3>2. NextPeer(sync, r, after, {s.peer}, queue', mode)
      BY <1>8, <1>10, <2>3
    <3>3. /\ GoodRuns' /\ SyncedTaken' /\ TakenStamped' /\ AloneRuns' /\ InOrder'
          /\ lastSync' \in [Peer -> 0 .. Now]
      BY <1>1, <1>3, <1>6, <3>1, <3>2, LeavesPeer
    <3> QED
      BY <1>1, <2>1, <3>3
  <2> QED
    BY <2>2, <2>3
<1> QED
  BY <1>9, <1>10

\* A queue that only shrinks stays within its bounds.
LEMMA QueueShrinks ==
    ASSUME FedInv, queue' \subseteq queue
    PROVE  queue' \subseteq 1 .. Now /\ (MaxSize > 1 => Cardinality(queue') <= MaxSize)
<1>1. queue \in SUBSET (1 .. Now) /\ Now \in Nat /\ (MaxSize > 1 => Cardinality(queue) <= MaxSize)
  BY NowIsNat DEF FedInv, FederationTypeOK
<1>2. /\ Cardinality(queue') <= Cardinality(queue)
      /\ Cardinality(queue') \in Nat /\ Cardinality(queue) \in Nat
  BY <1>1, Changes
<1> QED
  BY <1>1, <1>2, FederationAssumption

\* The types of a step of a run.
LEMMA RunTypes ==
    ASSUME FedInv, UNCHANGED <<tracked, etags, mode>>, queue' \subseteq queue,
           lastSync' \in [Peer -> 0 .. Now], remote' \in [Peer -> [Entity -> -1 .. Now]],
           taken' \subseteq (1 .. Now) \X Peer, GoodRuns'
    PROVE  FederationTypeOK'
<1>1. Now' = Now
  BY DEF Now
<1>2. queue' \subseteq 1 .. Now /\ (MaxSize > 1 => Cardinality(queue') <= MaxSize)
  BY QueueShrinks
<1>3. \A r \in Sync : /\ sync'[r] \in RunState
                      /\ GoodRun(sync[r])'
  BY DEF GoodRuns
<1>4. \A r \in Sync : LET s == sync'[r] IN
          /\ s.pc \in {"idle", "push", "pull"}
          /\ s.pc = "push" => s.changes # {} /\ s.changes \subseteq 1 .. Now
          /\ s.pc # "idle" => s.peer \in Peer \ s.peers
          /\ s.synced \subseteq s.tried
  BY <1>1, <1>3 DEF GoodRun, RunState
<1> QED
  BY <1>1, <1>2, <1>4 DEF FedInv, FederationTypeOK

\* No step of a run takes a change from the queue that no peer has taken.
StillTaken == \A k \in queue \ queue' : \E p \in Peer : <<k, p>> \in taken'

LEMMA PushTakenFed ==
    ASSUME FedInv, NEW r \in Sync, PushTaken(r) PROVE FedInv' /\ StillTaken
<1> PICK n : n = Min(sync[r].changes)
  OBVIOUS
<1> PICK p : p = sync[r].peer
  OBVIOUS
<1>1. /\ sync[r].pc = "push" /\ p \in Peer /\ Now \in Nat
      /\ sync[r].changes \subseteq 1 .. Now /\ sync[r].changes # {}
  BY NowIsNat DEF PushTaken, FedInv, GoodRuns, GoodRun
<1>2. n \in 1 .. Now
  <2>1. sync[r].changes \in SUBSET Nat
    BY <1>1
  <2> QED
    BY <1>1, <2>1, MinOf
<1>3. /\ remote' = [remote EXCEPT ![p][tracked[n].entity] = Applied(p, n)]
      /\ taken' = IF CountsAsSuccess(p, n) THEN taken \cup {<<n, p>>} ELSE taken
      /\ UNCHANGED <<tracked, etags, status, mode>>
  BY DEF PushTaken
<1>4. PICK ok \in BOOLEAN : PushEnds(r, ok) /\ (ok => CountsAsSuccess(p, n))
  BY DEF PushTaken
<1>5. /\ taken \subseteq taken' /\ taken' \subseteq taken \cup {<<n, p>>}
      /\ ok => <<n, p>> \in taken'
  BY <1>3, <1>4
<1>6. /\ GoodRuns' /\ SyncedTaken' /\ TakenStamped' /\ AloneRuns' /\ InOrder'
      /\ lastSync' \in [Peer -> 0 .. Now] /\ queue' \subseteq queue /\ StillTaken
  BY <1>1, <1>3, <1>4, <1>5, PushEndsFed DEF StillTaken
<1>7. taken' \subseteq (1 .. Now) \X Peer
  BY <1>1, <1>2, <1>5 DEF FedInv, FederationTypeOK
<1>8. remote' \in [Peer -> [Entity -> -1 .. Now]]
  <2>1. remote \in [Peer -> [Entity -> -1 .. Now]] /\ tracked[n].entity \in Entity
    <3>1. tracked \in Seq(TrackedChange) /\ n \in 1 .. Len(tracked)
      BY <1>2 DEF FedInv, GoodRuns, Now
    <3>2. tracked[n] \in TrackedChange
      BY <3>1
    <3> QED
      BY <3>2 DEF FedInv, FederationTypeOK, TrackedChange
  <2>2. Applied(p, n) \in {remote[p][tracked[n].entity], 0, n}
    BY DEF Applied
  <2>3. Applied(p, n) \in -1 .. Now
    BY <1>1, <1>2, <2>1, <2>2
  <2> QED
    BY <1>1, <1>3, <2>1, <2>3
<1>9. FederationTypeOK'
  BY <1>3, <1>6, <1>7, <1>8, RunTypes
<1> QED
  BY <1>6, <1>9 DEF FedInv

LEMMA PushFailsFed ==
    ASSUME FedInv, NEW r \in Sync, PushFails(r) PROVE FedInv' /\ StillTaken
<1> PICK n : n = Min(sync[r].changes)
  OBVIOUS
<1>1. /\ sync[r].pc = "push" /\ PushEnds(r, FALSE)
      /\ UNCHANGED <<tracked, etags, status, mode, remote, taken>>
  BY DEF PushFails
<1>2. /\ GoodRuns' /\ SyncedTaken' /\ TakenStamped' /\ AloneRuns' /\ InOrder'
      /\ lastSync' \in [Peer -> 0 .. Now] /\ queue' \subseteq queue /\ StillTaken
  BY <1>1, PushEndsFed DEF StillTaken
<1>3. FederationTypeOK'
  BY <1>1, <1>2, RunTypes DEF FedInv, FederationTypeOK
<1> QED
  BY <1>2, <1>3 DEF FedInv

LEMMA PageEndsFed ==
    ASSUME FedInv, NEW r \in Sync, sync[r].pc = "pull", PageEnds(r),
           UNCHANGED <<tracked, queue, etags, mode, remote, taken>>
    PROVE  FedInv'
<1> DEFINE s == sync[r]
<1>1. /\ s \in RunState /\ GoodRun(s) /\ Running(r) /\ queue \in SUBSET (1 .. Now)
  BY DEF FedInv, FederationTypeOK, GoodRuns, Running
<1>2. ASSUME sync' = [sync EXCEPT ![r].page = @ + 1] /\ UNCHANGED lastSync
      PROVE  /\ GoodRuns' /\ SyncedTaken' /\ TakenStamped' /\ AloneRuns' /\ InOrder'
             /\ lastSync' \in [Peer -> 0 .. Now]
  <2> DEFINE there == [s EXCEPT !.page = @ + 1]
  <2>1. /\ there \in RunState /\ there.pc = "pull" /\ there.peer = s.peer
        /\ there.peers = s.peers /\ there.alone = s.alone /\ there.changes = s.changes
        /\ there.tried = s.tried /\ there.synced = s.synced
    BY <1>1 DEF RunState
  <2>2. sync' = [sync EXCEPT ![r] = there]
    BY <1>2
  <2> HIDE DEF there
  <2>3. GoodRun(there)
    BY <1>1, <2>1 DEF GoodRun
  <2>4. \A m \in there.synced : <<m, there.peer>> \in taken'
    BY <2>1 DEF FedInv, SyncedTaken
  <2> QED
    BY <1>1, <1>2, <2>1, <2>2, <2>3, <2>4, StaysAtPeer
<1>3. ASSUME NextPeer(sync, r, s, {s.peer}, queue, mode)
      PROVE  /\ GoodRuns' /\ SyncedTaken' /\ TakenStamped' /\ AloneRuns' /\ InOrder'
             /\ lastSync' \in [Peer -> 0 .. Now]
  BY <1>1, <1>3, LeavesPeer
<1>4. /\ GoodRuns' /\ SyncedTaken' /\ TakenStamped' /\ AloneRuns' /\ InOrder'
      /\ lastSync' \in [Peer -> 0 .. Now]
  BY <1>2, <1>3 DEF PageEnds
<1>5. FederationTypeOK'
  BY <1>4, RunTypes DEF FedInv, FederationTypeOK
<1> QED
  BY <1>4, <1>5 DEF FedInv

LEMMA PullFed ==
    ASSUME FedInv, NEW r \in Sync, PullAnswered(r) \/ PullFails(r) PROVE FedInv' /\ queue' = queue
<1>1. CASE PullAnswered(r)
  BY <1>1, PageEndsFed DEF PullAnswered
<1>2. CASE PullFails(r)
  BY <1>2, PageEndsFed DEF PullFails
<1> QED
  BY <1>1, <1>2

LEMMA BesidesFed ==
    ASSUME FedInv,
           \/ ClearPendingChanges \/ ClearResolved
           \/ \E p \in Peer : RegisterPeer(p) \/ UnregisterPeer(p) \/ CheckHealth(p)
           \/ \E p \in Peer, e \in Entity : PeerWrites(p, e)
           \/ \E c \in conflicts, strategy \in Strategy : ResolveConflict(c, strategy)
           \/ \E peers \in SUBSET Peer, strategy \in Strategy : ResolveAll(peers, strategy)
    PROVE  FedInv' /\ (queue' = queue \/ ClearPendingChanges)
<1>1. remote \in [Peer -> [Entity -> -1 .. Now]] /\ Now \in Nat
  BY NowIsNat DEF FedInv, FederationTypeOK
<1>2. CASE ClearPendingChanges
  BY <1>1, <1>2, Besides DEF ClearPendingChanges
<1>3. CASE ClearResolved
  BY <1>1, <1>3, Besides DEF ClearResolved
<1>4. ASSUME NEW p \in Peer, RegisterPeer(p) \/ UnregisterPeer(p) \/ CheckHealth(p)
      PROVE  FedInv' /\ queue' = queue
  BY <1>1, <1>4, Besides DEF RegisterPeer, UnregisterPeer, CheckHealth
<1>5. ASSUME NEW p \in Peer, NEW e \in Entity, PeerWrites(p, e)
      PROVE  FedInv' /\ queue' = queue
  <2>1. -1 \in -1 .. Now
    BY <1>1
  <2>2. remote' \in [Peer -> [Entity -> -1 .. Now]]
    BY <1>1, <1>5, <2>1 DEF PeerWrites
  <2> QED
    BY <1>5, <2>2, Besides DEF PeerWrites
<1>6. ASSUME NEW c, NEW strategy, ResolveConflict(c, strategy)
      PROVE  FedInv' /\ queue' = queue
  BY <1>1, <1>6, Besides DEF ResolveConflict
<1>7. ASSUME NEW peers, NEW strategy, ResolveAll(peers, strategy)
      PROVE  FedInv' /\ queue' = queue
  BY <1>1, <1>7, Besides DEF ResolveAll
<1> QED
  BY <1>2, <1>3, <1>4, <1>5, <1>6, <1>7

\* What a step may take from the queue without a peer that has taken it.
OnlyThese ==
    \A n \in queue \ queue' :
        \/ \E p \in Peer : <<n, p>> \in taken'
        \/ ClearPendingChanges
        \/ Now' > Now /\ Cardinality(queue) >= MaxSize /\ n = Min(queue)

LEMMA NextFed == ASSUME FedInv, [FederationNext]_federationVars PROVE FedInv' /\ OnlyThese
<1>1. CASE UNCHANGED federationVars
  <2>1. FederationTypeOK'
    BY <1>1 DEF federationVars, FedInv, FederationTypeOK, Now
  <2> QED
    BY <1>1, <2>1, FedStands DEF federationVars, OnlyThese
<1>2. ASSUME NEW e \in Entity, NEW operation \in Operation, NEW tagged \in BOOLEAN,
             TrackChange(e, operation, tagged)
      PROVE  FedInv' /\ OnlyThese
  BY <1>2, TrackChangeFed DEF OnlyThese
<1>3. ASSUME NEW r \in Sync, PushTaken(r) \/ PushFails(r) PROVE FedInv' /\ OnlyThese
  BY <1>3, PushTakenFed, PushFailsFed DEF OnlyThese, StillTaken
<1>4. ASSUME NEW r \in Sync, PullAnswered(r) \/ PullFails(r) PROVE FedInv' /\ OnlyThese
  BY <1>4, PullFed DEF OnlyThese
<1>5. ASSUME NEW r \in Sync, NEW m \in Mode, TriggerSync(r, m) PROVE FedInv' /\ OnlyThese
  <2>1. queue' = queue
    BY <1>5 DEF TriggerSync
  <2> QED
    BY <1>5, <2>1, TriggerSyncFed DEF OnlyThese
<1>6. CASE \/ ClearPendingChanges \/ ClearResolved
           \/ \E p \in Peer : RegisterPeer(p) \/ UnregisterPeer(p) \/ CheckHealth(p)
           \/ \E p \in Peer, e \in Entity : PeerWrites(p, e)
           \/ \E c \in conflicts, strategy \in Strategy : ResolveConflict(c, strategy)
           \/ \E peers \in SUBSET Peer, strategy \in Strategy : ResolveAll(peers, strategy)
  BY <1>6, BesidesFed DEF OnlyThese
<1> QED
  BY <1>1, <1>2, <1>3, <1>4, <1>5, <1>6 DEF FederationNext, SyncStep

LEMMA InitFed == FederationInit => FedInv
<1> SUFFICES ASSUME FederationInit PROVE FedInv
  OBVIOUS
<1>1. tracked \in Seq(TrackedChange) /\ Now = 0 /\ Now \in Nat
  BY DEF FederationInit, Now
<1>2. GoodRuns
  BY <1>1, NoRunState DEF FederationInit, GoodRuns, GoodRun, NoRun
<1>3. /\ \A r \in Sync : sync[r] = NoRun /\ sync[r].pc = "idle" /\ sync[r].synced = {}
      /\ taken = {}
  BY DEF FederationInit, NoRun
<1>4. SyncedTaken /\ TakenStamped /\ AloneRuns /\ InOrder
  BY <1>3 DEF SyncedTaken, TakenStamped, AloneRuns, InOrder, Running
<1>5. FederationTypeOK
  <2>1. Cardinality({}) = 0
    BY FS_EmptySet
  <2>2. MaxSize > 1 => 0 <= MaxSize
    BY FederationAssumption
  <2>3. \A r \in Sync : GoodRun(sync[r]) /\ sync[r].changes = {}
    BY <1>2, <1>3 DEF GoodRuns, NoRun
  <2> QED
    BY <1>1, <1>3, <2>1, <2>2, <2>3 DEF FederationInit, FederationTypeOK, GoodRun, Mode
<1> QED
  BY <1>2, <1>4, <1>5 DEF FedInv

\* A push that takes a peer back is of a run that has met another one.
LEMMA NotAlone ==
    ASSUME FedInv, Delta, NEW r \in Sync, TakenBack(r), PushTaken(r)
    PROVE  ~sync[r].alone
<1> PICK n : n = Min(sync[r].changes)
  OBVIOUS
<1> PICK p : p = sync[r].peer
  OBVIOUS
<1>1. /\ sync[r].pc = "push" /\ Running(r) /\ p \in Peer /\ Now \in Nat
      /\ sync[r].changes \in SUBSET Nat /\ sync[r].changes # {} /\ sync[r].changes \subseteq 1 .. Now
  BY NowIsNat DEF PushTaken, FedInv, GoodRuns, GoodRun, RunState, Running
<1>2. n \in sync[r].changes
  BY <1>1, MinOf
<1>3. PICK m \in n + 1 .. Now : <<m, p>> \in taken
  BY DEF TakenBack
<1>4. n \in 1 .. Now /\ m \in 1 .. Now /\ n < m /\ lastSync[p] \in Nat
  BY <1>1, <1>2, <1>3 DEF FedInv, FederationTypeOK
<1>5. CASE m <= lastSync[p]
  <2>1. ~(n > lastSync[p])
    BY <1>4, <1>5
  <2> QED
    BY <1>1, <1>2, <2>1 DEF FedInv, InOrder
<1>6. ASSUME NEW o \in Sync, TriedAt(o, m, p) PROVE ~sync[r].alone
  <2>1. CASE o = r
    <3>1. m \in sync[r].tried /\ ~(m < n)
      BY <1>4, <1>6, <2>1 DEF TriedAt
    <3> QED
      BY <1>1, <1>2, <3>1 DEF FedInv, InOrder
  <2>2. CASE o # r
    BY <1>1, <1>6, <2>2 DEF FedInv, AloneRuns, TriedAt
  <2> QED
    BY <2>1, <2>2
<1> QED
  BY <1>3, <1>4, <1>1, <1>5, <1>6 DEF FedInv, TakenStamped

\* Whatever the peers, the entities, the size of the queue and the runs that overlap:
\* no variable of the federation leaves its type.
THEOREM FederationTypes == FederationSpec => []FederationTypeOK
<1>1. FedInv => FederationTypeOK
  BY DEF FedInv
<1> QED
  BY <1>1, InitFed, NextFed, PTL DEF FederationSpec

\* A change leaves the queue of the synchronization only when a peer has taken it,
\* when it is the oldest of a full queue or when an operator clears the queue; and
\* with delta sync a run that is alone takes no peer back (SyncManager.sync_once,
\* ChangeQueue).
THEOREM FederationKeepsChanges == FederationSpec => ChangesKept
<1>1. FedInv /\ [FederationNext]_federationVars
      => [\A n \in 1 .. Now :
            LeavesUntaken(n)
            => \/ ClearPendingChanges
               \/ Now' > Now /\ Cardinality(queue) >= MaxSize /\ n = Min(queue)]_federationVars
  <2> SUFFICES ASSUME FedInv, [FederationNext]_federationVars, NEW n \in 1 .. Now, LeavesUntaken(n)
               PROVE  \/ ClearPendingChanges
                      \/ Now' > Now /\ Cardinality(queue) >= MaxSize /\ n = Min(queue)
    OBVIOUS
  <2> QED
    BY NextFed DEF OnlyThese, LeavesUntaken
<1>2. FedInv /\ [FederationNext]_federationVars
      => [Delta => \A r \in Sync : TakenBack(r) /\ PushTaken(r) => ~sync[r].alone]_federationVars
  BY NotAlone
<1> QED
  BY <1>1, <1>2, InitFed, NextFed, PTL
  DEF FederationSpec, ChangesKept, NothingLeavesUntaken, PeersNeverGoBack

-----------------------------------------------------------------------------
(* The edge controller.  What a sync has pushed the hub has taken, however *)
(* many syncs there are and whatever queue each of them has copied.        *)

TaskState == [pc : {"none", "asleep", "high", "push", "pull", "connecting"},
              loop : {"none", "sync", "reconnect"}, copy : SUBSET Nat, at : Nat,
              pushed : SUBSET Nat]

\* What a task has pushed the hub has taken.
TasksHonest == task \in [EdgeTask -> TaskState] /\ \A t \in EdgeTask : task[t].pushed \subseteq accepted

QueueHolds ==
    waiting \subseteq 1 .. Len(changes) /\ Cardinality(waiting) <= MaxOfflineQueue

EdgeInv == changes \in Seq(Change) /\ TasksHonest /\ QueueHolds

\* Why a change may leave the queue.
LeavesRightly ==
    \A n \in waiting \ waiting' :
        \/ n \in accepted'
        \/ ClearPending
        \/ changes[n].priority = "low" /\ Len(changes') > Len(changes)

LEMMA Sizes ==
    ASSUME EdgeInv
    PROVE  /\ Len(changes) \in Nat /\ MaxOfflineQueue \in Nat /\ waiting \in SUBSET Nat
           /\ IsFiniteSet(waiting) /\ Cardinality(waiting) \in Nat
<1>1. Len(changes) \in Nat /\ waiting \in SUBSET (1 .. Len(changes))
  BY DEF EdgeInv, QueueHolds
<1>2. IsFiniteSet(waiting) /\ Cardinality(waiting) \in Nat
  BY <1>1, Changes
<1> QED
  BY <1>1, <1>2, EdgeAssumption

LEMMA FreshTasks ==
    /\ NoTask \in TaskState /\ NoTask.pushed = {}
    /\ \A loop \in {"none", "sync", "reconnect"} :
          /\ Asleep(loop) \in TaskState /\ Asleep(loop).pushed = {}
          /\ [NoTask EXCEPT !.loop = loop].pushed = {}
BY DEF NoTask, Asleep, TaskState

\* A step that leaves the queue and what was pushed alone.
LEMMA EdgeStands ==
    ASSUME EdgeInv, UNCHANGED <<changes, waiting>>, accepted \subseteq accepted',
           task' \in [EdgeTask -> TaskState],
           \A t \in EdgeTask : task'[t].pushed \subseteq accepted'
    PROVE  EdgeInv' /\ LeavesRightly
BY DEF EdgeInv, TasksHonest, QueueHolds, LeavesRightly

\* One task sleeps, wakes, connects or is over.
LEMMA OneTask ==
    ASSUME EdgeInv, NEW t \in EdgeTask, UNCHANGED <<changes, waiting, accepted>>,
           \/ task' = [task EXCEPT ![t] = NoTask]
           \/ \E loop \in {"none", "sync", "reconnect"} : task' = [task EXCEPT ![t] = Asleep(loop)]
           \/ \E pc \in {"high", "connecting"} : task' = [task EXCEPT ![t].pc = pc]
    PROVE  EdgeInv' /\ LeavesRightly
<1>1. task \in [EdgeTask -> TaskState] /\ \A u \in EdgeTask : task[u].pushed \subseteq accepted
  BY DEF EdgeInv, TasksHonest
<1>2. CASE task' = [task EXCEPT ![t] = NoTask]
  BY <1>1, <1>2, FreshTasks, EdgeStands
<1>3. ASSUME NEW loop \in {"none", "sync", "reconnect"}, task' = [task EXCEPT ![t] = Asleep(loop)]
      PROVE  EdgeInv' /\ LeavesRightly
  BY <1>1, <1>3, FreshTasks, EdgeStands
<1>4. ASSUME NEW pc \in {"high", "connecting"}, task' = [task EXCEPT ![t].pc = pc]
      PROVE  EdgeInv' /\ LeavesRightly
  <2>1. task' \in [EdgeTask -> TaskState] /\ \A u \in EdgeTask : task'[u].pushed = task[u].pushed
    BY <1>1, <1>4 DEF TaskState
  <2> QED
    BY <1>1, <2>1, EdgeStands
<1> QED
  BY <1>2, <1>3, <1>4

\* A sync goes on with its next change, or is over with them.
LEMMA SendsNext ==
    ASSUME EdgeInv, NEW t \in EdgeTask, NEW s \in TaskState, NEW past \in Nat, NEW counts,
           SendNext(t, s, past, counts), changes' = changes, accepted \subseteq accepted',
           s.pushed \subseteq accepted'
    PROVE  EdgeInv' /\ LeavesRightly
<1> DEFINE ahead == ToSend(s.copy, past, counts)
<1>1. task \in [EdgeTask -> TaskState] /\ \A u \in EdgeTask : task[u].pushed \subseteq accepted
  BY DEF EdgeInv, TasksHonest
<1>2. ahead \in SUBSET Nat
  BY DEF ToSend, TaskState
<1>3. CASE ahead # {} /\ task' = [task EXCEPT ![t] = [s EXCEPT !.pc = "push", !.at = Min(ahead)]]
           /\ UNCHANGED waiting
  <2>1. Min(ahead) \in Nat
    BY <1>2, <1>3, MinOf
  <2> HIDE DEF ahead
  <2>2. /\ [s EXCEPT !.pc = "push", !.at = Min(ahead)] \in TaskState
        /\ [s EXCEPT !.pc = "push", !.at = Min(ahead)].pushed = s.pushed
    BY <2>1 DEF TaskState
  <2>3. /\ task' \in [EdgeTask -> TaskState]
        /\ \A u \in EdgeTask : task'[u].pushed \subseteq accepted'
    BY <1>1, <1>3, <2>2
  <2> QED
    BY <1>3, <2>3, EdgeStands
<1>4. CASE task' = [task EXCEPT ![t] = [s EXCEPT !.pc = "pull"]]
           /\ waiting' = Remaining(s.copy, s.pushed)
  <2>1. [s EXCEPT !.pc = "pull"] \in TaskState /\ [s EXCEPT !.pc = "pull"].pushed = s.pushed
    BY DEF TaskState
  <2>2. TasksHonest'
    BY <1>1, <1>4, <2>1 DEF TasksHonest
  <2>3. waiting' \in SUBSET waiting /\ \A n \in waiting \ waiting' : n \in accepted'
    BY <1>4 DEF Remaining
  <2>4. QueueHolds'
    <3>1. Cardinality(waiting') <= Cardinality(waiting) /\ Cardinality(waiting') \in Nat
      BY <2>3, Sizes, FS_Subset, FS_CardinalityType
    <3>2. Cardinality(waiting') <= MaxOfflineQueue
      BY <3>1, Sizes DEF EdgeInv, QueueHolds
    <3> QED
      BY <2>3, <3>2 DEF EdgeInv, QueueHolds
  <2> QED
    BY <2>2, <2>3, <2>4 DEF EdgeInv, LeavesRightly
<1> QED
  BY <1>3, <1>4 DEF SendNext

LEMMA BeginsSync ==
    ASSUME EdgeInv, NEW t \in EdgeTask, NEW loop \in {"none", "sync"}, BeginSync(t, loop),
           UNCHANGED <<changes, accepted>>
    PROVE  EdgeInv' /\ LeavesRightly
<1> DEFINE s == [NoTask EXCEPT !.loop = loop, !.copy = waiting]
<1>1. waiting \in SUBSET Nat
  BY Sizes
<1>2. s \in TaskState /\ s.pushed = {}
  BY <1>1 DEF NoTask, TaskState
<1>3. SendNext(t, s, 0, attempts)
  BY DEF BeginSync
<1> HIDE DEF s
<1> QED
  BY <1>2, <1>3, SendsNext

LEMMA QueueChangeEdge ==
    ASSUME EdgeInv, NEW c \in Change, QueueChange(c) PROVE EdgeInv' /\ LeavesRightly
<1> PICK n : n = Len(changes) + 1
  OBVIOUS
<1>1. /\ n \in Nat /\ changes' = Append(changes, c) /\ changes \in Seq(Change)
      /\ changes' \in Seq(Change) /\ Len(changes') = n /\ n \in 1 .. n
      /\ Len(changes) \in Nat /\ Len(changes) < n /\ 1 .. Len(changes) \subseteq 1 .. n
      /\ n \notin 1 .. Len(changes)
  BY Sizes DEF QueueChange, EdgeInv
<1>2. /\ accepted' = accepted /\ task \in [EdgeTask -> TaskState]
      /\ \A u \in EdgeTask : task[u].pushed \subseteq accepted
  BY DEF EdgeInv, TasksHonest, QueueChange
<1>3. TasksHonest'
  <2>1. CASE task' = task
    BY <1>2, <2>1 DEF TasksHonest
  <2>2. ASSUME NEW t \in Free, task' = [task EXCEPT ![t].pc = "high"] PROVE TasksHonest'
    BY <1>2, <2>2 DEF TasksHonest, Free, TaskState
  <2> QED
    BY <2>1, <2>2 DEF QueueChange
<1>4. CASE UNCHANGED waiting
  BY <1>1, <1>3, <1>4 DEF EdgeInv, QueueHolds, LeavesRightly
<1>5. ASSUME NEW kept \in SUBSET waiting, waiting' = kept \cup {n},
             Cardinality(kept) < MaxOfflineQueue,
             \A m \in waiting \ kept : changes[m].priority = "low"
      PROVE  EdgeInv' /\ LeavesRightly
  <2>1. IsFiniteSet(kept) /\ Cardinality(kept) \in Nat
    BY Sizes, FS_Subset, FS_CardinalityType
  <2>2. Cardinality(kept \cup {n}) = IF n \in kept THEN Cardinality(kept) ELSE Cardinality(kept) + 1
    BY <2>1, FS_AddElement
  <2>3. Cardinality(waiting') <= MaxOfflineQueue
    <3>1. Cardinality(kept \cup {n}) <= MaxOfflineQueue
      BY <1>5, <2>1, <2>2, Sizes
    <3> QED
      BY <1>5, <3>1
  <2>4. waiting' \subseteq 1 .. Len(changes')
    BY <1>1, <1>5 DEF EdgeInv, QueueHolds
  <2>5. LeavesRightly
    BY <1>1, <1>5 DEF LeavesRightly
  <2> QED
    BY <1>1, <1>3, <2>3, <2>4, <2>5 DEF EdgeInv, QueueHolds
<1>6. CASE Cardinality(waiting) >= MaxOfflineQueue /\ LowPriority # {}
           /\ waiting' = (waiting \ {Min(LowPriority)}) \cup {n}
  <2>1. LowPriority \in SUBSET Nat /\ LowPriority \subseteq waiting
    BY Sizes DEF LowPriority
  <2>2. PICK low \in LowPriority : low = Min(LowPriority)
    BY <1>6, <2>1, MinOf
  <2>3. low \in waiting /\ changes[low].priority = "low"
    BY <2>1 DEF LowPriority
  <2>4. Cardinality(waiting \ {low})
           = IF low \in waiting THEN Cardinality(waiting) - 1 ELSE Cardinality(waiting)
    BY Sizes, FS_RemoveElement
  <2>5. Cardinality(waiting \ {low}) < MaxOfflineQueue
    BY <2>3, <2>4, Sizes DEF EdgeInv, QueueHolds
  <2>6. waiting \ {low} \in SUBSET waiting
        /\ \A m \in waiting \ (waiting \ {low}) : changes[m].priority = "low"
    BY <2>3
  <2> QED
    BY <1>5, <1>6, <2>2, <2>5, <2>6
<1>7. CASE ~(Cardinality(waiting) >= MaxOfflineQueue) /\ waiting' = waiting \cup {n}
  <2>1. Cardinality(waiting) < MaxOfflineQueue
    BY <1>7, Sizes
  <2> QED
    BY <1>5, <1>7, <2>1
<1> QED
  BY <1>4, <1>6, <1>7 DEF QueueChange

LEMMA ClearPendingEdge == ASSUME EdgeInv, ClearPending PROVE EdgeInv' /\ LeavesRightly
<1>1. Cardinality({}) = 0
  BY FS_EmptySet
<1>2. QueueHolds'
  BY <1>1, EdgeAssumption DEF ClearPending, QueueHolds
<1> QED
  BY <1>2 DEF ClearPending, EdgeInv, TasksHonest, LeavesRightly

LEMMA PushAnsweredEdge ==
    ASSUME EdgeInv, NEW t \in EdgeTask, PushAnswered(t) PROVE EdgeInv' /\ LeavesRightly
<1> PICK s : s = task[t]
  OBVIOUS
<1>1. s \in TaskState /\ s.pushed \subseteq accepted /\ s.at \in Nat /\ changes' = changes
  BY DEF EdgeInv, TasksHonest, TaskState, PushAnswered
<1>2. CASE accepted' = accepted \cup {s.at}
           /\ SendNext(t, [s EXCEPT !.pushed = @ \cup {s.at}], s.at, attempts)
  <2>1. /\ [s EXCEPT !.pushed = @ \cup {s.at}] \in TaskState
        /\ [s EXCEPT !.pushed = @ \cup {s.at}].pushed = s.pushed \cup {s.at}
    BY <1>1 DEF TaskState
  <2>2. s.pushed \cup {s.at} \subseteq accepted' /\ accepted \subseteq accepted'
    BY <1>1, <1>2
  <2> QED
    BY <1>1, <1>2, <2>1, <2>2, SendsNext
<1>3. CASE accepted' \in {accepted, accepted \cup {s.at}}
           /\ SendNext(t, s, s.at, [attempts EXCEPT ![s.at] = @ + 1])
  BY <1>1, <1>3, SendsNext
<1> QED
  BY <1>2, <1>3 DEF PushAnswered

LEMMA ConnectFailsEdge ==
    ASSUME EdgeInv, NEW t \in EdgeTask, ConnectFails(t) PROVE EdgeInv' /\ LeavesRightly
<1>1. /\ task \in [EdgeTask -> TaskState] /\ \A u \in EdgeTask : task[u].pushed \subseteq accepted
      /\ UNCHANGED <<changes, waiting, accepted>>
  BY DEF EdgeInv, TasksHonest, ConnectFails
<1>2. CASE \E loop \in {"none", "sync", "reconnect"} : task' = [task EXCEPT ![t] = Asleep(loop)]
  BY <1>1, <1>2, OneTask
<1>3. ASSUME NEW u \in EdgeTask,
             task' = [task EXCEPT ![t] = Asleep("reconnect"), ![u] = Asleep("reconnect")]
      PROVE  EdgeInv' /\ LeavesRightly
  BY <1>1, <1>3, FreshTasks, EdgeStands
<1>4. CASE task' = [task EXCEPT ![t] = NoTask]
  BY <1>1, <1>4, OneTask
<1> QED
  BY <1>2, <1>3, <1>4 DEF ConnectFails, Reconnecting, Free

LEMMA StopEdge == ASSUME EdgeInv, Stop PROVE EdgeInv' /\ LeavesRightly
<1>1. task \in [EdgeTask -> TaskState] /\ \A u \in EdgeTask : task[u].pushed \subseteq accepted
  BY DEF EdgeInv, TasksHonest
<1>2. task' \in [EdgeTask -> TaskState] /\ \A u \in EdgeTask : task'[u].pushed \subseteq accepted
  BY <1>1, FreshTasks DEF Stop
<1> QED
  BY <1>2, EdgeStands DEF Stop

LEMMA NextEdge == ASSUME EdgeInv, [EdgeNext]_edgeVars PROVE EdgeInv' /\ LeavesRightly
<1>1. CASE UNCHANGED edgeVars
  BY <1>1 DEF edgeVars, EdgeInv, TasksHonest, QueueHolds, LeavesRightly
<1>2. ASSUME NEW c \in Change, QueueChange(c) PROVE EdgeInv' /\ LeavesRightly
  BY <1>2, QueueChangeEdge
<1>3. ASSUME NEW t \in EdgeTask, Start(t) PROVE EdgeInv' /\ LeavesRightly
  BY <1>3, OneTask DEF Start
<1>4. ASSUME NEW t \in EdgeTask, SyncNow(t) PROVE EdgeInv' /\ LeavesRightly
  BY <1>4, BeginsSync DEF SyncNow
<1>5. ASSUME NEW t \in EdgeTask, SyncLoopWakes(t) PROVE EdgeInv' /\ LeavesRightly
  BY <1>5, BeginsSync DEF SyncLoopWakes
<1>6. ASSUME NEW t \in EdgeTask, SyncHighPriority(t) PROVE EdgeInv' /\ LeavesRightly
  BY <1>6, BeginsSync, OneTask DEF SyncHighPriority
<1>7. ASSUME NEW t \in EdgeTask, ReconnectLoopWakes(t) PROVE EdgeInv' /\ LeavesRightly
  BY <1>7, OneTask DEF ReconnectLoopWakes
<1>8. ASSUME NEW t \in EdgeTask, PullsAnswered(t) PROVE EdgeInv' /\ LeavesRightly
  BY <1>8, OneTask DEF PullsAnswered
<1>9. ASSUME NEW t \in EdgeTask, ConnectSucceeds(t) PROVE EdgeInv' /\ LeavesRightly
  BY <1>9, OneTask DEF ConnectSucceeds
<1> QED
  BY <1>1, <1>2, <1>3, <1>4, <1>5, <1>6, <1>7, <1>8, <1>9,
     ClearPendingEdge, StopEdge, PushAnsweredEdge, ConnectFailsEdge DEF EdgeNext, TaskStep

LEMMA InitEdge == EdgeInit => EdgeInv
<1> SUFFICES ASSUME EdgeInit PROVE EdgeInv
  OBVIOUS
<1>1. changes \in Seq(Change) /\ TasksHonest
  BY FreshTasks DEF EdgeInit, TasksHonest
<1>2. QueueHolds
  BY FS_EmptySet, EdgeAssumption DEF EdgeInit, QueueHolds
<1> QED
  BY <1>1, <1>2 DEF EdgeInv

\* What the types ask for besides.  A change that n tasks push at once may cost n
\* attempts more than those that were left to it.
Pushing(n) == {t \in EdgeTask : task[t].pc = "push" /\ task[t].at = n}

MostAttempts == RetryAttempts + Cardinality(EdgeTask)

AttemptsHold ==
    /\ attempts \in Seq(Nat) /\ Len(attempts) = Len(changes)
    /\ \A n \in 1 .. Len(changes) : attempts[n] + Cardinality(Pushing(n)) <= MostAttempts

CopiesHold ==
    \A t \in EdgeTask : /\ task[t].copy \subseteq 1 .. Len(changes)
                        /\ task[t].pc = "push" => task[t].at \in task[t].copy

LinkTyped ==
    /\ link \in {"connected", "disconnected", "connecting"}
    /\ accepted \subseteq 1 .. Len(changes)
    /\ {syncTask, reconnectTask} \subseteq EdgeTask \cup {0}

EdgeTypes == AttemptsHold /\ CopiesHold /\ LinkTyped

LEMMA FewPush ==
    /\ MostAttempts \in Nat
    /\ \A n : /\ IsFiniteSet(Pushing(n)) /\ Cardinality(Pushing(n)) \in Nat
              /\ RetryAttempts + Cardinality(Pushing(n)) <= MostAttempts
              /\ \A S \in SUBSET Pushing(n) :
                    Cardinality(S) \in Nat /\ Cardinality(S) <= Cardinality(Pushing(n))
<1>1. IsFiniteSet(EdgeTask) /\ Cardinality(EdgeTask) \in Nat /\ RetryAttempts \in Nat
  BY EdgeAssumption, FS_CardinalityType
<1>2. ASSUME NEW n
      PROVE  /\ IsFiniteSet(Pushing(n)) /\ Cardinality(Pushing(n)) \in Nat
             /\ Cardinality(Pushing(n)) <= Cardinality(EdgeTask)
  <2>1. Pushing(n) \subseteq EdgeTask
    BY DEF Pushing
  <2> QED
    BY <1>1, <2>1, FS_Subset, FS_CardinalityType
<1>3. ASSUME NEW n, NEW S \in SUBSET Pushing(n)
      PROVE  Cardinality(S) \in Nat /\ Cardinality(S) <= Cardinality(Pushing(n))
  BY <1>2, FS_Subset, FS_CardinalityType
<1> QED
  BY <1>1, <1>2, <1>3 DEF MostAttempts

\* A step that begins no push.
LEMMA PushesStand ==
    ASSUME EdgeTypes, UNCHANGED <<changes, attempts>>, LinkTyped',
           \A t \in EdgeTask : \/ task'[t] = task[t]
                               \/ /\ task'[t].pc # "push"
                                  /\ task'[t].copy \subseteq 1 .. Len(changes)
    PROVE  EdgeTypes'
<1>1. CopiesHold'
  BY DEF EdgeTypes, CopiesHold
<1>2. ASSUME NEW n \in 1 .. Len(changes)
      PROVE  attempts[n] + Cardinality(Pushing(n)') <= MostAttempts
  <2>1. Pushing(n)' \in SUBSET Pushing(n)
    BY DEF Pushing
  <2>2. Cardinality(Pushing(n)') \in Nat /\ Cardinality(Pushing(n)') <= Cardinality(Pushing(n))
    BY <2>1, FewPush
  <2>3. attempts[n] \in Nat /\ attempts[n] + Cardinality(Pushing(n)) <= MostAttempts
    BY DEF EdgeTypes, AttemptsHold
  <2> QED
    BY <2>2, <2>3, FewPush
<1>3. AttemptsHold'
  BY <1>2 DEF EdgeTypes, AttemptsHold, MostAttempts
<1> QED
  BY <1>1, <1>3 DEF EdgeTypes

\* A sync goes on: it is counted where it is next, which has attempts left.
LEMMA SendsTyped ==
    ASSUME EdgeInv, EdgeTypes, NEW t \in EdgeTask, NEW s \in TaskState, NEW past \in Nat,
           NEW counts \in Seq(Nat), SendNext(t, s, past, counts),
           s.copy \subseteq 1 .. Len(changes), Len(counts) = Len(changes),
           \A n \in 1 .. Len(changes) :
              counts[n] + Cardinality(Pushing(n) \ {t}) <= MostAttempts,
           changes' = changes, LinkTyped'
    PROVE  EdgeTypes'
<1> DEFINE ahead == ToSend(s.copy, past, counts)
<1>1. /\ task \in [EdgeTask -> TaskState] /\ Len(changes) \in Nat /\ RetryAttempts \in Nat
      /\ DOMAIN counts = 1 .. Len(changes)
  BY EdgeAssumption DEF EdgeInv, TasksHonest
<1>2. PICK passed : attempts' = [n \in DOMAIN counts |->
                          IF n \in passed /\ Costs(n) /\ counts[n] < RetryAttempts
                          THEN counts[n] + 1 ELSE counts[n]]
  BY DEF SendNext
<1>3. /\ attempts' \in Seq(Nat) /\ Len(attempts') = Len(changes)
      /\ \A n \in 1 .. Len(changes) :
            attempts'[n] = counts[n] \/ attempts'[n] <= RetryAttempts
  <2>1. attempts' \in [1 .. Len(changes) -> Nat]
    BY <1>1, <1>2
  <2>2. attempts' \in Seq(Nat) /\ Len(attempts') = Len(changes)
    BY <1>1, <2>1
  <2>3. ASSUME NEW n \in 1 .. Len(changes)
        PROVE  attempts'[n] = counts[n] \/ attempts'[n] <= RetryAttempts
    BY <1>1, <1>2
  <2> QED
    BY <2>2, <2>3
\* Wherever the task is next: it pushes m only if m has attempts left.
<1>4. ASSUME NEW m, NEW next \in TaskState, task' = [task EXCEPT ![t] = next],
             next.copy = s.copy,
             next.pc = "push" => next.at = m /\ m \in s.copy /\ attempts'[m] <= RetryAttempts
      PROVE  EdgeTypes'
  <2>1. CopiesHold'
    BY <1>1, <1>4 DEF EdgeTypes, CopiesHold
  <2>2. ASSUME NEW n \in 1 .. Len(changes)
        PROVE  attempts'[n] + Cardinality(Pushing(n)') <= MostAttempts
    <3>1. attempts'[n] \in Nat /\ counts[n] \in Nat
      BY <1>1, <1>3
    <3>2. Cardinality(Pushing(n)') \in Nat /\ RetryAttempts + Cardinality(Pushing(n)') <= MostAttempts
      <4>1. Pushing(n)' \in SUBSET EdgeTask
        BY DEF Pushing
      <4>2. /\ Cardinality(Pushing(n)') \in Nat
            /\ Cardinality(Pushing(n)') <= Cardinality(EdgeTask)
            /\ Cardinality(EdgeTask) \in Nat
        BY <4>1, EdgeAssumption, FS_Subset, FS_CardinalityType
      <4> QED
        BY <1>1, <4>2 DEF MostAttempts
    <3>3. CASE attempts'[n] <= RetryAttempts
      BY <1>1, <3>1, <3>2, <3>3, FewPush
    <3>4. CASE attempts'[n] = counts[n] /\ ~(attempts'[n] <= RetryAttempts)
      <4>1. Pushing(n)' \in SUBSET (Pushing(n) \ {t})
        BY <1>1, <1>4, <3>4 DEF Pushing
      <4>2. /\ IsFiniteSet(Pushing(n) \ {t}) /\ Cardinality(Pushing(n) \ {t}) \in Nat
            /\ Cardinality(Pushing(n)') <= Cardinality(Pushing(n) \ {t})
        BY <4>1, FewPush, FS_Subset, FS_CardinalityType
      <4>3. counts[n] + Cardinality(Pushing(n) \ {t}) <= MostAttempts
        OBVIOUS
      <4> QED
        BY <3>1, <3>2, <3>4, <4>2, <4>3, FewPush
    <3> QED
      BY <1>3, <3>3, <3>4
  <2>3. AttemptsHold'
    BY <1>3, <2>2 DEF AttemptsHold, MostAttempts
  <2> QED
    BY <2>1, <2>3 DEF EdgeTypes
<1>5. CASE ahead # {} /\ task' = [task EXCEPT ![t] = [s EXCEPT !.pc = "push", !.at = Min(ahead)]]
  <2>1. ahead \in SUBSET Nat
    BY DEF ToSend, TaskState
  <2>2. PICK m \in ahead : m = Min(ahead)
    BY <1>5, <2>1, MinOf
  <2>3. m \in s.copy /\ m \in Nat /\ m \in 1 .. Len(changes) /\ counts[m] < RetryAttempts
    BY <2>1 DEF ToSend
  <2>4. attempts'[m] <= RetryAttempts
    BY <1>1, <1>2, <2>3
  <2>5. PICK next : next = [s EXCEPT !.pc = "push", !.at = m]
    OBVIOUS
  <2>6. next \in TaskState /\ next.copy = s.copy /\ next.at = m
    BY <2>3, <2>5 DEF TaskState
  <2> QED
    BY <1>4, <1>5, <2>2, <2>3, <2>4, <2>5, <2>6
<1>6. CASE task' = [task EXCEPT ![t] = [s EXCEPT !.pc = "pull"]]
  <2>1. PICK next : next = [s EXCEPT !.pc = "pull"]
    OBVIOUS
  <2>2. next \in TaskState /\ next.copy = s.copy /\ next.pc # "push"
    BY <2>1 DEF TaskState
  <2> QED
    BY <1>4, <1>6, <2>1, <2>2
<1> QED
  BY <1>5, <1>6 DEF SendNext

LEMMA BeginsTyped ==
    ASSUME EdgeInv, EdgeTypes, NEW t \in EdgeTask, NEW loop \in {"none", "sync"},
           BeginSync(t, loop), UNCHANGED <<changes, accepted, link, syncTask, reconnectTask>>
    PROVE  EdgeTypes'
<1> DEFINE s == [NoTask EXCEPT !.loop = loop, !.copy = waiting]
<1>1. waiting \in SUBSET Nat /\ waiting \subseteq 1 .. Len(changes)
  BY Sizes DEF EdgeInv, QueueHolds
<1>2. s \in TaskState /\ s.copy = waiting
  BY <1>1 DEF NoTask, TaskState
<1>3. SendNext(t, s, 0, attempts)
  BY DEF BeginSync
<1>4. ASSUME NEW n \in 1 .. Len(changes)
      PROVE  attempts[n] + Cardinality(Pushing(n) \ {t}) <= MostAttempts
  <2>1. attempts[n] \in Nat /\ attempts[n] + Cardinality(Pushing(n)) <= MostAttempts
    BY DEF EdgeTypes, AttemptsHold
  <2>2. Pushing(n) \ {t} \in SUBSET Pushing(n)
    OBVIOUS
  <2>3. /\ Cardinality(Pushing(n) \ {t}) \in Nat
        /\ Cardinality(Pushing(n) \ {t}) <= Cardinality(Pushing(n))
    BY <2>2, FewPush
  <2> QED
    BY <2>1, <2>3, FewPush
<1>5. attempts \in Seq(Nat) /\ Len(attempts) = Len(changes) /\ LinkTyped'
  BY DEF EdgeTypes, AttemptsHold, LinkTyped
<1> HIDE DEF s
<1> QED
  BY <1>1, <1>2, <1>3, <1>4, <1>5, SendsTyped

LEMMA PushAnsweredTyped ==
    ASSUME EdgeInv, EdgeTypes, NEW t \in EdgeTask, PushAnswered(t) PROVE EdgeTypes'
<1> PICK s : s = task[t]
  OBVIOUS
<1> PICK k : k = s.at
  OBVIOUS
<1>1. /\ s \in TaskState /\ k \in Nat /\ changes' = changes /\ s.pc = "push"
      /\ s.copy \subseteq 1 .. Len(changes) /\ k \in 1 .. Len(changes)
      /\ t \in Pushing(k)
  BY DEF EdgeInv, TasksHonest, TaskState, PushAnswered, EdgeTypes, CopiesHold, Pushing
<1>2. LinkTyped'
  BY <1>1 DEF EdgeTypes, LinkTyped, PushAnswered
<1>3. attempts \in Seq(Nat) /\ Len(attempts) = Len(changes)
  BY DEF EdgeTypes, AttemptsHold
<1>4. ASSUME NEW n \in 1 .. Len(changes)
      PROVE  /\ attempts[n] \in Nat /\ attempts[n] + Cardinality(Pushing(n)) <= MostAttempts
             /\ Cardinality(Pushing(n) \ {t}) \in Nat /\ Cardinality(Pushing(n)) \in Nat
             /\ Cardinality(Pushing(n) \ {t})
                   = IF t \in Pushing(n) THEN Cardinality(Pushing(n)) - 1 ELSE Cardinality(Pushing(n))
  <2>1. IsFiniteSet(Pushing(n)) /\ Cardinality(Pushing(n)) \in Nat
    BY FewPush
  <2>2. /\ IsFiniteSet(Pushing(n) \ {t})
        /\ Cardinality(Pushing(n) \ {t})
                   = IF t \in Pushing(n) THEN Cardinality(Pushing(n)) - 1 ELSE Cardinality(Pushing(n))
    BY <2>1, FS_RemoveElement
  <2>3. Cardinality(Pushing(n) \ {t}) \in Nat
    BY <2>2, FS_CardinalityType
  <2> QED
    BY <2>1, <2>2, <2>3 DEF EdgeTypes, AttemptsHold
<1>5. ASSUME NEW n \in 1 .. Len(changes)
      PROVE  attempts[n] + Cardinality(Pushing(n) \ {t}) <= MostAttempts
  BY <1>4, FewPush
<1>6. CASE SendNext(t, [s EXCEPT !.pushed = @ \cup {k}], k, attempts)
  <2>1. PICK q : q = [s EXCEPT !.pushed = @ \cup {k}]
    OBVIOUS
  <2>2. q \in TaskState /\ q.copy = s.copy
    BY <1>1, <2>1 DEF TaskState
  <2> QED
    BY <1>1, <1>2, <1>3, <1>5, <1>6, <2>1, <2>2, SendsTyped
<1>7. CASE SendNext(t, s, k, [attempts EXCEPT ![k] = @ + 1])
  <2>1. PICK counts : counts = [attempts EXCEPT ![k] = @ + 1]
    OBVIOUS
  <2>2. counts \in Seq(Nat) /\ Len(counts) = Len(changes)
    BY <1>1, <1>3, <2>1
  <2>3. ASSUME NEW n \in 1 .. Len(changes)
        PROVE  counts[n] + Cardinality(Pushing(n) \ {t}) <= MostAttempts
    <3>1. CASE n = k
      <4>1. counts[n] = attempts[n] + 1
        BY <1>1, <1>3, <2>1, <3>1
      <4>2. /\ attempts[n] \in Nat /\ attempts[n] + Cardinality(Pushing(n)) <= MostAttempts
            /\ Cardinality(Pushing(n)) \in Nat
            /\ Cardinality(Pushing(n) \ {t}) = Cardinality(Pushing(n)) - 1
        BY <1>1, <1>4, <3>1
      <4>3. MostAttempts \in Nat
        BY FewPush
      <4> QED
        BY ONLY <4>1, <4>2, <4>3
    <3>2. CASE n # k
      <4>1. counts[n] = attempts[n]
        BY <1>1, <1>3, <2>1, <3>2
      <4> QED
        BY <1>5, <4>1
    <3> QED
      BY <3>1, <3>2
  <2> QED
    BY <1>1, <1>2, <1>7, <2>1, <2>2, <2>3, SendsTyped
<1> QED
  BY <1>6, <1>7 DEF PushAnswered

LEMMA QueueChangeTyped ==
    ASSUME EdgeInv, EdgeTypes, NEW c \in Change, QueueChange(c) PROVE EdgeTypes'
<1> PICK n : n = Len(changes) + 1
  OBVIOUS
<1>1. /\ n \in Nat /\ Len(changes) \in Nat /\ Len(changes') = n
      /\ attempts' = Append(attempts, 0) /\ attempts \in Seq(Nat) /\ Len(attempts) = Len(changes)
      /\ task \in [EdgeTask -> TaskState]
  BY Sizes DEF QueueChange, EdgeInv, TasksHonest, EdgeTypes, AttemptsHold
<1>2. attempts' \in Seq(Nat) /\ Len(attempts') = n
  BY <1>1
<1>3. \A t \in EdgeTask : \/ task'[t] = task[t]
                          \/ task'[t].pc = "high" /\ task'[t].copy = task[t].copy
  <2>1. ASSUME NEW u \in EdgeTask, task' = [task EXCEPT ![u].pc = "high"], NEW t \in EdgeTask
        PROVE  task'[t] = task[t] \/ (task'[t].pc = "high" /\ task'[t].copy = task[t].copy)
    BY <1>1, <2>1 DEF TaskState
  <2> QED
    BY <2>1 DEF QueueChange, Free
<1>4. CopiesHold'
  BY <1>1, <1>3 DEF EdgeTypes, CopiesHold
<1>5. ASSUME NEW m \in 1 .. n PROVE attempts'[m] + Cardinality(Pushing(m)') <= MostAttempts
  <2>1. Pushing(m)' \in SUBSET Pushing(m)
    BY <1>3 DEF Pushing
  <2>2. /\ Cardinality(Pushing(m)') \in Nat /\ Cardinality(Pushing(m)') <= Cardinality(Pushing(m))
        /\ Cardinality(Pushing(m)) \in Nat
    BY <2>1, FewPush
  <2>3. CASE m = n
    BY <1>1, <2>2, <2>3, FewPush, EdgeAssumption
  <2>4. CASE m # n
    <3>1. m \in 1 .. Len(changes) /\ attempts'[m] = attempts[m] /\ attempts[m] \in Nat
      BY <1>1, <2>4
    <3>2. attempts[m] + Cardinality(Pushing(m)) <= MostAttempts
      BY <3>1 DEF EdgeTypes, AttemptsHold
    <3> QED
      BY <2>2, <3>1, <3>2, FewPush
  <2> QED
    BY <2>3, <2>4
<1>6. AttemptsHold'
  BY <1>1, <1>2, <1>5 DEF AttemptsHold, MostAttempts
<1>7. LinkTyped'
  BY <1>1 DEF EdgeTypes, LinkTyped, QueueChange
<1> QED
  BY <1>4, <1>6, <1>7 DEF EdgeTypes

\* The steps of the connection, and the ends of a sync.
LEMMA ConnectionTyped ==
    ASSUME EdgeInv, EdgeTypes, NEW t \in EdgeTask,
           \/ Start(t) \/ ReconnectLoopWakes(t) \/ ConnectSucceeds(t) \/ ConnectFails(t)
           \/ PullsAnswered(t)
    PROVE  EdgeTypes'
<1>1. task \in [EdgeTask -> TaskState] /\ UNCHANGED <<changes, attempts, accepted>>
  BY DEF EdgeInv, TasksHonest, Start, ReconnectLoopWakes, ConnectSucceeds, ConnectFails, PullsAnswered
<1>2. LinkTyped'
  <2>1. link' = link \/ link' \in {"connected", "disconnected", "connecting"}
    BY DEF Start, ReconnectLoopWakes, ConnectSucceeds, ConnectFails, PullsAnswered
  <2>2. /\ syncTask' \in EdgeTask \cup {syncTask}
        /\ reconnectTask' \in EdgeTask \cup {0, reconnectTask}
    BY DEF Start, ReconnectLoopWakes, ConnectSucceeds, ConnectFails, PullsAnswered, Reconnecting, Free
  <2> QED
    BY <1>1, <2>1, <2>2 DEF EdgeTypes, LinkTyped
<1>3. /\ NoTask.pc # "push" /\ NoTask.copy = {}
      /\ \A loop : Asleep(loop).pc # "push" /\ Asleep(loop).copy = {}
  BY DEF NoTask, Asleep
<1>4. CASE task' = [task EXCEPT ![t].pc = "connecting"]
  <2>1. \A u \in EdgeTask : \/ task'[u] = task[u]
                            \/ task'[u].pc # "push" /\ task'[u].copy = task[u].copy
    BY <1>1, <1>4 DEF TaskState
  <2>2. \A u \in EdgeTask : task[u].copy \subseteq 1 .. Len(changes)
    BY DEF EdgeTypes, CopiesHold
  <2> QED
    BY <1>1, <1>2, <2>1, <2>2, PushesStand
<1>5. ASSUME NEW u \in EdgeTask, NEW v, NEW w, v \in {NoTask} \cup {Asleep(l) : l \in {"sync", "reconnect"}},
             w \in {NoTask} \cup {Asleep(l) : l \in {"sync", "reconnect"}},
             \/ task' = [task EXCEPT ![t] = v] \/ task' = [task EXCEPT ![t] = v, ![u] = w]
      PROVE  EdgeTypes'
  <2>1. v.pc # "push" /\ v.copy = {} /\ w.pc # "push" /\ w.copy = {}
    BY <1>3, <1>5
  <2>2. \A x \in EdgeTask : task'[x] \in {task[x], v, w}
    BY <1>1, <1>5
  <2> QED
    BY <1>1, <1>2, <2>1, <2>2, PushesStand
<1>6. CASE PullsAnswered(t) \/ ConnectSucceeds(t)
  BY <1>5, <1>6 DEF PullsAnswered, ConnectSucceeds
<1>7. CASE ConnectFails(t)
  <2>1. \/ task' \in {[task EXCEPT ![t] = Asleep("reconnect")], [task EXCEPT ![t] = NoTask]}
        \/ \E u \in EdgeTask :
              task' = [task EXCEPT ![t] = Asleep("reconnect"), ![u] = Asleep("reconnect")]
    BY <1>7 DEF ConnectFails, Reconnecting, Free
  <2> QED
    BY <1>5, <2>1
<1> QED
  BY <1>4, <1>6, <1>7 DEF Start, ReconnectLoopWakes

LEMMA NextTyped == ASSUME EdgeInv, EdgeTypes, [EdgeNext]_edgeVars PROVE EdgeTypes'
<1>1. CASE UNCHANGED edgeVars
  <2>1. LinkTyped'
    BY <1>1 DEF edgeVars, EdgeTypes, LinkTyped
  <2> QED
    BY <1>1, <2>1, PushesStand DEF edgeVars
<1>2. CASE ClearPending \/ Stop
  <2>1. LinkTyped' /\ UNCHANGED <<changes, attempts>>
    BY <1>2 DEF EdgeTypes, LinkTyped, ClearPending, Stop
  <2>2. \A t \in EdgeTask : task'[t] \in {task[t], NoTask}
    BY <1>2 DEF ClearPending, Stop
  <2>3. NoTask.pc # "push" /\ NoTask.copy = {}
    BY DEF NoTask
  <2> QED
    BY <2>1, <2>2, <2>3, PushesStand
<1>3. ASSUME NEW t \in EdgeTask, SyncHighPriority(t) PROVE EdgeTypes'
  <2>1. CASE BeginSync(t, "none")
    BY <1>3, <2>1, BeginsTyped DEF SyncHighPriority
  <2>2. CASE task' = [task EXCEPT ![t] = NoTask] /\ UNCHANGED <<waiting, attempts>>
    <3>1. LinkTyped' /\ changes' = changes
      BY <1>3 DEF EdgeTypes, LinkTyped, SyncHighPriority
    <3>2. \A u \in EdgeTask : task'[u] \in {task[u], NoTask}
      BY <2>2 DEF EdgeInv, TasksHonest
    <3>3. NoTask.pc # "push" /\ NoTask.copy = {}
      BY DEF NoTask
    <3> QED
      BY <2>2, <3>1, <3>2, <3>3, PushesStand
  <2> QED
    BY <1>3, <2>1, <2>2 DEF SyncHighPriority
<1>4. ASSUME NEW t \in EdgeTask, SyncNow(t) \/ SyncLoopWakes(t) PROVE EdgeTypes'
  BY <1>4, BeginsTyped DEF SyncNow, SyncLoopWakes
<1> QED
  BY <1>1, <1>2, <1>3, <1>4, QueueChangeTyped, PushAnsweredTyped, ConnectionTyped
  DEF EdgeNext, TaskStep

LEMMA InitTyped == EdgeInit => EdgeTypes
<1> SUFFICES ASSUME EdgeInit PROVE EdgeTypes
  OBVIOUS
<1>1. changes = <<>> /\ attempts = <<>> /\ Len(changes) = 0
  BY DEF EdgeInit
<1>2. AttemptsHold /\ LinkTyped
  BY <1>1 DEF EdgeInit, AttemptsHold, LinkTyped
<1>3. CopiesHold
  BY DEF EdgeInit, CopiesHold, NoTask
<1> QED
  BY <1>2, <1>3 DEF EdgeTypes

\* The controller's state is of its types; a change that every task pushes at once is
\* tried at most once by each of them after its last attempt (EdgeController).
THEOREM EdgeTypesHold == EdgeSpec => []EdgeTypeOK
<1>1. ASSUME EdgeInv, EdgeTypes PROVE EdgeTypeOK
  <2>1. ASSUME NEW n \in DOMAIN attempts
        PROVE  attempts[n] \in 0 .. RetryAttempts + Cardinality(EdgeTask)
    <3>1. /\ n \in 1 .. Len(changes) /\ attempts[n] \in Nat
          /\ attempts[n] + Cardinality(Pushing(n)) <= MostAttempts
      BY <1>1 DEF EdgeTypes, AttemptsHold
    <3> QED
      BY <3>1, FewPush DEF MostAttempts
  <2>2. /\ changes \in Seq(Change) /\ DOMAIN changes = 1 .. Len(changes)
        /\ waiting \subseteq DOMAIN changes /\ Cardinality(waiting) <= MaxOfflineQueue
    BY <1>1 DEF EdgeInv, QueueHolds
  <2>3. \A t \in EdgeTask :
          /\ task[t].pc \in {"none", "asleep", "high", "push", "pull", "connecting"}
          /\ task[t].loop \in {"none", "sync", "reconnect"}
          /\ task[t].pc = "push" => task[t].at \in task[t].copy
          /\ task[t].pushed \subseteq accepted
    BY <1>1 DEF EdgeInv, TasksHonest, TaskState, EdgeTypes, CopiesHold
  <2> QED
    BY <1>1, <2>1, <2>2, <2>3 DEF EdgeTypes, AttemptsHold, LinkTyped, EdgeTypeOK
<1> QED
  BY <1>1, InitEdge, NextEdge, InitTyped, NextTyped, PTL DEF EdgeSpec

\* The offline queue never holds more than max_offline_queue changes, for any number
\* of syncs and reconnect loops (EdgeController.queue_change).
THEOREM EdgeQueueBounded == EdgeSpec => [](Cardinality(waiting) <= MaxOfflineQueue)
<1>1. EdgeInv => Cardinality(waiting) <= MaxOfflineQueue
  BY DEF EdgeInv, QueueHolds
<1> QED
  BY <1>1, InitEdge, NextEdge, PTL DEF EdgeSpec

\* A change leaves the offline queue when the hub has taken it, when a full queue
\* gives up one of low priority, or when the queue is cleared: syncs that overlap and
\* copy the queue lose nothing (EdgeController._sync_to_hub).
THEOREM EdgeKeepsChanges == EdgeSpec => KeptUntilTaken
<1>1. EdgeInv /\ [EdgeNext]_edgeVars
      => [\A n \in waiting \ waiting' :
            \/ n \in accepted'
            \/ ClearPending
            \/ changes[n].priority = "low" /\ Len(changes') > Len(changes)]_edgeVars
  BY NextEdge DEF LeavesRightly
<1> QED
  BY <1>1, InitEdge, NextEdge, PTL DEF EdgeSpec, KeptUntilTaken

-----------------------------------------------------------------------------
(* Subscribers.  What a client has been sent, and what waits for it, are    *)
(* in order and are the events that it asked for: the next event is later   *)
(* than all of them.                                                        *)

\* What is known of a connection, and of a subscription that is registered.
Told(c, events) ==
    /\ ToSet(events) = Matching(socket[c].filter, socket[c].since, SentUpTo(c))
    /\ Ascending(events)

Queued(sub) ==
    LET all == Matching(sub.filter, sub.since, Event)
    IN /\ ToSet(sub.queue) \subseteq all /\ ToSet(sub.yielded) \subseteq all
       /\ \A n \in all, q \in ToSet(sub.queue) : q <= n => n \in ToSet(sub.queue)
       /\ \A n \in ToSet(sub.yielded), q \in ToSet(sub.queue) : n < q
       /\ Ascending(sub.queue) /\ Ascending(sub.yielded)

SubscriberTypes ==
    /\ topic \in Seq(Topic) /\ Event <= MaxEvents
    /\ broadcast \subseteq Socket
    /\ socket \in [Socket -> ConnectionOf \cup {Nothing}]
    /\ stream \in [Stream -> SubscriptionOf \cup {Nothing}]

SocketsInv ==
    /\ broadcast # {} => Event \in Nat \ {0}
    /\ \A c \in Socket : socket[c] # Nothing =>
          /\ socket[c].since \in 1 .. Event + 1
          /\ c \in broadcast => socket[c].since <= Event
          /\ socket[c].alive => Told(c, socket[c].received)

StreamsInv ==
    \A s \in Stream : stream[s] # Nothing =>
        /\ Len(stream[s].queue) <= MaxQueue
        /\ stream[s].since \in 1 .. Event + 1
        /\ stream[s].registered => Queued(stream[s])

SubscribersInv == SubscriberTypes /\ SocketsInv /\ StreamsInv

\* The events in order, and one more that is later than all of them.
LEMMA OneMore ==
    ASSUME NEW events \in Seq(Nat), NEW n \in Nat, Ascending(events),
           \A m \in ToSet(events) : m < n
    PROVE  /\ Append(events, n) \in Seq(Nat)
           /\ Len(Append(events, n)) = Len(events) + 1
           /\ Ascending(Append(events, n))
           /\ ToSet(Append(events, n)) = ToSet(events) \cup {n}
<1> DEFINE more == Append(events, n)
<1>1. /\ more \in Seq(Nat) /\ Len(more) = Len(events) + 1 /\ Len(events) \in Nat
      /\ DOMAIN more = 1 .. Len(events) + 1 /\ DOMAIN events = 1 .. Len(events)
      /\ \A i \in 1 .. Len(events) : more[i] = events[i]
      /\ more[Len(events) + 1] = n
  OBVIOUS
<1> HIDE DEF more
<1>2. Ascending(more)
  BY <1>1, SMTT(60) DEF Ascending, ToSet
<1>3. ToSet(more) = ToSet(events) \cup {n}
  BY <1>1 DEF ToSet
<1> QED
  BY <1>1, <1>2, <1>3 DEF more

\* The events in order without the first, which is the earliest.
LEMMA OneLess ==
    ASSUME NEW events \in Seq(Nat), events # <<>>, Ascending(events)
    PROVE  /\ Tail(events) \in Seq(Nat) /\ Head(events) \in Nat
           /\ Len(Tail(events)) = Len(events) - 1
           /\ Ascending(Tail(events))
           /\ ToSet(Tail(events)) = ToSet(events) \ {Head(events)}
           /\ Head(events) \in ToSet(events)
           /\ \A n \in ToSet(Tail(events)) : Head(events) < n
<1> DEFINE less == Tail(events)
<1>1. /\ less \in Seq(Nat) /\ Len(less) = Len(events) - 1 /\ Len(events) \in Nat \ {0}
      /\ DOMAIN less = 1 .. Len(events) - 1 /\ DOMAIN events = 1 .. Len(events)
      /\ \A i \in 1 .. Len(events) - 1 : less[i] = events[i + 1]
      /\ Head(events) = events[1] /\ events[1] \in Nat
  OBVIOUS
<1> HIDE DEF less
<1>2. \A i \in DOMAIN less : i \in Nat /\ i + 1 \in DOMAIN events /\ less[i] = events[i + 1]
  BY <1>1
<1>3. Ascending(less)
  <2> SUFFICES ASSUME NEW i \in DOMAIN less, NEW j \in DOMAIN less, i < j
               PROVE  less[i] < less[j]
    BY DEF Ascending
  <2>1. /\ i + 1 \in DOMAIN events /\ less[i] = events[i + 1] /\ i \in Nat
        /\ j + 1 \in DOMAIN events /\ less[j] = events[j + 1] /\ j \in Nat
    BY ONLY i \in DOMAIN less, j \in DOMAIN less, <1>2
  <2>2. i + 1 < j + 1
    BY <2>1
  <2>3. events[i + 1] < events[j + 1]
    BY ONLY Ascending(events), <2>1, <2>2 DEF Ascending
  <2> QED
    BY ONLY <2>1, <2>3
<1>4. \A n \in ToSet(less) : events[1] < n
  <2> SUFFICES ASSUME NEW i \in DOMAIN less PROVE events[1] < less[i]
    BY DEF ToSet
  <2>1. 1 \in DOMAIN events /\ i + 1 \in DOMAIN events /\ 1 < i + 1
    <3>1. i \in 1 .. Len(events) - 1 /\ DOMAIN events = 1 .. Len(events) /\ Len(events) \in Nat
      BY <1>1
    <3> QED
      BY ONLY <3>1
  <2>2. events[1] < events[i + 1]
    BY <2>1 DEF Ascending
  <2>3. less[i] = events[i + 1]
    BY <1>2
  <2> QED
    BY ONLY <2>2, <2>3
<1>5. ToSet(events) = ToSet(less) \cup {events[1]}
  <2>1. ASSUME NEW i \in DOMAIN events, i # 1 PROVE events[i] \in ToSet(less)
    <3>1. i - 1 \in DOMAIN less /\ less[i - 1] = events[i]
      BY <1>1, <2>1
    <3> QED
      BY <3>1 DEF ToSet
  <2>2. 1 \in DOMAIN events
    BY <1>1
  <2> QED
    BY <1>2, <2>1, <2>2 DEF ToSet
<1>6. \A n \in ToSet(less) : n \in Nat
  BY <1>1 DEF ToSet
<1>7. events[1] \notin ToSet(less)
  BY <1>1, <1>4, <1>6
<1> QED
  BY <1>1, <1>3, <1>4, <1>5, <1>7 DEF less

\* A connection and a subscription are records.
LEMMA Subscribed ==
    ASSUME SubscriberTypes
    PROVE  /\ Event \in Nat
           /\ Nothing \notin ConnectionOf /\ Nothing \notin SubscriptionOf
           /\ \A c \in Socket : socket[c] # Nothing => socket[c] \in ConnectionOf
           /\ \A s \in Stream : stream[s] # Nothing => stream[s] \in SubscriptionOf
           /\ MaxQueue \in Nat \ {0} /\ MaxEvents \in Nat
BY SubscriptionsAssumption DEF SubscriberTypes, Event

\* The other actions leave a client's events as they are.
LEMMA SocketsStand ==
    ASSUME SubscribersInv, UNCHANGED <<topic, broadcast, socket>>, SubscriberTypes', StreamsInv'
    PROVE  SubscribersInv'
BY DEF SubscribersInv, SocketsInv, Told, Matching, Matches, SentUpTo, Event

LEMMA StreamsStand ==
    ASSUME SubscribersInv, UNCHANGED <<topic, stream>>
    PROVE  StreamsInv'
BY DEF SubscribersInv, StreamsInv, Queued, Matching, Matches, Event

\* Another connection in place of one leaves the others.
LEMMA OneSocket ==
    ASSUME SubscribersInv, NEW c \in Socket, NEW new \in ConnectionOf \cup {Nothing},
           socket' = [socket EXCEPT ![c] = new], UNCHANGED <<topic, stream>>,
           broadcast' \subseteq broadcast, broadcast \ broadcast' \subseteq {c},
           new # Nothing =>
              /\ new.since \in 1 .. Event + 1
              /\ c \in broadcast' => new.since <= Event
              /\ new.alive =>
                    /\ ToSet(new.received) =
                          Matching(new.filter, new.since, IF c \in broadcast' THEN Event - 1 ELSE Event)
                    /\ Ascending(new.received)
    PROVE  SubscribersInv'
<1>1. SubscriberTypes'
  BY DEF SubscribersInv, SubscriberTypes, Event
<1>2. ASSUME NEW d \in Socket, socket'[d] # Nothing
      PROVE  /\ socket'[d].since \in 1 .. Event + 1
             /\ d \in broadcast' => socket'[d].since <= Event
             /\ socket'[d].alive =>
                   /\ ToSet(socket'[d].received) =
                         Matching(socket'[d].filter, socket'[d].since,
                                  IF d \in broadcast' THEN Event - 1 ELSE Event)
                   /\ Ascending(socket'[d].received)
  <2>1. CASE d = c
    BY <1>2, <2>1 DEF SubscribersInv, SubscriberTypes
  <2>2. CASE d # c
    <3>1. socket'[d] = socket[d] /\ (d \in broadcast' <=> d \in broadcast)
      BY <2>2 DEF SubscribersInv, SubscriberTypes
    <3> QED
      BY <1>2, <3>1 DEF SubscribersInv, SocketsInv, Told, SentUpTo
  <2> QED
    BY <2>1, <2>2
<1>3. SocketsInv'
  BY <1>2 DEF SubscribersInv, SocketsInv, Told, SentUpTo, Matching, Matches, Event
<1> QED
  BY <1>1, <1>3, StreamsStand DEF SubscribersInv

-----------------------------------------------------------------------------
(* WebSockets.                                                             *)

LEMMA ConnectServed == ASSUME SubscribersInv, NEW c \in Socket, Connect(c) PROVE SubscribersInv'
<1>1. PICK filter \in Filter :
         socket' = [socket EXCEPT ![c] = [filter |-> filter, since |-> Event + 1,
                                          received |-> <<>>, alive |-> TRUE]]
  BY DEF Connect
<1> DEFINE new == [filter |-> filter, since |-> Event + 1, received |-> <<>>, alive |-> TRUE]
<1>2. Event \in Nat /\ filter \in SUBSET Topic
  BY Subscribed DEF SubscribersInv, Filter
<1>3. new \in ConnectionOf
  BY <1>2 DEF ConnectionOf
<1>4. /\ new.since = Event + 1 /\ new.received = <<>> /\ c \notin broadcast
      /\ broadcast' = broadcast /\ topic' = topic /\ stream' = stream
      /\ socket' = [socket EXCEPT ![c] = new]
  BY <1>1 DEF Connect
<1>5. Event + 1 \in 1 .. Event + 1 /\ Event + 1 .. Event = {}
  BY <1>2
<1> HIDE DEF new
<1>6. /\ ToSet(new.received) = {} /\ Ascending(new.received)
      /\ Matching(new.filter, new.since, Event) = {}
  BY <1>4, <1>5 DEF ToSet, Ascending, Matching
<1> QED
  BY <1>3, <1>4, <1>5, <1>6, OneSocket

LEMMA BreakServed == ASSUME SubscribersInv, NEW c \in Socket, Break(c) PROVE SubscribersInv'
<1> DEFINE new == [socket[c] EXCEPT !.alive = FALSE]
<1>1. socket[c] # Nothing /\ socket[c] \in ConnectionOf
  BY Subscribed DEF Break, Alive, SubscribersInv
<1>2. new \in ConnectionOf /\ new.since = socket[c].since /\ ~new.alive
  BY <1>1 DEF ConnectionOf
<1>3. /\ broadcast' = broadcast /\ topic' = topic /\ stream' = stream
      /\ socket' = [socket EXCEPT ![c] = new]
  BY DEF Break
<1> HIDE DEF new
<1>4. new.since \in 1 .. Event + 1 /\ (c \in broadcast => new.since <= Event)
  BY <1>1, <1>2 DEF SubscribersInv, SocketsInv
<1> QED
  BY <1>2, <1>3, <1>4, OneSocket

LEMMA DisconnectServed ==
    ASSUME SubscribersInv, NEW c \in Socket, Disconnect(c) PROVE SubscribersInv'
BY OneSocket DEF Disconnect

\* The last event is sent to a client that has all before it.
LEMMA SendServed == ASSUME SubscribersInv, NEW c \in Socket, Send(c) PROVE SubscribersInv'
<1>1. CASE c \notin Alive
  <2>1. broadcast' = broadcast \ {c} /\ socket' = socket /\ topic' = topic /\ stream' = stream
    BY <1>1 DEF Send, SendFails
  <2>2. SubscriberTypes'
    BY <2>1 DEF SubscribersInv, SubscriberTypes, Event
  <2>3. SocketsInv'
    BY <1>1, <2>1
       DEF SubscribersInv, SocketsInv, Told, Matching, Matches, SentUpTo, Event, Alive
  <2> QED
    BY <2>1, <2>2, <2>3, StreamsStand DEF SubscribersInv
<1>2. CASE c \in Alive
  <2> DEFINE old == socket[c]
             events == IF Matches(old.filter, Event) THEN Append(old.received, Event) ELSE old.received
             new == [old EXCEPT !.received = events]
  <2>1. /\ broadcast' = broadcast \ {c} /\ topic' = topic /\ stream' = stream
        /\ socket' = [socket EXCEPT ![c] = new] /\ c \in broadcast
    BY <1>2 DEF Send
  <2>2. old # Nothing /\ old \in ConnectionOf /\ old.alive /\ Event \in Nat \ {0}
    BY <1>2, <2>1, Subscribed DEF Alive, SubscribersInv, SocketsInv
  <2>3. /\ old.since \in 1 .. Event /\ old.received \in Seq(Nat)
        /\ ToSet(old.received) = Matching(old.filter, old.since, Event - 1)
        /\ Ascending(old.received)
    BY <2>1, <2>2 DEF SubscribersInv, SocketsInv, Told, SentUpTo, ConnectionOf
  <2>4. \A n \in ToSet(old.received) : n < Event
    BY <2>2, <2>3 DEF Matching
  <2>5. /\ Append(old.received, Event) \in Seq(Nat)
        /\ Ascending(Append(old.received, Event))
        /\ ToSet(Append(old.received, Event)) = ToSet(old.received) \cup {Event}
    BY <2>2, <2>3, <2>4, OneMore
  <2>6. old.since .. Event = (old.since .. Event - 1) \cup {Event}
    BY <2>2, <2>3
  <2>7. /\ events \in Seq(Nat) /\ Ascending(events)
        /\ ToSet(events) = Matching(old.filter, old.since, Event)
    <3>1. CASE Matches(old.filter, Event)
      BY <3>1, <2>3, <2>5, <2>6 DEF Matching
    <3>2. CASE ~Matches(old.filter, Event)
      BY <3>2, <2>3, <2>6 DEF Matching
    <3> QED
      BY <3>1, <3>2
  <2> HIDE DEF events
  <2>8. /\ new \in ConnectionOf /\ new.received = events /\ new.since = old.since
        /\ new.filter = old.filter
    BY <2>2, <2>7 DEF ConnectionOf
  <2>9. new.since \in 1 .. Event + 1 /\ Event \in Nat
    BY <2>2, <2>3, <2>8
  <2> HIDE DEF new
  <2> QED
    BY <2>1, <2>3, <2>7, <2>8, <2>9, OneSocket
<1> QED
  BY <1>1, <1>2

-----------------------------------------------------------------------------
(* GraphQL subscriptions.                                                  *)

\* What is known of a subscription.
SoundAt(sub) ==
    /\ Len(sub.queue) <= MaxQueue
    /\ sub.since \in 1 .. Event + 1
    /\ sub.registered => Queued(sub)

\* Another subscription in place of one leaves the others.
LEMMA OneStream ==
    ASSUME SubscribersInv, NEW s \in Stream, NEW new \in SubscriptionOf \cup {Nothing},
           stream' = [stream EXCEPT ![s] = new], UNCHANGED <<topic, socket, broadcast>>,
           new # Nothing => SoundAt(new)
    PROVE  SubscribersInv'
<1>1. SubscriberTypes'
  BY DEF SubscribersInv, SubscriberTypes, Event
<1>2. ASSUME NEW t \in Stream, stream'[t] # Nothing PROVE SoundAt(stream'[t])
  BY <1>2 DEF SubscribersInv, SubscriberTypes, StreamsInv, SoundAt
<1>3. StreamsInv'
  BY <1>2 DEF StreamsInv, SoundAt, Queued, Matching, Matches, Event
<1> QED
  BY <1>1, <1>3, SocketsStand

LEMMA RegisterServed == ASSUME SubscribersInv, NEW s \in Stream, Register(s) PROVE SubscribersInv'
<1>1. PICK filter \in Filter :
         stream' = [stream EXCEPT ![s] = [filter |-> filter, since |-> Event + 1, queue |-> <<>>,
                                          yielded |-> <<>>, registered |-> TRUE]]
  BY DEF Register
<1> DEFINE new == [filter |-> filter, since |-> Event + 1, queue |-> <<>>,
                   yielded |-> <<>>, registered |-> TRUE]
<1>2. Event \in Nat /\ filter \in SUBSET Topic /\ MaxQueue \in Nat
  BY Subscribed DEF SubscribersInv, Filter
<1>3. new \in SubscriptionOf
  BY <1>2 DEF SubscriptionOf
<1>4. /\ new.since = Event + 1 /\ new.queue = <<>> /\ new.yielded = <<>>
      /\ topic' = topic /\ socket' = socket /\ broadcast' = broadcast
      /\ stream' = [stream EXCEPT ![s] = new]
  BY <1>1 DEF Register
<1> HIDE DEF new
<1>5. SoundAt(new)
  <2>1. ToSet(new.queue) = {} /\ ToSet(new.yielded) = {} /\ Ascending(new.queue) /\ Ascending(new.yielded)
    BY <1>4 DEF ToSet, Ascending
  <2> QED
    BY <1>2, <1>4, <2>1 DEF SoundAt, Queued
<1> QED
  BY <1>3, <1>4, <1>5, OneStream

LEMMA YieldServed == ASSUME SubscribersInv, NEW s \in Stream, Yield(s) PROVE SubscribersInv'
<1> DEFINE old == stream[s]
<1>1. /\ old # Nothing /\ old.queue # <<>>
      /\ topic' = topic /\ socket' = socket /\ broadcast' = broadcast
  BY DEF Yield
<1>2. old \in SubscriptionOf /\ SoundAt(old) /\ Event \in Nat /\ MaxQueue \in Nat
  BY <1>1, Subscribed DEF SubscribersInv, StreamsInv, SoundAt
<1>3. CASE stream' = [stream EXCEPT ![s] = Nothing]
  BY <1>1, <1>3, OneStream
<1>4. ASSUME NEW yielded \in Resolved(old.yielded, Head(old.queue)),
             stream' = [stream EXCEPT ![s].queue = Tail(@), ![s].yielded = yielded]
      PROVE  SubscribersInv'
  <2> DEFINE new == [old EXCEPT !.queue = Tail(@), !.yielded = yielded]
  <2>1. stream' = [stream EXCEPT ![s] = new]
    BY <1>4 DEF SubscribersInv, SubscriberTypes
  <2>2. /\ old.queue \in Seq(Nat) /\ old.yielded \in Seq(Nat) /\ Head(old.queue) \in Nat
        /\ Tail(old.queue) \in Seq(Nat) /\ Len(old.queue) \in Nat
        /\ Len(Tail(old.queue)) = Len(old.queue) - 1
    BY <1>1, <1>2 DEF SubscriptionOf
  <2>3. yielded \in Seq(Nat)
    <3>1. Append(old.yielded, Head(old.queue)) \in Seq(Nat)
      BY <2>2
    <3> QED
      BY <2>2, <3>1, <1>4 DEF Resolved
  <2>4. /\ new \in SubscriptionOf /\ new.queue = Tail(old.queue) /\ new.yielded = yielded
        /\ new.since = old.since /\ new.filter = old.filter /\ new.registered = old.registered
    BY <1>2, <2>2, <2>3 DEF SubscriptionOf
  <2> HIDE DEF new
  <2>5. ASSUME old.registered PROVE Queued(new)
    <3> DEFINE all == Matching(old.filter, old.since, Event)
    <3>1. /\ ToSet(old.queue) \subseteq all /\ ToSet(old.yielded) \subseteq all
          /\ \A n \in all, q \in ToSet(old.queue) : q <= n => n \in ToSet(old.queue)
          /\ \A n \in ToSet(old.yielded), q \in ToSet(old.queue) : n < q
          /\ Ascending(old.queue) /\ Ascending(old.yielded)
      BY <1>2, <2>5 DEF SoundAt, Queued
    <3>2. /\ Ascending(Tail(old.queue))
          /\ ToSet(Tail(old.queue)) = ToSet(old.queue) \ {Head(old.queue)}
          /\ Head(old.queue) \in ToSet(old.queue)
          /\ \A n \in ToSet(Tail(old.queue)) : Head(old.queue) < n
      BY <1>1, <2>2, <3>1, OneLess
    <3>3. all \subseteq Nat
      BY <1>2 DEF SoundAt, SubscriptionOf, Matching
    <3>4. \A n \in ToSet(old.yielded) : n < Head(old.queue)
      BY <3>1, <3>2
    <3>5. /\ Ascending(Append(old.yielded, Head(old.queue)))
          /\ ToSet(Append(old.yielded, Head(old.queue))) = ToSet(old.yielded) \cup {Head(old.queue)}
      BY <2>2, <3>1, <3>4, OneMore
    <3>6. Ascending(yielded) /\ ToSet(yielded) \subseteq ToSet(old.yielded) \cup {Head(old.queue)}
      BY <3>1, <3>5 DEF Resolved
    <3> HIDE DEF all
    <3>7. ToSet(Tail(old.queue)) \subseteq all /\ ToSet(yielded) \subseteq all
      BY <3>1, <3>2, <3>6
    <3>8. \A n \in all, q \in ToSet(Tail(old.queue)) : q <= n => n \in ToSet(Tail(old.queue))
      <4> SUFFICES ASSUME NEW n \in all, NEW q \in ToSet(Tail(old.queue)), q <= n
                   PROVE  n \in ToSet(Tail(old.queue))
        OBVIOUS
      <4>1. n \in ToSet(old.queue) /\ Head(old.queue) < q /\ n \in Nat /\ q \in Nat
        BY <3>1, <3>2, <3>3, <3>7
      <4> QED
        BY <4>1, <3>2, <2>2
    <3>9. \A n \in ToSet(yielded), q \in ToSet(Tail(old.queue)) : n < q
      BY <3>1, <3>2, <3>6
    <3> QED
      BY <2>4, <3>2, <3>6, <3>7, <3>8, <3>9 DEF Queued, all
  <2>6. SoundAt(new)
    BY <1>2, <2>2, <2>4, <2>5 DEF SoundAt
  <2> QED
    BY <1>1, <2>1, <2>4, <2>6, OneStream
<1> QED
  BY <1>3, <1>4 DEF Yield

LEMMA UnsubscribeServed ==
    ASSUME SubscribersInv, NEW s \in Stream, Unsubscribe(s) PROVE SubscribersInv'
BY OneStream DEF Unsubscribe

\* A subscription of a manager that is stopped is not registered any more.
LEMMA StopManagerServed == ASSUME SubscribersInv, StopManager PROVE SubscribersInv'
<1> DEFINE ended(s) == [stream[s] EXCEPT !.registered = FALSE,
                           !.queue = IF Len(@) = MaxQueue THEN @ ELSE Append(@, End)]
<1>1. /\ stream' = [s \in Stream |-> IF stream[s] = Nothing THEN Nothing ELSE ended(s)]
      /\ topic' = topic /\ socket' = socket /\ broadcast' = broadcast
  BY DEF StopManager
<1>2. ASSUME NEW s \in Stream, stream[s] # Nothing
      PROVE  /\ ended(s) \in SubscriptionOf /\ ~ended(s).registered
             /\ Len(ended(s).queue) <= MaxQueue /\ ended(s).since = stream[s].since
  <2>1. stream[s] \in SubscriptionOf /\ Len(stream[s].queue) <= MaxQueue /\ MaxQueue \in Nat
    BY <1>2, Subscribed DEF SubscribersInv, StreamsInv
  <2> DEFINE rest == IF Len(stream[s].queue) = MaxQueue THEN stream[s].queue
                     ELSE Append(stream[s].queue, End)
  <2>2. rest \in Seq(Nat) /\ Len(rest) <= MaxQueue
    BY <2>1 DEF SubscriptionOf, End
  <2>3. ended(s) = [stream[s] EXCEPT !.registered = FALSE, !.queue = rest]
    OBVIOUS
  <2> HIDE DEF rest, ended
  <2> QED
    BY <2>1, <2>2, <2>3 DEF SubscriptionOf
<1> HIDE DEF ended
<1>3. SubscriberTypes'
  BY <1>1, <1>2 DEF SubscribersInv, SubscriberTypes, Event
<1>4. \A s \in Stream : stream'[s] # Nothing =>
         /\ Len(stream'[s].queue) <= MaxQueue /\ ~stream'[s].registered
         /\ stream'[s].since \in 1 .. Event + 1
  BY <1>1, <1>2 DEF SubscribersInv, StreamsInv
<1>5. StreamsInv'
  BY <1>1, <1>4 DEF StreamsInv, Event
<1> QED
  BY <1>1, <1>3, <1>5, SocketsStand

-----------------------------------------------------------------------------
\* An event more: what was asked for of the events before is what it was.
LEMMA OneEvent ==
    ASSUME SubscribersInv, NEW t \in Topic, topic' = Append(topic, t)
    PROVE  /\ Event \in Nat /\ Event' = Event + 1 /\ topic' \in Seq(Topic)
           /\ \A n \in 1 .. Event : topic'[n] = topic[n]
           /\ topic'[Event + 1] = t
BY DEF SubscribersInv, SubscriberTypes, Event

\* The next event is put into a queue: a full queue gives up its oldest one for it.
LEMMA OfferedIsSound ==
    ASSUME SubscribersInv, NEW t \in Topic, topic' = Append(topic, t),
           NEW s \in Stream, stream[s] \in SubscriptionOf, SoundAt(stream[s]),
           stream'[s] = Offered(stream[s], t)
    PROVE  stream'[s] \in SubscriptionOf /\ SoundAt(stream[s])'
<1> PICK sub : sub = stream[s]
  OBVIOUS
<1> PICK offered : offered = stream'[s]
  OBVIOUS
<1> DEFINE next == Event + 1
           all == Matching(sub.filter, sub.since, Event)
           more == {n \in sub.since .. next : topic'[n] \in sub.filter}
           room == IF Len(sub.queue) = MaxQueue THEN MadeRoom(sub.queue) ELSE sub.queue
<1>1. Event \in Nat /\ Event' = next /\ MaxQueue \in Nat \ {0} /\ sub.since \in 1 .. Event + 1
  BY OneEvent, Subscribed DEF SubscribersInv, SoundAt
<1>2. /\ sub.queue \in Seq(Nat) /\ sub.yielded \in Seq(Nat) /\ Len(sub.queue) \in Nat
      /\ Len(sub.queue) <= MaxQueue
  BY DEF SubscriptionOf, SoundAt
<1>3. /\ sub.since .. next = (sub.since .. Event) \cup {next}
      /\ all \subseteq 1 .. Event /\ next \notin all
  BY <1>1 DEF Matching
<1>4. /\ t \in sub.filter => more = all \cup {next}
      /\ t \notin sub.filter => more = all
  <2>1. \A n \in sub.since .. Event : topic'[n] = topic[n]
    <3>1. \A n \in sub.since .. Event : n \in 1 .. Event
      BY ONLY <1>1
    <3>2. \A n \in 1 .. Event : topic'[n] = topic[n]
      BY OneEvent
    <3> QED
      BY ONLY <3>1, <3>2
  <2>2. topic'[next] = t
    BY OneEvent
  <2> QED
    BY <1>3, <2>1, <2>2 DEF Matching, Matches
<1> HIDE DEF all, more, next
<1>5. CASE ~sub.registered
  <2>1. offered = sub
    BY <1>5 DEF Offered
  <2> QED
    BY <1>1, <1>2, <1>5, <2>1 DEF SoundAt, next
<1>6. CASE sub.registered /\ t \notin sub.filter
  <2>1. offered = sub /\ Queued(sub)
    BY <1>6 DEF Offered, SoundAt
  <2>2. Queued(stream[s])'
    BY <1>1, <1>4, <1>6, <2>1 DEF Queued, Matching, Matches, all, more, next
  <2> QED
    BY <1>1, <1>2, <2>1, <2>2 DEF SoundAt, next
<1>7. CASE sub.registered /\ t \in sub.filter
  <2>1. /\ ToSet(sub.queue) \subseteq all /\ ToSet(sub.yielded) \subseteq all
        /\ \A n \in all, q \in ToSet(sub.queue) : q <= n => n \in ToSet(sub.queue)
        /\ \A n \in ToSet(sub.yielded), q \in ToSet(sub.queue) : n < q
        /\ Ascending(sub.queue) /\ Ascending(sub.yielded)
    BY <1>7 DEF SoundAt, Queued, all
  <2>2. /\ room \in Seq(Nat) /\ Len(room) < MaxQueue /\ Ascending(room)
        /\ ToSet(room) \subseteq ToSet(sub.queue)
        /\ \A n \in ToSet(sub.queue), q \in ToSet(room) : q <= n => n \in ToSet(room)
    <3>1. CASE Len(sub.queue) = MaxQueue
      <4>1. room = Tail(sub.queue) /\ sub.queue # <<>>
        BY <1>1, <1>2, <3>1 DEF MadeRoom
      <4>2. /\ Len(room) = Len(sub.queue) - 1 /\ room \in Seq(Nat) /\ Ascending(room)
            /\ ToSet(room) = ToSet(sub.queue) \ {Head(sub.queue)}
            /\ \A n \in ToSet(room) : Head(sub.queue) < n
            /\ Head(sub.queue) \in Nat
        <5>1. sub.queue \in Seq(Nat) /\ sub.queue # <<>> /\ Ascending(sub.queue)
          BY <1>2, <2>1, <4>1
        <5> HIDE DEF room
        <5> QED
          BY <4>1, <5>1, OneLess
      <4> HIDE DEF room
      <4>3. \A n \in ToSet(sub.queue), q \in ToSet(room) : q <= n => n \in ToSet(room)
        <5> SUFFICES ASSUME NEW n \in ToSet(sub.queue), NEW q \in ToSet(room), q <= n
                     PROVE  n # Head(sub.queue)
          BY <4>2
        <5>1. q \in Nat /\ Head(sub.queue) < q
          <6>1. PICK i \in DOMAIN room : room[i] = q
            BY DEF ToSet
          <6>2. room[i] \in Nat
            BY <4>2, LenProperties, ElementOfSeq
          <6> QED
            BY <4>2, <6>1, <6>2
        <5> QED
          BY <4>2, <5>1
      <4> QED
        BY <1>1, <1>2, <3>1, <4>2, <4>3
    <3>2. CASE Len(sub.queue) # MaxQueue
      BY <1>1, <1>2, <2>1, <3>2
    <3> QED
      BY <3>1, <3>2
  <2> HIDE DEF room
  <2>3. next \in Nat /\ \A n \in all : n \in Nat /\ n < next
    <3>1. Event \in Nat /\ all \subseteq 1 .. Event
      BY <1>1, <1>3
    <3> QED
      BY ONLY <3>1 DEF next
  <2>4. \A n \in ToSet(room) : n < next
    BY <2>1, <2>2, <2>3
  <2> DEFINE longer == Append(room, next)
  <2>5. /\ longer \in Seq(Nat) /\ Len(longer) = Len(room) + 1 /\ Ascending(longer)
        /\ ToSet(longer) = ToSet(room) \cup {next}
    BY <2>2, <2>3, <2>4, OneMore
  <2>6. offered = [sub EXCEPT !.queue = longer]
    BY <1>7 DEF Offered, room, next
  <2> HIDE DEF longer
  <2>7. /\ offered \in SubscriptionOf /\ offered.queue = longer /\ offered.yielded = sub.yielded
        /\ offered.since = sub.since /\ offered.filter = sub.filter
    BY <2>5, <2>6 DEF SubscriptionOf
  <2>8. Len(longer) <= MaxQueue
    BY <1>1, <2>2, <2>5
  <2>9. /\ ToSet(longer) \subseteq more /\ ToSet(sub.yielded) \subseteq more
        /\ \A n \in more, q \in ToSet(longer) : q <= n => n \in ToSet(longer)
        /\ \A n \in ToSet(sub.yielded), q \in ToSet(longer) : n < q
    <3>1. more = all \cup {next}
      BY <1>4, <1>7
    <3>2. ASSUME NEW n \in more, NEW q \in ToSet(longer), q <= n PROVE n \in ToSet(longer)
      <4>1. CASE n = next
        BY <4>1, <2>5
      <4>2. CASE n \in all /\ q \in ToSet(room)
        BY <2>1, <2>2, <2>5, <3>2, <4>2
      <4>3. CASE n \in all /\ q = next
        BY <2>3, <3>2, <4>3
      <4> QED
        BY <2>5, <3>1, <4>1, <4>2, <4>3
    <3>3. ASSUME NEW n \in ToSet(sub.yielded), NEW q \in ToSet(longer) PROVE n < q
      BY <2>1, <2>2, <2>3, <2>5
    <3> QED
      BY <2>1, <2>2, <2>5, <3>1, <3>2, <3>3
  <2>10. Queued(stream[s])'
    BY <1>1, <2>1, <2>5, <2>7, <2>9 DEF Queued, Matching, Matches, more, next
  <2> QED
    BY <1>1, <2>7, <2>8, <2>10 DEF SoundAt, next
<1> QED
  BY <1>5, <1>6, <1>7

LEMMA HappensServed ==
    ASSUME SubscribersInv, NEW t \in Topic, Happens(t) PROVE SubscribersInv'
<1>1. /\ topic' = Append(topic, t) /\ Event < MaxEvents /\ broadcast = {}
      /\ broadcast' = {c \in Socket : socket[c] # Nothing} /\ socket' = socket
      /\ stream' = [s \in Stream |-> IF stream[s] = Nothing THEN Nothing ELSE Offered(stream[s], t)]
  BY DEF Happens
<1>2. /\ Event \in Nat /\ Event' = Event + 1 /\ topic' \in Seq(Topic) /\ MaxEvents \in Nat
      /\ \A c \in Socket : socket[c] # Nothing => socket[c] \in ConnectionOf
      /\ \A s \in Stream : stream[s] # Nothing => stream[s] \in SubscriptionOf /\ SoundAt(stream[s])
  BY <1>1, OneEvent, Subscribed DEF SubscribersInv, StreamsInv, SoundAt
<1>3. ASSUME NEW s \in Stream, stream[s] # Nothing
      PROVE  stream'[s] \in SubscriptionOf /\ SoundAt(stream[s])'
  <2>1. stream'[s] = Offered(stream[s], t)
    BY <1>1, <1>3
  <2> QED
    BY <1>1, <1>2, <1>3, <2>1, OfferedIsSound
<1>4. SubscriberTypes'
  BY <1>1, <1>2, <1>3 DEF SubscribersInv, SubscriberTypes, Event
<1>5. StreamsInv'
  BY <1>1, <1>3 DEF StreamsInv, SoundAt
<1>6. SocketsInv'
  <2>1. ASSUME NEW c \in Socket, socket[c] # Nothing
        PROVE  /\ socket[c].since \in 1 .. Event + 1
               /\ socket[c].alive =>
                     /\ ToSet(socket[c].received) =
                           {n \in socket[c].since .. Event : topic'[n] \in socket[c].filter}
                     /\ Ascending(socket[c].received)
    <3>1. socket[c].since \in 1 .. Event + 1 /\ (socket[c].alive => Told(c, socket[c].received))
      BY <2>1 DEF SubscribersInv, SocketsInv
    <3>2. \A n \in socket[c].since .. Event : topic'[n] = topic[n]
      <4>1. \A n \in socket[c].since .. Event : n \in 1 .. Event
        BY ONLY <1>2, <3>1
      <4>2. \A n \in 1 .. Event : topic'[n] = topic[n]
        BY <1>1, OneEvent
      <4> QED
        BY ONLY <4>1, <4>2
    <3> QED
      BY <1>1, <3>1, <3>2 DEF Told, SentUpTo, Matching, Matches
  <2>2. Event' - 1 = Event /\ Event' \in Nat \ {0}
    BY <1>2
  <2>3. ASSUME NEW c \in Socket, socket'[c] # Nothing
        PROVE  /\ socket'[c].since \in 1 .. Event' + 1
               /\ socket'[c].since <= Event'
               /\ socket'[c].alive => Told(c, socket[c].received)'
    <3>1. c \in broadcast' /\ socket'[c] = socket[c]
      BY <1>1, <2>3
    <3>2. socket[c].since \in 1 .. Event' + 1 /\ socket[c].since <= Event'
      BY <1>2, <2>1, <2>3, <3>1
    <3> QED
      BY <2>1, <2>2, <2>3, <3>1, <3>2 DEF Told, SentUpTo, Matching, Matches
  <2> QED
    BY <2>2, <2>3 DEF SocketsInv
<1> QED
  BY <1>4, <1>5, <1>6 DEF SubscribersInv

LEMMA NextServed ==
    ASSUME SubscribersInv, [SubscriptionsNext]_subscriptionVars PROVE SubscribersInv'
<1>1. CASE UNCHANGED subscriptionVars
  <2>1. UNCHANGED <<topic, socket, broadcast, stream>>
    BY <1>1 DEF subscriptionVars
  <2>2. SubscriberTypes'
    BY <2>1 DEF SubscribersInv, SubscriberTypes, Event
  <2> QED
    BY <2>1, <2>2, StreamsStand, SocketsStand
<1> QED
  BY <1>1, HappensServed, ConnectServed, BreakServed, DisconnectServed, SendServed, RegisterServed,
     YieldServed, UnsubscribeServed, StopManagerServed DEF SubscriptionsNext

LEMMA InitServed == SubscriptionsInit => SubscribersInv
<1> SUFFICES ASSUME SubscriptionsInit PROVE SubscribersInv
  OBVIOUS
<1>1. Event = 0 /\ topic \in Seq(Topic) /\ MaxEvents \in Nat
  BY SubscriptionsAssumption DEF SubscriptionsInit, Event
<1> QED
  BY <1>1 DEF SubscriptionsInit, SubscribersInv, SubscriberTypes, SocketsInv, StreamsInv

\* The connections and subscriptions are of their types: whatever is sent, broken off and
\* dropped meanwhile, no queue outgrows its bound (EventSubscription, WebSocketManager).
THEOREM SubscriptionsTypesHold == SubscriptionsSpec => []SubscriptionsTypeOK
<1>1. ASSUME SubscribersInv PROVE SubscriptionsTypeOK
  <2>1. topic \in BoundedSeq(Topic, MaxEvents)
    <3>1. Len(topic) \in 0 .. MaxEvents /\ topic \in [1 .. Len(topic) -> Topic]
      BY <1>1 DEF SubscribersInv, SubscriberTypes, Event
    <3> QED
      BY <3>1 DEF BoundedSeq, SeqOf
  <2>2. ASSUME NEW s \in Stream, stream[s] # Nothing, stream[s].registered
        PROVE  End \notin ToSet(stream[s].queue)
    <3>1. /\ stream[s].since \in 1 .. Event + 1
          /\ ToSet(stream[s].queue) \subseteq Matching(stream[s].filter, stream[s].since, Event)
      BY <1>1, <2>2 DEF SubscribersInv, StreamsInv, Queued
    <3>2. 0 \notin Matching(stream[s].filter, stream[s].since, Event)
      BY <3>1 DEF Matching
    <3> QED
      BY <3>1, <3>2 DEF End
  <2>3. \A c \in Socket : socket[c] # Nothing => socket[c].since \in 1 .. Event + 1
    BY <1>1 DEF SubscribersInv, SocketsInv
  <2>4. \A s \in Stream : stream[s] # Nothing => Len(stream[s].queue) <= MaxQueue
    BY <1>1 DEF SubscribersInv, StreamsInv
  <2> QED
    BY <1>1, <2>1, <2>2, <2>3, <2>4 DEF SubscribersInv, SubscriberTypes, SubscriptionsTypeOK
<1> QED
  BY <1>1, InitServed, NextServed, PTL DEF SubscriptionsSpec

\* A connected client has been sent every event that it asked for since it came, once
\* and in order, whoever breaks, leaves or comes during a broadcast; what waits in the
\* queue of a subscription are the newest of its events: for any number of clients,
\* topics and events and any size of the queues.
THEOREM AllSubscribersServed == SubscriptionsSpec => []SubscribersServed
<1>1. SubscribersInv => SubscribersServed
  <2> SUFFICES ASSUME SubscribersInv PROVE SubscribersServed
    OBVIOUS
  <2>1. SocketsMissNothing
    BY DEF SubscribersInv, SocketsInv, SocketsMissNothing, Told, Alive
  <2>2. NewestKept
    BY DEF SubscribersInv, StreamsInv, NewestKept, Queued
  <2> QED
    BY <2>1, <2>2 DEF SubscribersServed
<1> QED
  BY <1>1, InitServed, NextServed, PTL DEF SubscriptionsSpec
-----------------------------------------------------------------------------
(* The policies.  The engine's list is sorted again whenever one is added: *)
(* of two policies the one that comes first has the lower number, or the   *)
(* same one and was added first.  That a list can be sorted at all is a    *)
(* matter of counting: the ranks of its places are different numbers from  *)
(* one to its length, so every such number is the rank of a place.         *)

Different(list) == \A i, j \in DOMAIN list : list[i] = list[j] => i = j

AddedBefore(p, q) == \E i, j \in DOMAIN added : i < j /\ added[i] = p /\ added[j] = q

Arranged ==
    \A m, n \in DOMAIN policies :
        m < n => \/ policies[m].priority < policies[n].priority
                 \/ /\ policies[m].priority = policies[n].priority
                    /\ AddedBefore(policies[m], policies[n])

AccessInv ==
    /\ policies \in Seq(Policy) /\ added \in Seq(Policy)
    /\ Different(policies) /\ Different(added)
    /\ Range(policies) = Range(added)
    /\ Arranged

LEMMA Places ==
    ASSUME NEW list \in Seq(Policy)
    PROVE  /\ Len(list) \in Nat /\ DOMAIN list = 1 .. Len(list)
           /\ \A i \in DOMAIN list : list[i] \in Policy /\ list[i].priority \in Int
<1>1. Len(list) \in Nat /\ DOMAIN list = 1 .. Len(list) /\ \A i \in 1 .. Len(list) : list[i] \in Policy
  BY LenProperties, ElementOfSeq
<1> QED
  BY <1>1, AccessAssumption

\* The ranks of two places differ, and the places of a list take every rank.
LEMMA Ranks ==
    ASSUME NEW list \in Seq(Policy)
    PROVE  /\ \A i, j \in DOMAIN list : Rank(list, i) < Rank(list, j) => NotAfter(list, i, j)
           /\ \A i, j \in DOMAIN list : Rank(list, i) = Rank(list, j) => i = j
           /\ \A i \in DOMAIN list : Rank(list, i) \in DOMAIN list
           /\ \A n \in DOMAIN list : \E i \in DOMAIN list : Rank(list, i) = n
<1> DEFINE size == Len(list)
           Below(i) == {j \in DOMAIN list : NotAfter(list, j, i)}
<1>1. size \in Nat /\ DOMAIN list = 1 .. size /\ \A i \in 1 .. size : list[i].priority \in Int
  BY Places
<1>2. \A i \in 1 .. size : Below(i) \in SUBSET (1 .. size) /\ i \in Below(i)
  BY <1>1 DEF NotAfter
<1>3. \A i \in 1 .. size : Rank(list, i) = Cardinality(Below(i))
  BY DEF Rank
<1>4. ASSUME NEW i \in 1 .. size, NEW j \in 1 .. size
      PROVE  NotAfter(list, i, j) \/ NotAfter(list, j, i)
  BY <1>1 DEF NotAfter
<1>5. ASSUME NEW i \in 1 .. size, NEW j \in 1 .. size, NotAfter(list, i, j)
      PROVE  /\ Below(i) \subseteq Below(j)
             /\ i # j => j \notin Below(i)
  BY <1>1, <1>5 DEF NotAfter
<1>6. 1 \in Int /\ size \in Int
  BY <1>1
<1> HIDE DEF Below, size
<1>7. ASSUME NEW i \in 1 .. size, NEW j \in 1 .. size, NotAfter(list, i, j), i # j
      PROVE  Rank(list, i) < Rank(list, j)
  <2>1. Below(j) \in SUBSET (1 .. size) /\ Below(i) \in SUBSET Below(j) /\ Below(i) # Below(j)
    BY <1>2, <1>5, <1>7
  <2>2. /\ Cardinality(Below(i)) \in Nat /\ Cardinality(Below(j)) \in Nat
        /\ Cardinality(Below(i)) <= Cardinality(Below(j))
        /\ Cardinality(Below(i)) # Cardinality(Below(j))
    BY <1>6, <2>1, Within
  <2> QED
    BY <1>3, <2>2
<1>8. ASSUME NEW i \in 1 .. size PROVE Rank(list, i) \in 1 .. size
  <2>1. Below(i) \in SUBSET (1 .. size) /\ {i} \in SUBSET Below(i) /\ 1 .. size \in SUBSET (1 .. size)
    BY <1>2
  <2>2. Cardinality(Below(i)) \in Nat /\ Cardinality(Below(i)) <= Cardinality(1 .. size)
    BY <1>6, <2>1, Within
  <2>3. Cardinality({i}) <= Cardinality(Below(i))
    BY <1>6, <2>1, Within
  <2>4. Cardinality({i}) = 1
    BY FS_Singleton
  <2>5. Cardinality(1 .. size) = size
    BY <1>1, <1>6, FS_Interval
  <2> QED
    BY <1>1, <1>3, <2>2, <2>3, <2>4, <2>5
<1>9. ASSUME NEW i \in 1 .. size, NEW j \in 1 .. size, Rank(list, i) < Rank(list, j)
      PROVE  NotAfter(list, i, j)
  <2>1. Rank(list, i) \in Int /\ Rank(list, j) \in Int
    BY <1>8
  <2> QED
    BY <1>4, <1>7, <1>9, <2>1
<1> DEFINE rank == [i \in 1 .. size |-> Rank(list, i)]
<1>10. rank \in Injection(1 .. size, 1 .. size)
  <2>1. rank \in [1 .. size -> 1 .. size]
    BY <1>8
  <2>2. ASSUME NEW i \in 1 .. size, NEW j \in 1 .. size, rank[i] = rank[j] PROVE i = j
    <3>1. Rank(list, i) \in Int /\ Rank(list, j) \in Int /\ Rank(list, i) = Rank(list, j)
      BY <1>8, <2>2
    <3> QED
      BY <1>4, <1>7, <3>1
  <2> QED
    BY <2>1, <2>2 DEF Injection, IsInjective
<1>11. rank \in Surjection(1 .. size, 1 .. size)
  <2>1. 1 \in Int /\ size \in Int
    BY <1>1
  <2>2. IsFiniteSet(1 .. size)
    BY ONLY <2>1, FS_Interval
  <2> QED
    BY <1>10, <2>2, FS_Injection
<1>12. \A n \in 1 .. size : \E i \in 1 .. size : Rank(list, i) = n
  BY <1>11 DEF Surjection
<1>13. ASSUME NEW i \in 1 .. size, NEW j \in 1 .. size, Rank(list, i) = Rank(list, j) PROVE i = j
  BY <1>10, <1>13 DEF Injection, IsInjective
<1> QED
  BY <1>1, <1>8, <1>9, <1>12, <1>13

\* Sorting a list puts its places in another order, in which none comes before one
\* that it may not precede.
LEMMA Sorted ==
    ASSUME NEW list \in Seq(Policy)
    PROVE  /\ ByPriority(list) \in Seq(Policy)
           /\ DOMAIN ByPriority(list) = DOMAIN list
           /\ \E place \in [DOMAIN list -> DOMAIN list] :
                /\ \A n \in DOMAIN list : ByPriority(list)[n] = list[place[n]]
                /\ \A m, n \in DOMAIN list :
                      m < n => place[m] # place[n] /\ NotAfter(list, place[m], place[n])
                /\ \A i \in DOMAIN list : \E n \in DOMAIN list : place[n] = i
<1> DEFINE place == [n \in DOMAIN list |-> CHOOSE i \in DOMAIN list : Rank(list, i) = n]
<1>1. \A n \in DOMAIN list : place[n] \in DOMAIN list /\ Rank(list, place[n]) = n
  BY Ranks
<1>2. \A n \in DOMAIN list : ByPriority(list)[n] = list[place[n]]
  BY DEF ByPriority
<1>3. place \in [DOMAIN list -> DOMAIN list]
  BY <1>1
<1> HIDE DEF place
<1>4. Len(list) \in Nat /\ DOMAIN list = 1 .. Len(list)
      /\ \A i \in DOMAIN list : list[i] \in Policy
  BY Places
<1>5. ByPriority(list) \in [1 .. Len(list) -> Policy]
  BY <1>1, <1>2, <1>4 DEF ByPriority
<1>6. \A m, n \in DOMAIN list :
          m < n => place[m] # place[n] /\ NotAfter(list, place[m], place[n])
  <2> SUFFICES ASSUME NEW m \in DOMAIN list, NEW n \in DOMAIN list, m < n
               PROVE  place[m] # place[n] /\ NotAfter(list, place[m], place[n])
    OBVIOUS
  <2>1. /\ place[m] \in DOMAIN list /\ place[n] \in DOMAIN list
        /\ Rank(list, place[m]) = m /\ Rank(list, place[n]) = n
    BY <1>1
  <2>2. Rank(list, place[m]) < Rank(list, place[n]) /\ m \in Nat /\ n \in Nat
    BY <1>4, <2>1
  <2> QED
    BY <2>1, <2>2, Ranks
<1>7. ASSUME NEW i \in DOMAIN list PROVE \E n \in DOMAIN list : place[n] = i
  <2>1. Rank(list, i) \in DOMAIN list
    BY Ranks
  <2> QED
    BY <1>1, <2>1, Ranks
<1>8. ByPriority(list) \in Seq(Policy) /\ DOMAIN ByPriority(list) = 1 .. Len(list)
  BY <1>4, <1>5, SeqDef
<1> QED
  BY <1>2, <1>3, <1>4, <1>6, <1>7, <1>8

\* So the sorted list has the same policies, and of two of them the one that comes first
\* was not to come after the other.
LEMMA SortedSame ==
    ASSUME NEW list \in Seq(Policy), Different(list)
    PROVE  /\ ByPriority(list) \in Seq(Policy)
           /\ Different(ByPriority(list)) /\ Range(ByPriority(list)) = Range(list)
           /\ \A m, n \in DOMAIN ByPriority(list) :
                 m < n => \E i, j \in DOMAIN list :
                    /\ i # j /\ NotAfter(list, i, j)
                    /\ ByPriority(list)[m] = list[i] /\ ByPriority(list)[n] = list[j]
<1> DEFINE sorted == ByPriority(list)
<1>1. sorted \in Seq(Policy) /\ DOMAIN sorted = DOMAIN list
  BY Sorted
<1>2. PICK place \in [DOMAIN list -> DOMAIN list] :
        /\ \A n \in DOMAIN list : sorted[n] = list[place[n]]
        /\ \A m, n \in DOMAIN list :
              m < n => place[m] # place[n] /\ NotAfter(list, place[m], place[n])
        /\ \A i \in DOMAIN list : \E n \in DOMAIN list : place[n] = i
  BY Sorted
<1>3. DOMAIN list \subseteq Int
  BY Places
<1> HIDE DEF sorted
<1>4. Different(sorted)
  BY <1>1, <1>2, <1>3 DEF Different
<1>5. Range(sorted) = Range(list)
  BY <1>1, <1>2 DEF Range
<1>6. ASSUME NEW m \in DOMAIN sorted, NEW n \in DOMAIN sorted, m < n
      PROVE  \E i, j \in DOMAIN list :
                /\ i # j /\ NotAfter(list, i, j)
                /\ sorted[m] = list[i] /\ sorted[n] = list[j]
  BY <1>1, <1>2, <1>6
<1> QED
  BY <1>1, <1>4, <1>5, <1>6 DEF sorted

LEMMA Longer ==
    ASSUME NEW list \in Seq(Policy), Different(list), NEW p \in Policy, p \notin Range(list)
    PROVE  /\ Append(list, p) \in Seq(Policy) /\ Different(Append(list, p))
           /\ Range(Append(list, p)) = Range(list) \cup {p}
           /\ DOMAIN Append(list, p) = 1 .. Len(list) + 1 /\ Append(list, p)[Len(list) + 1] = p
           /\ \A i \in DOMAIN list : i < Len(list) + 1 /\ Append(list, p)[i] = list[i]
<1>1. Len(list) \in Nat /\ DOMAIN list = 1 .. Len(list)
  BY Places
<1>2. /\ Append(list, p) \in Seq(Policy) /\ DOMAIN Append(list, p) = 1 .. Len(list) + 1
      /\ Append(list, p)[Len(list) + 1] = p
      /\ \A i \in 1 .. Len(list) : Append(list, p)[i] = list[i]
  BY <1>1, AppendProperties
<1>3. \A i \in 1 .. Len(list) : list[i] # p
  BY <1>1 DEF Range
<1> QED
  BY <1>1, <1>2, <1>3 DEF Different, Range

\* What is left of a list when one place is taken out of it, in the order that it had.
LeavesOut(list, k, left) ==
    \E place \in [DOMAIN left -> DOMAIN list] :
        /\ \A n \in DOMAIN left : left[n] = list[place[n]] /\ place[n] # k
        /\ \A m, n \in DOMAIN left : m < n <=> place[m] < place[n]
        /\ \A i \in DOMAIN list : i # k => \E n \in DOMAIN left : place[n] = i

LEMMA OneFewer ==
    ASSUME NEW S, NEW list \in Seq(S), NEW k \in DOMAIN list
    PROVE  RemoveAt(list, k) \in Seq(S) /\ LeavesOut(list, k, RemoveAt(list, k))
<1>1. /\ Len(list) \in Nat /\ DOMAIN list = 1 .. Len(list)
      /\ \A i \in DOMAIN list : list[i] \in S
  BY LenProperties, ElementOfSeq
<1> DEFINE t == RemoveAt(list, k)
           a == SubSeq(list, 1, k - 1)
           b == SubSeq(list, k + 1, Len(list))
<1>2. a \in Seq(S) /\ Len(a) = k - 1 /\ \A i \in 1 .. k - 1 : a[i] = list[i]
  <2>1. 1 \in Int /\ k - 1 \in Int /\ \A i \in 1 .. k - 1 : list[i] \in S
    BY <1>1
  <2>2. /\ a \in Seq(S)
        /\ Len(a) = IF 1 <= k - 1 THEN (k - 1) - 1 + 1 ELSE 0
        /\ \A i \in 1 .. (k - 1) - 1 + 1 : a[i] = list[1 + i - 1]
    BY <2>1, SubSeqProperties
  <2> QED
    BY <1>1, <2>2
<1>3. b \in Seq(S) /\ Len(b) = Len(list) - k /\ \A i \in 1 .. Len(list) - k : b[i] = list[k + i]
  <2>1. k + 1 \in Int /\ Len(list) \in Int /\ \A i \in k + 1 .. Len(list) : list[i] \in S
    BY <1>1
  <2>2. /\ b \in Seq(S)
        /\ Len(b) = IF k + 1 <= Len(list) THEN Len(list) - (k + 1) + 1 ELSE 0
        /\ \A i \in 1 .. Len(list) - (k + 1) + 1 : b[i] = list[(k + 1) + i - 1]
    BY <2>1, SubSeqProperties
  <2> QED
    BY <1>1, <2>2
<1>4. t = a \o b
  BY DEF RemoveAt
<1> HIDE DEF a, b, t
<1>5. /\ t \in Seq(S) /\ Len(t) = Len(a) + Len(b) /\ DOMAIN t = 1 .. Len(t)
      /\ \A i \in 1 .. Len(a) + Len(b) : t[i] = IF i <= Len(a) THEN a[i] ELSE b[i - Len(a)]
  BY <1>2, <1>3, <1>4, ConcatProperties, LenProperties
<1>6. DOMAIN t = 1 .. Len(list) - 1
  BY <1>1, <1>2, <1>3, <1>5
<1> DEFINE place == [n \in DOMAIN t |-> IF n < k THEN n ELSE n + 1]
<1>7. place \in [DOMAIN t -> DOMAIN list]
  BY <1>1, <1>6
<1>8. ASSUME NEW n \in DOMAIN t PROVE t[n] = list[place[n]] /\ place[n] # k
  <2>1. n \in 1 .. Len(a) + Len(b)
    BY <1>5
  <2>2. CASE n < k
    <3>1. n <= Len(a) /\ n \in 1 .. k - 1
      BY <1>1, <1>2, <1>6, <2>2
    <3> QED
      BY <1>2, <1>5, <2>1, <2>2, <3>1
  <2>3. CASE ~ n < k
    <3>1. ~ n <= Len(a) /\ n - Len(a) \in 1 .. Len(list) - k /\ k + (n - Len(a)) = n + 1
      BY <1>1, <1>2, <1>6, <2>3
    <3>2. t[n] = b[n - Len(a)]
      BY <1>5, <2>1, <3>1
    <3>3. b[n - Len(a)] = list[k + (n - Len(a))]
      BY <1>3, <3>1
    <3> QED
      BY <1>1, <1>6, <2>3, <3>1, <3>2, <3>3
  <2> QED
    BY <2>2, <2>3
<1>9. \A m, n \in DOMAIN t : m < n <=> place[m] < place[n]
  BY <1>1, <1>6
<1>10. ASSUME NEW i \in DOMAIN list, i # k PROVE \E n \in DOMAIN t : place[n] = i
  <2>1. CASE i < k
    <3>1. i \in DOMAIN t /\ place[i] = i
      BY <1>1, <1>6, <2>1
    <3> QED
      BY <3>1
  <2>2. CASE ~ i < k
    <3>1. i - 1 \in DOMAIN t /\ place[i - 1] = i
      BY <1>1, <1>6, <1>10, <2>2
    <3> QED
      BY <3>1
  <2> QED
    BY <2>1, <2>2
<1> QED
  BY <1>5, <1>7, <1>8, <1>9, <1>10 DEF t, LeavesOut

LEMMA ShorterSame ==
    ASSUME NEW S, NEW list \in Seq(S), Different(list), NEW k \in DOMAIN list
    PROVE  /\ RemoveAt(list, k) \in Seq(S) /\ Different(RemoveAt(list, k))
           /\ Range(RemoveAt(list, k)) = Range(list) \ {list[k]}
<1> DEFINE t == RemoveAt(list, k)
<1>1. /\ t \in Seq(S) /\ LeavesOut(list, k, t)
      /\ DOMAIN list \subseteq Int /\ DOMAIN t \subseteq Int
  BY OneFewer, LenProperties
<1>2. PICK place \in [DOMAIN t -> DOMAIN list] :
        /\ \A n \in DOMAIN t : t[n] = list[place[n]] /\ place[n] # k
        /\ \A m, n \in DOMAIN t : m < n <=> place[m] < place[n]
        /\ \A i \in DOMAIN list : i # k => \E n \in DOMAIN t : place[n] = i
  BY <1>1 DEF LeavesOut
<1> HIDE DEF t
<1>3. ASSUME NEW m \in DOMAIN t, NEW n \in DOMAIN t, t[m] = t[n] PROVE m = n
  <2>1. place[m] = place[n]
    BY <1>2, <1>3 DEF Different
  <2>2. ~ place[m] < place[n] /\ ~ place[n] < place[m]
    BY <1>1, <1>2, <2>1
  <2>3. ~ m < n /\ ~ n < m
    BY <1>2, <2>2
  <2> QED
    BY <1>1, <2>3
<1>4. Range(t) = Range(list) \ {list[k]}
  BY <1>2 DEF Range, Different
<1> QED
  BY <1>1, <1>3, <1>4 DEF Different, t

LEMMA AddPolicyAccess ==
    ASSUME AccessInv, NEW policy \in Policy, AddPolicy(policy) PROVE AccessInv'
<1> DEFINE list == Append(policies, policy)
<1>1. /\ policies \in Seq(Policy) /\ added \in Seq(Policy)
      /\ Different(policies) /\ Different(added) /\ Range(policies) = Range(added)
  BY DEF AccessInv
<1>2. policies' = ByPriority(list) /\ added' = Append(added, policy) /\ policy \notin Range(policies)
  BY DEF AddPolicy, Added
<1>3. /\ list \in Seq(Policy) /\ Different(list) /\ Range(list) = Range(policies) \cup {policy}
      /\ DOMAIN list = 1 .. Len(policies) + 1 /\ list[Len(policies) + 1] = policy
      /\ \A i \in DOMAIN policies : i < Len(policies) + 1 /\ list[i] = policies[i]
  BY <1>1, <1>2, Longer
<1>4. /\ added' \in Seq(Policy) /\ Different(added') /\ Range(added') = Range(added) \cup {policy}
      /\ DOMAIN added' = 1 .. Len(added) + 1 /\ added'[Len(added) + 1] = policy
      /\ \A i \in DOMAIN added : i < Len(added) + 1 /\ added'[i] = added[i]
  BY <1>1, <1>2, Longer
<1>5. /\ Len(policies) \in Nat /\ DOMAIN policies = 1 .. Len(policies)
      /\ Len(added) \in Nat /\ DOMAIN added = 1 .. Len(added)
  BY <1>1, Places
<1> HIDE DEF list
<1>6. /\ policies' \in Seq(Policy) /\ Different(policies') /\ Range(policies') = Range(list)
      /\ \A m, n \in DOMAIN policies' :
            m < n => \E i, j \in DOMAIN list :
               /\ i # j /\ NotAfter(list, i, j)
               /\ policies'[m] = list[i] /\ policies'[n] = list[j]
  BY <1>2, <1>3, SortedSame
<1>7. ASSUME NEW i \in DOMAIN list, NEW j \in DOMAIN list, i < j,
             list[i].priority = list[j].priority
      PROVE  \E x, y \in DOMAIN added' : x < y /\ added'[x] = list[i] /\ added'[y] = list[j]
  <2>1. i \in DOMAIN policies /\ list[i] = policies[i]
    BY <1>3, <1>5, <1>7
  <2>2. CASE j \in DOMAIN policies
    <3>1. ~ policies[i].priority < policies[j].priority
      <4>1. policies[i].priority = policies[j].priority /\ policies[j].priority \in Int
        BY <1>1, <1>3, <1>7, <2>1, <2>2, Places
      <4> QED
        BY <4>1
    <3>2. PICK x, y \in DOMAIN added : x < y /\ added[x] = policies[i] /\ added[y] = policies[j]
      BY <1>7, <2>1, <2>2, <3>1 DEF AccessInv, Arranged, AddedBefore
    <3>3. x \in DOMAIN added' /\ y \in DOMAIN added'
      BY <1>4, <1>5
    <3> QED
      BY <1>3, <1>4, <2>1, <2>2, <3>2, <3>3
  <2>3. CASE j \notin DOMAIN policies
    <3>1. list[j] = policy
      BY <1>3, <1>5, <2>3
    <3>2. PICK x \in DOMAIN added : added[x] = policies[i]
      BY <1>1, <2>1 DEF Range
    <3>3. x \in DOMAIN added' /\ Len(added) + 1 \in DOMAIN added' /\ x < Len(added) + 1
      BY <1>4, <1>5
    <3> QED
      BY <1>4, <2>1, <3>1, <3>2, <3>3
  <2> QED
    BY <2>2, <2>3
<1>8. ASSUME NEW m \in DOMAIN policies', NEW n \in DOMAIN policies', m < n
      PROVE  \/ policies'[m].priority < policies'[n].priority
             \/ /\ policies'[m].priority = policies'[n].priority
                /\ \E x, y \in DOMAIN added' :
                      x < y /\ added'[x] = policies'[m] /\ added'[y] = policies'[n]
  <2>1. PICK i, j \in DOMAIN list :
          i # j /\ NotAfter(list, i, j) /\ policies'[m] = list[i] /\ policies'[n] = list[j]
    BY <1>6, <1>8
  <2>2. CASE list[i].priority < list[j].priority
    BY <2>1, <2>2
  <2>3. CASE list[i].priority = list[j].priority /\ i <= j
    <3>1. i < j
      BY <1>3, <1>5, <2>1, <2>3
    <3> QED
      BY <1>7, <2>1, <2>3, <3>1
  <2> QED
    BY <2>1, <2>2, <2>3 DEF NotAfter
<1>9. Arranged'
  BY <1>8 DEF Arranged, AddedBefore
<1> QED
  BY <1>1, <1>3, <1>4, <1>6, <1>9 DEF AccessInv, Different

LEMMA RemovePolicyAccess ==
    ASSUME AccessInv, NEW name, RemovePolicy(name) PROVE AccessInv'
<1> DEFINE named == {i \in DOMAIN policies : policies[i].name = name}
<1>1. /\ policies \in Seq(Policy) /\ added \in Seq(Policy)
      /\ Different(policies) /\ Different(added) /\ Range(policies) = Range(added)
  BY DEF AccessInv
<1>2. named \in SUBSET Nat /\ named # {}
  <2>1. DOMAIN policies \in SUBSET Nat
    BY <1>1, Places
  <2> QED
    BY <2>1 DEF RemovePolicy
<1>3. PICK k \in DOMAIN policies : k = Min(named)
  BY <1>2, MinOf
<1>4. PICK l \in DOMAIN added :
        l = (CHOOSE i \in DOMAIN added : added[i] = policies[k]) /\ added[l] = policies[k]
  BY <1>1 DEF Range
<1> HIDE DEF named
<1> DEFINE fewer == RemoveAt(policies, k)
           left == RemoveAt(added, l)
<1>5. policies' = fewer /\ added' = left
  BY <1>3, <1>4 DEF RemovePolicy, named
<1>6. /\ policies' \in Seq(Policy) /\ Different(policies')
      /\ Range(policies') = Range(policies) \ {policies[k]}
  BY <1>1, <1>5, ShorterSame
<1>7. /\ added' \in Seq(Policy) /\ Different(added')
      /\ Range(added') = Range(added) \ {added[l]}
  BY <1>1, <1>5, ShorterSame
<1>8. LeavesOut(policies, k, fewer) /\ LeavesOut(added, l, left)
  BY <1>1, OneFewer
<1> HIDE DEF fewer, left
<1>9. PICK place \in [DOMAIN fewer -> DOMAIN policies] :
        /\ \A n \in DOMAIN fewer : fewer[n] = policies[place[n]] /\ place[n] # k
        /\ \A m, n \in DOMAIN fewer : m < n <=> place[m] < place[n]
  BY <1>8 DEF LeavesOut
<1>10. PICK stays \in [DOMAIN left -> DOMAIN added] :
        /\ \A n \in DOMAIN left : left[n] = added[stays[n]] /\ stays[n] # l
        /\ \A m, n \in DOMAIN left : m < n <=> stays[m] < stays[n]
        /\ \A i \in DOMAIN added : i # l => \E n \in DOMAIN left : stays[n] = i
  BY <1>8 DEF LeavesOut
<1>11. ASSUME NEW m \in DOMAIN policies', NEW n \in DOMAIN policies', m < n
       PROVE  \/ policies'[m].priority < policies'[n].priority
              \/ /\ policies'[m].priority = policies'[n].priority
                 /\ \E x, y \in DOMAIN added' :
                       x < y /\ added'[x] = policies'[m] /\ added'[y] = policies'[n]
  <2>1. /\ place[m] < place[n] /\ place[m] \in DOMAIN policies /\ place[n] \in DOMAIN policies
        /\ policies'[m] = policies[place[m]] /\ policies'[n] = policies[place[n]]
        /\ place[m] # k /\ place[n] # k
    BY <1>5, <1>9, <1>11
  <2>2. CASE policies[place[m]].priority < policies[place[n]].priority
    BY <2>1, <2>2
  <2>3. CASE ~ policies[place[m]].priority < policies[place[n]].priority
    <3>1. policies[place[m]].priority = policies[place[n]].priority
      BY <2>1, <2>3 DEF AccessInv, Arranged
    <3>2. PICK i, j \in DOMAIN added :
            i < j /\ added[i] = policies[place[m]] /\ added[j] = policies[place[n]]
      BY <2>1, <2>3 DEF AccessInv, Arranged, AddedBefore
    <3>3. i # l /\ j # l
      BY <1>1, <1>4, <2>1, <3>2 DEF Different
    <3>4. PICK x, y \in DOMAIN added' : stays[x] = i /\ stays[y] = j
      BY <1>5, <1>10, <3>3
    <3>5. x < y /\ added'[x] = added[i] /\ added'[y] = added[j]
      BY <1>5, <1>10, <3>2, <3>4
    <3> QED
      BY <2>1, <3>1, <3>2, <3>5
  <2> QED
    BY <2>2, <2>3
<1>12. Arranged'
  BY <1>11 DEF Arranged, AddedBefore
<1> QED
  BY <1>1, <1>4, <1>6, <1>7, <1>12 DEF AccessInv, Different

LEMMA NextAccess == ASSUME AccessInv, [AccessNext]_accessVars PROVE AccessInv'
<1>1. CASE UNCHANGED accessVars
  BY <1>1 DEF accessVars, AccessInv, Arranged, AddedBefore, Different
<1> QED
  BY <1>1, AddPolicyAccess, RemovePolicyAccess DEF AccessNext

LEMMA InitAccess == AccessInit => AccessInv
<1> SUFFICES ASSUME AccessInit PROVE AccessInv
  OBVIOUS
<1>1. added \in Seq(Policy) /\ Different(added)
  <2>1. CASE added = <<>>
    BY <2>1, EmptySeq DEF Different
  <2>2. CASE added \in SetToSeqs(DefaultPolicies)
    <3>1. IsFiniteSet(DefaultPolicies)
      BY AccessAssumption, FS_Subset DEF DefaultPolicies
    <3>2. Cardinality(DefaultPolicies) \in Nat
      BY <3>1, FS_CardinalityType
    <3>3. added \in [1 .. Cardinality(DefaultPolicies) -> Policy] /\ Different(added)
      BY <2>2 DEF SetToSeqs, DefaultPolicies, Different
    <3> QED
      BY <3>2, <3>3, SeqDef
  <2> QED
    BY <2>1, <2>2 DEF AccessInit
<1>2. policies = ByPriority(added)
  BY DEF AccessInit
<1>3. /\ policies \in Seq(Policy) /\ Different(policies) /\ Range(policies) = Range(added)
      /\ \A m, n \in DOMAIN policies :
            m < n => \E i, j \in DOMAIN added :
               i # j /\ NotAfter(added, i, j) /\ policies[m] = added[i] /\ policies[n] = added[j]
  BY <1>1, <1>2, SortedSame
<1>4. ASSUME NEW m \in DOMAIN policies, NEW n \in DOMAIN policies, m < n
      PROVE  \/ policies[m].priority < policies[n].priority
             \/ /\ policies[m].priority = policies[n].priority
                /\ AddedBefore(policies[m], policies[n])
  <2>1. PICK i, j \in DOMAIN added :
          i # j /\ NotAfter(added, i, j) /\ policies[m] = added[i] /\ policies[n] = added[j]
    BY <1>3, <1>4
  <2>2. i \in Int /\ j \in Int
    BY <1>1, Places
  <2>3. \/ added[i].priority < added[j].priority
        \/ added[i].priority = added[j].priority /\ i < j
    BY <2>1, <2>2 DEF NotAfter
  <2> QED
    BY <2>1, <2>3 DEF AddedBefore
<1> QED
  BY <1>1, <1>3, <1>4 DEF AccessInv, Arranged

\* The place of the first policy of the engine's list that decides.
LEMMA FirstDecides ==
    ASSUME policies \in Seq(Policy), NEW ctx,
           NEW deciding, deciding = {i \in DOMAIN policies : Decides(policies[i], ctx)},
           deciding # {}
    PROVE  /\ Min(deciding) \in DOMAIN policies /\ Decides(policies[Min(deciding)], ctx)
           /\ \A i \in DOMAIN policies : Decides(policies[i], ctx) => Min(deciding) <= i
           /\ Evaluate(policies, ctx) = EvaluatePolicy(policies[Min(deciding)], ctx)
<1>1. deciding \in SUBSET Nat
  BY Places
<1>2. Min(deciding) \in deciding /\ \A i \in deciding : Min(deciding) <= i
  BY <1>1, MinOf
<1> QED
  BY <1>2 DEF Evaluate

\* The decision of the engine is the one that it promises.
LEMMA DecidesAsPromised ==
    ASSUME AccessInv, NEW ctx PROVE Evaluate(policies, ctx) = Promised(ctx)
<1> DEFINE here == {i \in DOMAIN policies : Decides(policies[i], ctx)}
           there == {i \in DOMAIN added : Decides(added[i], ctx)}
<1>1. policies \in Seq(Policy) /\ added \in Seq(Policy) /\ Range(policies) = Range(added)
  BY DEF AccessInv
<1>2. here = {} <=> there = {}
  BY <1>1 DEF Range
<1>3. CASE here = {}
  BY <1>2, <1>3 DEF Evaluate, Promised
<1>4. CASE here # {}
  <2>1. PICK k \in DOMAIN policies :
          /\ Decides(policies[k], ctx)
          /\ \A i \in DOMAIN policies : Decides(policies[i], ctx) => k <= i
          /\ Evaluate(policies, ctx) = EvaluatePolicy(policies[k], ctx)
    BY <1>1, <1>4, FirstDecides
  <2>2. PICK f \in DOMAIN added : added[f] = policies[k]
    BY <1>1 DEF Range
  <2>3. ASSUME NEW j \in there PROVE NotAfter(added, f, j)
    <3>1. PICK n \in DOMAIN policies : policies[n] = added[j]
      BY <1>1 DEF Range
    <3>2. k <= n /\ k \in Int /\ n \in Int
      BY <1>1, <2>1, <3>1, Places
    <3>3. f \in Int /\ j \in Int
      BY <1>1, Places
    <3>4. CASE k = n
      <4>1. f = j
        BY <2>2, <3>1, <3>4 DEF AccessInv, Different
      <4> QED
        BY <3>3, <4>1 DEF NotAfter
    <3>5. CASE k < n
      <4>1. CASE policies[k].priority < policies[n].priority
        BY <2>2, <3>1, <4>1 DEF NotAfter
      <4>2. CASE ~ policies[k].priority < policies[n].priority
        <5>1. /\ policies[k].priority = policies[n].priority
              /\ AddedBefore(policies[k], policies[n])
          BY <3>5, <4>2 DEF AccessInv, Arranged
        <5>2. f < j
          BY <2>2, <3>1, <5>1 DEF AccessInv, Different, AddedBefore
        <5> QED
          BY <2>2, <3>1, <3>3, <5>1, <5>2 DEF NotAfter
      <4> QED
        BY <4>1, <4>2
    <3> QED
      BY <3>2, <3>4, <3>5
  <2>4. f \in there
    BY <2>1, <2>2
  <2>5. ASSUME NEW i \in there, \A j \in there : NotAfter(added, i, j) PROVE i = f
    <3>1. NotAfter(added, i, f) /\ NotAfter(added, f, i)
      BY <2>3, <2>4, <2>5
    <3>2. i \in Int /\ f \in Int /\ added[i].priority \in Int /\ added[f].priority \in Int
      BY <1>1, Places
    <3> QED
      BY <3>1, <3>2 DEF NotAfter
  <2> HIDE DEF there
  <2>6. (CHOOSE i \in there : \A j \in there : NotAfter(added, i, j)) = f
    BY <2>3, <2>4, <2>5
  <2>7. Promised(ctx) = EvaluatePolicy(added[f], ctx)
    BY <1>2, <1>4, <2>6 DEF Promised, there
  <2> QED
    BY <2>1, <2>2, <2>7
<1> QED
  BY <1>3, <1>4

\* A policy that neither owns nor is the operator's own never allows.
LEMMA NeverAllows ==
    ASSUME NEW p \in Policy, p.kind \notin {"allow_owner", "custom"}, NEW ctx, Decides(p, ctx)
    PROVE  EvaluatePolicy(p, ctx) = "deny"
<1>1. p.kind \in {"tenant_isolation", "time_based", "ip_allowlist", "resource_type"}
  BY AccessAssumption
<1> QED
  BY <1>1 DEF Decides, EvaluatePolicy, TenantIsolation, TimeBased, IPAllowlist, ResourceTypes,
              DenyUnless

LEMMA KeepsApart == ASSUME AccessInv PROVE TenantsApart
<1> SUFFICES ASSUME NEW r \in AccessRequest,
                    config.abac, config.oidc, Granted(r), ~IsAdmin(r.user),
                    NEW p \in Range(policies), p.kind = "tenant_isolation",
                    \A q \in Range(policies) :
                        q.kind \in {"allow_owner", "custom"} => p.priority < q.priority,
                    ResourceTenant(r) \notin {Nothing, r.user.tenant}
             PROVE  FALSE
  BY DEF TenantsApart
<1> DEFINE ctx == ContextOf(r)
           deciding == {i \in DOMAIN policies : Decides(policies[i], ctx)}
<1>1. Authenticated(r) = r.user
  BY DEF Authenticated, CurrentUser
<1>2. Evaluate(policies, ctx) # "deny"
  BY <1>1 DEF Granted
<1>3. ctx.user = r.user /\ ctx.tenant = ResourceTenant(r)
  BY <1>1 DEF ContextOf
<1> HIDE DEF ctx
<1>4. EvaluatePolicy(p, ctx) = "deny"
  BY <1>3 DEF EvaluatePolicy, TenantIsolation, DenyUnless
<1>5. PICK n \in DOMAIN policies : policies[n] = p
  BY DEF Range
<1>6. n \in deciding
  BY <1>4, <1>5 DEF Decides
<1>7. policies \in Seq(Policy)
  BY DEF AccessInv
<1>8. PICK k \in DOMAIN policies :
        /\ Decides(policies[k], ctx) /\ k <= n
        /\ Evaluate(policies, ctx) = EvaluatePolicy(policies[k], ctx)
  BY <1>6, <1>7, FirstDecides
<1>9. /\ k \in Int /\ n \in Int /\ policies[k] \in Policy
      /\ policies[k].priority \in Int /\ policies[n].priority \in Int
  BY <1>7, Places
<1>10. ~ policies[n].priority < policies[k].priority
  <2>1. k = n \/ k < n
    BY <1>8, <1>9
  <2>2. CASE k = n
    BY <1>9, <2>2
  <2>3. CASE k < n
    <3>1. \/ policies[k].priority < policies[n].priority
          \/ policies[k].priority = policies[n].priority
      BY <2>3 DEF AccessInv, Arranged
    <3> QED
      BY <1>9, <3>1
  <2> QED
    BY <2>1, <2>2, <2>3
<1>11. policies[k].kind \notin {"allow_owner", "custom"}
  BY <1>5, <1>10 DEF Range
<1> QED
  BY <1>2, <1>8, <1>9, <1>11, NeverAllows

\* Two lists without repetition that have the same members are of the same length.
LEMMA AsManyPlaces ==
    ASSUME NEW list \in Seq(Policy), Different(list)
    PROVE  Len(list) = Cardinality(Range(list))
<1>1. Len(list) \in Nat /\ list \in [1 .. Len(list) -> Range(list)] /\ DOMAIN list = 1 .. Len(list)
  BY Places DEF Range
<1>2. list \in Bijection(1 .. Len(list), Range(list))
  BY <1>1 DEF Bijection, Injection, Surjection, IsInjective, Different, Range
<1> QED
  BY <1>1, <1>2, FS_CountingElements DEF ExistsBijection

\* The engine's list has the policies that were added and not removed, each once
\* (ABACEngine.add_policy, remove_policy).
THEOREM AccessTypesHold == AccessSpec => []AccessTypeOK
<1>1. ASSUME AccessInv, config \in Configuration PROVE AccessTypeOK
  BY <1>1, AsManyPlaces DEF AccessInv, AccessTypeOK
<1>2. AccessInit => config \in Configuration
  BY DEF AccessInit
<1>3. config \in Configuration /\ [AccessNext]_accessVars => (config \in Configuration)'
  BY DEF AccessNext, accessVars, AddPolicy, RemovePolicy
<1> QED
  BY <1>1, <1>2, <1>3, InitAccess, NextAccess, PTL DEF AccessSpec

\* Whatever is added to the engine and removed from it, in whatever order: it decides as
\* the first policy of the lowest number does, and nobody but an admin is let through in
\* the name of a tenant that is not theirs, as long as nothing that may allow comes before
\* the isolation of tenants: for any policies, requests and settings.
THEOREM AccessAlwaysHolds == AccessSpec => []AccessHolds
<1>1. AccessInv => AccessHolds
  BY DecidesAsPromised, KeepsApart DEF AccessHolds, DecisionOfFirst
<1> QED
  BY <1>1, InitAccess, NextAccess, PTL DEF AccessSpec
-----------------------------------------------------------------------------
(* The plugins.  One task at a time is inside the lock, and what it found  *)
(* there is still so when its plugin answers.  A run of the handlers over  *)
(* a list that changes under it: whoever has not run yet stands further    *)
(* down the list, for a new handler pushes others down, and an unload      *)
(* leaves the run its list.                                                *)

TaskFields(t) ==
    t \in [doing : {"load", "unload"}, todo : {t.todo}, inside : {t.inside}, wanted : {t.wanted}]

RunFields(r) ==
    r \in [over : {r.over}, at : {r.at}, first : {r.first}, ran : {r.ran}, aborted : {r.aborted}]

TasksTyped(tasks) ==
    /\ tasks = [m \in Manager |-> tasks[m]]
    /\ \A m \in Manager :
        /\ TaskFields(tasks[m]) /\ tasks[m].inside \in Plugin \cup {Nothing}

RunsTyped(runs) ==
    /\ runs = [c \in Caller |-> runs[c]]
    /\ \A c \in Caller :
        /\ RunFields(runs[c])
        /\ runs[c].over = Live \/ runs[c].over \in Seq(Plugin)
        /\ runs[c].at \in Nat

PluginTypes ==
    /\ depends \in [Plugin -> SUBSET Plugin] /\ priority \in [Plugin -> HookPriority]
    /\ loaded \in Seq(Plugin) /\ Different(loaded)
    /\ hooks \in Seq(Plugin) /\ Different(hooks)
    /\ TasksTyped(manager) /\ RunsTyped(caller)

InsideLock ==
    /\ \A m, n \in Manager :
          manager[m].inside # Nothing /\ manager[n].inside # Nothing => m = n
    /\ \A m \in Manager :
          LET p == manager[m].inside IN
          /\ p # Nothing /\ manager[m].doing = "load" => MayLoad(p)
          /\ p # Nothing /\ manager[m].doing = "unload" => MayUnload(p)

\* The list of the handlers is in the order of their priorities.
HandlersSorted ==
    \A i, j \in DOMAIN hooks : i < j => priority[hooks[i]] >= priority[hooks[j]]

\* Where the handlers are that a run has still to come to.
Ahead(list, at, q) == at > 0 /\ \E i \in DOMAIN list : i > at /\ list[i] = q

RunsOn ==
    \A c \in Caller :
        ~caller[c].aborted =>
            \A q \in ToSet(caller[c].first) :
                q \in caller[c].ran \/ Ahead(Registrations(c), caller[c].at, q)

PluginsInv == PluginTypes /\ LoadedInFull /\ InsideLock /\ HandlersSorted /\ RunsOn

\* What a list without one of its members is: the others, in the order that they had.
LEMMA WithoutOne ==
    ASSUME NEW S, NEW list \in Seq(S), Different(list), NEW e
    PROVE  /\ RemoveFirst(list, e) \in Seq(S) /\ Different(RemoveFirst(list, e))
           /\ ToSet(RemoveFirst(list, e)) = ToSet(list) \ {e}
           /\ \A m, n \in DOMAIN RemoveFirst(list, e) :
                 m < n => \E i, j \in DOMAIN list :
                    /\ i < j /\ list[i] = RemoveFirst(list, e)[m]
                    /\ list[j] = RemoveFirst(list, e)[n]
<1>1. Len(list) \in Nat /\ DOMAIN list = 1 .. Len(list)
  BY LenProperties
<1>2. CASE ~ \E i \in 1 .. Len(list) : list[i] = e
  <2>1. RemoveFirst(list, e) = list
    BY <1>2 DEF RemoveFirst
  <2> QED
    BY <1>1, <1>2, <2>1 DEF ToSet
<1>3. CASE \E i \in 1 .. Len(list) : list[i] = e
  <2>1. PICK k \in DOMAIN list : list[k] = e
    BY <1>1, <1>3
  <2>2. {i \in 1 .. Len(list) : list[i] = e} = {k}
    BY <1>1, <2>1 DEF Different
  <2>3. Min({k}) = k
    BY <1>1 DEF Min
  <2>4. RemoveFirst(list, e) = RemoveAt(list, k)
    BY <1>3, <2>2, <2>3 DEF RemoveFirst, SelectInSeq
  <2> DEFINE t == RemoveAt(list, k)
  <2>5. t \in Seq(S) /\ Different(t) /\ Range(t) = Range(list) \ {e}
    BY <2>1, ShorterSame
  <2>6. LeavesOut(list, k, t)
    BY OneFewer
  <2> HIDE DEF t
  <2>7. ToSet(t) = ToSet(list) \ {e}
    BY <2>5 DEF Range, ToSet
  <2>8. \A m, n \in DOMAIN t :
            m < n => \E i, j \in DOMAIN list : i < j /\ list[i] = t[m] /\ list[j] = t[n]
    BY <2>6 DEF LeavesOut
  <2> QED
    BY <2>4, <2>5, <2>7, <2>8 DEF t
<1> QED
  BY <1>2, <1>3

\* What a list with one more member is.
TakesIn(list, k, e, more) ==
    /\ DOMAIN more = 1 .. Len(list) + 1
    /\ \A i \in 1 .. Len(list) + 1 :
          more[i] = IF i < k THEN list[i] ELSE IF i = k THEN e ELSE list[i - 1]

LEMMA WithOneAt ==
    ASSUME NEW S, NEW list \in Seq(S), NEW k \in 1 .. Len(list) + 1, NEW e \in S
    PROVE  InsertAt(list, k, e) \in Seq(S) /\ TakesIn(list, k, e, InsertAt(list, k, e))
<1>1. /\ Len(list) \in Nat /\ DOMAIN list = 1 .. Len(list)
      /\ \A i \in DOMAIN list : list[i] \in S
  BY LenProperties, ElementOfSeq
<1> DEFINE t == InsertAt(list, k, e)
           a == SubSeq(list, 1, k - 1)
           b == SubSeq(list, k, Len(list))
           c == a \o <<e>>
<1>2. a \in Seq(S) /\ Len(a) = k - 1 /\ \A i \in 1 .. k - 1 : a[i] = list[i]
  <2>1. 1 \in Int /\ k - 1 \in Int /\ \A i \in 1 .. k - 1 : list[i] \in S
    BY <1>1
  <2>2. /\ a \in Seq(S)
        /\ Len(a) = IF 1 <= k - 1 THEN (k - 1) - 1 + 1 ELSE 0
        /\ \A i \in 1 .. (k - 1) - 1 + 1 : a[i] = list[1 + i - 1]
    BY <2>1, SubSeqProperties
  <2> QED
    BY <1>1, <2>2
<1>3. /\ b \in Seq(S) /\ Len(b) = Len(list) - (k - 1)
      /\ \A i \in 1 .. Len(list) - (k - 1) : b[i] = list[k + i - 1]
  <2>1. k \in Int /\ Len(list) \in Int /\ \A i \in k .. Len(list) : list[i] \in S
    BY <1>1
  <2>2. /\ b \in Seq(S)
        /\ Len(b) = IF k <= Len(list) THEN Len(list) - k + 1 ELSE 0
        /\ \A i \in 1 .. Len(list) - k + 1 : b[i] = list[k + i - 1]
    BY <2>1, SubSeqProperties
  <2> QED
    BY <1>1, <2>2
<1>4. t = c \o b
  BY DEF InsertAt
<1>5. <<e>> \in Seq(S) /\ Len(<<e>>) = 1 /\ <<e>>[1] = e
  OBVIOUS
<1> HIDE DEF a, b, t
<1>6. /\ c \in Seq(S) /\ Len(c) = Len(a) + 1
      /\ \A i \in 1 .. Len(a) + 1 : c[i] = IF i <= Len(a) THEN a[i] ELSE <<e>>[i - Len(a)]
  BY <1>2, <1>5, ConcatProperties
<1> HIDE DEF c
<1>7. /\ t \in Seq(S) /\ Len(t) = Len(c) + Len(b) /\ DOMAIN t = 1 .. Len(t)
      /\ \A i \in 1 .. Len(c) + Len(b) : t[i] = IF i <= Len(c) THEN c[i] ELSE b[i - Len(c)]
  BY <1>3, <1>4, <1>6, ConcatProperties, LenProperties
<1>8. Len(c) = k /\ Len(c) + Len(b) = Len(list) + 1
  BY <1>1, <1>2, <1>3, <1>6
<1>9. ASSUME NEW i \in 1 .. Len(list) + 1
      PROVE  t[i] = IF i < k THEN list[i] ELSE IF i = k THEN e ELSE list[i - 1]
  <2>1. CASE i < k
    <3>1. i <= Len(a) /\ i \in 1 .. Len(a) + 1 /\ i <= Len(c) /\ i \in 1 .. k - 1
      BY <1>1, <1>2, <1>8, <2>1
    <3> QED
      BY <1>2, <1>6, <1>7, <1>8, <2>1, <3>1
  <2>2. CASE i = k
    <3>1. ~ i <= Len(a) /\ i \in 1 .. Len(a) + 1 /\ i <= Len(c) /\ i - Len(a) = 1
      BY <1>1, <1>2, <1>8, <2>2
    <3> QED
      BY <1>5, <1>6, <1>7, <1>8, <2>2, <3>1
  <2>3. CASE i > k
    <3>1. /\ ~ i <= Len(c) /\ i - Len(c) \in 1 .. Len(list) - (k - 1)
          /\ k + (i - Len(c)) - 1 = i - 1
      BY <1>1, <1>8, <2>3
    <3>2. t[i] = b[i - Len(c)]
      BY <1>7, <1>8, <3>1
    <3>3. b[i - Len(c)] = list[k + (i - Len(c)) - 1]
      BY <1>3, <3>1
    <3> QED
      BY <1>1, <2>3, <3>1, <3>2, <3>3
  <2> QED
    BY <1>1, <2>1, <2>2, <2>3
<1> QED
  BY <1>7, <1>8, <1>9 DEF t, TakesIn

LEMMA PluginLists ==
    ASSUME PluginTypes
    PROVE  /\ Len(hooks) \in Nat /\ DOMAIN hooks = 1 .. Len(hooks)
           /\ \A i \in DOMAIN hooks : hooks[i] \in Plugin /\ priority[hooks[i]] \in Int
           /\ Len(loaded) \in Nat /\ DOMAIN loaded = 1 .. Len(loaded)
           /\ \A i \in DOMAIN loaded : loaded[i] \in Plugin
           /\ Loaded \subseteq Plugin /\ Nothing \notin Loaded
<1>1. /\ Len(hooks) \in Nat /\ DOMAIN hooks = 1 .. Len(hooks)
      /\ Len(loaded) \in Nat /\ DOMAIN loaded = 1 .. Len(loaded)
      /\ \A i \in DOMAIN hooks : hooks[i] \in Plugin
      /\ \A i \in DOMAIN loaded : loaded[i] \in Plugin
  BY LenProperties, ElementOfSeq DEF PluginTypes
<1>2. \A p \in Plugin : priority[p] \in Int
  BY PluginsAssumption DEF PluginTypes
<1>3. Loaded \subseteq Plugin /\ Nothing \notin Loaded
  BY <1>1, PluginsAssumption DEF Loaded, ToSet
<1> QED
  BY <1>1, <1>2, <1>3

\* A task that is not inside the lock goes on to other work, or leaves some out.
LEMMA OutsideLock ==
    ASSUME PluginsInv, NEW m \in Manager, NEW t, TaskFields(t),
           manager' = [manager EXCEPT ![m] = t],
           manager[m].inside = Nothing, t.inside = Nothing,
           UNCHANGED <<depends, priority, loaded, hooks, caller>>
    PROVE  PluginsInv'
<1>1. TasksTyped(manager)
  BY DEF PluginsInv, PluginTypes
<1>2. /\ manager' = [n \in Manager |-> IF n = m THEN t ELSE manager[n]]
      /\ \A n \in Manager : manager'[n] = IF n = m THEN t ELSE manager[n]
  BY <1>1 DEF TasksTyped
<1>3. TasksTyped(manager')
  BY <1>1, <1>2 DEF TasksTyped
<1>4. \A n \in Manager :
        /\ manager'[n].inside = manager[n].inside
        /\ manager[n].inside # Nothing => manager'[n].doing = manager[n].doing
  BY <1>2
<1>5. {manager'[n].inside : n \in Manager} = {manager[n].inside : n \in Manager}
  BY <1>4
<1>6. PluginTypes' /\ HandlersSorted' /\ RunsOn'
  BY <1>3 DEF PluginsInv, PluginTypes, HandlersSorted, RunsOn, Registrations, Different
<1>7. LoadedInFull'
  BY <1>5 DEF PluginsInv, LoadedInFull, Loaded
<1>8. InsideLock'
  BY <1>4 DEF PluginsInv, InsideLock, MayLoad, MayUnload, Loaded
<1> QED
  BY <1>6, <1>7, <1>8 DEF PluginsInv

LEMMA LoadAllPlugins == ASSUME PluginsInv, NEW m \in Manager, LoadAll(m) PROVE PluginsInv'
<1>1. PICK todo, wanted :
        manager' = [manager EXCEPT ![m] =
            [doing |-> "load", inside |-> Nothing, wanted |-> wanted, todo |-> todo]]
  BY DEF LoadAll
<1> DEFINE t == [doing |-> "load", inside |-> Nothing, wanted |-> wanted, todo |-> todo]
<1>2. TaskFields(t) /\ t.inside = Nothing
  BY DEF TaskFields
<1>3. manager' = [manager EXCEPT ![m] = t]
  BY <1>1
<1>4. manager[m].inside = Nothing /\ UNCHANGED <<depends, priority, loaded, hooks, caller>>
  BY DEF LoadAll, Resting
<1> HIDE DEF t
<1> QED
  BY <1>2, <1>3, <1>4, OutsideLock

LEMMA LoadOrUnloadPlugins ==
    ASSUME PluginsInv, NEW m \in Manager, LoadOrUnload(m) PROVE PluginsInv'
<1>1. PICK p \in Plugin, doing \in {"load", "unload"} :
        manager' = [manager EXCEPT ![m] =
            [doing |-> doing, inside |-> Nothing, wanted |-> {}, todo |-> <<p>>]]
  BY DEF LoadOrUnload
<1> DEFINE t == [doing |-> doing, inside |-> Nothing, wanted |-> {}, todo |-> <<p>>]
<1>2. TaskFields(t) /\ t.inside = Nothing
  BY DEF TaskFields
<1>3. manager' = [manager EXCEPT ![m] = t]
  BY <1>1
<1>4. manager[m].inside = Nothing /\ UNCHANGED <<depends, priority, loaded, hooks, caller>>
  BY DEF LoadOrUnload, Resting
<1> HIDE DEF t
<1> QED
  BY <1>2, <1>3, <1>4, OutsideLock

LEMMA UnloadAllPlugins == ASSUME PluginsInv, NEW m \in Manager, UnloadAll(m) PROVE PluginsInv'
<1> DEFINE t == [doing |-> "unload", inside |-> Nothing, wanted |-> {}, todo |-> Reverse(loaded)]
<1>1. TaskFields(t) /\ t.inside = Nothing
  BY DEF TaskFields
<1>2. manager' = [manager EXCEPT ![m] = t]
  BY DEF UnloadAll
<1>3. manager[m].inside = Nothing /\ UNCHANGED <<depends, priority, loaded, hooks, caller>>
  BY DEF UnloadAll, Resting
<1> HIDE DEF t
<1> QED
  BY <1>1, <1>2, <1>3, OutsideLock

LEMMA RejectedPlugins == ASSUME PluginsInv, NEW m \in Manager, Rejected(m) PROVE PluginsInv'
<1>1. TaskFields(manager[m])
  BY DEF PluginsInv, PluginTypes, TasksTyped
<1> DEFINE t == [manager[m] EXCEPT !.todo = Tail(@)]
<1>2. TaskFields(t) /\ t.inside = manager[m].inside
  BY <1>1 DEF TaskFields
<1>3. manager' = [manager EXCEPT ![m] = t]
  BY DEF Rejected
<1>4. manager[m].inside = Nothing /\ UNCHANGED <<depends, priority, loaded, hooks, caller>>
  BY DEF Rejected, LockFree
<1> HIDE DEF t
<1> QED
  BY <1>1, <1>2, <1>3, <1>4, OutsideLock

\* The task that takes the lock is the only one inside.
LEMMA Takes ==
    ASSUME TasksTyped(manager), LockFree, NEW m \in Manager, NEW p \in Plugin, TakesLock(m, p)
    PROVE  /\ TasksTyped(manager')
           /\ manager'[m].inside = p /\ manager'[m].doing = manager[m].doing
           /\ \A n \in Manager \ {m} : manager'[n].inside = Nothing
           /\ {manager'[n].inside : n \in Manager} \ {Nothing} = {p}
<1>1. ASSUME NEW n \in Manager
      PROVE  /\ TaskFields(manager'[n]) /\ manager'[n].doing = manager[n].doing
             /\ manager'[n].inside = IF n = m THEN p ELSE Nothing
  <2>1. TaskFields(manager[n])
    BY DEF TasksTyped
  <2>2. manager'[n] = IF n = m THEN [manager[m] EXCEPT !.inside = p, !.todo = Tail(@)]
                      ELSE [manager[n] EXCEPT !.wanted = {}]
    BY DEF TakesLock
  <2>3. CASE n = m
    BY <2>1, <2>2, <2>3 DEF TaskFields
  <2>4. CASE n # m
    BY <2>1, <2>2, <2>4 DEF TaskFields, LockFree
  <2> QED
    BY <2>3, <2>4
<1>2. manager' = [n \in Manager |-> manager'[n]]
  BY DEF TakesLock
<1> QED
  BY <1>1, <1>2, PluginsAssumption DEF TasksTyped

\* And once it leaves nobody is.
LEMMA Leaves ==
    ASSUME TasksTyped(manager), InsideLock, NEW m \in Manager, NEW failed,
           manager[m].inside # Nothing, LeavesLock(m, failed)
    PROVE  TasksTyped(manager') /\ \A n \in Manager : manager'[n].inside = Nothing
<1> DEFINE t == [manager[m] EXCEPT !.inside = Nothing, !.wanted = @ \ failed]
<1>1. TaskFields(manager[m])
  BY DEF TasksTyped
<1>2. manager' = [manager EXCEPT ![m] = t]
  BY DEF LeavesLock
<1>3. TaskFields(t) /\ t.doing = manager[m].doing /\ t.inside = Nothing
  BY <1>1 DEF TaskFields
<1> HIDE DEF t
<1>4. manager' = [n \in Manager |-> IF n = m THEN t ELSE manager[n]]
  BY <1>2 DEF TasksTyped
<1>5. TasksTyped(manager')
  BY <1>3, <1>4 DEF TasksTyped
<1> QED
  BY <1>3, <1>4, <1>5 DEF InsideLock

LEMMA BeginLoadPlugins == ASSUME PluginsInv, NEW m \in Manager, BeginLoad(m) PROVE PluginsInv'
<1>1. PICK p \in Plugin : MayLoad(p) /\ TakesLock(m, p)
  BY DEF BeginLoad
<1>2. /\ manager[m].doing = "load" /\ LockFree
      /\ UNCHANGED <<depends, priority, loaded, hooks, caller>>
  BY DEF BeginLoad
<1>3. /\ TasksTyped(manager')
      /\ manager'[m].inside = p /\ manager'[m].doing = "load"
      /\ \A n \in Manager \ {m} : manager'[n].inside = Nothing
      /\ {manager'[n].inside : n \in Manager} \ {Nothing} = {p}
  BY <1>1, <1>2, Takes DEF PluginsInv, PluginTypes
<1>4. PluginTypes' /\ HandlersSorted' /\ RunsOn'
  BY <1>2, <1>3 DEF PluginsInv, PluginTypes, HandlersSorted, RunsOn, Registrations, Different
<1>5. LoadedInFull'
  <2>1. Nothing \notin Loaded /\ Loaded' = Loaded
    BY <1>2, PluginLists DEF PluginsInv, Loaded
  <2>2. ToSet(hooks) = Loaded \ {manager'[n].inside : n \in Manager}
    <3>1. ToSet(hooks) = Loaded
      BY <1>2, <2>1 DEF PluginsInv, LoadedInFull, LockFree
    <3>2. p \notin Loaded
      BY <1>1 DEF MayLoad
    <3> QED
      BY <1>3, <2>1, <3>1, <3>2
  <2> QED
    BY <1>2, <2>1, <2>2 DEF PluginsInv, LoadedInFull
<1>6. InsideLock'
  BY <1>1, <1>2, <1>3 DEF InsideLock, MayLoad, MayUnload, Loaded
<1> QED
  BY <1>4, <1>5, <1>6 DEF PluginsInv

\* A new handler stands behind those that are not of a lower priority, and before all
\* others.
LEMMA PlaceOf ==
    ASSUME PluginTypes, HandlersSorted, NEW p \in Plugin,
           NEW k, k = Cardinality({i \in DOMAIN hooks : priority[hooks[i]] >= priority[p]}) + 1
    PROVE  /\ k \in 1 .. Len(hooks) + 1
           /\ \A i \in DOMAIN hooks : i < k <=> priority[hooks[i]] >= priority[p]
<1> DEFINE before == {i \in DOMAIN hooks : priority[hooks[i]] >= priority[p]}
<1>1. /\ Len(hooks) \in Nat /\ DOMAIN hooks = 1 .. Len(hooks)
      /\ \A i \in DOMAIN hooks : priority[hooks[i]] \in Int
      /\ priority[p] \in Int
  BY PluginLists, PluginsAssumption DEF PluginTypes
<1>2. \A i, j \in DOMAIN hooks : i < j /\ j \in before => i \in before
  BY <1>1 DEF HandlersSorted
<1>3. before \subseteq 1 .. Len(hooks)
  BY <1>1
<1>4. \A i \in DOMAIN hooks : i \in before <=> priority[hooks[i]] >= priority[p]
  OBVIOUS
<1>5. k = Cardinality(before) + 1
  OBVIOUS
<1> HIDE DEF before
<1>6. CASE before = {}
  <2>1. k = 1
    BY <1>5, <1>6, FS_EmptySet
  <2>2. \A i \in DOMAIN hooks : ~ i < k
    BY <1>1, <2>1
  <2>3. \A i \in DOMAIN hooks : ~ priority[hooks[i]] >= priority[p]
    BY ONLY <1>4, <1>6
  <2>4. k \in 1 .. Len(hooks) + 1
    BY <1>1, <2>1
  <2> QED
    BY <2>2, <2>3, <2>4
<1>7. CASE before # {}
  <2>1. before \in SUBSET (0 .. Len(hooks))
    BY <1>1, <1>3
  <2>2. Max(before) \in before /\ \A i \in before : i <= Max(before)
    BY <1>1, <1>7, <2>1, MaxOf
  <2>3. PICK last \in 1 .. Len(hooks) : last \in before /\ \A i \in before : i <= last
    BY <1>3, <2>2
  <2>4. before = 1 .. last
    <3>1. \A i \in 1 .. last : i = last \/ (i \in DOMAIN hooks /\ last \in DOMAIN hooks /\ i < last)
      BY <1>1
    <3>2. \A i \in 1 .. last : i \in before
      BY <1>2, <2>3, <3>1
    <3>3. \A i \in before : i \in 1 .. last
      BY <1>1, <1>3, <2>3
    <3> QED
      BY <3>2, <3>3
  <2>5. Cardinality(before) = last
    BY <1>1, <2>3, <2>4, FS_Interval
  <2>6. k = last + 1
    BY <1>5, <2>5
  <2>7. \A i \in DOMAIN hooks : i < k <=> i \in before
    BY <1>1, <2>3, <2>4, <2>6
  <2> QED
    BY <1>1, <1>4, <2>3, <2>6, <2>7
<1> QED
  BY <1>6, <1>7

LEMMA OnLoadReturnsPlugins ==
    ASSUME PluginsInv, NEW m \in Manager, OnLoadReturns(m) PROVE PluginsInv'
<1> DEFINE p == manager[m].inside
<1>1. PluginTypes /\ HandlersSorted /\ p \in Plugin /\ MayLoad(p) /\ p # Nothing
  BY DEF PluginsInv, PluginTypes, TasksTyped, InsideLock, OnLoadReturns
<1>2. /\ hooks' = WithHandler(p) /\ loaded' = Append(loaded, p)
      /\ UNCHANGED <<depends, priority, caller>>
  BY DEF OnLoadReturns
<1>3. TasksTyped(manager') /\ \A n \in Manager : manager'[n].inside = Nothing
  BY <1>1, Leaves DEF PluginsInv, PluginTypes, OnLoadReturns
<1>4. /\ \A n \in Manager : manager[n].inside \in {Nothing, p}
      /\ p \in {manager[n].inside : n \in Manager}
  BY <1>1 DEF PluginsInv, InsideLock
<1> HIDE DEF p
<1> DEFINE k == Cardinality({i \in DOMAIN hooks : priority[hooks[i]] >= priority[p]}) + 1
<1>5. /\ k \in 1 .. Len(hooks) + 1
      /\ \A i \in DOMAIN hooks : i < k <=> priority[hooks[i]] >= priority[p]
  BY <1>1, PlaceOf
<1>6. hooks' = InsertAt(hooks, k, p)
  BY <1>2 DEF WithHandler
<1> HIDE DEF k
<1>7. /\ Len(hooks) \in Nat /\ DOMAIN hooks = 1 .. Len(hooks)
      /\ \A i \in DOMAIN hooks : hooks[i] \in Plugin /\ priority[hooks[i]] \in Int
      /\ Len(loaded) \in Nat /\ DOMAIN loaded = 1 .. Len(loaded)
      /\ Loaded \subseteq Plugin /\ Nothing \notin Loaded
      /\ hooks \in Seq(Plugin) /\ loaded \in Seq(Plugin)
  BY <1>1, PluginLists DEF PluginTypes
<1>8. /\ hooks' \in Seq(Plugin) /\ DOMAIN hooks' = 1 .. Len(hooks) + 1
      /\ \A i \in 1 .. Len(hooks) + 1 :
            hooks'[i] = IF i < k THEN hooks[i] ELSE IF i = k THEN p ELSE hooks[i - 1]
  <2>1. hooks' \in Seq(Plugin) /\ TakesIn(hooks, k, p, hooks')
    BY <1>1, <1>5, <1>6, <1>7, WithOneAt
  <2> QED
    BY <2>1 DEF TakesIn
<1>9. /\ loaded' \in Seq(Plugin) /\ DOMAIN loaded' = 1 .. Len(loaded) + 1
      /\ loaded'[Len(loaded) + 1] = p /\ \A i \in 1 .. Len(loaded) : loaded'[i] = loaded[i]
  BY <1>1, <1>2, <1>7, AppendProperties
<1>10. p \notin Loaded /\ p \notin ToSet(hooks)
  BY <1>1 DEF MayLoad, PluginsInv, LoadedInFull
<1>11. ToSet(hooks') = ToSet(hooks) \cup {p}
  <2>1. \A i \in DOMAIN hooks' : hooks'[i] \in ToSet(hooks) \cup {p}
    <3>1. ASSUME NEW i \in DOMAIN hooks', i < k PROVE i \in DOMAIN hooks /\ hooks'[i] = hooks[i]
      BY <1>5, <1>7, <1>8, <3>1
    <3>2. ASSUME NEW i \in DOMAIN hooks', i > k
          PROVE  i - 1 \in DOMAIN hooks /\ hooks'[i] = hooks[i - 1]
      BY <1>5, <1>7, <1>8, <3>2
    <3> QED
      BY <1>5, <1>7, <1>8, <3>1, <3>2 DEF ToSet
  <2>2. \A i \in DOMAIN hooks : \E j \in DOMAIN hooks' : hooks'[j] = hooks[i]
    <3>1. ASSUME NEW i \in DOMAIN hooks, i < k PROVE i \in DOMAIN hooks' /\ hooks'[i] = hooks[i]
      BY <1>5, <1>7, <1>8, <3>1
    <3>2. ASSUME NEW i \in DOMAIN hooks, ~ i < k
          PROVE  i + 1 \in DOMAIN hooks' /\ hooks'[i + 1] = hooks[i]
      BY <1>5, <1>7, <1>8, <3>2
    <3> QED
      BY <3>1, <3>2
  <2>3. k \in DOMAIN hooks' /\ hooks'[k] = p
    BY <1>5, <1>7, <1>8
  <2> QED
    BY <2>1, <2>2, <2>3 DEF ToSet
<1>12. Loaded' = Loaded \cup {p}
  <2>1. Len(loaded) + 1 \in DOMAIN loaded'
    BY <1>7, <1>9
  <2>2. \A i \in DOMAIN loaded : i \in DOMAIN loaded' /\ loaded'[i] = loaded[i]
    BY <1>7, <1>9
  <2>3. \A i \in DOMAIN loaded' : i \in DOMAIN loaded \/ loaded'[i] = p
    BY <1>7, <1>9
  <2> QED
    BY <1>9, <2>1, <2>2, <2>3 DEF Loaded, ToSet
<1>13. Different(hooks')
  <2>1. Different(hooks) /\ \A i \in DOMAIN hooks : hooks[i] # p
    BY <1>1, <1>10 DEF PluginTypes, ToSet
  <2>2. ASSUME NEW i \in DOMAIN hooks', NEW j \in DOMAIN hooks', i < j PROVE hooks'[i] # hooks'[j]
    <3>1. CASE j < k
      <4>1. /\ i \in DOMAIN hooks /\ hooks'[i] = hooks[i]
            /\ j \in DOMAIN hooks /\ hooks'[j] = hooks[j] /\ i # j
        BY <1>5, <1>7, <1>8, <2>2, <3>1
      <4> QED
        BY <2>1, <4>1 DEF Different
    <3>2. CASE j = k
      <4>1. i \in DOMAIN hooks /\ hooks'[i] = hooks[i] /\ hooks'[j] = p
        BY <1>5, <1>7, <1>8, <2>2, <3>2
      <4> QED
        BY <2>1, <4>1
    <3>3. CASE j > k
      <4>1. j - 1 \in DOMAIN hooks /\ hooks'[j] = hooks[j - 1]
        BY <1>5, <1>7, <1>8, <3>3
      <4>2. CASE i < k
        <5>1. i \in DOMAIN hooks /\ hooks'[i] = hooks[i] /\ i # j - 1
          BY <1>5, <1>7, <1>8, <3>3, <4>2
        <5> QED
          BY <2>1, <4>1, <5>1 DEF Different
      <4>3. CASE i = k
        BY <1>8, <2>1, <4>1, <4>3
      <4>4. CASE i > k
        <5>1. i - 1 \in DOMAIN hooks /\ hooks'[i] = hooks[i - 1] /\ i - 1 # j - 1
          BY <1>5, <1>7, <1>8, <2>2, <4>4
        <5> QED
          BY <2>1, <4>1, <5>1 DEF Different
      <4> QED
        BY <1>5, <1>8, <4>2, <4>3, <4>4
    <3> QED
      BY <1>5, <1>8, <3>1, <3>2, <3>3
  <2>3. ASSUME NEW i \in DOMAIN hooks', NEW j \in DOMAIN hooks', hooks'[i] = hooks'[j] PROVE i = j
    <3>1. i \in Int /\ j \in Int /\ ~ i < j /\ ~ j < i
      BY <1>7, <1>8, <2>2, <2>3
    <3> QED
      BY <3>1
  <2> QED
    BY <2>3 DEF Different
<1>14. Different(loaded')
  <2>1. Different(loaded) /\ \A i \in DOMAIN loaded : loaded[i] # p
    BY <1>1, <1>10 DEF PluginTypes, Loaded, ToSet
  <2> QED
    BY <1>7, <1>9, <2>1 DEF Different
<1>15. PluginTypes'
  BY <1>1, <1>2, <1>3, <1>8, <1>9, <1>13, <1>14 DEF PluginTypes
<1>16. LoadedInFull'
  <2>1. \A q \in Loaded' : depends'[q] \subseteq Loaded'
    BY <1>1, <1>2, <1>12 DEF PluginsInv, LoadedInFull, MayLoad
  <2>2. ToSet(hooks) = Loaded
    BY <1>4, <1>7, <1>10 DEF PluginsInv, LoadedInFull
  <2>3. ToSet(hooks') = Loaded' \ {manager'[n].inside : n \in Manager}
    BY <1>1, <1>3, <1>7, <1>11, <1>12, <2>2
  <2> QED
    BY <2>1, <2>3 DEF LoadedInFull
<1>17. InsideLock'
  BY <1>3 DEF InsideLock
<1>18. HandlersSorted'
  <2> SUFFICES ASSUME NEW i \in DOMAIN hooks', NEW j \in DOMAIN hooks', i < j
               PROVE  priority[hooks'[i]] >= priority[hooks'[j]]
    BY <1>2 DEF HandlersSorted
  <2>1. priority[p] \in Int
    BY <1>1, PluginsAssumption DEF PluginTypes
  <2>2. CASE j < k
    BY <1>1, <1>5, <1>7, <1>8, <2>2 DEF HandlersSorted
  <2>3. CASE j = k
    <3>1. i \in DOMAIN hooks /\ i < k /\ hooks'[i] = hooks[i] /\ hooks'[j] = p
      BY <1>5, <1>7, <1>8, <2>3
    <3> QED
      BY <1>5, <3>1
  <2>4. CASE j > k
    <3>1. j - 1 \in DOMAIN hooks /\ ~ j - 1 < k /\ hooks'[j] = hooks[j - 1]
      BY <1>5, <1>7, <1>8, <2>4
    <3>2. priority[p] > priority[hooks[j - 1]]
      BY <1>5, <1>7, <2>1, <3>1
    <3>3. CASE i < k
      <4>1. i \in DOMAIN hooks /\ i < j - 1 /\ hooks'[i] = hooks[i]
        BY <1>5, <1>7, <1>8, <2>4, <3>3
      <4> QED
        BY <1>1, <3>1, <4>1 DEF HandlersSorted
    <3>4. CASE i = k
      <4>1. hooks'[i] = p
        BY <1>5, <1>8, <3>4
      <4> QED
        BY <1>7, <2>1, <3>1, <3>2, <4>1
    <3>5. CASE i > k
      <4>1. i - 1 \in DOMAIN hooks /\ i - 1 < j - 1 /\ hooks'[i] = hooks[i - 1]
        BY <1>5, <1>7, <1>8, <3>5
      <4> QED
        BY <1>1, <3>1, <4>1 DEF HandlersSorted
    <3> QED
      BY <1>5, <1>8, <3>3, <3>4, <3>5
  <2> QED
    BY <1>5, <1>8, <2>2, <2>3, <2>4
<1>19. RunsOn'
  <2> SUFFICES ASSUME NEW c \in Caller, ~caller[c].aborted, NEW q \in ToSet(caller[c].first),
                      q \notin caller[c].ran
               PROVE  Ahead(Registrations(c)', caller[c].at, q)
    BY <1>2 DEF RunsOn
  <2>1. Ahead(Registrations(c), caller[c].at, q)
    BY DEF PluginsInv, RunsOn
  <2>2. CASE caller[c].over # Live
    BY <1>2, <2>1, <2>2 DEF Registrations
  <2>3. CASE caller[c].over = Live
    <3>1. Registrations(c) = hooks /\ Registrations(c)' = hooks'
      BY <1>2, <2>3 DEF Registrations
    <3>2. PICK i \in DOMAIN hooks : i > caller[c].at /\ hooks[i] = q
      BY <2>1, <3>1 DEF Ahead
    <3>3. caller[c].at \in Nat /\ caller[c].at > 0
      BY <1>1, <2>1 DEF PluginTypes, RunsTyped, Ahead
    <3>4. \E j \in DOMAIN hooks' : j > caller[c].at /\ hooks'[j] = q
      <4>1. CASE i < k
        <5>1. i \in DOMAIN hooks' /\ hooks'[i] = hooks[i]
          BY <1>5, <1>7, <1>8, <4>1
        <5> QED
          BY <3>2, <5>1
      <4>2. CASE ~ i < k
        <5>1. i + 1 \in DOMAIN hooks' /\ hooks'[i + 1] = hooks[i] /\ i + 1 > caller[c].at
          BY <1>5, <1>7, <1>8, <3>2, <3>3, <4>2
        <5> QED
          BY <3>2, <5>1
      <4> QED
        BY <4>1, <4>2
    <3> QED
      BY <3>1, <3>3, <3>4 DEF Ahead
  <2> QED
    BY <2>2, <2>3
<1> QED
  BY <1>15, <1>16, <1>17, <1>18, <1>19 DEF PluginsInv

LEMMA OnLoadRaisesPlugins ==
    ASSUME PluginsInv, NEW m \in Manager, OnLoadRaises(m) PROVE PluginsInv'
<1> DEFINE p == manager[m].inside
<1>1. p \in Plugin /\ MayLoad(p) /\ p # Nothing /\ UNCHANGED <<depends, priority, loaded, hooks, caller>>
  BY DEF PluginsInv, PluginTypes, TasksTyped, InsideLock, OnLoadRaises
<1>2. TasksTyped(manager') /\ \A n \in Manager : manager'[n].inside = Nothing
  BY <1>1, Leaves DEF PluginsInv, PluginTypes, OnLoadRaises
<1>3. \A n \in Manager : manager[n].inside \in {Nothing, p}
  BY <1>1 DEF PluginsInv, InsideLock
<1> HIDE DEF p
<1>4. PluginTypes' /\ HandlersSorted' /\ RunsOn'
  BY <1>1, <1>2 DEF PluginsInv, PluginTypes, HandlersSorted, RunsOn, Registrations, Different
<1>5. LoadedInFull'
  <2>1. Nothing \notin Loaded /\ Loaded' = Loaded /\ p \notin Loaded
    BY <1>1, PluginLists DEF PluginsInv, Loaded, MayLoad
  <2>2. ToSet(hooks) = Loaded \ {manager'[n].inside : n \in Manager}
    BY <1>2, <1>3, <2>1 DEF PluginsInv, LoadedInFull
  <2> QED
    BY <1>1, <2>1, <2>2 DEF PluginsInv, LoadedInFull
<1>6. InsideLock'
  BY <1>2 DEF InsideLock
<1> QED
  BY <1>4, <1>5, <1>6 DEF PluginsInv

LEMMA BeginUnloadPlugins == ASSUME PluginsInv, NEW m \in Manager, BeginUnload(m) PROVE PluginsInv'
<1>1. PICK p \in Plugin : MayUnload(p) /\ TakesLock(m, p) /\ hooks' = RemoveFirst(hooks, p)
  BY DEF BeginUnload
<1>2. /\ manager[m].doing = "unload" /\ LockFree
      /\ caller' = Kept /\ UNCHANGED <<depends, priority, loaded>>
  BY DEF BeginUnload, Left
<1>3. /\ TasksTyped(manager')
      /\ manager'[m].inside = p /\ manager'[m].doing = "unload"
      /\ \A n \in Manager \ {m} : manager'[n].inside = Nothing
      /\ {manager'[n].inside : n \in Manager} \ {Nothing} = {p}
  BY <1>1, <1>2, Takes DEF PluginsInv, PluginTypes
<1>4. PluginTypes /\ hooks \in Seq(Plugin) /\ Different(hooks) /\ Live \notin Seq(Plugin)
  BY PluginsAssumption DEF PluginsInv, PluginTypes
<1>5. /\ hooks' \in Seq(Plugin) /\ Different(hooks') /\ ToSet(hooks') = ToSet(hooks) \ {p}
      /\ \A i, j \in DOMAIN hooks' :
            i < j => \E x, y \in DOMAIN hooks : x < y /\ hooks[x] = hooks'[i] /\ hooks[y] = hooks'[j]
  <2> DEFINE less == RemoveFirst(hooks, p)
  <2>1. /\ less \in Seq(Plugin) /\ Different(less) /\ ToSet(less) = ToSet(hooks) \ {p}
        /\ \A i, j \in DOMAIN less :
              i < j => \E x, y \in DOMAIN hooks : x < y /\ hooks[x] = less[i] /\ hooks[y] = less[j]
    BY <1>4, WithoutOne
  <2>2. hooks' = less
    BY <1>1
  <2> HIDE DEF less
  <2> QED
    BY <2>1, <2>2
<1>6. ASSUME NEW c \in Caller
      PROVE  /\ RunFields(caller'[c]) /\ caller'[c].over = Registrations(c)
             /\ Registrations(c) \in Seq(Plugin)
             /\ caller'[c].at = caller[c].at /\ caller'[c].first = caller[c].first
             /\ caller'[c].ran = caller[c].ran /\ caller'[c].aborted = caller[c].aborted
  <2>1. RunFields(caller[c]) /\ (caller[c].over = Live \/ caller[c].over \in Seq(Plugin))
    BY <1>4 DEF PluginTypes, RunsTyped
  <2>2. caller'[c] = [caller[c] EXCEPT !.over = Registrations(c)]
    BY <1>2 DEF Kept
  <2>3. Registrations(c) \in Seq(Plugin)
    BY <1>4, <2>1 DEF Registrations
  <2> QED
    BY <2>1, <2>2, <2>3 DEF RunFields
<1>7. RunsTyped(caller')
  <2>1. caller' = [c \in Caller |-> caller'[c]]
    BY <1>2 DEF Kept
  <2> QED
    BY <1>4, <1>6, <2>1 DEF RunsTyped, PluginTypes
<1>8. PluginTypes'
  BY <1>2, <1>3, <1>4, <1>5, <1>7 DEF PluginTypes, Different
<1>9. LoadedInFull'
  <2>1. Nothing \notin Loaded /\ Loaded' = Loaded
    BY <1>2, <1>4, PluginLists DEF Loaded
  <2>2. ToSet(hooks) = Loaded
    BY <1>2, <2>1 DEF PluginsInv, LoadedInFull, LockFree
  <2>3. ToSet(hooks') = Loaded' \ {manager'[n].inside : n \in Manager}
    BY <1>3, <1>5, <2>1, <2>2
  <2> QED
    BY <1>2, <2>1, <2>3 DEF PluginsInv, LoadedInFull
<1>10. InsideLock'
  BY <1>1, <1>2, <1>3 DEF InsideLock, MayLoad, MayUnload, Loaded
<1>11. HandlersSorted'
  BY <1>2, <1>5 DEF PluginsInv, HandlersSorted
<1>12. RunsOn'
  <2>1. \A c \in Caller : Registrations(c)' = Registrations(c)
    BY <1>4, <1>6 DEF Registrations
  <2> QED
    BY <1>6, <2>1 DEF PluginsInv, RunsOn
<1> QED
  BY <1>8, <1>9, <1>10, <1>11, <1>12 DEF PluginsInv

LEMMA OnUnloadReturnsPlugins ==
    ASSUME PluginsInv, NEW m \in Manager, OnUnloadReturns(m) PROVE PluginsInv'
<1> DEFINE p == manager[m].inside
<1>1. PluginTypes /\ p \in Plugin /\ MayUnload(p) /\ p # Nothing
  BY DEF PluginsInv, PluginTypes, TasksTyped, InsideLock, OnUnloadReturns
<1>2. loaded' = RemoveFirst(loaded, p) /\ UNCHANGED <<depends, priority, hooks, caller>>
  BY DEF OnUnloadReturns
<1>3. TasksTyped(manager') /\ \A n \in Manager : manager'[n].inside = Nothing
  BY <1>1, Leaves DEF PluginsInv, PluginTypes, OnUnloadReturns
<1>4. /\ \A n \in Manager : manager[n].inside \in {Nothing, p}
      /\ p \in {manager[n].inside : n \in Manager}
  BY <1>1 DEF PluginsInv, InsideLock
<1> HIDE DEF p
<1>5. loaded' \in Seq(Plugin) /\ Different(loaded') /\ ToSet(loaded') = ToSet(loaded) \ {p}
  <2>1. loaded \in Seq(Plugin) /\ Different(loaded)
    BY <1>1 DEF PluginTypes
  <2> QED
    BY <1>2, <2>1, WithoutOne
<1>6. Loaded' = Loaded \ {p}
  BY <1>5 DEF Loaded
<1>7. PluginTypes' /\ HandlersSorted' /\ RunsOn'
  BY <1>1, <1>2, <1>3, <1>5
     DEF PluginsInv, PluginTypes, HandlersSorted, RunsOn, Registrations, Different
<1>8. LoadedInFull'
  <2>1. \A q \in Loaded' : depends'[q] \subseteq Loaded'
    BY <1>1, <1>2, <1>6 DEF PluginsInv, LoadedInFull, MayUnload
  <2>2. Nothing \notin Loaded
    BY <1>1, PluginLists
  <2>3. ToSet(hooks) = Loaded \ {p}
    BY <1>4, <2>2 DEF PluginsInv, LoadedInFull
  <2>4. ToSet(hooks') = Loaded' \ {manager'[n].inside : n \in Manager}
    BY <1>2, <1>3, <1>6, <2>2, <2>3
  <2> QED
    BY <2>1, <2>4 DEF LoadedInFull
<1>9. InsideLock'
  BY <1>3 DEF InsideLock
<1> QED
  BY <1>7, <1>8, <1>9 DEF PluginsInv

\* A run goes on, or begins.
LEMMA RunGoesFurther ==
    ASSUME PluginsInv, NEW c \in Caller, NEW r, RunFields(r),
           r.over = Live \/ r.over \in Seq(Plugin), r.at \in Nat,
           caller' = [caller EXCEPT ![c] = r],
           ~r.aborted => \A q \in ToSet(r.first) :
               q \in r.ran \/ Ahead(IF r.over = Live THEN hooks ELSE r.over, r.at, q),
           UNCHANGED <<depends, priority, loaded, hooks, manager>>
    PROVE  PluginsInv'
<1>1. RunsTyped(caller)
  BY DEF PluginsInv, PluginTypes
<1>2. /\ caller' = [d \in Caller |-> IF d = c THEN r ELSE caller[d]]
      /\ \A d \in Caller : caller'[d] = IF d = c THEN r ELSE caller[d]
  BY <1>1 DEF RunsTyped
<1>3. RunsTyped(caller')
  BY <1>1, <1>2 DEF RunsTyped
<1>4. PluginTypes' /\ LoadedInFull' /\ InsideLock' /\ HandlersSorted'
  BY <1>3 DEF PluginsInv, PluginTypes, LoadedInFull, InsideLock, HandlersSorted, MayLoad,
              MayUnload, Loaded, Different
<1>5. ASSUME NEW d \in Caller, ~caller'[d].aborted, NEW q \in ToSet(caller'[d].first)
      PROVE  q \in caller'[d].ran \/ Ahead(Registrations(d)', caller'[d].at, q)
  <2>1. CASE d = c
    BY <1>2, <1>5, <2>1 DEF Registrations
  <2>2. CASE d # c
    BY <1>2, <1>5, <2>2 DEF PluginsInv, RunsOn, Registrations
  <2> QED
    BY <2>1, <2>2
<1>6. RunsOn'
  BY <1>5 DEF RunsOn
<1> QED
  BY <1>4, <1>6 DEF PluginsInv

LEMMA ExecuteHooksPlugins ==
    ASSUME PluginsInv, NEW c \in Caller, ExecuteHooks(c) PROVE PluginsInv'
<1> DEFINE r == [over |-> Live, at |-> 1, first |-> hooks, ran |-> {hooks[1]}, aborted |-> FALSE]
<1>1. RunFields(r) /\ r.over = Live /\ r.at \in Nat /\ ~r.aborted
  BY DEF RunFields
<1>2. caller' = [caller EXCEPT ![c] = r] /\ UNCHANGED <<depends, priority, loaded, hooks, manager>>
  BY DEF ExecuteHooks
<1>3. \A q \in ToSet(r.first) : q \in r.ran \/ Ahead(hooks, r.at, q)
  <2>1. DOMAIN hooks = 1 .. Len(hooks) /\ Len(hooks) \in Nat
    BY PluginLists DEF PluginsInv
  <2>2. ASSUME NEW i \in DOMAIN hooks PROVE hooks[i] \in {hooks[1]} \/ Ahead(hooks, 1, hooks[i])
    <3>1. i = 1 \/ i > 1
      BY <2>1
    <3> QED
      BY <3>1 DEF Ahead
  <2> QED
    BY <2>2 DEF ToSet
<1> HIDE DEF r
<1> QED
  BY <1>1, <1>2, <1>3, RunGoesFurther

LEMMA HandlerReturnsPlugins ==
    ASSUME PluginsInv, NEW c \in Caller, HandlerReturns(c) PROVE PluginsInv'
<1> DEFINE next == caller[c].at + 1
           over == Registrations(c)
<1>1. /\ RunFields(caller[c]) /\ caller[c].at \in Nat
      /\ caller[c].over = Live \/ caller[c].over \in Seq(Plugin)
      /\ hooks \in Seq(Plugin)
  BY DEF PluginsInv, PluginTypes, RunsTyped
<1>2. over \in Seq(Plugin) /\ DOMAIN over = 1 .. Len(over) /\ Len(over) \in Nat
  <2>1. over \in Seq(Plugin)
    BY <1>1 DEF Registrations
  <2> QED
    BY <2>1, LenProperties
<1>3. over = IF caller[c].over = Live THEN hooks ELSE caller[c].over
  BY DEF Registrations
<1>4. /\ caller' = [caller EXCEPT ![c] =
              IF next <= Len(over)
              THEN [caller[c] EXCEPT !.at = next, !.ran = caller[c].ran \cup {over[next]}]
              ELSE [caller[c] EXCEPT !.at = 0]]
      /\ UNCHANGED <<depends, priority, loaded, hooks, manager>> /\ caller[c].at > 0
  BY DEF HandlerReturns
<1>5. ~caller[c].aborted =>
          \A q \in ToSet(caller[c].first) : q \in caller[c].ran \/ Ahead(over, caller[c].at, q)
  BY DEF PluginsInv, RunsOn
<1> HIDE DEF over
<1>6. CASE next <= Len(over)
  <2> DEFINE r == [caller[c] EXCEPT !.at = next, !.ran = caller[c].ran \cup {over[next]}]
  <2>1. /\ RunFields(r) /\ r.over = caller[c].over /\ r.at = next /\ r.first = caller[c].first
        /\ r.ran = caller[c].ran \cup {over[next]} /\ r.aborted = caller[c].aborted
    BY <1>1 DEF RunFields
  <2>2. caller' = [caller EXCEPT ![c] = r]
    BY <1>4, <1>6, Zenon
  <2> HIDE DEF r
  <2>3. ASSUME NEW q, Ahead(over, caller[c].at, q) PROVE q = over[next] \/ Ahead(over, next, q)
    <3>1. PICK i \in DOMAIN over : i > caller[c].at /\ over[i] = q
      BY <2>3 DEF Ahead
    <3>2. i = next \/ i > next
      BY <1>1, <1>2, <3>1
    <3>3. next > 0
      BY <1>1
    <3> QED
      BY <3>1, <3>2, <3>3 DEF Ahead
  <2>4. ~r.aborted => \A q \in ToSet(r.first) : q \in r.ran \/ Ahead(over, r.at, q)
    BY <1>5, <2>1, <2>3
  <2>5. r.at \in Nat
    BY <1>1, <2>1
  <2> QED
    BY <1>1, <1>3, <1>4, <2>1, <2>2, <2>4, <2>5, RunGoesFurther
<1>7. CASE ~ next <= Len(over)
  <2> DEFINE r == [caller[c] EXCEPT !.at = 0]
  <2>1. /\ RunFields(r) /\ r.over = caller[c].over /\ r.at = 0 /\ r.first = caller[c].first
        /\ r.ran = caller[c].ran /\ r.aborted = caller[c].aborted
    BY <1>1 DEF RunFields
  <2>2. caller' = [caller EXCEPT ![c] = r]
    BY <1>4, <1>7, Zenon
  <2> HIDE DEF r
  <2>3. \A q : ~Ahead(over, caller[c].at, q)
    BY <1>1, <1>2, <1>7 DEF Ahead
  <2>4. ~r.aborted => \A q \in ToSet(r.first) : q \in r.ran \/ Ahead(over, r.at, q)
    BY <1>5, <2>1, <2>3
  <2>5. r.at \in Nat
    BY <2>1
  <2> QED
    BY <1>1, <1>3, <1>4, <2>1, <2>2, <2>4, <2>5, RunGoesFurther
<1> QED
  BY <1>6, <1>7

LEMMA HandlerAbortsPlugins ==
    ASSUME PluginsInv, NEW c \in Caller, HandlerAborts(c) PROVE PluginsInv'
<1> DEFINE r == [caller[c] EXCEPT !.at = 0, !.aborted = TRUE]
<1>1. RunFields(caller[c]) /\ (caller[c].over = Live \/ caller[c].over \in Seq(Plugin))
  BY DEF PluginsInv, PluginTypes, RunsTyped
<1>2. RunFields(r) /\ r.over = caller[c].over /\ r.at = 0 /\ r.aborted
  BY <1>1 DEF RunFields
<1>3. caller' = [caller EXCEPT ![c] = r] /\ UNCHANGED <<depends, priority, loaded, hooks, manager>>
  <2>1. caller' = [caller EXCEPT ![c].at = 0, ![c].aborted = TRUE]
    BY DEF HandlerAborts
  <2> QED
    BY <2>1 DEF HandlerAborts
<1> HIDE DEF r
<1>4. r.at \in Nat
  BY <1>2
<1> QED
  BY <1>1, <1>2, <1>3, <1>4, RunGoesFurther

LEMMA NextPlugins == ASSUME PluginsInv, [PluginsNext]_pluginVars PROVE PluginsInv'
<1>1. CASE UNCHANGED pluginVars
  BY <1>1 DEF pluginVars, PluginsInv, PluginTypes, LoadedInFull, InsideLock, HandlersSorted, RunsOn,
              Registrations, MayLoad, MayUnload, Loaded, Different
<1>2. CASE \E m \in Manager : LoadAll(m) \/ LoadOrUnload(m) \/ UnloadAll(m) \/ Lifecycle(m)
  BY <1>2, LoadAllPlugins, LoadOrUnloadPlugins, UnloadAllPlugins, RejectedPlugins, BeginLoadPlugins,
     OnLoadReturnsPlugins, OnLoadRaisesPlugins, BeginUnloadPlugins, OnUnloadReturnsPlugins
     DEF Lifecycle
<1>3. CASE \E c \in Caller : Execution(c)
  BY <1>3, ExecuteHooksPlugins, HandlerReturnsPlugins, HandlerAbortsPlugins DEF Execution
<1> QED
  BY <1>1, <1>2, <1>3 DEF PluginsNext

LEMMA InitPlugins == PluginsInit => PluginsInv
<1> SUFFICES ASSUME PluginsInit PROVE PluginsInv
  OBVIOUS
<1>1. loaded = <<>> /\ hooks = <<>> /\ <<>> \in Seq(Plugin) /\ ToSet(<<>>) = {}
  BY EmptySeq DEF PluginsInit, ToSet
<1>2. \A m \in Manager :
        TaskFields(manager[m]) /\ manager[m].inside = Nothing
  BY DEF PluginsInit, TaskFields
<1>3. \A c \in Caller :
        /\ RunFields(caller[c]) /\ caller[c].over = Live /\ caller[c].at = 0
        /\ caller[c].first = <<>>
  BY DEF PluginsInit, RunFields
<1>4. manager = [m \in Manager |-> manager[m]] /\ caller = [c \in Caller |-> caller[c]]
  BY DEF PluginsInit
<1>5. PluginTypes
  <2>1. TasksTyped(manager)
    BY <1>2, <1>4 DEF TasksTyped
  <2>2. RunsTyped(caller)
    BY <1>3, <1>4 DEF RunsTyped
  <2>3. Different(<<>>)
    BY DEF Different
  <2> QED
    BY <1>1, <2>1, <2>2, <2>3 DEF PluginsInit, PluginTypes
<1>6. LoadedInFull /\ HandlersSorted
  BY <1>1 DEF LoadedInFull, HandlersSorted, Loaded
<1>7. InsideLock
  BY <1>2 DEF InsideLock
<1>8. RunsOn
  BY <1>1, <1>3 DEF RunsOn
<1> QED
  BY <1>5, <1>6, <1>7, <1>8 DEF PluginsInv
-----------------------------------------------------------------------------
(* The order in which load_all loads.  Each visit enters a class or leaves *)
(* one, so that twice as many as there are classes visit them all.  Where  *)
(* a cycle is cut, a class may come before one that it depends on: that    *)
(* one needs it in turn, and neither is loaded before the other.  So what  *)
(* a task wants and cannot load lacks a dependency that never comes.       *)

\* Whoever has d loaded has p loaded.
Needs(d, p) ==
    \A L \in SUBSET Plugin : (\A x \in L : depends[x] \subseteq L) /\ d \in L => p \in L

\* A class that is loaded before one that it depends on is one that that depends on.
LateOnly(classes, off, list) ==
    \A i \in DOMAIN list : \A d \in (depends[list[i]] \cap classes) \ off :
        (\E h \in DOMAIN list : h < i /\ list[h] = d) \/ Needs(d, list[i])

\* After n visits that were entered or left.
VisitsFit(classes, off, s, n) ==
    /\ s \in [path : Seq(classes), visited : SUBSET classes, result : Seq(classes)]
    /\ Different(s.path) /\ Different(s.result)
    /\ ToSet(s.path) \subseteq s.visited
    /\ ToSet(s.result) = (s.visited \ ToSet(s.path)) \ off
    /\ \A i, j \in DOMAIN s.path : i <= j => Needs(s.path[i], s.path[j])
    /\ LateOnly(classes, off, s.result)
    /\ \/ Cardinality(s.visited) + Cardinality(s.visited \ ToSet(s.path)) = n
       \/ s.path = <<>> /\ s.visited = classes

\* A class is entered.
LEMMA Entered ==
    ASSUME PluginTypes, NEW classes \in SUBSET Plugin, NEW off, NEW n \in Nat, NEW s, NEW t,
           VisitsFit(classes, off, s, n), NEW p \in classes \ s.visited,
           s.path # <<>> => p \in depends[Last(s.path)],
           t = [s EXCEPT !.path = Append(@, p), !.visited = @ \cup {p}]
    PROVE  VisitsFit(classes, off, t, n + 1)
<1>1. /\ s.path \in Seq(classes) /\ s.visited \subseteq classes /\ s.result \in Seq(classes)
      /\ ToSet(s.path) \subseteq s.visited
  BY DEF VisitsFit
<1>2. /\ t.path = Append(s.path, p) /\ t.visited = s.visited \cup {p} /\ t.result = s.result
      /\ t \in [path : Seq(classes), visited : SUBSET classes, result : Seq(classes)]
  <2>1. s = [path |-> s.path, visited |-> s.visited, result |-> s.result]
    BY DEF VisitsFit
  <2>2. PICK q : q = [s EXCEPT !.path = Append(@, p)]
    OBVIOUS
  <2>3. q = [path |-> Append(s.path, p), visited |-> s.visited, result |-> s.result]
    BY <2>1, <2>2
  <2>4. t = [q EXCEPT !.visited = @ \cup {p}]
    BY <2>1, <2>2
  <2>5. t = [path |-> Append(s.path, p), visited |-> s.visited \cup {p}, result |-> s.result]
    BY <2>3, <2>4
  <2>6. Append(s.path, p) \in Seq(classes) /\ s.visited \cup {p} \subseteq classes
    BY <1>1
  <2> QED
    BY <1>1, <2>5, <2>6
<1> PICK a, b : a = s.path /\ b = t.path
  OBVIOUS
<1>3. /\ Len(a) \in Nat /\ DOMAIN a = 1 .. Len(a) /\ DOMAIN b = 1 .. Len(a) + 1
      /\ \A i \in 1 .. Len(a) : a[i] \in classes /\ b[i] = a[i] /\ a[i] \in s.visited
      /\ b[Len(a) + 1] = p
  <2>1. a \in Seq(classes) /\ b = Append(a, p)
    BY <1>1, <1>2
  <2>2. /\ Len(a) \in Nat /\ DOMAIN a = 1 .. Len(a) /\ DOMAIN b = 1 .. Len(a) + 1
        /\ \A i \in 1 .. Len(a) : a[i] \in classes /\ b[i] = a[i]
        /\ b[Len(a) + 1] = p
    BY <2>1
  <2> QED
    BY <1>1, <2>2 DEF ToSet
<1>4. ToSet(b) = ToSet(a) \cup {p}
  BY <1>3 DEF ToSet
<1>5. Different(b)
  BY <1>3 DEF Different, VisitsFit
<1>6. t.visited \ ToSet(b) = s.visited \ ToSet(a)
  BY <1>2, <1>4
<1>7. ASSUME NEW i \in DOMAIN b, NEW j \in DOMAIN b, i <= j PROVE Needs(b[i], b[j])
  <2>1. CASE i = j
    BY <2>1 DEF Needs
  <2>2. CASE i # j
    <3>1. i \in 1 .. Len(a)
      BY <1>3, <1>7, <2>2
    <3>2. CASE j \in 1 .. Len(a)
      BY <1>3, <1>7, <3>1, <3>2 DEF VisitsFit
    <3>3. CASE j = Len(a) + 1
      <4>1. a # <<>> /\ Last(a) = a[Len(a)] /\ Len(a) \in 1 .. Len(a)
        BY <1>3, <3>1 DEF Last
      <4>2. p \in depends[a[Len(a)]] /\ a[Len(a)] \in Plugin
        BY <1>3, <4>1
      <4>3. Needs(a[i], a[Len(a)])
        BY <1>3, <3>1, <4>1 DEF VisitsFit
      <4>4. Needs(a[i], p)
        BY <4>2, <4>3 DEF Needs
      <4> QED
        BY <1>3, <3>1, <3>3, <4>4
    <3> QED
      BY <1>3, <3>2, <3>3
  <2> QED
    BY <2>1, <2>2
<1>8. \/ Cardinality(t.visited) + Cardinality(t.visited \ ToSet(b)) = n + 1
      \/ b = <<>> /\ t.visited = classes
  <2>1. IsFiniteSet(Plugin)
    BY PluginsAssumption
  <2>2. IsFiniteSet(s.visited) /\ IsFiniteSet(s.visited \ ToSet(a))
    BY <1>1, <2>1, FS_Subset
  <2>3. /\ Cardinality(s.visited \cup {p}) = Cardinality(s.visited) + 1
        /\ Cardinality(s.visited) \in Nat /\ Cardinality(s.visited \ ToSet(a)) \in Nat
    BY <2>2, FS_AddElement, FS_CardinalityType
  <2>4. Cardinality(s.visited) + Cardinality(s.visited \ ToSet(a)) = n
    BY DEF VisitsFit
  <2>5. /\ Cardinality(t.visited) = Cardinality(s.visited) + 1
        /\ Cardinality(t.visited \ ToSet(b)) = Cardinality(s.visited \ ToSet(a))
    BY <1>2, <1>6, <2>3
  <2> QED
    BY <2>3, <2>4, <2>5
<1>9. ToSet(t.result) = (t.visited \ ToSet(b)) \ off /\ LateOnly(classes, off, t.result)
      /\ Different(t.result) /\ ToSet(b) \subseteq t.visited
  BY <1>1, <1>2, <1>4, <1>6 DEF VisitsFit
<1> QED
  BY <1>2, <1>5, <1>7, <1>8, <1>9 DEF VisitsFit

\* A class all of whose dependencies have been visited is left.
LEMMA LeftAgain ==
    ASSUME PluginTypes, NEW classes \in SUBSET Plugin, NEW off, NEW n \in Nat, NEW s, NEW t,
           VisitsFit(classes, off, s, n), s.path # <<>>,
           (depends[Last(s.path)] \cap classes) \subseteq s.visited,
           t = [s EXCEPT !.path = Front(@),
                         !.result = IF Last(s.path) \in off THEN @ ELSE Append(@, Last(s.path))]
    PROVE  VisitsFit(classes, off, t, n + 1)
<1>1. /\ s.path \in Seq(classes) /\ s.visited \subseteq classes /\ s.result \in Seq(classes)
      /\ ToSet(s.path) \subseteq s.visited
  BY DEF VisitsFit
<1> PICK a, b, p : a = s.path /\ b = t.path /\ p = Last(s.path)
  OBVIOUS
<1> PICK c, d : c = s.result /\ d = t.result
  OBVIOUS
<1>2. /\ Len(a) \in Nat /\ Len(a) > 0 /\ DOMAIN a = 1 .. Len(a) /\ p = a[Len(a)]
      /\ \A i \in 1 .. Len(a) : a[i] \in classes /\ a[i] \in ToSet(a)
  <2>1. a \in Seq(classes) /\ a # <<>>
    BY <1>1
  <2>2. Len(a) \in Nat /\ Len(a) > 0 /\ DOMAIN a = 1 .. Len(a) /\ \A i \in 1 .. Len(a) : a[i] \in classes
    BY <2>1
  <2> QED
    BY <2>2 DEF Last, ToSet
<1>3. p \in classes /\ p \in ToSet(a) /\ p \in s.visited
  BY <1>1, <1>2
<1>4. Front(a) \in Seq(classes)
  <2>1. Front(a) = SubSeq(a, 1, Len(a) - 1) /\ a \in Seq(classes)
    BY <1>1 DEF Front
  <2> QED
    BY <1>2, <2>1
<1>5. /\ b = Front(a) /\ d = IF p \in off THEN c ELSE Append(c, p)
      /\ t.visited = s.visited /\ c \in Seq(classes) /\ d \in Seq(classes)
      /\ t \in [path : Seq(classes), visited : SUBSET classes, result : Seq(classes)]
  <2>1. s \in [path : Seq(classes), visited : SUBSET classes, result : Seq(classes)]
    BY DEF VisitsFit
  <2>2. (IF p \in off THEN c ELSE Append(c, p)) \in Seq(classes)
    BY <1>1, <1>3
  <2> QED
    BY <1>4, <2>1, <2>2
<1>6. /\ b \in Seq(classes) /\ Len(b) = Len(a) - 1 /\ DOMAIN b = 1 .. Len(a) - 1
      /\ \A i \in 1 .. Len(a) - 1 : b[i] = a[i]
  <2>1. b = SubSeq(a, 1, Len(a) - 1) /\ a \in Seq(classes)
    BY <1>1, <1>5 DEF Front
  <2> QED
    BY <1>2, <2>1
<1>7. /\ Different(b) /\ ToSet(b) = ToSet(a) \ {p}
  <2>1. \A i, j \in 1 .. Len(a) : a[i] = a[j] => i = j
    BY <1>2 DEF VisitsFit, Different
  <2>2. Different(b)
    <3> SUFFICES ASSUME NEW i \in DOMAIN b, NEW j \in DOMAIN b, b[i] = b[j] PROVE i = j
      BY DEF Different
    <3>1. i \in 1 .. Len(a) /\ j \in 1 .. Len(a) /\ a[i] = a[j]
      BY <1>2, <1>6
    <3> QED
      BY <2>1, <3>1
  <2>3. ASSUME NEW x PROVE x \in ToSet(b) <=> x \in ToSet(a) \ {p}
    <3>1. x \in ToSet(b) <=> \E i \in 1 .. Len(a) - 1 : a[i] = x
      BY <1>6 DEF ToSet
    <3>2. x \in ToSet(a) <=> \E i \in 1 .. Len(a) : a[i] = x
      BY <1>2 DEF ToSet
    <3> QED
      BY <1>2, <2>1, <3>1, <3>2
  <2> QED
    BY <2>2, <2>3
<1>8. t.visited \ ToSet(b) = (s.visited \ ToSet(a)) \cup {p} /\ p \notin s.visited \ ToSet(a)
  BY <1>3, <1>5, <1>7
<1>9. /\ Len(c) \in Nat /\ DOMAIN c = 1 .. Len(c)
      /\ \A i \in 1 .. Len(c) : c[i] \in ToSet(c)
      /\ ToSet(c) = (s.visited \ ToSet(a)) \ off /\ Different(c)
  <2>1. Len(c) \in Nat /\ DOMAIN c = 1 .. Len(c)
    BY <1>5
  <2> QED
    BY <2>1 DEF VisitsFit, ToSet
<1>10. /\ Different(d) /\ ToSet(d) = (t.visited \ ToSet(b)) \ off
       /\ LateOnly(classes, off, d)
  <2>1. CASE p \in off
    <3>1. d = c
      BY <1>5, <2>1
    <3>2. ToSet(d) = (t.visited \ ToSet(b)) \ off
      BY <1>8, <1>9, <2>1, <3>1
    <3> QED
      BY <1>9, <3>1, <3>2 DEF VisitsFit
  <2>2. CASE p \notin off
    <3>1. /\ DOMAIN d = 1 .. Len(c) + 1 /\ d[Len(c) + 1] = p
          /\ \A i \in 1 .. Len(c) : d[i] = c[i]
      BY <1>5, <2>2
    <3>2. ToSet(d) = ToSet(c) \cup {p}
      BY <1>9, <3>1 DEF ToSet
    <3>3. ToSet(d) = (t.visited \ ToSet(b)) \ off /\ p \notin ToSet(c)
      BY <1>3, <1>8, <1>9, <2>2, <3>2
    <3>4. Different(d)
      BY <1>9, <3>1, <3>3 DEF Different
    <3>5. ASSUME NEW i \in DOMAIN d, NEW x \in (depends[d[i]] \cap classes) \ off
          PROVE  (\E h \in DOMAIN d : h < i /\ d[h] = x) \/ Needs(x, d[i])
      <4>1. CASE i \in 1 .. Len(c)
        <5>1. (\E h \in DOMAIN c : h < i /\ c[h] = x) \/ Needs(x, c[i])
          BY <1>9, <3>1, <3>5, <4>1 DEF VisitsFit, LateOnly
        <5> QED
          BY <1>9, <3>1, <4>1, <5>1
      <4>2. CASE i = Len(c) + 1
        <5>1. x \in depends[p] /\ x \in classes /\ x \notin off /\ x \in s.visited
          BY <3>1, <3>5, <4>2
        <5>2. CASE x \in ToSet(a)
          <6>1. PICK k \in 1 .. Len(a) : a[k] = x
            BY <1>2, <5>2 DEF ToSet
          <6>2. Needs(x, p)
            BY <1>2, <6>1 DEF VisitsFit
          <6> QED
            BY <3>1, <4>2, <6>2
        <5>3. CASE x \notin ToSet(a)
          <6>1. PICK h \in 1 .. Len(c) : c[h] = x
            BY <1>9, <5>1, <5>3 DEF ToSet
          <6> QED
            BY <1>9, <3>1, <4>2, <6>1
        <5> QED
          BY <5>2, <5>3
      <4> QED
        BY <1>9, <3>1, <4>1, <4>2
    <3> QED
      BY <3>3, <3>4, <3>5 DEF LateOnly
  <2> QED
    BY <2>1, <2>2
<1>11. Cardinality(t.visited) + Cardinality(t.visited \ ToSet(b)) = n + 1
  <2>1. IsFiniteSet(Plugin)
    BY PluginsAssumption
  <2>2. IsFiniteSet(s.visited) /\ IsFiniteSet(s.visited \ ToSet(a))
    BY <1>1, <2>1, FS_Subset
  <2>3. /\ Cardinality((s.visited \ ToSet(a)) \cup {p}) = Cardinality(s.visited \ ToSet(a)) + 1
        /\ Cardinality(s.visited) \in Nat /\ Cardinality(s.visited \ ToSet(a)) \in Nat
    BY <1>8, <2>2, FS_AddElement, FS_CardinalityType
  <2>4. Cardinality(s.visited) + Cardinality(s.visited \ ToSet(a)) = n
    BY DEF VisitsFit
  <2>5. /\ Cardinality(t.visited) = Cardinality(s.visited)
        /\ Cardinality(t.visited \ ToSet(b)) = Cardinality(s.visited \ ToSet(a)) + 1
    BY <1>5, <1>8, <2>3
  <2> QED
    BY <2>3, <2>4, <2>5
<1>12. ASSUME NEW i \in DOMAIN b, NEW j \in DOMAIN b, i <= j PROVE Needs(b[i], b[j])
  <2>1. i \in DOMAIN a /\ j \in DOMAIN a /\ b[i] = a[i] /\ b[j] = a[j]
    BY <1>2, <1>6
  <2>2. Needs(a[i], a[j])
    BY <1>12, <2>1 DEF VisitsFit
  <2> QED
    BY <2>1, <2>2
<1> QED
  BY <1>1, <1>5, <1>7, <1>8, <1>10, <1>11, <1>12 DEF VisitsFit

\* The visits go on from one another.
LEMMA VisitsFollow ==
    ASSUME NEW order, NEW off, Len(order) \in Nat
    PROVE  Visits(order, off) = [n \in 0 .. 2 * Len(order) |->
               IF n = 0 THEN [path |-> <<>>, visited |-> {}, result |-> <<>>]
               ELSE Visit(order, off, Visits(order, off)[n - 1])]
<1> DEFINE first == [path |-> <<>>, visited |-> {}, result |-> <<>>]
           Made(k) == \E f : f = [n \in 0 .. k |->
                                    IF n = 0 THEN first ELSE Visit(order, off, f[n - 1])]
           S == {k \in 0 .. 2 * Len(order) : ~Made(k)}
<1>1. S = {}
  <2> SUFFICES ASSUME S # {} PROVE FALSE
    OBVIOUS
  <2> S \in SUBSET Nat
    OBVIOUS
  <2>1. PICK k \in S : \A j \in S : k <= j
    BY Least
  <2>2. k \in 0 .. 2 * Len(order) /\ ~Made(k) /\ k \in Nat
    OBVIOUS
  <2> HIDE DEF first
  <2>3. k # 0
    <3>1. CASE k = 0
      <4> DEFINE f == [n \in 0 .. k |-> first]
      <4>1. 0 .. k = {0}
        BY <3>1
      <4>2. f = [n \in 0 .. k |-> IF n = 0 THEN first ELSE Visit(order, off, f[n - 1])]
        BY <4>1
      <4> HIDE DEF f
      <4> QED
        BY <2>2, <4>2
    <3> QED
      BY <3>1
  <2> HIDE DEF S
  <2>4. k - 1 \in 0 .. 2 * Len(order) /\ k - 1 \in Nat /\ ~(k <= k - 1)
    BY <2>2, <2>3
  <2>5. Made(k - 1)
    BY <2>1, <2>4 DEF S
  <2>6. PICK f : f = [n \in 0 .. (k - 1) |-> IF n = 0 THEN first ELSE Visit(order, off, f[n - 1])]
    BY <2>5
  <2> DEFINE g == [n \in 0 .. k |-> IF n = 0 THEN first ELSE Visit(order, off, f[n - 1])]
  <2>7. ASSUME NEW n \in 0 .. k, n # 0 PROVE f[n - 1] = g[n - 1]
    <3>1. n - 1 \in 0 .. (k - 1) /\ n - 1 \in 0 .. k
      BY <2>2, <2>7
    <3> QED
      BY <2>6, <3>1
  <2>8. g = [n \in 0 .. k |-> IF n = 0 THEN first ELSE Visit(order, off, g[n - 1])]
    BY <2>7
  <2> HIDE DEF g
  <2> QED
    BY <2>2, <2>8
<1>2. 2 * Len(order) \in 0 .. 2 * Len(order)
  OBVIOUS
<1>3. Made(2 * Len(order))
  BY <1>1, <1>2
<1>4. PICK f : f = [n \in 0 .. 2 * Len(order) |->
                      IF n = 0 THEN first ELSE Visit(order, off, f[n - 1])]
  BY <1>3
<1> QED
  BY <1>4 DEF Visits

\* Every visit enters a class, leaves one, or finds that all is done.
LEMMA VisitKeeps ==
    ASSUME PluginTypes, NEW order \in Seq(Plugin), NEW off, NEW n \in Nat, NEW s,
           VisitsFit(ToSet(order), off, s, n)
    PROVE  VisitsFit(ToSet(order), off, Visit(order, off, s), n + 1)
<1> PICK t : t = Visit(order, off, s)
  OBVIOUS
<1> PICK classes : classes = ToSet(order)
  OBVIOUS
<1>1. classes \in SUBSET Plugin /\ DOMAIN order \in SUBSET Nat
  BY LenProperties, ElementOfSeq DEF ToSet
<1>2. s.path \in Seq(classes) /\ s.visited \subseteq classes
  BY DEF VisitsFit
<1>3. CASE Due(order, s) # {}
  <2> DEFINE list == IF s.path = <<>> THEN order ELSE Listed[Last(s.path)]
             p == FirstOf(list, Due(order, s))
             places == {i \in DOMAIN list : list[i] \in Due(order, s)}
  <2>1. Due(order, s) \subseteq classes \ s.visited
    BY DEF Due
  <2>2. list \in Seq(Plugin) /\ classes \subseteq ToSet(list)
    <3>1. CASE s.path = <<>>
      BY <3>1
    <3>2. CASE s.path # <<>>
      <4>1. Last(s.path) \in Plugin
        <5>1. Len(s.path) \in DOMAIN s.path /\ \A i \in DOMAIN s.path : s.path[i] \in classes
          BY <1>2, <3>2, LenProperties, ElementOfSeq
        <5> QED
          BY <1>1, <5>1 DEF Last
      <4>2. Listed[Last(s.path)] \in Seq(Plugin) /\ ToSet(Listed[Last(s.path)]) = Plugin
        BY <4>1, PluginsAssumption
      <4> QED
        BY <1>1, <3>2, <4>2
    <3> QED
      BY <3>1, <3>2
  <2>3. t = [s EXCEPT !.path = Append(@, p), !.visited = @ \cup {p}]
    BY <1>3 DEF Visit
  <2>4. p = list[Min(places)]
    BY DEF FirstOf
  <2> HIDE DEF list, p
  <2>5. DOMAIN list \in SUBSET Nat
    BY <2>2, LenProperties
  <2>6. places # {} /\ places \in SUBSET Nat
    BY <1>3, <2>1, <2>2, <2>5 DEF ToSet
  <2>7. Min(places) \in places
    BY <2>6, MinOf
  <2>8. p \in Due(order, s)
    BY <2>4, <2>7
  <2>9. s.path # <<>> => p \in depends[Last(s.path)]
    BY <2>8 DEF Due
  <2>10. p \in classes \ s.visited
    BY <2>1, <2>8
  <2> QED
    BY <1>1, <2>3, <2>9, <2>10, Entered
<1>4. CASE Due(order, s) = {} /\ s.path # <<>>
  <2>1. t = [s EXCEPT !.path = Front(@),
                      !.result = IF Last(s.path) \in off THEN @ ELSE Append(@, Last(s.path))]
    BY <1>4 DEF Visit
  <2>2. (depends[Last(s.path)] \cap classes) \subseteq s.visited
    BY <1>4 DEF Due
  <2> QED
    BY <1>1, <1>4, <2>1, <2>2, LeftAgain
<1>5. CASE Due(order, s) = {} /\ s.path = <<>>
  <2>1. t = s
    BY <1>5 DEF Visit
  <2>2. s.visited = classes
    BY <1>2, <1>5 DEF Due
  <2> QED
    BY <1>5, <2>1, <2>2 DEF VisitsFit
<1> QED
  BY <1>3, <1>4, <1>5

LEMMA VisitsKeep ==
    ASSUME PluginTypes, NEW order \in Seq(Plugin), NEW off
    PROVE  \A n \in 0 .. 2 * Len(order) : VisitsFit(ToSet(order), off, Visits(order, off)[n], n)
<1> PICK v : v = Visits(order, off)
  OBVIOUS
<1> PICK classes : classes = ToSet(order)
  OBVIOUS
<1> DEFINE S == {n \in 0 .. 2 * Len(order) : ~VisitsFit(classes, off, v[n], n)}
<1>1. Len(order) \in Nat
  BY LenProperties
<1>2. v = [n \in 0 .. 2 * Len(order) |->
               IF n = 0 THEN [path |-> <<>>, visited |-> {}, result |-> <<>>]
               ELSE Visit(order, off, v[n - 1])]
  BY <1>1, VisitsFollow
<1>3. S = {}
  <2> SUFFICES ASSUME S # {} PROVE FALSE
    OBVIOUS
  <2> S \in SUBSET Nat
    BY <1>1
  <2>1. PICK n \in S : \A j \in S : n <= j
    BY Least
  <2>2. n \in 0 .. 2 * Len(order) /\ ~VisitsFit(classes, off, v[n], n) /\ n \in Nat
    BY <1>1
  <2> HIDE DEF S
  <2>3. CASE n = 0
    <3>1. v[n] = [path |-> <<>>, visited |-> {}, result |-> <<>>]
      BY <1>1, <1>2, <2>3
    <3>2. <<>> \in Seq(classes) /\ ToSet(<<>>) = {} /\ DOMAIN <<>> = {}
      BY EmptySeq DEF ToSet
    <3>3. Cardinality({}) = 0
      BY FS_EmptySet
    <3>4. v[n].path = <<>> /\ v[n].visited = {} /\ v[n].result = <<>>
          /\ v[n] \in [path : Seq(classes), visited : SUBSET classes, result : Seq(classes)]
      BY <3>1, <3>2
    <3>5. Cardinality({}) + Cardinality({} \ {}) = n
      BY <2>3, <3>3
    <3> QED
      BY <2>2, <3>2, <3>4, <3>5 DEF VisitsFit, Different, LateOnly
  <2>4. CASE n # 0
    <3>1. n - 1 \in 0 .. 2 * Len(order) /\ n - 1 \in Nat /\ ~(n <= n - 1) /\ (n - 1) + 1 = n
      BY <1>1, <2>2, <2>4
    <3>2. VisitsFit(classes, off, v[n - 1], n - 1)
      BY <2>1, <3>1 DEF S
    <3>3. v[n] = Visit(order, off, v[n - 1])
      BY <1>2, <2>2, <2>4
    <3>4. VisitsFit(classes, off, Visit(order, off, v[n - 1]), (n - 1) + 1)
      BY <3>1, <3>2, VisitKeeps
    <3> QED
      BY <2>2, <3>1, <3>3, <3>4
  <2> QED
    BY <2>3, <2>4
<1> QED
  BY <1>3

\* load_all comes once to every class that is not switched off, and to one before a
\* dependency of it only where the two depend on each other.
LEMMA ClassesSorted ==
    ASSUME PluginTypes, NEW order \in Discoverable, NEW off
    PROVE  /\ ClassesToLoad(order, off) \in Seq(Plugin)
           /\ Different(ClassesToLoad(order, off))
           /\ ToSet(ClassesToLoad(order, off)) = ToSet(order) \ off
           /\ LateOnly(ToSet(order), off, ClassesToLoad(order, off))
           /\ ToSet(order) \subseteq Plugin
<1>1. PICK found \in SUBSET Plugin : order \in SetToSeqs(found)
  BY DEF Discoverable
<1>2. IsFiniteSet(found) /\ Cardinality(found) \in Nat
  BY PluginsAssumption, FS_Subset, FS_CardinalityType
<1>3. order \in [1 .. Cardinality(found) -> found]
  BY <1>1 DEF SetToSeqs
<1>4. order \in Seq(Plugin) /\ Len(order) = Cardinality(found) /\ ToSet(order) \subseteq found
  <2>1. order \in Seq(found)
    BY <1>2, <1>3
  <2>2. order \in Seq(Plugin) /\ Len(order) = Cardinality(found)
    BY <1>2, <1>3, <2>1
  <2> QED
    BY <1>3, <2>2 DEF ToSet
<1> DEFINE n == 2 * Len(order)
<1> PICK classes : classes = ToSet(order)
  OBVIOUS
<1> PICK s : s = Visits(order, off)[n]
  OBVIOUS
<1>5. VisitsFit(classes, off, s, n) /\ n \in Nat
  <2>1. n \in 0 .. 2 * Len(order) /\ n \in Nat
    BY <1>2, <1>4
  <2> QED
    BY <1>4, <2>1, VisitsKeep
<1>6. /\ s.path \in Seq(classes) /\ s.visited \subseteq classes /\ s.result \in Seq(classes)
      /\ ToSet(s.path) \subseteq s.visited
  BY <1>5 DEF VisitsFit
<1>7. s.path = <<>> /\ s.visited = classes
  <2>1. CASE Cardinality(s.visited) + Cardinality(s.visited \ ToSet(s.path)) = n
    <3> DEFINE left == s.visited \ ToSet(s.path)
    <3>1. /\ Cardinality(s.visited) \in Nat /\ Cardinality(left) \in Nat
          /\ Cardinality(left) <= Cardinality(s.visited)
          /\ Cardinality(s.visited) <= Cardinality(found)
          /\ Cardinality(left) = Cardinality(s.visited) => left = s.visited
          /\ Cardinality(s.visited) = Cardinality(found) => s.visited = found
      <4>1. s.visited \in SUBSET found /\ left \in SUBSET s.visited
        BY <1>4, <1>6
      <4>2. IsFiniteSet(s.visited) /\ IsFiniteSet(left)
        BY <1>2, <4>1, FS_Subset
      <4> HIDE DEF left
      <4> QED
        BY <1>2, <4>1, <4>2, FS_Subset, FS_CardinalityType
    <3>2. n = Cardinality(found) + Cardinality(found)
      BY <1>2, <1>4
    <3>3. left = s.visited /\ s.visited = found
      <4> HIDE DEF left, n
      <4>1. Cardinality(s.visited) + Cardinality(left) = n
        BY <2>1 DEF left
      <4> QED
        BY <1>2, <3>1, <3>2, <4>1
    <3>4. ToSet(s.path) = {}
      BY <1>6, <3>3
    <3>5. s.path = <<>>
      <4>1. CASE s.path # <<>>
        <5>1. 1 \in DOMAIN s.path
          BY <1>6, <4>1
        <5> QED
          BY <3>4, <5>1 DEF ToSet
      <4> QED
        BY <4>1
    <3> QED
      BY <1>4, <1>6, <3>3, <3>5
  <2> QED
    BY <1>5, <2>1 DEF VisitsFit
<1>8. ClassesToLoad(order, off) = s.result
  BY DEF ClassesToLoad
<1>9. ToSet(<<>>) = {}
  BY DEF ToSet
<1>10. s.result \in Seq(Plugin) /\ classes \subseteq Plugin
  <2>1. classes \subseteq Plugin
    BY <1>4
  <2>2. s.result \in Seq(classes)
    BY <1>6
  <2>3. /\ Len(s.result) \in Nat /\ s.result \in [1 .. Len(s.result) -> classes]
    BY <2>2
  <2>4. s.result \in [1 .. Len(s.result) -> Plugin]
    BY <2>1, <2>3
  <2> QED
    BY <2>1, <2>3, <2>4
<1> QED
  BY <1>5, <1>7, <1>8, <1>9, <1>10 DEF VisitsFit

\* What a task has still to come to, and what it awaits.
ToCome(t) == ToSet(t.todo) \cup {t.inside}

WorkInOrder(t) ==
    t.wanted # {} =>
        /\ t.doing = "load" /\ t.wanted \subseteq Plugin
        /\ t.todo \in Seq(Plugin) /\ Different(t.todo) /\ t.inside \notin ToSet(t.todo)
        /\ \A i, j \in DOMAIN t.todo :
              i < j /\ t.todo[j] \in depends[t.todo[i]] => Needs(t.todo[j], t.todo[i])

\* What is wanted is loaded, still to come, or lacks a dependency that will stay away.
Served(t, L) ==
    \A p \in t.wanted :
        \/ p \in L \cup ToCome(t)
        \/ \E d \in depends[p] \ L : d \in ToCome(t) => Needs(d, p)

ServedInv ==
    /\ PluginsInv
    /\ \A m \in Manager : WorkInOrder(manager[m]) /\ Served(manager[m], Loaded)
    /\ \A m, n \in Manager :
          m # n /\ manager[n].inside # Nothing => manager[m].wanted \subseteq ToSet(manager[m].todo)

\* A step of one task, after which it is not inside the lock.  What is loaded changes
\* only when it was inside; what others want is then still to come.
LEMMA OneTaskGoes ==
    ASSUME ServedInv, PluginsInv', NEW m \in Manager, NEW t,
           manager' = [manager EXCEPT ![m] = t], depends' = depends, t.inside = Nothing,
           Loaded' = Loaded \/ manager[m].inside # Nothing,
           WorkInOrder(t), Served(t, Loaded'),
           \A n \in Manager \ {m} : manager[n].inside # Nothing => t.wanted \subseteq ToSet(t.todo)
    PROVE  ServedInv'
<1>1. \A n \in Manager : manager'[n] = IF n = m THEN t ELSE manager[n]
  BY DEF ServedInv, PluginsInv, PluginTypes, TasksTyped
<1>2. ASSUME NEW n \in Manager PROVE WorkInOrder(manager[n])' /\ Served(manager[n], Loaded)'
  <2>1. CASE n = m
    <3>1. manager'[n] = t
      BY <1>1, <2>1
    <3> QED
      BY <3>1 DEF WorkInOrder, Served, Needs, ToCome
  <2>2. CASE n # m
    <3>1. manager'[n] = manager[n] /\ WorkInOrder(manager[n]) /\ Served(manager[n], Loaded)
      BY <1>1, <2>2 DEF ServedInv
    <3>2. Served(manager[n], Loaded')
      <4>1. CASE Loaded' = Loaded
        BY <3>1, <4>1
      <4>2. CASE manager[m].inside # Nothing
        BY <2>2, <4>2 DEF ServedInv, Served, ToCome
      <4> QED
        BY <4>1, <4>2
    <3> QED
      BY <3>1, <3>2 DEF WorkInOrder, Served, Needs, ToCome
  <2> QED
    BY <2>1, <2>2
<1>3. ASSUME NEW k \in Manager, NEW n \in Manager, k # n, manager'[n].inside # Nothing
      PROVE  manager'[k].wanted \subseteq ToSet(manager'[k].todo)
  <2>1. n # m /\ manager[n].inside # Nothing
    BY <1>1, <1>3
  <2> QED
    BY <1>1, <1>3, <2>1 DEF ServedInv
<1> QED
  BY <1>2, <1>3 DEF ServedInv

\* Nobody wants what nothing is.
LEMMA NothingWanted ==
    ASSUME NEW t, t.wanted = {} PROVE WorkInOrder(t) /\ \A L : Served(t, L)
BY DEF WorkInOrder, Served

LEMMA LoadAllServes == ASSUME ServedInv, NEW m \in Manager, LoadAll(m) PROVE ServedInv'
<1>1. PICK order \in Discoverable, off \in SUBSET Plugin :
        manager' = [manager EXCEPT ![m] =
            [doing |-> "load", inside |-> Nothing, wanted |-> ToSet(order) \ off,
             todo |-> ClassesToLoad(order, off)]]
  BY DEF LoadAll
<1> DEFINE t == [doing |-> "load", inside |-> Nothing, wanted |-> ToSet(order) \ off,
                 todo |-> ClassesToLoad(order, off)]
<1> PICK list : list = ClassesToLoad(order, off)
  OBVIOUS
<1>2. /\ t.doing = "load" /\ t.inside = Nothing /\ t.wanted = ToSet(order) \ off /\ t.todo = list
      /\ manager' = [manager EXCEPT ![m] = t]
  BY <1>1
<1>3. PluginsInv /\ PluginTypes /\ PluginsInv' /\ UNCHANGED <<depends, loaded>>
  BY LoadAllPlugins DEF LoadAll, ServedInv, PluginsInv
<1>4. /\ list \in Seq(Plugin) /\ Different(list) /\ ToSet(list) = ToSet(order) \ off
      /\ LateOnly(ToSet(order), off, list) /\ ToSet(order) \subseteq Plugin
  BY <1>3, ClassesSorted
<1> HIDE DEF t
<1>5. DOMAIN list \subseteq Nat /\ \A i \in DOMAIN list : list[i] \in ToSet(list)
  BY <1>4, LenProperties DEF ToSet
<1>6. ASSUME NEW i \in DOMAIN list, NEW j \in DOMAIN list, i < j, list[j] \in depends[list[i]]
      PROVE  Needs(list[j], list[i])
  <2>1. list[j] \in (depends[list[i]] \cap ToSet(order)) \ off
    BY <1>4, <1>5, <1>6
  <2>2. ~ \E h \in DOMAIN list : h < i /\ list[h] = list[j]
    BY <1>4, <1>5, <1>6 DEF Different
  <2> QED
    BY <1>4, <2>1, <2>2 DEF LateOnly
<1>7. WorkInOrder(t)
  BY <1>2, <1>4, <1>5, <1>6, PluginsAssumption DEF WorkInOrder
<1>8. Served(t, Loaded') /\ t.wanted \subseteq ToSet(t.todo)
  BY <1>2, <1>4 DEF Served, ToCome
<1>9. Loaded' = Loaded
  BY <1>3 DEF Loaded
<1> QED
  BY <1>2, <1>3, <1>7, <1>8, <1>9, OneTaskGoes

LEMMA LoadOrUnloadServes ==
    ASSUME ServedInv, NEW m \in Manager, LoadOrUnload(m) PROVE ServedInv'
<1>1. PICK p \in Plugin, doing \in {"load", "unload"} :
        manager' = [manager EXCEPT ![m] =
            [doing |-> doing, inside |-> Nothing, wanted |-> {}, todo |-> <<p>>]]
  BY DEF LoadOrUnload
<1> DEFINE t == [doing |-> doing, inside |-> Nothing, wanted |-> {}, todo |-> <<p>>]
<1>2. t.inside = Nothing /\ t.wanted = {} /\ manager' = [manager EXCEPT ![m] = t]
  BY <1>1
<1>3. PluginsInv' /\ depends' = depends /\ Loaded' = Loaded
  BY LoadOrUnloadPlugins DEF LoadOrUnload, ServedInv, Loaded
<1> HIDE DEF t
<1> QED
  BY <1>2, <1>3, NothingWanted, OneTaskGoes

LEMMA UnloadAllServes == ASSUME ServedInv, NEW m \in Manager, UnloadAll(m) PROVE ServedInv'
<1> DEFINE t == [doing |-> "unload", inside |-> Nothing, wanted |-> {}, todo |-> Reverse(loaded)]
<1>1. t.inside = Nothing /\ t.wanted = {} /\ manager' = [manager EXCEPT ![m] = t]
  BY DEF UnloadAll
<1>2. PluginsInv' /\ depends' = depends /\ Loaded' = Loaded
  BY UnloadAllPlugins DEF UnloadAll, ServedInv, Loaded
<1> HIDE DEF t
<1> QED
  BY <1>1, <1>2, NothingWanted, OneTaskGoes

\* Whoever goes on to the next plugin has the rest of the work still in order.
LEMMA RestInOrder ==
    ASSUME NEW todo \in Seq(Plugin), todo # <<>>, Different(todo)
    PROVE  /\ Tail(todo) \in Seq(Plugin) /\ Different(Tail(todo))
           /\ ToSet(Tail(todo)) = ToSet(todo) \ {Head(todo)}
           /\ \A j \in DOMAIN Tail(todo) : j + 1 \in DOMAIN todo /\ todo[j + 1] = Tail(todo)[j]
           /\ 1 \in DOMAIN todo /\ Head(todo) = todo[1] /\ \A j \in DOMAIN Tail(todo) : j \in Nat /\ j > 0
<1> PICK rest : rest = Tail(todo)
  OBVIOUS
<1>1. /\ rest \in Seq(Plugin) /\ Len(todo) \in Nat /\ Len(todo) > 0 /\ DOMAIN todo = 1 .. Len(todo)
      /\ DOMAIN rest = 1 .. Len(todo) - 1 /\ Head(todo) = todo[1]
      /\ \A j \in 1 .. Len(todo) - 1 : rest[j] = todo[j + 1]
  OBVIOUS
<1>2. Different(rest)
  BY <1>1 DEF Different
<1>3. ASSUME NEW x PROVE x \in ToSet(rest) <=> x \in ToSet(todo) \ {todo[1]}
  <2>1. x \in ToSet(todo) <=> \E i \in 1 .. Len(todo) : todo[i] = x
    BY <1>1 DEF ToSet
  <2>2. x \in ToSet(rest) <=> \E j \in 1 .. Len(todo) - 1 : todo[j + 1] = x
    BY <1>1 DEF ToSet
  <2>3. \A i \in 1 .. Len(todo) : todo[i] = todo[1] => i = 1
    BY <1>1 DEF Different
  <2>4. ASSUME NEW i \in 1 .. Len(todo), i # 1 PROVE i - 1 \in 1 .. Len(todo) - 1 /\ (i - 1) + 1 = i
    BY <1>1, <2>4
  <2>5. ASSUME NEW j \in 1 .. Len(todo) - 1 PROVE j + 1 \in 1 .. Len(todo) /\ j + 1 # 1
    BY <1>1, <2>5
  <2> QED
    BY <2>1, <2>2, <2>3, <2>4, <2>5
<1> QED
  BY <1>1, <1>2, <1>3

\* A task that wants something goes on to the next plugin.
LEMMA GoesOn ==
    ASSUME NEW s, NEW t, WorkInOrder(s), s.wanted # {}, s.todo # <<>>,
           s.inside = Nothing, t.doing = s.doing, t.todo = Tail(s.todo), t.wanted = s.wanted,
           t.inside \in {Nothing, Head(s.todo)}
    PROVE  WorkInOrder(t)
<1>1. s.todo \in Seq(Plugin) /\ Different(s.todo)
  BY DEF WorkInOrder
<1>2. /\ t.todo \in Seq(Plugin) /\ Different(t.todo)
      /\ ToSet(t.todo) = ToSet(s.todo) \ {Head(s.todo)}
      /\ \A j \in DOMAIN t.todo : j + 1 \in DOMAIN s.todo /\ s.todo[j + 1] = t.todo[j] /\ j \in Nat
  BY <1>1, RestInOrder
<1>3. ASSUME NEW i \in DOMAIN t.todo, NEW j \in DOMAIN t.todo, i < j,
             t.todo[j] \in depends[t.todo[i]]
      PROVE  Needs(t.todo[j], t.todo[i])
  <2>1. /\ i + 1 \in DOMAIN s.todo /\ j + 1 \in DOMAIN s.todo /\ i + 1 < j + 1
        /\ s.todo[i + 1] = t.todo[i] /\ s.todo[j + 1] = t.todo[j]
    BY <1>2, <1>3
  <2>2. Needs(s.todo[j + 1], s.todo[i + 1])
    BY <1>3, <2>1 DEF WorkInOrder
  <2> QED
    BY <2>1, <2>2
<1>4. t.inside \notin ToSet(t.todo)
  BY <1>2 DEF WorkInOrder
<1> QED
  BY <1>2, <1>3, <1>4 DEF WorkInOrder

LEMMA RejectedServes == ASSUME ServedInv, NEW m \in Manager, Rejected(m) PROVE ServedInv'
<1> DEFINE t == [manager[m] EXCEPT !.todo = Tail(@)]
<1> PICK s : s = manager[m]
  OBVIOUS
<1>1. TaskFields(s) /\ s.inside = Nothing /\ LockFree
  BY DEF ServedInv, PluginsInv, PluginTypes, TasksTyped, Rejected, LockFree
<1>2. /\ t.inside = Nothing /\ t.wanted = s.wanted /\ t.doing = s.doing /\ t.todo = Tail(s.todo)
  BY <1>1 DEF TaskFields
<1>3. manager' = [manager EXCEPT ![m] = t] /\ depends' = depends /\ Loaded' = Loaded /\ PluginsInv'
  BY RejectedPlugins DEF Rejected, Loaded, ServedInv
<1> HIDE DEF t
<1>4. WorkInOrder(s) /\ Served(s, Loaded)
  BY DEF ServedInv
<1>5. CASE s.wanted = {}
  BY <1>1, <1>2, <1>3, <1>5, NothingWanted, OneTaskGoes
<1>6. CASE s.wanted # {}
  <2>1. /\ s.doing = "load" /\ s.todo \in Seq(Plugin) /\ Different(s.todo)
        /\ s.wanted \subseteq Plugin
    BY <1>4, <1>6 DEF WorkInOrder
  <2>2. PICK p \in Plugin : s.todo # <<>> /\ Head(s.todo) = p /\ ~MayLoad(p)
    BY <2>1 DEF Rejected, NextIs
  <2>3. WorkInOrder(t)
    BY <1>1, <1>2, <1>4, <1>6, <2>2, GoesOn
  <2>4. /\ ToSet(t.todo) = ToSet(s.todo) \ {p}
        /\ \A j \in DOMAIN t.todo :
              j + 1 \in DOMAIN s.todo /\ s.todo[j + 1] = t.todo[j] /\ 1 < j + 1
        /\ 1 \in DOMAIN s.todo /\ s.todo[1] = p
    BY <1>2, <2>1, <2>2, RestInOrder
  <2>5. ASSUME NEW q \in t.wanted
        PROVE  \/ q \in Loaded \cup ToCome(t)
               \/ \E d \in depends[q] \ Loaded : d \in ToCome(t) => Needs(d, q)
    <3>1. q \in Plugin /\ q # Nothing
      BY <1>2, <2>1, PluginsAssumption
    <3>2. \/ q \in Loaded \cup ToCome(s)
          \/ \E d \in depends[q] \ Loaded : d \in ToCome(s) => Needs(d, q)
      BY <1>2, <1>4 DEF Served
    <3>3. ToCome(t) \subseteq ToCome(s) /\ ToCome(s) \subseteq ToCome(t) \cup {p}
      BY <1>1, <1>2, <2>4 DEF ToCome
    <3>4. CASE q # p
      BY <3>2, <3>3, <3>4
    <3>5. CASE q = p /\ q \notin Loaded
      <4>1. PICK d \in depends[p] : d \notin Loaded
        BY <2>2, <3>5 DEF MayLoad
      <4>2. CASE d \in ToCome(t)
        <5>1. d \in ToSet(t.todo)
          <6>1. d \in Plugin
            BY <4>1 DEF ServedInv, PluginsInv, PluginTypes
          <6> QED
            BY <1>2, <4>2, <6>1, PluginsAssumption DEF ToCome
        <5>2. PICK j \in DOMAIN t.todo : t.todo[j] = d
          BY <5>1 DEF ToSet
        <5>3. /\ 1 \in DOMAIN s.todo /\ j + 1 \in DOMAIN s.todo /\ 1 < j + 1
              /\ s.todo[j + 1] = d /\ s.todo[1] = p
          BY <2>4, <5>2
        <5>4. Needs(s.todo[j + 1], s.todo[1])
          BY <1>4, <1>6, <4>1, <5>3 DEF WorkInOrder
        <5> QED
          BY <3>5, <4>1, <5>3, <5>4
      <4> QED
        BY <3>5, <4>1, <4>2
    <3> QED
      BY <3>4, <3>5
  <2>6. Served(t, Loaded')
    BY <1>3, <2>5 DEF Served
  <2> QED
    BY <1>1, <1>2, <1>3, <2>3, <2>6, OneTaskGoes DEF LockFree
<1> QED
  BY <1>5, <1>6

\* Once a task takes the lock the others want nothing any more.
LEMMA TakerServes ==
    ASSUME ServedInv, PluginsInv', NEW m \in Manager, NEW p \in Plugin, LockFree, NextIs(m, p),
           TakesLock(m, p), UNCHANGED <<depends, loaded>>
    PROVE  ServedInv'
<1> PICK s, t : s = manager[m] /\ t = manager'[m]
  OBVIOUS
<1>1. TaskFields(s) /\ s.inside = Nothing /\ WorkInOrder(s) /\ Served(s, Loaded)
  BY DEF ServedInv, PluginsInv, PluginTypes, TasksTyped, LockFree
<1>2. /\ t.inside = p /\ t.todo = Tail(s.todo) /\ t.wanted = s.wanted /\ t.doing = s.doing
  <2>1. t = [s EXCEPT !.inside = p, !.todo = Tail(@)]
    BY DEF TakesLock
  <2> QED
    BY <1>1, <2>1 DEF TaskFields
<1>3. \A n \in Manager \ {m} : manager'[n].wanted = {} /\ manager'[n].inside = Nothing
  <2> SUFFICES ASSUME NEW n \in Manager \ {m}
               PROVE  manager'[n].wanted = {} /\ manager'[n].inside = Nothing
    OBVIOUS
  <2>1. manager'[n] = [manager[n] EXCEPT !.wanted = {}]
    BY DEF TakesLock
  <2>2. TaskFields(manager[n]) /\ manager[n].inside = Nothing
    BY DEF ServedInv, PluginsInv, PluginTypes, TasksTyped, LockFree
  <2> QED
    BY <2>1, <2>2 DEF TaskFields
<1>4. s.todo # <<>> /\ Head(s.todo) = p /\ Loaded' = Loaded
  BY DEF NextIs, Loaded
<1>5. WorkInOrder(t) /\ Served(t, Loaded)
  <2>1. CASE s.wanted = {}
    BY <1>2, <2>1, NothingWanted
  <2>2. CASE s.wanted # {}
    <3>1. s.todo \in Seq(Plugin) /\ Different(s.todo) /\ s.wanted \subseteq Plugin
      BY <1>1, <2>2 DEF WorkInOrder
    <3>2. ToSet(t.todo) = ToSet(s.todo) \ {p} /\ p \in ToSet(s.todo)
      <4>1. /\ ToSet(t.todo) = ToSet(s.todo) \ {p}
            /\ 1 \in DOMAIN s.todo /\ s.todo[1] = p
        BY <1>2, <1>4, <3>1, RestInOrder
      <4> QED
        BY <4>1 DEF ToSet
    <3>3. ToCome(t) \subseteq ToCome(s) /\ ToCome(s) \subseteq ToCome(t) \cup {Nothing}
      BY <1>1, <1>2, <3>2 DEF ToCome
    <3>4. Served(t, Loaded)
      BY <1>1, <1>2, <3>1, <3>3, PluginsAssumption DEF Served
    <3> QED
      BY <1>1, <1>2, <1>4, <2>2, <3>4, GoesOn
  <2> QED
    BY <2>1, <2>2
<1>6. ASSUME NEW n \in Manager PROVE WorkInOrder(manager[n])' /\ Served(manager[n], Loaded)'
  <2>1. CASE n = m
    <3>1. manager'[n] = t
      BY <2>1
    <3> QED
      BY <1>4, <1>5, <3>1 DEF WorkInOrder, Served, Needs, ToCome
  <2>2. CASE n # m
    BY <1>3, <2>2 DEF WorkInOrder, Served
  <2> QED
    BY <2>1, <2>2
<1>7. \A k, n \in Manager :
        k # n /\ manager'[n].inside # Nothing => manager'[k].wanted \subseteq ToSet(manager'[k].todo)
  BY <1>3
<1> QED
  BY <1>6, <1>7 DEF ServedInv

LEMMA BeginServes ==
    ASSUME ServedInv, NEW m \in Manager, BeginLoad(m) \/ BeginUnload(m) PROVE ServedInv'
<1>1. PluginsInv'
  BY BeginLoadPlugins, BeginUnloadPlugins DEF ServedInv
<1>2. PICK p \in Plugin : NextIs(m, p) /\ TakesLock(m, p)
  BY DEF BeginLoad, BeginUnload
<1>3. LockFree /\ UNCHANGED <<depends, loaded>>
  BY DEF BeginLoad, BeginUnload
<1> QED
  BY <1>1, <1>2, <1>3, TakerServes

\* What a task that leaves the lock is, and that nobody else was inside.
LEMMA Leaver ==
    ASSUME ServedInv, NEW m \in Manager, NEW failed, LeavesLock(m, failed),
           manager[m].inside # Nothing
    PROVE  \E t : /\ manager' = [manager EXCEPT ![m] = t] /\ t.inside = Nothing
                  /\ t.doing = manager[m].doing /\ t.todo = manager[m].todo
                  /\ t.wanted = manager[m].wanted \ failed
                  /\ \A n \in Manager \ {m} : manager[n].inside = Nothing
<1> DEFINE t == [manager[m] EXCEPT !.inside = Nothing, !.wanted = @ \ failed]
<1>1. TaskFields(manager[m])
  BY DEF ServedInv, PluginsInv, PluginTypes, TasksTyped
<1>2. manager' = [manager EXCEPT ![m] = t]
  BY DEF LeavesLock
<1>3. /\ t.doing = manager[m].doing /\ t.inside = Nothing /\ t.todo = manager[m].todo
      /\ t.wanted = manager[m].wanted \ failed
  BY <1>1 DEF TaskFields
<1> HIDE DEF t
<1>4. \A n \in Manager \ {m} : manager[n].inside = Nothing
  BY DEF ServedInv, PluginsInv, InsideLock
<1> QED
  BY <1>2, <1>3, <1>4

\* The work that is left is in order, as it was.
LEMMA LeftInOrder ==
    ASSUME NEW s, NEW t, WorkInOrder(s), t.doing = s.doing, t.todo = s.todo, t.wanted \subseteq s.wanted,
           t.inside = Nothing
    PROVE  WorkInOrder(t)
<1>1. CASE t.wanted = {}
  BY <1>1, NothingWanted
<1>2. CASE t.wanted # {}
  <2>1. /\ s.wanted # {} /\ s.doing = "load" /\ s.wanted \subseteq Plugin
        /\ s.todo \in Seq(Plugin) /\ Different(s.todo)
        /\ \A i, j \in DOMAIN s.todo :
              i < j /\ s.todo[j] \in depends[s.todo[i]] => Needs(s.todo[j], s.todo[i])
    BY <1>2 DEF WorkInOrder
  <2>2. Nothing \notin ToSet(s.todo)
    <3>1. \A i \in DOMAIN s.todo : s.todo[i] \in Plugin
      BY <2>1, ElementOfSeq, LenProperties
    <3> QED
      BY <3>1, PluginsAssumption DEF ToSet
  <2> QED
    BY <2>1, <2>2 DEF WorkInOrder
<1> QED
  BY <1>1, <1>2

LEMMA OnLoadReturnsServes ==
    ASSUME ServedInv, NEW m \in Manager, OnLoadReturns(m) PROVE ServedInv'
<1> PICK s, p : s = manager[m] /\ p = manager[m].inside
  OBVIOUS
<1>1. /\ s.doing = "load" /\ p # Nothing /\ LeavesLock(m, {}) /\ loaded' = Append(loaded, p)
      /\ depends' = depends
  BY DEF OnLoadReturns
<1>2. PICK t : /\ manager' = [manager EXCEPT ![m] = t] /\ t.inside = Nothing
               /\ t.doing = s.doing /\ t.todo = s.todo /\ t.wanted = s.wanted
               /\ \A n \in Manager \ {m} : manager[n].inside = Nothing
  <2> PICK none : none = {}
    OBVIOUS
  <2>1. manager[m].inside # Nothing /\ LeavesLock(m, none)
    BY <1>1
  <2>2. PICK t : /\ manager' = [manager EXCEPT ![m] = t] /\ t.inside = Nothing
                 /\ t.doing = manager[m].doing /\ t.todo = manager[m].todo
                 /\ t.wanted = manager[m].wanted \ none
                 /\ \A n \in Manager \ {m} : manager[n].inside = Nothing
    BY ONLY <2>1, ServedInv, m \in Manager, Leaver
  <2>3. t.wanted = s.wanted
    BY <2>2
  <2> QED
    BY <2>2, <2>3
<1>3. PluginsInv' /\ WorkInOrder(s) /\ Served(s, Loaded) /\ p \in Plugin
  BY <1>1, OnLoadReturnsPlugins DEF ServedInv, PluginsInv, PluginTypes, TasksTyped
<1>4. Loaded' = Loaded \cup {p}
  <2>1. /\ Len(loaded) \in Nat /\ DOMAIN loaded = 1 .. Len(loaded) /\ loaded \in Seq(Plugin)
    BY PluginLists DEF ServedInv, PluginsInv, PluginTypes
  <2>2. /\ DOMAIN loaded' = 1 .. Len(loaded) + 1 /\ loaded'[Len(loaded) + 1] = p
        /\ \A i \in 1 .. Len(loaded) : loaded'[i] = loaded[i]
    BY <1>1, <2>1
  <2> QED
    BY <2>1, <2>2 DEF Loaded, ToSet
<1>5. Loaded' \subseteq Plugin /\ \A x \in Loaded' : depends[x] \subseteq Loaded'
  <2>1. (\A x \in Loaded : depends[x] \subseteq Loaded)'
    BY <1>3 DEF PluginsInv, LoadedInFull
  <2>2. Loaded \subseteq Plugin
    BY PluginLists DEF ServedInv, PluginsInv
  <2> QED
    BY <1>1, <1>3, <1>4, <2>1, <2>2
<1>6. ASSUME NEW q \in t.wanted
      PROVE  \/ q \in Loaded' \cup ToCome(t)
             \/ \E d \in depends[q] \ Loaded' : d \in ToCome(t) => Needs(d, q)
  <2>1. CASE q \in Loaded \cup ToCome(s)
    BY <1>2, <1>4, <2>1 DEF ToCome
  <2>2. CASE \E d \in depends[q] \ Loaded : d \in ToCome(s) => Needs(d, q)
    <3>1. PICK d \in depends[q] \ Loaded : d \in ToCome(s) => Needs(d, q)
      BY <2>2
    <3>2. CASE d = p
      <4>1. Needs(d, q) /\ d \in Loaded'
        BY <1>4, <3>1, <3>2 DEF ToCome
      <4>2. q \in Loaded'
        BY <1>5, <4>1 DEF Needs
      <4> QED
        BY <4>2
    <3>3. CASE d # p
      <4>1. d \notin Loaded'
        BY <1>4, <3>1, <3>3
      <4>2. d \in ToCome(t) => d \in ToCome(s) \/ d = Nothing
        BY <1>2 DEF ToCome
      <4>3. d \in Plugin
        <5>1. q \in Plugin
          BY <1>2, <1>3, <1>6 DEF WorkInOrder
        <5> QED
          BY <3>1, <5>1 DEF ServedInv, PluginsInv, PluginTypes
      <4> QED
        BY <3>1, <4>1, <4>2, <4>3, PluginsAssumption
    <3> QED
      BY <3>2, <3>3
  <2> QED
    BY <1>2, <1>3, <2>1, <2>2 DEF Served
<1>7. WorkInOrder(t)
  BY <1>2, <1>3, LeftInOrder
<1>8. Served(t, Loaded')
  BY <1>6 DEF Served
<1> QED
  BY <1>1, <1>2, <1>3, <1>7, <1>8, OneTaskGoes

LEMMA OnLoadRaisesServes ==
    ASSUME ServedInv, NEW m \in Manager, OnLoadRaises(m) PROVE ServedInv'
<1> PICK s, p : s = manager[m] /\ p = manager[m].inside
  OBVIOUS
<1>1. p # Nothing /\ LeavesLock(m, {p}) /\ Loaded' = Loaded /\ depends' = depends
  BY DEF OnLoadRaises, Loaded
<1>2. PICK t : /\ manager' = [manager EXCEPT ![m] = t] /\ t.inside = Nothing
               /\ t.doing = s.doing /\ t.todo = s.todo /\ t.wanted = s.wanted \ {p}
               /\ \A n \in Manager \ {m} : manager[n].inside = Nothing
  <2>1. manager[m].inside # Nothing /\ LeavesLock(m, {p})
    BY <1>1
  <2> QED
    BY <2>1, Leaver
<1>3. PluginsInv' /\ WorkInOrder(s) /\ Served(s, Loaded)
  BY OnLoadRaisesPlugins DEF ServedInv
<1>4. ASSUME NEW q \in t.wanted
      PROVE  \/ q \in Loaded \cup ToCome(t)
             \/ \E d \in depends[q] \ Loaded : d \in ToCome(t) => Needs(d, q)
  <2>1. q \in s.wanted /\ q # p
    BY <1>2
  <2>2. CASE q \in Loaded \cup ToCome(s)
    BY <1>2, <2>1, <2>2 DEF ToCome
  <2>3. CASE \E d \in depends[q] \ Loaded : d \in ToCome(s) => Needs(d, q)
    <3>1. PICK d \in depends[q] \ Loaded : d \in ToCome(s) => Needs(d, q)
      BY <2>3
    <3>2. d \in ToCome(t) => d \in ToCome(s) \/ d = Nothing
      BY <1>2 DEF ToCome
    <3>3. d \in Plugin
      <4>1. q \in Plugin
        BY <1>3, <2>1 DEF WorkInOrder
      <4> QED
        BY <3>1, <4>1 DEF ServedInv, PluginsInv, PluginTypes
    <3> QED
      BY <3>1, <3>2, <3>3, PluginsAssumption
  <2> QED
    BY <1>3, <2>1, <2>2, <2>3 DEF Served
<1>5. WorkInOrder(t)
  BY <1>2, <1>3, LeftInOrder
<1>6. Served(t, Loaded')
  BY <1>1, <1>4 DEF Served
<1> QED
  BY <1>1, <1>2, <1>3, <1>5, <1>6, OneTaskGoes

LEMMA OnUnloadReturnsServes ==
    ASSUME ServedInv, NEW m \in Manager, OnUnloadReturns(m) PROVE ServedInv'
<1> PICK s : s = manager[m]
  OBVIOUS
<1>1. /\ s.doing = "unload" /\ s.inside # Nothing /\ LeavesLock(m, {}) /\ depends' = depends
  BY DEF OnUnloadReturns
<1>2. PICK t : /\ manager' = [manager EXCEPT ![m] = t] /\ t.inside = Nothing
               /\ t.doing = s.doing /\ t.todo = s.todo /\ t.wanted = s.wanted
               /\ \A n \in Manager \ {m} : manager[n].inside = Nothing
  <2> PICK none : none = {}
    OBVIOUS
  <2>1. manager[m].inside # Nothing /\ LeavesLock(m, none)
    BY <1>1
  <2>2. PICK t : /\ manager' = [manager EXCEPT ![m] = t] /\ t.inside = Nothing
                 /\ t.doing = manager[m].doing /\ t.todo = manager[m].todo
                 /\ t.wanted = manager[m].wanted \ none
                 /\ \A n \in Manager \ {m} : manager[n].inside = Nothing
    BY ONLY <2>1, ServedInv, m \in Manager, Leaver
  <2>3. t.wanted = s.wanted
    BY <2>2
  <2> QED
    BY <2>2, <2>3
<1>3. PluginsInv' /\ WorkInOrder(s)
  BY OnUnloadReturnsPlugins DEF ServedInv
<1>4. t.wanted = {}
  BY <1>1, <1>2, <1>3 DEF WorkInOrder
<1> QED
  BY <1>1, <1>2, <1>3, <1>4, NothingWanted, OneTaskGoes

\* The runs of the handlers load and unload nothing.
LEMMA ElsewhereServes ==
    ASSUME ServedInv, PluginsInv', UNCHANGED <<depends, loaded, manager>> PROVE ServedInv'
BY DEF ServedInv, WorkInOrder, Served, Needs, ToCome, Loaded

LEMMA NextServes == ASSUME ServedInv, [PluginsNext]_pluginVars PROVE ServedInv'
<1>1. PluginsInv'
  BY NextPlugins DEF ServedInv
<1>2. CASE UNCHANGED pluginVars
  BY <1>1, <1>2, ElsewhereServes DEF pluginVars
<1>3. CASE \E m \in Manager : LoadAll(m) \/ LoadOrUnload(m) \/ UnloadAll(m) \/ Lifecycle(m)
  BY <1>3, LoadAllServes, LoadOrUnloadServes, UnloadAllServes, RejectedServes, BeginServes,
     OnLoadReturnsServes, OnLoadRaisesServes, OnUnloadReturnsServes DEF Lifecycle
<1>4. CASE \E c \in Caller : Execution(c)
  <2>1. UNCHANGED <<depends, loaded, manager>>
    BY <1>4 DEF Execution, ExecuteHooks, HandlerReturns, HandlerAborts
  <2> QED
    BY <1>1, <2>1, ElsewhereServes
<1> QED
  BY <1>2, <1>3, <1>4 DEF PluginsNext

\* What is left to a task is a list of plugins, and a run is at a place of its list: the
\* list that it runs over never gets shorter under it.
WorkTyped ==
    \A m \in Manager : manager[m].todo \in Seq(Plugin) /\ manager[m].wanted \subseteq Plugin

RunsWithin ==
    \A c \in Caller :
        /\ caller[c].at <= Len(Registrations(c)) /\ caller[c].aborted \in BOOLEAN
        /\ caller[c].ran \subseteq Plugin /\ caller[c].first \in Seq(Plugin)

LEMMA OneTaskTyped ==
    ASSUME PluginsInv, WorkTyped, NEW m \in Manager, NEW t, manager' = [manager EXCEPT ![m] = t],
           t.todo \in Seq(Plugin), t.wanted \subseteq Plugin
    PROVE  WorkTyped'
<1>1. \A n \in Manager : manager'[n] = IF n = m THEN t ELSE manager[n]
  BY DEF PluginsInv, PluginTypes, TasksTyped
<1> QED
  BY <1>1 DEF WorkTyped

LEMMA NextWork ==
    ASSUME PluginsInv, WorkTyped, NEW m \in Manager,
           LoadAll(m) \/ LoadOrUnload(m) \/ UnloadAll(m) \/ Lifecycle(m)
    PROVE  WorkTyped'
<1>1. /\ PluginTypes /\ TaskFields(manager[m])
      /\ manager[m].todo \in Seq(Plugin) /\ manager[m].wanted \subseteq Plugin
  BY DEF PluginsInv, PluginTypes, TasksTyped, WorkTyped
<1>2. CASE LoadAll(m)
  <2>1. PICK order \in Discoverable, off \in SUBSET Plugin :
          manager' = [manager EXCEPT ![m] =
              [doing |-> "load", inside |-> Nothing, wanted |-> ToSet(order) \ off,
               todo |-> ClassesToLoad(order, off)]]
    BY <1>2 DEF LoadAll
  <2>2. ClassesToLoad(order, off) \in Seq(Plugin) /\ ToSet(order) \subseteq Plugin
    BY <1>1, ClassesSorted
  <2>3. PICK t : t = [doing |-> "load", inside |-> Nothing, wanted |-> ToSet(order) \ off,
                      todo |-> ClassesToLoad(order, off)]
    OBVIOUS
  <2>4. t.todo \in Seq(Plugin) /\ t.wanted \subseteq Plugin /\ manager' = [manager EXCEPT ![m] = t]
    BY <2>1, <2>2, <2>3
  <2> QED
    BY <2>4, OneTaskTyped
<1>3. CASE LoadOrUnload(m)
  <2>1. PICK p \in Plugin, doing \in {"load", "unload"} :
          manager' = [manager EXCEPT ![m] =
              [doing |-> doing, inside |-> Nothing, wanted |-> {}, todo |-> <<p>>]]
    BY <1>3 DEF LoadOrUnload
  <2>2. PICK t : t = [doing |-> doing, inside |-> Nothing, wanted |-> {}, todo |-> <<p>>]
    OBVIOUS
  <2>3. t.todo \in Seq(Plugin) /\ t.wanted \subseteq Plugin /\ manager' = [manager EXCEPT ![m] = t]
    BY <2>1, <2>2
  <2> QED
    BY <2>3, OneTaskTyped
<1>4. CASE UnloadAll(m)
  <2>1. /\ Len(loaded) \in Nat /\ DOMAIN loaded = 1 .. Len(loaded)
        /\ \A i \in DOMAIN loaded : loaded[i] \in Plugin
    BY <1>1, PluginLists
  <2>2. Reverse(loaded) \in [1 .. Len(loaded) -> Plugin]
    BY <2>1 DEF Reverse
  <2>3. Reverse(loaded) \in Seq(Plugin)
    BY <2>1, <2>2
  <2>4. PICK t : t = [doing |-> "unload", inside |-> Nothing, wanted |-> {}, todo |-> Reverse(loaded)]
    OBVIOUS
  <2>5. t.todo \in Seq(Plugin) /\ t.wanted \subseteq Plugin /\ manager' = [manager EXCEPT ![m] = t]
    BY <1>4, <2>3, <2>4 DEF UnloadAll
  <2> QED
    BY <2>5, OneTaskTyped
<1>5. ASSUME NEW p \in Plugin, NextIs(m, p) PROVE Tail(manager[m].todo) \in Seq(Plugin)
  BY <1>1, <1>5 DEF NextIs
<1>6. CASE BeginLoad(m) \/ BeginUnload(m)
  <2>1. PICK p \in Plugin : NextIs(m, p) /\ TakesLock(m, p)
    BY <1>6 DEF BeginLoad, BeginUnload
  <2>2. ASSUME NEW n \in Manager
        PROVE  manager'[n].todo \in Seq(Plugin) /\ manager'[n].wanted \subseteq Plugin
    <3>1. TaskFields(manager[n]) /\ manager[n].todo \in Seq(Plugin)
      BY DEF PluginsInv, PluginTypes, TasksTyped, WorkTyped
    <3>2. CASE n = m
      <4>1. manager'[n] = [manager[m] EXCEPT !.inside = p, !.todo = Tail(@)]
        BY <2>1, <3>2 DEF TakesLock
      <4> QED
        BY <1>1, <1>5, <2>1, <4>1 DEF TaskFields
    <3>3. CASE n # m
      <4>1. manager'[n] = [manager[n] EXCEPT !.wanted = {}]
        BY <2>1, <3>3 DEF TakesLock
      <4> QED
        BY <3>1, <4>1 DEF TaskFields
    <3> QED
      BY <3>2, <3>3
  <2> QED
    BY <2>2 DEF WorkTyped
<1>7. CASE Rejected(m)
  <2>1. PICK t : t = [manager[m] EXCEPT !.todo = Tail(@)]
    OBVIOUS
  <2>2. t.todo \in Seq(Plugin) /\ t.wanted \subseteq Plugin
    BY <1>1, <1>5, <1>7, <2>1 DEF Rejected, TaskFields
  <2> QED
    BY <1>7, <2>1, <2>2, OneTaskTyped DEF Rejected
<1>8. CASE OnLoadReturns(m) \/ OnLoadRaises(m) \/ OnUnloadReturns(m)
  <2>1. PICK failed : LeavesLock(m, failed)
    BY <1>8 DEF OnLoadReturns, OnLoadRaises, OnUnloadReturns
  <2>2. PICK t : t = [manager[m] EXCEPT !.inside = Nothing, !.wanted = @ \ failed]
    OBVIOUS
  <2>3. t.todo \in Seq(Plugin) /\ t.wanted \subseteq Plugin
    BY <1>1, <2>2 DEF TaskFields
  <2>4. manager' = [manager EXCEPT ![m] = t]
    BY <2>1, <2>2 DEF LeavesLock
  <2> QED
    BY <2>3, <2>4, OneTaskTyped
<1> QED
  BY <1>2, <1>3, <1>4, <1>6, <1>7, <1>8 DEF Lifecycle

\* A step of a task leaves every run at a place of its list.
LEMMA TasksLeaveRuns ==
    ASSUME PluginsInv, RunsWithin, NEW m \in Manager,
           LoadAll(m) \/ LoadOrUnload(m) \/ UnloadAll(m) \/ Lifecycle(m)
    PROVE  RunsWithin'
<1>1. PluginTypes /\ hooks \in Seq(Plugin) /\ Len(hooks) \in Nat /\ Live \notin Seq(Plugin)
  BY PluginLists, PluginsAssumption DEF PluginsInv, PluginTypes
<1>2. CASE UNCHANGED <<hooks, caller>>
  BY <1>2 DEF RunsWithin, Registrations
<1>3. CASE OnLoadReturns(m)
  <2>1. manager[m].inside \in Plugin
    BY <1>3 DEF PluginsInv, PluginTypes, TasksTyped, OnLoadReturns
  <2>2. PICK p \in Plugin : hooks' = WithHandler(p)
    BY <1>3, <2>1 DEF OnLoadReturns
  <2> DEFINE k == Cardinality({i \in DOMAIN hooks : priority[hooks[i]] >= priority[p]}) + 1
  <2>3. k \in 1 .. Len(hooks) + 1 /\ hooks' = InsertAt(hooks, k, p)
    BY <1>1, <2>2, PlaceOf DEF PluginsInv, WithHandler
  <2> HIDE DEF k
  <2>4. hooks' \in Seq(Plugin) /\ TakesIn(hooks, k, p, hooks')
    BY <1>1, <2>3, WithOneAt
  <2>5. Len(hooks') = Len(hooks) + 1
    BY <1>1, <2>4 DEF TakesIn
  <2>6. caller' = caller
    BY <1>3 DEF OnLoadReturns
  <2>7. ASSUME NEW c \in Caller PROVE caller[c].at <= Len(Registrations(c)')
    <3>1. caller[c].at \in Nat /\ caller[c].at <= Len(Registrations(c))
      BY DEF RunsWithin, PluginsInv, PluginTypes, RunsTyped
    <3> QED
      BY <1>1, <2>5, <2>6, <3>1 DEF Registrations
  <2> QED
    BY <2>6, <2>7 DEF RunsWithin
<1>4. CASE BeginUnload(m)
  <2>1. ASSUME NEW c \in Caller
        PROVE  /\ caller'[c].at <= Len(Registrations(c)') /\ caller'[c].aborted \in BOOLEAN
               /\ caller'[c].ran \subseteq Plugin /\ caller'[c].first \in Seq(Plugin)
    <3>1. RunFields(caller[c]) /\ (caller[c].over = Live \/ caller[c].over \in Seq(Plugin))
      BY <1>1 DEF PluginTypes, RunsTyped
    <3>2. caller'[c] = [caller[c] EXCEPT !.over = Registrations(c)]
      BY <1>4 DEF BeginUnload, Left, Kept
    <3>3. Registrations(c) \in Seq(Plugin) /\ Registrations(c) # Live
      BY <1>1, <3>1 DEF Registrations
    <3>4. /\ caller'[c].over = Registrations(c) /\ caller'[c].at = caller[c].at
          /\ caller'[c].aborted = caller[c].aborted /\ caller'[c].ran = caller[c].ran
          /\ caller'[c].first = caller[c].first
      BY <3>1, <3>2 DEF RunFields
    <3>5. Registrations(c)' = Registrations(c)
      BY <3>3, <3>4 DEF Registrations
    <3> QED
      BY <3>4, <3>5 DEF RunsWithin
  <2> QED
    BY <2>1 DEF RunsWithin
<1>5. \/ UNCHANGED <<hooks, caller>> \/ OnLoadReturns(m) \/ BeginUnload(m)
  BY DEF LoadAll, LoadOrUnload, UnloadAll, Lifecycle, BeginLoad, OnLoadRaises, OnUnloadReturns, Rejected
<1> QED
  BY <1>2, <1>3, <1>4, <1>5

LEMMA OneRunWithin ==
    ASSUME PluginsInv, RunsWithin, NEW c \in Caller, NEW r, caller' = [caller EXCEPT ![c] = r],
           hooks' = hooks, r.at <= Len(IF r.over = Live THEN hooks ELSE r.over),
           r.aborted \in BOOLEAN, r.ran \subseteq Plugin, r.first \in Seq(Plugin)
    PROVE  RunsWithin'
<1>1. \A d \in Caller : caller'[d] = IF d = c THEN r ELSE caller[d]
  BY DEF PluginsInv, PluginTypes, RunsTyped
<1>2. ASSUME NEW d \in Caller
      PROVE  /\ caller'[d].at <= Len(Registrations(d)') /\ caller'[d].aborted \in BOOLEAN
             /\ caller'[d].ran \subseteq Plugin /\ caller'[d].first \in Seq(Plugin)
  <2>1. CASE d = c
    BY <1>1, <2>1 DEF Registrations
  <2>2. CASE d # c
    BY <1>1, <2>2 DEF Registrations, RunsWithin
  <2> QED
    BY <2>1, <2>2
<1> QED
  BY <1>2 DEF RunsWithin

LEMMA ExecutionWithin ==
    ASSUME PluginsInv, RunsWithin, NEW c \in Caller, Execution(c) PROVE RunsWithin'
<1>1. /\ RunFields(caller[c]) /\ caller[c].at \in Nat
      /\ caller[c].over = Live \/ caller[c].over \in Seq(Plugin)
      /\ hooks \in Seq(Plugin) /\ hooks' = hooks
      /\ caller[c].aborted \in BOOLEAN /\ caller[c].ran \subseteq Plugin
      /\ caller[c].first \in Seq(Plugin)
  BY DEF PluginsInv, PluginTypes, RunsTyped, RunsWithin, Execution, ExecuteHooks, HandlerReturns,
         HandlerAborts
<1>2. PICK over : over = IF caller[c].over = Live THEN hooks ELSE caller[c].over
  OBVIOUS
<1>3. /\ over \in Seq(Plugin) /\ Len(over) \in Nat /\ over = Registrations(c)
      /\ \A i \in 1 .. Len(over) : over[i] \in Plugin
  BY <1>1, <1>2 DEF Registrations
<1>4. CASE ExecuteHooks(c)
  <2>1. PICK r : r = [over |-> Live, at |-> 1, first |-> hooks, ran |-> {hooks[1]}, aborted |-> FALSE]
    OBVIOUS
  <2>2. caller' = [caller EXCEPT ![c] = r] /\ hooks # <<>>
    BY <1>4, <2>1 DEF ExecuteHooks
  <2>3. 1 <= Len(hooks) /\ hooks[1] \in Plugin
    BY <1>1, <2>2
  <2>4. /\ r.at <= Len(IF r.over = Live THEN hooks ELSE r.over)
        /\ r.aborted \in BOOLEAN /\ r.ran \subseteq Plugin /\ r.first \in Seq(Plugin)
    BY <1>1, <2>1, <2>3
  <2> QED
    BY <1>1, <2>2, <2>4, OneRunWithin
<1>5. CASE HandlerReturns(c)
  <2>1. PICK next : next = caller[c].at + 1
    OBVIOUS
  <2>2. next \in Nat /\ next >= 1
    BY <1>1, <2>1
  <2>3. caller' = [caller EXCEPT ![c] =
            IF next <= Len(over)
            THEN [caller[c] EXCEPT !.at = next, !.ran = caller[c].ran \cup {over[next]}]
            ELSE [caller[c] EXCEPT !.at = 0]]
    BY <1>3, <1>5, <2>1 DEF HandlerReturns
  <2>4. PICK r : r = IF next <= Len(over)
                     THEN [caller[c] EXCEPT !.at = next, !.ran = caller[c].ran \cup {over[next]}]
                     ELSE [caller[c] EXCEPT !.at = 0]
    OBVIOUS
  <2>5. CASE next <= Len(over)
    <3>1. over[next] \in Plugin
      BY <1>3, <2>2, <2>5
    <3>2. /\ r.over = caller[c].over /\ r.at = next /\ r.first = caller[c].first
          /\ r.ran = caller[c].ran \cup {over[next]} /\ r.aborted = caller[c].aborted
      BY <1>1, <2>4, <2>5 DEF RunFields
    <3>3. /\ r.at <= Len(IF r.over = Live THEN hooks ELSE r.over)
          /\ r.aborted \in BOOLEAN /\ r.ran \subseteq Plugin /\ r.first \in Seq(Plugin)
      BY <1>1, <1>2, <2>5, <3>1, <3>2
    <3>4. caller' = [caller EXCEPT ![c] = r]
      BY <2>3, <2>4, Zenon
    <3> QED
      BY <1>1, <3>3, <3>4, OneRunWithin
  <2>6. CASE ~(next <= Len(over))
    <3>1. /\ r.over = caller[c].over /\ r.at = 0 /\ r.first = caller[c].first
          /\ r.ran = caller[c].ran /\ r.aborted = caller[c].aborted
      BY <1>1, <2>4, <2>6 DEF RunFields
    <3>2. r.at <= Len(over)
      BY <1>3, <3>1
    <3>3. /\ r.at <= Len(IF r.over = Live THEN hooks ELSE r.over)
          /\ r.aborted \in BOOLEAN /\ r.ran \subseteq Plugin /\ r.first \in Seq(Plugin)
      BY <1>1, <1>2, <3>1, <3>2
    <3>4. caller' = [caller EXCEPT ![c] = r]
      BY <2>3, <2>4, Zenon
    <3> QED
      BY <1>1, <3>3, <3>4, OneRunWithin
  <2> QED
    BY <2>5, <2>6
<1>6. CASE HandlerAborts(c)
  <2>1. PICK r : r = [caller[c] EXCEPT !.at = 0, !.aborted = TRUE]
    OBVIOUS
  <2>2. caller' = [caller EXCEPT ![c].at = 0, ![c].aborted = TRUE]
    BY <1>6 DEF HandlerAborts
  <2>3. caller' = [caller EXCEPT ![c] = r]
    BY <2>1, <2>2 DEF PluginsInv, PluginTypes, RunsTyped
  <2>4. /\ r.over = caller[c].over /\ r.at = 0 /\ r.first = caller[c].first
        /\ r.ran = caller[c].ran /\ r.aborted = TRUE
    BY <1>1, <2>1 DEF RunFields
  <2>5. r.at <= Len(over)
    BY <1>3, <2>4
  <2> QED
    BY <1>1, <1>2, <2>3, <2>4, <2>5, OneRunWithin
<1> QED
  BY <1>4, <1>5, <1>6 DEF Execution

\* The loader's and the registry's state is of its types; no run of the handlers leaves
\* its list, whatever is loaded and unloaded while it awaits one (PluginRegistry).
THEOREM PluginsTypesHold == PluginsSpec => []PluginsTypeOK
<1>1. ASSUME PluginsInv, WorkTyped, RunsWithin PROVE PluginsTypeOK
  <2>1. \A m \in Manager :
          /\ manager[m].doing \in {"load", "unload"} /\ manager[m].todo \in Seq(Plugin)
          /\ manager[m].inside \in Plugin \cup {Nothing} /\ manager[m].wanted \subseteq Plugin
    BY <1>1 DEF PluginsInv, PluginTypes, TasksTyped, TaskFields, WorkTyped
  <2>2. ASSUME NEW c \in Caller
        PROVE  /\ caller[c].at \in 0 .. Len(Registrations(c)) /\ caller[c].aborted \in BOOLEAN
               /\ caller[c].ran \subseteq Plugin /\ caller[c].first \in Seq(Plugin)
    <3>1. Registrations(c) \in Seq(Plugin) /\ caller[c].at \in Nat
      BY <1>1 DEF PluginsInv, PluginTypes, RunsTyped, Registrations
    <3>2. Len(Registrations(c)) \in Nat
      BY <3>1
    <3> QED
      BY <1>1, <3>1, <3>2 DEF RunsWithin
  <2>3. /\ depends \in [Plugin -> SUBSET Plugin] /\ priority \in [Plugin -> HookPriority]
        /\ \A list \in {loaded, hooks} : list \in Seq(Plugin) /\ IsInjective(list)
    BY <1>1 DEF PluginsInv, PluginTypes, Different, IsInjective
  <2> QED
    BY <2>1, <2>2, <2>3 DEF PluginsTypeOK
<1>2. PluginsInit => WorkTyped /\ RunsWithin
  <2> SUFFICES ASSUME PluginsInit PROVE WorkTyped /\ RunsWithin
    OBVIOUS
  <2>1. <<>> \in Seq(Plugin) /\ Len(<<>>) = 0
    OBVIOUS
  <2>2. WorkTyped
    BY <2>1 DEF PluginsInit, WorkTyped
  <2>3. ASSUME NEW c \in Caller
        PROVE  /\ caller[c].at <= Len(Registrations(c)) /\ caller[c].aborted \in BOOLEAN
               /\ caller[c].ran \subseteq Plugin /\ caller[c].first \in Seq(Plugin)
    <3>1. /\ caller[c].over = Live /\ caller[c].at = 0 /\ caller[c].aborted = FALSE
          /\ caller[c].ran = {} /\ caller[c].first = <<>> /\ hooks = <<>>
      BY DEF PluginsInit
    <3>2. Registrations(c) = <<>>
      BY <3>1 DEF Registrations
    <3>3. caller[c].at <= Len(Registrations(c))
      BY <2>1, <3>1, <3>2
    <3>4. caller[c].aborted \in BOOLEAN /\ caller[c].ran \subseteq Plugin
      BY <3>1
    <3>5. caller[c].first \in Seq(Plugin)
      BY <2>1, <3>1, Zenon
    <3> QED
      BY <3>3, <3>4, <3>5
  <2> QED
    BY <2>2, <2>3 DEF RunsWithin
<1>3. ASSUME PluginsInv, WorkTyped, RunsWithin, [PluginsNext]_pluginVars
      PROVE  WorkTyped' /\ RunsWithin'
  <2>1. CASE UNCHANGED pluginVars
    BY <1>3, <2>1 DEF pluginVars, WorkTyped, RunsWithin, Registrations
  <2>2. ASSUME NEW m \in Manager, LoadAll(m) \/ LoadOrUnload(m) \/ UnloadAll(m) \/ Lifecycle(m)
        PROVE  WorkTyped' /\ RunsWithin'
    BY <1>3, <2>2, NextWork, TasksLeaveRuns
  <2>3. ASSUME NEW c \in Caller, Execution(c) PROVE WorkTyped' /\ RunsWithin'
    <3>1. manager' = manager
      BY <2>3 DEF Execution, ExecuteHooks, HandlerReturns, HandlerAborts
    <3> QED
      BY <1>3, <2>3, <3>1, ExecutionWithin DEF WorkTyped
  <2> QED
    BY <1>3, <2>1, <2>2, <2>3 DEF PluginsNext
<1> QED
  BY <1>1, <1>2, <1>3, InitPlugins, NextPlugins, PTL DEF PluginsSpec

\* Whatever is loaded has its dependencies loaded and its handler registered, unless it
\* is being unloaded, whichever tasks load and unload plugins and fail at it; load_all
\* leaves out none that could be loaded, unless another task loads or unloads meanwhile;
\* and no run of the handlers skips one that was registered when it began: for any
\* plugins, any dependencies, priorities and order of discovery, any tasks and any
\* number of runs at a time.
THEOREM PluginsAlwaysHold == PluginsSpec => []PluginsHold
<1>1. PluginsInit => ServedInv
  <2> SUFFICES ASSUME PluginsInit PROVE ServedInv
    OBVIOUS
  <2>1. PluginsInv
    BY InitPlugins
  <2>2. \A m \in Manager : manager[m].wanted = {}
    BY DEF PluginsInit
  <2> QED
    BY <2>1, <2>2, NothingWanted DEF ServedInv
<1>2. ServedInv /\ [PluginsNext]_pluginVars => ServedInv'
  BY NextServes
<1>3. ServedInv => PluginsHold
  <2> SUFFICES ASSUME ServedInv PROVE PluginsHold
    OBVIOUS
  <2>1. LoadedInFull
    BY DEF ServedInv, PluginsInv
  <2>2. ASSUME NEW m \in Manager, Resting(m), NEW p \in manager[m].wanted, depends[p] \subseteq Loaded
        PROVE  p \in Loaded
    <3>1. /\ p \in Loaded \cup ToCome(manager[m]) \/ \E d \in depends[p] : d \notin Loaded
          /\ p \in Plugin
      BY DEF ServedInv, Served, WorkInOrder
    <3>2. ToCome(manager[m]) = {Nothing}
      BY <2>2 DEF Resting, ToCome, ToSet
    <3> QED
      BY <2>2, <3>1, <3>2, PluginsAssumption
  <2>3. ASSUME NEW c \in Caller, caller[c].at = 0, ~caller[c].aborted,
               NEW q \in ToSet(caller[c].first)
        PROVE  q \in caller[c].ran
    <3>1. ~Ahead(Registrations(c), caller[c].at, q)
      BY <2>3 DEF Ahead
    <3> QED
      BY <2>3, <3>1 DEF ServedInv, PluginsInv, RunsOn
  <2> QED
    BY <2>1, <2>2, <2>3 DEF PluginsHold, DependenciesHold, NoneSkipped
<1> QED
  BY <1>1, <1>2, <1>3, PTL DEF PluginsSpec
-----------------------------------------------------------------------------
(* The composition of MCServices.  Whichever part moves, the others keep still. *)

\* The job queue, the federation, the edge controller, the subscriptions, the limiter and
\* the plugins behave, one beside the other, as each does alone.
THEOREM ServicesBehave ==
    ServicesSpec => /\ QueueSpec /\ FederationSpec /\ EdgeSpec /\ SubscriptionsSpec
                    /\ RateSpec /\ PluginsSpec
<1>1. ServicesInit => /\ QueueInit /\ FederationInit /\ EdgeInit /\ SubscriptionsInit
                      /\ RateInit /\ PluginsInit
  BY DEF ServicesInit
<1>2. [ServicesNext]_servicesVars
      => /\ [QueueNext]_queueVars /\ [FederationNext]_federationVars /\ [EdgeNext]_edgeVars
         /\ [SubscriptionsNext]_subscriptionVars /\ [RateNext]_rateVars /\ [PluginsNext]_pluginVars
  <2>1. ASSUME UNCHANGED servicesVars
        PROVE  UNCHANGED <<queueVars, federationVars, edgeVars, subscriptionVars, rateVars,
                           pluginVars, accessVars>>
    BY <2>1 DEF servicesVars
  <2>2. ASSUME NEW p, OfPlugins(p, \/ \E m \in Manager : LoadAll(m) \/ UnloadAll(m) \/ Lifecycle(m))
        PROVE  PluginsNext
    BY <2>2 DEF OfPlugins, PluginsNext
  <2>3. ASSUME NEW p, OfPlugins(p, \/ \E m \in Manager : LoadOrUnload(m) \/ Lifecycle(m)
                                   \/ \E c \in Caller : Execution(c))
        PROVE  PluginsNext
    BY <2>3 DEF OfPlugins, PluginsNext
  <2> QED
    BY <2>1, <2>2, <2>3 DEF ServicesNext, OfJobs, OfFederation, OfEdge, OfSubscribers, OfLimiter,
       OfPlugins, OfAccess
<1> QED
  BY <1>1, <1>2, PTL DEF ServicesSpec, QueueSpec, FederationSpec, EdgeSpec, SubscriptionsSpec,
     RateSpec, PluginsSpec

\* So what was proved of the parts holds of the composition: every part's state is of its
\* types, a job is in one list and in the hands of one worker, the limiter is exact, no
\* change is lost on its way to a peer or to the hub, every subscriber is served, plugins have
\* what they depend on, and the engine decides as its first policy does, also where the list
\* of policies stays empty because another part moves.
THEOREM ServicesHold ==
    ServicesSpec =>
        /\ []ServicesTypeOK
        /\ []InOneListOnce /\ ImplementsPool
        /\ []LimiterExact
        /\ ChangesKept /\ KeptUntilTaken
        /\ []SubscribersServed /\ []PluginsHold /\ []AccessHolds
<1> DEFINE Configured == part = "access" => config \in Configuration
<1>1. ServicesInit => AccessInv /\ Configured
  <2>1. policies = <<>> /\ added = <<>> => AccessInv
    BY EmptySeq DEF AccessInv, Different, Arranged, Range
  <2> QED
    BY <2>1, InitAccess DEF ServicesInit, AccessInit
<1>2. [ServicesNext]_servicesVars => [AccessNext]_accessVars
  BY DEF ServicesNext, OfJobs, OfFederation, OfEdge, OfSubscribers, OfLimiter, OfPlugins, OfAccess,
     servicesVars
<1>3. AccessInv /\ [AccessNext]_accessVars => AccessInv'
  BY NextAccess
<1>4. [ServicesNext]_servicesVars => part' = part
  BY DEF ServicesNext, OfJobs, OfFederation, OfEdge, OfSubscribers, OfLimiter, OfPlugins, OfAccess,
     servicesVars
<1>5. [AccessNext]_accessVars => config' = config
  BY DEF AccessNext, AddPolicy, RemovePolicy, accessVars
<1>6. Configured /\ [ServicesNext]_servicesVars => Configured'
  BY <1>2, <1>4, <1>5
<1>7. AccessInv => AccessHolds
  BY DecidesAsPromised, KeepsApart DEF AccessHolds, DecisionOfFirst
<1>8. AccessInv /\ Configured => (part = "access" => AccessTypeOK)
  BY AsManyPlaces DEF AccessInv, AccessTypeOK
<1>9. /\ QueueTypeOK /\ FederationTypeOK /\ EdgeTypeOK /\ SubscriptionsTypeOK /\ RateTypeOK
      /\ PluginsTypeOK /\ (part = "access" => AccessTypeOK)
      => ServicesTypeOK
  BY DEF ServicesTypeOK
<1> HIDE DEF Configured
<1>10. ServicesSpec => []AccessHolds /\ [](part = "access" => AccessTypeOK)
  BY <1>1, <1>2, <1>3, <1>6, <1>7, <1>8, PTL DEF ServicesSpec
<1>11. ServicesSpec => []ServicesTypeOK
  BY <1>9, <1>10, ServicesBehave, JobTypes, FederationTypes, EdgeTypesHold, SubscriptionsTypesHold,
     RateTypesHold, PluginsTypesHold, PTL
<1> QED
  BY <1>10, <1>11, ServicesBehave, ListedOnce, Refinement, LimiterIsExact, FederationKeepsChanges,
     EdgeKeepsChanges, AllSubscribersServed, PluginsAlwaysHold, PTL
=============================================================================
