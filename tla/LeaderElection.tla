---------------------------- MODULE LeaderElection ----------------------------
(***************************************************************************)
(* Leader election over a Redis lock with a lease                          *)
(* (titan.distributed.leader), as the job scheduler and the job workers    *)
(* use it.                                                                 *)
(*                                                                         *)
(* An instance sends a command to Redis, Redis executes it, the answer     *)
(* arrives, and time passes in between: `ttl` is what is left of the       *)
(* lease, `timer` what is left of a sleep or, while an instance waits for  *)
(* Redis, of the time it may take without being late.  An instance that    *)
(* takes longer (a slow network, a blocked event loop) makes the behaviour *)
(* `late`.                                                                 *)
(***************************************************************************)
EXTENDS Integers

CONSTANTS
    Instance,       \* the processes that want to lead
    LeaseTtl,       \* lease_ttl (30 s)
    Interval,       \* renewal_interval (10 s)
    Latency,        \* the time one turn of the loop may spend on Redis
    BodyTime,       \* the time a @leader_only function may take
    MaxFaults,      \* bound on errors, crashes and stops
    Nobody          \* the lock does not exist

ASSUME LeaseAssumption ==
    /\ LeaseTtl \in Nat /\ Interval \in Nat /\ Latency \in Nat /\ BodyTime \in Nat
    /\ Interval + 3 * Latency < LeaseTtl
    /\ BodyTime + 2 * Latency < LeaseTtl
    /\ MaxFaults \in Nat
    /\ Nobody \notin Instance

VARIABLES
    lock,           \* titan:leader:<name>, an instance or Nobody
    ttl,            \* what is left of its lease
    leader,         \* [Instance -> BOOLEAN]: _is_leader
    pc,             \* [Instance -> Pc]
    timer,          \* [Instance -> Nat]
    late,           \* some instance has been late
    faults

vars == <<lock, ttl, leader, pc, timer, late, faults>>

\* Where the election loop awaits ("off" when there is none): SET NX before and
\* after Redis has executed it, GET, EXPIRE before and after, the answer that
\* the lock is not ours, sleep, the Lua script of stop; the same SET of a
\* @leader_only call, and its function.
Pc == {"off", "set", "won", "get", "expire", "renewed", "demoted", "sleep",
       "release", "set_once", "won_once", "body"}

\* Instance i goes on to p, which may last for t.
GoTo(i, p, t) == pc' = [pc EXCEPT ![i] = p] /\ timer' = [timer EXCEPT ![i] = t]

\* It goes on to p within the same turn of the loop.
Next1(i, p) == pc' = [pc EXCEPT ![i] = p] /\ UNCHANGED timer

Lead(i, b) == leader' = [leader EXCEPT ![i] = b]

-----------------------------------------------------------------------------
(* The election loop.                                                      *)

\* start: a new LeaderElection, which tries at once.
Start(i) ==
    /\ pc[i] = "off"
    /\ Lead(i, FALSE)
    /\ GoTo(i, "set", Latency)
    /\ UNCHANGED <<lock, ttl, late, faults>>

\* sleep(renewal_interval) is over.
Wake(i) ==
    /\ pc[i] = "sleep" /\ timer[i] = 0
    /\ GoTo(i, IF leader[i] THEN "get" ELSE "set", Latency)
    /\ UNCHANGED <<lock, ttl, leader, late, faults>>

\* Mutant of TakeLock: SET NX without EX.
TakeLockForever(i) == lock' = i /\ ttl' = 0

TakeLock(i) == lock' = i /\ ttl' = LeaseTtl

\* _acquire_lock, Redis executes SET NX EX; refused, the answer changes nothing
\* and is not a step of its own.
ExecuteSet(i) ==
    /\ pc[i] = "set"
    /\ \/ /\ lock = Nobody
          /\ TakeLock(i)
          /\ Next1(i, "won")
       \/ /\ lock # Nobody
          /\ GoTo(i, "sleep", Interval)
          /\ UNCHANGED <<lock, ttl>>
    /\ UNCHANGED <<leader, late, faults>>

\* _handle_election
Elected(i) ==
    /\ pc[i] = "won"
    /\ Lead(i, TRUE)
    /\ GoTo(i, "sleep", Interval)
    /\ UNCHANGED <<lock, ttl, late, faults>>

\* _renew_lock, Redis executes GET.
ExecuteGet(i) ==
    /\ pc[i] = "get"
    /\ Next1(i, IF lock = i THEN "expire" ELSE "demoted")
    /\ UNCHANGED <<lock, ttl, leader, late, faults>>

\* Mutant of ExecuteExpire: the lease is not renewed.
ExecuteNoExpire(i) ==
    /\ pc[i] = "expire"
    /\ Next1(i, "renewed")
    /\ UNCHANGED <<lock, ttl, leader, late, faults>>

\* Mutant of ExecuteExpire: the lease is added to what is left.
ExecuteProlong(i) ==
    /\ pc[i] = "expire"
    /\ ttl' = IF lock = Nobody THEN ttl ELSE ttl + LeaseTtl
    /\ Next1(i, "renewed")
    /\ UNCHANGED <<lock, leader, late, faults>>

\* EXPIRE, whoever owns the lock by now; its answer is not looked at.
ExecuteExpire(i) ==
    /\ pc[i] = "expire"
    /\ ttl' = IF lock = Nobody THEN ttl ELSE LeaseTtl
    /\ Next1(i, "renewed")
    /\ UNCHANGED <<lock, leader, late, faults>>

Renewed(i) ==
    /\ pc[i] = "renewed"
    /\ GoTo(i, "sleep", Interval)
    /\ UNCHANGED <<lock, ttl, leader, late, faults>>

\* _handle_demotion
Demoted(i) ==
    /\ pc[i] = "demoted"
    /\ Lead(i, FALSE)
    /\ GoTo(i, "sleep", Interval)
    /\ UNCHANGED <<lock, ttl, late, faults>>

\* Mutant of Unlock: a plain DEL.
UnlockAnyway(i) == lock' = Nobody /\ ttl' = 0 /\ Lead(i, FALSE)

\* The Lua script of _release_lock; _is_leader is only reset if the lock was ours.
Unlock(i) ==
    IF lock = i
    THEN lock' = Nobody /\ ttl' = 0 /\ Lead(i, FALSE)
    ELSE UNCHANGED <<lock, ttl, leader>>

Release(i) ==
    /\ pc[i] = "release"
    /\ Unlock(i)
    /\ GoTo(i, "off", 0)
    /\ UNCHANGED <<late, faults>>

-----------------------------------------------------------------------------
(* @leader_only and LeaderOnlyTask: one try, no renewal.                   *)

Enter(i) ==
    /\ pc[i] = "off"
    /\ Lead(i, FALSE)
    /\ GoTo(i, "set_once", Latency)
    /\ UNCHANGED <<lock, ttl, late, faults>>

\* Refused, the function is skipped.
ExecuteSetOnce(i) ==
    /\ pc[i] = "set_once"
    /\ \/ /\ lock = Nobody
          /\ TakeLock(i)
          /\ Next1(i, "won_once")
       \/ /\ lock # Nobody
          /\ GoTo(i, "off", 0)
          /\ UNCHANGED <<lock, ttl>>
    /\ UNCHANGED <<leader, late, faults>>

RunBody(i) ==
    /\ pc[i] = "won_once"
    /\ Lead(i, TRUE)
    /\ GoTo(i, "body", BodyTime)
    /\ UNCHANGED <<lock, ttl, late, faults>>

\* The function returns or raises: __aexit__ releases.
Exit(i) ==
    /\ pc[i] = "body"
    /\ GoTo(i, "release", Latency)
    /\ UNCHANGED <<lock, ttl, leader, late, faults>>

-----------------------------------------------------------------------------
(* Faults and stops.                                                       *)

Fault == faults < MaxFaults /\ faults' = faults + 1

\* stop: cancels the loop in its await and releases the lock if _is_leader; a
\* SET that Redis has executed and nobody has heard of stays.
Stop(i) ==
    /\ pc[i] \in {"set", "won", "get", "expire", "renewed", "demoted", "sleep"}
    /\ Fault
    /\ IF leader[i] THEN GoTo(i, "release", Latency) ELSE GoTo(i, "off", 0)
    /\ UNCHANGED <<lock, ttl, leader, late>>

\* An exception of a Redis command, before or after Redis has executed it: the
\* loop gives up its leadership, not its lock.
RedisError(i) ==
    /\ pc[i] \in {"set", "won", "get", "expire", "renewed", "demoted"}
    /\ Fault
    /\ Lead(i, FALSE)
    /\ GoTo(i, "sleep", Interval)
    /\ UNCHANGED <<lock, ttl, late>>

Crash(i) ==
    /\ pc[i] # "off"
    /\ Fault
    /\ Lead(i, FALSE)
    /\ GoTo(i, "off", 0)
    /\ UNCHANGED <<lock, ttl, late>>

-----------------------------------------------------------------------------
(* Time.                                                                   *)

\* Who has used up the time it may take.
Overdue(i) == pc[i] # "off" /\ timer[i] = 0

Tick ==
    /\ ttl' = IF ttl = 0 THEN 0 ELSE ttl - 1
    /\ lock' = IF ttl = 1 THEN Nobody ELSE lock
    /\ timer' = [i \in Instance |-> IF timer[i] = 0 THEN 0 ELSE timer[i] - 1]
    /\ late' = (late \/ \E i \in Instance : Overdue(i))
    /\ UNCHANGED <<leader, pc, faults>>

-----------------------------------------------------------------------------
Init ==
    /\ lock = Nobody /\ ttl = 0
    /\ leader = [i \in Instance |-> FALSE]
    /\ pc = [i \in Instance |-> "off"]
    /\ timer = [i \in Instance |-> 0]
    /\ late = FALSE
    /\ faults = 0

\* What an instance does by itself.
Step(i) ==
    \/ Wake(i) \/ ExecuteSet(i) \/ Elected(i) \/ ExecuteGet(i)
    \/ ExecuteExpire(i) \/ Renewed(i) \/ Demoted(i) \/ Release(i)
    \/ ExecuteSetOnce(i) \/ RunBody(i) \/ Exit(i)

Next ==
    \/ \E i \in Instance :
          Start(i) \/ Enter(i) \/ Step(i) \/ Stop(i) \/ RedisError(i) \/ Crash(i)
    \/ Tick

Spec == Init /\ [][Next]_vars

\* Redis answers, the event loop goes on, time passes.
FairSpec ==
    /\ Spec
    /\ \A i \in Instance : WF_vars(Step(i))
    /\ WF_vars(Tick)

-----------------------------------------------------------------------------
(* Properties.                                                             *)

TypeOK ==
    /\ lock \in Instance \cup {Nobody}
    /\ ttl \in 0 .. LeaseTtl
    /\ leader \in [Instance -> BOOLEAN]
    /\ pc \in [Instance -> Pc]
    /\ timer \in [Instance -> Nat]
    /\ late \in BOOLEAN
    /\ faults \in 0 .. MaxFaults

Leads(i) == leader[i] /\ pc[i] # "off"

\* leader.py:67: only one instance holds leadership at a time.
OneLeader == \A i, k \in Instance : Leads(i) /\ Leads(k) => i = k

\* As long as no instance has been late there is one leader at most, in spite
\* of GET and EXPIRE being two commands, of lost answers, crashes and stops.
OneLeaderUnlessLate == ~late => OneLeader

\* However late an instance is, it never takes another one's lock away: a lock
\* goes when its lease is over or when its owner releases it.
OnlyOwnersUnlock ==
    [][lock # Nobody /\ lock' # lock
       => lock' = Nobody /\ (ttl = 1 \/ pc[lock] = "release")]_vars

\* A lost answer, an error or a crash leaves a lock behind that nobody renews;
\* still, while some instance runs its loop, there is always a leader again.
Electing(i) == pc[i] \in {"set", "won", "get", "expire", "renewed", "demoted", "sleep"}
LeaderAgain ==
    \A i \in Instance :
        <>[]Electing(i) => []<>(\E k \in Instance : Leads(k))
=============================================================================
