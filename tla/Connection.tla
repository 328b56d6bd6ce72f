------------------------------ MODULE Connection ------------------------------
(***************************************************************************)
(* A connection manager (titan.connectors.mqtt, opcua.connection and       *)
(* modbus.connection, which are copies of each other) with those that use  *)
(* it: publishers, which want a client for one message, a reader, which    *)
(* keeps it and iterates over its messages, and the setup of the           *)
(* application.  asyncio.Lock serves in the order in which it is asked.    *)
(***************************************************************************)
EXTENDS Integers, Sequences, SequencesExt

CONSTANTS
    Publisher, Reader,  \* the users of the connection
    Setup, Loop, Close, \* get_..._connection_manager, _reconnect_loop, disconnect
    MaxAttempts,        \* max_reconnect_attempts
    MaxLosses           \* bound on the connections that break

ASSUME AttemptsAssumption == MaxAttempts \in Nat \ {0} /\ MaxLosses \in Nat
ASSUME TaskAssumption ==
    /\ Setup # Loop /\ Setup # Close /\ Loop # Close
    /\ {Setup, Loop, Close} \cap (Publisher \cup Reader) = {}

VARIABLES
    state,      \* _state
    client,     \* _client: "none", "dead", or "live" when its connection is up
    lock,       \* who holds _lock, and those who wait for it behind
    at,         \* [Task -> where it is]
    reconnects, \* _reconnect_attempts
    shutdown,   \* _shutdown_event
    losses

connectionVars == <<state, client, lock, at, reconnects, shutdown, losses>>

User == Publisher \cup Reader
Task == User \cup {Setup, Loop, Close}

-----------------------------------------------------------------------------
(* connect.                                                                *)

\* A new client, whose connection is being opened.
Opening(t) ==
    /\ state' = "connecting"
    /\ client' = "dead"
    /\ at' = [at EXCEPT ![t] = "opening"]

\* connect() asks for the lock; the caller has seen that it is not connected.
Connect(t) ==
    /\ lock' = Append(lock, t)
    /\ IF lock = <<>> THEN Opening(t)
       ELSE at' = [at EXCEPT ![t] = "waiting"] /\ UNCHANGED <<state, client>>

\* Where a task goes that has a client, and where one goes that has none: the
\* event handlers of a publisher swallow the error, the reader tries again.
With(t) == IF t \in User THEN "using" ELSE "idle"
Without(t) == IF t \in Reader THEN "asleep" ELSE "idle"

OpenSucceeds(t) ==
    /\ at[t] = "opening"
    /\ state' = "connected"
    /\ client' = "live"
    /\ reconnects' = 0
    /\ lock' = Tail(lock)
    /\ at' = [at EXCEPT ![t] = With(t)]
    /\ UNCHANGED <<shutdown, losses>>

\* Mutant of Released: a failed attempt keeps the lock.
NotReleased(t) == lock

Released(t) == Tail(lock)

\* The user has failed, and starts the reconnect loop unless there is one.
UserFails(t) ==
    LET failed == [at EXCEPT ![t] = Without(t)] IN
    /\ reconnects' = reconnects
    /\ IF t = Setup \/ at[Loop] # "idle"
       THEN /\ state' = "disconnected"
            /\ lock' = Released(t) /\ at' = failed /\ UNCHANGED client
       ELSE IF shutdown
       THEN /\ state' = "reconnecting"
            /\ lock' = Released(t) /\ at' = failed /\ UNCHANGED client
       ELSE /\ lock' = Append(Released(t), Loop)
            /\ state' = IF Released(t) = <<>> THEN "connecting" ELSE "reconnecting"
            /\ client' = "dead"
            /\ at' = [failed EXCEPT ![Loop] =
                        IF Released(t) = <<>> THEN "opening" ELSE "waiting"]

\* Mutant of Counted: a failed attempt starts the count anew.
CountedAnew == 0

\* The count goes on after the last attempt; it is only compared with it.
Counted == IF reconnects < MaxAttempts THEN reconnects + 1 ELSE reconnects

LoopFails ==
    /\ lock' = Released(Loop)
    /\ reconnects' = Counted
    /\ UNCHANGED client
    /\ IF Counted >= MaxAttempts
       THEN state' = "failed" /\ at' = [at EXCEPT ![Loop] = "idle"]
       ELSE state' = "disconnected" /\ at' = [at EXCEPT ![Loop] = "asleep"]

OpenFails(t) ==
    /\ at[t] = "opening"
    /\ IF t = Loop THEN LoopFails ELSE UserFails(t)
    /\ UNCHANGED <<shutdown, losses>>

\* Mutant of Proceed: connect() does not look at the state again.
ProceedBlindly(t) == Opening(t) /\ UNCHANGED lock

\* The task that has waited gets the lock.  Somebody may have connected.
Proceed(t) ==
    IF state = "connected"
    THEN /\ lock' = Tail(lock)
         /\ at' = [at EXCEPT ![t] = With(t)]
         /\ UNCHANGED <<state, client>>
    ELSE Opening(t) /\ UNCHANGED lock

GetLock(t) ==
    /\ at[t] = "waiting" /\ Head(lock) = t /\ t # Close
    /\ Proceed(t)
    /\ UNCHANGED <<reconnects, shutdown, losses>>

-----------------------------------------------------------------------------
(* The users.                                                              *)

SetUp ==
    /\ at[Setup] = "new"
    /\ Connect(Setup)
    /\ UNCHANGED <<reconnects, shutdown, losses>>

\* ensure_connected, for an event to publish or by the loop of the reader.
EnsureConnected(t) ==
    /\ t \in User
    /\ at[Setup] # "new" /\ at[t] \in {"idle", "asleep"}
    /\ \/ /\ state = "connected" /\ client # "none"
          /\ at' = [at EXCEPT ![t] = "using"]
          /\ UNCHANGED <<state, client, lock>>
       \/ /\ state = "failed"
          /\ at' = [at EXCEPT ![t] = Without(t)]
          /\ UNCHANGED <<state, client, lock>>
       \/ ~(state = "connected" /\ client # "none") /\ state # "failed" /\ Connect(t)
    /\ UNCHANGED <<reconnects, shutdown, losses>>

\* The message is published, or the client raises.
Published(p) ==
    /\ p \in Publisher /\ at[p] = "using"
    /\ at' = [at EXCEPT ![p] = "idle"]
    /\ UNCHANGED <<state, client, lock, reconnects, shutdown, losses>>

\* subscribe or the iteration raises, or the iteration ends.
ReadingEnds(r) ==
    /\ r \in Reader /\ at[r] = "using" /\ client # "live"
    /\ at' = [at EXCEPT ![r] = "asleep"]
    /\ UNCHANGED <<state, client, lock, reconnects, shutdown, losses>>

\* stop() of the reader cancels its loop, wherever it is; a connect() that is
\* cut short leaves the state as it is.
StopReader(r) ==
    /\ r \in Reader /\ at[r] # "idle"
    /\ at' = [at EXCEPT ![r] = "idle"]
    /\ lock' = RemoveFirst(lock, r)
    /\ UNCHANGED <<state, client, reconnects, shutdown, losses>>

LoopWakes ==
    /\ at[Loop] = "asleep"
    /\ IF shutdown THEN at' = [at EXCEPT ![Loop] = "idle"] /\ UNCHANGED <<state, client, lock>>
       ELSE IF state = "connected" /\ lock = <<>>
       THEN at' = [at EXCEPT ![Loop] = "idle"] /\ UNCHANGED <<state, client, lock>>
       ELSE Connect(Loop)
    /\ UNCHANGED <<reconnects, shutdown, losses>>

\* disconnect: the reconnect loop is cancelled, then the lock is asked for.
Disconnect ==
    LET others == RemoveFirst(lock, Loop) IN
    /\ ~shutdown /\ shutdown' = TRUE
    /\ at[Setup] = "idle"
    /\ lock' = Append(others, Close)
    /\ at' = [at EXCEPT ![Loop] = "idle", ![Close] = IF others = <<>> THEN "closing" ELSE "waiting"]
    /\ UNCHANGED <<state, client, reconnects, losses>>

CloseGetsLock ==
    /\ at[Close] = "waiting" /\ Head(lock) = Close
    /\ at' = [at EXCEPT ![Close] = "closing"]
    /\ UNCHANGED <<state, client, lock, reconnects, shutdown, losses>>

Closed ==
    /\ at[Close] = "closing"
    /\ client' = "none"
    /\ state' = "disconnected"
    /\ lock' = Tail(lock)
    /\ at' = [at EXCEPT ![Close] = "idle"]
    /\ UNCHANGED <<reconnects, shutdown, losses>>

\* The broker goes away, or the network.  The manager does not notice.
ConnectionBreaks ==
    /\ client = "live"
    /\ losses < MaxLosses /\ losses' = losses + 1
    /\ client' = "dead"
    /\ UNCHANGED <<state, lock, at, reconnects, shutdown>>

-----------------------------------------------------------------------------
Init ==
    /\ state = "disconnected" /\ client = "none"
    /\ lock = <<>>
    /\ at = [t \in Task |-> IF t = Setup THEN "new" ELSE "idle"]
    /\ reconnects = 0
    /\ shutdown = FALSE
    /\ losses = 0

\* What happens by itself: answers come, the lock is handed on, sleeps end.
ConnectionStep(t) ==
    \/ OpenSucceeds(t) \/ OpenFails(t) \/ GetLock(t)
    \/ Published(t) \/ ReadingEnds(t)
    \/ t = Loop /\ LoopWakes
    \/ t = Close /\ (CloseGetsLock \/ Closed)
    \/ t \in Reader /\ at[t] = "asleep" /\ EnsureConnected(t)

Next ==
    \/ \E t \in Task : ConnectionStep(t)
    \/ SetUp
    \/ \E u \in User : EnsureConnected(u) \/ StopReader(u)
    \/ Disconnect
    \/ ConnectionBreaks

Spec == Init /\ [][Next]_connectionVars

FairSpec == Spec /\ \A t \in Task : WF_connectionVars(ConnectionStep(t))

-----------------------------------------------------------------------------
(* Properties.                                                             *)

TypeOK ==
    /\ state \in {"disconnected", "connecting", "connected", "reconnecting", "failed"}
    /\ client \in {"none", "dead", "live"}
    /\ lock \in Seq(Task) /\ IsInjective(lock)
    /\ at \in [Task -> {"new", "idle", "waiting", "opening", "using", "asleep", "closing"}]
    /\ reconnects \in 0 .. MaxAttempts
    /\ shutdown \in BOOLEAN
    /\ losses \in 0 .. MaxLosses

\* A connection that is up ends only when it breaks or when disconnect closes it:
\* no task that has waited for the lock, been told of an error or slept meanwhile
\* opens another one in its place.
LiveClientKept ==
    [][client = "live" /\ client' # "live" => ConnectionBreaks \/ Closed]_connectionVars

\* A publisher that asks for a client ends, with one or with an error, although
\* the others fail, are cancelled and shut down around it; and the reconnect loop
\* ends, connected or failed.
EveryCallAnswered ==
    /\ \A p \in Publisher : at[p] # "idle" ~> at[p] = "idle"
    /\ at[Loop] # "idle" ~> at[Loop] = "idle"
=============================================================================
