------------------------------ MODULE BatchWriter ------------------------------
(***************************************************************************)
(* The in-process event bus (titan.events.bus) and the micro-batch writer  *)
(* on it (titan.events.batch_writer): one loop hands the events to the     *)
(* writer, which buffers them and writes them in batches, when there are   *)
(* enough of them or when time is up.  Events are numbered in the order    *)
(* they are published.  The steps between two awaits are one action.       *)
(***************************************************************************)
EXTENDS Integers, Sequences, SequencesExt

CONSTANTS
    MaxEvents,      \* bound on the events published
    MaxSize,        \* max_size of the bus
    BatchSize,      \* batch_size of the writer
    MaxFaults       \* bound on the failures of Redis and PostgreSQL

ASSUME BatchAssumption == MaxEvents \in Nat /\ MaxSize \in Nat /\ MaxFaults \in Nat

VARIABLES
    published,  \* number of events published
    waiting,    \* the queue of the bus
    bus,        \* the loop of the bus: where it is, and its event
    buffer,
    timer,      \* where _periodic_flush is
    stopper,    \* where stop() is
    flushing,   \* what each of them took out of the buffer
    accepted,   \* the events that came into the buffer, in order (history)
    persisted,  \* those that a committed batch held (history)
    outages

batchVars == <<published, waiting, bus, buffer, timer, stopper, flushing, accepted,
               persisted, outages>>

\* The lock on the buffer is held across an await only while one of these flushes.
LockHeld == bus.pc = "flush" \/ timer = "flush"

Outage == outages < MaxFaults /\ outages' = outages + 1

-----------------------------------------------------------------------------
(* InMemoryEventBus.                                                       *)

\* publish waits while the queue is full.
Publish ==
    /\ published < MaxEvents /\ Len(waiting) < MaxSize
    /\ published' = published + 1
    /\ waiting' = Append(waiting, published')
    /\ UNCHANGED <<bus, buffer, timer, stopper, flushing, accepted, persisted, outages>>

\* _process_loop
Take ==
    /\ bus.pc = "idle" /\ waiting # <<>>
    /\ bus' = [pc |-> "update", event |-> Head(waiting)]
    /\ waiting' = Tail(waiting)
    /\ UNCHANGED <<published, buffer, timer, stopper, flushing, accepted, persisted, outages>>

\* The loop logs what a handler raises and goes on.
Idle == [pc |-> "idle", event |-> 0]

-----------------------------------------------------------------------------
(* A flush: _flush_buffer.                                                 *)

Begins(who) == flushing' = [flushing EXCEPT ![who] = buffer] /\ buffer' = <<>>

\* Mutant of Requeued: a batch that fails is dropped.
Dropped(events, rest) == rest

Requeued(events, rest) == events \o rest

\* The transaction commits; or it fails, whether or not the commit has arrived, and
\* the events go back to the front of the buffer.
Commits(who) ==
    /\ persisted' = persisted \cup ToSet(flushing[who])
    /\ flushing' = [flushing EXCEPT ![who] = <<>>]
    /\ UNCHANGED <<buffer, outages>>

FlushFails(who) ==
    /\ Outage
    /\ persisted' \in {persisted, persisted \cup ToSet(flushing[who])}
    /\ buffer' = Requeued(flushing[who], buffer)
    /\ flushing' = [flushing EXCEPT ![who] = <<>>]

\* A task that is cancelled in a flush does not put the events back: CancelledError
\* is no Exception.
Cancelled(who) ==
    /\ persisted' \in {persisted, persisted \cup ToSet(flushing[who])}
    /\ flushing' = [flushing EXCEPT ![who] = <<>>]

-----------------------------------------------------------------------------
(* The writer.                                                             *)

\* The cache and the broadcast come first; an event for which they fail is not
\* buffered.
UpdateCache ==
    /\ bus.pc = "update"
    /\ \/ bus' = [bus EXCEPT !.pc = "lock"] /\ UNCHANGED outages
       \/ bus' = Idle /\ Outage
    /\ UNCHANGED <<published, waiting, buffer, timer, stopper, flushing, accepted, persisted>>

Buffer ==
    LET more == Append(buffer, bus.event) IN
    /\ bus.pc = "lock" /\ ~LockHeld
    /\ accepted' = Append(accepted, bus.event)
    /\ IF Len(more) < BatchSize
       THEN bus' = Idle /\ buffer' = more /\ UNCHANGED flushing
       ELSE /\ bus' = [bus EXCEPT !.pc = "flush"]
            /\ buffer' = <<>> /\ flushing' = [flushing EXCEPT !.bus = more]
    /\ UNCHANGED <<published, waiting, timer, stopper, persisted, outages>>

BusFlushed ==
    /\ bus.pc = "flush"
    /\ Commits("bus") \/ FlushFails("bus")
    /\ bus' = Idle
    /\ UNCHANGED <<published, waiting, timer, stopper, accepted>>

TimeIsUp ==
    /\ timer = "sleep" /\ ~LockHeld /\ buffer # <<>>
    /\ timer' = "flush" /\ Begins("timer")
    /\ UNCHANGED <<published, waiting, bus, stopper, accepted, persisted, outages>>

\* Mutant of AfterFailure: the loop of the timer does not survive a failed flush.
GivesUp == "off"

AfterFailure == "sleep"

TimerFlushed ==
    /\ timer = "flush"
    /\ \/ Commits("timer") /\ timer' = "sleep"
       \/ FlushFails("timer") /\ timer' = AfterFailure
    /\ UNCHANGED <<published, waiting, bus, stopper, accepted>>

\* stop() cancels the timer, writes what is left in the buffer without taking the
\* lock, and then stops the bus, which goes on until then.
Stop ==
    /\ stopper = "off" /\ timer' = "off" /\ Cancelled("timer")
    /\ stopper' = "drain"
    /\ UNCHANGED <<published, waiting, bus, buffer, accepted, outages>>

Drain ==
    /\ stopper = "drain"
    /\ IF buffer = <<>> THEN stopper' = "bus" /\ UNCHANGED <<buffer, flushing>>
       ELSE stopper' = "flush" /\ Begins("stopper")
    /\ UNCHANGED <<published, waiting, bus, timer, accepted, persisted, outages>>

\* When this fails the bus is never stopped.
Drained ==
    /\ stopper = "flush"
    /\ \/ Commits("stopper") /\ stopper' = "bus"
       \/ FlushFails("stopper") /\ stopper' = "raised"
    /\ UNCHANGED <<published, waiting, bus, timer, accepted>>

StopBus ==
    /\ stopper = "bus" /\ stopper' = "stopped"
    /\ bus' = [pc |-> "off", event |-> 0] /\ Cancelled("bus")
    /\ UNCHANGED <<published, waiting, buffer, timer, accepted, outages>>

-----------------------------------------------------------------------------

BatchInit ==
    /\ published = 0 /\ waiting = <<>> /\ buffer = <<>>
    /\ bus = Idle /\ timer = "sleep" /\ stopper = "off"
    /\ flushing = [bus |-> <<>>, timer |-> <<>>, stopper |-> <<>>]
    /\ accepted = <<>> /\ persisted = {} /\ outages = 0

BusStep == Take \/ UpdateCache \/ Buffer \/ BusFlushed
TimerStep == TimeIsUp \/ TimerFlushed

BatchNext ==
    \/ Publish \/ BusStep \/ TimerStep
    \/ Stop \/ Drain \/ Drained \/ StopBus

BatchSpec == BatchInit /\ [][BatchNext]_batchVars

\* The two tasks run; nobody has to publish or to stop.
BatchFairSpec == BatchSpec /\ WF_batchVars(BusStep) /\ WF_batchVars(TimerStep)

-----------------------------------------------------------------------------
(* Properties.                                                             *)

\* The variables have their types, and only a task that flushes holds events.
BatchTypeOK ==
    /\ published \in 0 .. MaxEvents /\ Len(waiting) <= MaxSize /\ outages \in 0 .. MaxFaults
    /\ timer \in {"sleep", "flush", "off"}
    /\ stopper \in {"off", "drain", "flush", "raised", "bus", "stopped"}
    /\ persisted \subseteq ToSet(accepted)
    /\ flushing.bus # <<>> => bus.pc = "flush"
    /\ flushing.timer # <<>> => timer = "flush"
    /\ flushing.stopper # <<>> => stopper = "flush"

\* Until stop() is called, whichever of the two tasks flushes and fails, what is not
\* persisted is the end of what came in, in its order: it is in the hands of a task
\* or still in the buffer.  No batch overtakes another and none gets lost.
BatchesInOrder ==
    stopper = "off" =>
        LET left == flushing.bus \o flushing.timer \o buffer
            done == Len(accepted) - Len(left)
        IN /\ left = SubSeq(accepted, done + 1, Len(accepted))
           /\ ToSet(SubSeq(accepted, 1, done)) \subseteq persisted

\* Without stop(), every event that came into the buffer gets persisted in the end,
\* also the last ones that do not make a full batch and those of a failed one.
EveryEventFlushed ==
    \A e \in 1 .. MaxEvents :
        (e \in ToSet(accepted)) ~> (e \in persisted \/ stopper # "off")
=============================================================================
