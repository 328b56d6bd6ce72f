------------------------------ MODULE EventStream ------------------------------
(***************************************************************************)
(* The event bus over a Redis stream with a consumer group                 *)
(* (titan.events.redis_bus), as the start of the application wires it      *)
(* (titan.api.app).                                                        *)
(*                                                                         *)
(* Every instance publishes to the stream and consumes from the group; an  *)
(* event is its position in the stream.  An entry of the group's pending   *)
(* list counts its deliveries, and is idle once nobody has heard of it for *)
(* CLAIM_IDLE_MS: a consumer cannot tell the dead from the slow.  Nothing  *)
(* in the loop asks who owns an entry, so the owner is left out.  A step   *)
(* of the model is one Redis command, or one handler that ends, with the   *)
(* computation up to the next.                                             *)
(***************************************************************************)
EXTENDS Naturals, FiniteSets

CONSTANTS
    Consumer,           \* the instances
    Handlers,           \* how many handlers an instance subscribes
    SubscribedAtStart,  \* how many of them before it starts the bus
    MaxRetries,         \* MAX_RETRIES
    BatchSize,          \* BATCH_SIZE
    MaxLen,             \* maxlen of the stream
    MaxEvents,          \* bound on the events published
    MaxFaults           \* bound on crashes, stops and Redis errors

ASSUME StreamAssumption ==
    /\ IsFiniteSet(Consumer)
    /\ Handlers \in Nat /\ SubscribedAtStart \in 0 .. Handlers
    /\ MaxRetries \in Nat \ {0} /\ BatchSize \in Nat \ {0} /\ MaxLen \in Nat \ {0}
    /\ MaxEvents \in Nat /\ MaxFaults \in Nat

VARIABLES
    published,      \* how many events were added to the stream
    trimmed,        \* how many of them, the oldest, are gone again
    delivered,      \* last-delivered-id of the group
    entry,          \* [Event -> Entry]: the pending list
    dead,           \* events in the dead letter stream
    handled,        \* <<e, h>>: handler h has returned for event e
    consumer,       \* [Consumer -> Loop]
    faults

vars == <<published, trimmed, delivered, entry, dead, handled, consumer, faults>>

Event == 1 .. MaxEvents
Handler == 1 .. Handlers

\* What XPENDING tells of an entry; an event that is not in the list has none.
Entry == [count : Nat, idle : BOOLEAN]
NoEntry == [count |-> 0, idle |-> FALSE]

Pending(e) == entry[e].count > 0
Retained(e) == trimmed < e

\* Where the loop of a consumer is ("off" when there is none): before
\* XPENDING; at the first of the entries it has reported; before the XADD and
\* the XACK of a dead letter; handling that entry, claimed; before XREADGROUP;
\* handling the first of the messages it has read.
Pc == {"off", "scan", "entry", "bury", "buried", "claimed", "read", "new"}

\* subscribed: handlers in the list; todo: what XPENDING or XREADGROUP has
\* reported and is not dealt with; next: the handler that has the first of it.
Message == [event : Event, count : Nat]
Loop == [pc : Pc, subscribed : 0 .. Handlers, todo : SUBSET Message,
         next : Nat \ {0}]

Off == [pc |-> "off", subscribed |-> 0, todo |-> {}, next |-> 1]

On(c, pc) == consumer[c].pc = pc

\* Redis reports in the order of the stream: {the first message}, or {}.
First(c) == {m \in consumer[c].todo : \A o \in consumer[c].todo : m.event <= o.event}

GoTo(c, pc, todo) ==
    consumer' = [consumer EXCEPT ![c].pc = pc, ![c].todo = todo, ![c].next = 1]

\* From m on to the next of what was reported, or out of its loop.
GoOn(c, m) ==
    LET rest == consumer[c].todo \ {m}
    IN  GoTo(c, CASE rest # {} /\ On(c, "new") -> "new"
                  [] rest # {} /\ ~On(c, "new") -> "entry"
                  [] rest = {} /\ On(c, "new") -> "scan"
                  [] rest = {} /\ ~On(c, "new") -> "read",
             rest)

-----------------------------------------------------------------------------
(* Publishing and starting.                                                *)

\* publish: XADD with an approximate maxlen: Redis may then drop the oldest
\* events, but none of the last MaxLen.
Publish ==
    /\ published < MaxEvents
    /\ published' = published + 1
    /\ \E n \in trimmed .. MaxEvents :
          /\ n = trimmed \/ n + MaxLen <= published'
          /\ trimmed' = n
    /\ UNCHANGED <<delivered, entry, dead, handled, consumer, faults>>

\* start, with the handlers that have been subscribed by then.
Start(c) ==
    /\ On(c, "off")
    /\ consumer' = [consumer EXCEPT ![c] =
                      [pc |-> "scan", subscribed |-> SubscribedAtStart, todo |-> {}, next |-> 1]]
    /\ UNCHANGED <<published, trimmed, delivered, entry, dead, handled, faults>>

\* subscribe, later in the start of the application.
Subscribe(c) ==
    /\ ~On(c, "off")
    /\ consumer[c].subscribed < Handlers
    /\ consumer' = [consumer EXCEPT ![c].subscribed = @ + 1]
    /\ UNCHANGED <<published, trimmed, delivered, entry, dead, handled, faults>>

-----------------------------------------------------------------------------
(* Entries that were pending too long: _claim_pending_messages.            *)

\* XPENDING reports the first BATCH_SIZE entries, whoever owns them ...
Reported == {e \in Event : Pending(e) /\
                Cardinality({x \in 1 .. (e - 1) : Pending(x)}) < BatchSize}

\* Mutant of Scan: a wrong field name for times_delivered, which defaults to 0.
ScanUncounted(c) ==
    /\ On(c, "scan")
    /\ LET idle == {e \in Reported : entry[e].idle}
       IN  GoTo(c, IF idle = {} THEN "read" ELSE "entry",
                {[event |-> e, count |-> 0] : e \in idle})
    /\ UNCHANGED <<published, trimmed, delivered, entry, dead, handled, faults>>

\* ... and those that are idle are dealt with one after the other, on what was
\* reported of them.
Scan(c) ==
    /\ On(c, "scan")
    /\ LET idle == {e \in Reported : entry[e].idle}
       IN  GoTo(c, IF idle = {} THEN "read" ELSE "entry",
                {[event |-> e, count |-> entry[e].count] : e \in idle})
    /\ UNCHANGED <<published, trimmed, delivered, entry, dead, handled, faults>>

\* XCLAIM of an entry that is idle still; the pending list loses an event that
\* is gone.
XClaim(e) ==
    entry' = [entry EXCEPT ![e] =
                IF ~@.idle THEN @
                ELSE IF Retained(e) THEN [count |-> @.count + 1, idle |-> FALSE]
                ELSE NoEntry]

Claim(c) ==
    /\ On(c, "entry")
    /\ \E m \in First(c) :
          /\ m.count < MaxRetries
          /\ XClaim(m.event)
          /\ IF entry[m.event].idle /\ Retained(m.event)
             THEN GoTo(c, "claimed", consumer[c].todo)
             ELSE GoOn(c, m)
    /\ UNCHANGED <<published, trimmed, delivered, dead, handled, faults>>

\* _move_to_dead_letter: XRANGE, ...
Fetch(c) ==
    /\ On(c, "entry")
    /\ \E m \in First(c) :
          /\ m.count >= MaxRetries
          /\ GoTo(c, IF Retained(m.event) THEN "bury" ELSE "buried", consumer[c].todo)
    /\ UNCHANGED <<published, trimmed, delivered, entry, dead, handled, faults>>

\* ... XADD to the dead letters, ...
Bury(c) ==
    /\ On(c, "bury")
    /\ \E m \in First(c) : dead' = dead \cup {m.event}
    /\ GoTo(c, "buried", consumer[c].todo)
    /\ UNCHANGED <<published, trimmed, delivered, entry, handled, faults>>

\* Mutant of Buried: the XACK is forgotten.
BuriedUnacknowledged(c) ==
    /\ On(c, "buried")
    /\ \E m \in First(c) : GoOn(c, m)
    /\ UNCHANGED <<published, trimmed, delivered, entry, dead, handled, faults>>

\* ... and XACK.
Buried(c) ==
    /\ On(c, "buried")
    /\ \E m \in First(c) :
          /\ entry' = [entry EXCEPT ![m.event] = NoEntry]
          /\ GoOn(c, m)
    /\ UNCHANGED <<published, trimmed, delivered, dead, handled, faults>>

-----------------------------------------------------------------------------
(* Reading and handling: _consume_loop, _process_message.                  *)

\* The next BATCH_SIZE events for the group; what was trimmed is skipped.
From == IF delivered < trimmed THEN trimmed ELSE delivered
\* Mutant of To: a whole batch even when there are fewer events.
ToFullBatch == From + BatchSize
To == IF published < From + BatchSize THEN published ELSE From + BatchSize
Fresh == (From + 1) .. To

Deliver ==
    /\ delivered' = IF Fresh = {} THEN delivered ELSE To
    /\ entry' = [e \in Event |-> IF e \in Fresh THEN [count |-> 1, idle |-> FALSE]
                                                ELSE entry[e]]

\* XREADGROUP
Read(c) ==
    /\ On(c, "read")
    /\ Deliver
    /\ GoTo(c, IF Fresh = {} THEN "scan" ELSE "new",
            {[event |-> e, count |-> 1] : e \in Fresh})
    /\ UNCHANGED <<published, trimmed, dead, handled, faults>>

Handling(c) == On(c, "claimed") \/ On(c, "new")
AllHandled(c) == consumer[c].next > consumer[c].subscribed

\* The next handler in the list, which may have grown meanwhile, returns ...
HandlerReturns(c) ==
    /\ Handling(c)
    /\ ~AllHandled(c)
    /\ \E m \in First(c) : handled' = handled \cup {<<m.event, consumer[c].next>>}
    /\ consumer' = [consumer EXCEPT ![c].next = @ + 1]
    /\ UNCHANGED <<published, trimmed, delivered, entry, dead, faults>>

\* Mutant of HandlerRaises: XACK in a `finally`.
HandlerRaisesAcknowledging(c) ==
    /\ Handling(c)
    /\ ~AllHandled(c)
    /\ \E m \in First(c) :
          /\ entry' = [entry EXCEPT ![m.event] = NoEntry]
          /\ GoOn(c, m)
    /\ UNCHANGED <<published, trimmed, delivered, dead, handled, faults>>

\* ... or raises: the event is not acknowledged, and the handlers that have
\* returned will have it once more.
HandlerRaises(c) ==
    /\ Handling(c)
    /\ ~AllHandled(c)
    /\ \E m \in First(c) : GoOn(c, m)
    /\ UNCHANGED <<published, trimmed, delivered, entry, dead, handled, faults>>

\* XACK after the last handler, whoever owns the entry by now.
Acknowledge(c) ==
    /\ Handling(c)
    /\ AllHandled(c)
    /\ \E m \in First(c) :
          /\ entry' = [entry EXCEPT ![m.event] = NoEntry]
          /\ GoOn(c, m)
    /\ UNCHANGED <<published, trimmed, delivered, dead, handled, faults>>

-----------------------------------------------------------------------------
(* Time and faults.                                                        *)

\* CLAIM_IDLE_MS have gone by since the last delivery.
Age(e) ==
    /\ Pending(e) /\ ~entry[e].idle
    /\ entry' = [entry EXCEPT ![e].idle = TRUE]
    /\ UNCHANGED <<published, trimmed, delivered, dead, handled, consumer, faults>>

Fault == faults < MaxFaults /\ faults' = faults + 1

\* A killed process, or stop; another one may start in its place.
Stop(c) ==
    /\ ~On(c, "off")
    /\ Fault
    /\ consumer' = [consumer EXCEPT ![c] = Off]
    /\ UNCHANGED <<published, trimmed, delivered, entry, dead, handled>>

\* XREADGROUP fails, executed or not, and the loop starts over.
ReadRaises(c) ==
    /\ On(c, "read")
    /\ Fault
    /\ Deliver \/ UNCHANGED <<delivered, entry>>
    /\ GoTo(c, "scan", {})
    /\ UNCHANGED <<published, trimmed, dead, handled>>

\* XPENDING or XCLAIM, executed or not, fails: that ends the claims for this
\* turn of the loop.
ClaimRaises(c) ==
    /\ Fault
    /\ \/ On(c, "scan") /\ UNCHANGED entry
       \/ /\ On(c, "entry")
          /\ \E m \in First(c) : m.count < MaxRetries /\ (XClaim(m.event) \/ UNCHANGED entry)
    /\ GoTo(c, "read", {})
    /\ UNCHANGED <<published, trimmed, delivered, dead, handled>>

\* A failure about a dead letter or an acknowledgement, executed or not, is
\* caught, and the next message is dealt with.
CaughtOnTheWay(c) ==
    /\ Fault
    /\ \E m \in First(c) :
          /\ \/ On(c, "entry") /\ m.count >= MaxRetries /\ UNCHANGED dead
             \/ On(c, "bury") /\ (dead' = dead \cup {m.event} \/ UNCHANGED dead)
             \/ On(c, "buried") /\ UNCHANGED dead
             \/ Handling(c) /\ AllHandled(c) /\ UNCHANGED dead
          /\ GoOn(c, m)
    /\ UNCHANGED <<published, trimmed, delivered, entry, handled>>

-----------------------------------------------------------------------------
Init ==
    /\ published = 0 /\ trimmed = 0 /\ delivered = 0
    /\ entry = [e \in Event |-> NoEntry]
    /\ dead = {} /\ handled = {}
    /\ consumer = [c \in Consumer |-> Off]
    /\ faults = 0

\* What a consumer that is running does by itself.
Step(c) ==
    \/ Scan(c) \/ Claim(c) \/ Fetch(c) \/ Bury(c) \/ Buried(c)
    \/ Read(c) \/ HandlerReturns(c) \/ HandlerRaises(c) \/ Acknowledge(c)

Next ==
    \/ Publish
    \/ \E c \in Consumer :
          \/ Start(c) \/ Subscribe(c) \/ Step(c)
          \/ Stop(c) \/ ReadRaises(c) \/ ClaimRaises(c) \/ CaughtOnTheWay(c)
    \/ \E e \in Event : Age(e)

Spec == Init /\ [][Next]_vars

\* The loops go on, handlers end, time passes; nobody has to publish, to start
\* or to subscribe.
Fairness ==
    /\ \A c \in Consumer : WF_vars(Step(c))
    /\ \A e \in Event : WF_vars(Age(e))

FairSpec == Spec /\ Fairness

-----------------------------------------------------------------------------
(* Properties.                                                             *)

\* Every variable keeps its type (stream, pending list, consumers).
TypeOK ==
    /\ published \in 0 .. MaxEvents
    /\ trimmed \in 0 .. published /\ delivered \in 0 .. published
    /\ entry \in [Event -> Entry]
    /\ dead \in SUBSET Event
    /\ handled \in SUBSET (Event \X Handler)
    /\ consumer \in [Consumer -> Loop]
    /\ faults \in 0 .. MaxFaults

\* The group is through with an event that is in the stream.
Settled(e) == e <= delivered /\ ~Pending(e) /\ Retained(e)

Processed(e, n) == e \in dead \/ \A h \in 1 .. n : <<e, h>> \in handled

\* At least once, whatever is slow, raises, stops or gets no answer: an event
\* that the group is through with is dead-lettered, or was handled by every
\* handler that was subscribed in time (redis_bus._process_message acknowledges
\* last); unless the stream was trimmed.
AtLeastOnce == \A e \in Event : Settled(e) => Processed(e, SubscribedAtStart)

\* Claims are made on what XPENDING reported some time ago
\* (_claim_pending_messages), so MAX_RETRIES is not a bound on the deliveries;
\* but each of the other consumers can only add one.
DeliveriesBounded ==
    \A e \in Event : entry[e].count < MaxRetries + Cardinality(Consumer)

\* As long as somebody consumes, the group gets through with every event: it is
\* handled, or its retries run out (_consume_loop); or it was trimmed unread.
EveryEventSettled ==
    \A e \in Event : e <= published ~> \/ ~Pending(e) /\ (e <= delivered \/ ~Retained(e))
                                       \/ \A c \in Consumer : On(c, "off")

\* docs/adr/0003-redis-streams-events.md:20: every event must be processed.
\* The application starts the bus before it subscribes the handlers (app.py),
\* and what is consumed in between is acknowledged unheard.
EveryEventProcessed == \A e \in Event : Settled(e) => Processed(e, Handlers)
=============================================================================
