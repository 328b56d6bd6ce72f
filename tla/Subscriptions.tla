----------------------------- MODULE Subscriptions -----------------------------
(***************************************************************************)
(* The clients that are told of events while they happen: WebSockets       *)
(* (titan.api.routers.websocket) and GraphQL subscriptions                 *)
(* (titan.graphql.subscription_manager), both handlers of the event bus,   *)
(* which hands them one event after the other, numbered here from 1.       *)
(* An event is about a topic: an entity type and an identifier, and for    *)
(* GraphQL an event type.                                                  *)
(***************************************************************************)
EXTENDS Integers, Sequences, FiniteSets, SequencesExt, Absence

CONSTANTS
    Socket,         \* WebSocket connections
    Stream,         \* GraphQL subscriptions
    Topic,
    MaxQueue,       \* max_queue_size of a subscription
    MaxEvents       \* bound on the events

\* A WebSocket connection and a GraphQL subscription.
ConnectionOf == [filter : SUBSET Topic, since : Nat, received : Seq(Nat), alive : BOOLEAN]
SubscriptionOf == [filter : SUBSET Topic, since : Nat, queue : Seq(Nat), yielded : Seq(Nat),
                   registered : BOOLEAN]

ASSUME SubscriptionsAssumption ==
    /\ MaxQueue \in Nat \ {0} /\ MaxEvents \in Nat
    /\ Nothing \notin ConnectionOf \cup SubscriptionOf

VARIABLES
    topic,          \* the topics of the events so far, in order
    socket,         \* [Socket -> the connection, or Nothing before and after it]
    broadcast,      \* the sockets that are still to be sent the last event
    stream,         \* [Stream -> the subscription, or Nothing]
    streaming       \* the SubscriptionManager has not been stopped

subscriptionVars == <<topic, socket, broadcast, stream, streaming>>

\* SubscriptionFilter.matches, _matches_filter: a filter is a set of topics.
Matches(filter, n) == topic[n] \in filter

Filter == {Topic} \cup {{t} : t \in Topic}

Event == Len(topic)

-----------------------------------------------------------------------------
(* WebSockets.                                                             *)

Alive == {c \in Socket : socket[c] # Nothing /\ socket[c].alive}

\* A name is used again when the broadcast to its last connection is over.
Connect(c) ==
    /\ socket[c] = Nothing /\ c \notin broadcast
    /\ \E filter \in Filter :
          socket' = [socket EXCEPT ![c] = [filter |-> filter, since |-> Event + 1,
                                           received |-> <<>>, alive |-> TRUE]]
    /\ UNCHANGED <<topic, broadcast, stream, streaming>>

\* The connection breaks; the server notices later, when it reads from it.
Break(c) ==
    /\ c \in Alive
    /\ socket' = [socket EXCEPT ![c].alive = FALSE]
    /\ UNCHANGED <<topic, broadcast, stream, streaming>>

Disconnect(c) ==
    /\ socket[c] # Nothing /\ c \notin Alive
    /\ socket' = [socket EXCEPT ![c] = Nothing]
    /\ UNCHANGED <<topic, broadcast, stream, streaming>>

\* Mutant of SendFails: what the send raises ends the broadcast.
EndsBroadcast(c) == {}

SendFails(c) == broadcast \ {c}

\* The sockets were collected under the lock when the broadcast began; the sends are
\* awaited one after the other, while sockets come and go.  Sending to one that is
\* broken or gone raises.
Send(c) ==
    /\ c \in broadcast
    /\ \/ /\ c \in Alive
          /\ socket' = [socket EXCEPT ![c].received =
                            IF Matches(socket[c].filter, Event) THEN Append(@, Event) ELSE @]
          /\ broadcast' = broadcast \ {c}
       \/ /\ c \notin Alive
          /\ broadcast' = SendFails(c)
          /\ UNCHANGED socket
    /\ UNCHANGED <<topic, stream, streaming>>

-----------------------------------------------------------------------------
(* GraphQL subscriptions.                                                  *)

\* A manager that was stopped still registers subscriptions.
Register(s) ==
    /\ stream[s] = Nothing
    /\ \E filter \in Filter :
          stream' = [stream EXCEPT ![s] = [filter |-> filter, since |-> Event + 1, queue |-> <<>>,
                                           yielded |-> <<>>, registered |-> TRUE]]
    /\ UNCHANGED <<topic, socket, broadcast, streaming>>

\* Mutant of MadeRoom: the newest event is the one that is dropped.
MadeRoomAtEnd(queue) == Front(queue)

MadeRoom(queue) == Tail(queue)

\* _handle_event puts the next event into the queue; a full one loses its oldest entry.
Offered(sub, t) ==
    IF ~sub.registered \/ t \notin sub.filter THEN sub
    ELSE [sub EXCEPT !.queue =
             Append(IF Len(@) = MaxQueue THEN MadeRoom(@) ELSE @, Event + 1)]

End == 0

\* The resolver passes over an event whose document cannot be read.
Resolved(yielded, n) == {Append(yielded, n), yielded}

\* _iter_events hands out what is in the queue, or waits; None ends it.
Yield(s) ==
    LET sub == stream[s] IN
    /\ sub # Nothing /\ sub.queue # <<>>
    /\ \/ /\ Head(sub.queue) = End
          /\ stream' = [stream EXCEPT ![s] = Nothing]
       \/ /\ Head(sub.queue) # End
          /\ \E yielded \in Resolved(sub.yielded, Head(sub.queue)) :
                stream' = [stream EXCEPT ![s].queue = Tail(@), ![s].yielded = yielded]
    /\ UNCHANGED <<topic, socket, broadcast, streaming>>

\* The client goes away.
Unsubscribe(s) ==
    /\ stream[s] # Nothing
    /\ stream' = [stream EXCEPT ![s] = Nothing]
    /\ UNCHANGED <<topic, socket, broadcast, streaming>>

\* stop() puts None into the queues that have room and forgets the subscriptions.
StopManager ==
    /\ streaming /\ streaming' = FALSE
    /\ stream' = [s \in Stream |->
                     IF stream[s] = Nothing THEN Nothing
                     ELSE [stream[s] EXCEPT !.registered = FALSE,
                              !.queue = IF Len(@) = MaxQueue THEN @ ELSE Append(@, End)]]
    /\ UNCHANGED <<topic, socket, broadcast>>

-----------------------------------------------------------------------------

\* The bus hands out the next event when all handlers are done with the last.
Happens(t) ==
    /\ Event < MaxEvents /\ broadcast = {}
    /\ topic' = Append(topic, t)
    /\ broadcast' = {c \in Socket : socket[c] # Nothing}
    /\ stream' = [s \in Stream |-> IF stream[s] = Nothing THEN Nothing ELSE Offered(stream[s], t)]
    /\ UNCHANGED <<socket, streaming>>

SubscriptionsInit ==
    /\ topic = <<>> /\ broadcast = {} /\ streaming = TRUE
    /\ socket = [c \in Socket |-> Nothing]
    /\ stream = [s \in Stream |-> Nothing]

SubscriptionsNext ==
    \/ \E t \in Topic : Happens(t)
    \/ \E c \in Socket : Connect(c) \/ Break(c) \/ Disconnect(c) \/ Send(c)
    \/ \E s \in Stream : Register(s) \/ Yield(s) \/ Unsubscribe(s)
    \/ StopManager

SubscriptionsSpec == SubscriptionsInit /\ [][SubscriptionsNext]_subscriptionVars

-----------------------------------------------------------------------------
(* Properties.                                                             *)

\* Connections and subscriptions have their types.
SubscriptionsTypeOK ==
    /\ topic \in BoundedSeq(Topic, MaxEvents) /\ broadcast \subseteq Socket
    /\ \A c \in Socket : socket[c] # Nothing => socket[c].since \in 1 .. Event + 1
    /\ \A s \in Stream : stream[s] # Nothing =>
          /\ Len(stream[s].queue) <= MaxQueue
          /\ stream[s].registered => streaming \/ End \notin ToSet(stream[s].queue)

\* The events from the first to the last that a filter lets through.
Matching(filter, first, last) == {n \in first .. last : Matches(filter, n)}

Ascending(events) == \A i, j \in DOMAIN events : i < j => events[i] < events[j]

\* The last event that was sent to a socket.
SentUpTo(c) == IF c \in broadcast THEN Event - 1 ELSE Event

\* A connected client has been sent every event that its filter lets through, from
\* the first after it connected to the last whose broadcast has come to it, once and
\* in order, whatever other clients do while a broadcast is under way: break,
\* leave or come.
SocketsMissNothing ==
    \A c \in Alive :
        /\ ToSet(socket[c].received) = Matching(socket[c].filter, socket[c].since, SentUpTo(c))
        /\ Ascending(socket[c].received)

\* What waits in the queue of a subscription are the newest events that it asked
\* for, without a gap, and what it was given before is older and in order: a slow
\* client loses old events, never new ones.
NewestKept ==
    \A s \in Stream : stream[s] # Nothing /\ stream[s].registered =>
        LET sub == stream[s]
            all == Matching(sub.filter, sub.since, Event)
        IN /\ ToSet(sub.queue) \subseteq all /\ ToSet(sub.yielded) \subseteq all
           /\ \A n \in all, q \in ToSet(sub.queue) : q <= n => n \in ToSet(sub.queue)
           /\ \A n \in ToSet(sub.yielded), q \in ToSet(sub.queue) : n < q
           /\ Ascending(sub.queue) /\ Ascending(sub.yielded)

\* Both, of the two handlers of the same events.
SubscribersServed == SocketsMissNothing /\ NewestKept
=============================================================================
