--------------------------- MODULE EventStreamProofs ---------------------------
(***************************************************************************)
(* Theorems about EventStream, for any number of instances, handlers,      *)
(* retries and events, and any batch and stream lengths.                   *)
(***************************************************************************)
EXTENDS EventStream, FiniteSetTheorems, TLAPS

-----------------------------------------------------------------------------
(* The inductive invariant.                                                *)

\* A running consumer has the handlers it started with.
Subscribed(c) == ~On(c, "off") => consumer[c].subscribed >= SubscribedAtStart

\* The handlers before the next have returned for the message at hand.
InOrder(c) ==
    Handling(c) => \A m \in First(c) : \A h \in 1 .. (consumer[c].next - 1) :
                       <<m.event, h>> \in handled

\* The XACK of a dead letter comes after its XADD, if there was one.
Buries(c) ==
    On(c, "buried") => \A m \in First(c) : m.event \in dead \/ ~Retained(m.event)

SInv ==
    /\ TypeOK
    /\ \A c \in Consumer : Subscribed(c) /\ InOrder(c) /\ Buries(c)
    /\ AtLeastOnce

-----------------------------------------------------------------------------
\* The constants as the arithmetic needs them.
LEMMA Sizes ==
    /\ Handlers \in Nat /\ SubscribedAtStart \in Nat /\ SubscribedAtStart <= Handlers
    /\ BatchSize \in Nat /\ BatchSize > 0 /\ MaxLen \in Nat /\ MaxLen > 0
    /\ MaxEvents \in Nat /\ MaxFaults \in Nat
BY StreamAssumption

\* What is at hand is a reported message, and there is one event at hand.
LEMMA AtHand ==
    ASSUME TypeOK, NEW c \in Consumer, NEW m \in First(c)
    PROVE  /\ m \in Message /\ m.event \in Event /\ m.count \in Nat
           /\ m \in consumer[c].todo
           /\ \A o \in First(c) : o.event = m.event
<1>1. \A o \in First(c) : o \in consumer[c].todo
  BY DEF First
<1>2. consumer[c].todo \in SUBSET Message
  BY DEF TypeOK, Loop
<1>3. \A o \in First(c) : o \in Message /\ o.event \in Nat
  BY <1>1, <1>2 DEF Message, Event
<1>4. \A o \in First(c) : o.event <= m.event /\ m.event <= o.event
  BY <1>1 DEF First
<1>5. m.event \in Event /\ m.count \in Nat
  BY <1>3 DEF Message
<1> QED
  BY <1>1, <1>3, <1>4, <1>5

\* GoTo keeps the type of the consumers, and leads to the place it names.
LEMMA Going ==
    ASSUME TypeOK, NEW c \in Consumer, NEW pc \in Pc, NEW todo \in SUBSET Message,
           GoTo(c, pc, todo)
    PROVE  /\ consumer' \in [Consumer -> Loop]
           /\ consumer'[c].pc = pc /\ consumer'[c].todo = todo /\ consumer'[c].next = 1
           /\ consumer'[c].subscribed = consumer[c].subscribed
           /\ \A k \in Consumer \ {c} : consumer'[k] = consumer[k]
<1>1. consumer \in [Consumer -> Loop]
  BY DEF TypeOK
<1> DEFINE new == [consumer[c] EXCEPT !.pc = pc, !.todo = todo, !.next = 1]
<1>2. /\ new \in Loop
      /\ new.pc = pc /\ new.todo = todo /\ new.next = 1
      /\ new.subscribed = consumer[c].subscribed
  <2>1. 1 \in Nat \ {0}
    OBVIOUS
  <2> QED
    BY <1>1, <2>1 DEF Loop
<1>3. consumer' = [consumer EXCEPT ![c] = new]
  BY DEF GoTo
<1> HIDE DEF new
<1> QED
  BY <1>1, <1>2, <1>3

\* GoOn is a GoTo that leaves the dead letters alone.
LEMMA GoingOn ==
    ASSUME TypeOK, NEW c \in Consumer, NEW m, GoOn(c, m)
    PROVE  \E pc \in {"new", "entry", "scan", "read"}, todo \in SUBSET Message :
              GoTo(c, pc, todo)
<1> DEFINE rest == consumer[c].todo \ {m}
<1>1. rest \in SUBSET Message
  BY DEF TypeOK, Loop
<1> QED
  BY <1>1 DEF GoOn

\* A consumer that a step leaves alone, while events are handled, buried and
\* trimmed.
LEMMA Others ==
    ASSUME SInv, NEW k \in Consumer, consumer'[k] = consumer[k],
           handled \subseteq handled', dead \subseteq dead',
           \A x \in Event : ~Retained(x) => ~Retained(x)'
    PROVE  Subscribed(k)' /\ InOrder(k)' /\ Buries(k)'
<1>1. Subscribed(k) /\ InOrder(k) /\ Buries(k) /\ TypeOK
  BY DEF SInv
<1>2. First(k)' = First(k)
  BY DEF First
<1>3. Subscribed(k)'
  BY <1>1 DEF Subscribed, On
<1>4. InOrder(k)'
  BY <1>1, <1>2 DEF InOrder, Handling, On
<1>5. \A m \in First(k) : ~Retained(m.event) => ~Retained(m.event)'
  BY <1>1, AtHand
<1>6. Buries(k)'
  BY <1>1, <1>2, <1>5 DEF Buries, On
<1> QED
  BY <1>3, <1>4, <1>6

\* A consumer that goes somewhere with next at 1, but not to an XACK.
LEMMA Moved ==
    ASSUME SInv, NEW c \in Consumer, NEW pc \in Pc \ {"off", "buried"},
           NEW todo \in SUBSET Message, GoTo(c, pc, todo), ~On(c, "off"),
           handled \subseteq handled', dead \subseteq dead', trimmed' = trimmed
    PROVE  /\ consumer' \in [Consumer -> Loop]
           /\ \A k \in Consumer : Subscribed(k)' /\ InOrder(k)' /\ Buries(k)'
<1>1. TypeOK /\ Subscribed(c)
  BY DEF SInv
<1>2. /\ consumer' \in [Consumer -> Loop]
      /\ consumer'[c].pc = pc /\ consumer'[c].next = 1
      /\ consumer'[c].subscribed = consumer[c].subscribed
      /\ \A k \in Consumer \ {c} : consumer'[k] = consumer[k]
  BY <1>1, Going
<1>3. \A k \in Consumer \ {c} : Subscribed(k)' /\ InOrder(k)' /\ Buries(k)'
  BY <1>2, Others DEF Retained
<1>4. Subscribed(c)'
  BY <1>1, <1>2 DEF Subscribed, On
<1>5. 1 .. (consumer'[c].next - 1) = {}
  BY <1>2
<1>6. InOrder(c)' /\ Buries(c)'
  BY <1>2, <1>5 DEF InOrder, Buries, On
<1> QED
  BY <1>2, <1>3, <1>4, <1>6

\* Settled events stay accounted for while nothing is delivered, and entries go
\* for a reason.
LEMMA StillAtLeastOnce ==
    ASSUME SInv,
           \A x \in Event : Pending(x) => \/ Pending(x)' \/ ~Retained(x)
                                          \/ Processed(x, SubscribedAtStart)',
           handled \subseteq handled', dead \subseteq dead', delivered' = delivered,
           \A x \in Event : ~Retained(x) => ~Retained(x)'
    PROVE  AtLeastOnce'
<1> SUFFICES ASSUME NEW x \in Event, Settled(x)'
             PROVE  Processed(x, SubscribedAtStart)'
  BY DEF AtLeastOnce
<1>1. Retained(x) /\ x <= delivered /\ ~Pending(x)'
  BY DEF Settled
<1>2. CASE Pending(x)
  BY <1>1, <1>2
<1>3. CASE ~Pending(x)
  <2>1. Processed(x, SubscribedAtStart)
    BY <1>1, <1>3 DEF SInv, AtLeastOnce, Settled
  <2> QED
    BY <2>1 DEF Processed
<1> QED
  BY <1>2, <1>3

-----------------------------------------------------------------------------
LEMMA InitInv == Init => SInv
<1> SUFFICES ASSUME Init PROVE SInv
  OBVIOUS
<1>1. TypeOK
  BY Sizes DEF Init, TypeOK, Entry, NoEntry, Loop, Off, Pc, Handler
<1>2. \A c \in Consumer : consumer[c].pc = "off"
  BY DEF Init, Off
<1>3. \A c \in Consumer : Subscribed(c) /\ InOrder(c) /\ Buries(c)
  BY <1>2 DEF Subscribed, InOrder, Buries, Handling, On
<1>4. AtLeastOnce
  BY DEF Init, AtLeastOnce, Settled, Event
<1> QED
  BY <1>1, <1>3, <1>4 DEF SInv

LEMMA PublishInv == ASSUME SInv, Publish PROVE SInv'
<1>1. TypeOK
  BY DEF SInv
<1>2. /\ published' \in 0 .. MaxEvents
      /\ trimmed' \in 0 .. published' /\ trimmed' >= trimmed
      /\ delivered' \in 0 .. published'
  BY <1>1, Sizes DEF Publish, TypeOK
<1>3. TypeOK'
  BY <1>1, <1>2 DEF Publish, TypeOK
<1>4. \A x \in Event : ~Retained(x) => ~Retained(x)'
  BY <1>1, <1>2 DEF Retained, TypeOK, Event
<1>5. \A k \in Consumer : Subscribed(k)' /\ InOrder(k)' /\ Buries(k)'
  BY <1>4, Others DEF Publish
<1>6. \A x \in Event : Pending(x) => Pending(x)'
  BY DEF Publish, Pending
<1>7. AtLeastOnce'
  BY <1>4, <1>6, StillAtLeastOnce DEF Publish
<1> QED
  BY <1>3, <1>5, <1>7 DEF SInv

LEMMA StartInv == ASSUME SInv, NEW c \in Consumer, Start(c) PROVE SInv'
<1>1. TypeOK
  BY DEF SInv
<1>2. /\ consumer' \in [Consumer -> Loop]
      /\ consumer'[c].pc = "scan" /\ consumer'[c].subscribed = SubscribedAtStart
      /\ \A k \in Consumer \ {c} : consumer'[k] = consumer[k]
  <2>1. [pc |-> "scan", subscribed |-> SubscribedAtStart, todo |-> {}, next |-> 1] \in Loop
    BY Sizes DEF Loop, Pc
  <2> QED
    BY <1>1, <2>1 DEF Start, TypeOK
<1>3. TypeOK'
  BY <1>1, <1>2 DEF Start, TypeOK
<1>4. \A k \in Consumer \ {c} : Subscribed(k)' /\ InOrder(k)' /\ Buries(k)'
  BY <1>2, Others DEF Start, Retained
<1>5. Subscribed(c)' /\ InOrder(c)' /\ Buries(c)'
  BY <1>2, Sizes DEF Subscribed, InOrder, Buries, Handling, On
<1>6. \A x \in Event : Pending(x) => Pending(x)'
  BY DEF Start, Pending
<1>7. AtLeastOnce'
  BY <1>6, StillAtLeastOnce DEF Start, Retained
<1> QED
  BY <1>3, <1>4, <1>5, <1>7 DEF SInv

LEMMA SubscribeInv == ASSUME SInv, NEW c \in Consumer, Subscribe(c) PROVE SInv'
<1>1. TypeOK /\ Subscribed(c) /\ InOrder(c) /\ Buries(c)
  BY DEF SInv
<1>2. /\ consumer' \in [Consumer -> Loop]
      /\ consumer'[c] = [consumer[c] EXCEPT !.subscribed = @ + 1]
      /\ \A k \in Consumer \ {c} : consumer'[k] = consumer[k]
  BY <1>1, Sizes DEF Subscribe, TypeOK, Loop
<1>3. TypeOK'
  BY <1>1, <1>2 DEF Subscribe, TypeOK
<1>4. \A k \in Consumer \ {c} : Subscribed(k)' /\ InOrder(k)' /\ Buries(k)'
  BY <1>2, Others DEF Subscribe, Retained
<1>5. /\ consumer'[c].pc = consumer[c].pc /\ consumer'[c].todo = consumer[c].todo
      /\ consumer'[c].next = consumer[c].next
      /\ consumer'[c].subscribed = consumer[c].subscribed + 1
  BY <1>1, <1>2 DEF TypeOK, Loop
<1>6. Subscribed(c)'
  BY <1>1, <1>5, Sizes DEF Subscribed, On, TypeOK, Loop
<1>7. First(c)' = First(c)
  BY <1>5 DEF First
<1>8. InOrder(c)' /\ Buries(c)'
  BY <1>1, <1>5, <1>7 DEF InOrder, Buries, Handling, On, Subscribe, Retained
<1>9. \A x \in Event : Pending(x) => Pending(x)'
  BY DEF Subscribe, Pending
<1>10. AtLeastOnce'
  BY <1>9, StillAtLeastOnce DEF Subscribe, Retained
<1> QED
  BY <1>3, <1>4, <1>6, <1>8, <1>10 DEF SInv

LEMMA ScanInv == ASSUME SInv, NEW c \in Consumer, Scan(c) PROVE SInv'
<1> DEFINE idle == {e \in Reported : entry[e].idle}
           todo == {[event |-> e, count |-> entry[e].count] : e \in idle}
<1>1. TypeOK
  BY DEF SInv
<1>2. todo \in SUBSET Message
  <2>1. \A e \in idle : e \in Event /\ entry[e].count \in Nat
    BY <1>1 DEF Reported, TypeOK, Entry
  <2> QED
    BY <2>1 DEF Message
<1>3. PICK pc \in {"read", "entry"} : GoTo(c, pc, todo)
  BY DEF Scan
<1>4. /\ consumer' \in [Consumer -> Loop]
      /\ \A k \in Consumer : Subscribed(k)' /\ InOrder(k)' /\ Buries(k)'
  BY <1>2, <1>3, Moved DEF Scan, Pc, On
<1>5. TypeOK'
  BY <1>1, <1>4 DEF Scan, TypeOK
<1>6. \A x \in Event : Pending(x) => Pending(x)'
  BY DEF Scan, Pending
<1>7. AtLeastOnce'
  BY <1>6, StillAtLeastOnce DEF Scan, Retained
<1> QED
  BY <1>4, <1>5, <1>7 DEF SInv

\* XCLAIM keeps the type of the pending list, and every entry whose event is
\* still there.
LEMMA XClaimed ==
    ASSUME TypeOK, NEW e \in Event, XClaim(e) \/ UNCHANGED entry
    PROVE  /\ entry' \in [Event -> Entry]
           /\ \A x \in Event : Pending(x) /\ (x # e \/ Retained(x)) => Pending(x)'
<1>1. entry \in [Event -> Entry]
  BY DEF TypeOK
<1>2. CASE XClaim(e)
  <2>1. entry'[e] \in Entry /\ \A x \in Event \ {e} : entry'[x] = entry[x]
    BY <1>1, <1>2 DEF XClaim, Entry, NoEntry
  <2>2. entry' \in [Event -> Entry]
    BY <1>1, <1>2, <2>1 DEF XClaim
  <2>3. Pending(e) /\ Retained(e) => Pending(e)'
    BY <1>1, <1>2 DEF XClaim, Pending, Entry
  <2> QED
    BY <2>1, <2>2, <2>3 DEF Pending
<1>3. CASE UNCHANGED entry
  BY <1>1, <1>3 DEF Pending
<1> QED
  BY <1>2, <1>3

LEMMA ClaimInv == ASSUME SInv, NEW c \in Consumer, Claim(c) PROVE SInv'
<1>1. TypeOK
  BY DEF SInv
<1>2. PICK m \in First(c) :
         /\ XClaim(m.event)
         /\ GoTo(c, "claimed", consumer[c].todo) \/ GoOn(c, m)
  BY DEF Claim
<1>3. consumer[c].todo \in SUBSET Message
  BY <1>1 DEF TypeOK, Loop
<1>4. PICK pc \in {"claimed", "new", "entry", "scan", "read"},
           todo \in SUBSET Message : GoTo(c, pc, todo)
  BY <1>1, <1>2, <1>3, GoingOn
<1>5. /\ consumer' \in [Consumer -> Loop]
      /\ \A k \in Consumer : Subscribed(k)' /\ InOrder(k)' /\ Buries(k)'
  BY <1>4, Moved DEF Claim, Pc, On
<1>6. m.event \in Event
  BY <1>1, AtHand
<1>7. /\ entry' \in [Event -> Entry]
      /\ \A x \in Event : Pending(x) /\ (x # m.event \/ Retained(x)) => Pending(x)'
  BY <1>1, <1>2, <1>6, XClaimed
<1>8. TypeOK'
  BY <1>1, <1>5, <1>7 DEF Claim, TypeOK
<1>9. AtLeastOnce'
  BY <1>7, StillAtLeastOnce DEF Claim, Retained
<1> QED
  BY <1>5, <1>8, <1>9 DEF SInv

LEMMA FetchInv == ASSUME SInv, NEW c \in Consumer, Fetch(c) PROVE SInv'
<1>1. TypeOK
  BY DEF SInv
<1>2. PICK m \in First(c) :
         GoTo(c, IF Retained(m.event) THEN "bury" ELSE "buried", consumer[c].todo)
  BY DEF Fetch
<1>3. consumer[c].todo \in SUBSET Message
  BY <1>1 DEF TypeOK, Loop
<1>4. \A x \in Event : Pending(x) => Pending(x)'
  BY DEF Fetch, Pending
<1>5. AtLeastOnce'
  BY <1>4, StillAtLeastOnce DEF Fetch, Retained
<1>6. CASE Retained(m.event)
  <2>1. GoTo(c, "bury", consumer[c].todo)
    BY <1>2, <1>6
  <2>2. /\ consumer' \in [Consumer -> Loop]
        /\ \A k \in Consumer : Subscribed(k)' /\ InOrder(k)' /\ Buries(k)'
    BY <1>3, <2>1, Moved DEF Fetch, Pc, On
  <2>3. TypeOK'
    BY <1>1, <2>2 DEF Fetch, TypeOK
  <2> QED
    BY <1>5, <2>2, <2>3 DEF SInv
<1>7. CASE ~Retained(m.event)
  <2>1. GoTo(c, "buried", consumer[c].todo)
    BY <1>2, <1>7
  <2>2. /\ consumer' \in [Consumer -> Loop]
        /\ consumer'[c].pc = "buried" /\ consumer'[c].todo = consumer[c].todo
        /\ consumer'[c].subscribed = consumer[c].subscribed
        /\ \A k \in Consumer \ {c} : consumer'[k] = consumer[k]
    BY <1>1, <1>3, <2>1, Going DEF Pc
  <2>3. \A k \in Consumer \ {c} : Subscribed(k)' /\ InOrder(k)' /\ Buries(k)'
    BY <2>2, Others DEF Fetch, Retained
  <2>4. First(c)' = First(c)
    BY <2>2 DEF First
  <2>5. Subscribed(c)' /\ InOrder(c)'
    BY <2>2 DEF SInv, Fetch, Subscribed, InOrder, Handling, On
  <2>6. \A o \in First(c) : ~Retained(o.event)
    BY <1>1, <1>7, AtHand
  <2>7. Buries(c)'
    BY <2>4, <2>6 DEF Buries, Fetch, Retained
  <2>8. TypeOK'
    BY <1>1, <2>2 DEF Fetch, TypeOK
  <2> QED
    BY <1>5, <2>3, <2>5, <2>7, <2>8 DEF SInv
<1> QED
  BY <1>6, <1>7

LEMMA BuryInv == ASSUME SInv, NEW c \in Consumer, Bury(c) PROVE SInv'
<1>1. TypeOK
  BY DEF SInv
<1>2. PICK m \in First(c) : dead' = dead \cup {m.event}
  BY DEF Bury
<1>3. consumer[c].todo \in SUBSET Message
  BY <1>1 DEF TypeOK, Loop
<1>4. /\ consumer' \in [Consumer -> Loop]
      /\ consumer'[c].pc = "buried" /\ consumer'[c].todo = consumer[c].todo
      /\ consumer'[c].subscribed = consumer[c].subscribed
      /\ \A k \in Consumer \ {c} : consumer'[k] = consumer[k]
  BY <1>1, <1>3, Going DEF Bury, Pc
<1>5. \A k \in Consumer \ {c} : Subscribed(k)' /\ InOrder(k)' /\ Buries(k)'
  BY <1>2, <1>4, Others DEF Bury, Retained
<1>6. First(c)' = First(c)
  BY <1>4 DEF First
<1>7. Subscribed(c)' /\ InOrder(c)'
  BY <1>4 DEF SInv, Bury, Subscribed, InOrder, Handling, On
<1>8. \A o \in First(c) : o.event \in dead'
  BY <1>1, <1>2, AtHand
<1>9. Buries(c)'
  BY <1>6, <1>8 DEF Buries
<1>10. TypeOK'
  BY <1>1, <1>2, <1>4, AtHand DEF Bury, TypeOK
<1>11. \A x \in Event : Pending(x) => Pending(x)'
  BY DEF Bury, Pending
<1>12. AtLeastOnce'
  BY <1>2, <1>11, StillAtLeastOnce DEF Bury, Retained
<1> QED
  BY <1>5, <1>7, <1>9, <1>10, <1>12 DEF SInv

\* An XACK of the message at hand is right when the event is accounted for.
LEMMA Acknowledged ==
    ASSUME SInv, NEW c \in Consumer, ~On(c, "off"), NEW m \in First(c),
           entry' = [entry EXCEPT ![m.event] = NoEntry],
           GoOn(c, m),
           Retained(m.event) => Processed(m.event, SubscribedAtStart),
           UNCHANGED <<published, trimmed, delivered, dead, handled, faults>>
    PROVE  SInv'
<1>1. TypeOK
  BY DEF SInv
<1>2. m.event \in Event
  BY <1>1, AtHand
<1>3. PICK pc \in {"new", "entry", "scan", "read"}, todo \in SUBSET Message :
         GoTo(c, pc, todo)
  BY <1>1, GoingOn
<1>4. /\ consumer' \in [Consumer -> Loop]
      /\ \A k \in Consumer : Subscribed(k)' /\ InOrder(k)' /\ Buries(k)'
  BY <1>3, Moved DEF Pc
<1>5. entry' \in [Event -> Entry]
  BY <1>1, <1>2 DEF TypeOK, Entry, NoEntry
<1>6. TypeOK'
  BY <1>1, <1>4, <1>5 DEF TypeOK
<1>7. \A x \in Event : x # m.event => entry'[x] = entry[x]
  BY <1>1, <1>2 DEF TypeOK
<1>8. \A x \in Event : Pending(x) => \/ Pending(x)' \/ ~Retained(x)
                                     \/ Processed(x, SubscribedAtStart)'
  BY <1>7 DEF Pending, Processed
<1>9. AtLeastOnce'
  BY <1>8, StillAtLeastOnce DEF Retained
<1> QED
  BY <1>4, <1>6, <1>9 DEF SInv

LEMMA BuriedInv == ASSUME SInv, NEW c \in Consumer, Buried(c) PROVE SInv'
<1>1. PICK m \in First(c) :
         entry' = [entry EXCEPT ![m.event] = NoEntry] /\ GoOn(c, m)
  BY DEF Buried
<1>2. Retained(m.event) => Processed(m.event, SubscribedAtStart)
  BY DEF Buried, SInv, Buries, Processed
<1> QED
  BY <1>1, <1>2, Acknowledged DEF Buried, On

LEMMA AcknowledgeInv == ASSUME SInv, NEW c \in Consumer, Acknowledge(c) PROVE SInv'
<1>1. PICK m \in First(c) :
         entry' = [entry EXCEPT ![m.event] = NoEntry] /\ GoOn(c, m)
  BY DEF Acknowledge
<1>2. ~On(c, "off")
  BY DEF Acknowledge, Handling, On
<1>3. /\ consumer[c].next \in Nat /\ consumer[c].subscribed \in Nat
      /\ consumer[c].next > consumer[c].subscribed
      /\ consumer[c].subscribed >= SubscribedAtStart
  BY <1>2, Sizes DEF SInv, TypeOK, Loop, Subscribed, Acknowledge, AllHandled
<1>4. 1 .. SubscribedAtStart \subseteq 1 .. (consumer[c].next - 1)
  BY <1>3, Sizes
<1>5. \A h \in 1 .. (consumer[c].next - 1) : <<m.event, h>> \in handled
  BY DEF SInv, InOrder, Acknowledge
<1>6. Processed(m.event, SubscribedAtStart)
  BY <1>4, <1>5 DEF Processed
<1> QED
  BY <1>1, <1>2, <1>6, Acknowledged DEF Acknowledge

-----------------------------------------------------------------------------
\* What XREADGROUP delivers are events of the stream, one after the other.
LEMMA FreshEvents ==
    ASSUME TypeOK
    PROVE  Fresh \subseteq Event /\ From \in 0 .. published /\ To \in 0 .. published
BY Sizes DEF TypeOK, Fresh, From, To, Event

\* Deliver skips only what was trimmed.
LEMMA Delivered ==
    ASSUME SInv, Deliver, UNCHANGED <<published, trimmed, dead, handled>>
    PROVE  /\ delivered' \in 0 .. published
           /\ entry' \in [Event -> Entry]
           /\ AtLeastOnce'
<1>1. TypeOK
  BY DEF SInv
<1>2. delivered' \in 0 .. published
  BY <1>1, FreshEvents DEF Deliver, TypeOK
<1>3. \A e \in Event : [count |-> 1, idle |-> FALSE] \in Entry /\ entry[e] \in Entry
  BY <1>1 DEF TypeOK, Entry
<1>4. entry' \in [Event -> Entry]
  BY <1>3 DEF Deliver
<1>5. SUFFICES ASSUME NEW e \in Event, Settled(e)'
               PROVE  Processed(e, SubscribedAtStart)'
  BY <1>2, <1>4 DEF AtLeastOnce
<1>6. e \notin Fresh
  <2>1. e \in Fresh => entry'[e].count = 1
    BY DEF Deliver
  <2> QED
    BY <1>5, <2>1 DEF Settled, Pending
<1>7. entry'[e] = entry[e]
  BY <1>6 DEF Deliver
<1>8. e <= delivered
  BY <1>1, <1>5, <1>6, Sizes, FreshEvents
     DEF Deliver, Settled, Retained, Fresh, From, TypeOK, Event
<1>9. Settled(e)
  BY <1>5, <1>7, <1>8 DEF Settled, Pending, Retained
<1> QED
  BY <1>9 DEF SInv, AtLeastOnce, Processed

LEMMA ReadInv == ASSUME SInv, NEW c \in Consumer, Read(c) PROVE SInv'
<1> DEFINE todo == {[event |-> e, count |-> 1] : e \in Fresh}
<1>1. TypeOK
  BY DEF SInv
<1>2. todo \in SUBSET Message
  BY <1>1, FreshEvents DEF Message
<1>3. PICK pc \in {"scan", "new"} : GoTo(c, pc, todo)
  BY DEF Read
<1>4. /\ consumer' \in [Consumer -> Loop]
      /\ \A k \in Consumer : Subscribed(k)' /\ InOrder(k)' /\ Buries(k)'
  BY <1>2, <1>3, Moved DEF Read, Pc, On
<1>5. delivered' \in 0 .. published /\ entry' \in [Event -> Entry] /\ AtLeastOnce'
  BY Delivered DEF Read
<1>6. TypeOK'
  BY <1>1, <1>4, <1>5 DEF Read, TypeOK
<1> QED
  BY <1>4, <1>5, <1>6 DEF SInv

LEMMA HandlerReturnsInv ==
    ASSUME SInv, NEW c \in Consumer, HandlerReturns(c) PROVE SInv'
<1>1. TypeOK /\ Subscribed(c) /\ InOrder(c)
  BY DEF SInv
<1>2. PICK m \in First(c) : handled' = handled \cup {<<m.event, consumer[c].next>>}
  BY DEF HandlerReturns
<1>3. /\ m.event \in Event
      /\ \A o \in First(c) : o.event = m.event
  BY <1>1, AtHand
<1>4. /\ consumer' \in [Consumer -> Loop]
      /\ consumer'[c] = [consumer[c] EXCEPT !.next = @ + 1]
      /\ \A k \in Consumer \ {c} : consumer'[k] = consumer[k]
  BY <1>1 DEF HandlerReturns, TypeOK, Loop
<1>5. /\ consumer'[c].pc = consumer[c].pc /\ consumer'[c].todo = consumer[c].todo
      /\ consumer'[c].next = consumer[c].next + 1
      /\ consumer'[c].subscribed = consumer[c].subscribed
  BY <1>1, <1>4 DEF TypeOK, Loop
<1>6. \A k \in Consumer \ {c} : Subscribed(k)' /\ InOrder(k)' /\ Buries(k)'
  BY <1>2, <1>4, Others DEF HandlerReturns, Retained
<1>7. First(c)' = First(c)
  BY <1>5 DEF First
<1>8. Subscribed(c)' /\ Buries(c)'
  BY <1>1, <1>5 DEF Subscribed, Buries, On, HandlerReturns, Handling
<1>9. InOrder(c)'
  <2>1. \A h \in 1 .. consumer[c].next : h \in 1 .. (consumer[c].next - 1) \/ h = consumer[c].next
    BY <1>1 DEF TypeOK, Loop
  <2>2. \A o \in First(c) : \A h \in 1 .. consumer[c].next : <<o.event, h>> \in handled'
    BY <1>1, <1>2, <1>3, <2>1 DEF InOrder, HandlerReturns
  <2>3. consumer'[c].next - 1 = consumer[c].next
    BY <1>1, <1>5 DEF TypeOK, Loop
  <2> QED
    BY <1>7, <2>2, <2>3 DEF InOrder
<1>10. TypeOK'
  <2>1. consumer[c].next \in Nat \ {0} /\ consumer[c].subscribed \in 0 .. Handlers
    BY <1>1 DEF TypeOK, Loop
  <2>2. consumer[c].next \in Handler
    BY <2>1, Sizes DEF HandlerReturns, AllHandled, Handler
  <2> QED
    BY <1>1, <1>2, <1>3, <1>4, <2>2 DEF HandlerReturns, TypeOK
<1>11. \A x \in Event : Pending(x) => Pending(x)'
  BY DEF HandlerReturns, Pending
<1>12. AtLeastOnce'
  BY <1>2, <1>11, StillAtLeastOnce DEF HandlerReturns, Retained
<1> QED
  BY <1>6, <1>8, <1>9, <1>10, <1>12 DEF SInv

\* A consumer goes on without an XACK, whatever became of the dead letter.
LEMMA WentOn ==
    ASSUME SInv, NEW c \in Consumer, ~On(c, "off"), NEW m \in First(c), GoOn(c, m),
           dead' = dead \/ dead' = dead \cup {m.event},
           UNCHANGED <<published, trimmed, delivered, entry, handled>>,
           faults' \in 0 .. MaxFaults
    PROVE  SInv'
<1>1. TypeOK
  BY DEF SInv
<1>2. PICK pc \in {"new", "entry", "scan", "read"}, todo \in SUBSET Message :
         GoTo(c, pc, todo)
  BY <1>1, GoingOn
<1>3. /\ consumer' \in [Consumer -> Loop]
      /\ \A k \in Consumer : Subscribed(k)' /\ InOrder(k)' /\ Buries(k)'
  BY <1>2, Moved DEF Pc
<1>4. m.event \in Event
  BY <1>1, AtHand
<1>5. TypeOK'
  BY <1>1, <1>3, <1>4 DEF TypeOK
<1>6. \A x \in Event : Pending(x) => Pending(x)'
  BY DEF Pending
<1>7. AtLeastOnce'
  BY <1>6, StillAtLeastOnce DEF Retained
<1> QED
  BY <1>3, <1>5, <1>7 DEF SInv

LEMMA HandlerRaisesInv ==
    ASSUME SInv, NEW c \in Consumer, HandlerRaises(c) PROVE SInv'
<1>1. PICK m \in First(c) : GoOn(c, m)
  BY DEF HandlerRaises
<1>2. faults' \in 0 .. MaxFaults
  BY DEF SInv, TypeOK, HandlerRaises
<1> QED
  BY <1>1, <1>2, WentOn DEF HandlerRaises, Handling, On

LEMMA Faulty == ASSUME TypeOK, Fault PROVE faults' \in 0 .. MaxFaults
BY Sizes DEF TypeOK, Fault

LEMMA CaughtOnTheWayInv ==
    ASSUME SInv, NEW c \in Consumer, CaughtOnTheWay(c) PROVE SInv'
<1>1. PICK m \in First(c) :
         /\ dead' = dead \/ dead' = dead \cup {m.event}
         /\ GoOn(c, m)
         /\ ~On(c, "off")
  BY DEF CaughtOnTheWay, Handling, On
<1>2. faults' \in 0 .. MaxFaults
  BY Faulty DEF SInv, CaughtOnTheWay
<1> QED
  BY <1>1, <1>2, WentOn DEF CaughtOnTheWay

LEMMA ReadRaisesInv == ASSUME SInv, NEW c \in Consumer, ReadRaises(c) PROVE SInv'
<1>1. TypeOK
  BY DEF SInv
<1>2. /\ consumer' \in [Consumer -> Loop]
      /\ \A k \in Consumer : Subscribed(k)' /\ InOrder(k)' /\ Buries(k)'
  BY Moved DEF ReadRaises, Pc, On
<1>3. faults' \in 0 .. MaxFaults
  BY <1>1, Faulty DEF ReadRaises
<1>4. /\ delivered' \in 0 .. published
      /\ entry' \in [Event -> Entry]
      /\ AtLeastOnce'
  <2>1. CASE Deliver
    BY <2>1, Delivered DEF ReadRaises
  <2>2. CASE UNCHANGED <<delivered, entry>>
    <3>1. \A x \in Event : Pending(x) => Pending(x)'
      BY <2>2 DEF Pending
    <3> QED
      BY <1>1, <2>2, <3>1, StillAtLeastOnce DEF ReadRaises, Retained, TypeOK
  <2> QED
    BY <2>1, <2>2 DEF ReadRaises
<1>5. TypeOK'
  BY <1>1, <1>2, <1>3, <1>4 DEF ReadRaises, TypeOK
<1> QED
  BY <1>2, <1>4, <1>5 DEF SInv

LEMMA ClaimRaisesInv == ASSUME SInv, NEW c \in Consumer, ClaimRaises(c) PROVE SInv'
<1>1. TypeOK
  BY DEF SInv
<1>2. /\ consumer' \in [Consumer -> Loop]
      /\ \A k \in Consumer : Subscribed(k)' /\ InOrder(k)' /\ Buries(k)'
  BY Moved DEF ClaimRaises, Pc, On
<1>3. faults' \in 0 .. MaxFaults
  BY <1>1, Faulty DEF ClaimRaises
<1>4. /\ entry' \in [Event -> Entry]
      /\ \A x \in Event : Pending(x) => Pending(x)' \/ ~Retained(x)
  <2>1. CASE \E m \in First(c) : XClaim(m.event)
    BY <1>1, <2>1, AtHand, XClaimed
  <2>2. CASE UNCHANGED entry
    BY <1>1, <2>2 DEF Pending, TypeOK
  <2> QED
    BY <2>1, <2>2 DEF ClaimRaises
<1>5. AtLeastOnce'
  BY <1>4, StillAtLeastOnce DEF ClaimRaises, Retained
<1>6. TypeOK'
  BY <1>1, <1>2, <1>3, <1>4 DEF ClaimRaises, TypeOK
<1> QED
  BY <1>2, <1>5, <1>6 DEF SInv

LEMMA StopInv == ASSUME SInv, NEW c \in Consumer, Stop(c) PROVE SInv'
<1>1. TypeOK
  BY DEF SInv
<1>2. /\ consumer' \in [Consumer -> Loop]
      /\ consumer'[c].pc = "off"
      /\ \A k \in Consumer \ {c} : consumer'[k] = consumer[k]
  BY <1>1, Sizes DEF Stop, TypeOK, Loop, Off, Pc
<1>3. \A k \in Consumer \ {c} : Subscribed(k)' /\ InOrder(k)' /\ Buries(k)'
  BY <1>2, Others DEF Stop, Retained
<1>4. Subscribed(c)' /\ InOrder(c)' /\ Buries(c)'
  BY <1>2 DEF Subscribed, InOrder, Buries, Handling, On
<1>5. TypeOK'
  BY <1>1, <1>2, Faulty DEF Stop, TypeOK
<1>6. \A x \in Event : Pending(x) => Pending(x)'
  BY DEF Stop, Pending
<1>7. AtLeastOnce'
  BY <1>6, StillAtLeastOnce DEF Stop, Retained
<1> QED
  BY <1>3, <1>4, <1>5, <1>7 DEF SInv

LEMMA AgeInv == ASSUME SInv, NEW e \in Event, Age(e) PROVE SInv'
<1>1. TypeOK
  BY DEF SInv
<1>2. /\ entry' \in [Event -> Entry]
      /\ \A x \in Event : entry'[x].count = entry[x].count
  BY <1>1 DEF Age, TypeOK, Entry
<1>3. TypeOK'
  BY <1>1, <1>2 DEF Age, TypeOK
<1>4. \A k \in Consumer : Subscribed(k)' /\ InOrder(k)' /\ Buries(k)'
  BY Others DEF Age, Retained
<1>5. \A x \in Event : Pending(x) => Pending(x)'
  BY <1>2 DEF Pending
<1>6. AtLeastOnce'
  BY <1>5, StillAtLeastOnce DEF Age, Retained
<1> QED
  BY <1>3, <1>4, <1>6 DEF SInv

-----------------------------------------------------------------------------
LEMMA StepInv == ASSUME SInv, NEW c \in Consumer, Step(c) PROVE SInv'
BY ScanInv, ClaimInv, FetchInv, BuryInv, BuriedInv, ReadInv, HandlerReturnsInv,
   HandlerRaisesInv, AcknowledgeInv DEF Step

LEMMA NextInv == ASSUME SInv, [Next]_vars PROVE SInv'
<1>1. CASE Publish
  BY <1>1, PublishInv
<1>2. ASSUME NEW c \in Consumer,
             Start(c) \/ Subscribe(c) \/ Step(c)
      PROVE  SInv'
  BY <1>2, StartInv, SubscribeInv, StepInv
<1>3. ASSUME NEW c \in Consumer,
             Stop(c) \/ ReadRaises(c) \/ ClaimRaises(c) \/ CaughtOnTheWay(c)
      PROVE  SInv'
  BY <1>3, StopInv, ReadRaisesInv, ClaimRaisesInv, CaughtOnTheWayInv
<1>4. ASSUME NEW e \in Event, Age(e) PROVE SInv'
  BY <1>4, AgeInv
<1>5. CASE UNCHANGED vars
  BY <1>5 DEF vars, SInv, TypeOK, Subscribed, InOrder, Buries, AtLeastOnce, Settled,
     Processed, Pending, Retained, Handling, On, First
<1> QED
  BY <1>1, <1>2, <1>3, <1>4, <1>5 DEF Next

\* SInv, the inductive invariant of the event stream: types, handlers in their
\* order, a dead letter written before it is acknowledged (redis_bus).
THEOREM Invariance == Spec => []SInv
BY InitInv, NextInv, PTL DEF Spec

\* Every variable keeps its type, for any instances, handlers and events.
THEOREM TypeCorrectness == Spec => []TypeOK
<1>1. SInv => TypeOK
  BY DEF SInv
<1> QED
  BY <1>1, Invariance, PTL

\* At least once: an event that is acknowledged was handled by every handler that
\* was there in time, or is a dead letter, in spite of crashes, lost answers,
\* stale claims and consumers that take a slow one for dead (_process_message).
THEOREM Delivery == Spec => []AtLeastOnce
<1>1. SInv => AtLeastOnce
  BY DEF SInv
<1> QED
  BY <1>1, Invariance, PTL

-----------------------------------------------------------------------------
(* How often an event is delivered.  A consumer claims on what XPENDING has *)
(* reported to it, once for each report: an event that has its MAX_RETRIES  *)
(* deliveries can only get one more from each of those that were told of    *)
(* fewer, and the consumer that made the last of the MAX_RETRIES is none of *)
(* them.                                                                    *)

\* Where a consumer keeps what XPENDING has reported.
ClaimLoop == {"entry", "bury", "buried", "claimed"}

\* c was told that e had deliveries left, and has not claimed it since.
MayClaim(c, e) ==
    /\ consumer[c].pc \in ClaimLoop
    /\ \E m \in consumer[c].todo :
          m.event = e /\ m.count < MaxRetries /\ (On(c, "claimed") => m \notin First(c))

Claimers(e) == {c \in Consumer : MayClaim(c, e)}

\* An event is reported once in each answer.
ReportedOnce(c) == \A m, o \in consumer[c].todo : m.event = o.event => m = o

RoomLeft(e) ==
    entry[e].count >= MaxRetries =>
        entry[e].count + Cardinality(Claimers(e)) < MaxRetries + Cardinality(Consumer)

ClaimsInv == (\A c \in Consumer : ReportedOnce(c)) /\ \A e \in Event : RoomLeft(e)

LEMMA Claimants ==
    /\ MaxRetries \in Nat /\ MaxRetries > 0
    /\ IsFiniteSet(Consumer) /\ Cardinality(Consumer) \in Nat
BY StreamAssumption, FS_CardinalityType

\* Nobody becomes a claimant of e, and e is not delivered.
LEMMA RoomStays ==
    ASSUME NEW e \in Event, TypeOK, TypeOK', RoomLeft(e), Claimers(e)' \subseteq Claimers(e),
           entry'[e].count = entry[e].count \/ entry'[e].count < MaxRetries
    PROVE  RoomLeft(e)'
<1>1. IsFiniteSet(Claimers(e))
  BY Claimants, FS_Subset DEF Claimers
<1>2. /\ Cardinality(Claimers(e)) \in Nat /\ Cardinality(Claimers(e)') \in Nat
      /\ Cardinality(Claimers(e)') <= Cardinality(Claimers(e))
  BY <1>1, FS_Subset, FS_CardinalityType
<1>3. entry[e].count \in Nat /\ entry'[e].count \in Nat
  BY DEF TypeOK, Entry
<1> QED
  BY <1>2, <1>3, Claimants DEF RoomLeft

\* A claimant delivers e once more, or somebody does who is none, at most for the
\* MAX_RETRIES-th time.
LEMMA RoomTaken ==
    ASSUME NEW e \in Event, TypeOK, TypeOK', RoomLeft(e),
           NEW c \in Consumer, Claimers(e)' \subseteq Claimers(e) \ {c},
           \/ c \in Claimers(e) /\ entry'[e].count = entry[e].count + 1
           \/ entry'[e].count <= MaxRetries
    PROVE  RoomLeft(e)'
<1>1. IsFiniteSet(Claimers(e)) /\ Claimers(e) \in SUBSET Consumer
  BY Claimants, FS_Subset DEF Claimers
<1>2. IsFiniteSet(Claimers(e) \ {c}) /\ IsFiniteSet(Consumer \ {c})
  BY <1>1, Claimants, FS_RemoveElement
<1>3. /\ Cardinality(Claimers(e)) \in Nat /\ Cardinality(Claimers(e)') \in Nat
      /\ Cardinality(Claimers(e)') <= Cardinality(Claimers(e) \ {c})
      /\ Cardinality(Claimers(e)') <= Cardinality(Consumer \ {c})
  BY <1>1, <1>2, FS_Subset, FS_CardinalityType
<1>4. /\ Cardinality(Consumer \ {c}) = Cardinality(Consumer) - 1
      /\ c \in Claimers(e) => Cardinality(Claimers(e) \ {c}) = Cardinality(Claimers(e)) - 1
  BY <1>1, Claimants, FS_RemoveElement
<1>5. entry[e].count \in Nat /\ entry'[e].count \in Nat
  BY DEF TypeOK, Entry
<1>6. CASE entry'[e].count <= MaxRetries
  BY <1>3, <1>4, <1>5, <1>6, Claimants DEF RoomLeft
<1>7. CASE c \in Claimers(e) /\ entry'[e].count = entry[e].count + 1
  <2>1. CASE entry[e].count < MaxRetries
    BY <1>3, <1>4, <1>5, <1>7, <2>1, Claimants DEF RoomLeft
  <2>2. CASE entry[e].count >= MaxRetries
    BY <1>3, <1>4, <1>5, <1>7, <2>2, Claimants DEF RoomLeft
  <2> QED
    BY <1>5, <2>1, <2>2, Claimants
<1> QED
  BY <1>6, <1>7

\* What a consumer may claim depends on its own loop.
LEMMA OtherClaims ==
    ASSUME NEW k \in Consumer, consumer'[k] = consumer[k]
    PROVE  /\ ReportedOnce(k) => ReportedOnce(k)'
           /\ \A e : MayClaim(k, e)' => MayClaim(k, e)
<1>1. First(k)' = First(k)
  BY DEF First
<1> QED
  BY <1>1 DEF ReportedOnce, MayClaim, On

\* A consumer that starts over, stops, or reads new messages claims nothing.
LEMMA NoClaims ==
    ASSUME TypeOK, ClaimsInv, NEW c \in Consumer,
           \A k \in Consumer \ {c} : consumer'[k] = consumer[k],
           consumer'[c].pc \notin ClaimLoop
    PROVE  /\ \A k \in Consumer \ {c} : ReportedOnce(k)'
           /\ \A e \in Event : Claimers(e)' \subseteq Claimers(e) \ {c}
<1>1. \A k \in Consumer \ {c} : ReportedOnce(k)' /\ \A e : MayClaim(k, e)' => MayClaim(k, e)
  BY OtherClaims DEF ClaimsInv
<1>2. \A e : ~MayClaim(c, e)'
  BY DEF MayClaim
<1> QED
  BY <1>1, <1>2 DEF Claimers

\* A consumer that is through with a message is no claimant of its event.
LEMMA ThroughWith ==
    ASSUME TypeOK, ClaimsInv, NEW c \in Consumer, NEW m \in First(c), GoOn(c, m),
           consumer[c].pc \in ClaimLoop \cup {"new"}
    PROVE  /\ \A k \in Consumer : ReportedOnce(k)'
           /\ \A e \in Event : Claimers(e)' \subseteq Claimers(e)
           /\ Claimers(m.event)' \subseteq Claimers(m.event) \ {c}
<1> DEFINE rest == consumer[c].todo \ {m}
<1>1. PICK pc \in {"new", "entry", "scan", "read"} :
          GoTo(c, pc, rest) /\ (pc = "entry" => ~On(c, "new"))
  BY DEF GoOn
<1>2. rest \in SUBSET Message /\ pc \in Pc
  BY DEF TypeOK, Loop, Pc
<1>3. /\ consumer'[c].pc = pc /\ consumer'[c].todo = rest
      /\ \A k \in Consumer \ {c} : consumer'[k] = consumer[k]
  BY <1>1, <1>2, Going
<1>4. \A k \in Consumer \ {c} : ReportedOnce(k)' /\ \A e : MayClaim(k, e)' => MayClaim(k, e)
  BY <1>3, OtherClaims DEF ClaimsInv
<1>5. ReportedOnce(c)'
  BY <1>3 DEF ClaimsInv, ReportedOnce
<1>6. ASSUME NEW e, MayClaim(c, e)' PROVE MayClaim(c, e) /\ e # m.event
  <2>1. pc = "entry" /\ consumer[c].pc \in ClaimLoop
    BY <1>1, <1>3, <1>6 DEF MayClaim, ClaimLoop, On
  <2>2. PICK o \in rest : o.event = e /\ o.count < MaxRetries
    BY <1>3, <1>6 DEF MayClaim
  <2>3. m \in consumer[c].todo /\ \A x \in First(c) : x.event = m.event
    BY AtHand
  <2>4. o.event # m.event
    BY <2>2, <2>3 DEF ClaimsInv, ReportedOnce
  <2> QED
    BY <2>1, <2>2, <2>3, <2>4 DEF MayClaim
<1>7. m.event \in Event
  BY AtHand
<1> QED
  BY <1>4, <1>5, <1>6, <1>7 DEF Claimers

\* A consumer that keeps its messages, and its place before the first of them.
LEMMA StillTold ==
    ASSUME TypeOK, ClaimsInv, NEW c \in Consumer, NEW pc \in {"bury", "buried"},
           GoTo(c, pc, consumer[c].todo), consumer[c].pc \in {"entry", "bury"}
    PROVE  /\ \A k \in Consumer : ReportedOnce(k)'
           /\ \A e \in Event : Claimers(e)' \subseteq Claimers(e)
<1>1. consumer[c].todo \in SUBSET Message /\ pc \in Pc
  BY DEF TypeOK, Loop, Pc
<1>2. /\ consumer'[c].todo = consumer[c].todo
      /\ \A k \in Consumer \ {c} : consumer'[k] = consumer[k]
  BY <1>1, Going
<1>3. \A k \in Consumer \ {c} : ReportedOnce(k)' /\ \A e : MayClaim(k, e)' => MayClaim(k, e)
  BY <1>2, OtherClaims DEF ClaimsInv
<1>4. ReportedOnce(c)'
  BY <1>2 DEF ClaimsInv, ReportedOnce
<1>5. \A e : MayClaim(c, e)' => MayClaim(c, e)
  BY <1>2 DEF MayClaim, ClaimLoop, On
<1> QED
  BY <1>3, <1>4, <1>5 DEF Claimers

-----------------------------------------------------------------------------
\* Steps that leave every loop alone and deliver nothing.
LEMMA NoLoopClaims ==
    ASSUME TypeOK, TypeOK', ClaimsInv, UNCHANGED consumer,
           \A e \in Event : entry'[e].count = entry[e].count
    PROVE  ClaimsInv'
<1>1. \A k \in Consumer : ReportedOnce(k)' /\ \A e : MayClaim(k, e)' => MayClaim(k, e)
  BY OtherClaims DEF ClaimsInv
<1>2. \A e \in Event : Claimers(e)' \subseteq Claimers(e)
  BY <1>1 DEF Claimers
<1>3. \A e \in Event : RoomLeft(e)'
  BY <1>2, RoomStays DEF ClaimsInv
<1> QED
  BY <1>1, <1>3 DEF ClaimsInv

\* A loop that begins or ends.
LEMMA StartsOverClaims ==
    ASSUME TypeOK, TypeOK', ClaimsInv, NEW c \in Consumer, UNCHANGED entry,
           \A k \in Consumer \ {c} : consumer'[k] = consumer[k],
           consumer'[c].pc \notin ClaimLoop, consumer'[c].todo = {}
    PROVE  ClaimsInv'
<1>1. /\ \A k \in Consumer \ {c} : ReportedOnce(k)'
      /\ \A e \in Event : Claimers(e)' \subseteq Claimers(e) \ {c}
  BY NoClaims
<1>2. ReportedOnce(c)'
  BY DEF ReportedOnce
<1>3. \A e \in Event : RoomLeft(e)'
  BY <1>1, RoomStays DEF ClaimsInv
<1> QED
  BY <1>1, <1>2, <1>3 DEF ClaimsInv

LEMMA SubscribeClaims ==
    ASSUME TypeOK, TypeOK', ClaimsInv, NEW c \in Consumer, Subscribe(c) PROVE ClaimsInv'
<1>1. /\ consumer'[c].pc = consumer[c].pc /\ consumer'[c].todo = consumer[c].todo
      /\ \A k \in Consumer \ {c} : consumer'[k] = consumer[k]
  BY DEF Subscribe, TypeOK, Loop
<1>2. First(c)' = First(c)
  BY <1>1 DEF First
<1>3. ReportedOnce(c)' /\ \A e : MayClaim(c, e)' => MayClaim(c, e)
  BY <1>1, <1>2 DEF ClaimsInv, ReportedOnce, MayClaim, On
<1>4. \A k \in Consumer : ReportedOnce(k)' /\ \A e : MayClaim(k, e)' => MayClaim(k, e)
  BY <1>1, <1>3, OtherClaims DEF ClaimsInv
<1>5. \A e \in Event : Claimers(e)' \subseteq Claimers(e)
  BY <1>4 DEF Claimers
<1>6. \A e \in Event : RoomLeft(e)'
  BY <1>5, RoomStays DEF ClaimsInv, Subscribe
<1> QED
  BY <1>4, <1>6 DEF ClaimsInv

\* Who is told now that an event has deliveries left is told the truth.
LEMMA ScanClaims ==
    ASSUME TypeOK, TypeOK', ClaimsInv, NEW c \in Consumer, Scan(c) PROVE ClaimsInv'
<1> DEFINE idle == {e \in Reported : entry[e].idle}
           todo == {[event |-> e, count |-> entry[e].count] : e \in idle}
<1>1. todo \in SUBSET Message
  <2>1. \A e \in idle : e \in Event /\ entry[e].count \in Nat
    BY DEF Reported, TypeOK, Entry
  <2> QED
    BY <2>1 DEF Message
<1>2. PICK pc \in {"read", "entry"} : GoTo(c, pc, todo)
  BY DEF Scan
<1>3. consumer'[c].todo = todo /\ \A k \in Consumer \ {c} : consumer'[k] = consumer[k]
  BY <1>1, <1>2, Going DEF Pc
<1>4. \A k \in Consumer \ {c} : ReportedOnce(k)' /\ \A e : MayClaim(k, e)' => MayClaim(k, e)
  BY <1>3, OtherClaims DEF ClaimsInv
<1>5. ReportedOnce(c)'
  BY <1>3 DEF ReportedOnce
<1>6. ASSUME NEW e \in Event, entry[e].count >= MaxRetries PROVE ~MayClaim(c, e)'
  <2>1. \A m \in todo : m.event = e => m.count = entry[e].count
    OBVIOUS
  <2> QED
    BY <1>3, <1>6, <2>1, Claimants DEF MayClaim, TypeOK, Entry
<1>7. ASSUME NEW e \in Event PROVE RoomLeft(e)'
  <2>1. entry'[e] = entry[e]
    BY DEF Scan
  <2>2. CASE entry[e].count < MaxRetries
    BY <2>1, <2>2, Claimants DEF RoomLeft, TypeOK, Entry
  <2>3. CASE entry[e].count >= MaxRetries
    <3>1. Claimers(e)' \subseteq Claimers(e)
      BY <1>4, <1>6, <2>3 DEF Claimers
    <3> QED
      BY <2>1, <3>1, RoomStays DEF ClaimsInv
  <2> QED
    BY <2>2, <2>3, Claimants DEF TypeOK, Entry
<1> QED
  BY <1>4, <1>5, <1>7 DEF ClaimsInv

\* XCLAIM delivers an entry that is idle, once.
LEMMA XClaimCounts ==
    ASSUME TypeOK, NEW e \in Event, XClaim(e)
    PROVE  /\ entry'[e].count \in {entry[e].count, entry[e].count + 1, 0}
           /\ ~(entry[e].idle /\ Retained(e)) => entry'[e].count \in {entry[e].count, 0}
           /\ \A x \in Event \ {e} : entry'[x] = entry[x]
<1>1. entry \in [Event -> Entry]
  BY DEF TypeOK
<1> QED
  BY <1>1 DEF XClaim, Entry, NoEntry

\* A claim of a consumer that is not told about the event any more.
LEMMA ClaimCounts ==
    ASSUME TypeOK, TypeOK', ClaimsInv, NEW c \in Consumer, On(c, "entry"),
           NEW m \in First(c), m.count < MaxRetries, XClaim(m.event),
           \A e \in Event : Claimers(e)' \subseteq Claimers(e),
           Claimers(m.event)' \subseteq Claimers(m.event) \ {c}
    PROVE  \A e \in Event : RoomLeft(e)'
<1>1. m.event \in Event /\ m \in consumer[c].todo
  BY AtHand
<1>2. c \in Claimers(m.event)
  BY <1>1 DEF Claimers, MayClaim, ClaimLoop, On
<1>3. /\ entry'[m.event].count \in {entry[m.event].count, entry[m.event].count + 1, 0}
      /\ \A x \in Event \ {m.event} : entry'[x] = entry[x]
  BY <1>1, XClaimCounts
<1>4. RoomLeft(m.event)'
  <2>1. CASE entry'[m.event].count = entry[m.event].count + 1
    BY <1>1, <1>2, <2>1, RoomTaken DEF ClaimsInv
  <2>2. CASE entry'[m.event].count \in {entry[m.event].count, 0}
    BY <1>1, <2>2, RoomStays, Claimants DEF ClaimsInv
  <2> QED
    BY <1>3, <2>1, <2>2
<1>5. \A e \in Event \ {m.event} : RoomLeft(e)'
  BY <1>3, RoomStays DEF ClaimsInv
<1> QED
  BY <1>4, <1>5

LEMMA ClaimClaims ==
    ASSUME TypeOK, TypeOK', ClaimsInv, NEW c \in Consumer, Claim(c) PROVE ClaimsInv'
<1>1. PICK m \in First(c) :
         /\ m.count < MaxRetries /\ XClaim(m.event)
         /\ GoTo(c, "claimed", consumer[c].todo) \/ GoOn(c, m)
  BY DEF Claim
<1>2. On(c, "entry") /\ consumer[c].pc \in ClaimLoop
  BY DEF Claim, On, ClaimLoop
<1>3. /\ \A k \in Consumer : ReportedOnce(k)'
      /\ \A e \in Event : Claimers(e)' \subseteq Claimers(e)
      /\ Claimers(m.event)' \subseteq Claimers(m.event) \ {c}
  <2>1. CASE GoOn(c, m)
    BY <1>2, <2>1, ThroughWith
  <2>2. CASE GoTo(c, "claimed", consumer[c].todo)
    <3>1. consumer[c].todo \in SUBSET Message /\ "claimed" \in Pc
      BY DEF TypeOK, Loop, Pc
    <3>2. /\ consumer'[c].todo = consumer[c].todo /\ consumer'[c].pc = "claimed"
          /\ \A k \in Consumer \ {c} : consumer'[k] = consumer[k]
      BY <2>2, <3>1, Going
    <3>3. First(c)' = First(c)
      BY <3>2 DEF First
    <3>4. \A k \in Consumer \ {c} :
             ReportedOnce(k)' /\ \A e : MayClaim(k, e)' => MayClaim(k, e)
      BY <3>2, OtherClaims DEF ClaimsInv
    <3>5. ReportedOnce(c)' /\ ReportedOnce(c)
      BY <3>2 DEF ClaimsInv, ReportedOnce
    <3>6. ASSUME NEW e, MayClaim(c, e)' PROVE MayClaim(c, e) /\ e # m.event
      <4>1. PICK o \in consumer[c].todo :
               o.event = e /\ o.count < MaxRetries /\ o \notin First(c)
        BY <3>2, <3>3, <3>6 DEF MayClaim, On
      <4>2. MayClaim(c, e)
        BY <1>2, <4>1 DEF MayClaim
      <4>3. m \in consumer[c].todo
        BY AtHand
      <4>4. o.event # m.event
        BY <3>5, <4>1, <4>3 DEF ReportedOnce
      <4> QED
        BY <4>1, <4>2, <4>4
    <3> QED
      BY <3>4, <3>5, <3>6, AtHand DEF Claimers
  <2> QED
    BY <1>1, <2>1, <2>2
<1>4. \A e \in Event : RoomLeft(e)'
  BY <1>1, <1>2, <1>3, ClaimCounts
<1> QED
  BY <1>3, <1>4 DEF ClaimsInv

LEMMA FetchClaims ==
    ASSUME TypeOK, TypeOK', ClaimsInv, NEW c \in Consumer, Fetch(c) PROVE ClaimsInv'
<1>1. PICK pc \in {"bury", "buried"} : GoTo(c, pc, consumer[c].todo)
  BY DEF Fetch
<1>2. /\ \A k \in Consumer : ReportedOnce(k)'
      /\ \A e \in Event : Claimers(e)' \subseteq Claimers(e)
  BY <1>1, StillTold DEF Fetch, On
<1>3. \A e \in Event : RoomLeft(e)'
  BY <1>2, RoomStays DEF ClaimsInv, Fetch
<1> QED
  BY <1>2, <1>3 DEF ClaimsInv

LEMMA BuryClaims ==
    ASSUME TypeOK, TypeOK', ClaimsInv, NEW c \in Consumer, Bury(c) PROVE ClaimsInv'
<1>1. /\ \A k \in Consumer : ReportedOnce(k)'
      /\ \A e \in Event : Claimers(e)' \subseteq Claimers(e)
  BY StillTold DEF Bury, On
<1>2. \A e \in Event : RoomLeft(e)'
  BY <1>1, RoomStays DEF ClaimsInv, Bury
<1> QED
  BY <1>1, <1>2 DEF ClaimsInv

\* What is acknowledged has no deliveries, and what is left for later keeps them.
LEMMA ThroughClaims ==
    ASSUME TypeOK, TypeOK', ClaimsInv, NEW c \in Consumer, NEW m \in First(c), GoOn(c, m),
           consumer[c].pc \in ClaimLoop \cup {"new"},
           entry' = [entry EXCEPT ![m.event] = NoEntry] \/ UNCHANGED entry
    PROVE  ClaimsInv'
<1>1. /\ \A k \in Consumer : ReportedOnce(k)'
      /\ \A e \in Event : Claimers(e)' \subseteq Claimers(e)
  BY ThroughWith
<1>2. \A e \in Event : entry'[e].count = entry[e].count \/ entry'[e].count < MaxRetries
  <2>1. CASE UNCHANGED entry
    BY <2>1
  <2>2. CASE entry' = [entry EXCEPT ![m.event] = NoEntry]
    <3>1. \A e \in Event : entry'[e] = IF e = m.event THEN NoEntry ELSE entry[e]
      BY <2>2 DEF TypeOK
    <3> QED
      BY <3>1, Claimants DEF NoEntry
  <2> QED
    BY <2>1, <2>2
<1>3. \A e \in Event : RoomLeft(e)'
  BY <1>1, <1>2, RoomStays DEF ClaimsInv
<1> QED
  BY <1>1, <1>3 DEF ClaimsInv

LEMMA BuriedClaims ==
    ASSUME TypeOK, TypeOK', ClaimsInv, NEW c \in Consumer, Buried(c) PROVE ClaimsInv'
BY ThroughClaims DEF Buried, On, ClaimLoop

LEMMA AcknowledgeClaims ==
    ASSUME TypeOK, TypeOK', ClaimsInv, NEW c \in Consumer, Acknowledge(c) PROVE ClaimsInv'
BY ThroughClaims DEF Acknowledge, Handling, On, ClaimLoop

LEMMA HandlerRaisesClaims ==
    ASSUME TypeOK, TypeOK', ClaimsInv, NEW c \in Consumer, HandlerRaises(c) PROVE ClaimsInv'
BY ThroughClaims DEF HandlerRaises, Handling, On, ClaimLoop

LEMMA CaughtOnTheWayClaims ==
    ASSUME TypeOK, TypeOK', ClaimsInv, NEW c \in Consumer, CaughtOnTheWay(c) PROVE ClaimsInv'
BY ThroughClaims DEF CaughtOnTheWay, Handling, On, ClaimLoop

LEMMA HandlerReturnsClaims ==
    ASSUME TypeOK, TypeOK', ClaimsInv, NEW c \in Consumer, HandlerReturns(c)
    PROVE  ClaimsInv'
<1>1. /\ consumer'[c].pc = consumer[c].pc /\ consumer'[c].todo = consumer[c].todo
      /\ \A k \in Consumer \ {c} : consumer'[k] = consumer[k]
  BY DEF HandlerReturns, TypeOK, Loop
<1>2. First(c)' = First(c)
  BY <1>1 DEF First
<1>3. ReportedOnce(c)' /\ \A e : MayClaim(c, e)' => MayClaim(c, e)
  BY <1>1, <1>2 DEF ClaimsInv, ReportedOnce, MayClaim, On
<1>4. \A k \in Consumer : ReportedOnce(k)' /\ \A e : MayClaim(k, e)' => MayClaim(k, e)
  BY <1>1, <1>3, OtherClaims DEF ClaimsInv
<1>5. \A e \in Event : Claimers(e)' \subseteq Claimers(e)
  BY <1>4 DEF Claimers
<1>6. \A e \in Event : RoomLeft(e)'
  BY <1>5, RoomStays DEF ClaimsInv, HandlerReturns
<1> QED
  BY <1>4, <1>6 DEF ClaimsInv

\* XREADGROUP delivers for the first time, and its consumer claims nothing.
LEMMA DeliverClaims ==
    ASSUME TypeOK, TypeOK', ClaimsInv, NEW c \in Consumer, Deliver \/ UNCHANGED entry,
           \A k \in Consumer \ {c} : consumer'[k] = consumer[k],
           consumer'[c].pc \notin ClaimLoop
    PROVE  /\ \A k \in Consumer \ {c} : ReportedOnce(k)'
           /\ \A e \in Event : RoomLeft(e)'
<1>1. /\ \A k \in Consumer \ {c} : ReportedOnce(k)'
      /\ \A e \in Event : Claimers(e)' \subseteq Claimers(e) \ {c}
  BY NoClaims
<1>2. ASSUME NEW e \in Event PROVE RoomLeft(e)'
  <2>1. entry'[e].count = 1 \/ entry'[e] = entry[e]
    BY DEF Deliver
  <2>2. CASE entry'[e].count = 1
    BY <1>1, <2>2, RoomTaken, Claimants DEF ClaimsInv
  <2>3. CASE entry'[e] = entry[e]
    BY <1>1, <2>3, RoomStays DEF ClaimsInv
  <2> QED
    BY <2>1, <2>2, <2>3
<1> QED
  BY <1>1, <1>2

LEMMA ReadClaims ==
    ASSUME TypeOK, TypeOK', ClaimsInv, NEW c \in Consumer, Read(c) PROVE ClaimsInv'
<1> DEFINE todo == {[event |-> e, count |-> 1] : e \in Fresh}
<1>1. todo \in SUBSET Message
  BY FreshEvents DEF Message
<1>2. PICK pc \in {"scan", "new"} : GoTo(c, pc, todo)
  BY DEF Read
<1>3. /\ consumer'[c].pc = pc /\ consumer'[c].todo = todo
      /\ \A k \in Consumer \ {c} : consumer'[k] = consumer[k]
  BY <1>1, <1>2, Going DEF Pc
<1>4. ReportedOnce(c)'
  BY <1>3 DEF ReportedOnce
<1>5. consumer'[c].pc \notin ClaimLoop
  BY <1>3 DEF ClaimLoop
<1>6. /\ \A k \in Consumer \ {c} : ReportedOnce(k)'
      /\ \A e \in Event : RoomLeft(e)'
  BY <1>3, <1>5, DeliverClaims DEF Read
<1> QED
  BY <1>4, <1>6 DEF ClaimsInv

LEMMA ReadRaisesClaims ==
    ASSUME TypeOK, TypeOK', ClaimsInv, NEW c \in Consumer, ReadRaises(c) PROVE ClaimsInv'
<1>1. /\ consumer'[c].pc = "scan" /\ consumer'[c].todo = {}
      /\ \A k \in Consumer \ {c} : consumer'[k] = consumer[k]
  BY Going DEF ReadRaises, Pc
<1>2. ReportedOnce(c)'
  BY <1>1 DEF ReportedOnce
<1>3. consumer'[c].pc \notin ClaimLoop
  BY <1>1 DEF ClaimLoop
<1>4. /\ \A k \in Consumer \ {c} : ReportedOnce(k)'
      /\ \A e \in Event : RoomLeft(e)'
  BY <1>1, <1>3, DeliverClaims DEF ReadRaises
<1> QED
  BY <1>2, <1>4 DEF ClaimsInv

LEMMA ClaimRaisesClaims ==
    ASSUME TypeOK, TypeOK', ClaimsInv, NEW c \in Consumer, ClaimRaises(c) PROVE ClaimsInv'
<1>1. /\ consumer'[c].pc = "read" /\ consumer'[c].todo = {}
      /\ \A k \in Consumer \ {c} : consumer'[k] = consumer[k]
  BY Going DEF ClaimRaises, Pc
<1>2. consumer'[c].pc \notin ClaimLoop
  BY <1>1 DEF ClaimLoop
<1>3. CASE UNCHANGED entry
  BY <1>1, <1>2, <1>3, StartsOverClaims
<1>4. ASSUME NEW m \in First(c), On(c, "entry"), m.count < MaxRetries, XClaim(m.event)
      PROVE  ClaimsInv'
  <2>1. /\ \A k \in Consumer \ {c} : ReportedOnce(k)'
        /\ \A e \in Event : Claimers(e)' \subseteq Claimers(e) \ {c}
    BY <1>1, <1>2, NoClaims
  <2>2. ReportedOnce(c)'
    BY <1>1 DEF ReportedOnce
  <2>3. \A e \in Event : RoomLeft(e)'
    BY <1>4, <2>1, AtHand, ClaimCounts
  <2> QED
    BY <2>1, <2>2, <2>3 DEF ClaimsInv
<1> QED
  BY <1>3, <1>4 DEF ClaimRaises

LEMMA StopOrStartClaims ==
    ASSUME TypeOK, TypeOK', ClaimsInv, NEW c \in Consumer, Stop(c) \/ Start(c)
    PROVE  ClaimsInv'
<1>1. /\ consumer'[c].pc \in {"off", "scan"} /\ consumer'[c].todo = {}
      /\ \A k \in Consumer \ {c} : consumer'[k] = consumer[k]
  BY DEF Stop, Start, Off, TypeOK
<1>2. consumer'[c].pc \notin ClaimLoop
  BY <1>1 DEF ClaimLoop
<1> QED
  BY <1>1, <1>2, StartsOverClaims DEF Stop, Start

LEMMA AgeClaims ==
    ASSUME TypeOK, TypeOK', ClaimsInv, NEW e \in Event, Age(e) PROVE ClaimsInv'
<1>1. \A x \in Event : entry'[x].count = entry[x].count
  BY DEF Age, TypeOK, Entry
<1> QED
  BY <1>1, NoLoopClaims DEF Age

LEMMA NextClaims == ASSUME TypeOK, TypeOK', ClaimsInv, [Next]_vars PROVE ClaimsInv'
<1>1. CASE Publish \/ UNCHANGED vars
  BY <1>1, NoLoopClaims DEF Publish, vars
<1>2. ASSUME NEW c \in Consumer, Start(c) \/ Stop(c) \/ Subscribe(c)
      PROVE  ClaimsInv'
  BY <1>2, StopOrStartClaims, SubscribeClaims
<1>3. ASSUME NEW c \in Consumer, Step(c) PROVE ClaimsInv'
  BY <1>3, ScanClaims, ClaimClaims, FetchClaims, BuryClaims, BuriedClaims, ReadClaims,
     HandlerReturnsClaims, HandlerRaisesClaims, AcknowledgeClaims DEF Step
<1>4. ASSUME NEW c \in Consumer, ReadRaises(c) \/ ClaimRaises(c) \/ CaughtOnTheWay(c)
      PROVE  ClaimsInv'
  BY <1>4, ReadRaisesClaims, ClaimRaisesClaims, CaughtOnTheWayClaims
<1>5. ASSUME NEW e \in Event, Age(e) PROVE ClaimsInv'
  BY <1>5, AgeClaims
<1> QED
  BY <1>1, <1>2, <1>3, <1>4, <1>5 DEF Next

LEMMA InitClaims == Init => ClaimsInv
<1> SUFFICES ASSUME Init PROVE ClaimsInv
  OBVIOUS
<1>1. \A c \in Consumer : consumer[c].todo = {}
  BY DEF Init, Off
<1>2. \A e \in Event : entry[e].count = 0
  BY DEF Init, NoEntry
<1>3. \A c \in Consumer : ReportedOnce(c)
  BY <1>1 DEF ReportedOnce
<1>4. \A e \in Event : RoomLeft(e)
  BY <1>2, Claimants DEF RoomLeft
<1> QED
  BY <1>3, <1>4 DEF ClaimsInv

\* ClaimsInv, the inductive invariant about claims: each of the consumers that were
\* told of fewer than MAX_RETRIES deliveries may add one, and one of all consumers
\* has made the last of the MAX_RETRIES (_claim_pending_messages).
THEOREM ClaimsInvariance == Spec => []ClaimsInv
<1>1. TypeOK /\ TypeOK' /\ ClaimsInv /\ [Next]_vars => ClaimsInv'
  BY NextClaims
<1> QED
  BY <1>1, InitClaims, TypeCorrectness, PTL DEF Spec

\* MAX_RETRIES is exceeded by less than the number of consumers, for any number of
\* them and any batch size, though every claim is made on an old answer of
\* XPENDING (_claim_pending_messages).
THEOREM BoundedDeliveries == Spec => []DeliveriesBounded
<1>1. ASSUME TypeOK, ClaimsInv PROVE DeliveriesBounded
  <2> SUFFICES ASSUME NEW e \in Event
               PROVE  entry[e].count < MaxRetries + Cardinality(Consumer)
    BY DEF DeliveriesBounded
  <2>1. entry[e].count \in Nat /\ RoomLeft(e)
    BY <1>1 DEF TypeOK, Entry, ClaimsInv
  <2>2. Cardinality(Claimers(e)) \in Nat
    BY Claimants, FS_Subset, FS_CardinalityType DEF Claimers
  <2> QED
    BY <2>1, <2>2, Claimants DEF RoomLeft
<1> QED
  BY <1>1, TypeCorrectness, ClaimsInvariance, PTL
=============================================================================
