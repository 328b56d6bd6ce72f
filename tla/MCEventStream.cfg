\* Two instances, batches of two, two handlers of which one is subscribed before
\* the bus starts, two deliveries, a stream of one, one fault; the fault and the
\* late handler are c1's.  With fairness.
SPECIFICATION UnsteadySpec
CONSTANTS
    Consumer = {c1, c2}
    Unsteady = {c1}
    Handlers = 2
    SubscribedAtStart = 1
    MaxRetries = 2
    BatchSize = 2
    MaxLen = 1
    MaxEvents = 2
    MaxFaults = 1
CHECK_DEADLOCK FALSE
INVARIANTS AtLeastOnce DeliveriesBounded
PROPERTY EveryEventSettled
