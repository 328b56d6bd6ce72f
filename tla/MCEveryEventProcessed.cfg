\* As api/app.py wires it: no handler is subscribed before the bus starts.
SPECIFICATION Spec
CONSTANTS
    Consumer = {c1, c2}
    Handlers = 1
    SubscribedAtStart = 0
    MaxRetries = 2
    BatchSize = 1
    MaxLen = 2
    MaxEvents = 2
    MaxFaults = 0
CHECK_DEADLOCK FALSE
INVARIANT EveryEventProcessed
