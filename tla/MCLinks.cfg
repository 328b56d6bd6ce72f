\* Two publishers, a reader, two connection attempts and one broken connection;
\* four events in batches of two with two outages; two changes in an offline
\* queue of one, two attempts, two tasks, one sync, clear or stop; a register that changes four
\* times and two reads in a row that have to agree.
SPECIFICATION LinksSpec
CONSTANTS
    Publisher = {p1, p2}
    Reader = {r1}
    Setup = setup
    Loop = loop
    Close = close
    MaxAttempts = 2
    MaxLosses = 1
    MaxEvents = 4
    MaxSize = 2
    BatchSize = 2
    MaxFaults = 2
    EdgeTask = {1, 2}
    MaxQueued = 2
    MaxOfflineQueue = 1
    RetryAttempts = 2
    AutoReconnect = TRUE
    MaxCalls = 1
    Register = {d1}
    Reading = {0, 1, 2}
    RegisterMax = 4
    Debounce = 2
    MaxChanges = 4
    Mappings <- LinkedMappings
    MaxSyncs = 3
    Nothing = nothing
CHECK_DEADLOCK FALSE
INVARIANTS LinksTypeOK BatchesInOrder
PROPERTIES LiveClientKept EveryCallAnswered EveryChangeTried EveryEventFlushed RegistersFollowed
