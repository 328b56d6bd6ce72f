\* Two jobs, two workers, one client that submits and cancels, faults and expiry;
\* two peers, one entity with two changes and two syncs one after the other, or with
\* three changes in a queue of two and two syncs at a time; three
\* changes for an offline queue of two and two tasks; two sockets, and a GraphQL
\* subscription with a queue of two; two requests at a time over five seconds with
\* windows of four; three plugins, two tasks that execute or change them; three
\* policies.
SPECIFICATION ServicesSpec
CONSTANTS
    Job = {j1, j2}
    Worker = {a1, a2}
    Client = {c1}
    MaxRetries = 1
    Nothing = nothing
    Socket = {a1, a2}
    Request = {a1, a2}
    Peer = {p1, p2}
    Entity = {e1}
    Sync = {a1, a2}
    Pulled <- Types
    TypeOf <- Shells
    Hub = nothing
    Delta = TRUE
    MaxSize = 2
    MaxChanges = 3
    MaxTriggers = 2
    MaxOutside = 1
    Change <- ChangeKinds
    EdgeTask = {1, 2}
    MaxQueued = 3
    MaxOfflineQueue = 2
    RetryAttempts = 1
    AutoReconnect = TRUE
    MaxCalls = 1
    Stream = {g1}
    Topic = {"x", "y"}
    MaxQueue = 2
    MaxEvents = 3
    Window = 4
    Limit = 2
    MaxDelay = 1
    MaxTime = 5
    Plugin = {"p", "q", "r"}
    Listed <- Orders
    HookPriority = {1, 2}
    Manager = {m1}
    Caller = {k1}
    Subject = {"u", "v"}
    Policy <- PolicyKinds
    Configuration <- Configurations
    AccessRequest <- AccessRequests
    MaxPolicies = 3
SYMMETRY Symmetric
CHECK_DEADLOCK FALSE
INVARIANTS ServicesTypeOK InOneListOnce SubscribersServed LimiterExact PluginsHold AccessHolds
PROPERTIES ImplementsPool ChangesKept KeptUntilTaken
