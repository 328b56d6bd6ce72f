\* The federation of MCServices: two peers, one change, one sync.
SPECIFICATION ServicesSpec
CONSTANTS
    Job = {j1, j2}
    Worker = {a1, a2}
    Client = {c1}
    MaxRetries = 1
    Nothing = nothing
    Socket = {a1, a2}
    Request = {a1, a2}
    Peer = {p1, p2}
    Entity = {e1}
    Sync = {a1, a2}
    Pulled <- Types
    TypeOf <- Shells
    Hub = nothing
    Delta = TRUE
    MaxSize = 2
    MaxChanges = 3
    MaxTriggers = 2
    MaxOutside = 1
    Change <- ChangeKinds
    EdgeTask = {1, 2}
    MaxQueued = 3
    MaxOfflineQueue = 2
    RetryAttempts = 1
    AutoReconnect = TRUE
    MaxCalls = 1
    Stream = {g1}
    Topic = {"x", "y"}
    MaxQueue = 2
    MaxEvents = 3
    Window = 4
    Limit = 2
    MaxDelay = 1
    MaxTime = 5
    Plugin = {"p", "q", "r"}
    Listed <- Orders
    HookPriority = {1, 2}
    Manager = {m1}
    Caller = {k1}
    Subject = {"u", "v"}
    Policy <- PolicyKinds
    Configuration <- Configurations
    AccessRequest <- AccessRequests
    MaxPolicies = 3
SYMMETRY Symmetric
CHECK_DEADLOCK FALSE
PROPERTY EveryPeerTakes
