------------------------------ MODULE MCServices ------------------------------
(* The services around the documents, one at a time: the job queue, the         *)
(* federation, the edge controller's queue, subscriptions over WebSocket and    *)
(* GraphQL, the rate limiter, the plugins and the access control.  `part` is     *)
(* chosen at the start and the other parts stand still.                         *)
EXTENDS JobQueue, FederationSync, EdgeSync, RateLimit, Subscriptions, AccessControl,
        Plugins, TLC

VARIABLE part

Types == <<"aas", "submodel">>
Shells == [e \in Entity |-> "aas"]

\* One plugin names its dependencies in the opposite order.
Orders == [p \in Plugin |-> IF p = "q" THEN <<"r", "q", "p">> ELSE <<"p", "q", "r">>]

\* A change of high priority, and one of low priority that has no request.
ChangeKinds == {[pushable |-> TRUE, priority |-> "high"], [pushable |-> FALSE, priority |-> "low"]}

\* The policies of policies.py with two values of each that a configuration gives,
\* and three of an operator.
PolicyKinds == {
    [name |-> "tenant_isolation", kind |-> "tenant_isolation", priority |-> 5],
    [name |-> "allow_owner", kind |-> "allow_owner", priority |-> 10],
    [name |-> "ip_allowlist", kind |-> "ip_allowlist", priority |-> 20, networks |-> {"inside"}],
    [name |-> "resource_type", kind |-> "resource_type", priority |-> 30,
     types |-> [create |-> {"aas"}, read |-> {}, update |-> {"aas", "submodel"}, delete |-> {}]],
    [name |-> "time_based", kind |-> "time_based", priority |-> 50, from |-> 1, until |-> 2],
    [name |-> "extra", kind |-> "custom", priority |-> 50, decision |-> "allow"],
    [name |-> "extra", kind |-> "custom", priority |-> 100, decision |-> "allow"],
    [name |-> "other", kind |-> "custom", priority |-> 100, decision |-> "deny"]}

Settings == [middleware |-> TRUE, allowSubdomain |-> TRUE, requireTenant |-> FALSE,
             defaultTenant |-> "ours", oidc |-> TRUE, anonymousAdmin |-> FALSE,
             abac |-> TRUE, defaultDeny |-> TRUE]
Configurations == {
    Settings, [Settings EXCEPT !.middleware = FALSE], [Settings EXCEPT !.defaultDeny = FALSE],
    [Settings EXCEPT !.requireTenant = TRUE, !.defaultTenant = Nothing],
    [Settings EXCEPT !.oidc = FALSE, !.anonymousAdmin = TRUE], [Settings EXCEPT !.abac = FALSE]}

UsersAndNobody == {Nothing} \cup
    [sub : {"u"}, roles : {{"reader"}, {"writer"}}, tenant : {"ours", Nothing}]
AccessRequests == [user : UsersAndNobody, header : {Nothing, "theirs"}, subdomain : {Nothing, "ours"},
             excluded : BOOLEAN, permission : {<<"read", "aas">>, <<"create", "submodel">>},
             ip : {"inside", "elsewhere"}, hour : {1}]

servicesVars == <<part, queueVars, federationVars, edgeVars, subscriptionVars, rateVars,
                  pluginVars, accessVars>>

-----------------------------------------------------------------------------
Part == {"jobs", "federation", "overlaps", "edge", "sockets", "streams", "limiter", "loader", "hooks", "access"}

\* "loader": plugins that depend on each other in every way; "hooks": one that
\* depends on another (which one makes no difference), and handlers of every priority.
PluginsStart ==
    CASE part = "loader" -> priority \in [Plugin -> {1}] /\ depends \in [Plugin -> SUBSET Plugin]
      [] part = "hooks" -> /\ priority \in [Plugin -> HookPriority]
                           /\ depends = [p \in Plugin |-> IF p = "q" THEN {"p"} ELSE {}]
      [] OTHER -> priority = [p \in Plugin |-> 1] /\ depends = [p \in Plugin |-> {}]

ServicesInit ==
    /\ part \in Part
    /\ QueueInit /\ FederationInit /\ EdgeInit /\ SubscriptionsInit /\ RateInit
    /\ part \notin {"federation", "overlaps"} => status = [p \in Peer |-> "new"]
    /\ PluginsStart /\ PluginsInit
    /\ IF part = "access" THEN AccessInit
       ELSE config = [Settings EXCEPT !.abac = FALSE] /\ policies = <<>> /\ added = <<>>

OfJobs(A) ==
    /\ part = "jobs" /\ A
    /\ UNCHANGED <<part, federationVars, edgeVars, subscriptionVars, rateVars, pluginVars, accessVars>>
OfFederation(p, A) ==
    /\ part = p /\ A
    /\ UNCHANGED <<part, queueVars, edgeVars, subscriptionVars, rateVars, pluginVars, accessVars>>
OfEdge(A) ==
    /\ part = "edge" /\ A
    /\ UNCHANGED <<part, queueVars, federationVars, subscriptionVars, rateVars, pluginVars, accessVars>>
OfSubscribers(p, A) ==
    /\ part = p /\ A
    /\ UNCHANGED <<part, queueVars, federationVars, edgeVars, rateVars, pluginVars, accessVars>>
OfLimiter(A) ==
    /\ part = "limiter" /\ A
    /\ UNCHANGED <<part, queueVars, federationVars, edgeVars, subscriptionVars, pluginVars, accessVars>>
OfPlugins(p, A) ==
    /\ part = p /\ A
    /\ UNCHANGED <<part, queueVars, federationVars, edgeVars, subscriptionVars, rateVars, accessVars>>
OfAccess(A) ==
    /\ part = "access" /\ A
    /\ UNCHANGED <<part, queueVars, federationVars, edgeVars, subscriptionVars, rateVars, pluginVars>>

\* "federation": two changes and one sync at a time, among all that peers and
\* operators do; "overlaps": three changes, which a queue of two cannot hold, and
\* two syncs that push at the same time.
OneAtATime == Now' <= 2 /\ Cardinality({r \in Sync : sync'[r].pc # "idle"}) <= 1
OnlyWithPeers == mode' # "pull" /\ UNCHANGED <<etags, outside>>

\* Of the subscribers those over WebSocket, or those over GraphQL; of the plugin
\* system the loading of all, or single plugins that come and go under the hooks.
ServicesNext ==
    \/ OfJobs(QueueNext)
    \/ OfFederation("federation", FederationNext /\ OneAtATime)
    \/ OfFederation("overlaps", FederationNext /\ OnlyWithPeers)
    \/ OfEdge(EdgeNext)
    \/ OfSubscribers("sockets", SubscriptionsNext /\ UNCHANGED <<stream, streaming>>)
    \/ OfSubscribers("streams", SubscriptionsNext /\ socket' = socket)
    \/ OfLimiter(RateNext)
    \/ OfPlugins("loader", \E m \in Manager : LoadAll(m) \/ UnloadAll(m)
                                              \/ Lifecycle(m))
    \/ OfPlugins("hooks", \/ \E m \in Manager : LoadOrUnload(m) \/ Lifecycle(m)
                          \/ \E c \in Caller : Execution(c))
    \/ OfAccess(AccessNext)

ServicesSpec == ServicesInit /\ [][ServicesNext]_servicesVars

\* The sockets, workers, requests and syncs are interchangeable, the jobs, and the peers.
Symmetric == Permutations(Socket) \cup Permutations(Job) \cup Permutations(Peer)

-----------------------------------------------------------------------------
\* The variables of every part keep their types.
ServicesTypeOK ==
    /\ part = "jobs" => QueueTypeOK
    /\ part \in {"federation", "overlaps"} => FederationTypeOK
    /\ part = "edge" => EdgeTypeOK
    /\ part \in {"sockets", "streams"} => SubscriptionsTypeOK
    /\ part = "limiter" => RateTypeOK
    /\ part \in {"loader", "hooks"} => PluginsTypeOK
    /\ part = "access" => AccessTypeOK
=============================================================================
