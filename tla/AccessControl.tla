----------------------------- MODULE AccessControl -----------------------------
(***************************************************************************)
(* Who may do what: roles (titan.security.rbac), the attribute policies    *)
(* (abac), the tenant of a request (titan.tenancy), and the dependency     *)
(* that routes declare (deps.require_permission).  Policies are added to   *)
(* the engine and removed from it while requests are evaluated; one        *)
(* evaluation awaits nothing.  Reasons, names of users and the validation  *)
(* of tokens are left out.                                                 *)
(***************************************************************************)
EXTENDS Integers, Sequences, FiniteSets, SequencesExt, Absence

CONSTANTS
    Subject,
    Policy,         \* records: name, priority, kind and what the kind needs
    Configuration,  \* records: the settings and the arguments of the middleware
    AccessRequest,  \* records: user, header, subdomain, excluded, permission, ip, hour
    MaxPolicies     \* bound on the policies of the engine

ASSUME AccessAssumption ==
    /\ IsFiniteSet(Policy)
    /\ \A p \in Policy :
        /\ p.kind \in {"allow_owner", "tenant_isolation", "time_based", "ip_allowlist",
                       "resource_type", "custom"}
        /\ p.priority \in Int

VARIABLES
    config,
    policies,   \* ABACEngine.policies
    added       \* the same policies in the order in which they were added (history)

accessVars == <<config, policies, added>>

Type == {"aas", "submodel", "descriptor", "concept_description"}
Permission == ({"read", "create", "update", "delete"} \X Type) \cup {<<"invoke">>, <<"admin">>}

-----------------------------------------------------------------------------
(* Roles.  The titan: roles are the same again.                            *)

IsAdmin(user) == "admin" \in user.roles

RolePermissions(role) ==
    CASE role = "reader" -> {"read"} \X Type
      [] role = "writer" -> ({"read", "create", "update"} \X Type) \cup {<<"invoke">>}
      [] role = "admin" -> Permission
      [] OTHER -> {}

UserPermissions(user) == UNION {RolePermissions(role) : role \in user.roles}

HasPermission(user, permission) == IsAdmin(user) \/ permission \in UserPermissions(user)

\* What is neither reading nor writing a document counts as reading a shell.
PermissionToAbac(permission) ==
    IF Len(permission) = 2 THEN [action |-> permission[1], type |-> permission[2]]
    ELSE [action |-> "read", type |-> "aas"]

-----------------------------------------------------------------------------
(* Policies.  A context has user, type, owner, tenant, action, ip, hour.   *)

DenyUnless(condition) == IF condition THEN "not_applicable" ELSE "deny"

AllowOwner(ctx) ==
    IF ctx.owner # Nothing /\ ctx.owner = ctx.user.sub THEN "allow" ELSE "not_applicable"

\* Mutant of TenantIsolation: a user without a tenant is not asked for one.
TenantIsolationOfMembers(ctx) ==
    DenyUnless(ctx.tenant = Nothing \/ ctx.user.tenant \in {Nothing, ctx.tenant})

TenantIsolation(ctx) == DenyUnless(ctx.tenant = Nothing \/ ctx.user.tenant = ctx.tenant)

\* allowed_hours; days of the week are hours of a longer clock.
TimeBased(policy, ctx) == DenyUnless(policy.from <= ctx.hour /\ ctx.hour < policy.until)

\* An address that does not parse is in no network.
IPAllowlist(policy, ctx) == DenyUnless(ctx.ip = Nothing \/ ctx.ip \in policy.networks)

\* An action without types is not restricted.
ResourceTypes(policy, ctx) ==
    DenyUnless(policy.types[ctx.action] = {} \/ ctx.type \in policy.types[ctx.action])

EvaluatePolicy(policy, ctx) ==
    CASE policy.kind = "allow_owner" -> AllowOwner(ctx)
      [] policy.kind = "tenant_isolation" -> TenantIsolation(ctx)
      [] policy.kind = "time_based" -> TimeBased(policy, ctx)
      [] policy.kind = "ip_allowlist" -> IPAllowlist(policy, ctx)
      [] policy.kind = "resource_type" -> ResourceTypes(policy, ctx)
      [] policy.kind = "custom" -> policy.decision

\* ABACEngine.evaluate: the first policy of the list that decides.
Decides(p, ctx) == EvaluatePolicy(p, ctx) # "not_applicable"

Evaluate(list, ctx) ==
    LET deciding == {i \in DOMAIN list : Decides(list[i], ctx)}
    IN IF deciding # {} THEN EvaluatePolicy(list[Min(deciding)], ctx)
       ELSE IF config.defaultDeny THEN "deny" ELSE "allow"

\* list.sort is stable: the places of a list in the order of the sorted one.
NotAfter(list, i, j) ==
    \/ list[i].priority < list[j].priority
    \/ list[i].priority = list[j].priority /\ i <= j

Rank(list, i) == Cardinality({j \in DOMAIN list : NotAfter(list, j, i)})

ByPriority(list) == [n \in DOMAIN list |-> list[CHOOSE i \in DOMAIN list : Rank(list, i) = n]]

\* Mutant of Added: the list is not sorted again.
AddedLast(list, policy) == Append(list, policy)

Added(list, policy) == ByPriority(Append(list, policy))

AddPolicy(policy) ==
    /\ Len(policies) < MaxPolicies /\ policy \notin Range(policies)
    /\ policies' = Added(policies, policy)
    /\ added' = Append(added, policy)
    /\ UNCHANGED config

\* remove_policy: of the policies with this name, the first of the list.
RemovePolicy(name) ==
    LET named == {i \in DOMAIN policies : policies[i].name = name}
        policy == policies[Min(named)]
    IN /\ named # {}
       /\ policies' = RemoveAt(policies, Min(named))
       /\ added' = RemoveAt(added, CHOOSE i \in DOMAIN added : added[i] = policy)
       /\ UNCHANGED config

-----------------------------------------------------------------------------
(* Requests.                                                               *)

\* TenantMiddleware._extract_tenant.  The token is not validated yet when the
\* middleware runs, so that its claim is never there.
ExtractTenant(r) ==
    IF r.header # Nothing THEN r.header
    ELSE IF config.allowSubdomain THEN r.subdomain ELSE Nothing

\* TenantMiddleware.dispatch, where it is installed.  The context is the request's own.
TenantContext(r) ==
    IF ~config.middleware \/ r.excluded THEN Nothing
    ELSE IF ExtractTenant(r) # Nothing THEN ExtractTenant(r) ELSE config.defaultTenant

RejectedByMiddleware(r) ==
    config.middleware /\ ~r.excluded /\ config.requireTenant /\ ExtractTenant(r) = Nothing

\* _get_resource_tenant.
ResourceTenant(r) == IF TenantContext(r) # Nothing THEN TenantContext(r) ELSE r.header

Anonymous == [sub |-> "anonymous", roles |-> {"admin"}, tenant |-> Nothing]

\* get_current_user: the user of a valid token, where tokens are validated.
CurrentUser(r) == IF config.oidc THEN r.user ELSE Nothing

\* require_authenticated: Nothing is 401.
Authenticated(r) ==
    IF ~config.oidc /\ config.anonymousAdmin THEN Anonymous ELSE CurrentUser(r)

ContextOf(r) ==
    LET mapped == PermissionToAbac(r.permission)
    IN [user |-> Authenticated(r), owner |-> Nothing, tenant |-> ResourceTenant(r),
        action |-> mapped.action, type |-> mapped.type, ip |-> r.ip, hour |-> r.hour]

\* The request reaches the handler of a route that requires the permission.
Granted(r) ==
    LET user == Authenticated(r) IN
    /\ ~RejectedByMiddleware(r)
    /\ user # Nothing
    /\ HasPermission(user, r.permission)
    /\ config.abac /\ ~IsAdmin(user) => Evaluate(policies, ContextOf(r)) # "deny"

-----------------------------------------------------------------------------
DefaultPolicies == {p \in Policy : p.kind \in {"tenant_isolation", "allow_owner"}}

\* create_default_engine, or an engine of an extension's own.
AccessInit ==
    /\ config \in Configuration
    /\ added \in {<<>>} \cup SetToSeqs(DefaultPolicies)
    /\ policies = ByPriority(added)

AccessNext ==
    \/ \E policy \in Policy : AddPolicy(policy)
    \/ \E policy \in Policy : RemovePolicy(policy.name)

AccessSpec == AccessInit /\ [][AccessNext]_accessVars

-----------------------------------------------------------------------------
(* Properties.                                                             *)

AccessTypeOK ==
    /\ config \in Configuration
    /\ policies \in Seq(Policy) /\ added \in Seq(Policy)
    /\ Range(policies) = Range(added) /\ Len(policies) = Len(added)

\* The decision that ABACEngine promises, of the policies as they were added: that of
\* the deciding policy of the highest priority (the lowest number), of the one that was
\* added first among equals, and the default when none decides.
Promised(ctx) ==
    LET Deciding == {i \in DOMAIN added : Decides(added[i], ctx)}
        First(i) == \A j \in Deciding : NotAfter(added, i, j)
    IN IF Deciding = {} THEN IF config.defaultDeny THEN "deny" ELSE "allow"
       ELSE EvaluatePolicy(added[CHOOSE i \in Deciding : First(i)], ctx)

DecisionOfFirst ==
    \A r \in AccessRequest : \A owner \in Subject \cup {Nothing} :
        r.user # Nothing =>
            LET ctx == [user |-> r.user, owner |-> owner, tenant |-> r.header, ip |-> r.ip,
                        hour |-> r.hour, action |-> PermissionToAbac(r.permission).action,
                        type |-> PermissionToAbac(r.permission).type]
            IN Evaluate(policies, ctx) = Promised(ctx)

\* Nobody but an admin reaches a handler in the name of a tenant that is not theirs, as
\* long as the engine isolates tenants and nothing that may allow comes before that:
\* whatever is added, in whatever order, and wherever the tenant was taken from.
TenantsApart ==
    \A r \in AccessRequest :
        LET Isolating == {p \in Range(policies) : p.kind = "tenant_isolation"}
            Allowing == {p \in Range(policies) : p.kind \in {"allow_owner", "custom"}}
        IN /\ config.abac /\ config.oidc /\ Granted(r) /\ ~IsAdmin(r.user)
           /\ \E p \in Isolating : \A q \in Allowing : p.priority < q.priority
           => ResourceTenant(r) \in {Nothing, r.user.tenant}

\* Where there is an engine, its decisions are those it promises and keep tenants apart.
AccessHolds == config.abac => DecisionOfFirst /\ TenantsApart
=============================================================================
