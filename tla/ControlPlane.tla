---------------------------- MODULE ControlPlane ----------------------------
(***************************************************************************)
(* The control plane's HTTP API: a request is authenticated by the chain   *)
(* of providers, checked by RouteGuard and NamespaceGuard and served by    *)
(* its handler, while API keys are created, deleted and expire and other   *)
(* requests, the operator and the clock go on.  Creation in a tenant's     *)
(* namespace is TenantNamespace's.  Paths are written without /api/v1.     *)
(***************************************************************************)
EXTENDS TenantNamespace, Sequences

CONSTANTS
    Tenant, Other,  \* the namespace that may not exist yet, and one that does
    Modes,          \* AUTH_MODE: the modes in order
    Enabled,        \* the providers whose AUTH_..._ENABLED is set
    BasicRole,      \* AUTH_BASIC_ROLE
    ClaimedRole,    \* the role in the OIDC token's claim
    Ops,            \* the operations that clients ask for
    KeyNames,       \* names for API keys
    KeyWishes,      \* the roles, namespaces and expiries keys are asked for with
    MaxScopings,    \* bound: edits of the namespaces of a key's Secret
    MaxKeys,        \* bound: keys ever issued
    MaxTime,        \* bound: seconds
    MaxWrites       \* bound: writes of the operator to an object

Namespaces == {Tenant, Other}

\* An entry of the list of namespaces that a key is asked for with: what it
\* matches as it stands, the patterns ParseNamespaces finds in it (it splits
\* at commas, trims and drops blanks), and whether it is the empty string.  A
\* pattern is the set of the namespaces that it matches.
ListEntry(literal, parts, empty) == [literal |-> literal, parts |-> parts, empty |-> empty]
ListEntries ==
    {e \in [literal : SUBSET Namespaces, parts : SUBSET SUBSET Namespaces, empty : BOOLEAN] :
        e.empty => e.parts = {}}

ASSUME ControlPlaneAssumption ==
    /\ Tenant # Other
    /\ Modes \in Seq(STRING)
    /\ Enabled \subseteq {"basic", "oidc", "apikey"}
    /\ {BasicRole, ClaimedRole} \subseteq STRING
    /\ KeyWishes \subseteq STRING \X Seq(ListEntries) \X Nat
    /\ {MaxKeys, MaxTime, MaxWrites, MaxScopings} \subseteq Nat

VARIABLES
    now,     \* the clock
    keys,    \* the Secrets that hold API keys, by name
    issued,  \* history: what became of every key value handed out
    obj,     \* the GameServer and the fleet in the namespace Other
    wanted,  \* history: what the patches applied so far ask for
    named,   \* ActionExecutions and GameSnapshots in Other, named by the second
    writes,  \* the operator's writes so far
    scoped,  \* the edits of the namespaces of Secrets so far
    req      \* every request

apiVars == <<now, keys, issued, obj, wanted, named, writes, scoped, req>>
allVars == <<vars, apiVars>>

-----------------------------------------------------------------------------
(* Who asks *)

\* An API key's user has patterns for namespaces.  No pattern at all is the
\* whole cluster.
User(role, patterns) == [role |-> role, patterns |-> patterns]
Nobody == User("", {})

ClusterWide(user) == user.patterns = {}

AllowsNamespace(user, n) == ClusterWide(user) \/ \E p \in user.patterns : n \in p

NoKey == [value |-> 0, role |-> "", listed |-> {}, field |-> FALSE, scope |-> {},
          expires |-> 0]

\* Mistake: nobody looks at the expiry.
Expired_Never(entry) == FALSE

\* expires is 0 for a key without expiry.
Expired(entry) == entry.expires # 0 /\ now > entry.expires

\* strings.Join(list, ",") gives a text that is not empty ...
Joined(list) == list # <<>> /\ ~(Len(list) = 1 /\ list[1].empty)

\* ... and the patterns that ParseNamespaces finds in that text.
ParseNamespaces(list) == UNION {list[i].parts : i \in DOMAIN list}

\* GenerateKey and toSecret: a value that no key has had before, the list as it
\* is in the metadata, its joined text in a field of its own.  Expiries are in
\* seconds, to which toSecret cuts them down.
GenerateKey(role, list, expires) ==
    [value |-> Len(issued) + 1, role |-> role,
     listed |-> {list[i].literal : i \in DOMAIN list},
     field |-> Joined(list), scope |-> ParseNamespaces(list),
     expires |-> expires]

\* fromSecret: the field goes before the metadata, if there is text in it.  A
\* text without any pattern, such as " " or ",", is the whole cluster.
FromSecret(secret) ==
    User(secret.role, IF secret.field THEN secret.scope ELSE secret.listed)

\* The names under which GetKey finds a key value.
GetKey(value) == {n \in KeyNames : keys[n].value = value /\ ~Expired(keys[n])}

\* A credential: none, the basic user's, an OIDC token or an API key's value.
Credential(kind, value) == [kind |-> kind, value |-> value]

\* The users that a provider makes of a credential: one, or none if it does
\* not accept it.  The tokens and passwords of the other users are external.
NoneUsers(cred) == {User("admin", {})}
BasicUsers(cred) == IF cred.kind = "basic" THEN {User(BasicRole, {})} ELSE {}
OIDCUsers(cred) == IF cred.kind = "oidc" THEN {User(ClaimedRole, {})} ELSE {}
APIKeyUsers(cred) ==
    IF cred.kind = "apikey"
    THEN {FromSecret(keys[n]) : n \in GetKey(cred.value)}
    ELSE {}

UsersOf(provider, cred) ==
    CASE provider = "none"   -> NoneUsers(cred)
      [] provider = "basic"  -> BasicUsers(cred)
      [] provider = "oidc"   -> OIDCUsers(cred)
      [] provider = "apikey" -> APIKeyUsers(cred)

\* BuildChainWithStorage: the modes that give a provider.
Chain == {i \in DOMAIN Modes : Modes[i] \in Enabled \cup {"none"}}

\* Chain.Authenticate: the first provider to accept decides.  Without any
\* provider it is "none".
Authenticate(cred) ==
    IF Chain = {} THEN UsersOf("none", cred)
    ELSE UNION {UsersOf(Modes[i], cred) : i \in
                  {i \in Chain : \A j \in Chain : j < i => UsersOf(Modes[j], cred) = {}}}

-----------------------------------------------------------------------------
(* What may be asked *)

Rule(method, pattern, roles, clusterWide) ==
    [method |-> method, pattern |-> pattern, roles |-> roles, clusterWide |-> clusterWide]

DefaultRules ==
    <<Rule("POST",   <<"gameservers", "{}">>, {"admin"}, FALSE),
      Rule("DELETE", <<"gameservers", "{}", "{}">>, {"admin"}, FALSE),
      Rule("PATCH",  <<"gameservers", "{}", "{}">>, {"operator", "admin"}, FALSE),
      Rule("GET",    <<"gameservers", "{}", "{}", "console">>, {"operator", "admin"}, FALSE),
      Rule("GET",    <<"gameservers", "{}", "{}", "sftp">>, {"operator", "admin"}, FALSE),
      Rule("POST",   <<"gameservers", "{}", "{}", "actions", "{}">>, {"operator", "admin"}, FALSE),
      Rule("POST",   <<"gameservers", "{}", "{}", "snapshots">>, {"operator", "admin"}, FALSE),
      Rule("POST",   <<"gameserverfleets", "{}">>, {"admin"}, FALSE),
      Rule("PATCH",  <<"gameserverfleets", "{}", "{}">>, {"operator", "admin"}, FALSE),
      Rule("DELETE", <<"gameserverfleets", "{}", "{}">>, {"admin"}, FALSE),
      Rule("*",      <<"apikeys">>, {"admin"}, TRUE),
      Rule("*",      <<"apikeys", "{}">>, {"admin"}, TRUE)>>

MatchPath(pattern, path) ==
    /\ Len(pattern) = Len(path)
    /\ \A i \in DOMAIN path : pattern[i] \in {"{}", path[i]}

\* Mistake: an admin key of a tenant may manage keys.
Allows_RoleOnly(rule, user) == user.role \in rule.roles

Allows(rule, user) ==
    user.role \in rule.roles /\ (rule.clusterWide => ClusterWide(user))

Matches(rule, endpoint) ==
    rule.method \in {"*", endpoint.method} /\ MatchPath(rule.pattern, endpoint.path)

\* The first rule that matches decides; without one anybody may go on.
RouteGuard(user, endpoint) ==
    \A i \in DOMAIN DefaultRules :
        Matches(DefaultRules[i], endpoint)
            /\ (\A j \in 1..(i - 1) : ~Matches(DefaultRules[j], endpoint))
          => Allows(DefaultRules[i], user)

NamespaceFromPath(path) ==
    IF Len(path) >= 2 /\ path[1] \in {"gameservers", "gameserverfleets"}
    THEN {path[2]} ELSE {}

NamespaceGuard(user, endpoint) ==
    \A n \in NamespaceFromPath(endpoint.path) : AllowsNamespace(user, n)

Endpoint(method, path) == [method |-> method, path |-> path]

\* The operations, as the router has them.
Endpoints ==
    [createServer |-> Endpoint("POST", <<"gameservers", Tenant>>),
     createFleet  |-> Endpoint("POST", <<"gameserverfleets", Tenant>>),
     patchServer  |-> Endpoint("PATCH", <<"gameservers", Other, "server">>),
     patchFleet   |-> Endpoint("PATCH", <<"gameserverfleets", Other, "fleet">>),
     deleteServer |-> Endpoint("DELETE", <<"gameservers", Other, "server">>),
     deleteFleet  |-> Endpoint("DELETE", <<"gameserverfleets", Other, "fleet">>),
     getServer    |-> Endpoint("GET", <<"gameservers", Other, "server">>),
     getFleet     |-> Endpoint("GET", <<"gameserverfleets", Other, "fleet">>),
     sftp         |-> Endpoint("GET", <<"gameservers", Other, "server", "sftp">>),
     console      |-> Endpoint("GET", <<"gameservers", Other, "server", "console">>),
     listActions  |-> Endpoint("GET", <<"gameservers", Other, "server", "actions">>),
     getExecution |-> Endpoint("GET", <<"gameservers", Other, "server", "executions", "save-0">>),
     listSnapshots |-> Endpoint("GET", <<"gameservers", Other, "server", "snapshots">>),
     listServers  |-> Endpoint("GET", <<"gameservers">>),
     listFleets   |-> Endpoint("GET", <<"gameserverfleets">>),
     listProfiles |-> Endpoint("GET", <<"profiles">>),
     getProfile   |-> Endpoint("GET", <<"profiles", "profile">>),
     listKeys     |-> Endpoint("GET", <<"apikeys">>),
     execute      |-> Endpoint("POST", <<"gameservers", Other, "server", "actions", "save">>),
     snapshot     |-> Endpoint("POST", <<"gameservers", Other, "server", "snapshots">>),
     createKey    |-> Endpoint("POST", <<"apikeys">>),
     deleteKey    |-> Endpoint("DELETE", <<"apikeys", "key">>)]

ASSUME OpsAssumption == Ops \subseteq DOMAIN Endpoints

-----------------------------------------------------------------------------
(* Requests *)

NoObject == [there |-> FALSE, version |-> 0, auto |-> 0, idle |-> 0, replicas |-> 0]

\* key is the API key's value, if there is one in the request.  reach is
\* history: the namespaces that the request's credential stands for;
\* touched are those that it has changed or been told about.
NewRequest == [at |-> "new", user |-> Nobody, key |-> 0, seen |-> NoObject,
               reach |-> {}, touched |-> {}]

\* What a key stands for that is asked for with a list: the namespaces that
\* the patterns in it match, and every one if there is no pattern in it.
Asked(list) ==
    {n \in Namespaces :
        \/ \A i \in DOMAIN list : list[i].parts = {}
        \/ \E i \in DOMAIN list : \E p \in list[i].parts : n \in p}

Reach(cred) == IF cred.kind = "apikey" THEN issued[cred.value].reach ELSE Namespaces

\* The request is answered, having touched these namespaces.
Answer(r, touched) ==
    req' = [req EXCEPT ![r] = [NewRequest EXCEPT !.at = "done", !.touched = touched,
                                                 !.reach = req[r].reach]]

APIInit ==
    /\ Init
    /\ now = 0
    /\ keys = [n \in KeyNames |-> NoKey]
    /\ issued = <<>>
    /\ obj = [k \in {"server", "fleet"} |-> [NoObject EXCEPT !.there = TRUE]]
    /\ wanted = [auto |-> 0, idle |-> 0, replicas |-> 0]
    /\ named = {}
    /\ writes = 0
    /\ scoped = 0
    /\ req = [r \in Requests |-> NewRequest]

\* The middleware: authentication, whose lookup of a key is the only request
\* to the API server, and the two guards.
Arrive(r, op, cred) ==
    /\ req[r].at = "new"
    /\ IF Authenticate(cred) = {}
       THEN req' = [req EXCEPT ![r].at = "unauthorized", ![r].key = cred.value]
       ELSE \E user \in Authenticate(cred) :
              IF RouteGuard(user, Endpoints[op]) /\ NamespaceGuard(user, Endpoints[op])
              THEN req' = [req EXCEPT ![r] = [@ EXCEPT !.at = op, !.user = user,
                                                       !.key = cred.value,
                                                       !.reach = Reach(cred)]]
              ELSE req' = [req EXCEPT ![r].at = "forbidden", ![r].key = cred.value]
    /\ UNCHANGED <<vars, now, keys, issued, obj, wanted, named, writes, scoped>>

\* The lookup of the key fails: the credential is not accepted.
LookupFails(r) ==
    /\ req[r].at = "new" /\ issued # <<>>
    /\ faults < MaxFaults
    /\ faults' = faults + 1
    /\ req' = [req EXCEPT ![r].at = "unauthorized"]
    /\ UNCHANGED <<ns, quota, policy, servers, fleets, pc, cause>>
    /\ UNCHANGED <<now, keys, issued, obj, wanted, named, writes, scoped>>

-----------------------------------------------------------------------------
(* Handlers *)

\* CreateGameServer, and CreateGameServerFleet with a valid body and a profile
\* that exists.
Create(r) ==
    /\ \/ req[r].at \in {"createServer", "createFleet"} /\ (EnsureNamespace(r) \/ Fails(r))
       \/ req[r].at = "createServer" /\ CreateServer(r)
       \/ req[r].at = "createFleet" /\ CreateFleet(r)
    /\ UNCHANGED apiVars

\* A body that does not decode or validate, a profile that does not exist, a
\* patch of any other field: 400 before anything is read.
Reject(r) ==
    /\ req[r].at \in {"createServer", "createFleet", "patchServer", "patchFleet", "createKey"}
    /\ pc[r] = "idle" /\ ~req[r].seen.there
    /\ Answer(r, {})
    /\ UNCHANGED <<vars, now, keys, issued, obj, wanted, named, writes, scoped>>

Kind(r) ==
    IF req[r].at \in {"patchFleet", "deleteFleet", "getFleet", "listFleets"}
    THEN "fleet" ELSE "server"

\* UpdateGameServerLifecycle and UpdateGameServerFleet, the Get.
ReadForPatch(r) ==
    /\ req[r].at \in {"patchServer", "patchFleet"}
    /\ ~req[r].seen.there
    /\ IF obj[Kind(r)].there
       THEN req' = [req EXCEPT ![r].seen = obj[Kind(r)]]
       ELSE Answer(r, {})
    /\ UNCHANGED <<vars, now, keys, issued, obj, wanted, named, writes, scoped>>

PatchFields(r) ==
    IF req[r].at = "patchFleet" THEN {{"replicas"}}
    ELSE {{"auto"}, {"idle"}, {"auto", "idle"}}

\* Mistake: the Update overwrites whatever version there is.
Conflict_None(r) == ~obj[Kind(r)].there

\* The API server's optimistic concurrency.
Conflict(r) ==
    ~obj[Kind(r)].there \/ obj[Kind(r)].version # req[r].seen.version

\* The Update, to other values than before: everything but the patched fields
\* is as it was read.
WritePatch(r) ==
    /\ req[r].at \in {"patchServer", "patchFleet"}
    /\ req[r].seen.there
    /\ IF Conflict(r)
       THEN Answer(r, {}) /\ UNCHANGED <<obj, wanted>>
       ELSE \E fields \in PatchFields(r) :
              /\ obj' = [obj EXCEPT ![Kind(r)] =
                           [f \in DOMAIN @ |-> CASE f \in fields  -> 1 - wanted[f]
                                                 [] f = "version" -> @.version + 1
                                                 [] OTHER         -> req[r].seen[f]]]
              /\ wanted' = [f \in DOMAIN wanted |->
                              IF f \in fields THEN 1 - wanted[f] ELSE wanted[f]]
              /\ Answer(r, {Other})
    /\ UNCHANGED <<vars, now, keys, issued, named, writes, scoped>>

\* DeleteGameServer and DeleteGameServerFleet: the object goes, or is marked,
\* which makes a new version of it, and stays for its finalizer.
Delete(r) ==
    /\ req[r].at \in {"deleteServer", "deleteFleet"}
    /\ IF obj[Kind(r)].there
       THEN /\ \/ obj' = [obj EXCEPT ![Kind(r)] = NoObject]
               \/ obj' = [obj EXCEPT ![Kind(r)].version = @ + 1]
            /\ Answer(r, {Other})
       ELSE UNCHANGED obj /\ Answer(r, {})
    /\ UNCHANGED <<vars, now, keys, issued, wanted, named, writes, scoped>>

\* ExecuteAction and CreateSnapshot name what they create by the second and
\* do not look for the server; a name that is taken is a 500.
CreateNamed(r) ==
    /\ req[r].at \in {"execute", "snapshot"}
    /\ LET name == <<req[r].at, now>>
       IN  IF name \in named
           THEN UNCHANGED named /\ Answer(r, {})
           ELSE named' = named \cup {name} /\ Answer(r, {Other})
    /\ UNCHANGED <<vars, now, keys, issued, obj, wanted, writes, scoped>>

\* There is something to be read.
Readable(r) ==
    CASE req[r].at = "getExecution"  -> \E n \in named : n[1] = "execute"
      [] req[r].at = "listSnapshots" -> TRUE
      [] OTHER                       -> obj[Kind(r)].there

\* The handlers that read in one namespace.  Some also need the profile, what
\* the operator publishes or an identifier that is right, and may find nothing
\* in any case; the console goes on as in Console.
Get(r) ==
    /\ req[r].at \in {"getServer", "getFleet", "sftp", "console", "listActions",
                      "getExecution", "listSnapshots"}
    /\ \/ Readable(r) /\ Answer(r, {Other})
       \/ /\ Readable(r) => req[r].at \in {"sftp", "console", "listActions", "getExecution"}
          /\ Answer(r, {})
    /\ UNCHANGED <<vars, now, keys, issued, obj, wanted, named, writes, scoped>>

\* What ListGameServers and ListGameServerFleets leave of what there is.
Visible(r) ==
    {n \in Namespaces :
        /\ IF n = Other THEN obj[Kind(r)].there
           ELSE (IF Kind(r) = "fleet" THEN fleets ELSE servers) # {}
        /\ AllowsNamespace(req[r].user, n)}

List(r) ==
    /\ req[r].at \in {"listServers", "listFleets"}
    /\ Answer(r, Visible(r))
    /\ UNCHANGED <<vars, now, keys, issued, obj, wanted, named, writes, scoped>>

\* Profiles belong to no namespace; ListAPIKeys leaves the values out.
ReadShared(r) ==
    /\ req[r].at \in {"listProfiles", "getProfile", "listKeys"}
    /\ Answer(r, {})
    /\ UNCHANGED <<vars, now, keys, issued, obj, wanted, named, writes, scoped>>

\* CreateAPIKey: the role defaults to the caller's and an expiry is in the
\* future; the list of namespaces is not looked at.  A Secret of that name is a
\* 500.
CreateAPIKey(r, name, role, list, expires) ==
    /\ req[r].at = "createKey"
    /\ Len(issued) < MaxKeys
    /\ expires = 0 \/ expires > now
    /\ IF keys[name] # NoKey
       THEN UNCHANGED <<keys, issued>> /\ Answer(r, {})
       ELSE /\ keys' = [keys EXCEPT ![name] =
                          GenerateKey(IF role = "" THEN req[r].user.role ELSE role,
                                      list, expires)]
            /\ issued' = Append(issued,
                 [live |-> TRUE, expires |-> expires,
                  reach |-> req[r].reach \cap Asked(list)])
            /\ Answer(r, {})
    /\ UNCHANGED <<vars, now, obj, wanted, named, writes, scoped>>

DeleteAPIKey(r, name) ==
    /\ req[r].at = "deleteKey"
    /\ IF keys[name] = NoKey
       THEN UNCHANGED <<keys, issued>> /\ Answer(r, {})
       ELSE /\ keys' = [keys EXCEPT ![name] = NoKey]
            /\ issued' = [issued EXCEPT ![keys[name].value].live = FALSE]
            /\ Answer(r, {})
    /\ UNCHANGED <<vars, now, obj, wanted, named, writes, scoped>>

\* A handler's request to the API server fails, or the request times out: 500.
HandlerFails(r) ==
    /\ req[r].at \in DOMAIN Endpoints \ {"createServer", "createFleet"}
    /\ faults < MaxFaults
    /\ faults' = faults + 1
    /\ Answer(r, {})
    /\ UNCHANGED <<ns, quota, policy, servers, fleets, pc, cause>>
    /\ UNCHANGED <<now, keys, issued, obj, wanted, named, writes, scoped>>

-----------------------------------------------------------------------------
(* The rest of the world *)

Tick ==
    /\ now < MaxTime
    /\ now' = now + 1
    /\ UNCHANGED <<vars, keys, issued, obj, wanted, named, writes, scoped, req>>

\* The operator writes an object's status, which makes a new version of it.
OperatorWrites(k) ==
    /\ obj[k].there
    /\ writes < MaxWrites
    /\ writes' = writes + 1
    /\ obj' = [obj EXCEPT ![k].version = @ + 1]
    /\ UNCHANGED <<vars, now, keys, issued, wanted, named, scoped, req>>

\* An administrator expires a key by editing its Secret.
ExpireSecret(name) ==
    /\ keys[name] # NoKey /\ now > 0
    /\ keys[name].expires \notin 1..now
    /\ keys' = [keys EXCEPT ![name].expires = now]
    /\ issued' = [issued EXCEPT ![keys[name].value].expires = now]
    /\ UNCHANGED <<vars, now, obj, wanted, named, writes, scoped, req>>

\* An administrator scopes a key by editing the field in its Secret, or takes
\* the text out of it.  From then on the key stands for what the Secret says.
ScopeSecret(name, list) ==
    /\ keys[name] # NoKey
    /\ scoped < MaxScopings
    /\ scoped' = scoped + 1
    /\ LET secret == [keys[name] EXCEPT !.field = Joined(list), !.scope = ParseNamespaces(list)]
       IN  /\ keys' = [keys EXCEPT ![name] = secret]
           /\ issued' = [issued EXCEPT ![secret.value].reach =
                           {n \in Namespaces : AllowsNamespace(FromSecret(secret), n)}]
    /\ UNCHANGED <<vars, now, obj, wanted, named, writes, req>>

Credentials == {Credential(kind, 0) : kind \in {"nothing", "basic", "oidc"}}
                 \cup {Credential("apikey", i) : i \in DOMAIN issued}

Handle(r) ==
    \/ Create(r) \/ Reject(r) \/ ReadForPatch(r) \/ WritePatch(r) \/ Delete(r)
    \/ CreateNamed(r) \/ Get(r) \/ List(r) \/ ReadShared(r) \/ HandlerFails(r)
    \/ \E name \in KeyNames :
         \/ DeleteAPIKey(r, name)
         \/ \E w \in KeyWishes : CreateAPIKey(r, name, w[1], w[2], w[3])

APINext ==
    \/ \E r \in Requests :
         \/ \E op \in Ops, cred \in Credentials : Arrive(r, op, cred)
         \/ LookupFails(r)
         \/ Handle(r)
    \/ OperatorCreates /\ UNCHANGED apiVars
    \/ Tick
    \/ \E k \in DOMAIN obj : OperatorWrites(k)
    \/ \E name \in KeyNames : \/ ExpireSecret(name)
                             \/ \E w \in KeyWishes : ScopeSecret(name, w[2])

APISpec == APIInit /\ [][APINext]_allVars

-----------------------------------------------------------------------------
(* Properties *)

\* The namespaces that a request has had anything to do with.
Touched(r) == IF pc[r] # "idle" THEN {Tenant} ELSE req[r].touched

\* The roles that an operation is open to: reading is open to any.
OpenTo(op, role) ==
    /\ op \in {"createServer", "createFleet", "deleteServer", "deleteFleet",
              "createKey", "deleteKey", "listKeys"} => role = "admin"
    /\ op \in {"patchServer", "patchFleet", "sftp", "console", "execute", "snapshot"}
        => role \in {"operator", "admin"}

\* A request never reads or changes anything outside of the namespaces that
\* its credential stands for, however many API keys were created one with the
\* other to get there, and whether it is NamespaceGuard, RouteGuard or the
\* handler's own filter that has to see to it; and no handler serves a role
\* that the operation is not open to.  A key asked for with a list in which
\* there is no pattern ([" "], ["", ""]) stands for the whole cluster here, as
\* it does for fromSecret: this is not a statement that such a list restricts.
WithinRights ==
    \A r \in Requests :
        /\ Touched(r) \subseteq req[r].reach
        /\ req[r].at \in DOMAIN Endpoints => OpenTo(req[r].at, req[r].user.role)

\* An API key is accepted until it is deleted or has expired, and never again,
\* whatever has become of the Secret of its name; only a failing lookup makes
\* an exception.
AcceptedWhileAlive ==
    [][\A r \in Requests :
         req[r].at = "new" /\ req'[r].key # 0
           => LET key == issued[req'[r].key]
              IN  (req'[r].at # "unauthorized")
                    <=> key.live /\ key.expires \notin 1..(now - 1)]_allVars

\* A patch that was applied stays in force until another one of the same
\* field: concurrent patches, which write back all they have read, do not
\* undo each other.
NoLostUpdate ==
    /\ obj["server"].there => \A f \in {"auto", "idle"} : obj["server"][f] = wanted[f]
    /\ obj["fleet"].there => obj["fleet"].replicas = wanted.replicas
=============================================================================
