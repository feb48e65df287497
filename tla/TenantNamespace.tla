-------------------------- MODULE TenantNamespace --------------------------
(***************************************************************************)
(* The control plane's creation of GameServers and fleets in a tenant's    *)
(* namespace that may not exist yet: EnsureNamespace, run by concurrent    *)
(* requests against the API server, and the creation that follows it.      *)
(***************************************************************************)
EXTENDS Naturals, FiniteSets

CONSTANTS
    Requests,    \* the creation requests, those that are retries included
    MaxServers,  \* TENANT_QUOTA_MAX_SERVERS; 0 is no quota
    MaxFaults    \* bound: failing or cancelled API requests

ASSUME TenantAssumption ==
    /\ MaxServers \in Nat
    /\ MaxFaults \in Nat

VARIABLES
    ns,       \* the namespace: "absent", or who created it
    quota,    \* the ResourceQuota exists
    policy,   \* the NetworkPolicy exists
    servers,  \* the requests whose GameServer was created
    fleets,   \* the requests whose GameServerFleet was created
    pc,       \* the step each request is at
    cause,    \* the requests that found no namespace
    faults    \* failing API requests so far

vars == <<ns, quota, policy, servers, fleets, pc, cause, faults>>

Init ==
    /\ ns = "absent"
    /\ quota = FALSE /\ policy = FALSE
    /\ servers = {} /\ fleets = {}
    /\ pc = [r \in Requests |-> "idle"]
    /\ cause = {}
    /\ faults = 0

Goto(r, step) == pc' = [pc EXCEPT ![r] = step]

\* An operator creates and configures the namespace outside of the control
\* plane.
OperatorCreates ==
    /\ ns = "absent"
    /\ ns' = "operator"
    /\ UNCHANGED <<quota, policy, servers, fleets, pc, cause, faults>>

\* Get of the namespace: one that exists is left as it is.
FindNamespace(r) ==
    /\ pc[r] = "idle"
    /\ IF ns = "absent"
       THEN Goto(r, "namespace") /\ cause' = cause \cup {r}
       ELSE Goto(r, "server") /\ UNCHANGED cause
    /\ UNCHANGED <<ns, quota, policy, servers, fleets, faults>>

\* AlreadyExists is fine here and below.
CreateNamespace(r) ==
    /\ pc[r] = "namespace"
    /\ ns' = IF ns = "absent" THEN "tenant" ELSE ns
    /\ Goto(r, "quota")
    /\ UNCHANGED <<quota, policy, servers, fleets, cause, faults>>

CreateQuota(r) ==
    /\ pc[r] = "quota"
    /\ quota' = (quota \/ MaxServers > 0)
    /\ Goto(r, "policy")
    /\ UNCHANGED <<ns, policy, servers, fleets, cause, faults>>

CreatePolicy(r) ==
    /\ pc[r] = "policy"
    /\ policy' = TRUE
    /\ Goto(r, "server")
    /\ UNCHANGED <<ns, quota, servers, fleets, cause, faults>>

\* The GameServer is created, if the quota on their number admits it.
CreateServer(r) ==
    /\ pc[r] = "server"
    /\ IF quota /\ Cardinality(servers) >= MaxServers
       THEN Goto(r, "refused") /\ UNCHANGED servers
       ELSE Goto(r, "created") /\ servers' = servers \cup {r}
    /\ UNCHANGED <<ns, quota, policy, fleets, cause, faults>>

\* The fleet is created: the quota does not count fleets.
CreateFleet(r) ==
    /\ pc[r] = "server"
    /\ Goto(r, "created")
    /\ fleets' = fleets \cup {r}
    /\ UNCHANGED <<ns, quota, policy, servers, cause, faults>>

\* Mistake: the error is ignored and the request goes on.
Fails_GoesOn(r) ==
    /\ pc[r] \in {"idle", "namespace", "quota", "policy", "server"}
    /\ faults < MaxFaults
    /\ faults' = faults + 1
    /\ Goto(r, "server")
    /\ UNCHANGED <<ns, quota, policy, servers, fleets, cause>>

\* A request to the API server fails, or the client has hung up: 500.
Fails(r) ==
    /\ pc[r] \in {"idle", "namespace", "quota", "policy", "server"}
    /\ faults < MaxFaults
    /\ faults' = faults + 1
    /\ Goto(r, "failed")
    /\ UNCHANGED <<ns, quota, policy, servers, fleets, cause>>

EnsureNamespace(r) ==
    FindNamespace(r) \/ CreateNamespace(r) \/ CreateQuota(r) \/ CreatePolicy(r)

Next == \/ OperatorCreates
        \/ \E r \in Requests : \/ EnsureNamespace(r)
                              \/ CreateServer(r) \/ CreateFleet(r)
                              \/ Fails(r)

Spec == Init /\ [][Next]_vars

-----------------------------------------------------------------------------
(* Properties *)

Hardened == policy /\ (quota \/ MaxServers = 0)

\* Every variable has its type.
TypeOK ==
    /\ ns \in {"absent", "tenant", "operator"}
    /\ quota \in BOOLEAN /\ policy \in BOOLEAN
    /\ servers \subseteq Requests /\ fleets \subseteq Requests
    /\ cause \subseteq Requests
    /\ pc \in [Requests -> {"idle", "namespace", "quota", "policy", "server",
                            "created", "refused", "failed"}]
    /\ faults \in 0..MaxFaults

\* Whoever found no namespace creates an object only in a hardened one, whatever
\* other requests have done, or failed to do, meanwhile.
FinderHardens ==
    \A r \in (servers \cup fleets) \cap cause : Hardened

\* A namespace that an operator created before any request looked for it is
\* left alone.
ExistingLeftAlone ==
    [][ns = "operator" /\ cause = {} => quota' = quota /\ policy' = policy]_vars
=============================================================================
