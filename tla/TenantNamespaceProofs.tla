----------------------- MODULE TenantNamespaceProofs -----------------------
(***************************************************************************)
(* Proofs about TenantNamespace for any set of requests: how many run at   *)
(* the same time, and how many fail, does not matter.                      *)
(***************************************************************************)
EXTENDS TenantNamespace, TLAPS

\* What a request that found no namespace has brought about so far.
Progress(r) ==
    /\ pc[r] = "policy" => quota \/ MaxServers = 0
    /\ pc[r] \in {"server", "created", "refused"} => Hardened

\* The inductive invariant.  FinderHardens speaks of finished requests only;
\* it is preserved because a request has hardened the namespace step by step
\* and quota and policy never go away.
IInv ==
    /\ TypeOK
    /\ \A r \in cause : pc[r] # "idle" /\ Progress(r)
    /\ \A r \in servers \cup fleets : pc[r] = "created"

\* The type invariant holds initially and whatever concurrent requests do.
LEMMA TypeStep ==
    ASSUME TypeOK, [Next]_vars
    PROVE  TypeOK'
<1> USE TenantAssumption DEF TypeOK, Goto
<1>1. CASE OperatorCreates
  BY <1>1 DEF OperatorCreates
<1>2. ASSUME NEW r \in Requests, EnsureNamespace(r)
      PROVE  TypeOK'
  <2>1. CASE FindNamespace(r)
    BY <1>2, <2>1 DEF FindNamespace
  <2>2. CASE CreateNamespace(r)
    BY <1>2, <2>2 DEF CreateNamespace
  <2>3. CASE CreateQuota(r)
    BY <1>2, <2>3 DEF CreateQuota
  <2>4. CASE CreatePolicy(r)
    BY <1>2, <2>4 DEF CreatePolicy
  <2> QED
    BY <1>2, <2>1, <2>2, <2>3, <2>4 DEF EnsureNamespace
<1>3. ASSUME NEW r \in Requests, CreateServer(r) \/ CreateFleet(r)
      PROVE  TypeOK'
  BY <1>3 DEF CreateServer, CreateFleet
<1>4. ASSUME NEW r \in Requests, Fails(r)
      PROVE  TypeOK'
  BY <1>4 DEF Fails
<1>5. CASE UNCHANGED vars
  BY <1>5 DEF vars
<1> QED
  BY <1>1, <1>2, <1>3, <1>4, <1>5 DEF Next

\* The inductive invariant is preserved by every step of every request.
LEMMA IInvStep ==
    ASSUME IInv, [Next]_vars
    PROVE  IInv'
<1>1. TypeOK /\ TypeOK'
  BY TypeStep DEF IInv
<1> USE <1>1, TenantAssumption DEF IInv, TypeOK, Progress, Hardened, Goto
<1>2. CASE OperatorCreates
  BY <1>2 DEF OperatorCreates
<1>3. ASSUME NEW r \in Requests, EnsureNamespace(r)
      PROVE  IInv'
  <2>1. CASE FindNamespace(r)
    BY <1>3, <2>1 DEF FindNamespace
  <2>2. CASE CreateNamespace(r)
    BY <1>3, <2>2 DEF CreateNamespace
  <2>3. CASE CreateQuota(r)
    <3>1. quota' \/ MaxServers = 0
      <4>1. MaxServers > 0 \/ MaxServers = 0
        OBVIOUS
      <4>2. quota' = (quota \/ MaxServers > 0)
        BY <2>3 DEF CreateQuota
      <4> QED
        BY <4>1, <4>2, Zenon
    <3>2. quota => quota'
      BY <2>3, Zenon DEF CreateQuota
    <3> QED
      BY <1>3, <2>3, <3>1, <3>2 DEF CreateQuota
  <2>4. CASE CreatePolicy(r)
    BY <1>3, <2>4 DEF CreatePolicy
  <2> QED
    BY <1>3, <2>1, <2>2, <2>3, <2>4 DEF EnsureNamespace
<1>4. ASSUME NEW r \in Requests, CreateServer(r) \/ CreateFleet(r)
      PROVE  IInv'
  BY <1>4 DEF CreateServer, CreateFleet
<1>5. ASSUME NEW r \in Requests, Fails(r)
      PROVE  IInv'
  BY <1>5 DEF Fails
<1>6. CASE UNCHANGED vars
  BY <1>6 DEF vars
<1> QED
  BY <1>2, <1>3, <1>4, <1>5, <1>6 DEF Next

\* The inductive invariant holds in every reachable state.
THEOREM Invariance == Spec => []IInv
<1>1. Init => IInv
  <2>1. Init => TypeOK
    <3>1. Init => quota \in BOOLEAN /\ policy \in BOOLEAN
      BY Zenon DEF Init
    <3> QED
      BY <3>1, TenantAssumption DEF Init, TypeOK
  <2> QED
    BY <2>1 DEF Init, IInv
<1>2. IInv /\ [Next]_vars => IInv'
  BY IInvStep
<1> QED
  BY <1>1, <1>2, PTL DEF Spec

\* A request that found no namespace creates its GameServer or fleet only in a
\* hardened one: EnsureNamespace, for any number of concurrent requests.
THEOREM FinderHardensHolds == Spec => []FinderHardens
<1>1. IInv => FinderHardens
  BY DEF IInv, FinderHardens, Progress
<1> QED
  BY <1>1, Invariance, PTL

\* Only a request whose Get found no namespace is past EnsureNamespace's early
\* return.
PastEarlyReturn ==
    \A r \in Requests : pc[r] \in {"namespace", "quota", "policy"} => r \in cause

\* PastEarlyReturn is inductive: FindNamespace is the only way past the early return.
LEMMA PastEarlyReturnInvariant == Spec => []PastEarlyReturn
<1>1. Init => PastEarlyReturn
  BY DEF Init, PastEarlyReturn
<1>2. ASSUME TypeOK, PastEarlyReturn, [Next]_vars
      PROVE  PastEarlyReturn'
  <2> USE <1>2 DEF PastEarlyReturn, TypeOK, Goto
  <2>1. CASE OperatorCreates
    BY <2>1 DEF OperatorCreates
  <2>2. ASSUME NEW r \in Requests, EnsureNamespace(r)
        PROVE  PastEarlyReturn'
    BY <2>2 DEF EnsureNamespace, FindNamespace, CreateNamespace, CreateQuota,
                CreatePolicy
  <2>3. ASSUME NEW r \in Requests, CreateServer(r) \/ CreateFleet(r) \/ Fails(r)
        PROVE  PastEarlyReturn'
    BY <2>3 DEF CreateServer, CreateFleet, Fails
  <2>4. CASE UNCHANGED vars
    BY <2>4 DEF vars
  <2> QED
    BY <2>1, <2>2, <2>3, <2>4 DEF Next
<1>3. IInv => TypeOK
  BY DEF IInv
<1> QED
  BY <1>1, <1>2, <1>3, Invariance, PTL DEF Spec

\* A namespace that an operator created before any request looked for it gets
\* neither quota nor policy from EnsureNamespace.
THEOREM ExistingLeftAloneHolds == Spec => ExistingLeftAlone
<1>1. ASSUME PastEarlyReturn, [Next]_vars, ns = "operator", cause = {}
      PROVE  quota' = quota /\ policy' = policy
  <2> USE <1>1 DEF PastEarlyReturn
  <2>1. CASE OperatorCreates
    BY <2>1 DEF OperatorCreates
  <2>2. ASSUME NEW r \in Requests, EnsureNamespace(r)
        PROVE  quota' = quota /\ policy' = policy
    BY <2>2 DEF EnsureNamespace, FindNamespace, CreateNamespace, CreateQuota,
                CreatePolicy
  <2>3. ASSUME NEW r \in Requests, CreateServer(r) \/ CreateFleet(r) \/ Fails(r)
        PROVE  quota' = quota /\ policy' = policy
    BY <2>3 DEF CreateServer, CreateFleet, Fails
  <2>4. CASE UNCHANGED vars
    BY <2>4 DEF vars
  <2> QED
    BY <2>1, <2>2, <2>3, <2>4 DEF Next
<1>2. PastEarlyReturn /\ [Next]_vars
        => [ns = "operator" /\ cause = {} => quota' = quota /\ policy' = policy]_vars
  BY <1>1
<1> QED
  BY <1>2, PastEarlyReturnInvariant, PTL DEF Spec, ExistingLeftAlone
=============================================================================
