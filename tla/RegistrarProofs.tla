-------------------------- MODULE RegistrarProofs --------------------------
(***************************************************************************)
(* Proofs about Registrar, for any number of failing requests, restarts    *)
(* and times that the cloud forgets the cluster.                           *)
(***************************************************************************)
EXTENDS Registrar, TLAPS

\* What has happened that calls for a registration.
Causes == 1 + used.faults + used.forgets + used.restarts

\* A registration is still owed: the registrar is about to send one, or the
\* next heartbeat will find that the cloud does not know the cluster.
Owed == pc \in {"register", "backoff", "again"} \/ record = "unknown"

\* The two parts of TypeOK.
Flags == cancelled \in BOOLEAN /\ outdated \in BOOLEAN

Data ==
    /\ pc \in {"register", "backoff", "wait", "beat", "again", "stopped"}
    /\ backoff \in {1, 2, 4, 8, 16, 32}
    /\ fingerprint \in Fingerprints
    /\ record \in Fingerprints \cup {"unknown"}
    /\ late \subseteq [kind : {"register", "heartbeat"}, fingerprint : Fingerprints]
    /\ requests \in Nat
    /\ used \in [faults : 0..MaxFaults, forgets : 0..MaxForgets, restarts : 0..MaxRestarts]

\* The inductive invariant.  RegistersHaveCause alone is not inductive: while a
\* registration is owed its cause must not have been used up yet.
IInv ==
    /\ Data
    /\ requests =< Causes
    /\ Owed => requests + 1 =< Causes

\* The fingerprint found at the start of a process is one of the known sources.
LEMMA FingerprintType ==
    ResolveClusterFingerprint \subseteq Fingerprints
BY DEF ResolveClusterFingerprint, Fingerprints

\* The backoff is doubled at most up to 32 seconds.
LEMMA BackoffType ==
    ASSUME backoff \in {1, 2, 4, 8, 16, 32}
    PROVE  NextBackoff \in {1, 2, 4, 8, 16, 32}
BY DEF NextBackoff

\* A request that the cloud carries out leaves a known entry known.
LEMMA ReceivedType ==
    ASSUME record \in Fingerprints \cup {"unknown"},
           NEW m \in [kind : {"register", "heartbeat"}, fingerprint : Fingerprints]
    PROVE  \A r \in Received(m) :
              /\ r \in Fingerprints \cup {"unknown"}
              /\ r = "unknown" => record = "unknown" /\ m.kind = "heartbeat"
<1>1. CASE m.kind = "heartbeat"
  BY <1>1 DEF Received
<1>2. CASE m.kind = "register"
  BY <1>2 DEF Received, Fingerprints
<1> QED  BY <1>1, <1>2

\* The invariant holds when the first process starts.
LEMMA InitInv == Init => IInv
<1> SUFFICES ASSUME Init PROVE IInv
  OBVIOUS
<1>2. used \in [faults : 0..MaxFaults, forgets : 0..MaxForgets, restarts : 0..MaxRestarts]
  BY BoundAssumption DEF Init
<1>3. fingerprint \in Fingerprints
  BY FingerprintType DEF Init
<1>4. /\ pc \in {"register", "backoff", "wait", "beat", "again", "stopped"}
      /\ backoff \in {1, 2, 4, 8, 16, 32}
      /\ record \in Fingerprints \cup {"unknown"}
      /\ late \subseteq [kind : {"register", "heartbeat"}, fingerprint : Fingerprints]
      /\ requests \in Nat
  BY DEF Init
<1>5. Data
  BY <1>2, <1>3, <1>4 DEF Data
<1> QED
  BY <1>5 DEF Init, IInv, Causes, Owed

\* A failing request is a cause of its own.
LEMMA FailingCall ==
    ASSUME IInv, NEW m \in [kind : {"register", "heartbeat"}, fingerprint : Fingerprints],
           CallFails(m)
    PROVE  /\ used' \in [faults : 0..MaxFaults, forgets : 0..MaxForgets,
                         restarts : 0..MaxRestarts]
           /\ Causes' = Causes + 1
           /\ record' \in Fingerprints \cup {"unknown"}
           /\ record' = "unknown" => record = "unknown"
           /\ late' \subseteq [kind : {"register", "heartbeat"}, fingerprint : Fingerprints]
<1>1. /\ used' \in [faults : 0..MaxFaults, forgets : 0..MaxForgets, restarts : 0..MaxRestarts]
      /\ Causes' = Causes + 1
  BY BoundAssumption DEF IInv, Data, CallFails, Causes
<1>2. /\ record' \in Fingerprints \cup {"unknown"}
      /\ record' = "unknown" => record = "unknown"
  BY ReceivedType DEF IInv, Data, CallFails, Carry
<1>3. late' \subseteq [kind : {"register", "heartbeat"}, fingerprint : Fingerprints]
  BY DEF IInv, Data, CallFails
<1> QED
  BY <1>1, <1>2, <1>3

\* Every step of the registrar, of the cloud and of the network preserves it.
LEMMA NextInv ==
    ASSUME IInv, [Next]_vars
    PROVE  IInv'
<1> USE BoundAssumption DEF IInv
<1>m. \A k \in {"register", "heartbeat"} :
         /\ Message(k) \in [kind : {"register", "heartbeat"}, fingerprint : Fingerprints]
         /\ Message(k).kind = k
  BY DEF Message, Data
<1>1. CASE Register
  <2>1. ASSUME ~cancelled, requests' = requests + 1, pc' = "wait",
               record' \in Received(Message("register")), UNCHANGED <<late, used>>,
               UNCHANGED <<backoff, fingerprint>>
        PROVE  IInv'
    <3>1. record' \in Fingerprints \cup {"unknown"} /\ record' # "unknown"
      BY <1>m, <2>1, ReceivedType DEF Data
    <3> QED
      BY <1>1, <2>1, <3>1 DEF Register, Data, Owed, Causes
  <2>2. ASSUME ~cancelled, requests' = requests + 1, pc' = AfterFailure,
               CallFails(Message("register")),
               UNCHANGED <<backoff, fingerprint>>
        PROVE  IInv'
    BY <1>1, <1>m, <2>2, FailingCall DEF Register, Data, Owed, Causes, AfterFailure
  <2>3. ASSUME CallCancelled, pc' = AfterFailure,
               UNCHANGED <<backoff, fingerprint>>
        PROVE  IInv'
    BY <1>1, <2>3 DEF Register, Data, Owed, Causes, AfterFailure, CallCancelled
  <2> QED
    BY <1>1, <2>1, <2>2, <2>3 DEF Register, Carry
<1>2. CASE Retry
  BY <1>2, BackoffType DEF Retry, Data, Owed, Causes
<1>3. CASE TickerFires
  BY <1>3 DEF TickerFires, Data, Owed, Causes
<1>4. CASE Heartbeat
  <2>1. ASSUME pc' = AfterBeat, record' \in Received(Message("heartbeat")),
               UNCHANGED <<late, used>>, UNCHANGED requests,
               UNCHANGED <<backoff, fingerprint>>
        PROVE  IInv'
    <3>1. record' \in Fingerprints \cup {"unknown"} /\ (record' = "unknown" => record = "unknown")
      BY <1>m, <2>1, ReceivedType DEF Data
    <3> QED
      BY <1>4, <2>1, <3>1 DEF Heartbeat, Data, Owed, Causes, AfterBeat
  <2>2. ASSUME pc' = "wait", CallFails(Message("heartbeat")), UNCHANGED requests,
               UNCHANGED <<backoff, fingerprint>>
        PROVE  IInv'
    BY <1>4, <1>m, <2>2, FailingCall DEF Heartbeat, Data, Owed, Causes
  <2>3. ASSUME CallCancelled, pc' = "wait",
               UNCHANGED <<backoff, fingerprint>>
        PROVE  IInv'
    BY <1>4, <2>3 DEF Heartbeat, Data, Owed, Causes, CallCancelled
  <2> QED
    BY <1>4, <2>1, <2>2, <2>3 DEF Heartbeat, Carry
<1>5. CASE Stop
  BY <1>5 DEF Stop, Data, Owed, Causes
<1>6. CASE Terminate
  BY <1>6 DEF Terminate, Data, Owed, Causes
<1>7. CASE Restart
  BY <1>7, FingerprintType DEF Restart, Data, Owed, Causes
<1>8. CASE Forget
  BY <1>8 DEF Forget, Data, Owed, Causes
<1>9. ASSUME NEW m \in late, LateArrives(m)
      PROVE  IInv'
  <2>1. m \in [kind : {"register", "heartbeat"}, fingerprint : Fingerprints]
    BY <1>9 DEF Data
  <2>2. record' \in Fingerprints \cup {"unknown"} /\ (record' = "unknown" => record = "unknown")
    BY <1>9, <2>1, ReceivedType DEF LateArrives, Carry, Data
  <2> QED
    BY <1>9, <2>2 DEF LateArrives, Data, Owed, Causes
<1>10. CASE UNCHANGED vars
  BY <1>10 DEF vars, Data, Owed, Causes
<1> QED
  BY <1>1, <1>2, <1>3, <1>4, <1>5, <1>6, <1>7, <1>8, <1>9, <1>10 DEF Next

\* The inductive invariant holds in every reachable state.
LEMMA Invariance == Spec => []IInv
BY InitInv, NextInv, PTL DEF Spec

\* Every variable keeps its type; in particular the wait between two attempts
\* of the first registration never exceeds 32 seconds.
THEOREM TypeCorrect == Spec => []TypeOK
<1>1. Init => Flags
  BY Zenon DEF Init, Flags
<1>2. Flags /\ [Next]_vars => Flags'
  BY Zenon DEF Flags, Next, vars, Register, Carry, CallFails, CallCancelled, Retry, TickerFires,
       Heartbeat, Stop, Terminate, Restart, Forget, LateArrives
<1>3. IInv /\ Flags => TypeOK
  BY Zenon DEF IInv, Data, Flags, TypeOK
<1> QED
  BY <1>1, <1>2, <1>3, Invariance, PTL DEF Spec

\* Every registration after the first has a failed request, a forgetful cloud
\* or a restart of its own as its cause, however many of each there are and
\* whatever arrives late: the loops of run() never register without need.
THEOREM RegistersHaveCauseHolds == Spec => []RegistersHaveCause
<1>1. IInv => RegistersHaveCause
  BY DEF IInv, RegistersHaveCause, Causes
<1> QED
  BY <1>1, Invariance, PTL
============================================================================
