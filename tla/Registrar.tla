----------------------------- MODULE Registrar -----------------------------
(***************************************************************************)
(* The registrar makes the cluster known to the cloud and keeps it known:  *)
(* it registers with a growing backoff until the cloud accepts, then sends *)
(* heartbeats and registers again when the cloud answers that it does not  *)
(* know the cluster.  The cloud may forget the cluster at any time, and    *)
(* any request may fail before or after the cloud has carried it out, or   *)
(* be carried out when the registrar has long given it up.                 *)
(***************************************************************************)
EXTENDS Naturals

CONSTANTS
    Override,      \* CLUSTER_FINGERPRINT is set
    MaxFaults,     \* bound: requests the registrar sees fail
    MaxForgets,    \* bound: times the cloud forgets the cluster
    MaxRestarts    \* bound: restarts of the registrar

ASSUME OverrideAssumption == Override \in BOOLEAN

ASSUME BoundAssumption ==
    /\ MaxFaults \in Nat
    /\ MaxForgets \in Nat
    /\ MaxRestarts \in Nat

\* The sources of a fingerprint; "" is none.
Fingerprints == {"override", "uid", ""}

VARIABLES
    pc,          \* "register", "backoff", "wait", "beat", "again", "stopped"
    backoff,     \* seconds until the next try
    fingerprint, \* what this process found when it started
    cancelled,   \* SIGTERM has arrived
    record,      \* the cloud's entry: "unknown" or the fingerprint it was told
    outdated,    \* the last registration carried out had another fingerprint
    late,        \* requests given up on that may still reach the cloud
    requests,    \* registrations sent
    used         \* how much of each bound is used up

vars == <<pc, backoff, fingerprint, cancelled, record, outdated, late, requests, used>>

\* An explicit override, the UID of kube-system, or nothing: the lookup of the
\* UID may fail and never stops the registrar.
ResolveClusterFingerprint ==
    IF Override THEN {"override"} ELSE {"uid", ""}

Init ==
    /\ pc = "register"
    /\ backoff = 1
    /\ fingerprint \in ResolveClusterFingerprint
    /\ cancelled = FALSE
    /\ record = "unknown"
    /\ outdated = FALSE
    /\ late = {}
    /\ requests = 0
    /\ used = [faults |-> 0, forgets |-> 0, restarts |-> 0]

Message(kind) == [kind |-> kind, fingerprint |-> fingerprint]

\* The cloud's entry for the name after a request.  A heartbeat changes nothing:
\* its fingerprint only helps to find a cluster that no name matches.  Without
\* a fingerprint the payload has no such field, and the contract does not say
\* whether an entry that is updated then keeps the one it has.
Received(m) ==
    CASE m.kind = "heartbeat" -> {record}
      [] m.kind = "register" /\ m.fingerprint = "" /\ record # "unknown" -> {record, ""}
      [] OTHER -> {m.fingerprint}

\* The cloud carries out a request.
Carry(m) ==
    /\ record' \in Received(m)
    /\ outdated' = IF m.kind = "register" THEN m.fingerprint # fingerprint ELSE outdated

\* A request that fails for the registrar: never carried out, carried out
\* without an answer, or still on its way.
CallFails(m) ==
    /\ used.faults < MaxFaults
    /\ used' = [used EXCEPT !.faults = @ + 1]
    /\ \/ UNCHANGED <<record, outdated, late>>
       \/ Carry(m) /\ late' = late
       \/ UNCHANGED <<record, outdated>> /\ late' = late \cup {m}

\* The context is cancelled: the call returns an error and sends nothing.
CallCancelled == cancelled /\ UNCHANGED <<record, outdated, late, requests, used>>

-----------------------------------------------------------------------------
(* The registrar *)

\* A failed first registration is retried after the backoff; a failed later
\* one waits for the next heartbeat.
AfterFailure == IF pc = "register" THEN "backoff" ELSE "wait"

Register ==
    /\ pc \in {"register", "again"}
    /\ \/ /\ ~cancelled
          /\ requests' = requests + 1
          /\ \/ /\ pc' = "wait"
                /\ Carry(Message("register"))
                /\ UNCHANGED <<late, used>>
             \/ /\ pc' = AfterFailure
                /\ CallFails(Message("register"))
       \/ CallCancelled /\ pc' = AfterFailure
    /\ UNCHANGED <<backoff, fingerprint, cancelled>>

\* Doubled while it is below 30 seconds.
NextBackoff == IF backoff < 30 THEN 2 * backoff ELSE backoff

Retry ==
    /\ pc = "backoff"
    /\ pc' = "register"
    /\ backoff' = NextBackoff
    /\ UNCHANGED <<fingerprint, cancelled, record, outdated, late, requests, used>>

TickerFires ==
    /\ pc = "wait"
    /\ pc' = "beat"
    /\ UNCHANGED <<backoff, fingerprint, cancelled, record, outdated, late, requests, used>>

\* Mistake: any heartbeat is followed by a registration.
AfterBeat_Always == "again"

\* Mistake: the cloud's "not found" is just another failed heartbeat.
AfterBeat_Logs == "wait"

AfterBeat == IF record = "unknown" THEN "again" ELSE "wait"

\* 404 leads to a registration; any other failure is only logged.
Heartbeat ==
    /\ pc = "beat"
    /\ \/ /\ ~cancelled
          /\ \/ /\ pc' = AfterBeat
                /\ Carry(Message("heartbeat"))
                /\ UNCHANGED <<late, used>>
             \/ /\ pc' = "wait"
                /\ CallFails(Message("heartbeat"))
          /\ UNCHANGED requests
       \/ CallCancelled /\ pc' = "wait"
    /\ UNCHANGED <<backoff, fingerprint, cancelled>>

\* Mistake: only the heartbeat loop looks at the context.
Stop_BeatsOnly ==
    /\ cancelled
    /\ pc = "wait"
    /\ pc' = "stopped"
    /\ UNCHANGED <<backoff, fingerprint, cancelled, record, outdated, late, requests, used>>

\* Both loops look at the context when they wait.
Stop ==
    /\ cancelled
    /\ pc \in {"backoff", "wait"}
    /\ pc' = "stopped"
    /\ UNCHANGED <<backoff, fingerprint, cancelled, record, outdated, late, requests, used>>

-----------------------------------------------------------------------------
(* Its surroundings *)

Terminate ==
    /\ ~cancelled
    /\ cancelled' = TRUE
    /\ UNCHANGED <<pc, backoff, fingerprint, record, outdated, late, requests, used>>

\* A new process starts from nothing, whatever the old one was doing.
Restart ==
    /\ used.restarts < MaxRestarts
    /\ used' = [used EXCEPT !.restarts = @ + 1]
    /\ pc' = "register"
    /\ backoff' = 1
    /\ fingerprint' \in ResolveClusterFingerprint
    /\ cancelled' = FALSE
    /\ UNCHANGED <<record, outdated, late, requests>>

Forget ==
    /\ used.forgets < MaxForgets
    /\ record # "unknown"
    /\ used' = [used EXCEPT !.forgets = @ + 1]
    /\ record' = "unknown"
    /\ UNCHANGED <<pc, backoff, fingerprint, cancelled, outdated, late, requests>>

LateArrives(m) ==
    /\ m \in late
    /\ late' = late \ {m}
    /\ Carry(m)
    /\ UNCHANGED <<pc, backoff, fingerprint, cancelled, requests, used>>

Next ==
    \/ Register \/ Retry \/ TickerFires \/ Heartbeat \/ Stop
    \/ Terminate \/ Restart \/ Forget
    \/ \E m \in late : LateArrives(m)

Spec == Init /\ [][Next]_vars

\* Requests end (they have a timeout), timers fire, and a select whose cases
\* are both ready picks the context's in the end.
Fairness ==
    /\ WF_vars(Register) /\ WF_vars(Heartbeat)
    /\ WF_vars(Retry) /\ WF_vars(TickerFires)
    /\ SF_vars(Stop)

FairSpec == Spec /\ Fairness

-----------------------------------------------------------------------------
(* Properties *)

\* Every variable has its type, and the wait between tries is a power of two
\* that never exceeds 32 seconds.
TypeOK ==
    /\ pc \in {"register", "backoff", "wait", "beat", "again", "stopped"}
    /\ backoff \in {1, 2, 4, 8, 16, 32}
    /\ fingerprint \in Fingerprints
    /\ cancelled \in BOOLEAN
    /\ record \in Fingerprints \cup {"unknown"}
    /\ outdated \in BOOLEAN
    /\ late \subseteq [kind : {"register", "heartbeat"}, fingerprint : Fingerprints]
    /\ requests \in Nat
    /\ used \in [faults : 0..MaxFaults, forgets : 0..MaxForgets, restarts : 0..MaxRestarts]

\* Every registration after the first has a cause of its own: a request that
\* failed, a cloud that forgot, a registrar that was restarted.
RegistersHaveCause ==
    requests =< 1 + used.faults + used.forgets + used.restarts

\* When forgetting and failing end, the cloud knows the cluster, whatever old
\* requests arrive late, unless the registrar has been told to stop.  It knows
\* it by the fingerprint of the registrar that runs, if that has one and the
\* last registration to arrive was not a late one of an earlier process:
\* heartbeats do not repair what such a registration changes.
StaysKnown ==
    <>[](\/ cancelled
         \/ /\ record # "unknown"
            /\ fingerprint # "" /\ ~outdated => record = fingerprint)

\* A registrar that is told to stop stops, in the first registration as well
\* as between heartbeats.
StopsWhenTold == cancelled ~> (pc = "stopped" \/ ~cancelled)
============================================================================
