--------------------------- MODULE ServiceMonitor ---------------------------
(***************************************************************************)
(* The ServiceMonitors of ready game servers.  Every reconcile of a server *)
(* passes reconcileServiceMonitor on its way to the status update; whether *)
(* the Prometheus Operator is installed is asked through one process-wide  *)
(* cached answer that all servers share, while an administrator installs   *)
(* and removes the operator and edits the profile.  Ready servers are      *)
(* polled, so each of them is reconciled again and again.                  *)
(*                                                                         *)
(* The check reads a CustomResourceDefinition.  The operator that is       *)
(* shipped cannot: its scheme does not hold that kind and no role grants   *)
(* it.  The tests of the check give their client a scheme that does.       *)
(***************************************************************************)
EXTENDS Naturals

CONSTANTS
    Servers,       \* ready servers of one GameProfile
    Readable,      \* the client can read CustomResourceDefinitions
    CacheTicks,    \* prometheusDetectionCacheDuration
    MaxInstalls,   \* bound: times the Prometheus Operator comes or goes
    MaxEdits,      \* bound: edits of the profile
    MaxFaults      \* bound: API requests that fail although they are valid

VARIABLES
    installed,     \* the ServiceMonitor CRD exists
    profile,       \* the profile: "off", "noPort" or "on"
    monitor,       \* the servers that have a ServiceMonitor
    detected,      \* prometheusDetected
    age,           \* time since prometheusLastChecked
    pc,            \* the worker: "idle", "monitor", "apply", "rest"
    at,            \* the server it reconciles
    seen,          \* the profile this reconcile read
    used           \* how much of each bound is used up

vars == <<installed, profile, monitor, detected, age, pc, at, seen, used>>

detection == <<detected, age>>
world == <<installed, profile>>

Settings == {"off", "noPort", "on"}

Init ==
    /\ installed \in BOOLEAN
    /\ profile \in Settings
    /\ monitor = {}
    /\ detected = FALSE
    /\ age = CacheTicks
    /\ pc = "idle"
    /\ at \in Servers
    /\ seen = "off"
    /\ used = [installs |-> 0, edits |-> 0, faults |-> 0]

-----------------------------------------------------------------------------
(* The administrator and time *)

\* Removing the CRD removes the objects of its kind.
Install ==
    /\ used.installs < MaxInstalls
    /\ used' = [used EXCEPT !.installs = @ + 1]
    /\ installed' = ~installed
    /\ monitor' = IF installed THEN {} ELSE monitor
    /\ UNCHANGED <<profile, detection, pc, at, seen>>

EditProfile ==
    /\ used.edits < MaxEdits
    /\ used' = [used EXCEPT !.edits = @ + 1]
    /\ profile' \in Settings \ {profile}
    /\ UNCHANGED <<installed, monitor, detection, pc, at, seen>>

Tick ==
    /\ age < CacheTicks
    /\ age' = age + 1
    /\ UNCHANGED <<world, monitor, detected, pc, at, seen, used>>

-----------------------------------------------------------------------------
(* The reconcile *)

\* The reconcile of a server reads the profile; what it does before the
\* ServiceMonitor is modelled in GameServer.
Begin(s) ==
    /\ pc = "idle"
    /\ pc' = "monitor"
    /\ at' = s
    /\ seen' = profile
    /\ UNCHANGED <<world, monitor, detection, used>>

\* A returned error ends the reconcile; the server is queued again.
Fails ==
    /\ pc' = "idle"
    /\ UNCHANGED <<world, monitor, detection, at, seen>>

RequestFails ==
    /\ used.faults < MaxFaults
    /\ used' = [used EXCEPT !.faults = @ + 1]
    /\ Fails

\* A profile that does not enable the monitor removes it; that there is none,
\* or no such kind, is no error.
RemoveMonitor ==
    /\ pc = "monitor" /\ seen = "off"
    /\ \/ /\ pc' = "rest"
          /\ monitor' = monitor \ {at}
          /\ UNCHANGED <<world, detection, at, seen, used>>
       \/ installed /\ RequestFails

\* The cached answer is used until it is five minutes old.
Fresh == age < CacheTicks

\* The answer of DetectPrometheusOperator: the cached one, or that of a new
\* check, which is FALSE when the request fails for any reason.
Detect(answer) ==
    /\ detected' = answer
    /\ age' = IF Fresh THEN age ELSE 0
    /\ \/ Fresh /\ answer = detected /\ used' = used
       \/ ~Fresh /\ answer = (Readable /\ installed) /\ used' = used
       \/ /\ ~Fresh /\ answer = FALSE
          /\ used.faults < MaxFaults
          /\ used' = [used EXCEPT !.faults = @ + 1]

\* Not detected, or no port to scrape: the step is skipped without an error.
SkipMonitor ==
    /\ pc = "monitor" /\ seen # "off"
    /\ \E answer \in BOOLEAN :
        /\ Detect(answer)
        /\ answer => seen = "noPort"
    /\ pc' = "rest"
    /\ UNCHANGED <<world, monitor, at, seen>>

Wanted ==
    /\ pc = "monitor" /\ seen = "on"
    /\ Detect(TRUE)
    /\ pc' = "apply"
    /\ UNCHANGED <<world, monitor, at, seen>>

\* CreateOrUpdate fails while the kind does not exist.
ApplyMonitor ==
    /\ pc = "apply"
    /\ \/ /\ installed
          /\ monitor' = monitor \cup {at}
          /\ pc' = "rest"
          /\ UNCHANGED <<world, detection, at, seen, used>>
       \/ ~installed /\ used' = used /\ Fails
       \/ RequestFails

\* The status update, the health check and the requeue that follow.
Finish ==
    /\ pc = "rest"
    /\ pc' = "idle"
    /\ UNCHANGED <<world, monitor, detection, at, seen, used>>

ReconcileServiceMonitor == RemoveMonitor \/ SkipMonitor \/ Wanted \/ ApplyMonitor

Next ==
    \/ Install \/ EditProfile \/ Tick
    \/ \E s \in Servers : Begin(s)
    \/ ReconcileServiceMonitor \/ Finish

Spec == Init /\ [][Next]_vars

\* Every polled server gets its turn, the worker works and time passes.
Fairness ==
    /\ WF_vars(Tick)
    /\ \A s \in Servers : SF_vars(Begin(s))
    /\ WF_vars(ReconcileServiceMonitor)
    /\ WF_vars(Finish)

FairSpec == Spec /\ Fairness

-----------------------------------------------------------------------------
(* Properties *)

\* Every variable has its type.
TypeOK ==
    /\ installed \in BOOLEAN
    /\ profile \in Settings
    /\ monitor \subseteq Servers
    /\ detected \in BOOLEAN
    /\ age \in 0..CacheTicks
    /\ pc \in {"idle", "monitor", "apply", "rest"}
    /\ at \in Servers
    /\ seen \in Settings
    /\ used \in [installs : 0..MaxInstalls, edits : 0..MaxEdits, faults : 0..MaxFaults]

\* While a profile enables ServiceMonitors, names a port and the Prometheus
\* Operator is installed, every ready server has a ServiceMonitor in the end.
MonitorsCreated ==
    <>[](installed /\ profile = "on") => <>[](monitor = Servers)
=============================================================================
