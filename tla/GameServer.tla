----------------------------- MODULE GameServer -----------------------------
(***************************************************************************)
(* The GameServer controller for one GameServer: finalizer, children,      *)
(* stop and start through spec.lifecycle.autoStart, status and idle        *)
(* timeout.                                                                *)
(*                                                                         *)
(* The GameServer object and its StatefulSet live in the API server; the   *)
(* reconciler reads both from informer caches that lag behind.  A version  *)
(* is represented only by whether a copy is still current: a write through *)
(* a copy that is not fails with a conflict.  Server-side apply with       *)
(* ForceOwnership never conflicts.  Every reconcile is a sequence of steps *)
(* that clients, the StatefulSet controller and players interleave with.   *)
(***************************************************************************)
EXTENDS Naturals, Sequences

CONSTANTS
    IdleTimeout,  \* spec.lifecycle.idleTimeoutSeconds in ticks; 0 is never
    MaxPatches,   \* bound: lifecycle patches by clients
    MaxFaults,    \* bound: failing requests and failing pods
    MaxCrashes    \* bound: operator restarts

ASSUME GSAssumption ==
    /\ IdleTimeout \in Nat
    /\ MaxPatches \in Nat
    /\ MaxFaults \in Nat
    /\ MaxCrashes \in Nat

\* The order in which a reconcile applies the children ...
ApplyOrder == <<"secret", "sts", "headless", "agent", "game", "pvc">>

\* Mistake: the credentials are forgotten.
CleanupOrder_NoSecret == <<"sts", "headless", "agent", "game", "pvc">>

\* ... and in which cleanupResources deletes them.
CleanupOrder == <<"sts", "headless", "agent", "game", "pvc", "secret">>

Children == {ApplyOrder[i] : i \in 1..Len(ApplyOrder)} \ {"sts"}

\* An idle time: LastActivity is unset, or so many ticks ago (saturating).
Never == IdleTimeout + 1
Ages == 0..Never

\* What the profile lookup finds: nothing, a profile no pod can be built from
\* (an image or the mount path is missing), or a usable one.
Profiles == {"missing", "invalid", "valid"}

GSStates == {"", "Provisioning", "Running", "Idle", "Stopped", "Error"}

ServerObjects == [exists : BOOLEAN, deleting : BOOLEAN, finalizer : BOOLEAN,
                  autoStart : BOOLEAN, state : GSStates, activity : Ages]

NoServer == [exists |-> FALSE, deleting |-> FALSE, finalizer |-> FALSE,
             autoStart |-> TRUE, state |-> "", activity |-> Never]

StatefulSets == [exists : BOOLEAN, replicas : 0..1, ready : 0..1]

NoSts == [exists |-> FALSE, replicas |-> 0, ready |-> 0]

VARIABLES
    gs,           \* the GameServer in the API server
    gsCache,      \* the same in the operator's cache
    gsCurrent,    \* gsCache has the latest version
    sts,          \* the StatefulSet in the API server
    stsCache,     \* the same in the operator's cache
    stsCurrent,   \* stsCache has the latest version
    children,     \* the other child objects that exist
    profile,      \* the GameProfile in the operator's cache
    players,      \* somebody is playing
    queued,       \* the server's key is in the work queue
    timer,        \* a RequeueAfter is pending
    pc,           \* the step the reconcile is at
    step,         \* how many children this reconcile has applied or deleted
    copy,         \* the reconcile's copy of the GameServer
    copyCurrent,  \* that copy has the latest version
    seen,         \* how long ago a poll of the agent saw players
    unsaved,      \* the status write of that observation failed
    used          \* how much of each bound is used up

vars == <<gs, gsCache, gsCurrent, sts, stsCache, stsCurrent, children, profile,
          players, queued, timer, pc, step, copy, copyCurrent,
          seen, unsaved, used>>

serverVars == <<gs, gsCache, gsCurrent>>
stsVars == <<sts, stsCache, stsCurrent>>
workVars == <<pc, step, copy, copyCurrent>>
ghostVars == <<seen, unsaved>>

Init ==
    /\ gs = NoServer /\ gsCache = NoServer /\ gsCurrent = TRUE
    /\ sts = NoSts /\ stsCache = NoSts /\ stsCurrent = TRUE
    /\ children = {}
    /\ profile \in Profiles
    /\ players = 0
    /\ queued = FALSE /\ timer = FALSE
    /\ pc = "idle" /\ step = 0 /\ copy = NoServer /\ copyCurrent = FALSE
    /\ seen = Never /\ unsaved = FALSE
    /\ used = [created |-> FALSE, patches |-> 0, faults |-> 0, crashes |-> 0]

-----------------------------------------------------------------------------
(* Clients *)

\* A foreign write makes every copy of the GameServer outdated.
Write(o) ==
    /\ gs' = o
    /\ gsCurrent' = FALSE
    /\ copyCurrent' = FALSE
    /\ UNCHANGED gsCache

\* The control plane creates the server.
CreateServer ==
    /\ ~used.created
    /\ Write([NoServer EXCEPT !.exists = TRUE])
    /\ used' = [used EXCEPT !.created = TRUE]
    /\ UNCHANGED <<stsVars, children, profile, players, queued, timer, pc, step,
                   copy, ghostVars>>

\* PATCH of spec.lifecycle.autoStart.
PatchLifecycle ==
    /\ used.patches < MaxPatches
    /\ gs.exists
    /\ ~gs.deleting
    /\ Write([gs EXCEPT !.autoStart = ~@])
    /\ used' = [used EXCEPT !.patches = @ + 1]
    /\ UNCHANGED <<stsVars, children, profile, players, queued, timer, pc, step,
                   copy, ghostVars>>

\* Deletion waits for the finalizer, if there is one.
DeleteServer ==
    /\ gs.exists
    /\ ~gs.deleting
    /\ Write(IF gs.finalizer THEN [gs EXCEPT !.deleting = TRUE] ELSE NoServer)
    /\ UNCHANGED <<stsVars, children, profile, players, queued, timer, pc, step,
                   copy, ghostVars, used>>

\* GameProfiles are not watched: their arrival or removal enqueues nothing.
ChangeProfile ==
    /\ used.patches < MaxPatches
    /\ used' = [used EXCEPT !.patches = @ + 1]
    /\ \E p \in Profiles \ {profile} : profile' = p
    /\ UNCHANGED <<serverVars, stsVars, children, players, queued, timer,
                   workVars, ghostVars>>

-----------------------------------------------------------------------------
(* The StatefulSet controller and the players *)

PodReady ==
    /\ sts.exists /\ sts.replicas = 1 /\ sts.ready = 0
    /\ sts' = [sts EXCEPT !.ready = 1]
    /\ stsCurrent' = FALSE
    /\ UNCHANGED <<serverVars, stsCache, children, profile, players, queued,
                   timer, workVars, ghostVars, used>>

\* The pod goes away after a scale-down.
PodGone ==
    /\ sts.exists /\ sts.replicas = 0 /\ sts.ready = 1
    /\ sts' = [sts EXCEPT !.ready = 0]
    /\ stsCurrent' = FALSE
    /\ players' = 0
    /\ UNCHANGED <<serverVars, stsCache, children, profile, queued, timer,
                   workVars, ghostVars, used>>

\* The pod fails by itself.
PodFails ==
    /\ used.faults < MaxFaults
    /\ sts.exists /\ sts.replicas = 1 /\ sts.ready = 1
    /\ used' = [used EXCEPT !.faults = @ + 1]
    /\ sts' = [sts EXCEPT !.ready = 0]
    /\ stsCurrent' = FALSE
    /\ players' = 0
    /\ UNCHANGED <<serverVars, stsCache, children, profile, queued, timer,
                   workVars, ghostVars>>

Play ==
    /\ sts.ready = 1
    /\ players' = 1 - players
    /\ UNCHANGED <<serverVars, stsVars, children, profile, queued, timer,
                   workVars, ghostVars, used>>

-----------------------------------------------------------------------------
(* The informers and time *)

ServerSync ==
    /\ ~gsCurrent
    /\ gsCache' = gs
    /\ gsCurrent' = TRUE
    /\ queued' = TRUE
    /\ UNCHANGED <<gs, stsVars, children, profile, players, timer, workVars,
                   ghostVars, used>>

\* Mistake: StatefulSets are not owned, so their changes enqueue nothing.
StsSync_NotOwned ==
    /\ ~stsCurrent
    /\ stsCache' = sts
    /\ stsCurrent' = TRUE
    /\ UNCHANGED <<serverVars, sts, children, profile, players, queued, timer,
                   workVars, ghostVars, used>>

StsSync ==
    /\ ~stsCurrent
    /\ stsCache' = sts
    /\ stsCurrent' = TRUE
    /\ queued' = TRUE
    /\ UNCHANGED <<serverVars, sts, children, profile, players, timer, workVars,
                   ghostVars, used>>

TimerFires ==
    /\ timer
    /\ timer' = FALSE
    /\ queued' = TRUE
    /\ UNCHANGED <<serverVars, stsVars, children, profile, players, workVars,
                   ghostVars, used>>

Later(a) == IF a < IdleTimeout THEN a + 1 ELSE a

Tick ==
    /\ gs' = [gs EXCEPT !.activity = Later(@)]
    /\ gsCache' = [gsCache EXCEPT !.activity = Later(@)]
    /\ copy' = [copy EXCEPT !.activity = Later(@)]
    /\ seen' = Later(seen)
    /\ UNCHANGED <<gsCurrent, stsVars, children, profile, players, queued, timer,
                   pc, step, copyCurrent, unsaved, used>>

-----------------------------------------------------------------------------
(* The reconcile *)

\* The reconcile returns; an error puts the key back into the queue, a
\* RequeueAfter starts the timer.
Return(error, requeueAfter) ==
    /\ pc' = "idle"
    /\ step' = 0
    /\ copy' = NoServer
    /\ copyCurrent' = FALSE
    /\ queued' = (queued \/ error)
    /\ timer' = (timer \/ requeueAfter)

\* A write through the copy is accepted only if the copy is current.  What is
\* written carries the time, so it makes a new version, except when it repeats
\* the last write within the same second.
Accepted(o) ==
    /\ copyCurrent
    /\ gs' = o
    /\ gsCurrent' \in (IF o = gs THEN {gsCurrent, FALSE} ELSE {FALSE})
    /\ UNCHANGED gsCache

Refused ==
    /\ \/ ~copyCurrent /\ UNCHANGED used
       \/ copyCurrent /\ used.faults < MaxFaults
            /\ used' = [used EXCEPT !.faults = @ + 1]
    /\ UNCHANGED serverVars

\* Get from the cache; a server that is gone, or released already, is done.
Skip ==
    /\ pc = "idle" /\ queued
    /\ ~gsCache.exists \/ (gsCache.deleting /\ ~gsCache.finalizer)
    /\ queued' = FALSE
    /\ UNCHANGED <<serverVars, stsVars, children, profile, players, timer,
                   workVars, ghostVars, used>>

AddFinalizer ==
    /\ pc = "idle" /\ queued
    /\ gsCache.exists /\ ~gsCache.deleting /\ ~gsCache.finalizer
    /\ \/ /\ gsCurrent
          /\ gs' = [gsCache EXCEPT !.finalizer = TRUE]
          /\ gsCurrent' = FALSE
          /\ queued' = FALSE
          /\ UNCHANGED <<gsCache, used>>
       \/ /\ ~gsCurrent
          /\ UNCHANGED <<serverVars, used, queued>>
    /\ UNCHANGED <<stsVars, children, profile, players, timer, workVars,
                   ghostVars>>

\* Without a profile to build a pod from the state becomes Error.  The result
\* of that write is ignored; only an invalid profile returns the error.
ProfileMissing ==
    LET o == [gsCache EXCEPT !.state = "Error"] IN
    /\ pc = "idle" /\ queued
    /\ gsCache.exists /\ ~gsCache.deleting /\ gsCache.finalizer
    /\ profile # "valid"
    /\ queued' = (profile = "invalid")
    /\ \/ /\ gsCurrent
          /\ gs' = o
          /\ gsCurrent' = (gs = o)
          /\ UNCHANGED gsCache
       \/ ~gsCurrent /\ UNCHANGED serverVars
    /\ UNCHANGED <<stsVars, children, profile, players, timer, workVars,
                   ghostVars, used>>

Begin(next) ==
    /\ pc = "idle" /\ queued
    /\ gsCache.exists /\ gsCache.finalizer
    /\ queued' = FALSE
    /\ pc' = next
    /\ step' = 0
    /\ copy' = gsCache
    /\ copyCurrent' = gsCurrent
    /\ UNCHANGED <<serverVars, stsVars, children, profile, players, timer,
                   ghostVars, used>>

BeginApply == ~gsCache.deleting /\ profile = "valid" /\ Begin("apply")

\* Mistake: a stopped server is cleaned up as well.
BeginCleanup_WhenStopped ==
    (gsCache.deleting \/ ~gsCache.autoStart) /\ Begin("cleanup")

BeginCleanup == gsCache.deleting /\ Begin("cleanup")

\* A request of this reconcile fails; the reconcile returns the error.
RequestFails ==
    /\ pc \in {"apply", "cleanup"}
    /\ used.faults < MaxFaults
    /\ used' = [used EXCEPT !.faults = @ + 1]
    /\ Return(TRUE, FALSE)
    /\ UNCHANGED <<serverVars, stsVars, children, profile, players,
                   ghostVars>>

StsReady(s) == s.ready >= s.replicas

Stopping == ~copy.autoStart

\* A stop tells the agent to shut down if the cached StatefulSet is up, and goes
\* on whether or not that succeeds; then the StatefulSet is applied with 1
\* replica, or 0 when stopping.
ApplySts ==
    LET target == [exists |-> TRUE, replicas |-> IF Stopping THEN 0 ELSE 1,
                   ready |-> sts.ready] IN
    /\ sts' = target
    /\ stsCurrent' = (stsCurrent /\ target = sts)
    /\ UNCHANGED <<stsCache, children>>

ApplyChild ==
    /\ pc = "apply"
    /\ step < Len(ApplyOrder)
    /\ IF ApplyOrder[step + 1] = "sts"
       THEN ApplySts
       ELSE /\ children' = children \cup {ApplyOrder[step + 1]}
            /\ UNCHANGED <<stsVars>>
    /\ step' = step + 1
    /\ UNCHANGED <<serverVars, profile, players, queued, timer, pc, copy,
                   copyCurrent, ghostVars, used>>

\* The StatefulSet is read back from the cache, where it may not be yet.
StsNotCached ==
    /\ pc = "apply" /\ step = Len(ApplyOrder)
    /\ ~stsCache.exists
    /\ Return(TRUE, FALSE)
    /\ UNCHANGED <<serverVars, stsVars, children, profile, players,
                   ghostVars, used>>

\* Mistake: the error of the status write is dropped.
UpdateStoppedStatus_DropsError ==
    /\ pc = "apply" /\ step = Len(ApplyOrder)
    /\ stsCache.exists
    /\ Stopping
    /\ \/ Accepted([copy EXCEPT !.state = "Stopped"]) /\ UNCHANGED used
       \/ Refused
    /\ Return(FALSE, FALSE)
    /\ UNCHANGED <<stsVars, children, profile, players, ghostVars>>

UpdateStoppedStatus ==
    /\ pc = "apply" /\ step = Len(ApplyOrder)
    /\ stsCache.exists
    /\ Stopping
    /\ \/ Accepted([copy EXCEPT !.state = "Stopped"]) /\ Return(FALSE, FALSE)
            /\ UNCHANGED used
       \/ Refused /\ Return(TRUE, FALSE)
    /\ UNCHANGED <<stsVars, children, profile, players, ghostVars>>

\* Mistake: the reconcile goes on after a refused status write.
UpdateStatus_GoesOn ==
    LET ready == StsReady(stsCache)
        o == [copy EXCEPT !.state = IF ready THEN "Running" ELSE "Provisioning"] IN
    /\ pc = "apply" /\ step = Len(ApplyOrder)
    /\ stsCache.exists
    /\ ~Stopping
    /\ \/ Accepted(o) /\ UNCHANGED used
       \/ Refused
    /\ IF ready
       THEN pc' = "agent" /\ copy' = o /\ UNCHANGED <<step, copyCurrent, queued, timer>>
       ELSE Return(FALSE, FALSE)
    /\ UNCHANGED <<stsVars, children, profile, players, ghostVars>>

\* State and conditions from the cached StatefulSet; a failed write returns.
UpdateStatus ==
    LET ready == StsReady(stsCache)
        o == [copy EXCEPT !.state = IF ready THEN "Running" ELSE "Provisioning"] IN
    /\ pc = "apply" /\ step = Len(ApplyOrder)
    /\ stsCache.exists
    /\ ~Stopping
    /\ \/ /\ Accepted(o)
          /\ IF ready
             THEN pc' = "agent" /\ copy' = o /\ UNCHANGED <<step, copyCurrent, queued, timer>>
             ELSE Return(FALSE, FALSE)
          /\ UNCHANGED used
       \/ Refused /\ Return(TRUE, FALSE)
    /\ UNCHANGED <<stsVars, children, profile, players, ghostVars>>

\* The agent's health goes into a condition; a failed write is only logged.
UpdateAgentStatus ==
    /\ pc = "agent"
    /\ \/ Accepted(copy) /\ UNCHANGED used
       \/ Refused
    /\ IF IdleTimeout > 0
       THEN pc' = "poll" /\ UNCHANGED <<step, copy, copyCurrent, queued, timer>>
       ELSE Return(FALSE, TRUE)
    /\ UNCHANGED <<stsVars, children, profile, players, ghostVars>>

\* checkIdleTimeout: nothing to do on a StatefulSet that is cached as scaled
\* down, or when the agent does not answer.
PollSkipped ==
    /\ pc = "poll"
    /\ Return(FALSE, TRUE)
    /\ UNCHANGED <<serverVars, stsVars, children, profile, players,
                   ghostVars, used>>

\* Somebody plays: LastActivity is now.
PollActive ==
    /\ pc = "poll"
    /\ stsCache.replicas > 0 /\ sts.ready = 1
    /\ players > 0
    /\ seen' = 0
    /\ \/ /\ Accepted([copy EXCEPT !.activity = 0, !.state = "Running"])
          /\ unsaved' = FALSE
          /\ UNCHANGED used
       \/ Refused /\ unsaved' = TRUE
    /\ Return(FALSE, TRUE)
    /\ UNCHANGED <<stsVars, children, profile, players>>

\* Nobody plays and no LastActivity is known: it starts now.
PollFirst ==
    /\ pc = "poll"
    /\ stsCache.replicas > 0 /\ sts.ready = 1
    /\ players = 0
    /\ copy.activity = Never
    /\ \/ Accepted([copy EXCEPT !.activity = 0]) /\ UNCHANGED used
       \/ Refused
    /\ Return(FALSE, TRUE)
    /\ UNCHANGED <<stsVars, children, profile, players, ghostVars>>

PollIdle ==
    /\ pc = "poll"
    /\ stsCache.replicas > 0 /\ sts.ready = 1
    /\ players = 0
    /\ copy.activity < IdleTimeout
    /\ Return(FALSE, TRUE)
    /\ UNCHANGED <<serverVars, stsVars, children, profile, players,
                   ghostVars, used>>

\* Idle for long enough: the agent is told, the StatefulSet is scaled down
\* through the cached copy (which may conflict) and the state becomes Idle.
PollExpired ==
    /\ pc = "poll"
    /\ stsCache.replicas > 0 /\ sts.ready = 1
    /\ players = 0
    /\ copy.activity = IdleTimeout
    /\ \/ /\ stsCurrent
          /\ sts' = [sts EXCEPT !.replicas = 0]
          /\ stsCurrent' = FALSE
          /\ \/ Accepted([copy EXCEPT !.state = "Idle"]) /\ UNCHANGED used
             \/ Refused
       \/ ~stsCurrent /\ UNCHANGED <<sts, stsCurrent, serverVars, used>>
    /\ Return(FALSE, TRUE)
    /\ UNCHANGED <<stsCache, children, profile, players, ghostVars>>

CleanupChild ==
    /\ pc = "cleanup"
    /\ step < Len(CleanupOrder)
    /\ IF CleanupOrder[step + 1] = "sts"
       THEN /\ sts' = NoSts
            /\ stsCurrent' = (stsCurrent /\ ~sts.exists)
            /\ players' = 0
            /\ UNCHANGED <<stsCache, children>>
       ELSE /\ children' = children \ {CleanupOrder[step + 1]}
            /\ UNCHANGED <<stsVars, players>>
    /\ step' = step + 1
    /\ UNCHANGED <<serverVars, profile, queued, timer, pc, copy,
                   copyCurrent, ghostVars, used>>

\* Mistake: the error of the last write is dropped.
RemoveFinalizer_DropsError ==
    /\ pc = "cleanup"
    /\ step = Len(CleanupOrder)
    /\ \/ Accepted(NoServer) /\ UNCHANGED used
       \/ Refused
    /\ Return(FALSE, FALSE)
    /\ UNCHANGED <<stsVars, children, profile, players, ghostVars>>

\* With the finalizer the object goes away.
RemoveFinalizer ==
    /\ pc = "cleanup"
    /\ step = Len(CleanupOrder)
    /\ \/ Accepted(NoServer) /\ Return(FALSE, FALSE) /\ UNCHANGED used
       \/ Refused /\ Return(TRUE, FALSE)
    /\ UNCHANGED <<stsVars, children, profile, players, ghostVars>>

-----------------------------------------------------------------------------

\* The operator restarts and lists everything afresh.
Crash ==
    /\ used.crashes < MaxCrashes
    /\ used' = [used EXCEPT !.crashes = @ + 1]
    /\ gsCache' = gs /\ gsCurrent' = TRUE
    /\ stsCache' = sts /\ stsCurrent' = TRUE
    /\ pc' = "idle" /\ step' = 0 /\ copy' = NoServer /\ copyCurrent' = FALSE
    /\ queued' = gs.exists
    /\ timer' = FALSE
    /\ UNCHANGED <<gs, sts, children, profile, players, ghostVars>>

Client == CreateServer \/ PatchLifecycle \/ DeleteServer \/ ChangeProfile

Pod == PodReady \/ PodGone \/ PodFails \/ Play

Informer == ServerSync \/ StsSync \/ TimerFires

Start == Skip \/ AddFinalizer \/ ProfileMissing \/ BeginApply \/ BeginCleanup

Poll == PollSkipped \/ PollActive \/ PollFirst \/ PollIdle \/ PollExpired

\* The part of the poll that happens once the agent answers.
PollAnswered == PollActive \/ PollFirst \/ PollIdle \/ PollExpired

Continue == \/ ApplyChild \/ StsNotCached \/ UpdateStoppedStatus \/ UpdateStatus
            \/ UpdateAgentStatus \/ Poll \/ CleanupChild \/ RemoveFinalizer

Next == \/ Client \/ Pod \/ Informer \/ Tick \/ Start \/ Continue
        \/ RequestFails \/ Crash

Spec == Init /\ [][Next]_vars

\* Watches deliver, the worker goes on, the kubelet starts and stops pods,
\* timers fire, time passes, and an agent that is up keeps answering now and
\* then.  Nothing is assumed of clients, players or failures.
Fairness ==
    /\ WF_vars(ServerSync) /\ WF_vars(StsSync) /\ WF_vars(TimerFires)
    /\ WF_vars(Start) /\ WF_vars(Continue) /\ SF_vars(PollAnswered)
    /\ WF_vars(PodReady) /\ WF_vars(PodGone)
    /\ WF_vars(Tick)

FairSpec == Spec /\ Fairness

-----------------------------------------------------------------------------
(* Properties *)

\* Every variable has its type.
TypeOK ==
    /\ gs \in ServerObjects /\ gsCache \in ServerObjects /\ copy \in ServerObjects
    /\ sts \in StatefulSets /\ stsCache \in StatefulSets
    /\ children \subseteq Children
    /\ profile \in Profiles
    /\ {gsCurrent, stsCurrent, copyCurrent, queued, timer, unsaved} \subseteq BOOLEAN
    /\ players \in 0..1
    /\ pc \in {"idle", "apply", "agent", "poll", "cleanup"}
    /\ step \in 0..Len(ApplyOrder)
    /\ seen \in Ages
    /\ used \in [created : BOOLEAN, patches : 0..MaxPatches,
                 faults : 0..MaxFaults, crashes : 0..MaxCrashes]

\* Once the GameServer is gone none of its children is left, and no reconcile
\* that works on an old copy brings one back.
NothingLeftBehind ==
    ~gs.exists => children = {} /\ ~sts.exists

\* World data is deleted only with the GameServer: neither a stop nor an idle
\* shutdown nor a restart of the operator takes the volume claim, the
\* credentials or the services away.
ChildrenKept ==
    [][~gs.deleting => children \subseteq children']_vars

\* A shutdown for idleness never follows within the timeout of a poll that saw
\* players, unless recording that observation failed: the conflict check of
\* the status write before the poll keeps out copies that do not know of it.
IdleRespectsActivity ==
    [][PollExpired /\ sts' # sts => seen >= IdleTimeout \/ unsaved]_vars

\* A server that is to be stopped is brought down and reported Stopped for
\* good, if its profile is usable all the time (a profile that becomes usable
\* later is noticed only with the next event or restart).
StopTakesHold ==
    [](profile = "valid") /\ <>[](gs.exists /\ ~gs.deleting /\ ~gs.autoStart)
        => <>[](sts.replicas = 0 /\ gs.state = "Stopped")

\* A server that is to run is brought up and reported Running for good, however
\* stale the StatefulSet was that earlier reports were taken from; again with
\* a profile that is usable all the time.
StartTakesHold ==
    [](profile = "valid") /\ <>[](gs.exists /\ ~gs.deleting /\ gs.autoStart)
        => <>[](sts.replicas = 1 /\ sts.ready = 1 /\ gs.state = "Running")

\* A deleted server goes away.
DeletionCompletes == gs.deleting ~> ~gs.exists

\* docs/operations/lifecycle.md: a server nobody plays on is shut down.
IdleTakesHold ==
    [](profile = "valid")
    /\ <>[](gs.exists /\ ~gs.deleting /\ gs.autoStart /\ players = 0)
        => <>[](sts.replicas = 0)
============================================================================
