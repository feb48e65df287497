-------------------------- MODULE GameServerProofs --------------------------
(***************************************************************************)
(* Proofs about GameServer, for any idle timeout and any number of         *)
(* patches, failing requests and operator restarts: what a stale cache and *)
(* an old copy of the server can do to its children and its players.       *)
(***************************************************************************)
EXTENDS GameServer, TLAPS

-----------------------------------------------------------------------------
(* The inductive invariant *)

\* The two halves of TypeOK: the Boolean variables and the others.
Flags ==
    /\ gsCurrent \in BOOLEAN /\ stsCurrent \in BOOLEAN /\ copyCurrent \in BOOLEAN
    /\ queued \in BOOLEAN /\ timer \in BOOLEAN /\ unsaved \in BOOLEAN

Data ==
    /\ gs \in ServerObjects /\ gsCache \in ServerObjects /\ copy \in ServerObjects
    /\ sts \in StatefulSets /\ stsCache \in StatefulSets
    /\ children \subseteq Children
    /\ profile \in Profiles
    /\ players \in 0..1
    /\ pc \in {"idle", "apply", "agent", "poll", "cleanup"}
    /\ step \in 0..6
    /\ seen \in Ages
    /\ used \in [created : BOOLEAN, patches : 0..MaxPatches,
                 faults : 0..MaxFaults, crashes : 0..MaxCrashes]

\* A reconcile that applies children and reports; the other kind cleans up.
Working == {"apply", "agent", "poll"}

\* A copy that counts as current is what the API server has.
Fresh ==
    /\ gsCurrent => gsCache = gs
    /\ copyCurrent => copy = gs
    /\ pc = "idle" => ~copyCurrent

\* The server is created once: before that no cache knows of one.
Created ==
    ~used.created => /\ ~gs.exists /\ ~gs.deleting
                     /\ ~gsCache.exists /\ ~gsCache.deleting
                     /\ pc = "idle" /\ seen = Never

\* A deletion is never taken back: who has heard of it, however long ago, is
\* right, and the cache of a reconcile that cleans up has heard of it.
Deletion ==
    /\ gsCache.deleting => gs.deleting \/ ~gs.exists
    /\ pc = "cleanup" => /\ gsCache.deleting \/ ~gsCache.exists
                         /\ gs.deleting \/ ~gs.exists

\* The finalizer holds the server while anybody may still apply a child: there
\* is one, a reconcile is at work on them, or the cache would start one.
Held ==
    /\ gsCache.exists /\ gsCache.finalizer /\ ~gsCache.deleting => gs.exists /\ gs.finalizer
    /\ pc \in Working => gs.exists /\ gs.finalizer
    /\ children # {} \/ sts.exists => gs.exists /\ gs.finalizer

Gone(c) == IF c = "sts" THEN ~sts.exists ELSE c \notin children

\* A cleanup leaves nothing of what it has been through.
Cleaned == pc = "cleanup" => \A i \in 1..step : Gone(CleanupOrder[i])

\* A reconcile that polls the agent knows the recorded activity, even if its
\* copy is outdated, and the record is no older than the observation.
Activity ==
    /\ pc \in {"agent", "poll"} => copy.activity = gs.activity
    /\ gs.exists /\ ~unsaved => gs.activity <= seen

Control == Fresh /\ Created /\ Deletion /\ Held /\ Cleaned /\ Activity

IInv == TypeOK /\ Control

-----------------------------------------------------------------------------
(* The operators *)

\* Children are applied and cleaned up in orders that reach all of them.
LEMMA Orders ==
    /\ Len(ApplyOrder) = 6
    /\ Len(CleanupOrder) = 6
    /\ Children = {"secret", "headless", "agent", "game", "pvc"}
    /\ \A i \in 1..6 : ApplyOrder[i] # "sts" => ApplyOrder[i] \in Children
    /\ \A c \in Children : \E i \in 1..6 : CleanupOrder[i] = c
    /\ CleanupOrder[1] = "sts"
<1>1. Len(ApplyOrder) = 6 /\ Len(CleanupOrder) = 6
  BY DEF ApplyOrder, CleanupOrder
<1>2. Children = {"secret", "headless", "agent", "game", "pvc"}
  BY <1>1 DEF ApplyOrder, Children
<1>3. \A i \in 1..6 : ApplyOrder[i] # "sts" => ApplyOrder[i] \in Children
  BY <1>1 DEF Children
<1>4. /\ CleanupOrder[1] = "sts" /\ CleanupOrder[2] = "headless" /\ CleanupOrder[3] = "agent"
      /\ CleanupOrder[4] = "game" /\ CleanupOrder[5] = "pvc" /\ CleanupOrder[6] = "secret"
  BY DEF CleanupOrder
<1> QED
  BY <1>1, <1>2, <1>3, <1>4

\* TypeOK is the conjunction of its halves.
LEMMA TypeParts == TypeOK <=> Data /\ Flags
BY Orders DEF TypeOK, Data, Flags

\* Ages stay ages as time passes, in the same order, and "never" stays "never".
LEMMA LaterType ==
    /\ \A a \in Ages : Later(a) \in Ages
    /\ Later(Never) = Never
    /\ \A a, b \in Ages : a <= b => Later(a) <= Later(b)
BY GSAssumption DEF Later, Ages, Never

\* What stands for nothing is typed as well.
LEMMA NoServerType == NoServer \in ServerObjects /\ NoSts \in StatefulSets
<1>1. Never \in Ages
  BY GSAssumption DEF Never, Ages
<1> QED
  BY <1>1 DEF NoServer, ServerObjects, GSStates, NoSts, StatefulSets

\* A reconcile that returns forgets its copy.
LEMMA ReturnData ==
    ASSUME NEW e, NEW r, Return(e, r)
    PROVE  pc' = "idle" /\ step' = 0 /\ copy' = NoServer /\ copyCurrent' = FALSE
BY DEF Return

\* Counting a failed request stays within the bound.
LEMMA UsedData ==
    ASSUME Data, UNCHANGED used \/ (used.faults < MaxFaults /\ used' = [used EXCEPT !.faults = @ + 1])
    PROVE  used' \in [created : BOOLEAN, patches : 0..MaxPatches,
                      faults : 0..MaxFaults, crashes : 0..MaxCrashes]
BY GSAssumption DEF Data

\* A write through the copy, accepted or refused, leaves a typed object.
LEMMA AcceptedData ==
    ASSUME Data, NEW o \in ServerObjects, (Accepted(o) /\ UNCHANGED used) \/ Refused
    PROVE  /\ gs' \in ServerObjects /\ gsCache' = gsCache
           /\ used' \in [created : BOOLEAN, patches : 0..MaxPatches,
                         faults : 0..MaxFaults, crashes : 0..MaxCrashes]
<1>1. gs' \in ServerObjects /\ gsCache' = gsCache
  BY DEF Data, Accepted, Refused, serverVars
<1>2. UNCHANGED used \/ (used.faults < MaxFaults /\ used' = [used EXCEPT !.faults = @ + 1])
  BY DEF Accepted, Refused
<1> QED
  BY <1>1, <1>2, UsedData

\* The updates of a server object that the actions make.
LEMMA Updates ==
    ASSUME NEW o \in ServerObjects
    PROVE  /\ \A x \in GSStates : [o EXCEPT !.state = x] \in ServerObjects
           /\ [o EXCEPT !.activity = 0] \in ServerObjects
           /\ [o EXCEPT !.activity = 0, !.state = "Running"] \in ServerObjects
           /\ [o EXCEPT !.activity = Later(@)] \in ServerObjects
           /\ [o EXCEPT !.exists = TRUE] \in ServerObjects
           /\ [o EXCEPT !.deleting = TRUE] \in ServerObjects
           /\ [o EXCEPT !.finalizer = TRUE] \in ServerObjects
           /\ [o EXCEPT !.autoStart = ~@] \in ServerObjects
<1>1. 0 \in Ages /\ \A a \in Ages : Later(a) \in Ages
  BY GSAssumption, LaterType DEF Ages, Never
<1> QED
  BY <1>1 DEF ServerObjects, GSStates

-----------------------------------------------------------------------------
(* Every step preserves it *)

\* The Boolean variables stay Boolean.
LEMMA FlagsInv == ASSUME Flags, gs.exists \in BOOLEAN, [Next]_vars PROVE Flags'
<1>1. CASE Client
  BY <1>1, Zenon DEF Flags, Client, CreateServer, PatchLifecycle, DeleteServer, ChangeProfile,
     Write, stsVars, serverVars, workVars, ghostVars
<1>2. CASE Pod
  BY <1>2, Zenon DEF Flags, Pod, PodReady, PodGone, PodFails, Play, stsVars, serverVars,
     workVars, ghostVars
<1>3. CASE Informer
  BY <1>3, Zenon DEF Flags, Informer, ServerSync, StsSync, TimerFires, stsVars, serverVars,
     workVars, ghostVars
<1>4. CASE Tick
  BY <1>4, Zenon DEF Flags, Tick, stsVars
<1>5. CASE Start
  BY <1>5, Zenon DEF Flags, Start, Skip, AddFinalizer, ProfileMissing, BeginApply, BeginCleanup,
     Begin, stsVars, serverVars, workVars, ghostVars
<1>6. CASE ApplyChild \/ StsNotCached \/ CleanupChild \/ RequestFails
  BY <1>6, Zenon DEF Flags, ApplyChild, ApplySts, StsNotCached, CleanupChild, RequestFails, Return,
     stsVars, serverVars, ghostVars
<1>7. CASE UpdateStoppedStatus \/ RemoveFinalizer
  BY <1>7, Zenon DEF Flags, UpdateStoppedStatus, RemoveFinalizer, Return, Accepted, Refused,
     stsVars, serverVars, ghostVars
<1>8. CASE UpdateStatus \/ UpdateAgentStatus
  BY <1>8, Zenon DEF Flags, UpdateStatus, UpdateAgentStatus, Return, Accepted, Refused,
     stsVars, serverVars, ghostVars
<1>9. CASE Poll
  BY <1>9, Zenon DEF Flags, Poll, PollSkipped, PollActive, PollFirst, PollIdle, PollExpired, Return, Accepted, Refused,
     stsVars, serverVars, ghostVars
<1>10. CASE Crash
  BY <1>10, Zenon DEF Flags, Crash, ghostVars
<1>11. CASE UNCHANGED vars
  BY <1>11, Zenon DEF Flags, vars
<1> QED
  BY <1>1, <1>2, <1>3, <1>4, <1>5, <1>6, <1>7, <1>8, <1>9, <1>10, <1>11 DEF Next, Continue

\* The other variables keep their types.
LEMMA DataInv == ASSUME Data, [Next]_vars PROVE Data'
<1> USE DEF Data
<1>1. CASE CreateServer
  BY <1>1, NoServerType, Updates DEF CreateServer, Write, stsVars, ghostVars
<1>2. CASE PatchLifecycle
  <2>1. gs' \in ServerObjects
    BY <1>2, Updates DEF PatchLifecycle, Write
  <2>2. used' \in [created : BOOLEAN, patches : 0..MaxPatches,
                   faults : 0..MaxFaults, crashes : 0..MaxCrashes]
    BY <1>2, GSAssumption DEF PatchLifecycle
  <2> QED
    BY <1>2, <2>1, <2>2 DEF PatchLifecycle, Write, stsVars, ghostVars
<1>3. CASE DeleteServer
  BY <1>3, NoServerType, Updates DEF DeleteServer, Write, stsVars, ghostVars
<1>4. CASE ChangeProfile
  BY <1>4, GSAssumption DEF ChangeProfile, stsVars, serverVars, workVars, ghostVars
<1>5. CASE PodReady \/ PodGone \/ PodFails
  BY <1>5, GSAssumption
     DEF PodReady, PodGone, PodFails, StatefulSets, stsVars, serverVars, workVars, ghostVars
<1>6. CASE Play
  BY <1>6 DEF Play, stsVars, serverVars, workVars, ghostVars
<1>7. CASE Informer
  BY <1>7 DEF Informer, ServerSync, StsSync, TimerFires, stsVars, serverVars, workVars, ghostVars
<1>8. CASE Tick
  BY <1>8, LaterType, Updates DEF Tick, stsVars
<1>9. CASE Skip \/ AddFinalizer \/ ProfileMissing
  BY <1>9, Updates DEF Skip, AddFinalizer, ProfileMissing, GSStates,
     stsVars, serverVars, workVars, ghostVars
<1>10. CASE BeginApply \/ BeginCleanup
  BY <1>10 DEF BeginApply, BeginCleanup, Begin, stsVars, serverVars, ghostVars
<1>11. CASE ApplyChild
  <2>1. step' \in 0..6 /\ step + 1 \in 1..6
    BY <1>11, Orders DEF ApplyChild
  <2> SUFFICES sts' \in StatefulSets /\ stsCache' \in StatefulSets /\ children' \subseteq Children
    BY <1>11, <2>1 DEF ApplyChild, serverVars, ghostVars
  <2>2. CASE ApplyOrder[step + 1] = "sts"
    <3>1. \A n \in 0..1 : [exists |-> TRUE, replicas |-> n, ready |-> sts.ready] \in StatefulSets
      BY DEF StatefulSets
    <3>2. ApplySts
      BY <1>11, <2>2 DEF ApplyChild
    <3>3. (IF Stopping THEN 0 ELSE 1) \in 0..1
      OBVIOUS
    <3> QED
      BY <3>1, <3>2, <3>3 DEF ApplySts
  <2>3. CASE ApplyOrder[step + 1] # "sts"
    <3>1. ApplyOrder[step + 1] \in Children
      BY <2>1, <2>3, Orders
    <3>2. children' = children \cup {ApplyOrder[step + 1]} /\ UNCHANGED stsVars
      BY <1>11, <2>3 DEF ApplyChild
    <3> QED
      BY <3>1, <3>2 DEF stsVars
  <2> QED
    BY <2>2, <2>3
<1>12. CASE CleanupChild
  <2>1. step' \in 0..6
    BY <1>12, Orders DEF CleanupChild
  <2>2. sts' \in StatefulSets /\ stsCache' = stsCache
    BY <1>12, NoServerType DEF CleanupChild, stsVars
  <2>3. children' \subseteq children /\ players' \in 0..1
    BY <1>12 DEF CleanupChild
  <2> QED
    BY <1>12, <2>1, <2>2, <2>3 DEF CleanupChild, serverVars, ghostVars
<1>ret. ASSUME pc' = "idle", step' = 0, copy' = NoServer, UNCHANGED <<children, profile, players>>,
               sts' \in StatefulSets, stsCache' \in StatefulSets, UNCHANGED <<gs, gsCache, seen>>,
               used' \in [created : BOOLEAN, patches : 0..MaxPatches,
                          faults : 0..MaxFaults, crashes : 0..MaxCrashes]
        PROVE  Data'
  BY <1>ret, NoServerType
<1>13. CASE StsNotCached \/ RequestFails
  <2>1. pc' = "idle" /\ step' = 0 /\ copy' = NoServer
    BY <1>13, ReturnData DEF StsNotCached, RequestFails
  <2>2. used' \in [created : BOOLEAN, patches : 0..MaxPatches,
                   faults : 0..MaxFaults, crashes : 0..MaxCrashes]
    BY <1>13, UsedData DEF StsNotCached, RequestFails
  <2> QED
    BY <1>ret, <1>13, <2>1, <2>2 DEF StsNotCached, RequestFails, stsVars, serverVars, ghostVars
<1>14. ASSUME NEW o \in ServerObjects, (Accepted(o) /\ UNCHANGED used) \/ Refused,
              pc' = "idle", step' = 0, copy' = NoServer, UNCHANGED <<children, profile, players>>,
              sts' \in StatefulSets, stsCache' \in StatefulSets, seen' \in Ages
       PROVE  Data'
  BY <1>14, AcceptedData, NoServerType
<1>15. CASE UpdateStoppedStatus
  BY <1>14, <1>15, Updates, ReturnData DEF UpdateStoppedStatus, GSStates, stsVars, ghostVars
<1>16. CASE RemoveFinalizer
  BY <1>14, <1>16, NoServerType, ReturnData DEF RemoveFinalizer, stsVars, ghostVars
<1>17. CASE UpdateStatus
  <2>1. PICK o \in ServerObjects :
           \/ Accepted(o) /\ pc' = "agent" /\ copy' = o /\ UNCHANGED <<step, used>>
           \/ ((Accepted(o) /\ UNCHANGED used) \/ Refused)
                /\ pc' = "idle" /\ step' = 0 /\ copy' = NoServer
    BY <1>17, Updates, ReturnData DEF UpdateStatus, GSStates
  <2> QED
    BY <1>14, <1>17, <2>1, AcceptedData DEF UpdateStatus, stsVars, ghostVars
<1>18. CASE UpdateAgentStatus
  <2>1. (Accepted(copy) /\ UNCHANGED used) \/ Refused
    BY <1>18 DEF UpdateAgentStatus
  <2>2. \/ pc' = "poll" /\ UNCHANGED <<step, copy>>
        \/ pc' = "idle" /\ step' = 0 /\ copy' = NoServer
    BY <1>18, ReturnData DEF UpdateAgentStatus
  <2> QED
    BY <1>18, <2>1, <2>2, AcceptedData, NoServerType DEF UpdateAgentStatus, stsVars, ghostVars
<1>19. CASE PollSkipped \/ PollIdle
  BY <1>ret, <1>19, ReturnData DEF PollSkipped, PollIdle, stsVars, serverVars, ghostVars
<1>20. CASE PollActive
  <2>1. 0 \in Ages
    BY GSAssumption DEF Ages, Never
  <2> QED
    BY <1>14, <1>20, <2>1, Updates, ReturnData DEF PollActive, stsVars
<1>21. CASE PollFirst
  BY <1>14, <1>21, Updates, ReturnData DEF PollFirst, stsVars, ghostVars
<1>22. CASE PollExpired
  <2>1. sts' \in StatefulSets /\ stsCache' \in StatefulSets
    BY <1>22 DEF PollExpired, StatefulSets
  <2>2. \/ (Accepted([copy EXCEPT !.state = "Idle"]) /\ UNCHANGED used) \/ Refused
        \/ UNCHANGED <<serverVars, used>>
    BY <1>22 DEF PollExpired
  <2>3. pc' = "idle" /\ step' = 0 /\ copy' = NoServer
    BY <1>22, ReturnData DEF PollExpired
  <2> QED
    BY <1>ret, <1>14, <1>22, <2>1, <2>2, <2>3, Updates DEF PollExpired, GSStates, serverVars, ghostVars
<1>23. CASE Crash
  BY <1>23, GSAssumption, NoServerType DEF Crash, ghostVars
<1>24. CASE UNCHANGED vars
  BY <1>24 DEF vars
<1> QED
  BY <1>1, <1>2, <1>3, <1>4, <1>5, <1>6, <1>7, <1>8, <1>9, <1>10, <1>11, <1>12, <1>13,
     <1>15, <1>16, <1>17, <1>18, <1>19, <1>20, <1>21, <1>22, <1>23, <1>24
     DEF Next, Client, Pod, Start, Continue, Poll

\* Every step of clients, informers, the worker and the pod preserves the rest
\* of the invariant.
LEMMA ControlInv == ASSUME Data, Data', Control, [Next]_vars PROVE Control'
<1> USE DEF Control, Fresh, Created, Deletion, Held, Cleaned, Activity, Working, Gone
<1>1. CASE CreateServer
  <2>1. /\ gs' = [NoServer EXCEPT !.exists = TRUE]
        /\ used'.created = TRUE
        /\ gsCurrent' = FALSE /\ copyCurrent' = FALSE
        /\ UNCHANGED <<gsCache, sts, children, pc, step, copy, seen, unsaved>>
    BY <1>1 DEF CreateServer, Write, stsVars, ghostVars, Data
  <2>2. /\ ~gs.exists /\ ~gsCache.exists /\ ~gsCache.deleting /\ pc = "idle"
        /\ children = {} /\ ~sts.exists /\ seen = Never
    BY <1>1 DEF CreateServer
  <2>3. gs'.exists /\ ~gs'.deleting /\ ~gs'.finalizer /\ gs'.activity = Never
    BY <2>1 DEF NoServer
  <2>4. Never <= Never
    BY GSAssumption DEF Never
  <2> QED
    BY <2>1, <2>2, <2>3, <2>4
<1>2. CASE PatchLifecycle
  BY <1>2 DEF PatchLifecycle, Write, stsVars, ghostVars, Data, ServerObjects
<1>3. CASE DeleteServer
  BY <1>3 DEF DeleteServer, Write, stsVars, ghostVars, Data, ServerObjects, NoServer
<1>4. CASE ChangeProfile
  BY <1>4 DEF ChangeProfile, stsVars, serverVars, workVars, ghostVars, Data
<1>5. CASE PodReady \/ PodGone \/ PodFails
  BY <1>5 DEF PodReady, PodGone, PodFails, StatefulSets, stsVars, serverVars, workVars, ghostVars, Data
<1>6. CASE Play
  BY <1>6 DEF Play, stsVars, serverVars, workVars, ghostVars
<1>7. CASE Informer
  BY <1>7 DEF Informer, ServerSync, StsSync, TimerFires, stsVars, serverVars, workVars, ghostVars
<1>8. CASE Tick
  <2>1. ASSUME NEW o \in ServerObjects
        PROVE  LET p == [o EXCEPT !.activity = Later(@)] IN
               /\ p.exists = o.exists /\ p.deleting = o.deleting /\ p.finalizer = o.finalizer
               /\ p.activity = Later(o.activity)
    BY DEF ServerObjects
  <2>2. /\ gs' = [gs EXCEPT !.activity = Later(@)]
        /\ gsCache' = [gsCache EXCEPT !.activity = Later(@)]
        /\ copy' = [copy EXCEPT !.activity = Later(@)]
        /\ seen' = Later(seen)
        /\ UNCHANGED <<gsCurrent, copyCurrent, sts, children, pc, step, unsaved, used>>
    BY <1>8 DEF Tick, stsVars
  <2>3. gs.activity \in Ages /\ seen \in Ages
    BY DEF Data, ServerObjects
  <2> QED
    BY <2>1, <2>2, <2>3, LaterType DEF Data
<1>9. CASE Skip
  BY <1>9 DEF Skip, stsVars, serverVars, workVars, ghostVars
<1>10. CASE AddFinalizer
  <2>1. CASE gsCurrent /\ gs' = [gsCache EXCEPT !.finalizer = TRUE] /\ gsCurrent' = FALSE
                /\ UNCHANGED <<gsCache, used>>
    <3>1. gs'.exists = gs.exists /\ gs'.deleting = gs.deleting /\ gs'.finalizer
          /\ gs'.activity = gs.activity
      BY <2>1 DEF Data, ServerObjects
    <3> QED
      BY <1>10, <2>1, <3>1 DEF AddFinalizer, stsVars, workVars, ghostVars
  <2>2. CASE UNCHANGED <<serverVars, used>>
    BY <1>10, <2>2 DEF AddFinalizer, stsVars, serverVars, workVars, ghostVars
  <2> QED
    BY <1>10, <2>1, <2>2 DEF AddFinalizer
<1>11. CASE ProfileMissing
  BY <1>11 DEF ProfileMissing, ServerObjects, Data, stsVars, serverVars, workVars, ghostVars
<1>12. CASE BeginApply
  BY <1>12 DEF BeginApply, Begin, stsVars, serverVars, ghostVars
<1>13. CASE BeginCleanup
  BY <1>13 DEF BeginCleanup, Begin, stsVars, serverVars, ghostVars
<1>14. CASE ApplyChild
  BY <1>14 DEF ApplyChild, ApplySts, stsVars, serverVars, ghostVars
<1>15. CASE CleanupChild
  BY <1>15 DEF CleanupChild, stsVars, serverVars, ghostVars, Data, NoSts
<1>a. ASSUME NEW o \in ServerObjects, (Accepted(o) /\ UNCHANGED used) \/ Refused
      PROVE  /\ \/ copy = gs /\ gs' = o /\ gsCurrent' \in {FALSE, gsCurrent} /\ (o # gs => ~gsCurrent')
                \/ UNCHANGED <<gs, gsCurrent>>
             /\ UNCHANGED gsCache
             /\ used'.created = used.created
  <2>1. used'.created = used.created
    BY <1>a DEF Accepted, Refused, Data
  <2> QED
    BY <1>a, <2>1 DEF Accepted, Refused, serverVars
<1>16. ASSUME pc # "idle", pc' = "idle", copyCurrent' = FALSE,
              UNCHANGED <<gs, gsCache, gsCurrent, children>>, sts'.exists = sts.exists, used'.created = used.created,
              gs.exists /\ ~unsaved' => gs.activity <= seen'
       PROVE  Control'
  BY <1>16
<1>17. ASSUME NEW o \in ServerObjects, (Accepted(o) /\ UNCHANGED used) \/ Refused,
              pc \in Working, pc' = "idle", copyCurrent' = FALSE, UNCHANGED children,
              sts'.exists = sts.exists,
              o.exists = copy.exists, o.deleting = copy.deleting, o.finalizer = copy.finalizer,
              ~unsaved' => gs'.activity <= seen'
       PROVE  Control'
  BY <1>a, <1>16, <1>17
<1>18. CASE StsNotCached \/ RequestFails \/ PollSkipped \/ PollIdle
  <2>1. used'.created = used.created
    BY <1>18 DEF StsNotCached, RequestFails, PollSkipped, PollIdle, Data
  <2>2. pc' = "idle" /\ copyCurrent' = FALSE
    BY <1>18, ReturnData DEF StsNotCached, RequestFails, PollSkipped, PollIdle
  <2> QED
    BY <1>16, <1>18, <2>1, <2>2
       DEF StsNotCached, RequestFails, PollSkipped, PollIdle, stsVars, serverVars, ghostVars
<1>19. CASE UpdateStoppedStatus
  <2> DEFINE o == [copy EXCEPT !.state = "Stopped"]
  <2>1. /\ o \in ServerObjects /\ o.exists = copy.exists /\ o.deleting = copy.deleting
        /\ o.finalizer = copy.finalizer /\ o.activity = copy.activity
    BY DEF Data, ServerObjects, GSStates
  <2>2. (Accepted(o) /\ UNCHANGED used) \/ Refused
    BY <1>19 DEF UpdateStoppedStatus
  <2>3. pc = "apply" /\ pc' = "idle" /\ copyCurrent' = FALSE
    BY <1>19, ReturnData DEF UpdateStoppedStatus
  <2>4. UNCHANGED <<sts, children, seen, unsaved>>
    BY <1>19 DEF UpdateStoppedStatus, stsVars, ghostVars
  <2> HIDE DEF o
  <2>5. ~unsaved' => gs'.activity <= seen'
    BY <1>a, <2>1, <2>2, <2>3, <2>4
  <2> QED
    BY <1>17, <2>1, <2>2, <2>3, <2>4, <2>5
<1>20. CASE RemoveFinalizer
  <2>1. (Accepted(NoServer) /\ UNCHANGED used) \/ Refused
    BY <1>20 DEF RemoveFinalizer
  <2>2. pc = "cleanup" /\ step = 6 /\ pc' = "idle" /\ copyCurrent' = FALSE
    BY <1>20, ReturnData, Orders DEF RemoveFinalizer
  <2>3. UNCHANGED <<sts, children, seen, unsaved>>
    BY <1>20 DEF RemoveFinalizer, stsVars, ghostVars
  <2>4. ~sts.exists /\ children = {}
    BY <2>2, Orders DEF Data
  <2>5. ~NoServer.exists
    BY DEF NoServer
  <2> QED
    BY <1>a, <1>16, <2>1, <2>2, <2>3, <2>4, <2>5, NoServerType
<1>21. CASE UpdateStatus
  <2>1. PICK o : /\ o \in {[copy EXCEPT !.state = "Running"], [copy EXCEPT !.state = "Provisioning"]}
                 /\ \/ Accepted(o) /\ pc' = "agent" /\ copy' = o /\ UNCHANGED <<step, copyCurrent, used>>
                    \/ ((Accepted(o) /\ UNCHANGED used) \/ Refused) /\ pc' = "idle" /\ copyCurrent' = FALSE
    BY <1>21, ReturnData DEF UpdateStatus
  <2>2. /\ o \in ServerObjects /\ o.exists = copy.exists /\ o.deleting = copy.deleting
        /\ o.finalizer = copy.finalizer /\ o.activity = copy.activity
    BY <2>1 DEF Data, ServerObjects, GSStates
  <2>3. pc = "apply"
    BY <1>21 DEF UpdateStatus
  <2>4. UNCHANGED <<sts, children, seen, unsaved>>
    BY <1>21 DEF UpdateStatus, stsVars, ghostVars
  <2>5. CASE Accepted(o) /\ pc' = "agent" /\ copy' = o /\ UNCHANGED <<step, copyCurrent, used>>
    BY <1>a, <2>2, <2>3, <2>4, <2>5 DEF Accepted
  <2>6. CASE ((Accepted(o) /\ UNCHANGED used) \/ Refused) /\ pc' = "idle" /\ copyCurrent' = FALSE
    <3>1. ~unsaved' => gs'.activity <= seen'
      BY <1>a, <2>2, <2>3, <2>4, <2>6
    <3> QED
      BY <1>17, <2>2, <2>3, <2>4, <2>6, <3>1
  <2> QED
    BY <2>1, <2>5, <2>6
<1>22. CASE UpdateAgentStatus
  <2>1. (Accepted(copy) /\ UNCHANGED used) \/ Refused
    BY <1>22 DEF UpdateAgentStatus
  <2>2. /\ pc = "agent"
        /\ \/ pc' = "poll" /\ UNCHANGED <<step, copy, copyCurrent>>
           \/ pc' = "idle" /\ copyCurrent' = FALSE
    BY <1>22, ReturnData DEF UpdateAgentStatus
  <2>3. UNCHANGED <<sts, children, seen, unsaved>>
    BY <1>22 DEF UpdateAgentStatus, stsVars, ghostVars
  <2>4. copy \in ServerObjects
    BY DEF Data
  <2>5. gs' = gs /\ (gsCurrent' => gsCurrent) /\ UNCHANGED gsCache /\ used'.created = used.created
    BY <1>a, <2>1, <2>4
  <2> QED
    BY <2>2, <2>3, <2>5
<1>23. CASE PollActive
  <2> DEFINE o == [copy EXCEPT !.activity = 0, !.state = "Running"]
  <2>1. /\ o \in ServerObjects /\ o.exists = copy.exists /\ o.deleting = copy.deleting
        /\ o.finalizer = copy.finalizer /\ o.activity = 0
    <3>1. o \in ServerObjects
      BY Updates DEF Data
    <3> QED
      BY <3>1 DEF Data, ServerObjects
  <2>2. \/ Accepted(o) /\ UNCHANGED used
        \/ Refused /\ unsaved'
    BY <1>23 DEF PollActive
  <2>3. pc = "poll" /\ pc' = "idle" /\ copyCurrent' = FALSE /\ seen' = 0
    BY <1>23, ReturnData DEF PollActive
  <2>4. UNCHANGED <<sts, children>>
    BY <1>23 DEF PollActive, stsVars
  <2> HIDE DEF o
  <2>5. ~unsaved' => gs'.activity <= seen'
    <3>1. CASE Accepted(o)
      BY <2>1, <2>3, <3>1 DEF Accepted
    <3>2. CASE unsaved'
      BY <3>2
    <3> QED
      BY <2>2, <3>1, <3>2
  <2> QED
    BY <1>17, <2>1, <2>2, <2>3, <2>4, <2>5
<1>24. CASE PollFirst
  <2> DEFINE o == [copy EXCEPT !.activity = 0]
  <2>1. /\ o \in ServerObjects /\ o.exists = copy.exists /\ o.deleting = copy.deleting
        /\ o.finalizer = copy.finalizer /\ o.activity = 0
    <3>1. o \in ServerObjects
      BY Updates DEF Data
    <3> QED
      BY <3>1 DEF Data, ServerObjects
  <2>2. (Accepted(o) /\ UNCHANGED used) \/ Refused
    BY <1>24 DEF PollFirst
  <2>3. pc = "poll" /\ pc' = "idle" /\ copyCurrent' = FALSE
    BY <1>24, ReturnData DEF PollFirst
  <2>4. UNCHANGED <<sts, children, seen, unsaved>>
    BY <1>24 DEF PollFirst, stsVars, ghostVars
  <2> HIDE DEF o
  <2>5. ~unsaved' => gs'.activity <= seen'
    <3>1. 0 <= seen
      BY GSAssumption DEF Data, Ages, Never
    <3>2. gs' = o \/ gs' = gs
      BY <1>a, <2>1, <2>2
    <3> QED
      BY <2>1, <2>3, <2>4, <3>1, <3>2
  <2> QED
    BY <1>17, <2>1, <2>2, <2>3, <2>4, <2>5
<1>25. CASE PollExpired
  <2> DEFINE o == [copy EXCEPT !.state = "Idle"]
  <2>1. /\ o \in ServerObjects /\ o.exists = copy.exists /\ o.deleting = copy.deleting
        /\ o.finalizer = copy.finalizer /\ o.activity = copy.activity
    BY DEF Data, ServerObjects, GSStates
  <2>2. (Accepted(o) /\ UNCHANGED used) \/ Refused \/ UNCHANGED <<serverVars, used>>
    BY <1>25 DEF PollExpired
  <2>3. pc = "poll" /\ pc' = "idle" /\ copyCurrent' = FALSE
    BY <1>25, ReturnData DEF PollExpired
  <2>4. UNCHANGED <<children, seen, unsaved>> /\ sts'.exists = sts.exists
    BY <1>25 DEF PollExpired, ghostVars, Data, StatefulSets
  <2> HIDE DEF o
  <2>5. CASE UNCHANGED <<serverVars, used>>
    BY <1>16, <2>3, <2>4, <2>5 DEF serverVars
  <2>6. CASE (Accepted(o) /\ UNCHANGED used) \/ Refused
    <3>1. ~unsaved' => gs'.activity <= seen'
      BY <1>a, <2>1, <2>3, <2>4, <2>6
    <3> QED
      BY <1>17, <2>1, <2>3, <2>4, <2>6, <3>1
  <2> QED
    BY <2>2, <2>5, <2>6
<1>26. CASE Crash
  <2>1. used'.created = used.created
    BY <1>26 DEF Crash, Data
  <2> QED
    BY <1>26, <2>1 DEF Crash, ghostVars
<1>27. CASE UNCHANGED vars
  BY <1>27 DEF vars
<1> QED
  BY <1>1, <1>2, <1>3, <1>4, <1>5, <1>6, <1>7, <1>8, <1>9, <1>10, <1>11, <1>12, <1>13, <1>14,
     <1>15, <1>18, <1>19, <1>20, <1>21, <1>22, <1>23, <1>24, <1>25, <1>26, <1>27
     DEF Next, Client, Pod, Start, Continue, Poll

\* The invariant holds initially.
LEMMA InitInv == Init => IInv
<1> SUFFICES ASSUME Init PROVE IInv
  OBVIOUS
<1>1. Flags
  BY Zenon DEF Init, Flags
<1>2. Data
  <2>1. used \in [created : BOOLEAN, patches : 0..MaxPatches,
                  faults : 0..MaxFaults, crashes : 0..MaxCrashes]
    BY GSAssumption DEF Init
  <2>2. Never \in Ages
    BY GSAssumption DEF Never, Ages
  <2> QED
    BY <2>1, <2>2, NoServerType DEF Init, Data
<1>3. Control
  <2>1. ~gs.exists /\ ~gs.deleting /\ gsCache = gs /\ ~sts.exists /\ ~copyCurrent /\ pc = "idle"
        /\ children = {} /\ seen = Never
    BY DEF Init, NoServer, NoSts
  <2> QED
    BY <2>1 DEF Control, Fresh, Created, Deletion, Held, Cleaned, Activity, Working
<1> QED
  BY <1>1, <1>2, <1>3, TypeParts DEF IInv

\* Its parts together are preserved.
LEMMA NextInv == IInv /\ [Next]_vars => IInv'
<1> SUFFICES ASSUME IInv, [Next]_vars PROVE IInv'
  OBVIOUS
<1>1. Data /\ Flags /\ Control
  BY TypeParts DEF IInv
<1>2. gs.exists \in BOOLEAN
  BY <1>1 DEF Data, ServerObjects
<1>3. Data'
  BY <1>1, DataInv
<1>4. Flags'
  BY <1>1, <1>2, FlagsInv
<1>5. Control'
  BY <1>1, <1>3, ControlInv
<1>6. TypeOK'
  BY <1>3, <1>4, Orders DEF TypeOK, Data, Flags
<1> QED
  BY <1>5, <1>6 DEF IInv

\* It holds in every reachable state.
LEMMA Invariance == Spec => []IInv
BY InitInv, NextInv, PTL DEF Spec

-----------------------------------------------------------------------------
(* What follows from it *)

\* Every variable keeps its type.
THEOREM TypeCorrect == Spec => []TypeOK
<1>1. IInv => TypeOK
  BY DEF IInv
<1> QED
  BY <1>1, Invariance, PTL

\* When the finalizer is removed nothing is left, and no reconcile that was
\* started from a stale cache applies a child to a server that is gone.
THEOREM NothingLeftBehindHolds == Spec => []NothingLeftBehind
<1>1. IInv => NothingLeftBehind
  BY DEF IInv, Control, Held, NothingLeftBehind
<1> QED
  BY <1>1, Invariance, PTL

\* Only the cleanup of a server that is being deleted takes a child away, however
\* stale the copy is by which a reconcile decides to clean up.
THEOREM ChildrenKeptHolds == Spec => ChildrenKept
<1> DEFINE Kept == ~gs.deleting => children \subseteq children'
<1>1. ASSUME IInv, [Next]_vars, ~CleanupChild PROVE children \subseteq children'
  BY <1>1 DEF Next, Client, Pod, Informer, Tick, Start, Continue, Poll, CreateServer, PatchLifecycle,
     DeleteServer, ChangeProfile, PodReady, PodGone, PodFails, Play, ServerSync, StsSync, TimerFires,
     Skip, AddFinalizer, ProfileMissing, BeginApply, BeginCleanup, Begin, ApplyChild, ApplySts,
     StsNotCached, UpdateStoppedStatus, UpdateStatus, UpdateAgentStatus, PollSkipped, PollActive,
     PollFirst, PollIdle, PollExpired, RemoveFinalizer, RequestFails, Crash, vars
<1>2. ASSUME IInv, CleanupChild PROVE Kept
  BY <1>2 DEF IInv, Control, Deletion, Held, CleanupChild
<1>3. IInv /\ [Next]_vars => [Kept]_vars
  BY <1>1, <1>2
<1> QED
  BY <1>3, Invariance, PTL DEF Spec, ChildrenKept

\* An idle shutdown respects the last poll that saw players, if that could be
\* recorded: the activity that the decision is taken by is the recorded one.
THEOREM IdleRespectsActivityHolds == Spec => IdleRespectsActivity
<1> DEFINE Respects == PollExpired /\ sts' # sts => seen >= IdleTimeout \/ unsaved
<1>1. ASSUME IInv, PollExpired PROVE seen >= IdleTimeout \/ unsaved
  <2>1. pc = "poll" /\ copy.activity = IdleTimeout
    BY <1>1 DEF PollExpired
  <2>2. seen \in Nat
    BY <1>1, TypeParts, GSAssumption DEF IInv, Data, Ages, Never
  <2>3. ~unsaved => IdleTimeout <= seen
    BY <1>1, <2>1 DEF IInv, Control, Held, Activity, Working
  <2> QED
    BY <2>2, <2>3, GSAssumption
<1>2. IInv /\ [Next]_vars => [Respects]_vars
  BY <1>1
<1> QED
  BY <1>2, Invariance, PTL DEF Spec, IdleRespectsActivity
=============================================================================
