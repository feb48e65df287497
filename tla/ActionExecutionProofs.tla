----------------------- MODULE ActionExecutionProofs -----------------------
(***************************************************************************)
(* Safety of the ActionExecution controller for every set of executions,   *)
(* every profile and every bound: any number of foreign writes, failing    *)
(* requests, restarts and resyncs; and its refinement of the abstract life *)
(* of an execution.                                                        *)
(***************************************************************************)
EXTENDS ActionExecution, TLAPS

-----------------------------------------------------------------------------
(* The inductive invariant *)

\* An object's status fields agree with each other.
Shape(o) ==
    /\ o.state # "absent" => o.rv >= 1
    /\ o.state \in {"new", "Pending", "Rejected"} => o.startedAt = "nil"
    /\ o.state \in {"Running", "Succeeded", "Failed"} => o.startedAt = "set"

\* Store and cache hold well-shaped objects; the cache never runs ahead of the
\* store and equals it wherever the versions agree.
CacheInv ==
    \A e \in Execs :
        /\ Shape(store[e])
        /\ Shape(cache[e])
        /\ cache[e].rv =< store[e].rv
        /\ cache[e].rv = store[e].rv => cache[e] = store[e]

\* The worker's copy is at most as new as the store; while its write can still
\* succeed the execution has not ended.
CopyInv ==
    /\ pc # "idle" => obj.rv >= 1 /\ obj.rv =< store[key].rv
    /\ pc = "fetched" =>
        /\ obj.startedAt = "nil"
        /\ obj.rv = store[key].rv => store[key].state = "Pending"
    /\ pc \in {"dispatch", "waiting"} =>
        /\ obj.startedAt = "set"
        /\ obj.rv = store[key].rv => store[key].state \in {"Pending", "Running"}
    /\ pc \in {"fetched", "dispatch"} => reply = "none"
    /\ pc = "waiting" /\ reply \notin Failures \cup {"none"} => unfailed[key]

\* Calls the agent has received or is about to receive.
Committed(e) == dispatched[e] + IF pc = "dispatch" /\ key = e THEN 1 ELSE 0

\* An execution that was not marked Running was dispatched only together with
\* a dropped write.
DispatchInv ==
    \A e \in Execs :
        /\ Committed(e) =< 1 + lost[e]
        /\ store[e].rv = 0 \/ store[e].state \in {"new", "Pending", "Rejected"}
            => Committed(e) =< lost[e]

\* An execution that has not ended was counted only together with a dropped
\* write.
CountInv ==
    \A e \in Execs :
        /\ observed[e] =< 1 + lost[e]
        /\ store[e].rv = 0 \/ store[e].state \in {"new", "Pending", "Running"}
            => observed[e] =< lost[e]
        /\ store[e].state \in Terminal => observed[e] >= 1

RanInv == \A e \in Execs : store[e].state = "Succeeded" => unfailed[e]

\* A Running execution that is nobody's work and lost no write is Running in
\* the cache as well.
VisibleInv ==
    \A e \in Execs :
        (/\ store[e].state = "Running"
         /\ lost[e] = 0
         /\ ~(pc \in {"dispatch", "waiting"} /\ key = e))
        => cache[e].state = "Running"

\* An end the cache shows is the end the store shows, unless it is deleted.
EndInv ==
    /\ \A e \in Execs : cache[e].state \in Terminal =>
          /\ store[e].rv >= 1
          /\ \/ store[e].state = "absent"
             \/ store[e].state = cache[e].state /\ store[e].age = cache[e].age
    /\ \A e \in doomed :
          /\ store[e].rv >= 1
          /\ store[e].state = "absent" \/ Expired(store[e])

IInv ==
    /\ TypeOK
    /\ CacheInv
    /\ CopyInv
    /\ DispatchInv
    /\ CountInv
    /\ RanInv
    /\ VisibleInv
    /\ EndInv
    /\ AdmittedAlone
    /\ OrphanHasCause

-----------------------------------------------------------------------------
(* Type correctness *)

LEMMA AnyKeyType == AnyKey \in Execs
BY ExecsAssumption DEF AnyKey

LEMMA MaxAgeNat == MaxAge \in Nat
BY TTLAssumption DEF MaxAge

LEMMA NeverCreatedType == NeverCreated \in Objects
BY MaxAgeNat DEF NeverCreated, Objects, States

LEMMA BumpedType ==
    ASSUME NEW o \in Objects
    PROVE  Bumped(o) \in Objects
BY DEF Bumped, Objects

\* A status write leaves well-typed state behind.
LEMMA SetStateType ==
    ASSUME TypeOK, NEW s \in States, NEW next \in {"idle", "dispatch"},
           SetState(s, next)
    PROVE  TypeOK'
<1> DEFINE o == Stamped(obj, s)
<1>1. o \in Objects /\ Bumped(o) \in Objects
  <2>1. obj \in Objects
    BY DEF TypeOK
  <2>2. o \in Objects
    BY <2>1, MaxAgeNat DEF Objects, Stamped
  <2> QED BY <2>2, BumpedType
<1>2. StatusUpdate(o, next)
  BY DEF SetState
<1>3. store' \in [Execs -> Objects]
  BY <1>1, <1>2 DEF StatusUpdate, TypeOK
<1>4. lost' \in [Execs -> Nat] /\ used' \in Usage
  BY <1>2, BoundAssumption DEF StatusUpdate, TypeOK, Usage
<1>5. obj' \in Objects /\ key' \in Execs /\ pc' \in {"idle", "dispatch"} /\ reply' = "none"
  BY <1>1, <1>2, AnyKeyType, NeverCreatedType DEF StatusUpdate, Proceed, TypeOK
<1>6. observed' \in [Execs -> Nat]
  BY DEF SetState, TypeOK
<1> QED
  BY <1>3, <1>4, <1>5, <1>6 DEF TypeOK, SetState, agentVars

LEMMA ReconcileType ==
    ASSUME TypeOK, NEW e \in Execs, Reconcile(e)
    PROVE  TypeOK'
<1>1. CASE MarkPending(e)
  <2>1. Bumped([cache[e] EXCEPT !.state = "Pending"]) \in Objects
    <3>1. cache[e] \in Objects /\ "Pending" \in States
      BY DEF TypeOK, States
    <3>2. [cache[e] EXCEPT !.state = "Pending"] \in Objects
      BY <3>1 DEF Objects
    <3> QED BY <3>2, BumpedType
  <2>2. used' \in Usage
    BY <1>1, BoundAssumption DEF MarkPending, TypeOK, Usage
  <2> QED BY <1>1, <2>1, <2>2 DEF TypeOK, MarkPending, workerVars, agentVars, ghostVars
<1>2. CASE SkipReconcile(e)
  BY <1>2 DEF TypeOK, SkipReconcile, workerVars, agentVars, ghostVars
<1>3. CASE Fetch(e)
  BY <1>3 DEF TypeOK, Fetch, agentVars, ghostVars
<1> QED BY <1>1, <1>2, <1>3 DEF Reconcile

LEMMA OlderType ==
    ASSUME NEW o \in Objects
    PROVE  Older(o) \in Objects
BY MaxAgeNat DEF Older, Objects

LEMMA TypeStep == TypeOK /\ [Next]_vars => TypeOK'
<1> SUFFICES ASSUME TypeOK, [Next]_vars
             PROVE  TypeOK'
  OBVIOUS
<1>1. ASSUME NEW e \in Execs, CreateExecution(e)
      PROVE  TypeOK'
  <2>1. Bumped([NeverCreated EXCEPT !.state = "new"]) \in Objects
    <3>1. [NeverCreated EXCEPT !.state = "new"] \in Objects
      BY NeverCreatedType DEF Objects, States
    <3> QED BY <3>1, BumpedType
  <2>2. store' \in [Execs -> Objects]
    BY <1>1, <2>1 DEF CreateExecution, TypeOK
  <2> QED BY <1>1, <2>2 DEF TypeOK, CreateExecution, workerVars, agentVars, ghostVars
<1>2. ASSUME NEW e \in Execs
      PROVE  Remove(e) \in [Execs -> Objects]
  BY NeverCreatedType DEF TypeOK, Remove, Objects
<1>3. ASSUME NEW e \in Execs, DeleteExecution(e)
      PROVE  TypeOK'
  BY <1>2, <1>3 DEF TypeOK, DeleteExecution, workerVars, agentVars, ghostVars
<1>4. ASSUME NEW e \in Execs, TouchExecution(e)
      PROVE  TypeOK'
  <2>1. store' \in [Execs -> Objects]
    BY <1>4, BumpedType DEF TouchExecution, TypeOK
  <2>2. used' \in Usage
    BY <1>4, BoundAssumption DEF TouchExecution, TypeOK, Usage
  <2> QED BY <1>4, <2>1, <2>2 DEF TypeOK, TouchExecution, workerVars, agentVars, ghostVars
<1>5. CASE WatchSync
  BY <1>5 DEF TypeOK, WatchSync, workerVars, agentVars, ghostVars
<1>6. CASE Resync
  <2>1. used' \in Usage
    BY <1>6, BoundAssumption DEF Resync, TypeOK, Usage
  <2> QED BY <1>6, <2>1 DEF TypeOK, Resync, workerVars, agentVars, ghostVars
<1>7. ASSUME NEW e \in Execs, Reconcile(e)
      PROVE  TypeOK'
  BY <1>7, ReconcileType
<1>8. ASSUME NEW lookup \in Lookups, Reject(lookup)
      PROVE  TypeOK'
  BY <1>8, SetStateType DEF Reject, States, Terminal
<1>9. ASSUME NEW lookup \in Lookups, Run(lookup)
      PROVE  TypeOK'
  BY <1>9, SetStateType DEF Run, States
<1>10. CASE DispatchFails
  BY <1>10, SetStateType DEF DispatchFails, States, Terminal
<1>11. CASE DispatchToAgent
  BY <1>11 DEF TypeOK, DispatchToAgent, ghostVars
<1>12. CASE Complete
  BY <1>12, SetStateType DEF Complete, States, Terminal
<1>13. CASE Timeout
  BY <1>13, SetStateType DEF Timeout, States, Terminal
<1>14. CASE AgentFinish
  BY <1>14 DEF TypeOK, AgentFinish, ghostVars
<1>15. CASE CleanupList
  BY <1>15 DEF TypeOK, CleanupList, workerVars, agentVars, ghostVars
<1>16. ASSUME NEW e \in Execs, CleanupDelete(e)
       PROVE  TypeOK'
  <2>1. used' \in Usage
    BY <1>16, BoundAssumption DEF CleanupDelete, TypeOK, Usage
  <2>2. store' \in [Execs -> Objects]
    BY <1>2, <1>16 DEF CleanupDelete, TypeOK
  <2> QED BY <1>16, <2>1, <2>2 DEF TypeOK, CleanupDelete, workerVars, agentVars, ghostVars
<1>17. CASE Tick
  BY <1>17, OlderType DEF TypeOK, Tick, workerVars, agentVars, ghostVars
<1>18. CASE Crash
  <2>1. used' \in Usage
    BY <1>18, BoundAssumption DEF Crash, TypeOK, Usage
  <2>2. obj' \in Objects /\ key' \in Execs /\ pc' = "idle" /\ reply' = "none"
    BY <1>18, AnyKeyType, NeverCreatedType DEF Crash, Proceed
  <2> QED BY <1>18, <2>1, <2>2 DEF TypeOK, Crash, agentVars, ghostVars
<1>19. CASE UNCHANGED vars
  BY <1>19 DEF TypeOK, vars
<1> QED
  BY <1>1, <1>3, <1>4, <1>5, <1>6, <1>7, <1>8, <1>9, <1>10, <1>11, <1>12, <1>13,
     <1>14, <1>15, <1>16, <1>17, <1>18, <1>19
  DEF Next, Client, Worker, Cleanup

LEMMA TypeInit == Init => TypeOK
BY AnyKeyType, NeverCreatedType, BoundAssumption DEF Init, TypeOK, Usage

\* Type correctness of the controller, its cache and the API objects.
THEOREM TypeCorrect == Spec => []TypeOK
BY TypeInit, TypeStep, PTL DEF Spec

-----------------------------------------------------------------------------
(* The inductive invariant is preserved *)

\* The parts of the invariant that say more than types.
Core ==
    /\ CacheInv
    /\ CopyInv
    /\ DispatchInv
    /\ CountInv
    /\ RanInv
    /\ VisibleInv
    /\ EndInv
    /\ AdmittedAlone
    /\ OrphanHasCause

LEMMA ObjectFields ==
    ASSUME NEW o \in Objects
    PROVE  /\ Bumped(o).state = o.state
           /\ Bumped(o).rv = o.rv + 1
           /\ Bumped(o).startedAt = o.startedAt
           /\ Bumped(o).age = o.age
           /\ o.rv \in Nat /\ o.state \in States /\ o.age \in Nat
BY MaxAgeNat DEF Bumped, Objects

\* An object that leaves the store is absent under a newer version.
LEMMA RemoveFacts ==
    ASSUME TypeOK, NEW e \in Execs
    PROVE  /\ Remove(e)[e].state = "absent"
           /\ Remove(e)[e].rv = store[e].rv + 1
           /\ Remove(e)[e].rv \in Nat
           /\ \A f \in Execs : f # e => Remove(e)[f] = store[f]
           /\ Remove(e) \in [Execs -> Objects]
BY NeverCreatedType DEF TypeOK, Remove, Objects, NeverCreated

\* AdmittedAlone survives a step that starts no dispatch and no execution.
LEMMA AloneKept ==
    ASSUME AdmittedAlone, spec' = spec,
           pc' = "dispatch" => pc = "dispatch" /\ key' = key,
           \A f \in Execs : store'[f].state = "Running" => store[f].state = "Running",
           \A f \in Execs : lost[f] > 0 => lost'[f] > 0
    PROVE  AdmittedAlone'
BY DEF AdmittedAlone, Conflicting, Target

\* A deletion, by a client or by the cleanup task.
LEMMA RemoveStep ==
    ASSUME TypeOK, Core, NEW e \in Execs, store[e].state # "absent",
           store' = Remove(e), doomed' \subseteq doomed,
           UNCHANGED <<spec, cache, workerVars, agentVars, ghostVars>>,
           used'.crashes = used.crashes
    PROVE  Core'
<1> USE RemoveFacts DEF workerVars, agentVars, ghostVars
<1>0. /\ store[e].rv \in Nat /\ cache[e].rv \in Nat /\ obj.rv \in Nat
      /\ lost \in [Execs -> Nat] /\ dispatched \in [Execs -> Nat]
      /\ observed \in [Execs -> Nat] /\ key \in Execs /\ doomed \subseteq Execs
  BY DEF TypeOK, Objects
<1>1. CacheInv'
  BY <1>0 DEF Core, CacheInv, Shape
<1>2. CopyInv'
  BY <1>0 DEF Core, CopyInv
<1>3. DispatchInv'
  BY <1>0 DEF Core, DispatchInv, Committed
<1>4. CountInv'
  BY <1>0 DEF Core, CountInv, Terminal
<1>5. RanInv' /\ VisibleInv' /\ OrphanHasCause'
  BY <1>0 DEF Core, RanInv, VisibleInv, OrphanHasCause
<1>6. EndInv'
  <2>1. ASSUME NEW f \in Execs, cache[f].state \in Terminal
        PROVE  /\ store'[f].rv >= 1
               /\ \/ store'[f].state = "absent"
                  \/ store'[f].state = cache[f].state /\ store'[f].age = cache[f].age
    BY <1>0, <2>1 DEF Core, EndInv
  <2>2. ASSUME NEW f \in doomed
        PROVE  store'[f].rv >= 1 /\ (store'[f].state = "absent" \/ Expired(store'[f]))
    BY <1>0 DEF Core, EndInv
  <2> QED BY <2>1, <2>2 DEF EndInv, Expired, TTL
<1>7. AdmittedAlone'
  BY <1>0, AloneKept DEF Core
<1> QED BY <1>1, <1>2, <1>3, <1>4, <1>5, <1>6, <1>7 DEF Core

LEMMA CreateStep ==
    ASSUME TypeOK, Core, NEW e \in Execs, CreateExecution(e)
    PROVE  Core'
<1> DEFINE o == Bumped([NeverCreated EXCEPT !.state = "new"])
<1>0. /\ store[e].rv \in Nat /\ cache[e].rv \in Nat /\ obj.rv \in Nat
      /\ lost \in [Execs -> Nat] /\ dispatched \in [Execs -> Nat]
      /\ observed \in [Execs -> Nat] /\ key \in Execs /\ doomed \subseteq Execs /\ cache[e].rv = 0
      /\ store[e].rv = 0
  BY DEF TypeOK, Objects, CreateExecution, Core, CacheInv
<1>1. o.state = "new" /\ o.rv = 1 /\ o.startedAt = "nil"
  BY DEF Bumped, NeverCreated
<1>2. /\ store' = [store EXCEPT ![e] = o]
      /\ store'[e] = o
      /\ \A f \in Execs : f # e => store'[f] = store[f]
      /\ UNCHANGED <<spec, cache, pc, key, obj, reply, doomed, dispatched,
                     unfailed, lost, observed, used>>
  BY DEF CreateExecution, TypeOK, workerVars, agentVars, ghostVars
<1> HIDE DEF o
<1>3. CacheInv'
  BY <1>0, <1>1, <1>2 DEF Core, CacheInv, Shape
<1>4. CopyInv'
  BY <1>0, <1>1, <1>2 DEF Core, CopyInv
<1>5. DispatchInv'
  BY <1>0, <1>1, <1>2 DEF Core, DispatchInv, Committed
<1>6. CountInv'
  BY <1>0, <1>1, <1>2 DEF Core, CountInv, Terminal
<1>7. RanInv' /\ VisibleInv' /\ OrphanHasCause'
  BY <1>0, <1>1, <1>2 DEF Core, RanInv, VisibleInv, OrphanHasCause
<1>8. EndInv'
  <2>1. cache[e].state \notin Terminal /\ e \notin doomed
    BY <1>0 DEF Core, EndInv
  <2> QED BY <1>0, <1>1, <1>2, <2>1 DEF Core, EndInv, Expired, TTL
<1>9. AdmittedAlone'
  BY <1>0, <1>1, <1>2, AloneKept DEF Core
<1> QED BY <1>3, <1>4, <1>5, <1>6, <1>7, <1>8, <1>9 DEF Core

LEMMA TouchStep ==
    ASSUME TypeOK, Core, NEW e \in Execs, TouchExecution(e)
    PROVE  Core'
<1> DEFINE o == Bumped(store[e])
<1>0. /\ store[e].rv \in Nat /\ cache[e].rv \in Nat /\ obj.rv \in Nat
      /\ lost \in [Execs -> Nat] /\ dispatched \in [Execs -> Nat]
      /\ observed \in [Execs -> Nat] /\ key \in Execs /\ doomed \subseteq Execs
      /\ store[e].state # "absent" /\ used'.crashes = used.crashes
  BY DEF TypeOK, Objects, TouchExecution, Usage
<1>1. o.state = store[e].state /\ o.rv = store[e].rv + 1
      /\ o.startedAt = store[e].startedAt /\ o.age = store[e].age
  BY ObjectFields DEF TypeOK
<1>2. /\ store' = [store EXCEPT ![e] = o]
      /\ store'[e] = o
      /\ \A f \in Execs : f # e => store'[f] = store[f]
      /\ UNCHANGED <<spec, cache, pc, key, obj, reply, doomed, dispatched,
                     unfailed, lost, observed>>
  BY DEF TouchExecution, TypeOK, workerVars, agentVars, ghostVars
<1> HIDE DEF o
<1>3. CacheInv'
  BY <1>0, <1>1, <1>2 DEF Core, CacheInv, Shape
<1>4. CopyInv'
  BY <1>0, <1>1, <1>2 DEF Core, CopyInv
<1>5. DispatchInv'
  BY <1>0, <1>1, <1>2 DEF Core, DispatchInv, Committed
<1>6. CountInv'
  BY <1>0, <1>1, <1>2 DEF Core, CountInv, Terminal
<1>7. RanInv' /\ VisibleInv' /\ OrphanHasCause'
  BY <1>0, <1>1, <1>2 DEF Core, RanInv, VisibleInv, OrphanHasCause
<1>8. EndInv'
  <2>1. ASSUME NEW f \in Execs, cache[f].state \in Terminal
        PROVE  /\ store'[f].rv >= 1
               /\ \/ store'[f].state = "absent"
                  \/ store'[f].state = cache[f].state /\ store'[f].age = cache[f].age
    BY <1>0, <1>1, <1>2, <2>1 DEF Core, EndInv
  <2>2. ASSUME NEW f \in doomed
        PROVE  store'[f].rv >= 1 /\ (store'[f].state = "absent" \/ Expired(store'[f]))
    BY <1>0, <1>1, <1>2 DEF Core, EndInv, Expired
  <2> QED BY <1>2, <2>1, <2>2 DEF EndInv, Expired, TTL
<1>9. AdmittedAlone'
  BY <1>0, <1>1, <1>2, AloneKept DEF Core
<1> QED BY <1>3, <1>4, <1>5, <1>6, <1>7, <1>8, <1>9 DEF Core

\* A step that changes neither an object nor its copies.
LEMMA QuietStep ==
    ASSUME TypeOK, Core, used'.crashes >= used.crashes, used'.crashes \in Nat,
           UNCHANGED <<spec, store, cache, doomed, workerVars, agentVars, ghostVars>>
    PROVE  Core'
<1> USE DEF workerVars, agentVars, ghostVars
<1>1. CacheInv' /\ CopyInv' /\ RanInv' /\ VisibleInv'
  BY DEF Core, CacheInv, CopyInv, RanInv, VisibleInv, Shape
<1>2. DispatchInv' /\ CountInv'
  BY DEF Core, DispatchInv, CountInv, Committed
<1>3. EndInv'
  BY DEF Core, EndInv, Expired, TTL
<1>4. AdmittedAlone'
  BY AloneKept DEF Core
<1>5. OrphanHasCause'
  BY DEF Core, OrphanHasCause, TypeOK, Usage
<1> QED BY <1>1, <1>2, <1>3, <1>4, <1>5 DEF Core

LEMMA WatchSyncStep ==
    ASSUME TypeOK, Core, WatchSync
    PROVE  Core'
<1>0. /\ cache' = store
      /\ UNCHANGED <<spec, store, pc, key, obj, reply, doomed, dispatched,
                     unfailed, lost, observed, used>>
      /\ \A e \in Execs : store[e].rv \in Nat /\ store[e].state \in States
  BY DEF WatchSync, workerVars, agentVars, ghostVars, TypeOK, Objects
<1>1. CacheInv' /\ CopyInv' /\ RanInv' /\ VisibleInv' /\ OrphanHasCause'
  BY <1>0 DEF Core, CacheInv, CopyInv, RanInv, VisibleInv, OrphanHasCause, Shape
<1>2. DispatchInv' /\ CountInv'
  BY <1>0 DEF Core, DispatchInv, CountInv, Committed
<1>3. EndInv'
  <2>1. \A e \in Execs : store[e].state \in Terminal => store[e].rv >= 1
    BY <1>0 DEF Core, CacheInv, Shape, Terminal
  <2> QED BY <1>0, <2>1 DEF Core, EndInv, Expired, TTL
<1>4. AdmittedAlone'
  BY <1>0, AloneKept DEF Core
<1> QED BY <1>1, <1>2, <1>3, <1>4 DEF Core

LEMMA CrashStep ==
    ASSUME TypeOK, Core, Crash
    PROVE  Core'
<1>0. /\ cache' = store
      /\ pc' = "idle"
      /\ doomed' = {}
      /\ UNCHANGED <<spec, store, dispatched, unfailed, lost, observed>>
      /\ used'.crashes > 0
  BY DEF Crash, Proceed, agentVars, ghostVars, TypeOK, Usage
<1>1. CacheInv' /\ CopyInv' /\ RanInv' /\ VisibleInv' /\ OrphanHasCause' /\ AdmittedAlone'
  BY <1>0 DEF Core, CacheInv, CopyInv, RanInv, VisibleInv, OrphanHasCause,
              AdmittedAlone, Shape, TypeOK, Objects
<1>2. DispatchInv' /\ CountInv'
  <2>1. \A e \in Execs : dispatched[e] =< Committed(e) /\ Committed(e)' = dispatched[e]
    BY <1>0 DEF Committed, TypeOK
  <2>2. dispatched \in [Execs -> Nat] /\ lost \in [Execs -> Nat]
        /\ \A e \in Execs : Committed(e) \in Nat
    BY DEF TypeOK, Committed
  <2> QED BY <1>0, <2>1, <2>2 DEF Core, DispatchInv, CountInv
<1>3. EndInv'
  <2>1. \A e \in Execs : store[e].state \in Terminal => store[e].rv >= 1
    BY DEF Core, CacheInv, Shape, Terminal
  <2> QED BY <1>0, <2>1 DEF EndInv
<1> QED BY <1>1, <1>2, <1>3 DEF Core

LEMMA CleanupListStep ==
    ASSUME TypeOK, Core, CleanupList
    PROVE  Core'
<1>0. /\ doomed' = {e \in Execs : Expired(cache[e])}
      /\ UNCHANGED <<spec, store, cache, pc, key, obj, reply, dispatched,
                     unfailed, lost, observed, used>>
  BY DEF CleanupList, workerVars, agentVars, ghostVars
<1>1. CacheInv' /\ CopyInv' /\ RanInv' /\ VisibleInv' /\ OrphanHasCause'
  BY <1>0 DEF Core, CacheInv, CopyInv, RanInv, VisibleInv, OrphanHasCause, Shape
<1>2. DispatchInv' /\ CountInv'
  BY <1>0 DEF Core, DispatchInv, CountInv, Committed
<1>3. EndInv'
  BY <1>0 DEF Core, EndInv, Expired, TTL
<1>4. AdmittedAlone'
  BY <1>0, AloneKept DEF Core
<1> QED BY <1>1, <1>2, <1>3, <1>4 DEF Core

LEMMA CleanupDeleteStep ==
    ASSUME TypeOK, Core, NEW e \in Execs, CleanupDelete(e)
    PROVE  Core'
<1>0. /\ doomed' \subseteq doomed
      /\ UNCHANGED <<spec, cache, workerVars, agentVars, ghostVars>>
      /\ used'.crashes = used.crashes
      /\ store' = store \/ (store' = Remove(e) /\ store[e].state # "absent")
  BY DEF CleanupDelete, TypeOK, Usage
<1>1. CASE store' = Remove(e) /\ store[e].state # "absent"
  BY <1>0, <1>1, RemoveStep
<1>2. CASE store' = store
  <2> USE <1>0, <1>2 DEF workerVars, agentVars, ghostVars
  <2>1. CacheInv' /\ CopyInv' /\ RanInv' /\ VisibleInv' /\ OrphanHasCause'
    BY DEF Core, CacheInv, CopyInv, RanInv, VisibleInv, OrphanHasCause, Shape
  <2>2. DispatchInv' /\ CountInv'
    BY DEF Core, DispatchInv, CountInv, Committed
  <2>3. EndInv'
    BY DEF Core, EndInv, Expired, TTL
  <2>4. AdmittedAlone'
    BY AloneKept DEF Core
  <2> QED BY <2>1, <2>2, <2>3, <2>4 DEF Core
<1> QED BY <1>0, <1>1, <1>2

LEMMA OlderFacts ==
    ASSUME NEW o \in Objects
    PROVE  /\ Older(o).state = o.state
           /\ Older(o).rv = o.rv
           /\ Older(o).startedAt = o.startedAt
           /\ Expired(o) => Expired(Older(o))
           /\ \A q \in Objects : q.state = o.state /\ q.age = o.age
                => Older(q).age = Older(o).age
BY MaxAgeNat, TTLAssumption DEF Older, Objects, Expired, TTL

LEMMA TickStep ==
    ASSUME TypeOK, Core, Tick
    PROVE  Core'
<1>0. /\ UNCHANGED <<spec, pc, key, obj, reply, doomed, dispatched, unfailed,
                     lost, observed, used>>
      /\ key \in Execs /\ doomed \subseteq Execs
  BY DEF Tick, workerVars, agentVars, ghostVars, TypeOK
<1>1. \A e \in Execs :
        /\ store[e] \in Objects /\ cache[e] \in Objects
        /\ store'[e] = Older(store[e]) /\ cache'[e] = Older(cache[e])
        /\ store'[e].state = store[e].state /\ cache'[e].state = cache[e].state
        /\ store'[e].rv = store[e].rv /\ cache'[e].rv = cache[e].rv
        /\ store'[e].startedAt = store[e].startedAt
        /\ cache'[e].startedAt = cache[e].startedAt
  BY OlderFacts DEF Tick, TypeOK
<1>2. CacheInv'
  BY <1>1 DEF Core, CacheInv, Shape
<1>3. CopyInv' /\ RanInv' /\ VisibleInv' /\ OrphanHasCause'
  BY <1>0, <1>1 DEF Core, CopyInv, RanInv, VisibleInv, OrphanHasCause
<1>4. DispatchInv' /\ CountInv'
  BY <1>0, <1>1 DEF Core, DispatchInv, CountInv, Committed
<1>5. EndInv'
  <2>1. ASSUME NEW e \in Execs, cache'[e].state \in Terminal
        PROVE  /\ store'[e].rv >= 1
               /\ \/ store'[e].state = "absent"
                  \/ store'[e].state = cache'[e].state /\ store'[e].age = cache'[e].age
    BY <1>1, <2>1, OlderFacts DEF Core, EndInv
  <2>2. ASSUME NEW e \in doomed
        PROVE  store'[e].rv >= 1 /\ (store'[e].state = "absent" \/ Expired(store'[e]))
    BY <1>0, <1>1, OlderFacts DEF Core, EndInv
  <2> QED BY <1>0, <2>1, <2>2 DEF EndInv, Expired, TTL
<1>6. AdmittedAlone'
  BY <1>0, <1>1, AloneKept DEF Core
<1> QED BY <1>2, <1>3, <1>4, <1>5, <1>6 DEF Core

LEMMA MarkPendingStep ==
    ASSUME TypeOK, Core, NEW e \in Execs, pc = "idle", MarkPending(e)
    PROVE  Core'
<1> DEFINE o == Bumped([cache[e] EXCEPT !.state = "Pending"])
<1>0. /\ UNCHANGED <<spec, cache, pc, key, obj, reply, doomed, dispatched,
                     unfailed, lost, observed>>
      /\ used'.crashes = used.crashes /\ used.crashes \in Nat
      /\ cache[e].state = "new"
  BY DEF MarkPending, workerVars, agentVars, ghostVars, TypeOK, Usage
<1>1. CASE store' = store
  BY <1>0, <1>1, QuietStep DEF workerVars, agentVars, ghostVars
<1>2. CASE /\ Current(e, [cache[e] EXCEPT !.state = "Pending"])
           /\ store' = [store EXCEPT ![e] = o]
  <2>1. store[e] = cache[e] /\ store[e] \in Objects
    BY <1>2 DEF Current, Core, CacheInv, TypeOK, Objects
  <2>2. o.state = "Pending" /\ o.rv = store[e].rv + 1 /\ o.startedAt = "nil"
    BY <1>0, <2>1 DEF Bumped, Objects, Core, CacheInv, Shape
  <2>3. /\ store'[e] = o
        /\ \A f \in Execs : f # e => store'[f] = store[f]
        /\ store[e].rv \in Nat /\ key \in Execs /\ doomed \subseteq Execs
        /\ store[e].state = "new" /\ store[e].rv >= 1
    BY <1>0, <1>2, <2>1 DEF TypeOK, Objects, Core, CacheInv, Shape
  <2> HIDE DEF o
  <2>4. CacheInv'
    BY <1>0, <2>1, <2>2, <2>3 DEF Core, CacheInv, Shape
  <2>5. CopyInv' /\ RanInv' /\ VisibleInv' /\ OrphanHasCause'
    BY <1>0, <2>1, <2>2, <2>3 DEF Core, CopyInv, RanInv, VisibleInv, OrphanHasCause
  <2>6. DispatchInv' /\ CountInv'
    BY <1>0, <2>1, <2>2, <2>3 DEF Core, DispatchInv, CountInv, Committed, Terminal
  <2>7. EndInv'
    <3>1. cache[e].state \notin Terminal /\ e \notin doomed
      BY <1>0, <2>1 DEF Core, EndInv, Expired, Terminal
    <3> QED BY <1>0, <2>3, <3>1 DEF Core, EndInv, Expired, TTL
  <2>8. AdmittedAlone'
    BY <1>0, <2>2, <2>3, AloneKept DEF Core
  <2> QED BY <2>4, <2>5, <2>6, <2>7, <2>8 DEF Core
<1> QED BY <1>1, <1>2 DEF MarkPending

LEMMA FetchStep ==
    ASSUME TypeOK, Core, NEW e \in Execs, pc = "idle", Fetch(e)
    PROVE  Core'
<1>0. /\ UNCHANGED <<spec, store, cache, doomed, dispatched, unfailed, lost,
                     observed, used>>
      /\ pc' = "fetched" /\ key' = e /\ obj' = cache[e] /\ reply' = "none"
      /\ cache[e].state = "Pending"
  BY DEF Fetch, agentVars, ghostVars
<1>1. CopyInv'
  BY <1>0 DEF CopyInv, Core, CacheInv, Shape
<1>2. CacheInv' /\ RanInv' /\ VisibleInv' /\ OrphanHasCause' /\ AdmittedAlone'
  BY <1>0 DEF Core, CacheInv, RanInv, VisibleInv, OrphanHasCause, AdmittedAlone, Shape
<1>3. DispatchInv' /\ CountInv'
  BY <1>0 DEF Core, DispatchInv, CountInv, Committed
<1>4. EndInv'
  BY <1>0 DEF Core, EndInv, Expired, TTL
<1> QED BY <1>1, <1>2, <1>3, <1>4 DEF Core

LEMMA AgentStep ==
    ASSUME TypeOK, Core, DispatchToAgent \/ AgentFinish
    PROVE  Core'
<1>0. /\ UNCHANGED <<spec, store, cache, key, obj, doomed, lost, observed, used>>
      /\ pc \in {"dispatch", "waiting"} /\ pc' = "waiting" /\ key \in Execs
      /\ dispatched \in [Execs -> Nat] /\ lost \in [Execs -> Nat]
  BY DEF DispatchToAgent, AgentFinish, ghostVars, TypeOK
<1>1. \A e \in Execs : Committed(e)' = Committed(e)
  BY <1>0 DEF Committed, DispatchToAgent, AgentFinish
<1>2. /\ \A e \in Execs : unfailed[e] => unfailed'[e]
      /\ pc = "dispatch" => reply' = reply
      /\ pc = "waiting" => reply' \in Failures \/ unfailed'[key]
  BY DEF DispatchToAgent, AgentFinish, TypeOK
<1>3. RanInv'
  BY <1>0, <1>2 DEF Core, RanInv
<1>4. CacheInv' /\ VisibleInv' /\ OrphanHasCause' /\ AdmittedAlone'
  BY <1>0 DEF Core, CacheInv, VisibleInv, OrphanHasCause, AdmittedAlone, Shape
<1>5. DispatchInv' /\ CountInv'
  BY <1>0, <1>1 DEF Core, DispatchInv, CountInv
<1>6. EndInv'
  BY <1>0 DEF Core, EndInv, Expired, TTL
<1>7. CopyInv'
  BY <1>0, <1>2 DEF Core, CopyInv, DispatchToAgent, AgentFinish
<1> QED BY <1>3, <1>4, <1>5, <1>6, <1>7 DEF Core

\* The version of the object that setState(s) writes.
Written(s) == Bumped(Stamped(obj, s))

Landed(s) ==
    /\ obj.rv = store[key].rv
    /\ store' = [store EXCEPT ![key] = Written(s)]
    /\ lost' = lost

Dropped ==
    /\ store' = store
    /\ lost' = [lost EXCEPT ![key] = @ + 1]

\* A status write reaches the store or counts as lost.
LEMMA SetStateFacts ==
    ASSUME TypeOK, NEW s \in States, NEW next, SetState(s, next)
    PROVE  /\ Landed(s) \/ Dropped
           /\ Written(s).state = s
           /\ Written(s).rv = obj.rv + 1
           /\ Written(s).startedAt = IF s = "Running" THEN "set" ELSE obj.startedAt
           /\ UNCHANGED <<spec, cache, doomed, dispatched, unfailed>>
           /\ used'.crashes = used.crashes
           /\ observed' = IF s \in Terminal
                          THEN [observed EXCEPT ![key] = @ + 1] ELSE observed
           /\ pc' = next
           /\ reply' = "none"
           /\ next # "idle" =>
                /\ key' = key
                /\ \/ obj' = Stamped(obj, s)
                   \/ obj' = Written(s) /\ Landed(s)
           /\ Stamped(obj, s).rv = obj.rv
           /\ Stamped(obj, s).startedAt = Written(s).startedAt
<1>1. /\ Stamped(obj, s).rv = obj.rv
      /\ Stamped(obj, s).state = s
      /\ Stamped(obj, s).startedAt = IF s = "Running" THEN "set" ELSE obj.startedAt
  BY DEF Stamped
<1>2. /\ Written(s).state = s
      /\ Written(s).rv = obj.rv + 1
      /\ Written(s).startedAt = Stamped(obj, s).startedAt
  BY DEF Written, Bumped, Stamped
<1>3. StatusUpdate(Stamped(obj, s), next)
  BY DEF SetState
<1>4. Landed(s) \/ Dropped
  BY <1>1, <1>3 DEF StatusUpdate, Landed, Dropped, Current, Written
<1>5. used'.crashes = used.crashes
  BY <1>3 DEF StatusUpdate, TypeOK, Usage
<1>6. /\ pc' = next
      /\ reply' = "none"
      /\ next # "idle" =>
           /\ key' = key
           /\ \/ obj' = Stamped(obj, s)
              \/ obj' = Written(s) /\ Landed(s)
  BY <1>1, <1>3 DEF StatusUpdate, Proceed, Landed, Current, Written
<1> QED BY <1>1, <1>2, <1>4, <1>5, <1>6 DEF SetState, agentVars

\* What every call of setState in the reconciler preserves.
LEMMA SetStateStep ==
    ASSUME TypeOK, Core, NEW s \in States, NEW next, SetState(s, next),
           \/ pc = "fetched" /\ s = "Rejected" /\ next = "idle"
           \/ pc = "fetched" /\ s = "Running" /\ next = "dispatch"
           \/ /\ pc \in {"dispatch", "waiting"}
              /\ s = "Failed" \/ (s = "Succeeded" /\ unfailed[key])
              /\ next = "idle"
    PROVE  /\ CacheInv' /\ CopyInv' /\ DispatchInv' /\ CountInv'
           /\ RanInv' /\ VisibleInv' /\ EndInv' /\ OrphanHasCause'
<1> DEFINE n == Written(s)
<1>0. /\ key \in Execs /\ obj.rv \in Nat /\ doomed \subseteq Execs
      /\ lost \in [Execs -> Nat] /\ dispatched \in [Execs -> Nat]
      /\ observed \in [Execs -> Nat] /\ store \in [Execs -> Objects]
      /\ store[key].rv \in Nat /\ cache[key].rv \in Nat /\ used.crashes \in Nat
  BY DEF TypeOK, Objects, Usage
<1>1. /\ n.state = s /\ n.rv = obj.rv + 1
      /\ n.startedAt = IF s = "Running" THEN "set" ELSE obj.startedAt
      /\ UNCHANGED <<spec, cache, doomed, dispatched, unfailed>>
      /\ used'.crashes = used.crashes /\ pc' = next /\ reply' = "none"
      /\ observed' = IF s \in Terminal
                     THEN [observed EXCEPT ![key] = @ + 1] ELSE observed
      /\ next # "idle" => /\ key' = key
                          /\ \/ obj' = Stamped(obj, s)
                             \/ obj' = n /\ Landed(s)
      /\ Stamped(obj, s).rv = obj.rv
      /\ Stamped(obj, s).startedAt = n.startedAt
      /\ Landed(s) \/ Dropped
  BY SetStateFacts
<1>2. Landed(s) =>
        /\ store'[key] = n /\ obj.rv = store[key].rv /\ lost' = lost
        /\ \A f \in Execs : f # key => store'[f] = store[f]
        /\ store[key].state \in {"Pending", "Running"}
        /\ pc = "fetched" => store[key].state = "Pending"
  BY <1>0 DEF Landed, Core, CopyInv
<1>3. Dropped =>
        /\ store' = store
        /\ lost'[key] = lost[key] + 1
        /\ \A f \in Execs : f # key => lost'[f] = lost[f]
  BY <1>0 DEF Dropped
<1>4. s \in Terminal <=> next = "idle"
  BY DEF Terminal
<1> HIDE DEF n
<1>5. CacheInv'
  BY <1>0, <1>1, <1>2, <1>3 DEF Core, CacheInv, CopyInv, Shape
<1>6. CopyInv'
  BY <1>0, <1>1, <1>2, <1>3 DEF Core, CopyInv
<1>7. DispatchInv'
  BY <1>0, <1>1, <1>2, <1>3 DEF Core, DispatchInv, Committed, CopyInv
<1>8. CountInv'
  BY <1>0, <1>1, <1>2, <1>3, <1>4 DEF Core, CountInv, CopyInv
<1>9. RanInv'
  BY <1>0, <1>1, <1>2, <1>3 DEF Core, RanInv
<1>10. VisibleInv' /\ OrphanHasCause'
  BY <1>0, <1>1, <1>2, <1>3 DEF Core, VisibleInv, OrphanHasCause
<1>11. EndInv'
  <2>1. Landed(s) => cache[key].state \notin Terminal /\ key \notin doomed
    BY <1>0, <1>2 DEF Core, EndInv, Expired, Terminal
  <2> QED BY <1>0, <1>1, <1>2, <1>3, <2>1 DEF Core, EndInv, Expired, TTL
<1> QED BY <1>5, <1>6, <1>7, <1>8, <1>9, <1>10, <1>11

\* A reconcile that ends starts no dispatch.
LEMMA EndStep ==
    ASSUME TypeOK, Core, NEW s \in States, SetState(s, "idle"),
           \/ pc = "fetched" /\ s = "Rejected"
           \/ /\ pc \in {"dispatch", "waiting"}
              /\ s = "Failed" \/ (s = "Succeeded" /\ unfailed[key])
    PROVE  Core'
<1>1. pc' = "idle"
  BY SetStateFacts
<1>2. AdmittedAlone'
  BY <1>1 DEF AdmittedAlone
<1> QED BY <1>2, SetStateStep DEF Core

\* Admission: a conflicting execution that is Running without a lost write
\* would be Running in the cache, where checkConcurrency looks.
LEMMA RunStep ==
    ASSUME TypeOK, Core, NEW lookup \in Lookups, Run(lookup)
    PROVE  Core'
<1>0. /\ pc = "fetched" /\ SetState("Running", "dispatch")
      /\ CheckConcurrency(key) /\ "Running" \in States
  BY DEF Run, Admissible, States
<1>1. /\ UNCHANGED <<spec, cache>> /\ pc' = "dispatch" /\ key' = key
      /\ Landed("Running") \/ Dropped
  BY <1>0, SetStateFacts
<1>2. ASSUME NEW f \in Execs, Conflicting(key, f), store'[f].state = "Running"
      PROVE  lost'[f] > 0
  <2>1. f # key
    BY <1>2 DEF Conflicting
  <2>2. store'[f] = store[f] /\ lost'[f] = lost[f]
    BY <1>1, <2>1 DEF Landed, Dropped, TypeOK
  <2>3. CASE lost[f] = 0
    <3>1. cache[f].state = "Running"
      BY <1>0, <1>2, <2>2, <2>3 DEF Core, VisibleInv
    <3>2. f \in RunningBeside(key)
      BY <1>2, <3>1 DEF RunningBeside, Conflicting
    <3> QED BY <1>0, <1>2, <3>2 DEF CheckConcurrency, Conflicting
  <2> QED BY <2>2, <2>3 DEF TypeOK
<1>3. AdmittedAlone'
  BY <1>1, <1>2 DEF AdmittedAlone, Conflicting, Target
<1> QED BY <1>0, <1>3, SetStateStep DEF Core

LEMMA InvStep == IInv /\ [Next]_vars => IInv'
<1> SUFFICES ASSUME TypeOK, Core, [Next]_vars
             PROVE  Core'
  BY TypeStep DEF IInv, Core
<1>1. ASSUME NEW e \in Execs, CreateExecution(e)
      PROVE  Core'
  BY <1>1, CreateStep
<1>2. ASSUME NEW e \in Execs, DeleteExecution(e)
      PROVE  Core'
  BY <1>2, RemoveStep DEF DeleteExecution
<1>3. ASSUME NEW e \in Execs, TouchExecution(e)
      PROVE  Core'
  BY <1>3, TouchStep
<1>4. CASE WatchSync
  BY <1>4, WatchSyncStep
<1>5. CASE Resync
  <2>1. used'.crashes = used.crashes /\ used.crashes \in Nat
    BY <1>5, BoundAssumption DEF Resync, TypeOK, Usage
  <2> QED BY <1>5, <2>1, QuietStep DEF Resync
<1>6. ASSUME NEW e \in Execs, Reconcile(e)
      PROVE  Core'
  <2>1. CASE MarkPending(e)
    BY <1>6, <2>1, MarkPendingStep DEF Reconcile
  <2>2. CASE SkipReconcile(e)
    <3>1. used.crashes \in Nat
      BY DEF TypeOK, Usage
    <3> QED BY <2>2, <3>1, QuietStep DEF SkipReconcile
  <2>3. CASE Fetch(e)
    BY <1>6, <2>3, FetchStep DEF Reconcile
  <2> QED BY <1>6, <2>1, <2>2, <2>3 DEF Reconcile
<1>7. ASSUME NEW lookup \in Lookups, Reject(lookup)
      PROVE  Core'
  BY <1>7, EndStep DEF Reject, States, Terminal
<1>8. ASSUME NEW lookup \in Lookups, Run(lookup)
      PROVE  Core'
  BY <1>8, RunStep
<1>9. CASE DispatchFails
  BY <1>9, EndStep DEF DispatchFails, States, Terminal
<1>10. CASE DispatchToAgent \/ AgentFinish
  BY <1>10, AgentStep
<1>11. CASE Complete
  <2>1. reply \notin Failures => unfailed[key]
    BY <1>11 DEF Complete, Core, CopyInv
  <2> QED BY <1>11, <2>1, EndStep DEF Complete, States, Terminal
<1>12. CASE Timeout
  BY <1>12, EndStep DEF Timeout, States, Terminal
<1>13. CASE CleanupList
  BY <1>13, CleanupListStep
<1>14. ASSUME NEW e \in Execs, CleanupDelete(e)
       PROVE  Core'
  BY <1>14, CleanupDeleteStep
<1>15. CASE Tick
  BY <1>15, TickStep
<1>16. CASE Crash
  BY <1>16, CrashStep
<1>17. CASE UNCHANGED vars
  <2>1. used.crashes \in Nat
    BY DEF TypeOK, Usage
  <2> QED BY <1>17, <2>1, QuietStep DEF vars, workerVars, agentVars, ghostVars
<1> QED
  BY <1>1, <1>2, <1>3, <1>4, <1>5, <1>6, <1>7, <1>8, <1>9, <1>10, <1>11, <1>12,
     <1>13, <1>14, <1>15, <1>16, <1>17
  DEF Next, Client, Worker, Cleanup

LEMMA InvInit == Init => IInv
<1> SUFFICES ASSUME Init
             PROVE  IInv
  OBVIOUS
<1>1. \A e \in Execs : /\ store[e] = NeverCreated /\ cache[e] = NeverCreated
                       /\ dispatched[e] = 0 /\ lost[e] = 0 /\ observed[e] = 0
  BY DEF Init
<1>2. NeverCreated.state = "absent" /\ NeverCreated.rv = 0
  BY DEF NeverCreated
<1>3. CacheInv /\ CopyInv /\ RanInv /\ VisibleInv /\ AdmittedAlone /\ OrphanHasCause
  BY <1>1, <1>2 DEF Init, CacheInv, CopyInv, RanInv, VisibleInv, AdmittedAlone,
                    OrphanHasCause, Shape
<1>4. DispatchInv /\ CountInv /\ EndInv
  BY <1>1, <1>2 DEF Init, DispatchInv, Committed, CountInv, EndInv, Terminal
<1> QED BY <1>3, <1>4, TypeInit DEF IInv

\* The inductive invariant holds in every reachable state.
THEOREM Invariance == Spec => []IInv
BY InvInit, InvStep, PTL DEF Spec

-----------------------------------------------------------------------------
(* The properties *)

\* An execution reaches the agent a second time only after a dropped status
\* write of setState.
THEOREM DispatchedOnceHolds == Spec => []DispatchedOnce
<1>1. IInv => DispatchedOnce
  BY DEF IInv, TypeOK, DispatchInv, Committed, DispatchedOnce
<1> QED BY <1>1, Invariance, PTL

\* A Rejected execution did not run, save through a dropped write.
THEOREM RejectedDidNotRunHolds == Spec => []RejectedDidNotRun
<1>1. IInv => RejectedDidNotRun
  BY DEF IInv, TypeOK, DispatchInv, Committed, RejectedDidNotRun
<1> QED BY <1>1, Invariance, PTL

\* Succeeded is backed by a successful agent run.
THEOREM SucceededDidRunHolds == Spec => []SucceededDidRun
<1>1. IInv => SucceededDidRun
  BY DEF IInv, RanInv, CacheInv, Shape, SucceededDidRun
<1> QED BY <1>1, Invariance, PTL

\* The terminal-state metric counts every end, and twice only after a drop.
THEOREM CountedOnceHolds == Spec => []CountedOnce
<1>1. IInv => CountedOnce
  BY DEF IInv, CountInv, CountedOnce
<1> QED BY <1>1, Invariance, PTL

\* The concurrency check is sound against stale caches: what it overlooks had
\* a dropped final write.
THEOREM AdmittedAloneHolds == Spec => []AdmittedAlone
<1>1. IInv => AdmittedAlone
  BY DEF IInv
<1> QED BY <1>1, Invariance, PTL

\* A Running execution without a worker comes from a restart or a drop.
THEOREM OrphanHasCauseHolds == Spec => []OrphanHasCause
<1>1. IInv => OrphanHasCause
  BY DEF IInv
<1> QED BY <1>1, Invariance, PTL

\* The cleanup task deletes nothing but ended executions past their TTL.
THEOREM CleanupOnlyExpiredHolds == Spec => []CleanupOnlyExpired
<1>1. IInv => CleanupOnlyExpired
  BY DEF IInv, EndInv, CleanupOnlyExpired
<1> QED BY <1>1, Invariance, PTL

\* What a step may do to an execution that has ended.
KeepsOutcome(e) ==
    store[e].state \in Terminal => store'[e].state \in {store[e].state, "absent"}

LEMMA SetStateKeeps ==
    ASSUME TypeOK, Core, NEW s \in States, NEW next, SetState(s, next),
           pc # "idle", NEW e \in Execs
    PROVE  KeepsOutcome(e)
<1>1. Landed(s) \/ Dropped
  BY SetStateFacts
<1>2. CASE Dropped
  BY <1>2 DEF Dropped, KeepsOutcome
<1>3. CASE Landed(s)
  <2>1. store[key].state \in {"Pending", "Running"}
    BY <1>3 DEF Landed, Core, CopyInv, TypeOK
  <2> QED BY <1>3, <2>1 DEF Landed, TypeOK, KeepsOutcome, Terminal
<1> QED BY <1>1, <1>2, <1>3

LEMMA OutcomeStep ==
    ASSUME IInv, [Next]_vars, NEW e \in Execs
    PROVE  KeepsOutcome(e)
<1>0. TypeOK /\ Core
  BY DEF IInv, Core
<1>1. ASSUME NEW f \in Execs, CreateExecution(f)
      PROVE  KeepsOutcome(e)
  <2>1. store[f].state = "absent"
    BY <1>0, <1>1 DEF CreateExecution, Core, CacheInv, Shape, TypeOK, Objects
  <2> QED BY <1>0, <1>1, <2>1 DEF CreateExecution, KeepsOutcome, TypeOK, Terminal
<1>2. ASSUME NEW f \in Execs, store' = Remove(f) \/ store' = store
      PROVE  KeepsOutcome(e)
  BY <1>0, <1>2, RemoveFacts DEF KeepsOutcome
<1>3. ASSUME NEW f \in Execs, TouchExecution(f)
      PROVE  KeepsOutcome(e)
  BY <1>0, <1>3, ObjectFields DEF TouchExecution, KeepsOutcome, TypeOK
<1>4. CASE store' = store
  BY <1>4 DEF KeepsOutcome
<1>5. ASSUME NEW f \in Execs, Reconcile(f)
      PROVE  KeepsOutcome(e)
  <2>1. CASE store' = store
    BY <2>1 DEF KeepsOutcome
  <2>2. CASE store' # store
    <3>1. /\ MarkPending(f) /\ cache[f].state = "new"
          /\ store[f].rv = [cache[f] EXCEPT !.state = "Pending"].rv
          /\ \A g \in Execs : g # f => store'[g] = store[g]
      BY <1>0, <1>5, <2>2 DEF Reconcile, MarkPending, SkipReconcile, Fetch, Current, TypeOK
    <3>2. store[f].state = "new"
      BY <1>0, <3>1 DEF Core, CacheInv, TypeOK, Objects
    <3> QED BY <3>1, <3>2 DEF KeepsOutcome, Terminal
  <2> QED BY <2>1, <2>2
<1>6. ASSUME NEW lookup \in Lookups, Reject(lookup) \/ Run(lookup)
      PROVE  KeepsOutcome(e)
  BY <1>0, <1>6, SetStateKeeps DEF Reject, Run, States, Terminal
<1>7. CASE DispatchFails \/ Complete \/ Timeout
  BY <1>0, <1>7, SetStateKeeps DEF DispatchFails, Complete, Timeout, States, Terminal
<1>8. CASE Tick
  BY <1>0, <1>8, OlderFacts DEF Tick, KeepsOutcome, TypeOK
<1>9. ASSUME NEW f \in Execs, CleanupDelete(f)
      PROVE  KeepsOutcome(e)
  BY <1>2, <1>9 DEF CleanupDelete
<1>10. ASSUME NEW f \in Execs, DeleteExecution(f)
       PROVE  KeepsOutcome(e)
  BY <1>2, <1>10 DEF DeleteExecution
<1>11. CASE \/ WatchSync \/ Resync \/ DispatchToAgent \/ AgentFinish
            \/ CleanupList \/ Crash \/ UNCHANGED vars
  BY <1>4, <1>11 DEF WatchSync, Resync, DispatchToAgent, AgentFinish, CleanupList,
                     Crash, vars
<1> QED
  BY <1>1, <1>3, <1>5, <1>6, <1>7, <1>8, <1>9, <1>10, <1>11
  DEF Next, Client, Worker, Cleanup

\* No step changes the outcome of an execution that has ended; only deletion
\* follows.
THEOREM OutcomeIsFinalHolds == Spec => OutcomeIsFinal
<1>1. IInv /\ [Next]_vars =>
        [\A e \in Execs : store[e].state \in Terminal =>
            store'[e].state \in {store[e].state, "absent"}]_vars
  BY OutcomeStep DEF KeepsOutcome
<1> QED BY <1>1, Invariance, PTL DEF Spec, OutcomeIsFinal

-----------------------------------------------------------------------------
(* ActionExecution implements ActionLifecycle: the initial states map to   *)
(* the initial state, and under the inductive invariant every step maps to *)
(* a step or to a stutter.                                                 *)


\* The worker waits only for a call the agent has received.
WaitInv == pc = "waiting" => dispatched[key] >= 1

LEMMA WaitStep == IInv /\ WaitInv /\ [Next]_vars => WaitInv'
<1> SUFFICES ASSUME TypeOK, WaitInv, [Next]_vars
             PROVE  WaitInv'
  BY DEF IInv
<1>1. CASE DispatchToAgent
  BY <1>1 DEF DispatchToAgent, TypeOK, WaitInv
<1>2. CASE pc' # "waiting"
  BY <1>2 DEF WaitInv
<1>3. CASE UNCHANGED <<pc, key, dispatched>>
  BY <1>3 DEF WaitInv
<1>4. \/ DispatchToAgent \/ pc' # "waiting" \/ UNCHANGED <<pc, key, dispatched>>
  BY DEF Next, Client, Worker, Cleanup, CreateExecution, DeleteExecution, TouchExecution,
         WatchSync, Resync, Reconcile, MarkPending, SkipReconcile, Fetch, Reject, Run,
         DispatchFails, Complete, Timeout, SetState, StatusUpdate, Proceed, AgentFinish,
         CleanupList, CleanupDelete, Tick, Crash, vars, workerVars, agentVars
<1> QED BY <1>1, <1>2, <1>3, <1>4

LEMMA WaitHolds == Spec => [](IInv /\ WaitInv)
<1>1. Init => WaitInv
  BY DEF Init, WaitInv
<1> QED BY <1>1, WaitStep, InvInit, InvStep, PTL DEF Spec

-----------------------------------------------------------------------------
(* Steps of the store seen through the mapping *)

\* One execution changes what a client reads of it.
LEMMA MoveStep ==
    ASSUME NEW e \in Execs, NEW s, Visible(e)' = s,
           \A f \in Execs : f # e => store'[f] = store[f],
           UNCHANGED <<dispatched, unfailed, lost>>
    PROVE  Lifecycle!Move(e, s)
<1>1. \A f \in Execs : f # e => Visible(f)' = Visible(f)
  BY DEF Visible
<1> QED BY <1>1 DEF Lifecycle!Move

\* No execution changes visibly.
LEMMA StutterStep ==
    ASSUME \A f \in Execs : Visible(f)' = Visible(f),
           UNCHANGED <<dispatched, unfailed, lost>>
    PROVE  UNCHANGED Lifecycle!vars
BY DEF Lifecycle!vars

LEMMA QuietStutter ==
    ASSUME UNCHANGED <<store, dispatched, unfailed, lost>>
    PROVE  UNCHANGED Lifecycle!vars
BY DEF Lifecycle!vars, Visible

\* An existing object is visible as its state.
LEMMA VisibleState ==
    ASSUME TypeOK, CacheInv, NEW e \in Execs
    PROVE  /\ store[e].state # "absent" => Visible(e) = store[e].state
           /\ store[e].rv = 0 => Visible(e) = "none"
           /\ store[e].rv >= 1 => Visible(e) # "none"
           /\ store[e].state \in States /\ store[e].rv \in Nat
BY DEF Visible, TypeOK, Objects, CacheInv, Shape, States, Terminal

LEMMA RemoveMap ==
    ASSUME TypeOK, CacheInv, NEW e \in Execs, store[e].state # "absent",
           store' = Remove(e), UNCHANGED <<dispatched, unfailed, lost>>
    PROVE  Lifecycle!Remove(e)
<1>1. /\ store'[e].state = "absent" /\ store'[e].rv = store[e].rv + 1
      /\ \A f \in Execs : f # e => store'[f] = store[f]
  BY DEF Remove, NeverCreated, TypeOK
<1>2. Visible(e)' = "gone"
  BY <1>1, VisibleState DEF Visible
<1>3. Lifecycle!Move(e, "gone")
  BY <1>1, <1>2, MoveStep
<1>4. Visible(e) \notin {"none", "gone"}
  BY VisibleState DEF States, Terminal
<1> QED BY <1>3, <1>4 DEF Lifecycle!Remove

\* What a status write does: the execution moves to s, or a write is dropped.
LEMMA SetStateMap ==
    ASSUME IInv, NEW s \in States \ {"absent"}, NEW next, SetState(s, next), pc # "idle"
    PROVE  \/ Lifecycle!DropWrite(key)
           \/ Lifecycle!Move(key, s) /\ Landed(s)
<1>0. /\ TypeOK /\ CacheInv /\ key \in Execs /\ CopyInv
      /\ Landed(s) \/ Dropped
      /\ Written(s).state = s
      /\ UNCHANGED <<dispatched, unfailed>>
  BY SetStateFacts DEF IInv, TypeOK
<1>1. CASE Dropped
  <2>1. Visible(key) # "none"
    BY <1>0, VisibleState DEF CopyInv, TypeOK, Objects
  <2>2. \A f \in Execs : Visible(f)' = Visible(f)
    BY <1>1 DEF Dropped, Visible
  <2> QED BY <1>0, <1>1, <2>1, <2>2 DEF Dropped, Lifecycle!DropWrite
<1>2. CASE Landed(s)
  <2>1. PICK k \in Execs : k = key
    BY <1>0
  <2>2. /\ store'[k] = Written(s)
        /\ \A f \in Execs : f # k => store'[f] = store[f]
        /\ lost' = lost
    BY <1>0, <1>2, <2>1 DEF Landed, TypeOK
  <2>3. Visible(k)' = s
    BY <1>0, <2>2 DEF Visible
  <2>4. Lifecycle!Move(k, s)
    BY <1>0, <2>2, <2>3, MoveStep
  <2> QED BY <1>2, <2>1, <2>4
<1> QED BY <1>0, <1>1, <1>2

-----------------------------------------------------------------------------
(* The refinement *)

LEMMA LifecycleStep ==
    ASSUME IInv, WaitInv, [Next]_vars
    PROVE  [Lifecycle!Next]_(Lifecycle!vars)
<1>0. TypeOK /\ CacheInv /\ CopyInv /\ DispatchInv
  BY DEF IInv
<1>1. ASSUME NEW e \in Execs, CreateExecution(e)
      PROVE  Lifecycle!Submit(e)
  <2>1. /\ store'[e].state = "new"
        /\ \A f \in Execs : f # e => store'[f] = store[f]
        /\ UNCHANGED <<dispatched, unfailed, lost>>
    BY <1>0, <1>1 DEF CreateExecution, Bumped, NeverCreated, TypeOK, agentVars, ghostVars
  <2>2. Visible(e)' = "new" /\ Visible(e) = "none"
    BY <1>0, <1>1, <2>1, VisibleState DEF Visible, CreateExecution
  <2> QED BY <2>1, <2>2, MoveStep DEF Lifecycle!Submit
<1>2. ASSUME NEW e \in Execs, DeleteExecution(e)
      PROVE  Lifecycle!Remove(e)
  BY <1>0, <1>2, RemoveMap DEF DeleteExecution, agentVars, ghostVars
<1>3. ASSUME NEW e \in Execs, TouchExecution(e)
      PROVE  UNCHANGED Lifecycle!vars
  <2>1. /\ store'[e].state = store[e].state /\ store[e].state # "absent"
        /\ \A f \in Execs : f # e => store'[f] = store[f]
        /\ UNCHANGED <<dispatched, unfailed, lost>>
    BY <1>0, <1>3, ObjectFields DEF TouchExecution, TypeOK, agentVars, ghostVars
  <2>2. \A f \in Execs : Visible(f)' = Visible(f)
    BY <2>1 DEF Visible
  <2> QED BY <2>1, <2>2, StutterStep
<1>4. CASE WatchSync \/ Resync \/ CleanupList \/ Crash \/ UNCHANGED vars
  BY <1>4, QuietStutter DEF WatchSync, Resync, CleanupList, Crash, vars, agentVars, ghostVars
<1>5. ASSUME NEW e \in Execs, Reconcile(e)
      PROVE  Lifecycle!Accept(e) \/ UNCHANGED Lifecycle!vars
  <2>1. UNCHANGED <<dispatched, unfailed, lost>>
    BY <1>5 DEF Reconcile, MarkPending, SkipReconcile, Fetch, agentVars, ghostVars
  <2>2. CASE store' = store
    BY <2>1, <2>2, QuietStutter
  <2>3. CASE store' # store
    <3>1. /\ MarkPending(e) /\ cache[e].state = "new"
          /\ store[e].rv = [cache[e] EXCEPT !.state = "Pending"].rv
          /\ store'[e] = Bumped([cache[e] EXCEPT !.state = "Pending"])
          /\ \A f \in Execs : f # e => store'[f] = store[f]
      BY <1>0, <1>5, <2>3 DEF Reconcile, MarkPending, SkipReconcile, Fetch, Current, TypeOK
    <3>2. store[e].state = "new"
      BY <1>0, <3>1 DEF CacheInv, TypeOK, Objects
    <3>3. store'[e].state = "Pending"
      BY <1>0, <3>1 DEF Bumped, TypeOK, Objects
    <3>4. Visible(e)' = "Pending" /\ Visible(e) = "new"
      BY <1>0, <3>2, <3>3, VisibleState DEF Visible
    <3> QED BY <2>1, <3>1, <3>4, MoveStep DEF Lifecycle!Accept
  <2> QED BY <2>2, <2>3
<1>6. key \in Execs /\ (pc # "idle" => store[key].rv >= 1)
  BY <1>0 DEF CopyInv, TypeOK, Objects
<1>7. ASSUME pc # "idle", obj.rv = store[key].rv, store[key].state = "Pending"
      PROVE  Visible(key) = "Pending" /\ Lifecycle!Excused(key)
  <2>1. dispatched[key] =< Committed(key) /\ Committed(key) \in Nat
    BY <1>0 DEF Committed, TypeOK
  <2>2. Committed(key) =< lost[key]
    BY <1>0, <1>7, <1>6 DEF DispatchInv
  <2>3. dispatched[key] =< lost[key]
    BY <1>0, <2>1, <2>2 DEF TypeOK
  <2> QED BY <1>0, <1>6, <1>7, <2>3, VisibleState DEF Lifecycle!Excused
<1>8. ASSUME pc \in {"dispatch", "waiting"}, obj.rv = store[key].rv
      PROVE  Lifecycle!Underway(key)
  <2>1. store[key].state \in {"Pending", "Running"}
    BY <1>0, <1>8 DEF CopyInv
  <2>2. CASE store[key].state = "Pending"
    BY <1>6, <1>7, <1>8, <2>2 DEF Lifecycle!Underway
  <2>3. CASE store[key].state = "Running"
    BY <1>0, <1>6, <1>8, <2>3, VisibleState DEF Lifecycle!Underway
  <2> QED BY <2>1, <2>2, <2>3
<1>9. ASSUME NEW lookup \in Lookups, Reject(lookup)
      PROVE  Lifecycle!DropWrite(key) \/ Lifecycle!Reject(key)
  <2>1. /\ pc = "fetched"
        /\ Lifecycle!DropWrite(key) \/ (Lifecycle!Move(key, "Rejected") /\ Landed("Rejected"))
    BY <1>9, SetStateMap DEF Reject, States, Terminal
  <2> QED BY <1>0, <1>6, <1>7, <2>1 DEF Landed, CopyInv, Lifecycle!Reject
<1>10. ASSUME NEW lookup \in Lookups, Run(lookup)
       PROVE  Lifecycle!DropWrite(key) \/ Lifecycle!Start(key)
  <2>1. /\ pc = "fetched"
        /\ Lifecycle!DropWrite(key) \/ (Lifecycle!Move(key, "Running") /\ Landed("Running"))
    BY <1>10, SetStateMap DEF Run, States, Terminal
  <2> QED BY <1>0, <1>6, <1>7, <2>1 DEF Landed, CopyInv, Lifecycle!Start
<1>11. ASSUME pc \in {"dispatch", "waiting"}, SetState("Failed", "idle")
       PROVE  Lifecycle!DropWrite(key) \/ Lifecycle!Fail(key)
  <2>1. Lifecycle!DropWrite(key) \/ (Lifecycle!Move(key, "Failed") /\ Landed("Failed"))
    BY <1>11, SetStateMap DEF States, Terminal
  <2> QED BY <1>8, <1>11, <2>1 DEF Landed, Lifecycle!Fail
<1>12. ASSUME pc = "waiting", reply \notin Failures \cup {"none"}, SetState("Succeeded", "idle")
       PROVE  Lifecycle!DropWrite(key) \/ Lifecycle!Succeed(key)
  <2>1. Lifecycle!DropWrite(key) \/ (Lifecycle!Move(key, "Succeeded") /\ Landed("Succeeded"))
    BY <1>12, SetStateMap DEF States, Terminal
  <2>2. unfailed[key]
    BY <1>0, <1>12 DEF CopyInv
  <2> QED BY <1>8, <1>12, <2>1, <2>2 DEF Landed, Lifecycle!Succeed
<1>13. CASE Complete
  BY <1>6, <1>11, <1>12, <1>13 DEF Complete, Lifecycle!Next
<1>14. CASE DispatchToAgent
  <2>1. Lifecycle!Excused(key)
    BY <1>0, <1>6, <1>14 DEF DispatchToAgent, DispatchInv, Committed, TypeOK, Lifecycle!Excused
  <2>2. Visible(key) # "none"
    BY <1>0, <1>6, <1>14, VisibleState DEF DispatchToAgent
  <2>3. \A f \in Execs : Visible(f)' = Visible(f)
    BY <1>14 DEF DispatchToAgent, Visible
  <2>4. Lifecycle!Ask(key)
    BY <1>6, <1>14, <2>1, <2>2, <2>3 DEF DispatchToAgent, Lifecycle!Ask, ghostVars
  <2> QED BY <1>0, <2>4 DEF TypeOK, Lifecycle!Next
<1>15. CASE AgentFinish
  <2>1. \A f \in Execs : Visible(f)' = Visible(f)
    BY <1>15 DEF AgentFinish, Visible
  <2>2. UNCHANGED <<dispatched, lost>> /\ key \in Execs /\ dispatched[key] > 0
    BY <1>0, <1>15 DEF AgentFinish, ghostVars, WaitInv, TypeOK
  <2>3. CASE reply' \notin Failures
    <3>1. unfailed' = [unfailed EXCEPT ![key] = TRUE]
      BY <1>15, <2>3, Zenon DEF AgentFinish
    <3>2. Lifecycle!Clear(key)
      BY <2>1, <2>2, <3>1 DEF Lifecycle!Clear
    <3> QED BY <2>2, <3>2 DEF Lifecycle!Next
  <2>4. CASE reply' \in Failures
    <3>1. unfailed' = unfailed
      <4>1. unfailed' = [unfailed EXCEPT ![key] = unfailed[key] \/ reply' \notin Failures]
        BY <1>15, Zenon DEF AgentFinish
      <4>2. (unfailed[key] \/ reply' \notin Failures) = unfailed[key]
        BY <1>0, <2>2, <2>4 DEF TypeOK
      <4>3. unfailed' = [unfailed EXCEPT ![key] = unfailed[key]]
        BY <4>1, <4>2, Zenon
      <4> QED BY <1>0, <4>3 DEF TypeOK
    <3> QED BY <2>1, <2>2, <3>1, StutterStep
  <2> QED BY <1>15, <2>3, <2>4 DEF AgentFinish
<1>16. ASSUME NEW e \in Execs, CleanupDelete(e)
       PROVE  Lifecycle!Remove(e) \/ UNCHANGED Lifecycle!vars
  <2>1. UNCHANGED <<dispatched, unfailed, lost>>
    BY <1>16 DEF CleanupDelete, agentVars, ghostVars
  <2>2. CASE store' = store
    BY <2>1, <2>2, QuietStutter
  <2>3. CASE store' = Remove(e) /\ store[e].state # "absent"
    BY <1>0, <2>1, <2>3, RemoveMap
  <2> QED BY <1>16, <2>2, <2>3 DEF CleanupDelete
<1>17. CASE Tick
  <2>1. \A f \in Execs : Visible(f)' = Visible(f)
    BY <1>0, <1>17, OlderFacts DEF Tick, Visible, TypeOK
  <2> QED BY <1>17, <2>1, StutterStep DEF Tick, agentVars, ghostVars
<1>18. CASE DispatchFails \/ Timeout
  BY <1>6, <1>11, <1>18 DEF DispatchFails, Timeout, Lifecycle!Next
<1> QED
  BY <1>1, <1>2, <1>3, <1>4, <1>5, <1>6, <1>9, <1>10, <1>13, <1>14, <1>15, <1>16,
     <1>17, <1>18
  DEF Next, Client, Worker, Cleanup, Reject, Run, Lifecycle!Next

LEMMA LifecycleInit == Init => Lifecycle!Init
<1> SUFFICES ASSUME Init
             PROVE  Lifecycle!Init
  OBVIOUS
<1>1. \A e \in Execs : store[e].state = "absent" /\ store[e].rv = 0
  BY DEF Init, NeverCreated
<1>2. \A e \in Execs : Visible(e) = "none"
  BY <1>1 DEF Visible
<1> QED BY <1>2 DEF Init, Lifecycle!Init

\* Whatever the cache shows and whichever writes fail, the controller only
\* ever does to an execution what its owner is promised in ActionLifecycle.
THEOREM LifecycleImplemented == Spec => ImplementsLifecycle
BY LifecycleInit, LifecycleStep, WaitHolds, PTL
DEF Spec, ImplementsLifecycle, Lifecycle!Spec
============================================================================
