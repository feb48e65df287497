-------------------------- MODULE ActionExecution --------------------------
(***************************************************************************)
(* The ActionExecution controller and its TTL cleanup task.                *)
(*                                                                         *)
(* The API server (store) keeps one object per execution, guarded by a     *)
(* resourceVersion.  The operator reads only its informer cache, a past    *)
(* snapshot of the store, and writes with optimistic concurrency; setState *)
(* throws the result of its write away.  One reconcile worker (the         *)
(* controller-runtime default) takes keys from a work queue, admits or     *)
(* rejects a Pending execution, marks it Running, calls the game server's  *)
(* agent and records the outcome.  The cleanup task runs beside it.        *)
(***************************************************************************)
EXTENDS Naturals, FiniteSets

CONSTANTS
    Execs,        \* keys [ns, name] under which executions may be created
    Specs,        \* specs a client may submit: [targetNs, target, action, params]
    Declared,     \* names of the actions the GameProfile declares
    Concurrency,  \* action name -> "allow" | "serialize" | "exclusive"
    Required,     \* action name -> its required parameters
    SuccessTTL,   \* age after which a Succeeded execution is deleted
    FailedTTL,    \* age after which any other terminal execution is deleted
    MaxEdits,     \* bound: foreign writes to an execution (kubectl annotate)
    MaxFaults,    \* bound: API requests that fail although they are valid
    MaxCrashes,   \* bound: operator restarts
    MaxResyncs    \* bound: periodic informer resyncs

ASSUME TTLAssumption ==
    /\ SuccessTTL \in Nat
    /\ FailedTTL \in Nat
    /\ SuccessTTL =< FailedTTL

ASSUME ExecsAssumption == Execs # {}

ASSUME BoundAssumption ==
    /\ MaxEdits \in Nat
    /\ MaxFaults \in Nat
    /\ MaxCrashes \in Nat
    /\ MaxResyncs \in Nat

Terminal == {"Succeeded", "Failed", "TimedOut", "Rejected"}

\* "new" is the empty state of an object no reconcile has seen yet; "absent"
\* says that the API server has no object under the key.
States == {"absent", "new", "Pending", "Running"} \cup Terminal

\* The ActionStates an agent may answer with; the controller singles out two.
ActionStates == {"SUCCEEDED", "FAILED", "REJECTED", "TIMED_OUT",
                 "UNSPECIFIED", "PENDING", "RUNNING"}
Failures == {"FAILED", "REJECTED"}

\* Ages saturate one tick after the longest TTL.
MaxAge == FailedTTL + 1

Objects == [state : States, rv : Nat, startedAt : {"nil", "set"}, age : 0..MaxAge]

\* What key holds while the worker is idle.
AnyKey == CHOOSE e \in Execs : TRUE

Bumped(o) == [o EXCEPT !.rv = @ + 1]

NeverCreated == [state |-> "absent", rv |-> 0, startedAt |-> "nil", age |-> 0]

VARIABLES
    spec,         \* what the client submits under each key; never edited
    store,        \* the API server's objects
    cache,        \* the operator's informer cache: an earlier store
    queue,        \* keys waiting for the worker
    pc,           \* the worker: "idle", "fetched", "dispatch" or "waiting"
    key,          \* the key being reconciled
    obj,          \* the worker's in-memory copy of that object
    reply,        \* the agent's answer to the call the worker waits on
    doomed,       \* executions the running cleanup pass still has to delete
    dispatched,   \* calls the agent has received for an execution
    unfailed,     \* the agent answered a run of it with no failure
    lost,         \* status writes of setState that did not reach the store
    observed,     \* increments of minato_action_executions_total
    used          \* how much of each bound is used up

vars == <<spec, store, cache, queue, pc, key, obj, reply, doomed,
          dispatched, unfailed, lost, observed, used>>

workerVars == <<pc, key, obj, reply>>
agentVars  == <<dispatched, unfailed>>
ghostVars  == <<lost, observed>>

Usage == [edits : 0..MaxEdits, faults : 0..MaxFaults,
          crashes : 0..MaxCrashes, resyncs : 0..MaxResyncs]

Init ==
    /\ spec \in [Execs -> Specs]
    /\ store = [e \in Execs |-> NeverCreated]
    /\ cache = store
    /\ queue = {}
    /\ pc = "idle"
    /\ key = AnyKey
    /\ obj = NeverCreated
    /\ reply = "none"
    /\ doomed = {}
    /\ dispatched = [e \in Execs |-> 0]
    /\ unfailed = [e \in Execs |-> FALSE]
    /\ lost = [e \in Execs |-> 0]
    /\ observed = [e \in Execs |-> 0]
    /\ used = [edits |-> 0, faults |-> 0, crashes |-> 0, resyncs |-> 0]

-----------------------------------------------------------------------------
(* Clients of the API server *)

\* The control plane (or kubectl) creates an execution.  The generated names
\* hold the creation time, so a key is used once.
CreateExecution(e) ==
    /\ store[e].rv = 0
    /\ store' = [store EXCEPT ![e] = Bumped([NeverCreated EXCEPT !.state = "new"])]
    /\ UNCHANGED <<spec, cache, queue, workerVars, doomed, agentVars,
                   ghostVars, used>>

Remove(e) == [store EXCEPT ![e] = [NeverCreated EXCEPT !.rv = store[e].rv + 1]]

\* A client deletes an execution; no finalizer holds it back.
DeleteExecution(e) ==
    /\ store[e].state # "absent"
    /\ store' = Remove(e)
    /\ UNCHANGED <<spec, cache, queue, workerVars, doomed, agentVars,
                   ghostVars, used>>

\* A client edits metadata: the status stays, the resourceVersion moves on.
TouchExecution(e) ==
    /\ used.edits < MaxEdits
    /\ store[e].state # "absent"
    /\ store' = [store EXCEPT ![e] = Bumped(store[e])]
    /\ used' = [used EXCEPT !.edits = @ + 1]
    /\ UNCHANGED <<spec, cache, queue, workerVars, doomed, agentVars,
                   ghostVars>>

-----------------------------------------------------------------------------
(* The informer *)

\* The watch catches up.  Its stream is ordered, so the cache always equals
\* the store at one past moment; every key that changed is enqueued.
WatchSync ==
    /\ cache # store
    /\ cache' = store
    /\ queue' = queue \cup {e \in Execs : cache[e] # store[e]}
    /\ UNCHANGED <<spec, store, workerVars, doomed, agentVars,
                   ghostVars, used>>

\* The periodic resync enqueues every cached object again.
Resync ==
    /\ used.resyncs < MaxResyncs
    /\ queue' = queue \cup {e \in Execs : cache[e].state # "absent"}
    /\ used' = [used EXCEPT !.resyncs = @ + 1]
    /\ UNCHANGED <<spec, store, cache, workerVars, doomed, agentVars,
                   ghostVars>>

-----------------------------------------------------------------------------
(* The reconcile worker *)

\* The API server accepts an update only for the version it holds.  Deletion
\* moves the version on, so an update of a deleted object fails too.
Current(e, o) == store[e].rv = o.rv

\* A fresh object only becomes Pending in its first reconcile; a failed write
\* is returned as an error and the key is queued again.
MarkPending(e) ==
    LET o == [cache[e] EXCEPT !.state = "Pending"] IN
    /\ cache[e].state = "new"
    /\ \/ /\ Current(e, o)
          /\ store' = [store EXCEPT ![e] = Bumped(o)]
          /\ queue' = queue \ {e}
          /\ UNCHANGED used
       \/ /\ ~Current(e, o)
          /\ UNCHANGED <<store, queue, used>>
       \/ /\ used.faults < MaxFaults
          /\ used' = [used EXCEPT !.faults = @ + 1]
          /\ UNCHANGED <<store, queue>>
    /\ UNCHANGED <<spec, cache, workerVars, doomed, agentVars, ghostVars>>

\* Everything but a Pending object is left alone.
SkipReconcile(e) ==
    /\ cache[e].state \notin {"new", "Pending"}
    /\ queue' = queue \ {e}
    /\ UNCHANGED <<spec, store, cache, workerVars, doomed, agentVars,
                   ghostVars, used>>

\* Mistake: an execution found Running is taken up again.
Fetch_AlsoRunning(e) ==
    /\ cache[e].state \in {"Pending", "Running"}
    /\ queue' = queue \ {e}
    /\ pc' = "fetched"
    /\ key' = e
    /\ obj' = cache[e]
    /\ reply' = "none"
    /\ UNCHANGED <<spec, store, cache, doomed, agentVars, ghostVars, used>>

\* A Pending object is copied out of the cache; the copy is what the rest of
\* this reconcile works on.
Fetch(e) ==
    /\ cache[e].state = "Pending"
    /\ queue' = queue \ {e}
    /\ pc' = "fetched"
    /\ key' = e
    /\ obj' = cache[e]
    /\ reply' = "none"
    /\ UNCHANGED <<spec, store, cache, doomed, agentVars, ghostVars, used>>

Reconcile(e) ==
    /\ pc = "idle"
    /\ e \in queue
    /\ MarkPending(e) \/ SkipReconcile(e) \/ Fetch(e)

\* The worker goes on with its copy o of the object, or drops it and is idle.
Proceed(o, next) ==
    /\ pc' = next
    /\ key' = IF next = "idle" THEN AnyKey ELSE key
    /\ obj' = IF next = "idle" THEN NeverCreated ELSE o
    /\ reply' = "none"

\* The status update at the end of setState.  The in-memory copy has the new
\* status whatever happens; only an acknowledged write gives it the new
\* resourceVersion.  A failing request may have been carried out.
StatusUpdate(o, next) ==
    \/ /\ Current(key, o)
       /\ store' = [store EXCEPT ![key] = Bumped(o)]
       /\ Proceed(Bumped(o), next)
       /\ UNCHANGED <<lost, used>>
    \/ /\ Current(key, o)
       /\ used.faults < MaxFaults
       /\ used' = [used EXCEPT !.faults = @ + 1]
       /\ store' = [store EXCEPT ![key] = Bumped(o)]
       /\ Proceed(o, next)
       /\ UNCHANGED lost
    \/ /\ ~Current(key, o)
       /\ Proceed(o, next)
       /\ lost' = [lost EXCEPT ![key] = @ + 1]
       /\ UNCHANGED <<store, used>>
    \/ /\ used.faults < MaxFaults
       /\ used' = [used EXCEPT !.faults = @ + 1]
       /\ Proceed(o, next)
       /\ lost' = [lost EXCEPT ![key] = @ + 1]
       /\ UNCHANGED store

\* StartedAt is set by Running, EndedAt (age 0) by a terminal state.
Stamped(o, s) ==
    [state |-> s,
     rv |-> o.rv,
     startedAt |-> IF s = "Running" THEN "set" ELSE o.startedAt,
     age |-> 0]

\* Mistake: every state change is counted.
SetState_CountsAll(s, next) ==
    /\ StatusUpdate(Stamped(obj, s), next)
    /\ observed' = [observed EXCEPT ![key] = @ + 1]
    /\ UNCHANGED <<spec, cache, queue, doomed, agentVars>>

\* A terminal state counts in the metric before the write is tried.
SetState(s, next) ==
    /\ StatusUpdate(Stamped(obj, s), next)
    /\ observed' = IF s \in Terminal
                   THEN [observed EXCEPT ![key] = @ + 1]
                   ELSE observed
    /\ UNCHANGED <<spec, cache, queue, doomed, agentVars>>

\* The GameServer an execution targets; an empty namespace is the execution's.
Target(e) ==
    [ns |-> IF spec[e].targetNs = "" THEN e.ns ELSE spec[e].targetNs,
     name |-> spec[e].target]

\* The executions the check considers: Running in the cache, listed in the
\* server's namespace, under another name, with the same target name.
RunningBeside(e) ==
    {f \in Execs : /\ f.ns = Target(e).ns
                   /\ f.name # e.name
                   /\ cache[f].state = "Running"
                   /\ spec[f].target = spec[e].target}

\* Mistake: exclusive is treated like serialize.
CheckConcurrency_SameAction(e) ==
    Concurrency[spec[e].action] # "allow" =>
        \A f \in RunningBeside(e) : spec[f].action # spec[e].action

\* Only the declaration of the execution being admitted is consulted.
CheckConcurrency(e) ==
    CASE Concurrency[spec[e].action] = "exclusive" -> RunningBeside(e) = {}
      [] Concurrency[spec[e].action] = "serialize" ->
            \A f \in RunningBeside(e) : spec[f].action # spec[e].action
      [] OTHER -> TRUE

ValidateParams(e) == Required[spec[e].action] \subseteq spec[e].params

\* The outcomes of looking up the target and its profile in the operator's
\* other caches, which may show anything by now.
Lookups == {"noServer", "noProfile", "found"}

Admissible(e, lookup) ==
    /\ lookup = "found"
    /\ spec[e].action \in Declared
    /\ ValidateParams(e)
    /\ CheckConcurrency(e)

Reject(lookup) ==
    /\ pc = "fetched"
    /\ ~Admissible(key, lookup)
    /\ SetState("Rejected", "idle")

Run(lookup) ==
    /\ pc = "fetched"
    /\ Admissible(key, lookup)
    /\ SetState("Running", "dispatch")

\* The headless Service is missing or the agent cannot be reached.
DispatchFails ==
    /\ pc = "dispatch"
    /\ SetState("Failed", "idle")

\* The ExecuteAction call reaches the agent.
DispatchToAgent ==
    /\ pc = "dispatch"
    /\ pc' = "waiting"
    /\ dispatched' = [dispatched EXCEPT ![key] = @ + 1]
    /\ UNCHANGED <<spec, store, cache, queue, key, obj, reply, doomed,
                   unfailed, ghostVars, used>>

\* Mistake: any answer without a transport error is recorded as Succeeded.
Complete_IgnoresResult ==
    /\ pc = "waiting"
    /\ reply # "none"
    /\ SetState("Succeeded", "idle")

\* The agent answered: FAILED and REJECTED both become Failed, every other
\* ActionState (TIMED_OUT and UNSPECIFIED too) is recorded as Succeeded.
Complete ==
    /\ pc = "waiting"
    /\ reply # "none"
    /\ SetState(IF reply \in Failures THEN "Failed" ELSE "Succeeded", "idle")

\* Mistake: a failed call returns without recording the failure.
Timeout_Unrecorded ==
    /\ pc = "waiting"
    /\ Proceed(obj, "idle")
    /\ UNCHANGED <<spec, store, cache, queue, doomed, agentVars, ghostVars, used>>

\* Mistake: the call has no deadline.
Timeout_NoDeadline ==
    /\ pc = "waiting"
    /\ reply \in Failures
    /\ SetState("Failed", "idle")

\* The call's deadline passes or its connection breaks before the answer
\* arrives; the agent may still be at work.
Timeout ==
    /\ pc = "waiting"
    /\ SetState("Failed", "idle")

-----------------------------------------------------------------------------
(* The agent *)

\* The agent answers the call the worker waits on, with any ActionState.  The
\* answer to an abandoned call reaches nobody.
AgentFinish ==
    /\ pc = "waiting"
    /\ reply = "none"
    /\ reply' \in ActionStates
    /\ unfailed' = [unfailed EXCEPT ![key] = @ \/ reply' \notin Failures]
    /\ UNCHANGED <<spec, store, cache, queue, pc, key, obj, doomed,
                   dispatched, ghostVars, used>>

-----------------------------------------------------------------------------
(* The cleanup task and time *)

TTL(s) == IF s = "Succeeded" THEN SuccessTTL ELSE FailedTTL

Expired(o) == o.state \in Terminal /\ o.age > TTL(o.state)

\* Mistake: the short TTL is used for every ended execution.
CleanupList_ShortTTL ==
    /\ doomed = {}
    /\ doomed' = {e \in Execs : cache[e].state \in Terminal /\ cache[e].age > SuccessTTL}
    /\ doomed' # {}
    /\ UNCHANGED <<spec, store, cache, queue, workerVars, agentVars, ghostVars, used>>

\* Mistake: only successful executions are collected.
CleanupList_SucceededOnly ==
    /\ doomed = {}
    /\ doomed' = {e \in Execs : Expired(cache[e]) /\ cache[e].state = "Succeeded"}
    /\ doomed' # {}
    /\ UNCHANGED <<spec, store, cache, queue, workerVars, agentVars, ghostVars, used>>

\* The hourly pass lists the cache once ...
CleanupList ==
    /\ doomed = {}
    /\ doomed' = {e \in Execs : Expired(cache[e])}
    /\ doomed' # {}
    /\ UNCHANGED <<spec, store, cache, queue, workerVars, agentVars,
                   ghostVars, used>>

\* ... and deletes by name what it found; a failing request is only logged.
CleanupDelete(e) ==
    /\ e \in doomed
    /\ doomed' = doomed \ {e}
    /\ \/ /\ store' = IF store[e].state = "absent" THEN store ELSE Remove(e)
          /\ UNCHANGED used
       \/ /\ used.faults < MaxFaults
          /\ used' = [used EXCEPT !.faults = @ + 1]
          /\ UNCHANGED store
    /\ UNCHANGED <<spec, cache, queue, workerVars, agentVars, ghostVars>>

\* Time passes for every object that has ended (EndedAt is set).
Older(o) == IF o.state \in Terminal /\ o.age < MaxAge
            THEN [o EXCEPT !.age = @ + 1]
            ELSE o

Tick ==
    /\ store' = [e \in Execs |-> Older(store[e])]
    /\ cache' = [e \in Execs |-> Older(cache[e])]
    /\ <<store', cache'>> # <<store, cache>>
    /\ UNCHANGED <<spec, queue, workerVars, doomed, agentVars,
                   ghostVars, used>>

-----------------------------------------------------------------------------
(* Restart *)

\* The operator stops (its context cancels the call and every later write) and
\* a new leader lists everything afresh.  The agents go on.
Crash ==
    /\ used.crashes < MaxCrashes
    /\ used' = [used EXCEPT !.crashes = @ + 1]
    /\ cache' = store
    /\ queue' = {e \in Execs : store[e].state # "absent"}
    /\ Proceed(NeverCreated, "idle")
    /\ doomed' = {}
    /\ UNCHANGED <<spec, store, agentVars, ghostVars>>

Client == \E e \in Execs : \/ CreateExecution(e)
                           \/ DeleteExecution(e)
                           \/ TouchExecution(e)

Worker == \/ \E e \in Execs : Reconcile(e)
          \/ \E lookup \in Lookups : Reject(lookup) \/ Run(lookup)
          \/ DispatchFails \/ DispatchToAgent \/ Complete \/ Timeout

Cleanup == CleanupList \/ \E e \in Execs : CleanupDelete(e)

Next == \/ Client \/ WatchSync \/ Resync \/ Worker \/ AgentFinish
        \/ Cleanup \/ Tick \/ Crash

Spec == Init /\ [][Next]_vars

\* The watch delivers, the worker keeps working, the cleanup ticker fires and
\* time passes.  Nothing is assumed of clients or of the agent: every call has
\* a deadline.
Fairness ==
    /\ WF_vars(WatchSync)
    /\ \A e \in Execs : WF_vars(Reconcile(e))
    /\ WF_vars(\E lookup \in Lookups : Reject(lookup) \/ Run(lookup))
    /\ WF_vars(DispatchFails \/ DispatchToAgent)
    /\ WF_vars(Complete \/ Timeout)
    /\ WF_vars(CleanupList)
    /\ \A e \in Execs : WF_vars(CleanupDelete(e))
    /\ WF_vars(Tick)

FairSpec == Spec /\ Fairness

-----------------------------------------------------------------------------
(* Properties *)

\* Every variable has its type.
TypeOK ==
    /\ spec \in [Execs -> Specs]
    /\ store \in [Execs -> Objects]
    /\ cache \in [Execs -> Objects]
    /\ queue \subseteq Execs
    /\ pc \in {"idle", "fetched", "dispatch", "waiting"}
    /\ key \in Execs
    /\ obj \in Objects
    /\ reply \in {"none"} \cup ActionStates
    /\ doomed \subseteq Execs
    /\ dispatched \in [Execs -> Nat]
    /\ unfailed \in [Execs -> BOOLEAN]
    /\ lost \in [Execs -> Nat]
    /\ observed \in [Execs -> Nat]
    /\ used \in Usage

\* An execution that ended keeps its state until it is deleted: no reconcile
\* that started from a stale cache overwrites an outcome.
OutcomeIsFinal ==
    [][\A e \in Execs : store[e].state \in Terminal =>
            store'[e].state \in {store[e].state, "absent"}]_vars

\* The agent is asked to run an execution more than once only when a status
\* write of setState was dropped before.
DispatchedOnce ==
    \A e \in Execs : dispatched[e] =< 1 + lost[e]

\* An execution reported as Rejected never reached the agent, unless an
\* earlier attempt ran it and its status writes were dropped.
RejectedDidNotRun ==
    \A e \in Execs : store[e].state = "Rejected" => dispatched[e] =< lost[e]

\* Succeeded is recorded only after the agent has answered a run of the
\* execution with an ActionState other than FAILED and REJECTED, never for a
\* call that only broke off or timed out at the operator; and every ended
\* execution that was not rejected has a start time.  That the run succeeded is
\* not implied: dispatchToAgent takes TIMED_OUT for Succeeded as well.
SucceededDidRun ==
    \A e \in Execs :
        /\ store[e].state = "Succeeded" => unfailed[e]
        /\ store[e].state \in {"Running", "Succeeded", "Failed"} => store[e].startedAt = "set"
        /\ store[e].state = "Rejected" => store[e].startedAt = "nil"

\* The terminal-state counter covers every ended execution, and counts one
\* twice only when one of its status writes was dropped.
CountedOnce ==
    \A e \in Execs :
        /\ store[e].state \in Terminal => observed[e] >= 1
        /\ observed[e] =< 1 + lost[e]

\* f would stand in the way of e: it is listed in the server's namespace with
\* the same target, and the concurrency mode of e's action excludes it.
Conflicting(e, f) ==
    /\ f.ns = Target(e).ns
    /\ f.name # e.name
    /\ spec[f].target = spec[e].target
    /\ \/ Concurrency[spec[e].action] = "exclusive"
       \/ /\ Concurrency[spec[e].action] = "serialize"
          /\ spec[f].action = spec[e].action

\* Whatever the age of the cache the admission check read, an exclusive
\* action (a serialized one) that is about to be dispatched stands beside no
\* Running execution (of the same action) of the server's namespace, except
\* one whose final status write was dropped.
AdmittedAlone ==
    pc = "dispatch" =>
        \A f \in Execs :
            Conflicting(key, f) /\ store[f].state = "Running" => lost[f] > 0

\* An execution is left Running with no worker behind it only by a restart of
\* the operator or by a dropped status write.
OrphanHasCause ==
    \A e \in Execs :
        (store[e].state = "Running" /\ ~(pc \in {"dispatch", "waiting"} /\ key = e))
            => used.crashes > 0 \/ lost[e] > 0

\* What the cleanup pass still means to delete is, in the store and not only
\* in the listing it read, ended and past its TTL, or already gone.
CleanupOnlyExpired ==
    \A e \in doomed : store[e].state = "absent" \/ Expired(store[e])

\* Every execution ends or is deleted, even if the agent never answers, unless
\* a status write of it was dropped or the operator was restarted: only those
\* two leave an execution that no reconcile takes up.
Settled(e) == store[e].state \in Terminal \cup {"absent"}
EventuallySettled ==
    \A e \in Execs :
        (store[e].state = "new") ~> (Settled(e) \/ lost[e] > 0 \/ used.crashes > 0)

\* Every execution that ended is deleted in the end.
EventuallyCollected ==
    \A e \in Execs : (store[e].state \in Terminal) ~> (store[e].state = "absent")

\* What a client reads of an execution: the key of a deleted one stays used.
Visible(e) == IF store[e].state # "absent" THEN store[e].state
              ELSE IF store[e].rv = 0 THEN "none" ELSE "gone"

Lifecycle == INSTANCE ActionLifecycle
                WITH state <- [e \in Execs |-> Visible(e)],
                     asked <- dispatched, cleared <- unfailed, dropped <- lost

\* The controller, with its stale cache, refused and failing writes, restarts
\* and cleanup passes, implements the life of an execution that its owner is
\* promised: every step is a step of ActionLifecycle or changes nothing there.
ImplementsLifecycle == Lifecycle!Spec
============================================================================
