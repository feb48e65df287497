# Minato: TLA+ models, checks and proofs

Minato runs game servers on Kubernetes. An operator reconciles custom resources
(GameServer, GameServerFleet, GameSnapshot, ActionExecution, GameProfile); a control
plane offers them over HTTP; an agent runs beside each game process; a registrar tells
a cloud service about the cluster. This directory models the parts that carry state
across steps, checks them with TLC and proves the most important safety properties
with TLAPS. `PROJECT.json` lists components, runs, mutants, the map from definitions to
source lines, findings, hazards and theorems.

## 1. Inventory

### The operator (`internal/controllers`, `cmd/operator`)

All reconcilers share one scheme. The API server holds the objects, each with a
resource version. The operator reads an informer cache, which is a *past* state of the
API server, and writes with optimistic concurrency, by server-side apply (which never
conflicts) or by name. Every event of a watched object puts a key into a work queue; one
worker per kind (the controller-runtime default) takes a key and runs `Reconcile`, a
sequence of reads and writes that everything else interleaves with. An error returned
from `Reconcile` requeues the key, `RequeueAfter` sets a timer, and anything else waits
for the next event.

| Component | State | Operations | What is hard | What makes it correct |
|---|---|---|---|---|
| ActionExecution reconciler | `status.state`, `startedAt`, the metric | admit or reject, mark Running, call the agent, record the outcome | stale cache; `setState` drops write errors; deadline against a late answer; restart while Running | an outcome is final; the agent is called once; the concurrency modes hold; every execution ends |
| ActionExecution cleanup task | none of its own | list, delete what is older than its TTL | runs beside the reconciler on the same cache | deletes only what has ended and expired |
| GameServer reconciler | the object, a StatefulSet, five other children, `status.state`, `lastActivity` | finalizer, apply, stop, start, status, agent health, idle timeout, cleanup | two caches that lag independently; six deletions one by one; an idle shutdown that the next reconcile undoes | nothing is left behind; a stop keeps the data; stop, start and deletion reach their goal |
| GameServerFleet reconciler | the fleet, its servers, counts | scale up by index, scale down by players and age with a drain of up to 30 s, rolling update, status, cleanup | one cached list for a long reconcile; victims chosen anew while earlier ones terminate | never more than asked; OnDelete servers are left alone; the size is reached |
| GameSnapshot reconciler | `status.snapshots`, `lastSnapshotAt`, a condition, VolumeSnapshots | one-shot and cron, agent save, create, monitor, retention | errors that end without a requeue; status written before and after an irreversible creation | a one-shot is recorded once; ready means ready; retention deletes only with a reason |
| ServiceMonitors, Prometheus detection | one process-wide cached answer and its age | detect, create or delete a ServiceMonitor | a failed check is cached as absence, for all servers; as shipped it fails every time | a profile that asks for ServiceMonitors gets them |
| Builders, webhooks, metrics, resource types | none | build objects, validate fields, count | little: straight-line data | unit tests |

### The control plane (`cmd/controlplane`, `internal/controlplane`)

Handlers read and write the API server directly, without a cache, one goroutine per
request. They are the *clients* of the operator's resources: their writes are the
client actions of the operator's modules.

| Component | State | Operations | What is hard | What makes it correct |
|---|---|---|---|---|
| API | none of its own; the API server's objects | 22 routes: create, patch, delete, read, list, execute, snapshot, keys | a patch is a read and a later write of the whole object; names by the second | concurrent patches do not undo each other |
| Authentication | API keys in Secrets: value, role, namespace patterns, expiry | the chain of providers; create, look up, delete a key | a list of namespaces becomes one text in a Secret and is parsed again; expiry, deletion, edits and reuse of a name while requests come in | a key is accepted exactly while it is alive, for the namespaces that its Secret stands for |
| Authorisation | none | route table, first match decides; namespace guard | keys that create keys; routes whose namespace only the handler can filter | nobody gets beyond what his credential stands for |
| Tenant namespaces | a namespace, its quota and its network policy | `EnsureNamespace`, then the creation | three creations by concurrent requests, any of which may fail | whoever found no namespace uses a hardened one |
| Console proxy | per session a WebSocket, a gRPC stream, an error channel | upgrade, dial, two pumps, report, close | either side, the agent or a pump ends first; frames that cannot be decoded; two writers on one WebSocket | commands keep their order; output is not cut off from the agent's side; everything winds up |
| Audit log | none | one line per request | nothing | unit tests |

### The rest

| Component | State | Operations | What is hard | What makes it correct |
|---|---|---|---|---|
| Agent SDK server (`sdk/agent/server`) | calls in progress | serve, graceful stop until the caller's context ends, recovery of panics | streams that never end; panics in streams are not recovered | a shutdown with a deadline ends, and the consoles with it |
| Registrar (`cmd/registrar`) | backoff, fingerprint | register, heartbeat, re-register, stop | a cloud that forgets; requests that are carried out without an answer or late | the cluster stays known; no registration without a cause; a stop ends it |
| Action steps, RCON clients, `minato-ctl`, client libraries, generated code | none across calls | | | unit tests |

### Interactions

* A client creates an ActionExecution; the operator calls the agent of the target server.
* A fleet owns GameServers; each GameServer owns its children; owners' deletion is
  completed by finalizers and the garbage collector.
* The GameServer controller polls the agent and records players; the fleet reads
  those player counts when it chooses victims.
* The snapshot controller asks the agent to save before it creates a VolumeSnapshot.
* The control plane creates a tenant's namespace before the first server in it.
* A console session of the control plane is a stream in the agent's server, beside the
  operator's unary calls, and ends with it.
* Every reconcile of a server passes the ServiceMonitor step, whose cached answer is
  shared by all servers.

## 2. Modules

| Module | Models | Lines it follows |
|---|---|---|
| `ActionExecution` | reconciler and cleanup task for any set of executions | `actionexecution_controller.go`, `actionexecution_cleanup.go` |
| `MCActionExecution` | small instances of it | |
| `ActionExecutionProofs` | its safety theorems, and that it implements `ActionLifecycle` | |
| `GameServer` | reconciler for one server, its pod and its players | `gameserver_controller.go`, `sftp.go` |
| `GameServerProofs` | its safety theorems | |
| `Fleet` | reconciler for one fleet of up to `MaxReplicas` servers | `gameserverfleet_controller.go` |
| `FleetProofs` | its safety theorems | |
| `Snapshot` | reconciler for one GameSnapshot and its VolumeSnapshots | `gamesnapshot_controller.go` |
| `SnapshotProofs` | its safety theorems | |
| `TenantNamespace` | `EnsureNamespace` under concurrent requests | `tenant.go`, handlers in `cmd/controlplane/main.go` |
| `TenantNamespaceProofs` | its safety theorems | |
| `ActionLifecycle` | what the owner of an execution is promised | the states of `actionexecution_types.go` |
| `ControlPlane` | extends `TenantNamespace`: requests through authentication, guards and handlers; API keys | `cmd/controlplane/main.go`, `auth/`, `rbac/routeguard.go`, routes in `oapi/gen.go` |
| `MCControlPlane` | a small instance of it | |
| `ControlPlaneProofs` | its safety theorems | |
| `AgentServer` | calls, streams and the shutdown of the agent's server | `sdk/agent/server/server.go` |
| `Console` | extends `AgentServer`: console sessions | `cmd/controlplane/console.go` |
| `ConsoleProofs` | its safety theorems | |
| `ServiceMonitor` | the ServiceMonitor step of several servers | `servicemonitor.go`, `prometheus_detection.go` |
| `Registrar` | the registrar against a forgetful cloud | `cmd/registrar` |
| `RegistrarProofs` | its safety theorems | |

Two modules are compositions. In `ControlPlane` a creation request that has passed the
guards becomes a request of `TenantNamespace`, whose actions run unchanged beside those
of all other requests. In `Console` a session that has dialled is a stream of
`AgentServer`, which may be told to stop, or die, under it. `ActionExecution` instantiates
`ActionLifecycle` with a refinement mapping (`Lifecycle`): the stored state, the requests
the agent has received, whether it answered with anything but FAILED or REJECTED, and the
dropped writes.

MC modules exist where a constant is a function, a sequence or a record; the other
modules' constants are given in the `.cfg`.

### How state and actions correspond to the code

*API server and cache.* Each module has the object in the API server and the cached
one. `ActionExecution` keeps resource versions; the other modules keep only whether a
cached or copied object is still the latest, which is all a conflict depends on. An
informer action (`WatchSync`, `ServerSync`, `FleetSync`, ...) brings the cache up to
date and queues the key. The caches of different kinds lag independently.

*Reconcile.* `pc` is the step, `copy` (or `obj`) the in-memory object. A step ends where
the code makes a request whose outcome others can influence or see. A status write is
accepted only while the copy is current; whether a refused write is returned, logged or
ignored is taken from the code at each place. Reads of the cache at the beginning of a
step and the decision they lead to are one action with the step.

*Failures.* A request that is valid may fail (`Fault`, bounded by `MaxFaults`). A
restart (`Crash`) loses the copy, the queue and the timers, and the new process lists
everything afresh. Agents and pods go on.

*Time.* Ages count ticks and saturate one tick past the largest threshold. In
`Snapshot` a cron schedule is a slot every `Period` ticks and the last tick before a slot
is the minute in which the controller takes the slot as reached. In `Fleet`, creation
timestamps have the resolution of a second: consecutive servers may share one.

*Ghosts.* `dispatched`, `unfailed`, `lost`, `outdated`, `observed`, `seen`, `unsaved`,
`highest`, `cause`, `issued`, `wanted`, `reach`, `touched` and `requests` record what
happened outside of the objects; no action reads them, except that `used` enforces the
bounds and the length of `issued` numbers key values, which are never used twice.

*Requests of the control plane.* `req[r].at` is where a request is; `Arrive` is the
middleware, whose only request to the API server is the lookup of a key. A namespace
pattern of a key is the set of namespaces it matches; paths are sequences of segments
without the common prefix. The route table is written out, and the first match decides.

*Keys in Secrets.* An entry of the list that a key is asked for with is what it matches as
it stands, the patterns `ParseNamespaces` finds in it, and whether it is empty. `toSecret`
joins the list to one text and `fromSecret` parses that text, so `" alpha"` restricts to
alpha, `"alpha,beta"` to two namespaces, and a list of blanks only to nothing at all: it
comes back as no restriction. An administrator may edit the text in the Secret, or its
expiry. The clock counts seconds, to which RFC 3339 cuts expiries: one that is asked for
with a fraction ends up to a second early.

*Sessions.* `main`, `up` and `down` are the three goroutines of a session, `errs` the
channel their errors go through. A closed connection is noticed by a goroutine at its
next operation. A frame is a command, a ping, something to be ignored, or malformed; the
last ends the session although the client is still there. Two writers at once make the
WebSocket library panic, outside of any recovery: `WritersCollide` ends the process.

*The cloud* keeps one entry. A request of the registrar may fail before or after the
cloud has carried it out, or be carried out later, after other requests and after a
restart with another fingerprint. As in the API contract, only a registration changes the
entry; the fingerprint of a heartbeat serves to find a cluster that no name matches. A
registrar without a fingerprint leaves the field out, and the entry may keep or lose the one
it has. Renames in the cloud are not modelled.

*Abstractions.* A GameProfile is missing, invalid or valid. Players are nobody or
somebody. `PrepareShutdown` before a stop or a deletion is advisory in the code (a failure
is logged and the stop goes on) and changes no modelled state. The contents of built
objects, events, log lines, and image pull secrets are left out. `Fleet` reduces the
servers' own controller to becoming ready, recording players and going away. Ties of age
in a rolling update are broken by name, where the code leaves them to an unstable sort.

## 3. Runs

### Passing runs

| Run | Question |
|---|---|
| `exec_admission` | Two executions of actions of any concurrency mode on one server with a failing request and a restart: does the concurrency check on a stale cache overlook a Running execution? No (`AdmittedAlone`), unless a final write was dropped. |
| `exec_faults` | One execution, two foreign edits, a failing request, a restart and a resync, and the cleanup task: a second agent call, a double count, a rejected execution that ran and an orphan all need a dropped write or a restart; a terminal state never changes; only expired executions are collected. Under fairness every execution that neither of the two hits ends, even if the agent never answers, and every ended one is collected. |
| `server_safety` | Idle timeout, a lifecycle patch, a failure and a restart: when the object is gone so are all six children; a stop keeps volume and services; an idle shutdown never overlooks a recorded observation of players. |
| `server_liveness` | A stop, a start (the first one, and one after a stop, when the cached StatefulSet may still ask for 0 replicas) and a deletion reach their goal in spite of one failure. |
| `fleet_rollout` | Lagging lists never make the fleet exceed the largest size asked for; the fleet shrinks and, without gaps in its indexes, grows to its size; deletion completes; the status counts what there is, what runs and what is up to date once things rest; a fleet smaller than `maxUnavailable` is updated. |
| `snapshot_volumes` | The ready condition speaks of the latest entry, a one-shot is recorded once, retention deletes only what is too old or has `Count` later entries (the latest one, then, only for its age), recorded entries do not get lost, one-shots are taken, and a schedule that has started goes on. |
| `controlplane_requests` | Three requests of any credential and operation with two keys, restricted, unrestricted or with a blank list, that may be made one with the other, and an edit of a Secret: nobody reads or changes anything outside of what his credential stands for (`WithinRights`), a key works exactly while it is alive (`AcceptedWhileAlive`), patches do not undo each other (`NoLostUpdate`), and a namespace is hardened before its finder uses it (`FinderHardens`). |
| `console_sessions` | Commands arrive in order, none skipped; a session winds up completely whoever ends it; an agent that is told to stop with a deadline stops, and its consoles with it; the agent's output is given up only after the client's side of the session has ended. |
| `registrar_cloud` | Once forgetting and failing end, the cloud knows the cluster, and by its present fingerprint unless a late registration of an earlier process came last; every further registration has a cause; a stop ends either loop. |

### Runs that show a disagreement

Each checks what the documentation or a comment says and ends in a counterexample.
The quotations are in `PROJECT.json`, "findings".

| Run | What the code does |
|---|---|
| `server_idle` | The reconcile that the idle shutdown itself triggers scales the server up again. |
| `snapshot_schedule` | The timer fires at the slot, from where the next one is a period away; a first scheduled snapshot is never taken. |
| `monitor_detection` | The check for the Prometheus Operator reads a kind that the operator's scheme does not hold, and no role grants. It fails every time, a failure counts as absence, and no ServiceMonitor is ever created. With `Readable = TRUE` the property holds. |

### What the conditions in the properties leave room for

A condition in a property is there because the code does not do without it:

* *A dropped write* (`lost`): `setState` ignores the error of its status write. After a
  conflict with any edit the execution stays Running, or is run again, and nothing
  requeues it.
* *The mode of the action being admitted* (`Conflicting`): the execution already
  Running is not asked for its own mode, so an ordinary action may join an exclusive one
  that a restart has left Running.
* *Succeeded* (`ImplementsLifecycle`): anything the agent answers but FAILED and REJECTED is
  recorded as Succeeded: TIMED_OUT, UNSPECIFIED, PENDING and RUNNING too.
* *Each name once* (`CleanupOnlyExpired`): the cleanup deletes by name without a
  precondition. That a name is used again between its list and its delete is not reached.
* *Takes hold, for good* (`StartTakesHold`): on the way the cached StatefulSet may still
  ask for 0 replicas, and 0 of 0 ready is reported as Running.
* *Allowed to delete* (`DeletionCompletes` of a server): a forbidden request never
  succeeds. The deletion of the SFTP Secret needs the chart's role
  (`chart/templates/rbac.yaml` 35); the one in `config/rbac/role.yaml` does not grant it.
* *Indexes without a gap* (`ScaleCompletes`): after the deletion of a lower index,
  scaling up collides with an existing name. Every reconcile then ends in that error before
  the status is written, which stays as it was (`pc # "create"` in `StatusSettles`).
* *Smaller than `maxUnavailable`* (`SmallUpdateCompletes`): servers that need the update
  use up the slots they would be updated in. With the default of 1 a fleet of one is not
  updated.
* *Recorded once* (`RecordedOnce`): a reconcile triggered by the first condition write
  may create a second VolumeSnapshot for a one-shot; only its record is refused.
* *No failed request* (`DueIsTaken`): the writes at the end of `monitorSnapshot` drop their
  errors; if one fails, a schedule stops until some other event. A one-shot survives one
  failure, but not a second one in the write that reports the first (`OneShotTaken`).
* *Ready at the first look* (`ReadyMeansReady` has no converse, and retention promises no
  upper bound): a VolumeSnapshot that is not ready at once is neither checked again,
  for a one-shot, nor followed by retention.
* *Whoever found no namespace* (`FinderHardens`): another request may use the namespace
  before its quota and policy exist. And a request that fails after the first of the
  three creations leaves a namespace that every later request, a retry too, takes for
  an existing one: it is never hardened.
* *After the client's side has ended* (`OutputReachesClient`): then the frame with the error
  can meet a frame of the pump that still writes, and the process panics. The client's side
  ends too when a command is sent to a stream that the agent has just ended: that the
  client is still there does not rule the collision out. Closing the agent connection
  before the error is written does not wait for the other pump. A session that ended in
  such a panic counts as wound up.
* *With a deadline* (`ShutdownEndsConsoles`): `Shutdown` waits as long as its caller's
  context lets it. `Options.ShutdownGrace` (`server.go` 36, 46-48), whose default of 5 s
  the SDK reference documents, is set and never used: an agent that passes
  `context.Background()` does not stop while a console is open.
* *The credential's reach* (`WithinRights`): of a key it is what the parsed list stands
  for. A key asked for with a list that is not empty but blank is a key for the whole
  cluster; `CreateAPIKey` does not refuse such a list.
* *Unless the lookup fails* (`AcceptedWhileAlive`): an API server that does not answer
  makes a valid key unauthorized, not the request a server error.
* *Unless outdated* (`StaysKnown`): a registration of an earlier process that arrives late
  replaces the fingerprint on record, and heartbeats do not repair it.
* *Told to stop* (`StopsWhenTold`): when the context and the timer are ready together Go
  picks either; the stop may come a round later.

Three observations that no run is about: the audit middleware runs outside of the
authentication middleware and looks for the user in the request it passed on, so the
access log names nobody; the permission tables of `rbac.go` have no caller, only
`routeguard.go` decides; and executions and snapshots are named by the second, so two
requests in one second collide and the later one fails.

### Bounds, and why they are enough

Every bound is a constant named `Max...` and is enforced by a guard.

* *Executions:* two keys are the least that can conflict; modes matter only pairwise.
  Two edits allow one to hit the Running write and one the final write.
* *Servers and fleets:* two patches are a stop and a start after it; safety needs only
  one. Two indexes give a gap, an excess and a choice of victim; one edit gives a scaling
  in each direction (`Sizes`), one trouble a failing request or a server that disappears.
  The OnDelete strategy is covered by the proof, which is for every size and strategy.
* *Snapshots:* two VolumeSnapshots with `Count = 1` are the least on which retention
  has a choice. `Period = 2` separates the minute before a slot from the rest,
  `Timeout = 2` lets a slot pass while a snapshot is in progress, and `Duration = 1` makes
  age a reason of retention too.
* *Control plane:* three requests are a key's creation, its use and a third party (a name
  that is given anew and then used needs one more and is left to the theorem); one edit of
  a Secret's namespaces narrows or widens a key in use. Two keys give a key made with a
  key, and two names a name given anew. `MCOps` has an operation of every kind; the routes
  left out differ from one of these in their path only, and `EveryRouteGuarded`, an
  assumption that TLC evaluates, compares the route table with the roles each of the 22
  operations is meant for.
* *Console:* three messages are one to be ignored, or a malformed one, between two
  commands; two in the feed keep the pump writing while the session ends. Sessions share
  only the agent's server and the process, whose end concerns each of them alike.
* *ServiceMonitors:* two servers share the answer, two installations are a removal and a
  return, one failure comes on top of the check that never succeeds, two ticks of cache
  separate a fresh answer, an old one and an expired one.
* *Registrar:* four faults let both loops fail before and after the cloud acted; it forgets
  twice so that once can fall between a heartbeat and the re-registration.
* One fault and one restart suffice where the code has no memory of earlier ones: a
  restarted operator knows only the API server, and each request is judged by itself.

`CHECK_DEADLOCK FALSE` is given where a behaviour ends: all executions, fleets,
requests and sessions are created at most once, and a stopped registrar stays stopped.

### Fairness, and what justifies it

Weak fairness of the informers (a watch is re-established until it delivers), of the
worker (a goroutine that takes every key), of timers and of time; in `GameServer` of the
kubelet and the StatefulSet controller, in `Fleet` of finished deletions and the garbage
collector. In `Console` goroutines run, a write completes because the peer reads or the
connection breaks (the code sets no write deadline: a peer that stays connected and never
reads is not covered), an agent's handler ends once its stream is cancelled, and the
deadline of the context given to `Shutdown` passes if it has one; in `Registrar` requests
end, as they have a timeout, and timers fire; in `ServiceMonitor` the worker works and
time passes.

Strong fairness is assumed in three places. In `GameServer`, an agent that is up answers
some poll out of infinitely many. In `Registrar`, a `select` whose context is done again
and again when it is reached takes that case in the end, as Go chooses at random. In
`ServiceMonitor`, every polled server gets its turn, as the work queue is first in, first
out. Nothing is assumed of clients, players, agents' results or faults; faults are
bounded.

## 4. Proofs

TLAPS proves the following for all values of the constants under the named assumptions
of the modules (natural bounds, `SuccessTTL <= FailedTTL`, at least one key,
`MaxReplicas > 0`, streams and calls apart, and in `ControlPlane` the shape of the
configured users, patterns and providers). TLC evaluates those assumptions in every run.
The type invariants of the modules with proofs are proved and not run again.

**`ActionExecutionProofs`.** `TypeCorrect`, `OutcomeIsFinalHolds`, `DispatchedOnceHolds`,
`RejectedDidNotRunHolds`, `SucceededDidRunHolds`, `CountedOnceHolds`,
`AdmittedAloneHolds`, `OrphanHasCauseHolds`, `CleanupOnlyExpiredHolds`. The properties
speak of the API server only and are not inductive: what a step may do depends on how
old the worker's copy and the cache are. The invariant therefore says that a cached
object is never newer than the stored one and equal to it if the versions agree
(`CacheInv`), that while the worker's write can still succeed the execution has not
ended (`CopyInv`), and that calls, counts and dropped writes balance (`DispatchInv`,
`CountInv`).

`LifecycleImplemented`, in the same module: for any number of executions the
controller refines `ActionLifecycle`. Every step, on whatever stale copy, maps to a step
of the promised life or to a stutter: a state is left only for one the owner was
promised, an execution that has been handed to the agent is started or rejected again
only if a dropped write excuses it, and Succeeded needs an answer other than FAILED and
REJECTED. The step
uses the inductive invariant for the copies that a write may
still go through with.

**`FleetProofs`.** `TypeCorrect`: index, generation and counts stay in range, which
rests on the cardinality of the index set and on a victim's rank being less than it.
`NeverMoreThanAskedHolds`: a reconcile creates by an old copy of the fleet and an old
list, so the invariant bounds `replicas` of every copy by the largest ever asked for
(`Bounded`) and the loop index by the copy's `replicas`. `OnDeleteLeavesAloneHolds`: the
decision to clean up is taken on the cache; `DInv` shows that a copy that says "deleting"
is never older than the deletion, and that a fleet does not come back.

**`TenantNamespaceProofs`.** `FinderHardensHolds` and `ExistingLeftAloneHolds`, for any
number of requests and failures. The invariant says how far a request that found no
namespace has got with the hardening.

**`GameServerProofs`.** `TypeCorrect`, `NothingLeftBehindHolds`, `ChildrenKeptHolds`,
`IdleRespectsActivityHolds`. None of the three properties is inductive: a reconcile
decides on a cached object and acts several requests later. The invariant (`Control`) says
what a copy still knows: one that counts as current is the stored object (`Fresh`); before
the server is created nobody knows of one (`Created`); a cached object or a copy that says
"deleting" is never older than the deletion (`Deletion`); while a reconcile may still
apply a child the stored object is held by its finalizer (`Held`); the children whose
cleanup has been passed stay away (`Cleaned`); and the activity time that the idle
decision is taken by is the recorded one (`Activity`).

**`SnapshotProofs`.** `TypeCorrect`, `ReadyMeansReadyHolds`, `RecordedOnceHolds`,
`RetentionHasReasonHolds`, `EntriesKeptHolds`. The invariant says of the stored, the
cached and the copied GameSnapshot alike (`Good`) that entries are in the order of their
ages, that what is called ready has a latest volume that is or was ready, and that
entries come together with `LastSnapshotAt`; and of the copy (`Copied`, `Stage`) that while
its version is the latest one it has at least the stored entries, and that between the
record and retention it has exactly these, even if its version is old by then. That
last part is why retention from an old copy is safe. What retention keeps is proved for
lists of any length by induction over the loop of `enforceRetention` (`YoungAfter`): the
order, the latest entry if any, and the number of later entries of each one dropped
(`LoopSound`, `LoopInOrder`, `KeptSound`).

**`ControlPlaneProofs`.** `APITypeCorrect`, for whatever chain of providers.
`NoLostUpdateHolds`: while a handler's write can still succeed, the fields it has read are
those of the object (`PatchInv`). `FinderHardensInAPI`: every step of the control plane is a
step of `TenantNamespace` or leaves its state alone, so that module's invariant carries
over to the composition. `WithinRightsHolds`: the invariant (`RightsInv`) follows the
user, the pattern and the reach of a request from `Arrive` through the guards into the
handler, and ties the patterns stored in Secrets to those of their creators (`KeysInv`),
through the joining and parsing of the list (`StoredScope`);
that the first match in the route table guards every operation is proved rule by rule
(`GuardedRoutes`, `GuardedNamespaces`). `AcceptedWhileAliveHolds`: a Secret and the key that
was issued for it agree on value, expiry and life, whatever else has borne its name.
The last two have hypotheses on the configuration, as they are about it: no provider
"none" in the chain (`Authenticating`), since it makes everybody an administrator, and
for the last one a provider for API keys (`TakesKeys`).

**`ConsoleProofs`.** `TypeCorrect`, `OutputReachesClientHolds`, `CommandsInOrderHolds`,
`PumpsNeverBlock`, for any number of sessions and messages. The invariant counts: while the
handler waits, `errCh` holds an error for each pump that has ended, and never more than
that (`Pumps`). That there is always room for a pump's error follows. For the output it
says that the pump that writes ends only when the stream is dead and empty, the client has
gone or the other pump has reported (`Output`). For the order of commands it says how far
the agent has got while the stream lives (`Progress`): up to what the pump has read, or one
less while it sends. Once the stream is dead it stays dead, so what is lost is the end.

**`RegistrarProofs`.** `TypeCorrect` and `RegistersHaveCauseHolds`. Causes and registrations
are counted, and the invariant adds that a registration that is owed, but not yet sent,
has a cause nobody has used yet.

The invariants were checked by TLC, on instances like those of the runs, before they were
proved. Induction over numbers is derived where it is needed (`Induction` in
`SnapshotProofs`, `Least` in `ControlPlaneProofs`) from the well-foundedness of the
naturals, with the property given as a set.

Left to TLC: liveness (outside of the prover's reach, as is `ENABLED`), which includes
the three disagreements. Every invariant and every action
property that a run checks is proved.

## 5. Not modelled

Pure data (builders, webhooks' field checks), output only (metrics, audit, logs), single
requests (`minato-ctl`, the client libraries), byte protocols (RCON), the steps of an
action (one after the other, on external effects), process wiring, and generated code.
Generated code is more than half of the Go lines (clients of the two HTTP APIs, protocol
buffers, deep copies, the router's wrappers): nearly 15 000 of 25 400. The models follow
the code that keeps state or decides, which is about a third of the rest.

Of modelled parts: image pull secrets (a request that may fail), the contents of
objects, and the cloud's and the agents' own code, which is external.

## 6. Plan

1. *Done:* ActionExecution, GameServer, Fleet, Snapshot, TenantNamespace, ControlPlane,
   AgentServer, Console, ServiceMonitor, Registrar; the refinement of `ActionLifecycle`;
   proofs of every safety property the runs check.
2. *Theorems next:* safety facts about `Fleet` beyond those the run checks (which server
   scaling down and a rolling update may take).
3. *Models:* a fleet with the real GameServer controller in place of its reduction, if the
   state space allows it.
