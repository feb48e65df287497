------------------------------ MODULE Snapshot ------------------------------
(***************************************************************************)
(* The GameSnapshot controller for one GameSnapshot: one-shot and cron     *)
(* schedules, agent save, VolumeSnapshot creation, monitoring, retention.  *)
(*                                                                         *)
(* Time is counted in ticks, Period of them between two slots of the cron  *)
(* schedule; the last tick before a slot stands for the minute in which    *)
(* the controller considers the slot reached.  VolumeSnapshots are read    *)
(* from the API server, the GameSnapshot from a cache that lags behind.    *)
(***************************************************************************)
EXTENDS Naturals, Sequences

CONSTANTS
    Schedules,   \* spec.schedule: "none" (one-shot), "cron", "invalid"
    Count,       \* spec.retention.count; 0 is no limit
    Duration,    \* spec.retention.duration in ticks; 0 is no limit
    Period,      \* ticks between two slots of the schedule
    Timeout,     \* snapshotTimeout in ticks
    MaxVolumes,  \* bound: VolumeSnapshots ever created
    MaxEdits,    \* bound: foreign edits of the GameSnapshot and its server
    MaxFaults,   \* bound: failing requests
    MaxCrashes   \* bound: operator restarts

ASSUME SnapshotAssumption ==
    /\ Schedules \subseteq {"none", "cron", "invalid"}
    /\ Period \in Nat \ {0}
    /\ Timeout \in Nat \ {0}
    /\ {Count, Duration, MaxVolumes, MaxEdits, MaxFaults, MaxCrashes} \subseteq Nat

Volumes == 1..MaxVolumes

\* The age at which nothing changes any more.
Horizon == 1 + (IF Duration < Timeout THEN Timeout ELSE Duration)

Entries == [volume : Volumes, age : 0..Horizon]

\* LastSnapshotAt: unset, after the last slot, or before it.
Lasts == {"never", "recent", "due"}

NoSnap == [exists |-> FALSE, deleting |-> FALSE, finalizer |-> FALSE,
           entries |-> <<>>, last |-> "never", ready |-> FALSE]

VARIABLES
    snap,         \* the GameSnapshot in the API server
    cache,        \* the same in the operator's cache
    current,      \* cache has the latest version
    schedule,     \* spec.schedule
    server,       \* the GameServer is in the operator's cache
    volumes,      \* the VolumeSnapshots
    phase,        \* ticks since the last slot
    queued,       \* the GameSnapshot's key is in the work queue
    timer,        \* a RequeueAfter: "off", until the next "slot", or "soon"
    pc,           \* the step the reconcile is at
    copy,         \* the reconcile's copy of the GameSnapshot
    copyCurrent,  \* that copy has the latest version
    used          \* how much of each bound is used up

vars == <<snap, cache, current, schedule, server, volumes, phase, queued, timer,
          pc, copy, copyCurrent, used>>

snapVars == <<snap, cache, current>>
envVars == <<schedule, server, phase>>
workVars == <<pc, copy, copyCurrent>>

Init ==
    /\ snap = NoSnap /\ cache = NoSnap /\ current = TRUE
    /\ schedule \in Schedules
    /\ server \in BOOLEAN
    /\ volumes = [v \in Volumes |-> "none"]
    /\ phase = 0
    /\ queued = FALSE /\ timer = "off"
    /\ pc = "idle" /\ copy = NoSnap /\ copyCurrent = FALSE
    /\ used = [created |-> FALSE, edits |-> 0, faults |-> 0, crashes |-> 0]

-----------------------------------------------------------------------------
(* Clients and the environment *)

Write(s) ==
    /\ snap' = s
    /\ current' = FALSE
    /\ copyCurrent' = FALSE
    /\ UNCHANGED cache

CreateSnapshot ==
    /\ ~used.created
    /\ Write([NoSnap EXCEPT !.exists = TRUE])
    /\ used' = [used EXCEPT !.created = TRUE]
    /\ UNCHANGED <<envVars, volumes, queued, timer, pc, copy>>

\* Somebody edits labels or annotations.
TouchSnapshot ==
    /\ used.edits < MaxEdits
    /\ snap.exists
    /\ Write(snap)
    /\ used' = [used EXCEPT !.edits = @ + 1]
    /\ UNCHANGED <<envVars, volumes, queued, timer, pc, copy>>

DeleteSnapshot ==
    /\ snap.exists /\ ~snap.deleting
    /\ Write(IF snap.finalizer THEN [snap EXCEPT !.deleting = TRUE] ELSE NoSnap)
    /\ UNCHANGED <<envVars, volumes, queued, timer, pc, copy, used>>

\* GameServers are not watched by this controller.
ChangeServer ==
    /\ used.edits < MaxEdits
    /\ used' = [used EXCEPT !.edits = @ + 1]
    /\ server' = ~server
    /\ UNCHANGED <<snapVars, schedule, phase, volumes, queued, timer, workVars>>

\* The CSI driver finishes a VolumeSnapshot, one way or the other.
VolumeDone(v) ==
    /\ volumes[v] = "pending"
    /\ \E s \in {"ready", "failed"} : volumes' = [volumes EXCEPT ![v] = s]
    /\ UNCHANGED <<snapVars, envVars, queued, timer, workVars, used>>

Older(e) == [e EXCEPT !.age = IF @ < Horizon THEN @ + 1 ELSE @]

\* A copy's view of the time: at a slot what was recent becomes due.
Aged(s, slot) ==
    [s EXCEPT !.entries = [k \in DOMAIN @ |-> Older(@[k])],
              !.last = IF slot /\ @ = "recent" THEN "due" ELSE @]

Tick ==
    LET slot == phase = Period - 1 IN
    /\ phase' = (phase + 1) % Period
    /\ snap' = Aged(snap, slot)
    /\ cache' = Aged(cache, slot)
    /\ copy' = Aged(copy, slot)
    /\ timer' = IF slot /\ timer = "slot" THEN "soon" ELSE timer
    /\ UNCHANGED <<current, schedule, server, volumes, queued, pc, copyCurrent,
                   used>>

\* Mistake: only changes of the spec are let through.
SnapSync_SpecOnly ==
    /\ ~current
    /\ cache' = snap
    /\ current' = TRUE
    /\ queued' = (queued \/ cache.exists # snap.exists \/ snap.deleting)
    /\ UNCHANGED <<snap, envVars, volumes, timer, workVars, used>>

SnapSync ==
    /\ ~current
    /\ cache' = snap
    /\ current' = TRUE
    /\ queued' = TRUE
    /\ UNCHANGED <<snap, envVars, volumes, timer, workVars, used>>

TimerFires ==
    /\ timer = "soon"
    /\ timer' = "off"
    /\ queued' = TRUE
    /\ UNCHANGED <<snapVars, envVars, volumes, workVars, used>>

-----------------------------------------------------------------------------
(* Writes and returns *)

Fault ==
    /\ used.faults < MaxFaults
    /\ used' = [used EXCEPT !.faults = @ + 1]

Accepted(s) ==
    /\ copyCurrent
    /\ snap' = s
    /\ current' = FALSE
    /\ UNCHANGED <<cache, used>>

Refused ==
    /\ \/ ~copyCurrent /\ UNCHANGED used
       \/ copyCurrent /\ Fault
    /\ UNCHANGED snapVars

\* A status write whose error is ignored.
TryWrite(s) == Accepted(s) \/ Refused

Return(error, requeue) ==
    /\ pc' = "idle" /\ copy' = NoSnap /\ copyCurrent' = FALSE
    /\ queued' = (queued \/ error)
    /\ timer' = IF requeue = "off" THEN timer ELSE requeue

-----------------------------------------------------------------------------
(* The reconcile *)

Skip ==
    /\ pc = "idle" /\ queued
    /\ ~cache.exists \/ (cache.deleting /\ ~cache.finalizer)
    /\ queued' = FALSE
    /\ UNCHANGED <<snapVars, envVars, volumes, timer, workVars, used>>

\* A refused write leaves the key in the queue.
HandleFinalizer ==
    /\ pc = "idle" /\ queued
    /\ cache.exists /\ cache.deleting = cache.finalizer
    /\ current
    /\ snap' = IF cache.deleting THEN NoSnap ELSE [cache EXCEPT !.finalizer = TRUE]
    /\ current' = FALSE
    /\ queued' = FALSE
    /\ UNCHANGED <<cache, envVars, volumes, timer, workVars, used>>

\* The GameSnapshot is to be worked on.
Fetch ==
    /\ pc = "idle" /\ queued
    /\ cache.exists /\ ~cache.deleting /\ cache.finalizer
    /\ queued' = FALSE
    /\ copy' = cache
    /\ copyCurrent' = current

\* GameServer not found, or a schedule that does not parse: the condition Ready
\* becomes false and nothing is requeued.
GiveUp ==
    /\ Fetch
    /\ ~server \/ schedule = "invalid"
    /\ pc' = "failed"
    /\ UNCHANGED <<snapVars, envVars, volumes, timer, used>>

\* Mistake: a one-shot does not look whether it was taken.
ShouldTake_OneShotAgain(s) ==
    \/ schedule = "none"
    \/ /\ schedule = "cron"
       /\ \/ s.last = "never" /\ phase = Period - 1
          \/ s.last = "due"

\* shouldTakeSnapshot.
ShouldTake(s) ==
    \/ schedule = "none" /\ s.last = "never"
    \/ /\ schedule = "cron"
       /\ \/ s.last = "never" /\ phase = Period - 1
          \/ s.last = "due"

\* Mistake: nothing is requeued.
NotDue_NoRequeue ==
    /\ pc = "idle" /\ queued
    /\ cache.exists /\ ~cache.deleting /\ cache.finalizer
    /\ server /\ schedule # "invalid"
    /\ ~ShouldTake(cache)
    /\ queued' = FALSE
    /\ UNCHANGED <<snapVars, envVars, volumes, timer, workVars, used>>

\* A one-shot that was taken is done; a schedule waits for its next slot.
NotDue ==
    /\ pc = "idle" /\ queued
    /\ cache.exists /\ ~cache.deleting /\ cache.finalizer
    /\ server /\ schedule # "invalid"
    /\ ~ShouldTake(cache)
    /\ queued' = FALSE
    /\ timer' = IF schedule = "cron" THEN "slot" ELSE timer
    /\ UNCHANGED <<snapVars, envVars, volumes, workVars, used>>

Latest(s) == s.entries[Len(s.entries)]

IsSnapshotInProgress(s) ==
    /\ s.entries # <<>>
    /\ Latest(s).age < Timeout
    /\ ~s.ready

BeginMonitor ==
    /\ Fetch
    /\ server /\ schedule # "invalid"
    /\ ShouldTake(cache) /\ IsSnapshotInProgress(cache)
    /\ pc' = "monitor"
    /\ UNCHANGED <<snapVars, envVars, volumes, timer, used>>

\* monitorSnapshot: a time-out returns quietly, a failure is an error and what
\* is pending or not there is looked at again soon.
Monitor ==
    LET state == volumes[Latest(copy).volume] IN
    /\ pc = "monitor"
    /\ \/ /\ Latest(copy).age > Timeout
          /\ TryWrite([copy EXCEPT !.ready = FALSE]) /\ Return(FALSE, "off")
       \/ /\ Latest(copy).age <= Timeout /\ state = "ready"
          /\ TryWrite([copy EXCEPT !.ready = TRUE]) /\ Return(FALSE, "off")
       \/ /\ Latest(copy).age <= Timeout /\ state = "failed"
          /\ TryWrite([copy EXCEPT !.ready = FALSE]) /\ Return(TRUE, "off")
       \/ /\ Latest(copy).age <= Timeout /\ state \in {"pending", "deleted"}
          /\ UNCHANGED <<snapVars, used>> /\ Return(FALSE, "soon")
    /\ UNCHANGED <<envVars, volumes>>

\* executeSnapshot: the condition SnapshotReady becomes false ...
BeginSnapshot ==
    /\ Fetch
    /\ server /\ schedule # "invalid"
    /\ ShouldTake(cache) /\ ~IsSnapshotInProgress(cache)
    /\ pc' = "saving"
    /\ UNCHANGED <<snapVars, envVars, volumes, timer, used>>

Saving ==
    LET s == [copy EXCEPT !.ready = FALSE] IN
    /\ pc = "saving"
    /\ TryWrite(s)
    /\ copy' = s
    /\ pc' = "save"
    /\ UNCHANGED <<envVars, volumes, queued, timer, copyCurrent>>

\* ... the agent saves, for up to two minutes, whatever comes of it, and the
\* condition is written again ...
Save ==
    /\ pc = "save"
    /\ TryWrite(copy)
    /\ pc' = "create"
    /\ UNCHANGED <<envVars, volumes, queued, timer, copy, copyCurrent>>

Unborn == {v \in Volumes : volumes[v] = "none"}

\* Mistake: the list is replaced.
CreateVolume_Replaces ==
    /\ pc = "create"
    /\ \E v \in Unborn :
         /\ \A w \in Unborn : v <= w
         /\ volumes' = [volumes EXCEPT ![v] = "pending"]
         /\ copy' = [copy EXCEPT !.entries = <<[volume |-> v, age |-> 0]>>, !.last = "recent"]
    /\ pc' = "record"
    /\ UNCHANGED <<snapVars, envVars, queued, timer, copyCurrent, used>>

\* ... and the VolumeSnapshot is created.
CreateVolume ==
    /\ pc = "create"
    /\ \E v \in Unborn :
         /\ \A w \in Unborn : v <= w
         /\ volumes' = [volumes EXCEPT ![v] = "pending"]
         /\ copy' = [copy EXCEPT !.entries = Append(@, [volume |-> v, age |-> 0]),
                                 !.last = "recent"]
    /\ pc' = "record"
    /\ UNCHANGED <<snapVars, envVars, queued, timer, copyCurrent, used>>

\* The claim or the VolumeSnapshot API is missing, or the request fails.
CreateFails ==
    /\ pc = "create"
    /\ Fault
    /\ pc' = "failed"
    /\ UNCHANGED <<snapVars, envVars, volumes, queued, timer, copy, copyCurrent>>

\* The entry and LastSnapshotAt are recorded.
Record ==
    /\ pc = "record"
    /\ \/ Accepted(copy) /\ pc' = "check"
       \/ Refused /\ pc' = "failed"
    /\ UNCHANGED <<envVars, volumes, queued, timer, copy, copyCurrent>>

\* Mistake: the VolumeSnapshot's own status is not consulted.
CheckReady_Unchecked ==
    LET s == [copy EXCEPT !.ready = TRUE] IN
    /\ pc = "check"
    /\ TryWrite(s)
    /\ copy' = s
    /\ pc' = "retain"
    /\ UNCHANGED <<envVars, volumes, queued, timer, copyCurrent>>

\* waitForSnapshotReady looks once; what is not ready yet is an error.
CheckReady ==
    LET s == [copy EXCEPT !.ready = TRUE] IN
    /\ pc = "check"
    /\ \/ /\ volumes[Latest(copy).volume] = "ready"
          /\ TryWrite(s)
          /\ copy' = s
          /\ pc' = "retain"
       \/ /\ volumes[Latest(copy).volume] # "ready"
          /\ pc' = "failed"
          /\ UNCHANGED <<snapVars, copy, used>>
    /\ UNCHANGED <<envVars, volumes, queued, timer, copyCurrent>>

\* An error of executeSnapshot ends in the condition Ready; no requeue.
Failed ==
    /\ pc = "failed"
    /\ TryWrite(copy)
    /\ Return(FALSE, "off")
    /\ UNCHANGED <<envVars, volumes>>

Young(e) == Duration = 0 \/ e.age <= Duration

\* The loop over the entries: what it has found young enough after i of them.
YoungAfter(entries) ==
    LET F[i \in 0..Len(entries)] ==
          IF i = 0 THEN <<>>
          ELSE IF Young(entries[i]) THEN Append(F[i - 1], entries[i]) ELSE F[i - 1]
    IN  F

\* Mistake: the oldest Count are kept.
Kept_Oldest(entries) ==
    LET young == YoungAfter(entries)[Len(entries)] IN
    IF Count > 0 /\ Len(young) > Count THEN SubSeq(young, 1, Count) ELSE young

\* What retention keeps: the Count latest of those young enough.
Kept(entries) ==
    LET young == YoungAfter(entries)[Len(entries)] IN
    IF Count > 0 /\ Len(young) > Count
    THEN SubSeq(young, Len(young) - Count + 1, Len(young))
    ELSE young

VolumesOf(entries) == {entries[k].volume : k \in DOMAIN entries}

\* enforceRetention: the volumes that are not kept are deleted, as far as their
\* deletions succeed, and the entries go in any case.  Errors are only logged.
\* Without any limit nothing is done.
EnforceRetention ==
    LET kept == Kept(copy.entries)
        drop == VolumesOf(copy.entries) \ VolumesOf(kept) IN
    /\ pc = "retain"
    /\ IF Count = 0 /\ Duration = 0
       THEN UNCHANGED <<snapVars, volumes, used>>
       ELSE \/ /\ TryWrite([copy EXCEPT !.entries = kept])
               /\ volumes' = [v \in Volumes |-> IF v \in drop THEN "deleted" ELSE volumes[v]]
            \/ /\ Fault
               /\ copyCurrent
               /\ snap' = [copy EXCEPT !.entries = kept]
               /\ current' = FALSE
               /\ UNCHANGED cache
               /\ \E failed \in SUBSET drop :
                    volumes' = [v \in Volumes |-> IF v \in drop \ failed THEN "deleted"
                                                                        ELSE volumes[v]]
    /\ Return(FALSE, IF schedule = "cron" THEN "slot" ELSE "off")
    /\ UNCHANGED envVars

-----------------------------------------------------------------------------

\* The operator restarts and lists everything afresh.
Crash ==
    /\ used.crashes < MaxCrashes
    /\ used' = [used EXCEPT !.crashes = @ + 1]
    /\ cache' = snap /\ current' = TRUE
    /\ pc' = "idle" /\ copy' = NoSnap /\ copyCurrent' = FALSE
    /\ queued' = snap.exists
    /\ timer' = "off"
    /\ UNCHANGED <<snap, envVars, volumes>>

Env == \/ CreateSnapshot \/ TouchSnapshot \/ DeleteSnapshot \/ ChangeServer
       \/ \E v \in Volumes : VolumeDone(v)

Work == \/ Skip \/ HandleFinalizer \/ GiveUp \/ NotDue
        \/ BeginMonitor \/ Monitor
        \/ BeginSnapshot \/ Saving \/ Save \/ CreateVolume \/ CreateFails
        \/ Record \/ CheckReady \/ Failed \/ EnforceRetention

Next == Env \/ Tick \/ SnapSync \/ TimerFires \/ Work \/ Crash

Spec == Init /\ [][Next]_vars

\* The watch delivers, timers fire, time passes and the worker goes on.
Fairness == WF_vars(SnapSync) /\ WF_vars(TimerFires) /\ WF_vars(Tick) /\ WF_vars(Work)

FairSpec == Spec /\ Fairness

-----------------------------------------------------------------------------
(* Properties *)

Snapshots == [exists : BOOLEAN, deleting : BOOLEAN, finalizer : BOOLEAN,
              entries : Seq(Entries), last : Lasts, ready : BOOLEAN]

\* Every variable has its type.
TypeOK ==
    /\ {snap, cache, copy} \subseteq Snapshots
    /\ {current, copyCurrent, server, queued} \subseteq BOOLEAN
    /\ schedule \in Schedules
    /\ volumes \in [Volumes -> {"none", "pending", "ready", "failed", "deleted"}]
    /\ phase \in 0..(Period - 1)
    /\ timer \in {"off", "slot", "soon"}
    /\ pc \in {"idle", "monitor", "saving", "save", "create", "record", "check",
               "retain", "failed"}

\* SnapshotReady is true only of the latest recorded VolumeSnapshot: a new
\* snapshot takes the condition back before its entry appears, even if the
\* write that says so is refused.
ReadyMeansReady ==
    snap.ready /\ snap.entries # <<>>
        => volumes[Latest(snap).volume] \in {"ready", "deleted"}

\* Retention deletes a VolumeSnapshot only if it is too old or Count later ones
\* are recorded in the GameSnapshot as it is at that moment, not only in the
\* reconcile's copy.
RetentionHasReason ==
    [][\A v \in Volumes : volumes[v] # "deleted" /\ volumes'[v] = "deleted" =>
        \E k \in DOMAIN snap.entries :
            /\ snap.entries[k].volume = v
            /\ \/ ~Young(snap.entries[k])
               \/ Count > 0 /\ Len(snap.entries) - k >= Count]_vars

\* A VolumeSnapshot stays recorded, except when retention, which deletes it,
\* drops its entry or the GameSnapshot is deleted: only a failed deletion makes
\* an entry's volume unknown.
EntriesKept ==
    [][\A v \in VolumesOf(snap.entries) \ VolumesOf(snap'.entries) :
        \/ volumes'[v] = "deleted"
        \/ used'.faults > used.faults
        \/ ~snap'.exists]_vars

\* A one-shot is recorded once, however many reconciles start from a cache that
\* does not show LastSnapshotAt yet: the record of a second one conflicts.
RecordedOnce ==
    schedule = "none" => Len(snap.entries) <= 1

\* A one-shot whose server exists is taken, unless it is deleted or the bound on
\* VolumeSnapshots is reached.  One request may fail: the status write that
\* reports it brings the controller back.
OneShotTaken ==
    [](schedule = "none" /\ server)
        => (snap.exists ~> ( \/ snap.last # "never" \/ ~snap.exists
                             \/ snap.deleting \/ Unborn = {} ))

\* A due scheduled snapshot is taken, unless the GameSnapshot is deleted or the
\* bound on VolumeSnapshots is reached: one in progress delays it at most for
\* the time-out.  A failed request excuses it: the end of monitorSnapshot is
\* reported by a write whose error is dropped, and nothing else wakes the
\* controller for the next slot.
DueIsTaken ==
    []server => (snap.last = "due" /\ schedule = "cron"
                    ~> ( \/ snap.last # "due" \/ snap.deleting
                         \/ Unborn = {} \/ used.faults > 0 ))

\* api/operator/v1/gamesnapshot_types.go: a schedule gives periodic snapshots.
ScheduleStarts ==
    [](schedule = "cron" /\ server)
        => (snap.exists ~> (snap.last # "never" \/ snap.deleting \/ ~snap.exists))
=============================================================================
