------------------------------- MODULE Fleet -------------------------------
(***************************************************************************)
(* The GameServerFleet controller for one fleet: finalizer, scale up by    *)
(* index, scale down by player count and age, rolling update, status and   *)
(* cleanup.                                                                *)
(*                                                                         *)
(* The reconcile lists the fleet's servers once and works on that view,    *)
(* with a drain of up to 30 seconds before each deletion, while clients,   *)
(* the servers' own controller and the players go on.  Both caches are     *)
(* past snapshots.  An object's version is represented only by whether the *)
(* cached or copied object is still the latest.                            *)
(***************************************************************************)
EXTENDS Naturals, FiniteSets

CONSTANTS
    MaxReplicas,     \* bound: the largest spec.replicas
    Sizes,           \* values of spec.replicas that clients choose
    Strategies,      \* values of spec.updateStrategy.type that clients choose
    MaxUnavailable,  \* spec.updateStrategy.rollingUpdate.maxUnavailable
    MaxEdits,        \* bound: changes of the fleet's spec
    MaxTroubles,     \* bound: servers deleted by users, changes of the servers'
                     \* own status and failing requests, taken together
    MaxSeconds       \* bound: seconds that creation timestamps tell apart

ASSUME FleetAssumption ==
    /\ MaxReplicas \in Nat \ {0}
    /\ Sizes \subseteq 0..MaxReplicas
    /\ Strategies \subseteq {"RollingUpdate", "OnDelete"}
    /\ {MaxUnavailable, MaxEdits, MaxTroubles, MaxSeconds} \subseteq Nat

\* The server of index i is called <fleet>-i.
Names == 0..(MaxReplicas - 1)

Generations == 0..(MaxEdits + 1)

Servers == [exists : BOOLEAN, deleting : BOOLEAN, generation : Generations,
            running : BOOLEAN, players : 0..1, created : 0..MaxSeconds]

NoServer == [exists |-> FALSE, deleting |-> FALSE, generation |-> 0,
             running |-> FALSE, players |-> 0, created |-> 0]

NewServer(generation, now) ==
    [exists |-> TRUE, deleting |-> FALSE, generation |-> generation,
     running |-> FALSE, players |-> 0, created |-> now]

Status == [replicas : 0..MaxReplicas, ready : 0..MaxReplicas,
           updated : 0..MaxReplicas]

NoStatus == [replicas |-> 0, ready |-> 0, updated |-> 0]

Fleets == [exists : BOOLEAN, deleting : BOOLEAN, finalizer : BOOLEAN,
           replicas : 0..MaxReplicas, strategy : {"RollingUpdate", "OnDelete"},
           generation : Generations, status : Status]

NoFleet == [exists |-> FALSE, deleting |-> FALSE, finalizer |-> FALSE,
            replicas |-> 0, strategy |-> "RollingUpdate", generation |-> 0,
            status |-> NoStatus]

NewFleet(n, strategy) ==
    [exists |-> TRUE, deleting |-> FALSE, finalizer |-> FALSE,
     replicas |-> n, strategy |-> strategy, generation |-> 1,
     status |-> NoStatus]

Usage == [created : BOOLEAN, edits : 0..MaxEdits, deletes : 0..MaxTroubles,
          polls : 0..MaxTroubles, faults : 0..MaxTroubles]

VARIABLES
    fleet,         \* the fleet in the API server
    fleetCache,    \* the same in the operator's cache
    fleetCurrent,  \* fleetCache has the latest version
    servers,       \* the GameServers of the fleet in the API server
    cache,         \* the same in the operator's cache
    outdated,      \* the servers whose cached version is not the latest
    queued,        \* the fleet's key is in the work queue
    pc,            \* the step the reconcile is at
    copy,          \* the reconcile's copy of the fleet
    copyCurrent,   \* that copy has the latest version
    view,          \* the reconcile's list of servers
    stale,         \* the servers whose listed version is not the latest
    step,          \* the reconcile's loop counter
    clock,         \* the second of the last creation
    highest,       \* the largest spec.replicas the fleet has had
    used           \* how much of each bound is used up

vars == <<fleet, fleetCache, fleetCurrent, servers, cache, outdated, queued, pc,
          copy, copyCurrent, view, stale, step, clock, highest, used>>

fleetVars == <<fleet, fleetCache, fleetCurrent>>
serverVars == <<servers, cache, outdated>>
workVars == <<pc, copy, copyCurrent, view, step>>
history == <<clock, highest>>

NoServers == [i \in Names |-> NoServer]

Init ==
    /\ fleet = NoFleet /\ fleetCache = NoFleet /\ fleetCurrent = TRUE
    /\ servers = NoServers /\ cache = NoServers /\ outdated = {}
    /\ queued = FALSE
    /\ pc = "idle" /\ copy = NoFleet /\ copyCurrent = FALSE
    /\ view = NoServers /\ stale = {} /\ step = 0
    /\ clock = 0 /\ highest = 0
    /\ used = [created |-> FALSE, edits |-> 0, deletes |-> 0, polls |-> 0,
               faults |-> 0]

Listed(list) == {i \in Names : list[i].exists}

Live(list) == {i \in Listed(list) : ~list[i].deleting}

-----------------------------------------------------------------------------
(* Clients *)

\* A foreign write of the fleet makes every copy of it outdated.
WriteFleet(f) ==
    /\ fleet' = f
    /\ fleetCurrent' = FALSE
    /\ copyCurrent' = FALSE
    /\ UNCHANGED fleetCache

\* A write of server i, by anyone.
WriteServer(i, s) ==
    /\ servers' = [servers EXCEPT ![i] = s]
    /\ outdated' = outdated \cup {i}
    /\ stale' = stale \cup {i}
    /\ UNCHANGED cache

CreateFleet(n, strategy) ==
    /\ ~used.created
    /\ WriteFleet(NewFleet(n, strategy))
    /\ highest' = n
    /\ used' = [used EXCEPT !.created = TRUE]
    /\ UNCHANGED <<serverVars, queued, pc, copy, view, stale, step, clock>>

\* Every change of the spec, of replicas as of the template, makes a new
\* generation.
EditFleet(n, strategy) ==
    /\ used.edits < MaxEdits
    /\ fleet.exists /\ ~fleet.deleting
    /\ WriteFleet([fleet EXCEPT !.replicas = n, !.strategy = strategy,
                                !.generation = @ + 1])
    /\ highest' = IF n > highest THEN n ELSE highest
    /\ used' = [used EXCEPT !.edits = @ + 1]
    /\ UNCHANGED <<serverVars, queued, pc, copy, view, stale, step, clock>>

DeleteFleet ==
    /\ fleet.exists /\ ~fleet.deleting
    /\ WriteFleet(IF fleet.finalizer THEN [fleet EXCEPT !.deleting = TRUE]
                                     ELSE NoFleet)
    /\ UNCHANGED <<serverVars, queued, pc, copy, view, stale, step,
                   history, used>>

MoreTrouble == used.deletes + used.polls + used.faults < MaxTroubles

DeleteServer(i) ==
    /\ MoreTrouble
    /\ i \in Live(servers)
    /\ WriteServer(i, [servers[i] EXCEPT !.deleting = TRUE])
    /\ used' = [used EXCEPT !.deletes = @ + 1]
    /\ UNCHANGED <<fleetVars, queued, workVars, history>>

-----------------------------------------------------------------------------
(* The GameServer controller, the players and the garbage collector *)

\* The controller of a server reports that it runs and whether anybody plays.
ServerReports(i, players) ==
    /\ MoreTrouble
    /\ i \in Live(servers)
    /\ WriteServer(i, [[servers[i] EXCEPT !.running = TRUE] EXCEPT !.players = players])
    /\ used' = [used EXCEPT !.polls = @ + 1]
    /\ UNCHANGED <<fleetVars, queued, workVars, history>>

\* A deleted server goes away once its controller has cleaned up.
ServerGone(i) ==
    /\ i \in Listed(servers) /\ servers[i].deleting
    /\ WriteServer(i, NoServer)
    /\ UNCHANGED <<fleetVars, queued, workVars, history, used>>

\* Servers are owned by their fleet and are collected after it.
GarbageCollect(i) ==
    /\ ~fleet.exists
    /\ i \in Live(servers)
    /\ WriteServer(i, [servers[i] EXCEPT !.deleting = TRUE])
    /\ UNCHANGED <<fleetVars, queued, workVars, history, used>>

-----------------------------------------------------------------------------
(* The informers *)

FleetSync ==
    /\ ~fleetCurrent
    /\ fleetCache' = fleet
    /\ fleetCurrent' = TRUE
    /\ queued' = TRUE
    /\ UNCHANGED <<fleet, serverVars, workVars, stale, history, used>>

\* Mistake: GameServers are not owned, so their changes enqueue nothing.
ServersSync_NotOwned ==
    /\ outdated # {}
    /\ cache' = servers
    /\ outdated' = {}
    /\ UNCHANGED <<fleetVars, servers, queued, workVars, stale, history,
                   used>>

\* All GameServers come from one watch, so the cache is always the picture of
\* some one moment.
ServersSync ==
    /\ outdated # {}
    /\ cache' = servers
    /\ outdated' = {}
    /\ queued' = TRUE
    /\ UNCHANGED <<fleetVars, servers, workVars, stale, history, used>>

-----------------------------------------------------------------------------
(* The reconcile *)

\* The reconcile returns; an error puts the key back into the queue.
Return(error) ==
    /\ pc' = "idle" /\ copy' = NoFleet /\ copyCurrent' = FALSE
    /\ view' = NoServers /\ step' = 0
    /\ queued' = (queued \/ error)

\* A write through the copy is accepted only if the copy is current.
Accepted(f) ==
    /\ copyCurrent
    /\ fleet' = f
    /\ fleetCurrent' = FALSE
    /\ UNCHANGED fleetCache

Fault ==
    /\ MoreTrouble
    /\ used' = [used EXCEPT !.faults = @ + 1]

Refused ==
    /\ \/ ~copyCurrent /\ UNCHANGED used
       \/ copyCurrent /\ Fault
    /\ UNCHANGED fleetVars

Skip ==
    /\ pc = "idle" /\ queued
    /\ ~fleetCache.exists \/ (fleetCache.deleting /\ ~fleetCache.finalizer)
    /\ queued' = FALSE
    /\ UNCHANGED <<fleetVars, serverVars, workVars, stale, history, used>>

\* A refused write leaves the key in the queue.
AddFinalizer ==
    /\ pc = "idle" /\ queued
    /\ fleetCache.exists /\ ~fleetCache.deleting /\ ~fleetCache.finalizer
    /\ fleetCurrent
    /\ fleet' = [fleetCache EXCEPT !.finalizer = TRUE]
    /\ fleetCurrent' = FALSE
    /\ queued' = FALSE
    /\ UNCHANGED <<fleetCache, serverVars, workVars, stale, history, used>>

Begin(next, first) ==
    /\ pc = "idle" /\ queued
    /\ fleetCache.exists /\ fleetCache.finalizer
    /\ queued' = FALSE
    /\ pc' = next
    /\ step' = first
    /\ copy' = fleetCache /\ copyCurrent' = fleetCurrent
    /\ view' = cache /\ stale' = outdated
    /\ UNCHANGED <<fleetVars, serverVars, history, used>>

BeginCleanup ==
    /\ fleetCache.deleting
    /\ Begin("cleanup", 0)

\* List the servers and compare their number, terminating ones included, with
\* spec.replicas.
BeginScale ==
    LET current == Cardinality(Listed(cache)) IN
    /\ ~fleetCache.deleting
    /\ \/ current < fleetCache.replicas /\ Begin("create", current)
       \/ current > fleetCache.replicas /\ Begin("delete", 0)
       \/ current = fleetCache.replicas /\ Begin("update", 0)

\* Mistake: the new server gets the first free index.
Create_FirstFree ==
    LET i == CHOOSE j \in Names \cup {MaxReplicas} :
                 /\ j \notin Listed(servers)
                 /\ \A k \in 0..(j - 1) : k \in Listed(servers) IN
    /\ pc = "create"
    /\ i \in Names
    /\ \E now \in {clock, clock + 1} \cap 0..MaxSeconds :
         /\ clock' = now
         /\ WriteServer(i, NewServer(copy.generation, now))
    /\ step' = step + 1
    /\ pc' = IF step + 1 = copy.replicas THEN "update" ELSE "create"
    /\ UNCHANGED <<fleetVars, queued, copy, copyCurrent, view, highest,
                   used>>

\* Create the server of index step ...
Create ==
    /\ pc = "create"
    /\ step \notin Listed(servers)
    /\ \E now \in {clock, clock + 1} \cap 0..MaxSeconds :
         /\ clock' = now
         /\ WriteServer(step, NewServer(copy.generation, now))
    /\ step' = step + 1
    /\ pc' = IF step + 1 = copy.replicas THEN "update" ELSE "create"
    /\ UNCHANGED <<fleetVars, queued, copy, copyCurrent, view, highest,
                   used>>

\* ... unless that name is taken: AlreadyExists is an error like any other.
CreateCollides ==
    /\ pc = "create"
    /\ step \in Listed(servers)
    /\ Return(TRUE)
    /\ UNCHANGED <<fleetVars, serverVars, stale, history, used>>

\* The order of selectServersToDelete: players, then age, then name (of up to
\* ten servers, whose names are in the order of their indexes).
Before(i, j) ==
    \/ view[i].players < view[j].players
    \/ /\ view[i].players = view[j].players
       /\ \/ view[i].created < view[j].created
          \/ view[i].created = view[j].created /\ i < j

Rank(i, among) == Cardinality({j \in among : Before(j, i)})

SelectServersToDelete ==
    LET excess == Cardinality(Listed(view)) - copy.replicas IN
    IF copy.strategy = "OnDelete" THEN {}
    ELSE {i \in Listed(view) : Rank(i, Listed(view)) < excess}

\* Deletion by name: a server that is gone is fine.
DeleteByName(i) ==
    IF i \in Live(servers)
    THEN WriteServer(i, [servers[i] EXCEPT !.deleting = TRUE])
    ELSE UNCHANGED <<serverVars, stale>>

\* drainServer may tell the server's agent; whether it does, fails or times
\* out, the server is deleted.
DrainAndDelete ==
    /\ pc = "delete"
    /\ \E i \in SelectServersToDelete :
         /\ Rank(i, Listed(view)) = step
         /\ DeleteByName(i)
    /\ step' = step + 1
    /\ UNCHANGED <<fleetVars, queued, pc, copy, copyCurrent, view, history, used>>

DeleteDone ==
    /\ pc = "delete"
    /\ step = Cardinality(SelectServersToDelete)
    /\ pc' = "update" /\ step' = 0
    /\ UNCHANGED <<fleetVars, serverVars, queued, copy, copyCurrent, view, stale,
                   history, used>>

\* The loop that pc is in has a request to make.
Requesting ==
    \/ pc = "create"
    \/ pc = "delete" /\ step < Cardinality(SelectServersToDelete)
    \/ pc = "cleanup" /\ step \in Listed(view)

\* Mistake: the error is only logged.
RequestFails_DropsError ==
    /\ Requesting
    /\ Fault
    /\ Return(FALSE)
    /\ UNCHANGED <<fleetVars, serverVars, stale, history>>

\* A creation or a deletion fails; the reconcile returns the error.
RequestFails ==
    /\ Requesting
    /\ Fault
    /\ Return(TRUE)
    /\ UNCHANGED <<fleetVars, serverVars, stale, history>>

NeedUpdate == {i \in Listed(view) : view[i].generation # copy.generation}

\* Mistake: one slot is always kept free.
ToUpdate_KeepsOneFree ==
    IF copy.strategy = "OnDelete" THEN {}
    ELSE {i \in NeedUpdate :
            Rank(i, NeedUpdate) + Cardinality(NeedUpdate) + 1 < MaxUnavailable}

\* availableSlots subtracts every server that needs the update.  Ties of age
\* are broken by name here; the code leaves them to the sort.
ToUpdate ==
    IF copy.strategy = "OnDelete" THEN {}
    ELSE {i \in NeedUpdate :
            Rank(i, NeedUpdate) + Cardinality(NeedUpdate) < MaxUnavailable}

\* A server whose listed version is not the latest conflicts and is skipped, as
\* is one whose update fails.
HandleRollingUpdate ==
    /\ pc = "update"
    /\ \E failed \in SUBSET ToUpdate :
         LET done == ToUpdate \ (stale \cup failed) IN
         /\ IF failed = {} THEN UNCHANGED used ELSE Fault
         /\ servers' = [i \in Names |->
                          IF i \in done
                          THEN [servers[i] EXCEPT !.generation = copy.generation]
                          ELSE servers[i]]
         /\ outdated' = outdated \cup done
         /\ stale' = stale \cup done
    /\ pc' = "status"
    /\ UNCHANGED <<fleetVars, cache, queued, copy, copyCurrent, view, step,
                   history>>

\* Mistake: the counts are taken from the spec.
Counts_FromSpec(list, f) ==
    [replicas |-> f.replicas,
     ready |-> Cardinality({i \in Listed(list) : list[i].running}),
     updated |-> f.replicas]

Counts(list, f) ==
    [replicas |-> Cardinality(Listed(list)),
     ready |-> Cardinality({i \in Listed(list) : list[i].running}),
     updated |-> Cardinality({i \in Listed(list) :
                                list[i].generation = f.generation})]

\* The status counts the servers as listed; a failed write is only logged.  A
\* write that repeats the last one within the same second changes nothing.
UpdateStatus ==
    LET f == [copy EXCEPT !.status = Counts(view, copy)] IN
    /\ pc = "status"
    /\ \/ Accepted(f) /\ UNCHANGED used
       \/ copyCurrent /\ f = fleet /\ UNCHANGED <<fleetVars, used>>
       \/ Refused
    /\ Return(FALSE)
    /\ UNCHANGED <<serverVars, stale, history>>

\* cleanupFleet deletes what is listed, without draining.
CleanupServer ==
    /\ pc = "cleanup"
    /\ step < MaxReplicas
    /\ IF step \in Listed(view) THEN DeleteByName(step)
                                ELSE UNCHANGED <<serverVars, stale>>
    /\ step' = step + 1
    /\ UNCHANGED <<fleetVars, queued, pc, copy, copyCurrent, view,
                   history, used>>

\* Mistake: the error is dropped.
RemoveFinalizer_DropsError ==
    /\ pc = "cleanup"
    /\ step = MaxReplicas
    /\ \/ Accepted(NoFleet) /\ UNCHANGED used
       \/ Refused
    /\ Return(FALSE)
    /\ UNCHANGED <<serverVars, stale, history>>

\* With the finalizer the fleet goes away.
RemoveFinalizer ==
    /\ pc = "cleanup"
    /\ step = MaxReplicas
    /\ \/ Accepted(NoFleet) /\ Return(FALSE) /\ UNCHANGED used
       \/ Refused /\ Return(TRUE)
    /\ UNCHANGED <<serverVars, stale, history>>

-----------------------------------------------------------------------------

Client == \/ DeleteFleet
          \/ \E n \in Sizes, strategy \in Strategies :
                CreateFleet(n, strategy) \/ EditFleet(n, strategy)
          \/ \E i \in Names : DeleteServer(i)

Work == \/ Skip \/ AddFinalizer \/ BeginCleanup \/ BeginScale
        \/ Create \/ CreateCollides \/ DrainAndDelete \/ DeleteDone
        \/ HandleRollingUpdate \/ UpdateStatus
        \/ CleanupServer \/ RemoveFinalizer

Next == \/ Client
        \/ FleetSync \/ ServersSync
        \/ Work \/ RequestFails
        \/ \E i \in Names : \/ \E players \in 0..1 : ServerReports(i, players)
                            \/ ServerGone(i) \/ GarbageCollect(i)

Spec == Init /\ [][Next]_vars

\* Watches deliver, the worker goes on, deleted servers go away and orphans
\* are collected.  Nothing is assumed of clients, players or failures.
Fairness ==
    /\ WF_vars(FleetSync) /\ WF_vars(ServersSync) /\ WF_vars(Work)
    /\ \A i \in Names : WF_vars(ServerGone(i)) /\ WF_vars(GarbageCollect(i))

FairSpec == Spec /\ Fairness

-----------------------------------------------------------------------------
(* Properties *)

\* Every variable has its type.
TypeOK ==
    /\ fleet \in Fleets /\ fleetCache \in Fleets /\ copy \in Fleets
    /\ servers \in [Names -> Servers]
    /\ cache \in [Names -> Servers]
    /\ view \in [Names -> Servers]
    /\ outdated \subseteq Names /\ stale \subseteq Names
    /\ fleetCurrent \in BOOLEAN /\ copyCurrent \in BOOLEAN /\ queued \in BOOLEAN
    /\ pc \in {"idle", "create", "delete", "update", "status", "cleanup"}
    /\ step \in 0..MaxReplicas
    /\ clock \in 0..MaxSeconds
    /\ highest \in 0..MaxReplicas
    /\ used \in Usage

\* A fleet never has more servers than the largest spec.replicas it has had,
\* however far the list lags behind that a reconcile scales up from: an index
\* is a name, and a name can be taken only once.
NeverMoreThanAsked ==
    \A i \in Listed(servers) : i < highest

\* With the OnDelete strategy, in the fleet and in the copy a reconcile works
\* from, a live server is terminated only by a user, or together with its
\* fleet, and is never updated.
OnDeleteLeavesAlone ==
    [][/\ fleet.exists /\ ~fleet.deleting /\ fleet.strategy = "OnDelete"
       /\ pc # "idle" => copy.strategy = "OnDelete"
       => \A i \in Live(servers) :
            \/ DeleteServer(i)
            \/ /\ i \in Live(servers')
               /\ servers'[i].generation = servers[i].generation]_vars

\* Deleting the fleet gets rid of it and of its servers, even of one that the
\* cached list missed.
DeletionCompletes ==
    fleet.deleting ~> (~fleet.exists /\ Listed(servers) = {})

\* Since clients change the spec only so often, a fleet that stays gets to its
\* size for good: a rolling one sheds what is too much, and one whose indexes
\* in use never have a gap grows.
ScaleCompletes ==
    <>[](fleet.exists /\ ~fleet.deleting) =>
        /\ <>[](fleet.strategy = "RollingUpdate")
             => <>[](Cardinality(Listed(servers)) <= fleet.replicas)
        /\ [](\A i \in Listed(servers) : \A j \in 0..i : j \in Listed(servers))
             => <>[](Cardinality(Listed(servers)) >= fleet.replicas)

\* When everything has come to rest the status counts what there is, how much
\* of it runs and how much has the fleet's generation, unless a request has
\* failed (the error of the status write is only logged).  Nor is the status
\* written in a fleet whose scaling up meets a name that is taken: every
\* reconcile then ends with the error of "create", and the counts stay stale.
StatusSettles ==
    [](used.faults = 0) /\ <>[][UNCHANGED <<servers, fleet.replicas>>]_vars
        /\ <>[](fleet.exists /\ ~fleet.deleting /\ pc # "create")
    => <>[]( /\ fleet.status.replicas = Cardinality(Listed(servers))
             /\ fleet.status.ready =
                  Cardinality({i \in Listed(servers) : servers[i].running})
             /\ fleet.status.updated =
                  Cardinality({i \in Listed(servers) :
                                 servers[i].generation = fleet.generation}) )

\* A rolling fleet smaller than maxUnavailable that rests gets all its servers
\* to its generation, whatever copies the reconciles start from, unless a
\* request has failed (the error of an update is only logged).
SmallUpdateCompletes ==
    /\ [](used.faults = 0)
    /\ <>[](/\ fleet.exists /\ ~fleet.deleting
            /\ fleet.strategy = "RollingUpdate"
            /\ fleet.replicas < MaxUnavailable)
    => <>[](\A i \in Listed(servers) : servers[i].generation = fleet.generation)
=============================================================================
