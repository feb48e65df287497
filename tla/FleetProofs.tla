---------------------------- MODULE FleetProofs ----------------------------
(***************************************************************************)
(* Proofs about Fleet, for every size of the fleet and every value of the  *)
(* bounds.                                                                 *)
(***************************************************************************)
EXTENDS Fleet, FiniteSetTheorems, TLAPS

\* No copy of the fleet asks for more than the largest spec.replicas so far,
\* and none is of a generation that the edits so far do not account for.
Bounded(f) ==
    /\ f.replicas <= highest
    /\ f.generation <= used.edits + 1
    /\ f.exists => used.created

\* The inductive invariant.  NeverMoreThanAsked needs it because a reconcile
\* creates by an old copy of the fleet, whose replicas the history must bound,
\* and because the first spec.replicas may be set at any time.
IInv ==
    /\ TypeOK
    /\ Bounded(fleet) /\ Bounded(fleetCache) /\ Bounded(copy)
    /\ pc = "create" => step < copy.replicas
    /\ ~used.created => highest = 0
    /\ NeverMoreThanAsked

\* The indexes are finitely many.
LEMMA NamesFinite == IsFiniteSet(Names) /\ Cardinality(Names) = MaxReplicas
<1>1. 0 \in Int /\ MaxReplicas - 1 \in Int /\ 0 <= MaxReplicas - 1
  BY FleetAssumption
<1>2. IsFiniteSet(0..(MaxReplicas - 1))
      /\ Cardinality(0..(MaxReplicas - 1)) = (MaxReplicas - 1) - 0 + 1
  BY <1>1, FS_Interval
<1> QED
  BY <1>1, <1>2, FleetAssumption DEF Names

\* What the reconcile counts is never more than there are indexes.
LEMMA CountBound ==
    ASSUME NEW S, S \subseteq Names
    PROVE  Cardinality(S) \in 0..MaxReplicas
  BY NamesFinite, FS_Subset, FS_CardinalityType, FleetAssumption

\* A server comes after fewer others than there are indexes.
LEMMA RankBound ==
    ASSUME NEW among, among \subseteq Names, NEW i \in Names,
           view \in [Names -> Servers]
    PROVE  Rank(i, among) \in 0..(MaxReplicas - 1)
<1> DEFINE before == {j \in among : Before(j, i)}
<1>1. before \subseteq Names \ {i}
  <2>0. view[i] \in Servers
    OBVIOUS
  <2>1. view[i].players \in 0..1 /\ view[i].created \in 0..MaxSeconds /\ i \in Nat
    BY <2>0 DEF Servers, Names
  <2>2. ~Before(i, i)
    BY <2>1 DEF Before
  <2> QED
    BY <2>2
<1>2. IsFiniteSet(Names \ {i}) /\ Cardinality(Names \ {i}) = MaxReplicas - 1
  BY NamesFinite, FS_RemoveElement, FleetAssumption
<1>3. Cardinality(before) <= MaxReplicas - 1 /\ Cardinality(before) \in Nat
  BY <1>1, <1>2, FS_Subset, FS_CardinalityType, FleetAssumption
<1> QED
  BY <1>3, FleetAssumption DEF Rank

\* The records the actions write have their types.
LEMMA RecordTypes ==
    /\ NoServer \in Servers
    /\ NoFleet \in Fleets
    /\ NoServers \in [Names -> Servers]
<1>1. NoServer \in Servers
  BY FleetAssumption DEF NoServer, Servers, Generations
<1>2. NoStatus \in Status
  BY FleetAssumption DEF NoStatus, Status
<1>3. NoFleet \in Fleets
  BY <1>2, FleetAssumption DEF NoFleet, Fleets, Generations
<1> QED
  BY <1>1, <1>3 DEF NoServers

\* A new server and a new fleet have their types.
LEMMA NewServerType ==
    ASSUME NEW g \in Generations, NEW now \in 0..MaxSeconds
    PROVE  NewServer(g, now) \in Servers
  BY DEF NewServer, Servers

\* A created fleet asks for what the client asked.
LEMMA NewFleetType ==
    ASSUME NEW n \in 0..MaxReplicas, NEW strategy \in Strategies
    PROVE  /\ NewFleet(n, strategy) \in Fleets
           /\ NewFleet(n, strategy).replicas = n
           /\ NewFleet(n, strategy).generation = 1
<1>1. NoStatus \in Status
  BY FleetAssumption DEF NoStatus, Status
<1>2. 1 \in Generations
  BY FleetAssumption DEF Generations
<1>3. strategy \in {"RollingUpdate", "OnDelete"}
  BY FleetAssumption
<1> QED
  BY <1>1, <1>2, <1>3 DEF NewFleet, Fleets

\* One write of a server keeps the servers' types and leaves the rest alone.
LEMMA WriteServerType ==
    ASSUME TypeOK, NEW i \in Names, NEW s \in Servers, WriteServer(i, s)
    PROVE  /\ servers' \in [Names -> Servers] /\ cache' \in [Names -> Servers]
           /\ outdated' \subseteq Names /\ stale' \subseteq Names
           /\ \A j \in Names : servers'[j] = IF j = i THEN s ELSE servers[j]
  BY DEF TypeOK, WriteServer

\* The clients' steps.
LEMMA ClientStep ==
    ASSUME IInv, Client
    PROVE  IInv'
<1> USE FleetAssumption
<1>1. CASE DeleteFleet
  <2> DEFINE f == IF fleet.finalizer THEN [fleet EXCEPT !.deleting = TRUE]
                                     ELSE NoFleet
  <2>1. f \in Fleets /\ Bounded(f)
    <3>1. fleet \in Fleets /\ Bounded(fleet) /\ highest \in Nat /\ used.edits \in Nat
      BY DEF IInv, TypeOK, Usage
    <3>2. CASE fleet.finalizer
      <4>1. f = [fleet EXCEPT !.deleting = TRUE]
        BY <3>2
      <4> QED
        BY <3>1, <4>1 DEF Fleets, Bounded
    <3>3. CASE ~fleet.finalizer
      <4>1. f = NoFleet /\ NoFleet.replicas = 0 /\ NoFleet.generation = 0
              /\ ~NoFleet.exists
        BY <3>3 DEF NoFleet
      <4> HIDE DEF f
      <4> QED
        BY <3>1, <4>1, RecordTypes DEF Bounded
    <3> QED
      BY <3>2, <3>3
  <2> HIDE DEF f
  <2> QED
    BY <1>1, <2>1 DEF DeleteFleet, WriteFleet, IInv, TypeOK, Usage, Bounded, serverVars,
                      history, NeverMoreThanAsked, Listed, f
<1>2. ASSUME NEW n \in 0..MaxReplicas, NEW strategy \in Strategies,
             CreateFleet(n, strategy)
      PROVE  IInv'
  <2>1. PICK f : f = NewFleet(n, strategy)
    OBVIOUS
  <2>2. f \in Fleets /\ f.replicas = n /\ f.generation = 1
    BY <2>1, NewFleetType
  <2>3. fleet' = f /\ fleetCurrent' = FALSE /\ copyCurrent' = FALSE
        /\ fleetCache' = fleetCache
    BY <1>2, <2>1 DEF CreateFleet, WriteFleet
  <2>4. highest = 0 /\ highest' = n
    BY <1>2 DEF CreateFleet, IInv
  <2>5. used' \in Usage /\ used'.edits = used.edits /\ used'.created
    BY <1>2 DEF CreateFleet, IInv, TypeOK, Usage
  <2>6. UNCHANGED <<serverVars, queued, pc, copy, view, stale, step, clock>>
    BY <1>2 DEF CreateFleet
  <2>7. TypeOK'
    BY <2>2, <2>3, <2>4, <2>5, <2>6 DEF IInv, TypeOK, serverVars
  <2>8. Bounded(fleet)' /\ Bounded(fleetCache)' /\ Bounded(copy)'
    BY <2>2, <2>3, <2>4, <2>5, <2>6
       DEF IInv, TypeOK, Usage, Bounded, Fleets, Generations
  <2> QED
    BY <2>4, <2>5, <2>6, <2>7, <2>8 DEF IInv, TypeOK, serverVars, Names, Fleets,
                      NeverMoreThanAsked, Listed
<1>3. ASSUME NEW n \in 0..MaxReplicas, NEW strategy \in Strategies,
             EditFleet(n, strategy)
      PROVE  IInv'
  <2>1. PICK f : f = [fleet EXCEPT !.replicas = n, !.strategy = strategy,
                                   !.generation = @ + 1]
    OBVIOUS
  <2>2. f.replicas = n /\ f.generation = fleet.generation + 1
    BY <2>1 DEF IInv, TypeOK, Fleets
  <2>3. f \in Fleets
    <3>1. fleet.generation + 1 \in Generations
      BY <1>3 DEF EditFleet, IInv, TypeOK, Usage, Bounded, Fleets, Generations
    <3>2. PICK g : g = [fleet EXCEPT !.replicas = n]
      OBVIOUS
    <3>3. g \in Fleets /\ g.generation = fleet.generation
      BY <3>2 DEF IInv, TypeOK, Fleets
    <3>4. PICK h : h = [g EXCEPT !.strategy = strategy]
      OBVIOUS
    <3>5. strategy \in {"RollingUpdate", "OnDelete"}
      OBVIOUS
    <3>6. h \in Fleets /\ h.generation = fleet.generation
      BY <3>3, <3>4, <3>5 DEF Fleets
    <3>7. f = [h EXCEPT !.generation = @ + 1]
      BY <2>1, <3>2, <3>4
    <3> QED
      BY <3>1, <3>6, <3>7 DEF Fleets
  <2>4. fleet' = f /\ fleetCurrent' = FALSE /\ copyCurrent' = FALSE
        /\ fleetCache' = fleetCache
    BY <1>3, <2>1 DEF EditFleet, WriteFleet
  <2>5. /\ used.edits < MaxEdits
        /\ highest' = IF n > highest THEN n ELSE highest
        /\ used.created
        /\ UNCHANGED <<serverVars, queued, pc, copy, view, stale, step, clock>>
    BY <1>3 DEF EditFleet, IInv, Bounded
  <2>6. /\ used' \in Usage /\ used'.edits = used.edits + 1
        /\ used'.created = used.created
    BY <1>3 DEF EditFleet, IInv, TypeOK, Usage
  <2>7. TypeOK'
    BY <2>3, <2>4, <2>5, <2>6 DEF IInv, TypeOK, serverVars
  <2>8. Bounded(fleet)' /\ Bounded(fleetCache)' /\ Bounded(copy)'
    BY <2>2, <2>4, <2>5, <2>6 DEF IInv, TypeOK, Usage, Bounded, Fleets, Generations
  <2>9. used'.created
    BY <2>5, <2>6, Zenon
  <2>10. NeverMoreThanAsked'
    BY <2>5 DEF IInv, TypeOK, serverVars, NeverMoreThanAsked, Listed, Names
  <2> QED
    BY <2>5, <2>7, <2>8, <2>9, <2>10 DEF IInv
<1>4. ASSUME NEW i \in Names, DeleteServer(i)
      PROVE  IInv'
  <2> DEFINE s == [servers[i] EXCEPT !.deleting = TRUE]
  <2>1. s \in Servers /\ s.exists = servers[i].exists
    BY DEF IInv, TypeOK, Servers
  <2> HIDE DEF s
  <2>2. WriteServer(i, s)
    BY <1>4 DEF DeleteServer, s
  <2>3. used' \in Usage /\ used'.edits = used.edits /\ used'.created = used.created
    BY <1>4 DEF DeleteServer, MoreTrouble, IInv, TypeOK, Usage
  <2> QED
    BY <1>4, <2>1, <2>2, <2>3, WriteServerType
       DEF DeleteServer, IInv, TypeOK, Bounded, fleetVars, workVars, history,
                      NeverMoreThanAsked, Listed
<1> QED
  BY <1>1, <1>2, <1>3, <1>4 DEF Client

\* The servers' part of the invariant.
ServersOK ==
    /\ servers \in [Names -> Servers] /\ cache \in [Names -> Servers]
    /\ outdated \subseteq Names /\ stale \subseteq Names
    /\ NeverMoreThanAsked

\* Whoever writes server i below the largest spec.replicas keeps ServersOK.
LEMMA WriteServerKeeps ==
    ASSUME IInv, NEW i \in Names, NEW s \in Servers, s.exists => i < highest,
           WriteServer(i, s), highest' = highest
    PROVE  ServersOK'
  BY WriteServerType DEF IInv, ServersOK, NeverMoreThanAsked, Listed

\* Marking a server as deleted does not bring one into being.
LEMMA DeletedServer ==
    ASSUME IInv, NEW i \in Names
    PROVE  LET s == [servers[i] EXCEPT !.deleting = TRUE] IN
           s \in Servers /\ (s.exists => i < highest)
<1>1. PICK s : s = [servers[i] EXCEPT !.deleting = TRUE]
  OBVIOUS
<1>2. servers[i] \in Servers
  BY DEF IInv, TypeOK
<1>3. s \in Servers /\ s.exists = servers[i].exists
  BY <1>1, <1>2 DEF Servers
<1>4. servers[i].exists => i < highest
  BY DEF IInv, NeverMoreThanAsked, Listed
<1> QED
  BY <1>1, <1>3, <1>4

\* The steps of the servers' controller, the players and the collector.
LEMMA ServerStep ==
    ASSUME IInv, NEW i \in Names,
           (\E players \in 0..1 : ServerReports(i, players)) \/ ServerGone(i) \/ GarbageCollect(i)
    PROVE  IInv'
<1> USE FleetAssumption
<1>0. servers[i] \in Servers /\ (servers[i].exists => i < highest)
  BY DEF IInv, TypeOK, NeverMoreThanAsked, Listed
<1>1. ASSUME NEW players \in 0..1, ServerReports(i, players)
      PROVE  IInv'
  <2>0. PICK r : r = [servers[i] EXCEPT !.running = TRUE]
    OBVIOUS
  <2>1. PICK s : s = [r EXCEPT !.players = players]
    OBVIOUS
  <2>2. s \in Servers /\ (s.exists => i < highest)
    <3>1. r \in Servers /\ (r.exists => i < highest)
      BY <1>0, <2>0 DEF Servers
    <3> QED
      BY <2>1, <3>1 DEF Servers
  <2>3. ServersOK'
    BY <1>1, <2>0, <2>1, <2>2, WriteServerKeeps DEF ServerReports, history
  <2>4. used' \in Usage /\ used'.edits = used.edits /\ used'.created = used.created
    BY <1>1 DEF ServerReports, MoreTrouble, IInv, TypeOK, Usage
  <2> QED
    BY <1>1, <2>3, <2>4 DEF ServerReports, ServersOK, fleetVars, workVars, history,
                            IInv, TypeOK, Bounded
<1>3. CASE ServerGone(i)
  <2>1. NoServer \in Servers /\ ~NoServer.exists
    BY RecordTypes DEF NoServer
  <2>2. ServersOK'
    BY <1>3, <2>1, WriteServerKeeps DEF ServerGone, history
  <2> QED
    BY <1>3, <2>2 DEF ServerGone, ServersOK, fleetVars, workVars, history,
                      IInv, TypeOK, Bounded
<1>4. CASE GarbageCollect(i)
  <2>1. ServersOK'
    BY <1>4, DeletedServer, WriteServerKeeps DEF GarbageCollect, history
  <2> QED
    BY <1>4, <2>1 DEF GarbageCollect, ServersOK, fleetVars, workVars, history,
                      IInv, TypeOK, Bounded
<1> QED
  BY <1>1, <1>3, <1>4

\* The reconcile's own variables.
WorkOK ==
    /\ pc \in {"idle", "create", "delete", "update", "status", "cleanup"}
    /\ copy \in Fleets /\ Bounded(copy)
    /\ copyCurrent \in BOOLEAN /\ queued \in BOOLEAN
    /\ view \in [Names -> Servers]
    /\ step \in 0..MaxReplicas
    /\ pc = "create" => step < copy.replicas

\* A reconcile that returns leaves its variables as they were before it began.
LEMMA ReturnKeeps ==
    ASSUME IInv, NEW error \in BOOLEAN, Return(error), highest' = highest,
           used' \in Usage, used'.edits = used.edits
    PROVE  WorkOK'
<1>1. (queued \/ error) \in BOOLEAN
  BY Zenon DEF IInv, TypeOK
<1>2. queued' \in BOOLEAN
  BY <1>1, Zenon DEF Return
<1>3. NoFleet.replicas = 0 /\ NoFleet.generation = 0 /\ ~NoFleet.exists
  BY DEF NoFleet
<1>4. Bounded(copy)'
  BY <1>3, FleetAssumption DEF Return, IInv, TypeOK, Bounded, Usage
<1>5. /\ pc' = "idle" /\ copy' = NoFleet /\ copyCurrent' = FALSE
      /\ view' = NoServers /\ step' = 0
  BY Zenon DEF Return
<1>6. copyCurrent' \in BOOLEAN
  BY <1>5, Zenon
<1>7. copy' \in Fleets /\ view' \in [Names -> Servers]
  BY <1>5, RecordTypes, Zenon
<1>8. step' \in 0..MaxReplicas
  BY <1>5, FleetAssumption
<1> QED
  BY <1>2, <1>4, <1>5, <1>6, <1>7, <1>8, Zenon DEF WorkOK

\* A failing request uses up the bound on failures and nothing else.
LEMMA FaultKeeps ==
    ASSUME IInv, Fault
    PROVE  used' \in Usage /\ used'.edits = used.edits /\ used'.created = used.created
  BY FleetAssumption DEF Fault, MoreTrouble, IInv, TypeOK, Usage

\* Deletion by name brings no server into being.
LEMMA DeleteKeeps ==
    ASSUME IInv, NEW i \in Names, DeleteByName(i), highest' = highest
    PROVE  ServersOK'
<1>1. CASE i \in Live(servers)
  BY <1>1, DeletedServer, WriteServerKeeps DEF DeleteByName
<1>2. CASE i \notin Live(servers)
  BY <1>2 DEF DeleteByName, serverVars, IInv, TypeOK, ServersOK, NeverMoreThanAsked,
              Listed
<1> QED
  BY <1>1, <1>2

\* The reconcile's steps from the queue to its first write.
LEMMA BeginStep ==
    ASSUME IInv, Skip \/ AddFinalizer \/ BeginCleanup \/ BeginScale
    PROVE  IInv'
<1> USE FleetAssumption
<1>1. CASE Skip
  BY <1>1 DEF Skip, fleetVars, serverVars, workVars, history, IInv, TypeOK, Bounded,
              NeverMoreThanAsked, Listed
<1>2. CASE AddFinalizer
  <2>1. PICK f : f = [fleetCache EXCEPT !.finalizer = TRUE]
    OBVIOUS
  <2>2. /\ f \in Fleets /\ f.replicas = fleetCache.replicas
        /\ f.generation = fleetCache.generation /\ f.exists = fleetCache.exists
    BY <2>1 DEF IInv, TypeOK, Fleets
  <2>3. fleet' = f /\ fleetCurrent' = FALSE /\ queued' = FALSE
    BY <1>2, <2>1 DEF AddFinalizer
  <2>4. UNCHANGED <<fleetCache, serverVars, workVars, stale, history, used>>
    BY <1>2 DEF AddFinalizer
  <2> QED
    BY <2>2, <2>3, <2>4 DEF serverVars, workVars, history, IInv, TypeOK, Bounded,
              NeverMoreThanAsked, Listed
<1>3. ASSUME NEW next \in {"create", "delete", "update", "cleanup"},
             NEW first \in 0..MaxReplicas, Begin(next, first),
             next = "create" => first < fleetCache.replicas
      PROVE  IInv'
  BY <1>3 DEF Begin, fleetVars, serverVars, history, IInv, TypeOK, Bounded,
              NeverMoreThanAsked, Listed
<1>4. CASE BeginCleanup
  BY <1>3, <1>4 DEF BeginCleanup
<1>5. CASE BeginScale
  <2>1. Cardinality(Listed(cache)) \in 0..MaxReplicas
    BY CountBound DEF Listed
  <2> QED
    BY <1>3, <1>5, <2>1 DEF BeginScale
<1> QED
  BY <1>1, <1>2, <1>4, <1>5

\* The reconcile's writes of servers.
LEMMA ScaleStep ==
    ASSUME IInv, RequestFails \/ Create \/ CreateCollides \/ DrainAndDelete
                 \/ DeleteDone \/ CleanupServer
    PROVE  IInv'
<1> USE FleetAssumption
<1>1. CASE RequestFails
  <2>1. used' \in Usage /\ used'.edits = used.edits /\ used'.created = used.created
    BY <1>1, FaultKeeps DEF RequestFails
  <2>2. WorkOK'
    BY <1>1, <2>1, ReturnKeeps DEF RequestFails, history
  <2> QED
    BY <1>1, <2>1, <2>2 DEF RequestFails, WorkOK, fleetVars, serverVars, history,
              IInv, TypeOK, Bounded, NeverMoreThanAsked, Listed
<1>2. CASE Create
  <2>1. PICK now \in 0..MaxSeconds :
          clock' = now /\ WriteServer(step, NewServer(copy.generation, now))
    BY <1>2 DEF Create
  <2>2. step < copy.replicas /\ copy.replicas <= highest /\ step \in Names
        /\ copy.generation \in Generations /\ copy.replicas \in Nat /\ step \in Nat
    BY <1>2 DEF Create, IInv, TypeOK, Bounded, Names, Fleets
  <2>3. NewServer(copy.generation, now) \in Servers
    BY <2>2, NewServerType
  <2>4. step < highest
    BY <2>2 DEF IInv, TypeOK
  <2>5. ServersOK'
    BY <1>2, <2>1, <2>2, <2>3, <2>4, WriteServerKeeps DEF Create
  <2>6. /\ step' = step + 1
        /\ pc' = IF step + 1 = copy.replicas THEN "update" ELSE "create"
        /\ UNCHANGED <<fleetVars, queued, copy, copyCurrent, view, highest,
                       used>>
    BY <1>2 DEF Create
  <2> QED
    BY <2>1, <2>2, <2>5, <2>6 DEF ServersOK, fleetVars, IInv, TypeOK, Bounded, Fleets
<1>3. CASE CreateCollides
  <2>1. WorkOK'
    BY <1>3, ReturnKeeps DEF CreateCollides, history, IInv, TypeOK
  <2> QED
    BY <1>3, <2>1 DEF CreateCollides, WorkOK, fleetVars, serverVars, history,
              IInv, TypeOK, Bounded, NeverMoreThanAsked, Listed
<1>4. CASE DrainAndDelete
  <2>1. PICK i \in SelectServersToDelete :
          /\ Rank(i, Listed(view)) = step
          /\ DeleteByName(i)
    BY <1>4 DEF DrainAndDelete
  <2>2. i \in Names
    BY <2>1 DEF SelectServersToDelete, Listed
  <2>3. step \in 0..(MaxReplicas - 1)
    BY <2>1, <2>2, RankBound DEF Listed, IInv, TypeOK
  <2>4. ServersOK'
    BY <1>4, <2>1, <2>2, DeleteKeeps DEF DrainAndDelete, history
  <2>5. /\ pc = "delete" /\ step' = step + 1
        /\ UNCHANGED <<fleetVars, queued, pc, copy, copyCurrent, view, history, used>>
    BY <1>4 DEF DrainAndDelete
  <2> QED
    BY <2>3, <2>4, <2>5 DEF ServersOK, fleetVars, history, IInv, TypeOK, Bounded
<1>5. CASE DeleteDone
  BY <1>5 DEF DeleteDone, fleetVars, serverVars, history, IInv, TypeOK, Bounded,
              NeverMoreThanAsked, Listed
<1>6. CASE CleanupServer
  <2>1. step \in Names
    BY <1>6 DEF CleanupServer, IInv, TypeOK, Names
  <2>2. ServersOK'
    <3>1. CASE step \in Listed(view)
      BY <1>6, <2>1, <3>1, DeleteKeeps DEF CleanupServer, history
    <3>2. CASE step \notin Listed(view)
      BY <1>6, <3>2 DEF CleanupServer, history, serverVars, IInv, TypeOK, ServersOK,
                        NeverMoreThanAsked, Listed
    <3> QED
      BY <3>1, <3>2
  <2>3. /\ pc = "cleanup" /\ step' = step + 1
        /\ UNCHANGED <<fleetVars, queued, pc, copy, copyCurrent, view,
                       history, used>>
    BY <1>6 DEF CleanupServer
  <2> QED
    BY <2>1, <2>2, <2>3 DEF ServersOK, fleetVars, history, IInv, TypeOK, Bounded, Names
<1> QED
  BY <1>1, <1>2, <1>3, <1>4, <1>5, <1>6

\* What the status counts has the status's type.
LEMMA CountsType ==
    ASSUME NEW list, NEW f
    PROVE  Counts(list, f) \in Status
<1>1. /\ Cardinality(Listed(list)) \in 0..MaxReplicas
      /\ Cardinality({i \in Listed(list) : list[i].running}) \in 0..MaxReplicas
      /\ Cardinality({i \in Listed(list) : list[i].generation = f.generation})
           \in 0..MaxReplicas
  BY CountBound DEF Listed
<1> QED
  BY <1>1 DEF Counts, Status

\* The reconcile's update of servers, and its writes of the fleet.
LEMMA FinishStep ==
    ASSUME IInv, HandleRollingUpdate \/ UpdateStatus \/ RemoveFinalizer
    PROVE  IInv'
<1> USE FleetAssumption
<1>1. CASE HandleRollingUpdate
  <2>1. PICK failed \in SUBSET ToUpdate :
          LET done == ToUpdate \ (stale \cup failed) IN
          /\ IF failed = {} THEN UNCHANGED used ELSE Fault
          /\ servers' = [i \in Names |->
                           IF i \in done
                           THEN [servers[i] EXCEPT !.generation = copy.generation]
                           ELSE servers[i]]
          /\ outdated' = outdated \cup done
          /\ stale' = stale \cup done
    BY <1>1 DEF HandleRollingUpdate
  <2> DEFINE done == ToUpdate \ (stale \cup failed)
  <2>2. done \subseteq Names
    BY DEF ToUpdate, NeedUpdate, Listed
  <2>3. used' \in Usage /\ used'.edits = used.edits /\ used'.created = used.created
    <3>1. CASE failed = {}
      BY <2>1, <3>1 DEF IInv, TypeOK
    <3>2. CASE failed # {}
      BY <2>1, <3>2, FaultKeeps
    <3> QED
      BY <3>1, <3>2
  <2> HIDE DEF done
  <2>4. ASSUME NEW i \in Names
        PROVE  servers'[i] \in Servers /\ servers'[i].exists = servers[i].exists
    <3>1. PICK s : s = [servers[i] EXCEPT !.generation = copy.generation]
      OBVIOUS
    <3>2. servers[i] \in Servers /\ copy.generation \in Generations
      BY DEF IInv, TypeOK, Fleets
    <3>3. s \in Servers /\ s.exists = servers[i].exists
      BY <3>1, <3>2 DEF Servers
    <3>4. servers'[i] = s \/ servers'[i] = servers[i]
      BY <2>1, <3>1 DEF done
    <3> QED
      BY <3>2, <3>3, <3>4
  <2>5. servers' \in [Names -> Servers]
    <3>1. servers' = [i \in Names |-> servers'[i]]
      BY <2>1
    <3> QED
      BY <2>4, <3>1
  <2>6. /\ pc' = "status"
        /\ UNCHANGED <<fleetVars, cache, queued, copy, copyCurrent, view, step,
                       history>>
    BY <1>1 DEF HandleRollingUpdate
  <2>7. outdated' \subseteq Names /\ stale' \subseteq Names
    BY <2>1, <2>2 DEF done, IInv, TypeOK
  <2>8. NeverMoreThanAsked'
    BY <2>4, <2>6 DEF IInv, NeverMoreThanAsked, Listed, history
  <2> QED
    BY <2>3, <2>5, <2>6, <2>7, <2>8 DEF fleetVars, history, IInv, TypeOK, Bounded
<1>2. ASSUME NEW f \in Fleets, Bounded(f), NEW error \in BOOLEAN, Return(error),
             \/ Accepted(f) /\ UNCHANGED used
             \/ UNCHANGED <<fleetVars, used>>
             \/ Refused,
             UNCHANGED <<serverVars, stale, history>>
      PROVE  IInv'
  <2>1. used' \in Usage /\ used'.edits = used.edits /\ used'.created = used.created
    BY <1>2, FaultKeeps DEF Refused, IInv, TypeOK
  <2>2. WorkOK'
    BY <1>2, <2>1, ReturnKeeps DEF history
  <2>3. /\ fleet' \in Fleets /\ Bounded(fleet') /\ fleetCurrent' \in BOOLEAN
        /\ fleetCache' = fleetCache
    BY <1>2 DEF Accepted, Refused, fleetVars, IInv, TypeOK, Bounded
  <2> QED
    BY <1>2, <2>1, <2>2, <2>3 DEF WorkOK, serverVars, history, IInv, TypeOK, Bounded,
                                  NeverMoreThanAsked, Listed
<1>3. CASE UpdateStatus
  <2>1. PICK f : f = [copy EXCEPT !.status = Counts(view, copy)]
    OBVIOUS
  <2>2. /\ f \in Fleets /\ f.replicas = copy.replicas
        /\ f.generation = copy.generation /\ f.exists = copy.exists
    BY <2>1, CountsType DEF IInv, TypeOK, Fleets
  <2>3. Bounded(f)
    BY <2>2 DEF IInv, Bounded
  <2> QED
    BY <1>2, <1>3, <2>1, <2>2, <2>3 DEF UpdateStatus
<1>4. CASE RemoveFinalizer
  <2>1. NoFleet \in Fleets /\ Bounded(NoFleet)
    <3>1. NoFleet.replicas = 0 /\ NoFleet.generation = 0 /\ ~NoFleet.exists
      BY DEF NoFleet
    <3> QED
      BY <3>1, RecordTypes DEF IInv, TypeOK, Usage, Bounded
  <2> QED
    BY <1>2, <1>4, <2>1 DEF RemoveFinalizer
<1> QED
  BY <1>1, <1>3, <1>4

\* The inductive invariant holds in every reachable state.
THEOREM Invariance == Spec => []IInv
<1>1. Init => IInv
  <2>1. NoFleet.replicas = 0 /\ NoFleet.generation = 0 /\ ~NoFleet.exists
    BY DEF NoFleet
  <2>2. Init => TypeOK
    <3>1. Init => used \in Usage
      BY FleetAssumption DEF Init, Usage
    <3>2. Init => /\ fleetCurrent \in BOOLEAN /\ copyCurrent \in BOOLEAN
                  /\ queued \in BOOLEAN
      BY Zenon DEF Init
    <3> QED
      BY <3>1, <3>2, FleetAssumption, RecordTypes DEF Init, TypeOK
  <2>3. Init => NeverMoreThanAsked
    BY DEF Init, NeverMoreThanAsked, Listed, NoServers, NoServer
  <2> QED
    BY <2>1, <2>2, <2>3 DEF Init, IInv, Bounded
<1>2. IInv /\ [Next]_vars => IInv'
  <2> SUFFICES ASSUME IInv, [Next]_vars PROVE IInv'
    OBVIOUS
  <2>1. CASE FleetSync
    BY <2>1 DEF FleetSync, serverVars, workVars, history, IInv, TypeOK, Bounded,
                NeverMoreThanAsked, Listed
  <2>2. CASE ServersSync
    BY <2>2 DEF ServersSync, fleetVars, workVars, history, IInv, TypeOK, Bounded,
                NeverMoreThanAsked, Listed
  <2>3. CASE UNCHANGED vars
    BY <2>3 DEF vars, IInv, TypeOK, Bounded, NeverMoreThanAsked, Listed
  <2> QED
    BY <2>1, <2>2, <2>3, ClientStep, ServerStep, BeginStep, ScaleStep, FinishStep
       DEF Next, Work
<1> QED
  BY <1>1, <1>2, PTL DEF Spec

\* Every variable keeps its type, for fleets of any size: the counters, the
\* loop index and the status never leave their ranges.
THEOREM TypeCorrect == Spec => []TypeOK
<1>1. IInv => TypeOK
  BY DEF IInv
<1> QED
  BY <1>1, Invariance, PTL

\* No fleet of any size ever has a server beyond the largest spec.replicas it
\* has been given, however stale the list its scale up starts from.
THEOREM NeverMoreThanAskedHolds == Spec => []NeverMoreThanAsked
<1>1. IInv => NeverMoreThanAsked
  BY DEF IInv
<1> QED
  BY <1>1, Invariance, PTL

-----------------------------------------------------------------------------
(* OnDelete *)

\* The fleet's deletion has begun, and it does not end in a new fleet.
Ended == fleet.deleting \/ ~fleet.exists

\* What a stale copy may say of the fleet's deletion.  OnDeleteLeavesAlone needs
\* it: cleanup is decided on the cache, and must not hit a fleet that lives.
DInv ==
    /\ fleetCurrent => fleetCache = fleet
    /\ copyCurrent => copy = fleet
    /\ fleetCache.deleting => Ended
    /\ copy.deleting => Ended
    /\ fleet.deleting \/ fleetCache.deleting \/ copy.deleting => used.created
    /\ pc = "cleanup" => copy.deleting
    /\ pc = "idle" => ~copy.deleting /\ ~copyCurrent

\* DInv is preserved by every step.
LEMMA DInvStep ==
    ASSUME IInv, DInv, [Next]_vars
    PROVE  DInv'
<1>0. fleet \in Fleets /\ fleetCache \in Fleets /\ copy \in Fleets /\ used \in Usage
  BY DEF IInv, TypeOK
<1> USE <1>0 DEF DInv, Ended
<1>n. ~NoFleet.exists /\ ~NoFleet.deleting
  BY DEF NoFleet
<1>1. CASE DeleteFleet
  BY <1>1, <1>n DEF DeleteFleet, WriteFleet, Fleets, IInv, Bounded, serverVars
<1>2. ASSUME NEW n \in Sizes, NEW strategy \in Strategies,
             CreateFleet(n, strategy)
      PROVE  DInv'
  BY <1>2, <1>n DEF CreateFleet, WriteFleet, Fleets, Usage
<1>3. ASSUME NEW n \in Sizes, NEW strategy \in Strategies,
             EditFleet(n, strategy)
      PROVE  DInv'
  BY <1>3 DEF EditFleet, WriteFleet, Fleets, Usage
<1>4. CASE FleetSync
  BY <1>4 DEF FleetSync, workVars
<1>5. CASE AddFinalizer
  BY <1>5 DEF AddFinalizer, workVars, Fleets
<1>6. CASE BeginCleanup \/ BeginScale
  BY <1>6 DEF BeginCleanup, BeginScale, Begin, fleetVars
<1>7. CASE UpdateStatus
  BY <1>7, <1>n DEF UpdateStatus, Accepted, Refused, Return, Fault, fleetVars, Fleets, Usage
<1>8. CASE RemoveFinalizer
  BY <1>8, <1>n DEF RemoveFinalizer, Accepted, Refused, Return, Fault, fleetVars, Usage
<1>9. CASE RequestFails \/ CreateCollides
  BY <1>9, <1>n DEF RequestFails, CreateCollides, Return, Fault, fleetVars, Usage
<1>10. CASE HandleRollingUpdate
  BY <1>10 DEF HandleRollingUpdate, Fault, fleetVars, Usage
<1>11. ASSUME UNCHANGED <<fleetVars, pc, copy, copyCurrent, used.created>>
       PROVE  DInv'
  BY <1>11 DEF fleetVars
<1>12. CASE \/ Skip \/ Create \/ DrainAndDelete \/ DeleteDone \/ CleanupServer
            \/ ServersSync \/ UNCHANGED vars
  <2>1. CASE Create
    BY <2>1 DEF Create, fleetVars
  <2>2. CASE ~Create
    BY <1>11, <1>12, <2>2 DEF Skip, DrainAndDelete, DeleteDone, CleanupServer,
                       ServersSync, vars, workVars, fleetVars
  <2> QED
    BY <2>1, <2>2
<1>13. ASSUME NEW i \in Names,
              \/ DeleteServer(i) \/ \E players \in 0..1 : ServerReports(i, players)
              \/ ServerGone(i) \/ GarbageCollect(i)
       PROVE  DInv'
  BY <1>11, <1>13 DEF DeleteServer, ServerReports, ServerGone,
                      GarbageCollect, workVars, Usage
<1> QED
  BY <1>1, <1>2, <1>3, <1>4, <1>5, <1>6, <1>7, <1>8, <1>9, <1>10, <1>12, <1>13
     DEF Next, Client, Work

\* Server i, if it is live, stays so and keeps its generation.
LeftAlone(i) ==
    i \in Live(servers) =>
        i \in Live(servers') /\ servers'[i].generation = servers[i].generation

\* With OnDelete in the reconcile's copy no step but a user's deletion touches a
\* living fleet's servers.
LEMMA OnDeleteStep ==
    ASSUME IInv, DInv, [Next]_vars, fleet.exists, ~fleet.deleting,
           pc # "idle" => copy.strategy = "OnDelete", NEW i \in Names
    PROVE  DeleteServer(i) \/ LeftAlone(i)
<1>0. servers \in [Names -> Servers]
  BY DEF IInv, TypeOK
<1> USE <1>0 DEF LeftAlone, Live, Listed
<1>1. ASSUME servers' = servers
      PROVE  LeftAlone(i)
  BY <1>1
<1>2. ASSUME NEW j \in Names, DeleteServer(j)
      PROVE  DeleteServer(i) \/ LeftAlone(i)
  BY <1>2 DEF DeleteServer, WriteServer
<1>3. ASSUME NEW j \in Names,
             (\E players \in 0..1 : ServerReports(j, players)) \/ ServerGone(j) \/ GarbageCollect(j)
      PROVE  LeftAlone(i)
  <2>1. ASSUME NEW players \in 0..1, ServerReports(j, players)
        PROVE  LeftAlone(i)
    <3> DEFINE r == [servers[j] EXCEPT !.running = TRUE]
    <3>1. r \in Servers /\ r.exists = servers[j].exists /\ r.deleting = servers[j].deleting
             /\ r.generation = servers[j].generation
      BY DEF Servers
    <3> DEFINE s == [r EXCEPT !.players = players]
    <3>2. s.exists = r.exists /\ s.deleting = r.deleting /\ s.generation = r.generation
      BY <3>1 DEF Servers
    <3>3. servers' = [servers EXCEPT ![j] = s]
      BY <2>1 DEF ServerReports, WriteServer
    <3> HIDE DEF r, s
    <3> QED
      BY <3>1, <3>2, <3>3
  <2> QED
    BY <1>3, <2>1 DEF ServerGone, GarbageCollect, WriteServer, Servers
<1>4. CASE Create
  BY <1>4 DEF Create, WriteServer
<1>5. CASE DrainAndDelete
  BY <1>5 DEF DrainAndDelete, SelectServersToDelete
<1>6. CASE HandleRollingUpdate
  BY <1>6 DEF HandleRollingUpdate, ToUpdate
<1>7. CASE CleanupServer
  BY <1>7 DEF CleanupServer, DInv, Ended
<1>8. CASE Client
  <2>1. ASSUME \/ DeleteFleet
               \/ \E n \in Sizes, strategy \in Strategies :
                    CreateFleet(n, strategy) \/ EditFleet(n, strategy)
        PROVE  servers' = servers
    BY <2>1 DEF DeleteFleet, CreateFleet, EditFleet, serverVars
  <2> QED
    BY <1>1, <1>2, <1>8, <2>1 DEF Client
<1>9. ASSUME \/ FleetSync \/ ServersSync \/ RequestFails \/ UNCHANGED vars
             \/ Skip \/ AddFinalizer \/ BeginCleanup \/ BeginScale \/ CreateCollides
             \/ DeleteDone \/ UpdateStatus \/ RemoveFinalizer
      PROVE  servers' = servers
  BY <1>9 DEF FleetSync, ServersSync, RequestFails, vars, Skip, AddFinalizer,
              BeginCleanup, BeginScale, Begin, CreateCollides, DeleteDone,
              UpdateStatus, RemoveFinalizer, serverVars
<1> QED
  BY <1>1, <1>3, <1>4, <1>5, <1>6, <1>7, <1>8, <1>9 DEF Next, Work

\* For fleets of any size, with the OnDelete strategy in the fleet and in the
\* copy at work, a live server of a living fleet is terminated only by a user
\* and is never updated: neither a stale list nor a cleanup decided on an old
\* copy of the fleet gets at it.
THEOREM OnDeleteLeavesAloneHolds == Spec => OnDeleteLeavesAlone
<1>1. Init => DInv
  BY DEF Init, DInv, Ended, NoFleet
<1>2. IInv /\ DInv /\ [Next]_vars => DInv'
  BY DInvStep
<1>3. IInv /\ DInv /\ [Next]_vars
        => [/\ fleet.exists /\ ~fleet.deleting /\ fleet.strategy = "OnDelete"
            /\ pc # "idle" => copy.strategy = "OnDelete"
            => \A i \in Live(servers) :
                 \/ DeleteServer(i)
                 \/ /\ i \in Live(servers')
                    /\ servers'[i].generation = servers[i].generation]_vars
  <2> SUFFICES ASSUME IInv, DInv, [Next]_vars, fleet.exists, ~fleet.deleting,
                      pc # "idle" => copy.strategy = "OnDelete",
                      NEW i \in Live(servers)
               PROVE  \/ DeleteServer(i)
                      \/ i \in Live(servers')
                         /\ servers'[i].generation = servers[i].generation
    OBVIOUS
  <2>1. i \in Names
    BY DEF Live, Listed
  <2> QED
    BY <2>1, OnDeleteStep DEF LeftAlone
<1> QED
  BY <1>1, <1>2, <1>3, Invariance, PTL DEF Spec, OnDeleteLeavesAlone
=============================================================================
