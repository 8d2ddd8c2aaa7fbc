----------------------- MODULE ServerLifecycle_proofs -----------------------
(***************************************************************************)
(* Proofs about ServerLifecycle, for any number of servers, requests,      *)
(* updates and faults: types, the depot lock, and the handshake between    *)
(* the routes that run a container and the routes that rewrite the depot.  *)
(***************************************************************************)
EXTENDS ServerLifecycle, TLAPS

\* An update that writes a status has a server to write it for.
Typed ==
  /\ TypeOK
  /\ \A u \in Updates : phase[u] \in {"mark_stopped", "mark_starting"} => cur[u] \in Servers

\* An update has the key from SET NX to its release, unless the key expires.
Holding(u) == Running(u) \/ phase[u] \in {"check", "release", "leaked"}

LockInv == \A u \in Updates : Holding(u) /\ u \notin lost => key = u

\* A start or install on its way to the container run is live in the table; it
\* stops no container, and a force-stop never gets that way.
WindowInv ==
  \A r \in Requests :
    /\ pc[r] \in {"recheck", "run"} /\ kind[r] \in {"start", "install"} /\ r \notin torn
       => status[server[r]] \in LiveStatuses
    /\ pc[r] \in {"check", "inspect", "flip"} => kind[r] # "force_stop"

Inv == Typed /\ LockInv /\ WindowInv /\ StartExcludesUpdate

-----------------------------------------------------------------------------
(* Types *)

\* The variables that change together.
TableTypes == status \in [Servers -> Statuses] /\ lost \in SUBSET Updates /\ torn \in SUBSET Requests
DockerTypes == up \in SUBSET Servers /\ key \in Updates \cup {NoUpdate} /\ faults \in 0..MaxFaults
RequestTypes ==
  /\ kind \in [Requests -> Kinds] /\ server \in [Requests -> Servers]
  /\ saw \in [Requests -> Statuses] /\ pc \in [Requests -> Pcs]
UpdateTypes ==
  /\ phase \in [Updates -> Phases]
  /\ listed \in [Updates -> SUBSET Servers] /\ toStop \in [Updates -> SUBSET Servers]
  /\ stopped \in [Updates -> SUBSET Servers] /\ cur \in [Updates -> Servers \cup {NoServer}]
MarkTypes == \A u \in Updates : phase[u] \in {"mark_stopped", "mark_starting"} => cur[u] \in Servers
ReconcilerTypes == row \in [Servers -> Statuses \cup {"none"}] /\ seen \in [Servers -> Statuses \cup {"none"}]

LEMMA Sorted ==
  Typed <=> TableTypes /\ DockerTypes /\ RequestTypes /\ UpdateTypes /\ MarkTypes /\ ReconcilerTypes
BY Zenon DEF Typed, TypeOK, TableTypes, DockerTypes, RequestTypes, UpdateTypes, MarkTypes, ReconcilerTypes

LEMMA TypeInit == Init => Typed
<1> SUFFICES ASSUME Init PROVE Typed
  BY Zenon
<1>1. TableTypes
  <2>1. {"pending", "stopped", "running"} \subseteq Statuses
    BY ONLY Zenon DEF Statuses
  <2>2. status \in [Servers -> {"pending", "stopped", "running"}] /\ lost = {} /\ torn = {}
    BY Zenon DEF Init
  <2>3. status \in [Servers -> Statuses]
    BY ONLY Zenon, <2>1, <2>2
  <2> QED
    BY ONLY Zenon, <2>2, <2>3 DEF TableTypes
<1>2. DockerTypes
  <2>1. up \in SUBSET Servers /\ key \in Updates \cup {NoUpdate} /\ faults = 0
    BY Zenon DEF Init
  <2>2. 0 \in 0..MaxFaults
    BY ONLY SMT, FaultsAssumption
  <2> QED
    BY ONLY Zenon, <2>1, <2>2 DEF DockerTypes
<1>3. RequestTypes
  BY Zenon DEF Init, RequestTypes, Kinds, Statuses, Pcs
<1>4. UpdateTypes /\ MarkTypes
  BY Zenon DEF Init, UpdateTypes, MarkTypes, Phases
<1>5. ReconcilerTypes
  BY Zenon DEF Init, ReconcilerTypes
<1> QED
  BY ONLY Zenon, <1>1, <1>2, <1>3, <1>4, <1>5, Sorted

\* A write of a status, or none.
LEMMA StatusStep ==
  ASSUME TableTypes, KeepStatus \/ \E s \in Servers, v \in Statuses : SetStatus(s, v)
  PROVE  TableTypes'
<1>1. CASE KeepStatus
  BY ONLY Zenon, TableTypes, <1>1 DEF TableTypes, KeepStatus
<1>2. ASSUME NEW s \in Servers, NEW v \in Statuses, SetStatus(s, v)
      PROVE  TableTypes'
  <2>1. status' = [status EXCEPT ![s] = v] /\ torn' \in {torn, torn \cup Window(s)} /\ UNCHANGED lost
    BY ONLY Zenon, <1>2 DEF SetStatus
  <2>2. Window(s) \in SUBSET Requests
    BY ONLY Zenon DEF Window
  <2>3. status' \in [Servers -> Statuses]
    BY ONLY Zenon, TableTypes, <2>1, v \in Statuses DEF TableTypes
  <2> QED
    BY ONLY Zenon, TableTypes, <2>1, <2>2, <2>3 DEF TableTypes
<1> QED
  BY ONLY Zenon, <1>1, <1>2, KeepStatus \/ \E s \in Servers, v \in Statuses : SetStatus(s, v)

\* A call that fails is counted.
LEMMA DockerStep ==
  ASSUME DockerTypes, Fault \/ NoFault, up' \in SUBSET Servers, key' \in Updates \cup {NoUpdate}
  PROVE  DockerTypes'
<1>1. faults \in 0..MaxFaults
  BY Zenon DEF DockerTypes
<1>2. (faults < MaxFaults /\ faults' = faults + 1) \/ faults' = faults
  BY Zenon DEF Fault, NoFault
<1>3. faults' \in 0..MaxFaults
  BY ONLY SMT, <1>1, <1>2, FaultsAssumption
<1> QED
  BY Zenon, <1>3 DEF DockerTypes

\* A request moves on.
LEMMA GotoStep ==
  ASSUME RequestTypes, NEW r \in Requests, NEW l \in Pcs, Goto(r, l)
  PROVE  RequestTypes'
<1>1. /\ pc' = [pc EXCEPT ![r] = l] /\ UNCHANGED server
      /\ saw' = [saw EXCEPT ![r] = "pending"] \/ saw' = saw
      /\ kind' = [kind EXCEPT ![r] = "start"] \/ kind' = kind
  BY ONLY Zenon, Goto(r, l) DEF Goto
<1>2. "pending" \in Statuses /\ "start" \in Kinds
  BY ONLY Zenon DEF Statuses, Kinds
<1>3. pc' \in [Requests -> Pcs]
  BY ONLY Zenon, RequestTypes, <1>1, l \in Pcs DEF RequestTypes
<1>4. saw' \in [Requests -> Statuses]
  BY ONLY Zenon, RequestTypes, <1>1, <1>2 DEF RequestTypes
<1>5. kind' \in [Requests -> Kinds]
  BY ONLY Zenon, RequestTypes, <1>1, <1>2 DEF RequestTypes
<1> QED
  BY ONLY Zenon, RequestTypes, <1>1, <1>3, <1>4, <1>5 DEF RequestTypes

\* What a step of a route does to the variables.
LEMMA RequestEffect ==
  ASSUME RequestTypes, up \in SUBSET Servers, NEW r \in Requests, RequestStep(r)
  PROVE  /\ \E l \in Pcs : Goto(r, l)
         /\ KeepStatus \/ \E v \in Statuses : SetStatus(server[r], v)
         /\ Fault \/ NoFault
         /\ up' \in {up, up \cup {server[r]}, up \ {server[r]}}
         /\ UNCHANGED <<key, updVars, recVars>>
<1>1. CASE CheckDepot(r) \/ Recheck(r) \/ Inspect(r)
  BY ONLY ZenonT(60), <1>1 DEF CheckDepot, Recheck, Inspect, Pcs
<1>2. CASE Flip(r) \/ Claim(r)
  BY ONLY ZenonT(60), <1>2 DEF Flip, Claim, Pcs, Statuses
<1>3. CASE PutBack(r) \/ FailInstall(r) \/ Mark(r)
  <2>1. saw[r] \in Statuses
    BY Zenon DEF RequestTypes
  <2> QED
    BY ONLY ZenonT(60), <1>3, <2>1 DEF PutBack, FailInstall, Mark, Pcs, Statuses
<1>4. CASE StopContainer(r) \/ StopForRestart(r)
  BY ONLY ZenonT(60), <1>4 DEF StopContainer, StopForRestart, Pcs
<1>5. CASE Run(r) \/ Throw(r)
  BY ONLY ZenonT(60), <1>5 DEF Run, Throw, Pcs
<1>6. CASE ForceRemove(r) \/ ForceStopped(r)
  BY ONLY ZenonT(60), <1>6 DEF ForceRemove, ForceStopped, Pcs, Statuses
<1> QED
  BY ONLY Zenon, RequestStep(r), <1>1, <1>2, <1>3, <1>4, <1>5, <1>6 DEF RequestStep

LEMMA RequestKeepsTypes ==
  ASSUME Typed, NEW r \in Requests, RequestStep(r)
  PROVE  Typed'
<1>1. TableTypes /\ DockerTypes /\ RequestTypes /\ UpdateTypes /\ MarkTypes /\ ReconcilerTypes
  BY Zenon, Sorted
<1>2. server[r] \in Servers /\ up \in SUBSET Servers /\ key \in Updates \cup {NoUpdate}
  BY Zenon, <1>1 DEF RequestTypes, DockerTypes
<1>3. /\ \E l \in Pcs : Goto(r, l)
      /\ KeepStatus \/ \E v \in Statuses : SetStatus(server[r], v)
      /\ Fault \/ NoFault
      /\ up' \in {up, up \cup {server[r]}, up \ {server[r]}}
      /\ UNCHANGED <<key, updVars, recVars>>
  BY Zenon, <1>1, <1>2, RequestEffect
<1>4. TableTypes'
  BY ONLY Zenon, <1>1, <1>2, <1>3, StatusStep
<1>5. DockerTypes'
  <2>1. up' \in SUBSET Servers /\ key' \in Updates \cup {NoUpdate}
    BY ONLY Zenon, <1>2, <1>3
  <2> QED
    BY ONLY Zenon, <1>1, <1>3, <2>1, DockerStep
<1>6. RequestTypes'
  BY ONLY Zenon, r \in Requests, <1>1, <1>3, GotoStep
<1>7. UpdateTypes' /\ MarkTypes' /\ ReconcilerTypes'
  BY ONLY Zenon, <1>1, <1>3 DEF UpdateTypes, MarkTypes, ReconcilerTypes, updVars, recVars
<1>8. Typed' <=> TableTypes' /\ DockerTypes' /\ RequestTypes' /\ UpdateTypes' /\ MarkTypes' /\ ReconcilerTypes'
  BY Sorted, PTL
<1> QED
  BY ONLY Zenon, <1>4, <1>5, <1>6, <1>7, <1>8

\* The server an update has in hand is named when it enters a phase that writes it.
Hand(u, p, c) ==
  /\ Enter(u, p) /\ cur' = [cur EXCEPT ![u] = c]
  /\ c \in Servers \/ (c = NoServer /\ p \notin {"mark_stopped", "mark_starting"})

\* What a step of an update does to the variables.
MovesPhase(u) ==
  \/ UNCHANGED <<phase, cur>>
  \/ \E p \in Phases \ {"mark_stopped", "mark_starting"} : Enter(u, p) /\ UNCHANGED cur
  \/ \E p \in Phases, c \in Servers \cup {NoServer} : Hand(u, p, c)
MovesServers(u) ==
  /\ UNCHANGED toStop \/ \E S \in SUBSET Servers : toStop' = [toStop EXCEPT ![u] = S]
  /\ UNCHANGED stopped \/ \E S \in SUBSET Servers : stopped' = [stopped EXCEPT ![u] = S]
  /\ UNCHANGED <<reqVars, listed, recVars>>
MovesDocker(u) ==
  /\ KeepStatus \/ \E s \in Servers, v \in Statuses : SetStatus(s, v)
  /\ Fault \/ NoFault
  /\ UNCHANGED up \/ \E s \in Servers : up' \in {up, up \cup {s}, up \ {s}}
  /\ key' \in {key, u, NoUpdate}

LEMMA UpdateEffect ==
  ASSUME UpdateTypes, MarkTypes, NEW u \in Updates, UpdateStep(u)
  PROVE  MovesPhase(u) /\ MovesServers(u) /\ MovesDocker(u)
<1>0. stopped[u] \in SUBSET Servers /\ toStop[u] \in SUBSET Servers /\ DOMAIN stopped = Updates /\ DOMAIN toStop = Updates
  BY ONLY Zenon, UpdateTypes, u \in Updates DEF UpdateTypes
<1>1. CASE AcquireLock(u) \/ CheckLive(u) \/ Connect(u) \/ RunDepot(u) \/ DepotDone(u) \/ RecordUpdate(u)
           \/ AllRestarted(u) \/ ReleaseLock(u)
  <2>1. MovesPhase(u)
    BY ONLY ZenonT(60), <1>1 DEF AcquireLock, CheckLive, Connect, RunDepot, DepotDone, RecordUpdate, AllRestarted,
       ReleaseLock, MovesPhase, Phases
  <2>2. MovesServers(u)
    BY ONLY ZenonT(60), <1>1 DEF AcquireLock, CheckLive, Connect, RunDepot, DepotDone, RecordUpdate, AllRestarted,
       ReleaseLock, MovesServers
  <2>3. MovesDocker(u)
    BY ONLY ZenonT(60), <1>1 DEF AcquireLock, CheckLive, Connect, RunDepot, DepotDone, RecordUpdate, AllRestarted,
       ReleaseLock, MovesDocker
  <2> QED
    BY ONLY Zenon, <2>1, <2>2, <2>3
<1>2. CASE StopListed(u) \/ RestartStopped(u)
  <2>1. MovesPhase(u)
    BY ONLY ZenonT(60), <1>0, <1>2 DEF StopListed, RestartStopped, MovesPhase, Hand, Phases
  <2>2. MovesServers(u)
    <3>1. \A s \in Servers : stopped[u] \ {s} \in SUBSET Servers /\ toStop[u] \ {s} \in SUBSET Servers
      BY ONLY Zenon, <1>0
    <3>2. /\ UNCHANGED toStop \/ \E s \in Servers : toStop' = [toStop EXCEPT ![u] = toStop[u] \ {s}]
          /\ UNCHANGED stopped \/ \E s \in Servers : stopped' = [stopped EXCEPT ![u] = stopped[u] \ {s}]
          /\ UNCHANGED <<reqVars, listed, recVars>>
      BY ONLY ZenonT(60), <1>0, <1>2 DEF StopListed, RestartStopped
    <3> QED
      BY ONLY Zenon, <3>1, <3>2 DEF MovesServers
  <2>3. MovesDocker(u)
    BY ONLY ZenonT(60), <1>0, <1>2 DEF StopListed, RestartStopped, MovesDocker
  <2> QED
    BY ONLY Zenon, <2>1, <2>2, <2>3
<1>3. CASE MarkStopped(u) \/ MarkStarting(u)
  <2>0. cur[u] \in Servers
    BY ONLY Zenon, MarkTypes, u \in Updates, <1>3 DEF MarkTypes, MarkStopped, MarkStarting
  <2>1. MovesPhase(u)
    BY ONLY ZenonT(60), <1>3 DEF MarkStopped, MarkStarting, MovesPhase, Hand, Phases
  <2>2. MovesServers(u)
    <3>1. stopped[u] \cup {cur[u]} \in SUBSET Servers
      BY ONLY Zenon, <1>0, <2>0
    <3>2. /\ UNCHANGED toStop
          /\ UNCHANGED stopped \/ stopped' = [stopped EXCEPT ![u] = stopped[u] \cup {cur[u]}]
          /\ UNCHANGED <<reqVars, listed, recVars>>
      BY ONLY ZenonT(60), <1>3 DEF MarkStopped, MarkStarting
    <3> QED
      BY ONLY Zenon, <3>1, <3>2 DEF MovesServers
  <2>3. MovesDocker(u)
    BY ONLY ZenonT(60), <1>3, <2>0 DEF MarkStopped, MarkStarting, MovesDocker, Statuses
  <2> QED
    BY ONLY Zenon, <2>1, <2>2, <2>3
<1> QED
  BY ONLY Zenon, UpdateStep(u), <1>1, <1>2, <1>3 DEF UpdateStep

LEMMA UpdateKeepsTypes ==
  ASSUME Typed, NEW u \in Updates, UpdateStep(u)
  PROVE  Typed'
<1>1. TableTypes /\ DockerTypes /\ RequestTypes /\ UpdateTypes /\ MarkTypes /\ ReconcilerTypes
  BY Zenon, Sorted
<1>2. MovesPhase(u) /\ MovesServers(u) /\ MovesDocker(u)
  BY Zenon, <1>1, UpdateEffect
<1>3. TableTypes'
  BY ONLY Zenon, <1>1, <1>2, StatusStep DEF MovesDocker
<1>4. DockerTypes'
  <2>1. up' \in SUBSET Servers /\ key' \in Updates \cup {NoUpdate} /\ (Fault \/ NoFault)
    BY ONLY Zenon, u \in Updates, <1>1, <1>2 DEF MovesDocker, DockerTypes
  <2> QED
    BY ONLY Zenon, <1>1, <2>1, DockerStep
<1>5. phase' \in [Updates -> Phases]
  BY ONLY Zenon, <1>1, <1>2 DEF MovesPhase, Hand, Enter, UpdateTypes
<1>6. cur' \in [Updates -> Servers \cup {NoServer}]
  BY ONLY Zenon, <1>1, <1>2 DEF MovesPhase, Hand, UpdateTypes
<1>7. MarkTypes'
  <2>1. DOMAIN phase = Updates /\ DOMAIN cur = Updates
    BY ONLY Zenon, <1>1 DEF UpdateTypes
  <2>2. CASE UNCHANGED <<phase, cur>>
    BY ONLY Zenon, <1>1, <2>2 DEF MarkTypes
  <2>3. ASSUME NEW p \in Phases \ {"mark_stopped", "mark_starting"}, Enter(u, p), UNCHANGED cur
        PROVE  MarkTypes'
    BY ONLY Zenon, <1>1, <2>1, <2>3 DEF MarkTypes, Enter
  <2>4. ASSUME NEW p \in Phases, NEW c \in Servers \cup {NoServer}, Hand(u, p, c)
        PROVE  MarkTypes'
    BY ONLY Zenon, <1>1, <2>1, <2>4 DEF MarkTypes, Hand, Enter
  <2> QED
    BY ONLY Zenon, <1>2, <2>2, <2>3, <2>4 DEF MovesPhase
<1>8. toStop' \in [Updates -> SUBSET Servers] /\ stopped' \in [Updates -> SUBSET Servers]
  <2>1. toStop \in [Updates -> SUBSET Servers] /\ stopped \in [Updates -> SUBSET Servers]
    BY ONLY Zenon, <1>1 DEF UpdateTypes
  <2>2. UNCHANGED toStop \/ \E S \in SUBSET Servers : toStop' = [toStop EXCEPT ![u] = S]
    BY ONLY Zenon, <1>2 DEF MovesServers
  <2>3. UNCHANGED stopped \/ \E S \in SUBSET Servers : stopped' = [stopped EXCEPT ![u] = S]
    BY ONLY Zenon, <1>2 DEF MovesServers
  <2>4. toStop' \in [Updates -> SUBSET Servers]
    BY ONLY Zenon, <2>1, <2>2
  <2>5. stopped' \in [Updates -> SUBSET Servers]
    BY ONLY Zenon, <2>1, <2>3
  <2> QED
    BY ONLY Zenon, <2>4, <2>5
<1>9. UpdateTypes'
  BY ONLY Zenon, <1>1, <1>2, <1>5, <1>6, <1>8 DEF MovesServers, UpdateTypes
<1>10. RequestTypes' /\ ReconcilerTypes'
  BY ONLY Zenon, <1>1, <1>2 DEF MovesServers, RequestTypes, ReconcilerTypes, reqVars, recVars
<1>11. Typed' <=> TableTypes' /\ DockerTypes' /\ RequestTypes' /\ UpdateTypes' /\ MarkTypes' /\ ReconcilerTypes'
  BY Sorted, PTL
<1> QED
  BY ONLY Zenon, <1>3, <1>4, <1>7, <1>9, <1>10, <1>11

\* The reconciler, Docker and the watchdog.
LEMMA HostKeepsTypes ==
  ASSUME Typed, NEW s \in Servers, ReconcileStep(s) \/ CrashLoop(s) \/ FailStaleInstall(s) \/ ContainerFlaps(s)
  PROVE  Typed'
<1>1. TableTypes /\ DockerTypes /\ RequestTypes /\ UpdateTypes /\ MarkTypes /\ ReconcilerTypes
  BY Zenon, Sorted
<1>2. status[s] \in Statuses /\ seen[s] \in Statuses \cup {"none"} /\ Mapped(s) \in Statuses
  BY ONLY Zenon, s \in Servers, <1>1 DEF TableTypes, ReconcilerTypes, Mapped, Statuses
<1>3. /\ KeepStatus \/ \E v \in Statuses : SetStatus(s, v)
      /\ Fault \/ NoFault
      /\ up' \in {up, up \cup {s}, up \ {s}} /\ UNCHANGED <<key, reqVars, updVars>>
      /\ UNCHANGED row \/ \E v \in Statuses \cup {"none"} : row' = [row EXCEPT ![s] = v]
      /\ UNCHANGED seen \/ \E v \in Statuses \cup {"none"} : seen' = [seen EXCEPT ![s] = v]
  <2>1. CASE ReconcileRead(s) \/ ReconcileInspect(s)
    BY ONLY ZenonT(60), <1>2, <2>1 DEF ReconcileRead, ReconcileInspect
  <2>2. CASE ReconcileWrite(s)
    BY ONLY ZenonT(60), <1>2, <2>2 DEF ReconcileWrite
  <2>3. CASE CrashLoop(s) \/ FailStaleInstall(s)
    BY ONLY ZenonT(60), <2>3 DEF CrashLoop, FailStaleInstall, Statuses, recVars
  <2>4. CASE ContainerFlaps(s)
    BY ONLY ZenonT(60), <2>4 DEF ContainerFlaps, recVars
  <2> QED
    BY Zenon, <2>1, <2>2, <2>3, <2>4 DEF ReconcileStep
<1>4. TableTypes'
  BY ONLY Zenon, s \in Servers, <1>1, <1>3, StatusStep
<1>5. DockerTypes'
  <2>1. up' \in SUBSET Servers /\ key' \in Updates \cup {NoUpdate}
    BY ONLY Zenon, s \in Servers, <1>1, <1>3 DEF DockerTypes
  <2> QED
    BY ONLY Zenon, <1>1, <1>3, <2>1, DockerStep
<1>6. RequestTypes' /\ UpdateTypes' /\ MarkTypes'
  BY ONLY Zenon, <1>1, <1>3 DEF RequestTypes, UpdateTypes, MarkTypes, reqVars, updVars
<1>7. ReconcilerTypes'
  <2>1. row' \in [Servers -> Statuses \cup {"none"}]
    <3>1. row \in [Servers -> Statuses \cup {"none"}]
      BY ONLY Zenon, <1>1 DEF ReconcilerTypes
    <3>2. UNCHANGED row \/ \E v \in Statuses \cup {"none"} : row' = [row EXCEPT ![s] = v]
      BY ONLY Zenon, <1>3
    <3> QED
      BY ONLY Zenon, <3>1, <3>2
  <2>2. seen' \in [Servers -> Statuses \cup {"none"}]
    <3>1. seen \in [Servers -> Statuses \cup {"none"}]
      BY ONLY Zenon, <1>1 DEF ReconcilerTypes
    <3>2. UNCHANGED seen \/ \E v \in Statuses \cup {"none"} : seen' = [seen EXCEPT ![s] = v]
      BY ONLY Zenon, <1>3
    <3> QED
      BY ONLY Zenon, <3>1, <3>2
  <2> QED
    BY ONLY Zenon, <2>1, <2>2 DEF ReconcilerTypes
<1>8. Typed' <=> TableTypes' /\ DockerTypes' /\ RequestTypes' /\ UpdateTypes' /\ MarkTypes' /\ ReconcilerTypes'
  BY Sorted, PTL
<1> QED
  BY ONLY Zenon, <1>4, <1>5, <1>6, <1>7, <1>8

LEMMA TypeNext == Typed /\ [Next]_vars => Typed'
<1> SUFFICES ASSUME Typed, [Next]_vars
             PROVE  Typed'
  BY Zenon
<1>0. TableTypes /\ DockerTypes /\ RequestTypes /\ UpdateTypes /\ MarkTypes /\ ReconcilerTypes
  BY Zenon, Sorted
<1> DEFINE Types == TableTypes' /\ DockerTypes' /\ RequestTypes' /\ UpdateTypes' /\ MarkTypes' /\ ReconcilerTypes'
<1>1. ASSUME NEW r \in Requests, NEW k \in Kinds, NEW s \in Servers, Begin(r, k, s)
      PROVE  Types
  <2>1. TableTypes' /\ DockerTypes' /\ UpdateTypes' /\ MarkTypes' /\ ReconcilerTypes'
    BY ONLY ZenonT(60), <1>0, <1>1 DEF Begin, NoFault, TableTypes, DockerTypes, UpdateTypes, MarkTypes, ReconcilerTypes,
       updVars, recVars
  <2>2. status[s] \in Statuses /\ "pending" \in Statuses
    BY ONLY Zenon, s \in Servers, <1>0 DEF TableTypes, Statuses
  <2>3. \E v \in Statuses : saw' = [saw EXCEPT ![r] = v]
    BY ONLY Zenon, <1>1, <2>2 DEF Begin
  <2>4. \E l \in Pcs : pc' = [pc EXCEPT ![r] = l]
    BY ONLY Zenon, <1>1 DEF Begin, Pcs
  <2>5. kind' = [kind EXCEPT ![r] = k] /\ server' = [server EXCEPT ![r] = s]
    BY ONLY Zenon, <1>1 DEF Begin
  <2>6. RequestTypes'
    BY ONLY Zenon, k \in Kinds, s \in Servers, <1>0, <2>3, <2>4, <2>5 DEF RequestTypes
  <2> QED
    BY ONLY Zenon, <2>1, <2>6
<1>2. ASSUME NEW u \in Updates, NEW L \in SUBSET Servers, NEW T \in SUBSET Servers,
             phase' = [phase EXCEPT ![u] = "lock"], listed' = [listed EXCEPT ![u] = L],
             toStop' = [toStop EXCEPT ![u] = T], stopped' = [stopped EXCEPT ![u] = {}], lost' = lost \ {u},
             NoFault, UNCHANGED <<status, torn, up, key, reqVars, cur, recVars>>
      PROVE  Types
  <2>1. TableTypes' /\ DockerTypes' /\ RequestTypes' /\ ReconcilerTypes'
    BY ONLY ZenonT(60), <1>0, <1>2 DEF NoFault, TableTypes, DockerTypes, RequestTypes, ReconcilerTypes, reqVars, recVars
  <2>2. "lock" \in Phases \ {"mark_stopped", "mark_starting"}
    BY ONLY Zenon DEF Phases
  <2>3. UpdateTypes'
    BY ONLY ZenonT(60), <1>0, <1>2, <2>2 DEF UpdateTypes
  <2>4. DOMAIN phase = Updates
    BY ONLY Zenon, <1>0 DEF UpdateTypes
  <2>5. MarkTypes'
    BY ONLY Zenon, <1>0, <1>2, <2>2, <2>4 DEF MarkTypes
  <2> QED
    BY ONLY Zenon, <2>1, <2>3, <2>5
<1>3. ASSUME NEW u \in Updates, NEW L \in SUBSET Servers, FleetUpdate(u, L)
      PROVE  Types
  <2>1. {s \in L : status[s] \in RestartableStatuses} \in SUBSET Servers
    BY ONLY Zenon, L \in SUBSET Servers
  <2> QED
    BY ONLY ZenonT(60), u \in Updates, L \in SUBSET Servers, <1>2, <1>3, <2>1 DEF FleetUpdate, Enter
<1>4. ASSUME NEW u \in Updates, NEW s \in Servers, GameUpdate(u, s)
      PROVE  Types
  <2>1. {s} \in SUBSET Servers /\ {} \in SUBSET Servers
    BY ONLY Zenon, s \in Servers
  <2> QED
    BY ONLY ZenonT(60), u \in Updates, <1>2, <1>4, <2>1 DEF GameUpdate, Enter
<1>5. ASSUME ExpireLock
      PROVE  Types
  <2>1. DockerTypes'
    <3>1. (Fault \/ NoFault) /\ up' = up /\ key' = NoUpdate
      BY ONLY Zenon, <1>5 DEF ExpireLock
    <3>2. up' \in SUBSET Servers /\ key' \in Updates \cup {NoUpdate}
      BY ONLY Zenon, <1>0, <3>1 DEF DockerTypes
    <3> QED
      BY ONLY Zenon, <1>0, <3>1, <3>2, DockerStep
  <2>2. TableTypes'
    BY ONLY Zenon, <1>0, <1>5 DEF ExpireLock, TableTypes, DockerTypes
  <2>3. RequestTypes' /\ UpdateTypes' /\ MarkTypes' /\ ReconcilerTypes'
    BY ONLY Zenon, <1>0, <1>5 DEF ExpireLock, RequestTypes, UpdateTypes, MarkTypes, ReconcilerTypes, reqVars, updVars, recVars
  <2> QED
    BY ONLY Zenon, <2>1, <2>2, <2>3
<1>6. ASSUME Crash
      PROVE  Types
  <2>1. TableTypes' /\ DockerTypes'
    <3>1. KeepStatus /\ (Fault \/ NoFault) /\ up' = up /\ key' = key
      BY ONLY Zenon, <1>6 DEF Crash
    <3>2. up' \in SUBSET Servers /\ key' \in Updates \cup {NoUpdate}
      BY ONLY Zenon, <1>0, <3>1 DEF DockerTypes
    <3> QED
      BY ONLY Zenon, <1>0, <3>1, <3>2, StatusStep, DockerStep
  <2>2. RequestTypes'
    BY ONLY Zenon, <1>0, <1>6 DEF Crash, RequestTypes, Kinds, Pcs, Statuses
  <2>3. UpdateTypes' /\ MarkTypes'
    BY ONLY Zenon, <1>6 DEF Crash, UpdateTypes, MarkTypes, Phases
  <2>4. ReconcilerTypes'
    BY ONLY Zenon, <1>6 DEF Crash, ReconcilerTypes
  <2> QED
    BY ONLY Zenon, <2>1, <2>2, <2>3, <2>4
<1>7. ASSUME UNCHANGED vars
      PROVE  Types
  BY ONLY ZenonT(60), <1>0, <1>7 DEF vars, history, reqVars, updVars, recVars, TableTypes, DockerTypes, RequestTypes,
     UpdateTypes, MarkTypes, ReconcilerTypes
<1>8. Typed' <=> Types
  BY Sorted, PTL
<1> QED
  BY Zenon, <1>1, <1>3, <1>4, <1>5, <1>6, <1>7, <1>8, RequestKeepsTypes, UpdateKeepsTypes, HostKeepsTypes DEF Next

\* Every variable has its type in every state.
THEOREM TypesHold == Spec => []TypeOK
<1>1. Typed => TypeOK
  BY Zenon DEF Typed
<1> QED
  BY <1>1, TypeInit, TypeNext, PTL DEF Spec

-----------------------------------------------------------------------------
(* The lock *)

\* Only the updates and the loss of a key touch the lock.
LEMMA RequestFrame ==
  ASSUME NEW r \in Requests, RequestStep(r) \/ \E k \in Kinds, s \in Servers : Begin(r, k, s)
  PROVE  UNCHANGED <<updVars, key, lost>>
BY Zenon DEF Begin, RequestStep, CheckDepot, Inspect, Flip, Claim, Recheck, PutBack, FailInstall,
       StopContainer, StopForRestart, Run, Mark,
       ForceRemove, ForceStopped, Throw,
       KeepStatus, SetStatus

LEMMA ReconcileFrame ==
  ASSUME NEW s \in Servers, ReconcileStep(s) \/ CrashLoop(s) \/ FailStaleInstall(s) \/ ContainerFlaps(s)
  PROVE  UNCHANGED <<reqVars, updVars, key, lost>>
BY Zenon DEF ReconcileStep, ReconcileRead, ReconcileInspect, ReconcileWrite, CrashLoop, FailStaleInstall,
       ContainerFlaps, KeepStatus, SetStatus

LEMMA LockNext == Typed /\ LockInv /\ [Next]_vars => LockInv'
<1> SUFFICES ASSUME Typed, LockInv, [Next]_vars
             PROVE  LockInv'
  BY Zenon
<1> USE UpdatesAssumption DEF LockInv, Holding, Running
<1>0. phase \in [Updates -> Phases]
  BY Zenon DEF Typed, TypeOK
<1> USE <1>0
<1>1. CASE UNCHANGED <<phase, key, lost>>
  BY Zenon, <1>1
<1>2. ASSUME NEW u \in Updates, (\E L \in SUBSET Servers : FleetUpdate(u, L)) \/ \E s \in Servers : GameUpdate(u, s)
      PROVE  LockInv'
  <2>1. /\ phase' = [phase EXCEPT ![u] = "lock"]
        /\ lost' = lost \ {u} /\ key' = key /\ phase[u] = "idle"
    BY ONLY Zenon, <1>2 DEF FleetUpdate, GameUpdate, Enter
  <2> QED
    BY ZenonT(60), <2>1
<1>3. ASSUME NEW u \in Updates, AcquireLock(u)
      PROVE  LockInv'
  BY Zenon, <1>3 DEF AcquireLock, Enter, KeepStatus
<1>4. ASSUME NEW u \in Updates, ReleaseLock(u)
      PROVE  LockInv'
  BY Zenon, <1>4 DEF ReleaseLock, Enter, KeepStatus
<1>5. ASSUME NEW u \in Updates, NEW p, Holding(u), phase' = [phase EXCEPT ![u] = p], UNCHANGED <<key, lost>>
      PROVE  LockInv'
  BY Zenon, <1>5
<1>6. ASSUME NEW u \in Updates, UpdateStep(u)
      PROVE  LockInv'
  <2>1. CASE AcquireLock(u) \/ ReleaseLock(u)
    BY Zenon, <1>3, <1>4, <2>1
  <2>2. CASE CheckLive(u) \/ Connect(u) \/ RunDepot(u) \/ DepotDone(u) \/ RecordUpdate(u) \/ AllRestarted(u)
    BY Zenon, <1>5, <2>2 DEF CheckLive, Connect, RunDepot, DepotDone, RecordUpdate, AllRestarted, Enter, KeepStatus
  <2>3. CASE StopListed(u) \/ MarkStopped(u) \/ RestartStopped(u) \/ MarkStarting(u)
    BY Zenon, <1>1, <1>5, <2>3 DEF StopListed, MarkStopped, RestartStopped, MarkStarting, Enter, KeepStatus, SetStatus
  <2> QED
    BY Zenon, <1>6, <2>1, <2>2, <2>3 DEF UpdateStep
<1>7. CASE ExpireLock
  BY Zenon, <1>7 DEF ExpireLock, updVars
<1>8. CASE Crash
  BY Zenon, <1>8 DEF Crash, KeepStatus
<1>9. CASE UNCHANGED vars
  BY Zenon, <1>1, <1>9 DEF vars, updVars, history
<1>10. ASSUME NEW r \in Requests, RequestStep(r) \/ \E k \in Kinds, s \in Servers : Begin(r, k, s)
       PROVE  LockInv'
  BY Zenon, <1>1, <1>10, RequestFrame DEF updVars
<1>11. ASSUME NEW s \in Servers, ReconcileStep(s) \/ CrashLoop(s) \/ FailStaleInstall(s) \/ ContainerFlaps(s)
       PROVE  LockInv'
  BY Zenon, <1>1, <1>11, ReconcileFrame DEF updVars
<1> QED
  BY Zenon, <1>2, <1>6, <1>7, <1>8, <1>9, <1>10, <1>11 DEF Next

\* Two updates own the depot at the same time only if one has lost its key.
THEOREM UpdatesExclude == Spec => []OneUpdateAtATime
<1>1. Init => LockInv
  BY ZenonT(60) DEF Init, LockInv, Holding, Running
<1>2. LockInv => OneUpdateAtATime
  BY Zenon DEF LockInv, Holding, OneUpdateAtATime
<1> QED
  BY <1>1, <1>2, TypeInit, TypeNext, LockNext, PTL DEF Spec

-----------------------------------------------------------------------------
(* The handshake *)

\* A status write by somebody else either leaves the server live or is recorded.
LEMMA WindowSetStatus ==
  ASSUME Typed, WindowInv, NEW s \in Servers, NEW v, SetStatus(s, v), UNCHANGED reqVars
  PROVE  WindowInv'
BY Zenon DEF Typed, TypeOK, WindowInv, SetStatus, Window, reqVars

LEMMA WindowKeepStatus ==
  ASSUME WindowInv, KeepStatus, UNCHANGED reqVars
  PROVE  WindowInv'
BY Zenon DEF WindowInv, KeepStatus, reqVars

LEMMA WindowRequest ==
  ASSUME Typed, WindowInv, NEW r \in Requests, RequestStep(r)
  PROVE  WindowInv'
<1> DEFINE Win(q) ==
             /\ pc[q] \in {"recheck", "run"} /\ kind[q] \in {"start", "install"} /\ q \notin torn
                => status[server[q]] \in LiveStatuses
             /\ pc[q] \in {"check", "inspect", "flip"} => kind[q] # "force_stop"
<1>0. /\ RequestTypes /\ up \in SUBSET Servers
      /\ DOMAIN pc = Requests /\ DOMAIN kind = Requests /\ DOMAIN status = Servers /\ server[r] \in Servers
  BY Zenon, Sorted DEF RequestTypes, TableTypes, DockerTypes
<1>1. /\ \E l \in Pcs : Goto(r, l)
      /\ KeepStatus \/ \E v \in Statuses : SetStatus(server[r], v)
  BY Zenon, <1>0, RequestEffect
<1>2. \A q \in Requests : Win(q)
  BY Zenon DEF WindowInv
<1>3. ASSUME NEW q \in Requests, q # r
      PROVE  Win(q)'
  <2>1. pc'[q] = pc[q] /\ kind'[q] = kind[q] /\ server' = server
    BY ONLY Zenon, <1>0, <1>1, <1>3 DEF Goto
  <2>2. CASE KeepStatus
    BY ONLY Zenon, <1>2, <1>3, <2>1, <2>2 DEF KeepStatus
  <2>3. ASSUME NEW v \in Statuses, SetStatus(server[r], v)
        PROVE  Win(q)'
    <3>1. /\ torn \subseteq torn'
          /\ status'[server[q]] = status[server[q]] \/ (server[q] = server[r] /\ status'[server[q]] = v)
          /\ v \in LiveStatuses \/ Window(server[r]) \subseteq torn'
      <4>1. /\ status' = [status EXCEPT ![server[r]] = v]
            /\ torn' = IF v \in LiveStatuses THEN torn ELSE torn \cup Window(server[r])
        BY ONLY Zenon, <2>3 DEF SetStatus
      <4>2. server[q] \in Servers
        BY ONLY Zenon, <1>0, <1>3 DEF RequestTypes
      <4>3. status'[server[q]] = status[server[q]] \/ (server[q] = server[r] /\ status'[server[q]] = v)
        BY ONLY Zenon, <1>0, <4>1, <4>2
      <4>4. CASE v \in LiveStatuses
        BY ONLY Zenon, <4>1, <4>3, <4>4
      <4>5. CASE v \notin LiveStatuses
        <5>1. torn' = torn \cup Window(server[r])
          BY ONLY Zenon, <4>1, <4>5
        <5> QED
          BY ONLY Zenon, <4>3, <5>1
      <4> QED
        BY ONLY Zenon, <4>4, <4>5
    <3>2. server[q] = server[r] /\ pc[q] \in {"recheck", "run"} => q \in Window(server[r])
      BY ONLY Zenon, <1>3 DEF Window
    <3> QED
      BY ONLY Zenon, <1>2, <1>3, <2>1, <3>1, <3>2
  <2> QED
    BY ONLY Zenon, <1>1, <2>2, <2>3
<1>4. ASSUME pc'[r] \in {"inspect", "flip"} /\ pc[r] \in {"check", "inspect"} /\ kind'[r] = kind[r]
      PROVE  Win(r)'
  BY ONLY Zenon, r \in Requests, <1>2, <1>4
<1>5. ASSUME pc'[r] \in {"idle", "revert", "mark", "stop", "swap"}
      PROVE  Win(r)'
  BY ONLY Zenon, <1>5
<1>6. CASE CheckDepot(r) \/ Inspect(r)
  <2>1. (pc'[r] \in {"inspect", "flip"} /\ pc[r] \in {"check", "inspect"} /\ kind'[r] = kind[r])
        \/ pc'[r] \in {"idle", "mark"}
    BY ONLY ZenonT(60), r \in Requests, <1>0, <1>6 DEF CheckDepot, Inspect, Goto
  <2>2. Win(r)'
    BY ONLY Zenon, <1>4, <1>5, <2>1
  <2> QED
    BY ONLY Zenon, <1>3, <2>2 DEF WindowInv
<1>7. CASE Recheck(r)
  <2>1. /\ pc[r] = "recheck" /\ pc'[r] \in {"revert", "run"} /\ kind'[r] = kind[r] /\ server' = server
        /\ status' = status /\ torn' = torn
    BY ONLY ZenonT(60), r \in Requests, <1>0, <1>7 DEF Recheck, Goto, KeepStatus
  <2>2. Win(r)'
    BY ONLY Zenon, r \in Requests, <1>2, <2>1
  <2> QED
    BY ONLY Zenon, <1>3, <2>2 DEF WindowInv
<1>8. CASE Flip(r) \/ Claim(r)
  <2>1. \/ pc'[r] \in {"idle", "stop"}
        \/ /\ pc'[r] = "recheck" /\ server' = server
           /\ \E v \in {"stopping", "starting", "installing"} : status' = [status EXCEPT ![server[r]] = v]
    BY ONLY ZenonT(60), r \in Requests, <1>0, <1>8 DEF Flip, Claim, Goto, SetStatus
  <2>2. {"stopping", "starting", "installing"} \subseteq LiveStatuses
    BY ONLY Zenon DEF LiveStatuses
  <2>3. Win(r)'
    <3>1. CASE pc'[r] \in {"idle", "stop"}
      BY ONLY Zenon, <1>5, <3>1
    <3>2. ASSUME pc'[r] = "recheck", server' = server, NEW v \in {"stopping", "starting", "installing"},
                 status' = [status EXCEPT ![server[r]] = v]
          PROVE  Win(r)'
      <4>1. status'[server'[r]] \in LiveStatuses
        BY ONLY Zenon, <1>0, <2>2, <3>2
      <4> QED
        BY ONLY Zenon, <3>2, <4>1
    <3> QED
      BY ONLY Zenon, <2>1, <3>1, <3>2
  <2> QED
    BY ONLY Zenon, <1>3, <2>3 DEF WindowInv
<1>9. CASE StopForRestart(r)
  <2>1. pc'[r] \in {"run", "mark"} /\ kind'[r] = "restart"
    BY ONLY ZenonT(60), r \in Requests, <1>0, <1>9 DEF StopForRestart, Goto
  <2>2. Win(r)'
    BY ONLY Zenon, <2>1
  <2> QED
    BY ONLY Zenon, <1>3, <2>2 DEF WindowInv
<1>10. CASE PutBack(r) \/ FailInstall(r) \/ Mark(r) \/ StopContainer(r) \/ Run(r) \/ Throw(r) \/ ForceRemove(r)
            \/ ForceStopped(r)
  <2>1. pc'[r] \in {"idle", "revert", "mark", "stop", "swap"}
    BY ONLY ZenonT(60), r \in Requests, <1>0, <1>10 DEF PutBack, FailInstall, Mark, StopContainer, Run, Throw, ForceRemove,
       ForceStopped, Goto
  <2> QED
    BY ONLY Zenon, <1>3, <1>5, <2>1 DEF WindowInv
<1> QED
  BY ONLY Zenon, RequestStep(r), <1>6, <1>7, <1>8, <1>9, <1>10 DEF RequestStep

LEMMA WindowNext == Typed /\ WindowInv /\ [Next]_vars => WindowInv'
<1> SUFFICES ASSUME Typed, WindowInv, [Next]_vars
             PROVE  WindowInv'
  BY Zenon
<1>1. ASSUME NEW r \in Requests, NEW k \in Kinds, NEW s \in Servers, Begin(r, k, s)
      PROVE  WindowInv'
  BY Zenon, <1>1 DEF Begin, WindowInv, Typed, TypeOK
<1>2. ASSUME NEW u \in Updates, (\E L \in SUBSET Servers : FleetUpdate(u, L)) \/ \E s \in Servers : GameUpdate(u, s)
      PROVE  WindowInv'
  BY Zenon, <1>2 DEF FleetUpdate, GameUpdate, WindowInv, reqVars
<1>3. ASSUME NEW u \in Updates, UpdateStep(u)
      PROVE  WindowInv'
  <2>1. CASE MarkStopped(u) \/ MarkStarting(u)
    BY Zenon, <2>1, WindowSetStatus, WindowKeepStatus DEF MarkStopped, MarkStarting, Typed
  <2>2. CASE ~(MarkStopped(u) \/ MarkStarting(u))
    BY Zenon, <1>3, <2>2, WindowKeepStatus DEF UpdateStep, AcquireLock, CheckLive, Connect, StopListed, RunDepot, DepotDone,
       RecordUpdate, RestartStopped, AllRestarted, ReleaseLock
  <2> QED
    BY Zenon, <2>1, <2>2
<1>4. CASE ExpireLock
  BY Zenon, <1>4 DEF ExpireLock, WindowInv, reqVars
<1>5. ASSUME NEW s \in Servers, ReconcileStep(s) \/ CrashLoop(s) \/ FailStaleInstall(s) \/ ContainerFlaps(s)
      PROVE  WindowInv'
  BY Zenon, <1>5, WindowSetStatus, WindowKeepStatus DEF ReconcileStep, ReconcileRead, ReconcileInspect,
     ReconcileWrite, CrashLoop, FailStaleInstall, ContainerFlaps
<1>6. CASE Crash
  BY Zenon, <1>6 DEF Crash, WindowInv
<1>7. CASE UNCHANGED vars
  BY Zenon, <1>7 DEF vars, history, WindowInv, reqVars
<1> QED
  BY Zenon, <1>1, <1>2, <1>3, <1>4, <1>5, <1>6, <1>7, WindowRequest DEF Next

\* A request that reaches its container run has found the key free; an update
\* that passes its live check has found no start or install in its window.
LEMMA ExclusionNext == Inv /\ [Next]_vars => StartExcludesUpdate'
<1> SUFFICES ASSUME Inv, [Next]_vars
             PROVE  StartExcludesUpdate'
  BY Zenon
<1>0. /\ pc \in [Requests -> Pcs] /\ kind \in [Requests -> Kinds] /\ server \in [Requests -> Servers]
      /\ phase \in [Updates -> Phases] /\ listed \in [Updates -> SUBSET Servers]
      /\ LockInv /\ WindowInv /\ StartExcludesUpdate
  BY Zenon DEF Inv, Typed, TypeOK
<1> USE <1>0 DEF StartExcludesUpdate
\* Steps that bring no request to its run and no update into the depot.
<1>1. ASSUME \A r \in Requests : pc'[r] = "run" /\ kind'[r] \in {"start", "install"} /\ r \notin torn'
               => pc[r] = "run" /\ kind[r] = kind'[r] /\ server[r] = server'[r] /\ r \notin torn,
             \A u \in Updates : Running(u)' /\ u \notin lost'
               => Running(u) /\ u \notin lost /\ listed[u] = listed'[u]
      PROVE  StartExcludesUpdate'
  BY Zenon, <1>1
<1>2. ASSUME NEW r \in Requests, NEW k \in Kinds, NEW s \in Servers, Begin(r, k, s)
      PROVE  StartExcludesUpdate'
  BY ZenonT(60), <1>1, <1>2 DEF Begin, updVars, Running
<1>3. ASSUME NEW r \in Requests, Recheck(r)
      PROVE  StartExcludesUpdate'
  <2>1. key = NoUpdate => \A u \in Updates : Running(u) => u \in lost
    BY Zenon, UpdatesAssumption DEF LockInv, Holding
  <2>2. UNCHANGED <<updVars, lost, torn, kind, server>> \/ pc'[r] # "run"
    BY Zenon, <1>3 DEF Recheck, Goto, KeepStatus
  <2> QED
    BY Zenon, <1>3, <2>1, <2>2 DEF Recheck, Goto, KeepStatus, updVars, Running
<1>4. ASSUME NEW r \in Requests, RequestStep(r), ~Recheck(r)
      PROVE  StartExcludesUpdate'
  <2>1. UNCHANGED <<updVars, lost>>
    BY Zenon, <1>4, RequestFrame
  <2>2. torn \subseteq torn'
    BY Zenon, <1>4 DEF RequestStep, CheckDepot, Inspect, Flip, Claim, PutBack, FailInstall,
       StopContainer, StopForRestart, Run, Mark,
       ForceRemove, ForceStopped, Throw,
                KeepStatus, SetStatus
  <2>3. pc'[r] # "run" \/ kind'[r] \notin {"start", "install"}
    BY Zenon, <1>4 DEF RequestStep, CheckDepot, Inspect, Flip, Claim, PutBack, FailInstall,
       StopContainer, StopForRestart, Run, Mark,
       ForceRemove, ForceStopped, Throw, Goto, WindowInv
  <2>4. \A q \in Requests : q # r => pc'[q] = pc[q] /\ kind'[q] = kind[q] /\ server'[q] = server[q]
    BY ZenonT(60), <1>4 DEF RequestStep, CheckDepot, Inspect, Flip, Claim, PutBack, FailInstall,
       StopContainer, StopForRestart, Run, Mark,
       ForceRemove, ForceStopped, Throw, Goto
  <2> QED
    BY ZenonT(60), <1>1, <2>1, <2>2, <2>3, <2>4 DEF updVars, Running
<1>5. ASSUME NEW u \in Updates, (\E L \in SUBSET Servers : FleetUpdate(u, L)) \/ \E s \in Servers : GameUpdate(u, s)
      PROVE  StartExcludesUpdate'
  <2>1. /\ phase' = [phase EXCEPT ![u] = "lock"] /\ (\E L : listed' = [listed EXCEPT ![u] = L])
        /\ lost' = lost \ {u} /\ UNCHANGED <<reqVars, torn>>
    BY ONLY Zenon, <1>5 DEF FleetUpdate, GameUpdate, Enter
  <2>2. \A v \in Updates : Running(v)' /\ v \notin lost'
          => Running(v) /\ v \notin lost /\ listed[v] = listed'[v]
    BY ONLY ZenonT(60), <1>0, <2>1, u \in Updates DEF Running
  <2> QED
    BY Zenon, <1>1, <2>1, <2>2 DEF reqVars
<1>6. ASSUME NEW u \in Updates, CheckLive(u)
      PROVE  StartExcludesUpdate'
  <2>1. ASSUME NEW r \in Requests, pc[r] = "run", kind[r] \in {"start", "install"}, r \notin torn,
               phase'[u] = "connect"
        PROVE  server[r] \in listed[u]
    BY Zenon, <1>6, <2>1 DEF CheckLive, Enter, WindowInv
  <2>2. /\ UNCHANGED <<reqVars, listed, torn, lost>>
        /\ phase' = [phase EXCEPT ![u] = phase'[u]] /\ phase'[u] \in {"release", "connect", "leaked"}
    BY Zenon, <1>6 DEF CheckLive, Enter, KeepStatus
  <2> QED
    BY Zenon, <2>1, <2>2 DEF reqVars, Running
<1>7. ASSUME NEW u \in Updates, UpdateStep(u), ~CheckLive(u)
      PROVE  StartExcludesUpdate'
  <2>1. UNCHANGED <<reqVars, listed, lost>> /\ torn \subseteq torn'
    BY Zenon, <1>7 DEF UpdateStep, AcquireLock, Connect, StopListed, MarkStopped, RunDepot, DepotDone,
       RecordUpdate, RestartStopped, MarkStarting, AllRestarted, ReleaseLock, KeepStatus, SetStatus
  <2>2. \A v \in Updates : Running(v)' => Running(v)
    BY ZenonT(60), <1>7 DEF UpdateStep, AcquireLock, Connect, StopListed, MarkStopped, RunDepot, DepotDone,
       RecordUpdate, RestartStopped, MarkStarting, AllRestarted, ReleaseLock, Enter, Running
  <2> QED
    BY Zenon, <1>1, <2>1, <2>2 DEF reqVars
<1>8. CASE ExpireLock \/ UNCHANGED vars
  BY Zenon, <1>1, <1>8 DEF ExpireLock, vars, history, reqVars, updVars, Running
<1>9. ASSUME NEW s \in Servers, ReconcileStep(s) \/ CrashLoop(s) \/ FailStaleInstall(s) \/ ContainerFlaps(s)
      PROVE  StartExcludesUpdate'
  <2>1. torn \subseteq torn'
    BY Zenon, <1>9 DEF ReconcileStep, ReconcileRead, ReconcileInspect, ReconcileWrite, CrashLoop, FailStaleInstall,
       ContainerFlaps, KeepStatus, SetStatus
  <2> QED
    BY Zenon, <1>1, <1>9, <2>1, ReconcileFrame DEF reqVars, updVars, Running
<1>10. CASE Crash
  BY Zenon, <1>10 DEF Crash
<1> QED
  BY Zenon, <1>2, <1>3, <1>4, <1>5, <1>6, <1>7, <1>8, <1>9, <1>10 DEF Next

\* A start or an install whose status nobody has taken away runs its container
\* only while no update that still has its key rewrites the depot, unless the
\* update lists the server.
THEOREM StartsExcludeUpdates == Spec => []StartExcludesUpdate
<1>1. Init => Inv
  BY ZenonT(60), TypeInit DEF Init, Inv, LockInv, Holding, Running, WindowInv, StartExcludesUpdate
<1>2. Inv /\ [Next]_vars => Inv'
  BY Zenon, TypeNext, LockNext, WindowNext, ExclusionNext DEF Inv
<1>3. Inv => StartExcludesUpdate
  BY Zenon DEF Inv
<1> QED
  BY <1>1, <1>2, <1>3, PTL DEF Spec
=============================================================================
