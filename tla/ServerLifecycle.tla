--------------------------- MODULE ServerLifecycle ---------------------------
(***************************************************************************)
(* The life of the game-server containers and of the depot they all mount. *)
(*                                                                         *)
(* Five routes of the API change a container (start, restart, stop,        *)
(* force-stop, install), two rewrite the depot with SteamCMD (the fleet    *)
(* update and the game update of one server), and the status reconciler    *)
(* copies Docker's state into servers.status.  Nothing but servers.status and the Redis    *)
(* key depot:updating keeps them apart: a route reads one or the other,    *)
(* waits, and goes on.  Every await of a route is a step of its own.       *)
(***************************************************************************)
EXTENDS Integers

CONSTANTS
  Servers,    \* container servers
  Requests,   \* calls of start, restart, stop, force-stop and install
  Updates,    \* calls of the two update routes
  MaxFaults   \* bound: failed calls, crashes and exits

ASSUME FaultsAssumption == MaxFaults \in Nat

NoUpdate == "none"
ASSUME UpdatesAssumption == NoUpdate \notin Updates

Kinds == {"start", "restart", "stop", "force_stop", "install"}

\* 'ready' is treated as 'stopped' by every line modelled here.
Statuses == {"pending", "installing", "starting", "running", "stopping", "stopped", "failed"}
LiveStatuses == {"installing", "starting", "running", "stopping"}
RestartableStatuses == {"starting", "running"}
\* Mutant of TransientStates: only what has not settled is looked at.
ConvergingStates == {"starting", "stopping"}
TransientStates == {"starting", "stopping", "running", "stopped"}
InstallableStatuses == {"pending", "failed"}
StoppableStatuses == {"running", "starting", "stopping"}

VARIABLES
  status,   \* status[s]: servers.status
  up,       \* servers whose container runs
  key,      \* the update whose token depot:updating holds, or NoUpdate
  kind,     \* kind[r]: the route request r has called
  server,   \* server[r]: its :id
  saw,      \* saw[r]: the status a start or a force-stop has read
  pc,       \* pc[r]: what it does next
  phase,    \* phase[u]: what update u does next
  listed,   \* listed[u]: its server_ids
  toStop,   \* toStop[u]: servers it still has to stop
  stopped,  \* stopped[u]: servers it has stopped and not tried to restart
  cur,      \* cur[u]: the server whose status it writes next
  row,      \* row[s]: the status a reconciler tick has read, or "none"
  seen,     \* seen[s]: the status it is about to write, or "none"
  lost,     \* history: updates whose key has expired
  torn,     \* history: requests whose status another writer has taken away
  faults

reqVars == <<kind, server, saw, pc>>
updVars == <<phase, listed, toStop, stopped, cur>>
recVars == <<row, seen>>
history == <<lost, torn>>
vars == <<status, up, key, reqVars, updVars, recVars, history, faults>>

NoServer == "none"
Phases == {"idle", "lock", "check", "connect", "stop", "mark_stopped", "steam", "ok", "failed", "restart",
           "mark_starting", "release", "leaked"}
Pcs == {"idle", "check", "inspect", "flip", "recheck", "revert", "stop", "run", "mark",
        "remove", "swap"}

\* Fresh servers are 'pending'; others are up or down with the status that says so.
Init ==
  /\ status \in [Servers -> {"pending", "stopped", "running"}]
  /\ up = {s \in Servers : status[s] = "running"}
  /\ key = NoUpdate
  /\ kind = [r \in Requests |-> "start"]
  /\ server \in [Requests -> Servers]
  /\ saw = [r \in Requests |-> "pending"]
  /\ pc = [r \in Requests |-> "idle"]
  /\ phase = [u \in Updates |-> "idle"]
  /\ listed = [u \in Updates |-> {}]
  /\ toStop = [u \in Updates |-> {}]
  /\ stopped = [u \in Updates |-> {}]
  /\ cur = [u \in Updates |-> NoServer]
  /\ row = [s \in Servers |-> "none"]
  /\ seen = [s \in Servers |-> "none"]
  /\ lost = {} /\ torn = {}
  /\ faults = 0

-----------------------------------------------------------------------------
(* A failed call or crash uses up the bound; a step without one does not. *)

Fault == faults < MaxFaults /\ faults' = faults + 1
NoFault == UNCHANGED faults

\* Between its status write and its container run, a start or an install relies
\* on the update routes finding it live.
Window(s) == {r \in Requests : server[r] = s /\ pc[r] \in {"recheck", "run"}}

\* An unconditional UPDATE of servers.status.
SetStatus(s, v) ==
  /\ status' = [status EXCEPT ![s] = v]
  /\ torn' = IF v \in LiveStatuses THEN torn ELSE torn \cup Window(s)
  /\ UNCHANGED lost

KeepStatus == UNCHANGED <<status, lost, torn>>

\* Request r goes on at l, or answers (l = "idle") and forgets its locals.
Goto(r, l) ==
  /\ pc' = [pc EXCEPT ![r] = l]
  /\ saw' = IF l \in {"idle", "run"} THEN [saw EXCEPT ![r] = "pending"] ELSE saw
  /\ kind' = IF l = "idle" THEN [kind EXCEPT ![r] = "start"] ELSE kind
  /\ UNCHANGED server

Enter(u, p) == phase' = [phase EXCEPT ![u] = p]

-----------------------------------------------------------------------------
(* start, restart, stop, force-stop, install. *)

\* The route reads the row of the server.
Begin(r, k, s) ==
  /\ pc[r] = "idle"
  /\ k = "install" => status[s] # "installing"
  /\ k = "force_stop" => status[s] \in StoppableStatuses
  /\ torn' = torn \ {r}
  /\ kind' = [kind EXCEPT ![r] = k]
  /\ server' = [server EXCEPT ![r] = s]
  /\ saw' = [saw EXCEPT ![r] = IF k \in {"start", "force_stop"} THEN status[s] ELSE "pending"]
  /\ pc' = [pc EXCEPT ![r] = CASE k = "stop" -> "flip" [] k = "force_stop" -> "remove" [] OTHER -> "check"]
  /\ NoFault /\ UNCHANGED <<status, lost, up, key, updVars, recVars>>

\* isDepotUpdating: 409 while the key exists.
CheckDepot(r) ==
  /\ pc[r] = "check"
  /\ Goto(r, IF key # NoUpdate THEN "idle" ELSE IF kind[r] = "start" THEN "inspect" ELSE "flip")
  /\ KeepStatus /\ NoFault /\ UNCHANGED <<up, key, updVars, recVars>>

\* start asks Docker first; a failed inspect counts as "not running".
Inspect(r) ==
  /\ pc[r] = "inspect"
  /\ \/ NoFault /\ Goto(r, IF server[r] \in up THEN "mark" ELSE "flip")
     \/ Fault /\ Goto(r, "flip")
  /\ KeepStatus /\ UNCHANGED <<up, key, updVars, recVars>>

\* The status is written before the slow part.
Flip(r) ==
  /\ pc[r] = "flip" /\ kind[r] # "install"
  /\ SetStatus(server[r], IF kind[r] = "stop" THEN "stopping" ELSE "starting")
  /\ Goto(r, IF kind[r] = "start" THEN "recheck" ELSE "stop")
  /\ NoFault /\ UNCHANGED <<up, key, updVars, recVars>>

\* install claims the row with a conditional UPDATE and goes on in the background.
Claim(r) ==
  /\ pc[r] = "flip" /\ kind[r] = "install"
  /\ IF status[server[r]] \in InstallableStatuses
     THEN SetStatus(server[r], "installing") /\ Goto(r, "recheck")
     ELSE KeepStatus /\ Goto(r, "idle")
  /\ NoFault /\ UNCHANGED <<up, key, updVars, recVars>>

\* Mutant of Recheck: one look at the key is enough.
RecheckNot(r) ==
  /\ pc[r] = "recheck"
  /\ Goto(r, "run")
  /\ KeepStatus /\ NoFault /\ UNCHANGED <<up, key, updVars, recVars>>

\* The second look at the key, right before the container runs.
Recheck(r) ==
  /\ pc[r] = "recheck"
  /\ Goto(r, IF key # NoUpdate THEN "revert" ELSE "run")
  /\ KeepStatus /\ NoFault /\ UNCHANGED <<up, key, updVars, recVars>>

\* start puts back the status it has read at the beginning.
PutBack(r) ==
  /\ pc[r] = "revert" /\ kind[r] # "install"
  /\ SetStatus(server[r], saw[r])
  /\ Goto(r, "idle")
  /\ NoFault /\ UNCHANGED <<up, key, updVars, recVars>>

FailInstall(r) ==
  /\ pc[r] = "revert" /\ kind[r] = "install"
  /\ SetStatus(server[r], "failed")
  /\ Goto(r, "idle")
  /\ NoFault /\ UNCHANGED <<up, key, updVars, recVars>>

\* container_stop of stop; it may fail with or without effect.
StopContainer(r) ==
  /\ pc[r] = "stop" /\ kind[r] = "stop"
  /\ \/ NoFault /\ up' = up \ {server[r]}
     \/ Fault /\ up' \in {up, up \ {server[r]}}
  /\ Goto(r, "idle")
  /\ KeepStatus /\ UNCHANGED <<key, updVars, recVars>>

\* container_stop of restart.  When it fails, the route goes on only if a second
\* inspect finds the container down.
StopForRestart(r) ==
  LET s == server[r] IN
  /\ pc[r] = "stop" /\ kind[r] = "restart"
  /\ \/ NoFault /\ up' = up \ {s} /\ Goto(r, "run")
     \/ /\ Fault /\ up' \in {up, up \ {s}}
        /\ Goto(r, "mark") \/ (s \notin up' /\ Goto(r, "run"))
  /\ KeepStatus /\ UNCHANGED <<key, updVars, recVars>>

\* runFreshServerContainer, or the container_run of an install.  A failed call
\* may have started the container, or only removed the old one.
Run(r) ==
  /\ pc[r] = "run"
  /\ \/ /\ NoFault
        /\ up' = up \cup {server[r]}
        /\ Goto(r, IF kind[r] = "install" THEN "mark" ELSE "idle")
     \/ /\ Fault
        /\ up' \in {up, up \cup {server[r]}, up \ {server[r]}}
        /\ Goto(r, IF kind[r] = "install" THEN "revert" ELSE "idle")
  /\ KeepStatus /\ UNCHANGED <<key, updVars, recVars>>

\* The status 'running' of an install that is through, of a start that found the
\* container up and of a restart that could not stop it.
Mark(r) ==
  /\ pc[r] = "mark"
  /\ SetStatus(server[r], "running")
  /\ \/ NoFault /\ Goto(r, "idle")
     \/ kind[r] = "install" /\ Fault /\ Goto(r, "revert")  \* its audit entry fails
  /\ UNCHANGED <<up, key, updVars, recVars>>

\* The container_rm of a force-stop.
ForceRemove(r) ==
  /\ pc[r] = "remove"
  /\ \/ NoFault /\ up' = up \ {server[r]} /\ Goto(r, "swap")
     \/ Fault /\ up' \in {up, up \ {server[r]}} /\ Goto(r, "idle")
  /\ KeepStatus /\ UNCHANGED <<key, updVars, recVars>>

\* Its status write: compare and set.
ForceStopped(r) ==
  /\ pc[r] = "swap"
  /\ IF status[server[r]] = saw[r] THEN SetStatus(server[r], "stopped") ELSE KeepStatus
  /\ Goto(r, "idle")
  /\ NoFault /\ UNCHANGED <<up, key, updVars, recVars>>

\* A database or Redis call throws.  The route answers 500; an install that runs
\* in the background fails.
Throw(r) ==
  /\ pc[r] \in {"check", "flip", "recheck", "revert", "mark", "swap"}
  /\ Fault
  /\ \/ kind[r] = "install" /\ pc[r] \in {"recheck", "mark"} /\ Goto(r, "revert")
     \/ (kind[r] = "install" => pc[r] \notin {"recheck", "mark"}) /\ Goto(r, "idle")
  /\ KeepStatus /\ UNCHANGED <<up, key, updVars, recVars>>

RequestStep(r) ==
  \/ CheckDepot(r) \/ Inspect(r) \/ Flip(r) \/ Claim(r) \/ Recheck(r) \/ PutBack(r) \/ FailInstall(r)
  \/ StopContainer(r) \/ StopForRestart(r) \/ Run(r) \/ Mark(r)
  \/ ForceRemove(r) \/ ForceStopped(r) \/ Throw(r)

-----------------------------------------------------------------------------
(* The depot updates. *)

\* POST /depot/update reads the statuses of its server_ids.
FleetUpdate(u, L) ==
  /\ phase[u] = "idle" /\ key # u
  /\ Enter(u, "lock")
  /\ lost' = lost \ {u}
  /\ listed' = [listed EXCEPT ![u] = L]
  /\ toStop' = [toStop EXCEPT ![u] = {s \in L : status[s] \in RestartableStatuses}]
  /\ stopped' = [stopped EXCEPT ![u] = {}]
  /\ NoFault /\ UNCHANGED <<status, torn, up, key, reqVars, cur, recVars>>

\* POST /servers/:id/update wants its server stopped, and stops nothing.
GameUpdate(u, s) ==
  /\ phase[u] = "idle" /\ key # u
  /\ status[s] = "stopped"
  /\ Enter(u, "lock")
  /\ lost' = lost \ {u}
  /\ listed' = [listed EXCEPT ![u] = {s}]
  /\ toStop' = [toStop EXCEPT ![u] = {}] /\ stopped' = [stopped EXCEPT ![u] = {}]
  /\ NoFault /\ UNCHANGED <<status, torn, up, key, reqVars, cur, recVars>>

\* acquireDepotLock: SET NX.
AcquireLock(u) ==
  /\ phase[u] = "lock"
  /\ IF key = NoUpdate THEN key' = u /\ Enter(u, "check")
                       ELSE UNCHANGED key /\ Enter(u, "idle")
  /\ KeepStatus /\ NoFault /\ UNCHANGED <<up, reqVars, listed, toStop, stopped, cur, recVars>>

\* Under the lock: refuse while a server that is not listed is live.  When the
\* query throws, nobody is left to release the lock, and its timer renews it.
CheckLive(u) ==
  /\ phase[u] = "check"
  /\ \/ /\ NoFault
        /\ Enter(u, IF \E s \in Servers \ listed[u] : status[s] \in LiveStatuses
                    THEN "release" ELSE "connect")
     \/ Fault /\ Enter(u, "leaked")
  /\ KeepStatus /\ UNCHANGED <<up, key, reqVars, listed, toStop, stopped, cur, recVars>>

\* The background job opens its own connection to the bridge.
Connect(u) ==
  /\ phase[u] = "connect"
  /\ \/ NoFault /\ Enter(u, "stop")
     \/ Fault /\ Enter(u, "failed")
  /\ KeepStatus /\ UNCHANGED <<up, key, reqVars, listed, toStop, stopped, cur, recVars>>

\* Phase 1: container_stop of a listed server.  A failure, with or without
\* effect, leaves it out of stoppedIds.
StopListed(u) ==
  \E s \in toStop[u] :
    /\ phase[u] = "stop"
    /\ toStop' = [toStop EXCEPT ![u] = @ \ {s}]
    /\ \/ NoFault /\ up' = up \ {s} /\ Enter(u, "mark_stopped") /\ cur' = [cur EXCEPT ![u] = s]
       \/ Fault /\ up' \in {up, up \ {s}} /\ UNCHANGED <<phase, cur>>
    /\ KeepStatus /\ UNCHANGED <<key, reqVars, listed, stopped, recVars>>

MarkStopped(u) ==
  /\ phase[u] = "mark_stopped"
  /\ Enter(u, "stop")
  /\ \/ /\ NoFault /\ SetStatus(cur[u], "stopped")
        /\ stopped' = [stopped EXCEPT ![u] = @ \cup {cur[u]}]
     \/ Fault /\ KeepStatus /\ UNCHANGED stopped
  /\ cur' = [cur EXCEPT ![u] = NoServer]
  /\ UNCHANGED <<up, key, reqVars, listed, toStop, recVars>>

\* Phase 2: SteamCMD rewrites the depot volume.
RunDepot(u) ==
  /\ phase[u] = "stop" /\ toStop[u] = {}
  /\ Enter(u, "steam")
  /\ KeepStatus /\ NoFault /\ UNCHANGED <<up, key, reqVars, listed, toStop, stopped, cur, recVars>>

\* It exits with 0, or with another code, or a progress line is lost.
DepotDone(u) ==
  /\ phase[u] = "steam"
  /\ \E p \in {"ok", "failed"} : Enter(u, p)
  /\ KeepStatus /\ NoFault /\ UNCHANGED <<up, key, reqVars, listed, toStop, stopped, cur, recVars>>

\* depot:last_update is written.  A failure on the good path ends in the catch;
\* a failure in the catch ends in the finally, past the restarts.
RecordUpdate(u) ==
  /\ phase[u] \in {"ok", "failed"}
  /\ \/ NoFault /\ Enter(u, "restart")
     \/ Fault /\ Enter(u, IF phase[u] = "ok" THEN "failed" ELSE "release")
  /\ KeepStatus /\ UNCHANGED <<up, key, reqVars, listed, toStop, stopped, cur, recVars>>

\* restartServers: one server after the other; a failure is reported.
RestartStopped(u) ==
  \E s \in stopped[u] :
    /\ phase[u] = "restart"
    /\ stopped' = [stopped EXCEPT ![u] = @ \ {s}]
    /\ \/ NoFault /\ up' = up \cup {s} /\ Enter(u, "mark_starting") /\ cur' = [cur EXCEPT ![u] = s]
       \/ Fault /\ up' \in {up, up \cup {s}, up \ {s}} /\ UNCHANGED <<phase, cur>>
    /\ KeepStatus /\ UNCHANGED <<key, reqVars, listed, toStop, recVars>>

MarkStarting(u) ==
  /\ phase[u] = "mark_starting"
  /\ Enter(u, "restart")
  /\ \/ NoFault /\ SetStatus(cur[u], "starting")
     \/ Fault /\ KeepStatus
  /\ cur' = [cur EXCEPT ![u] = NoServer]
  /\ UNCHANGED <<up, key, reqVars, listed, toStop, stopped, recVars>>

AllRestarted(u) ==
  /\ phase[u] = "restart" /\ stopped[u] = {}
  /\ Enter(u, "release")
  /\ KeepStatus /\ NoFault /\ UNCHANGED <<up, key, reqVars, listed, toStop, stopped, cur, recVars>>

\* Mutant of ReleaseLock: a plain DEL.
ReleaseAnyLock(u) ==
  /\ phase[u] = "release"
  /\ Enter(u, "idle")
  /\ key' = NoUpdate /\ NoFault
  /\ KeepStatus /\ UNCHANGED <<up, reqVars, listed, toStop, stopped, cur, recVars>>

\* lock.release(): compare and delete.  When Redis fails, the key stays and is
\* not renewed any more.
ReleaseLock(u) ==
  /\ phase[u] = "release"
  /\ Enter(u, "idle")
  /\ \/ NoFault /\ key' = IF key = u THEN NoUpdate ELSE key
     \/ Fault /\ UNCHANGED key
  /\ KeepStatus /\ UNCHANGED <<up, reqVars, listed, toStop, stopped, cur, recVars>>

UpdateStep(u) ==
  \/ AcquireLock(u) \/ CheckLive(u) \/ Connect(u) \/ StopListed(u) \/ MarkStopped(u)
  \/ RunDepot(u) \/ DepotDone(u) \/ RecordUpdate(u) \/ RestartStopped(u) \/ MarkStarting(u)
  \/ AllRestarted(u) \/ ReleaseLock(u)

\* Mutant of ExpireLock: a key without a TTL, which only an eviction removes.
EvictLock ==
  /\ key # NoUpdate /\ Fault
  /\ key' = NoUpdate /\ lost' = lost \cup {key}
  /\ UNCHANGED <<status, up, reqVars, updVars, recVars, torn>>

\* The key runs out: nobody renews it, or the renewals fail for a whole TTL.
ExpireLock ==
  /\ key # NoUpdate
  /\ \/ NoFault /\ phase[key] = "idle"
     \/ Fault
  /\ key' = NoUpdate /\ lost' = lost \cup {key}
  /\ UNCHANGED <<status, up, reqVars, updVars, recVars, torn>>

-----------------------------------------------------------------------------
(* The status reconciler, Docker and the process itself. *)

\* tick() reads the rows; settled and unsettled ones alike.
ReconcileRead(s) ==
  /\ row[s] = "none"
  /\ status[s] \in TransientStates
  /\ row' = [row EXCEPT ![s] = status[s]]
  /\ KeepStatus /\ NoFault /\ UNCHANGED <<up, key, reqVars, updVars, seen>>

\* Mutant of Mapped: Docker's word for a container that is down.
DockerState(s) == IF s \in up THEN "running" ELSE "exited"

\* mapState of what Docker answers.
Mapped(s) == IF s \in up THEN "running" ELSE "stopped"

ReconcileInspect(s) ==
  /\ row[s] # "none" /\ seen[s] = "none"
  /\ \/ /\ NoFault
        /\ IF Mapped(s) = row[s]
           THEN row' = [row EXCEPT ![s] = "none"] /\ UNCHANGED seen
           ELSE seen' = [seen EXCEPT ![s] = Mapped(s)] /\ UNCHANGED row
     \/ Fault /\ row' = [row EXCEPT ![s] = "none"] /\ UNCHANGED seen
  /\ KeepStatus /\ UNCHANGED <<up, key, reqVars, updVars>>

\* The write does not ask whether the row still has the status that was read.
ReconcileWrite(s) ==
  /\ seen[s] # "none"
  /\ \/ NoFault /\ SetStatus(s, seen[s])
     \/ Fault /\ KeepStatus
  /\ row' = [row EXCEPT ![s] = "none"] /\ seen' = [seen EXCEPT ![s] = "none"]
  /\ UNCHANGED <<up, key, reqVars, updVars>>

\* Too many restarts in five minutes.
CrashLoop(s) ==
  /\ row[s] # "none" /\ seen[s] = "none"
  /\ Fault
  /\ SetStatus(s, "failed")
  /\ row' = [row EXCEPT ![s] = "none"] /\ UNCHANGED seen
  /\ UNCHANGED <<up, key, reqVars, updVars>>

\* An install whose heartbeat has been silent for 30 minutes: nobody is running
\* it, or its heartbeats fail.
FailStaleInstall(s) ==
  /\ status[s] = "installing"
  /\ \/ NoFault /\ ~\E r \in Requests : kind[r] = "install" /\ server[r] = s /\ pc[r] # "idle"
     \/ Fault
  /\ SetStatus(s, "failed")
  /\ UNCHANGED <<up, key, reqVars, updVars, recVars>>

ReconcileStep(s) == ReconcileInspect(s) \/ ReconcileWrite(s) \/ ReconcileRead(s)

\* A game server dies, or Docker's restart policy brings it back.
ContainerFlaps(s) ==
  /\ Fault
  /\ up' = IF s \in up THEN up \ {s} ELSE up \cup {s}
  /\ KeepStatus /\ UNCHANGED <<key, reqVars, updVars, recVars>>

\* The API process dies and is started again.
Crash ==
  /\ Fault
  /\ pc' = [r \in Requests |-> "idle"]
  /\ kind' = [r \in Requests |-> "start"] /\ saw' = [r \in Requests |-> "pending"]
  /\ phase' = [u \in Updates |-> "idle"]
  /\ listed' = [u \in Updates |-> {}]
  /\ toStop' = [u \in Updates |-> {}] /\ stopped' = [u \in Updates |-> {}]
  /\ cur' = [u \in Updates |-> NoServer]
  /\ row' = [s \in Servers |-> "none"] /\ seen' = [s \in Servers |-> "none"]
  /\ KeepStatus /\ UNCHANGED <<up, key, server>>

-----------------------------------------------------------------------------
Next ==
  \/ \E r \in Requests, k \in Kinds, s \in Servers : Begin(r, k, s)
  \/ \E r \in Requests : RequestStep(r)
  \/ \E u \in Updates, L \in SUBSET Servers : FleetUpdate(u, L)
  \/ \E u \in Updates, s \in Servers : GameUpdate(u, s)
  \/ \E u \in Updates : UpdateStep(u)
  \/ ExpireLock
  \/ \E s \in Servers : ReconcileStep(s) \/ CrashLoop(s) \/ FailStaleInstall(s) \/ ContainerFlaps(s)
  \/ Crash

Fairness ==
  /\ \A r \in Requests : WF_vars(RequestStep(r))
  /\ \A u \in Updates : WF_vars(UpdateStep(u))
  /\ \A s \in Servers : WF_vars(ReconcileStep(s)) /\ WF_vars(FailStaleInstall(s))
  /\ WF_vars(ExpireLock)

Spec == Init /\ [][Next]_vars
FairSpec == Spec /\ Fairness

-----------------------------------------------------------------------------
(* Properties *)

\* Every variable has its type; servers.status holds one of the panel's words,
\* never one of Docker's.
TypeOK ==
  /\ status \in [Servers -> Statuses]
  /\ up \in SUBSET Servers
  /\ key \in Updates \cup {NoUpdate}
  /\ kind \in [Requests -> Kinds]
  /\ server \in [Requests -> Servers]
  /\ saw \in [Requests -> Statuses]
  /\ pc \in [Requests -> Pcs]
  /\ phase \in [Updates -> Phases]
  /\ listed \in [Updates -> SUBSET Servers]
  /\ toStop \in [Updates -> SUBSET Servers]
  /\ stopped \in [Updates -> SUBSET Servers]
  /\ cur \in [Updates -> Servers \cup {NoServer}]
  /\ row \in [Servers -> Statuses \cup {"none"}]
  /\ seen \in [Servers -> Statuses \cup {"none"}]
  /\ lost \in SUBSET Updates
  /\ torn \in SUBSET Requests
  /\ faults \in 0..MaxFaults

\* The phases in which an update owns the depot.
Running(u) ==
  phase[u] \in {"connect", "stop", "mark_stopped", "steam", "ok", "failed", "restart", "mark_starting"}

\* Two updates rewrite the depot at the same time only if one of them has lost
\* its key: an update that ends late never frees the key of another one, and a
\* key is free only when its update has ended (acquireDepotLock, release).
OneUpdateAtATime ==
  \A u, v \in Updates : Running(u) /\ Running(v) => u = v \/ u \in lost \/ v \in lost

\* A start or an install that has passed its second look at the key, and whose
\* status nobody has taken away, never meets an update of the depot that does
\* not list its server: one of the two has seen the other (start.ts, depot.ts).
StartExcludesUpdate ==
  \A r \in Requests, u \in Updates :
    /\ pc[r] = "run" /\ kind[r] \in {"start", "install"} /\ r \notin torn
    /\ Running(u) /\ u \notin lost
    => server[r] \in listed[u]

\* What the comment in start.ts says without these conditions: no interleaving
\* lets a start and an update both through.
StartOrUpdate ==
  \A r \in Requests, u \in Updates : ~(pc[r] = "run" /\ kind[r] = "start" /\ phase[u] = "steam")

\* The key does not stay for ever: the update ends and releases it, or nobody
\* renews it any more.  Only an update whose live check threw keeps it.
LockIsReleased == \A u \in Updates : key = u ~> (key # u \/ phase[u] = "leaked")

\* No route is being served; a lock may have leaked.
Quiet == (\A r \in Requests : pc[r] = "idle") /\ \A u \in Updates : phase[u] \in {"idle", "leaked"}

\* Once nobody calls the API any more, the status of every installed server is
\* what Docker says of its container, whatever stale writes came in between
\* (reconcileServer looks at settled rows too).
StatusSettles ==
  <>[]Quiet => \A s \in Servers : <>[](status[s] \in InstallableStatuses \/ status[s] = Mapped(s))
=============================================================================
