-------------------------- MODULE RconCommandQueue --------------------------
(***************************************************************************)
(* The RCON command queue of one game server: callers that put a command   *)
(* on the Redis stream, and worker-rcon, which runs it at most once.       *)
(*                                                                         *)
(* The API waits for the result until a deadline it puts into the entry;   *)
(* background workers enqueue without one.  The queue reads entries in     *)
(* batches and handles them one after the other.  An entry stays in the    *)
(* group's pending list until it is acknowledged, and is delivered again   *)
(* when it has been idle for ReclaimMinIdle.  On every connection to the   *)
(* game a queue is started, or fails to.  Time is a counter; MaxTime       *)
(* stands for any later time, when every wait is over.                     *)
(***************************************************************************)
EXTENDS Integers, FiniteSets

CONSTANTS
  Requests,        \* request ids
  Timeout,         \* how long the API waits (4 s)
  MaxCommandAge,   \* age past which a command is dropped (45 s)
  ReclaimMinIdle,  \* idle time before an entry is delivered again (60 s)
  MaxTime,         \* bound: the end of the modelled time
  MaxFaults        \* bound: faults and disconnects

ASSUME TimesAssumption ==
  /\ {Timeout, MaxCommandAge, ReclaimMinIdle, MaxTime, MaxFaults} \subseteq Nat
  /\ Timeout < MaxCommandAge /\ MaxCommandAge < ReclaimMinIdle

\* The client library may send an XADD twice: two entries, one request id.
Entries == Requests \X {1, 2}
Request(e) == e[1]
NoEntry == <<>>
Never == -1

Results == {"none", "ok", "error", "stale", "expired"}

\* The queue is started once per connection.  If that fails, the connection goes
\* on and its queue is missing.
Queues == {"off", "starting", "running", "missing", "stopping"}

VARIABLES
  now,
  enqueuedAt,  \* enqueuedAt[r], or Never
  waits,       \* requests whose entry carries a deadline
  caller,      \* caller[r]: what the API call for r does, or has returned
  fresh,       \* entries no consumer has read
  pending,     \* entries read and not acknowledged
  deliveredAt, \* deliveredAt[e]: the time of the last delivery, or Never
  redelivered, \* entries delivered more than once
  result,      \* result[r]: rcon:command-result:<r>
  done,        \* requests with rcon:command-done:<r>
  connected,   \* the RCON connection
  queue,       \* the queue of that connection, see Queues
  batch,       \* entries the queue has read and not handled
  pc,          \* what the queue does next
  cur,         \* the entry it handles
  startedAt,   \* when it began
  verdict,     \* the result it is about to store
  runs,        \* runs[r]: how often the game has run the command
  faults

streamVars == <<fresh, pending, deliveredAt, redelivered>>
keys       == <<result, done>>
link       == <<connected, queue>>
worker     == <<batch, pc, cur, startedAt, verdict>>
vars == <<now, enqueuedAt, waits, caller, streamVars, keys, link, worker, runs, faults>>

\* d units have passed since t.
Passed(t, d) == now - t >= d \/ now = MaxTime
Fault == faults < MaxFaults /\ faults' = faults + 1
Cur == Request(cur)

Init ==
  /\ now = 0 /\ faults = 0 /\ connected = TRUE /\ queue = "starting"
  /\ enqueuedAt = [r \in Requests |-> Never] /\ waits = {}
  /\ caller = [r \in Requests |-> "idle"]
  /\ fresh = {} /\ pending = {} /\ redelivered = {}
  /\ deliveredAt = [e \in Entries |-> Never]
  /\ result = [r \in Requests |-> "none"] /\ done = {}
  /\ batch = {} /\ pc = "idle" /\ cur = NoEntry /\ startedAt = Never /\ verdict = "none"
  /\ runs = [r \in Requests |-> 0]

Tick ==
  /\ now < MaxTime
  /\ now' = now + 1
  /\ UNCHANGED <<enqueuedAt, waits, caller, streamVars, keys, link, worker, runs, faults>>

-----------------------------------------------------------------------------
(* Callers *)

\* XADD, once or (the answer was lost and the client sends it again) twice.
Xadd(r) ==
  /\ enqueuedAt[r] = Never /\ now < MaxTime
  /\ enqueuedAt' = [enqueuedAt EXCEPT ![r] = now]
  /\ \/ fresh' = fresh \union {<<r, 1>>} /\ UNCHANGED faults
     \/ fresh' = fresh \union {<<r, 1>>, <<r, 2>>} /\ Fault
  /\ UNCHANGED <<now, pending, deliveredAt, redelivered, keys, link, worker, runs>>

\* rcon:status:<server> says "connected" until the supervisor is done with a
\* connection that was lost.
ShownConnected == queue # "off"

\* The API asks first whether the worker is connected.
SendRconCommandViaWorker(r) ==
  /\ ShownConnected
  /\ Xadd(r)
  /\ waits' = waits \union {r}
  /\ caller' = [caller EXCEPT ![r] = "waiting"]

\* The XADD ends with an error; Redis may have added the entry all the same.
SendRconCommandFails(r) ==
  /\ ShownConnected /\ Fault
  /\ enqueuedAt[r] = Never /\ now < MaxTime
  /\ enqueuedAt' = [enqueuedAt EXCEPT ![r] = now]
  /\ fresh' \in {fresh, fresh \union {<<r, 1>>}}
  /\ waits' = waits \union {r}
  /\ caller' = [caller EXCEPT ![r] = "worker_unavailable"]
  /\ UNCHANGED <<now, pending, deliveredAt, redelivered, keys, link, worker, runs>>

\* A background worker does not ask, and does not wait.
EnqueueInBackground(r) ==
  /\ Xadd(r)
  /\ UNCHANGED <<waits, caller>>

Deadline(r) == enqueuedAt[r] + Timeout

\* Mutant of PollResult: the worker's result is handed out as it is.
PollResultRaw(r) ==
  /\ caller[r] = "waiting" /\ now <= Deadline(r) /\ result[r] # "none"
  /\ caller' = [caller EXCEPT ![r] = result[r]]
  /\ result' = [result EXCEPT ![r] = "none"]
  /\ UNCHANGED <<now, enqueuedAt, waits, streamVars, done, link, worker, runs, faults>>

\* One poll of the result key that finds a result, and deletes it if it can.
PollResult(r) ==
  /\ caller[r] = "waiting" /\ now <= Deadline(r) /\ result[r] # "none"
  /\ caller' = [caller EXCEPT ![r] = IF result[r] = "ok" THEN "ok" ELSE "worker_rejected"]
  /\ \/ result' = [result EXCEPT ![r] = "none"] /\ UNCHANGED faults
     \/ UNCHANGED result /\ Fault
  /\ UNCHANGED <<now, enqueuedAt, waits, streamVars, done, link, worker, runs>>

\* The loop ends when no time remains.
PollTimeout(r) ==
  /\ caller[r] = "waiting" /\ now >= Deadline(r)
  /\ caller' = [caller EXCEPT ![r] = "timeout"]
  /\ UNCHANGED <<now, enqueuedAt, waits, streamVars, keys, link, worker, runs, faults>>

-----------------------------------------------------------------------------
(* The queue: reading *)

\* The queue has handled its batch and reads again; one that is being stopped
\* may still be in its last read.
Idle == pc = "idle" /\ batch = {}
Reading == queue \in {"running", "stopping"} /\ Idle

\* Entries E are handed to the consumer.
Deliver(E) ==
  /\ batch' = E
  /\ deliveredAt' = [e \in Entries |-> IF e \in E THEN now ELSE deliveredAt[e]]
  /\ UNCHANGED <<now, enqueuedAt, waits, caller, keys, link,
                 pc, cur, startedAt, verdict, runs, faults>>

ProcessOnce ==
  /\ Reading /\ fresh # {}
  /\ fresh' = {} /\ pending' = pending \union fresh
  /\ Deliver(fresh)
  /\ UNCHANGED redelivered

\* XAUTOCLAIM
ReclaimPendingOnce ==
  LET idle == {e \in pending : Passed(deliveredAt[e], ReclaimMinIdle)} IN
  /\ Reading /\ idle # {}
  /\ redelivered' = redelivered \union idle
  /\ Deliver(idle)
  /\ UNCHANGED <<fresh, pending>>

-----------------------------------------------------------------------------
(* The connection and its queue *)

Link(c, q) ==
  /\ connected' = c /\ queue' = q
  /\ UNCHANGED <<now, enqueuedAt, waits, caller, streamVars, keys, worker, runs>>

\* The supervisor connects, shows it, and begins to start the queue.
Connect ==
  /\ ~connected /\ queue = "off"
  /\ Link(TRUE, "starting")
  /\ UNCHANGED faults

\* The group exists: the queue reads.  If the connection is gone by now, the
\* supervisor stops it at once.
StartQueue ==
  /\ queue = "starting"
  /\ Link(connected, IF connected THEN "running" ELSE "stopping")
  /\ UNCHANGED faults

\* XGROUP CREATE throws: this is logged, and not tried again.
StartQueueFails ==
  /\ queue = "starting" /\ Fault
  /\ Link(connected, "missing")

Disconnect ==
  /\ connected /\ Fault
  /\ Link(FALSE, IF queue = "running" THEN "stopping" ELSE queue)

\* The supervisor is done with a connection that is gone: it has waited for the
\* loop of the queue to end, and shows that it connects again.
EndConnection ==
  /\ ~connected /\ queue \in {"stopping", "missing"} /\ Idle
  /\ Link(connected, "off")
  /\ UNCHANGED faults

-----------------------------------------------------------------------------
(* The queue: processEntry, one step per Redis or RCON call *)

Outside == <<now, enqueuedAt, waits, caller, link>>

ProcessEntry(e) ==
  /\ pc = "idle" /\ e \in batch
  /\ pc' = "lookup" /\ cur' = e /\ startedAt' = now
  /\ UNCHANGED <<Outside, streamVars, keys, batch, verdict, runs, faults>>

Goto(p, v) ==
  /\ pc' = p /\ verdict' = v
  /\ UNCHANGED <<Outside, streamVars, batch, cur, startedAt>>

\* What is left of the batch stays pending.
Abandon ==
  /\ pc' = "idle" /\ batch' = {} /\ cur' = NoEntry /\ startedAt' = Never /\ verdict' = "none"
  /\ UNCHANGED <<now, enqueuedAt, waits, caller, fresh, deliveredAt, redelivered>>

\* An exception leaves processOnce.
Throw == Abandon /\ UNCHANGED link

\* Mutant of Stale: a command has no maximum age.
NeverStale == FALSE

Stale == Passed(enqueuedAt[Cur], MaxCommandAge + 1)
Expired == Cur \in waits /\ (startedAt > Deadline(Cur) \/ startedAt = MaxTime)

\* Too old, past its deadline, or to be run.
Triage ==
  \/ Stale /\ Goto("refuse", "stale")
  \/ ~Stale /\ Expired /\ Goto("refuse", "expired")
  \/ ~Stale /\ ~Expired /\ Goto("claim", "none")

\* Mutant of Lookup: an entry whose request is done is dropped, not acknowledged.
LookupDrops ==
  /\ pc = "lookup"
  /\ IF result[Cur] # "none" \/ Cur \in done THEN Throw /\ UNCHANGED pending ELSE Triage
  /\ UNCHANGED <<keys, runs, faults>>

Lookup ==
  /\ pc = "lookup"
  /\ IF result[Cur] # "none" \/ Cur \in done THEN Goto("ack", "none") ELSE Triage
  /\ UNCHANGED <<keys, runs, faults>>

\* resultExists and doneExists take a Redis error for "no".
LookupFails ==
  /\ pc = "lookup" /\ Fault
  /\ Triage
  /\ UNCHANGED <<keys, runs>>

\* Mutant of ClaimRequest: SET without NX.
ClaimAlways ==
  /\ pc = "claim"
  /\ Goto("execute", "none")
  /\ done' = done \union {Cur}
  /\ UNCHANGED <<result, runs, faults>>

\* claimRequest: SET NX on the done marker.
ClaimRequest ==
  /\ pc = "claim"
  /\ Goto(IF Cur \in done THEN "ack" ELSE "execute", "none")
  /\ done' = done \union {Cur}
  /\ UNCHANGED <<result, runs, faults>>

\* The call fails, before or after Redis has set the marker; or the client
\* sends it again and finds the marker it has set itself.
ClaimFails ==
  /\ pc = "claim" /\ Fault
  /\ \/ Throw /\ done' \in {done, done \union {Cur}}
     \/ Goto("ack", "none") /\ done' = done \union {Cur}
  /\ UNCHANGED <<pending, result, runs>>

\* Mutant of Execute: a command with no connection to run on succeeds.
ExecuteAssumed ==
  /\ pc = "execute"
  /\ Goto("store", "ok")
  /\ runs' = IF connected THEN [runs EXCEPT ![Cur] = @ + 1] ELSE runs
  /\ UNCHANGED <<keys, faults>>

\* buildOperatorCommand and execute.  An error tells nothing about the game:
\* it may have run the command and failed to answer in time.
Execute ==
  /\ pc = "execute"
  /\ \/ connected /\ Goto("store", "ok") /\ runs' = [runs EXCEPT ![Cur] = @ + 1]
     \/ connected /\ Goto("store", "error") /\ runs' = [runs EXCEPT ![Cur] = @ + 1]
     \/ Goto("store", "error") /\ UNCHANGED runs
  /\ UNCHANGED <<keys, faults>>

\* writeResult: the result, then the done marker.
WriteResult ==
  /\ pc \in {"store", "refuse"}
  /\ result' = [result EXCEPT ![Cur] = verdict]
  /\ Goto(IF pc = "store" THEN "storeDone" ELSE "refuseDone", verdict)
  /\ UNCHANGED <<done, runs, faults>>

WriteDone ==
  /\ pc \in {"storeDone", "refuseDone"}
  /\ done' = done \union {Cur}
  /\ Goto("ack", "none")
  /\ UNCHANGED <<result, runs, faults>>

\* Mutant of WriteFails: what is thrown gives its marker back.
WriteFailsUnmarked ==
  /\ pc \in {"store", "storeDone", "refuse", "refuseDone"} /\ Fault
  /\ IF verdict = "ok" THEN Goto("ack", "none") /\ UNCHANGED <<pending, done>>
                       ELSE Throw /\ UNCHANGED pending /\ done' = done \ {Cur}
  /\ UNCHANGED <<result, runs>>

\* A success that cannot be stored is acknowledged; anything else is thrown.
WriteFails ==
  /\ pc \in {"store", "storeDone", "refuse", "refuseDone"} /\ Fault
  /\ IF verdict = "ok" THEN Goto("ack", "none") /\ UNCHANGED pending
                       ELSE Throw /\ UNCHANGED pending
  /\ UNCHANGED <<keys, runs>>

Xack ==
  /\ pc = "ack"
  /\ pending' = pending \ {cur}
  /\ pc' = "idle" /\ batch' = batch \ {cur} /\ cur' = NoEntry /\ startedAt' = Never
  /\ verdict' = "none"
  /\ UNCHANGED <<Outside, fresh, deliveredAt, redelivered, keys, runs, faults>>

XackFails ==
  /\ pc = "ack" /\ Fault
  /\ Throw
  /\ UNCHANGED <<pending, keys, runs>>

\* The worker dies, and the connection with it; a command it was running may
\* have reached the game.
Crash ==
  /\ Fault
  /\ Abandon
  /\ connected' = FALSE /\ queue' = IF queue = "off" THEN "off" ELSE "missing"
  /\ \/ UNCHANGED runs
     \/ pc = "execute" /\ connected /\ runs' = [runs EXCEPT ![Cur] = @ + 1]
  /\ UNCHANGED <<pending, keys>>

-----------------------------------------------------------------------------
Callers ==
  \E r \in Requests : \/ SendRconCommandViaWorker(r) \/ SendRconCommandFails(r)
                      \/ EnqueueInBackground(r) \/ PollResult(r) \/ PollTimeout(r)

Loop ==
  \/ ProcessOnce \/ ReclaimPendingOnce
  \/ \E e \in batch : ProcessEntry(e)
  \/ Lookup \/ ClaimRequest \/ Execute \/ WriteResult \/ WriteDone \/ Xack

Faults == LookupFails \/ ClaimFails \/ WriteFails \/ XackFails

Supervisor == Connect \/ StartQueue \/ StartQueueFails \/ EndConnection

Next == Tick \/ Callers \/ Loop \/ Faults \/ Supervisor \/ Disconnect \/ Crash

Spec == Init /\ [][Next]_vars

\* The loop of a queue runs and its calls end, the supervisor goes on to the next
\* step, time passes.  No connection need ever be lost.
FairSpec ==
  /\ Spec
  /\ WF_vars(Loop \/ Faults) /\ WF_vars(Supervisor) /\ WF_vars(Tick)

-----------------------------------------------------------------------------
(* Properties *)

TypeOK ==
  /\ now \in 0..MaxTime /\ faults \in 0..MaxFaults /\ connected \in BOOLEAN /\ queue \in Queues
  /\ enqueuedAt \in [Requests -> Nat \union {Never}] /\ waits \subseteq Requests
  /\ caller \in [Requests -> {"idle", "waiting", "ok", "worker_rejected", "timeout",
                           "worker_unavailable"}]
  /\ fresh \subseteq Entries /\ pending \subseteq Entries /\ redelivered \subseteq Entries
  /\ deliveredAt \in [Entries -> Nat \union {Never}]
  /\ result \in [Requests -> Results] /\ done \subseteq Requests
  /\ batch \subseteq Entries /\ cur \in Entries \union {NoEntry}
  /\ pc \in {"idle", "lookup", "claim", "execute", "store", "storeDone",
             "refuse", "refuseDone", "ack"}
  /\ startedAt \in Nat \union {Never} /\ verdict \in Results
  /\ runs \in [Requests -> Nat]

\* The game runs a command at most once, through crashes at any step, entries
\* delivered again, XADDs sent twice, Redis errors and results the API deletes.
AtMostOnce == \A r \in Requests : runs[r] <= 1

\* A caller that gets "ok" can rely on it: the game has run the command.
OkIsTrue == \A r \in Requests : caller[r] = "ok" => runs[r] = 1

\* An entry that is delivered again never runs: it is too old by then.  Only
\* the claimed marker or this bound keeps a late ban or map change away.
RunsOnFirstDelivery ==
  [][\A r \in Requests : runs'[r] # runs[r] => cur \notin redelivered]_vars

\* A request is closed once the game has run it, or once it is marked and the
\* queue is not about to run it.
Closed(r) == runs[r] # 0 \/ (r \in done /\ ~(pc = "execute" /\ Cur = r))
Fates ==
  [r \in Requests |-> IF enqueuedAt[r] = Never THEN "unsent"
                      ELSE IF Closed(r) THEN "closed" ELSE "open"]

\* The promise of RconPromise: a command runs only when it was sent, once, and
\* never after it was given up; answers are final, and an "ok" is the truth.
Promise == INSTANCE RconPromise WITH fate <- Fates
QueueKeepsPromise == Promise!Spec

\* Every command that was queued is acknowledged in the end, through failed and
\* crashed deliveries and reconnects, unless a connection lasts for ever on which
\* AdminCommandQueue.start has failed: nobody reads the stream then.
EveryEntryIsAcknowledged ==
  []<>(queue # "missing") =>
    \A e \in Entries : e \in fresh \union pending ~> e \notin fresh \union pending
=============================================================================
