---------------------------- MODULE AdminsCfgSync ----------------------------
(***************************************************************************)
(* The Admins.cfg synchronisation as a whole: producers, relay, worker and *)
(* the outside events they meet (a crash of the worker, the config editor, *)
(* game servers that start and stop, a Redis that loses data).             *)
(***************************************************************************)
EXTENDS AdminsCfgOutbox, AdminsCfgDelivery

Init ==
  /\ db = [p \in Parts |-> 1]
  /\ enqueues = 0
  /\ need = [r \in RowIds |-> Stale]
  /\ forced = {} /\ relayed = {}
  /\ outcome = [r \in RowIds |-> "absent"]
  /\ up \in SUBSET Servers /\ live = up
  /\ removal = [s \in Servers |-> "none"]
  /\ lock = [s \in Servers |-> "free"]
  /\ stream = {} /\ pel = {} /\ groups = {} /\ lateXadds = {}
  /\ status = [s \in Servers |-> "none"]
  /\ file = [s \in Servers |-> Stale] /\ loaded = [s \in Servers |-> Stale]
  /\ lateWrites = {}
  /\ active = {} /\ listing = {} /\ listed = [f \in Refreshers |-> {}] /\ backoff = {}
  /\ relayPc = "idle" /\ relayRow = NoRow /\ failedIds = {} /\ failures = 0
  /\ xadds = [r \in RowIds |-> 0]
  /\ batch = [h \in Handlers |-> {}]
  /\ pc = [h \in Handlers |-> "idle"]
  /\ srv = [h \in Handlers |-> NoServer]
  /\ ent = [h \in Handlers |-> NoEntry]
  /\ unread = [h \in Handlers |-> {}]
  /\ snap = [h \in Handlers |-> Stale]
  /\ verdict = [h \in Handlers |-> "pending"]
  /\ events = 0

-----------------------------------------------------------------------------
(* Outside events *)

\* Calls the worker waits for: the host bridge or Redis may still do them after
\* the worker is gone.
WritesInFlight == {<<srv[h], snap[h]>> : h \in {g \in Handlers : Compared(g) /\ NeedsWrite(g)}}
XaddsInFlight == IF relayPc = "publish" THEN {NextEntry} ELSE {}

\* The worker dies.  PostgreSQL rolls back its transactions and frees its
\* locks; its memory is gone; Redis and the files keep what they have.
Crash ==
  /\ Spend("crash")
  /\ lock' = [s \in Servers |-> "free"]
  /\ active' = {} /\ listing' = {} /\ listed' = [f \in Refreshers |-> {}] /\ backoff' = {}
  /\ relayPc' = "idle" /\ relayRow' = NoRow /\ failedIds' = {} /\ failures' = 0
  /\ batch' = [h \in Handlers |-> {}]
  /\ pc' = [h \in Handlers |-> "idle"]
  /\ srv' = [h \in Handlers |-> NoServer]
  /\ ent' = [h \in Handlers |-> NoEntry]
  /\ unread' = [h \in Handlers |-> {}]
  /\ snap' = [h \in Handlers |-> Stale]
  /\ verdict' = [h \in Handlers |-> "pending"]
  /\ \/ "late_write" \in Enabled /\ lateWrites' = lateWrites \union WritesInFlight
     \/ UNCHANGED lateWrites
  /\ \/ "late_xadd" \in Enabled /\ lateXadds' = lateXadds \union XaddsInFlight
     \/ UNCHANGED lateXadds
  /\ xadds' = IF lateXadds' = lateXadds THEN xadds ELSE [xadds EXCEPT ![relayRow] = @ + 1]
  /\ UNCHANGED <<tables, live, removal, stream, pel, groups, status, file, up, loaded>>

\* The config editor writes an Admins.cfg of its own, under the same lock.
WriteVersion(s) ==
  /\ Spend("edit")
  /\ lock[s] = "free" /\ ~Deleted(s)
  /\ file' = [file EXCEPT ![s] = Stale]
  /\ UNCHANGED <<tables, live, removal, lock, queue, status, lateWrites, up, loaded,
                 refresh, backoff, relayVars, handler>>

\* Redis loses the streams (no persistence, eviction, FLUSHALL).
RedisLosesData ==
  /\ Spend("loss")
  /\ stream' = {} /\ pel' = {} /\ groups' = {}
  /\ status' = [s \in Servers |-> "none"]
  /\ UNCHANGED <<tables, live, removal, lock, lateXadds, hosts,
                 refresh, backoff, relayVars, handler>>

\* /start and /restart set the status before the container runs, /stop before
\* it stops; a container may also start or stop on its own.
StatusChanges(s) ==
  /\ Spend("lifecycle") /\ ~Deleted(s)
  /\ live' = IF s \in live THEN live \ {s} ELSE live \union {s}
  /\ UNCHANGED <<tables, removal, lock, queue, status, hosts,
                 refresh, backoff, relayVars, handler>>

\* A game process reads Admins.cfg when it starts.
ContainerStarts(s) ==
  /\ Spend("lifecycle") /\ s \notin up /\ removal[s] = "none"
  /\ up' = up \union {s}
  /\ loaded' = [loaded EXCEPT ![s] = file[s]]
  /\ UNCHANGED <<tables, live, removal, lock, queue, status, file, lateWrites,
                 refresh, backoff, relayVars, handler>>

ContainerStops(s) ==
  /\ Spend("lifecycle") /\ s \in up
  /\ up' = up \ {s}
  /\ UNCHANGED <<tables, live, removal, lock, queue, status, file, lateWrites, loaded,
                 refresh, backoff, relayVars, handler>>

\* The status reconciler writes what the container does into the status.
Reconcile(s) ==
  /\ ~Deleted(s) /\ (s \in live) # (s \in up)
  /\ live' = IF s \in up THEN live \union {s} ELSE live \ {s}
  /\ UNCHANGED <<tables, removal, lock, queue, status, hosts,
                 refresh, backoff, relayVars, handler, events>>

\* A reload nobody waits for any more, or one an operator has asked for.
GameReloads(s) ==
  /\ s \in up /\ Spend("rcon")
  /\ loaded' = [loaded EXCEPT ![s] = file[s]]
  /\ UNCHANGED <<tables, live, removal, lock, queue, status, file, lateWrites, up,
                 refresh, backoff, relayVars, handler>>

-----------------------------------------------------------------------------
Produce ==
  \/ \E P \in SUBSET Parts, raced \in SUBSET Servers : EnqueueForAllServers(P, raced)
  \/ \E s \in Servers : ForceSync(s) \/ MarkServerRunningAndEnqueue(s)

\* What the relay does when Redis answers.
RelayStep ==
  \/ RelayRun \/ RelayDrained \/ RelayXadd \/ RelayStamp
  \/ \E r \in RowIds : RelayCancel(r) \/ RelayClaim(r)

RelayFault ==
  \/ RelayXaddRefused \/ RelayXaddTimesOut \/ RelayReplyLost
  \/ \E e \in lateXadds : LateXaddLands(e)

Remove ==
  \E s \in Servers : RemoveHost(s) \/ RemoveRow(s) \/ RemoveQueue(s) \/ RemoveQueueFails(s)

Refresh == RefreshTimer \/ RefreshTimerDone

Read == ProcessStreamEvents \/ ReadNoGroup \/ ReadNoGroupDone

Acquire(h) == \E e \in batch[h] : AcquireForEntry(h, e)

\* What a handler does when the bridge, RCON and the databases answer.
DeliveryStep(h) ==
  \/ \E p \in Parts : Snapshot(h, p)
  \/ SkipWrite(h) \/ FileAtomicWrite(h) \/ PublishInSync(h)
  \/ ReadFirstState(h) \/ ReloadConfirmed(h) \/ ReadFinalState(h)
  \/ MarkApplied(h) \/ AcknowledgeAndDelete(h)

DeliveryFault(h) ==
  \/ FileReadFails(h) \/ FileWriteFails(h) \/ FileWriteTimesOut(h)
  \/ ReloadFails(h) \/ HandlerThrows(h)

Environment ==
  \/ Crash \/ RedisLosesData
  \/ \E w \in lateWrites : LateWriteLands(w)
  \/ \E s \in Servers : \/ WriteVersion(s) \/ StatusChanges(s) \/ ContainerStarts(s)
                        \/ ContainerStops(s) \/ Reconcile(s) \/ GameReloads(s)

Next ==
  \/ Produce \/ RelayStep \/ RelayFault \/ Remove \/ Refresh \/ Read
  \/ \E s \in Servers : ReclaimPendingMessages(s) \/ BackoffExpires(s) \/ AcquireForDrift(s)
  \/ \E h \in Handlers : Acquire(h) \/ DeliveryStep(h) \/ DeliveryFault(h)
  \/ Environment

Spec == Init /\ [][Next]_vars

\* Timers fire again and again, and calls that get no answer end by a timeout.
\* PostgreSQL serves the waiters of an advisory lock in turn, and a reclaim
\* pass visits every active server: both are strongly fair.
Fairness ==
  /\ WF_vars(RelayStep) /\ WF_vars(Refresh) /\ WF_vars(Read)
  /\ WF_vars(\E s \in Servers : BackoffExpires(s))
  /\ WF_vars(\E s \in Servers : Reconcile(s))
  /\ WF_vars(\E s \in Servers : RemoveRow(s))
  /\ \A s \in Servers : SF_vars(ReclaimPendingMessages(s))
  /\ \A h \in Handlers : /\ SF_vars(Acquire(h))
                         /\ WF_vars(DeliveryStep(h) \/ DeliveryFault(h))

FairSpec == Spec /\ Fairness

-----------------------------------------------------------------------------
(* Properties *)

TypeOK ==
  /\ db \in Versions /\ enqueues \in 0..MaxEnqueues
  /\ need \in [RowIds -> Versions] /\ outcome \in [RowIds -> Outcomes]
  /\ forced \subseteq RowIds /\ relayed \subseteq RowIds
  /\ live \subseteq Servers /\ up \subseteq Servers
  /\ removal \in [Servers -> {"none", "host", "db", "done", "dirty"}]
  /\ lock \in [Servers -> Handlers \union {"free"}]
  /\ stream \subseteq Entries /\ pel \subseteq Entries /\ lateXadds \subseteq Entries
  /\ groups \subseteq Servers
  /\ status \in [Servers -> {"none", "syncing", "in_sync", "drift", "unreachable"}]
  /\ file \in [Servers -> Versions] /\ loaded \in [Servers -> Versions]
  /\ lateWrites \subseteq Servers \X Versions
  /\ active \subseteq Servers /\ backoff \subseteq Servers
  /\ listing \subseteq Refreshers /\ listed \in [Refreshers -> SUBSET Servers]
  /\ relayPc \in {"idle", "scan", "publish", "stamp"}
  /\ relayRow \in RowIds \union {NoRow}
  /\ failedIds \subseteq RowIds /\ failures \in Nat
  /\ xadds \in [RowIds -> Nat]
  /\ batch \in [Handlers -> SUBSET Entries]
  /\ pc \in [Handlers -> Locked \union {"idle", "ack"}]
  /\ srv \in [Handlers -> Servers \union {NoServer}]
  /\ ent \in [Handlers -> Entries \union {NoEntry}]
  /\ unread \in [Handlers -> SUBSET Parts]
  /\ snap \in [Handlers -> Versions]
  /\ verdict \in [Handlers -> AppliedOutcomes \union {"pending"}]
  /\ events \in Nat

\* A row recorded as applied is on disk: the file carries every change the row
\* was inserted for, unless the editor or a teardown has replaced it since.
\* (handleAdminsCfgSyncEntry stores applied_at only after the file operation.)
AppliedIsOnDisk ==
  \A r \in RowIds : outcome[r] \in {"confirmed", "file_ready_for_restart"} => Covers(file[r[1]], r)

\* A row recorded as confirmed has reached the game: the running process has
\* loaded it, with confirmAdminsCfgReload or when it started.
ConfirmedIsLoaded ==
  \A r \in RowIds : outcome[r] = "confirmed" /\ r[1] \in up => Covers(loaded[r[1]], r)

\* Once no row of a server is open, the file the sync wrote is what the
\* database holds now: a snapshot torn by a concurrent mutation never stays.
SettledIsCurrent ==
  \A s \in Servers :
    /\ \A r \in RowIds : r[1] = s => outcome[r] \in AppliedOutcomes \union {"absent"}
    /\ ~Deleted(s)
    => file[s] \in {db, Stale}

\* A row the relay will not publish again and that is not applied yet has an
\* entry in the stream: no crash, replay, lost answer or deletion strands it.
NoStrandedRow ==
  \A r \in RowIds : outcome[r] \in {"pending", "failed"} /\ r \in relayed =>
    \E e \in stream : RowOf(e) = r

\* A deleted server whose queue was torn down gets no entry any more: the
\* relay's row lock and its look at deleted_at keep XADD away.
NothingPublishedAfterTeardown ==
  \A e \in stream : removal[ServerOf(e)] # "done"

\* The sync never moves the file back to an older version of any part.
FileNeverGoesBack ==
  [][\A s \in Servers : file'[s] = Stale \/ \A p \in Parts : file'[s][p] >= file[s][p]]_vars

\* An applied row keeps its outcome, whatever replays or deletions follow.
AppliedIsFinal ==
  [][\A r \in RowIds : Applied(r) => outcome'[r] = outcome[r]]_vars

\* Every committed row is taken up or closed: a consumer group that is gone
\* fails XREADGROUP for all streams, and must not stall the other servers.
EveryRowIsTried ==
  \A r \in RowIds : outcome[r] = "pending" ~> outcome[r] # "pending"

\* Every committed row is applied in the end, through failed publishes, lost
\* answers, unreachable hosts and rejected reloads.
EveryRowIsApplied ==
  \A r \in RowIds : outcome[r] = "pending" ~> Applied(r)

\* The promise of AdminsCfgPromise; a failed row is an open task.
Promise == INSTANCE AdminsCfgPromise WITH
  task <- [r \in RowIds |-> IF outcome[r] \in {"pending", "failed"} THEN "open" ELSE outcome[r]]

\* The worker, the relay and the deletion keep that promise.
KeepsPromise == Promise!Spec
=============================================================================
