-------------------------- MODULE AdminsCfgDelivery --------------------------
(***************************************************************************)
(* The config-sync worker: the stream reader, the reclaim pass, the drift  *)
(* sweep, and the delivery of one entry under the per-server advisory lock.*)
(*                                                                         *)
(* The three handlers run in one process and interleave at every await.    *)
(* An entry read with XREADGROUP or XAUTOCLAIM stays in the group's pending*)
(* list until it is acknowledged; the reclaim pass may take over an entry  *)
(* that the reader still has in its batch.                                 *)
(***************************************************************************)
EXTENDS AdminsCfgState

Deliverers == Handlers \ {"drift"}

\* Steps a handler takes inside its transaction, holding the server's lock.
Locked == {"snapshot", "wrote", "state", "reload", "unconfirmed", "confirmed", "mark"}

-----------------------------------------------------------------------------
(* The server list: a query, then XGROUP CREATE ... MKSTREAM at id 0. *)

RefreshQuery(f) ==
  /\ f \notin listing
  /\ listing' = listing \union {f}
  /\ listed' = [listed EXCEPT ![f] = Present]

\* A timer refresh is counted when it reads the list the worker already has.
KnownList == active = Present

\* A new group starts at the beginning of the stream and has nothing pending.
EnsureGroups(S) == groups' = groups \union S

RefreshTimer ==
  /\ RefreshQuery("timer")
  /\ IF KnownList THEN Spend("refresh") ELSE UNCHANGED events
  /\ UNCHANGED <<tables, live, removal, lock, queue, status, hosts,
                 active, backoff, relayVars, handler>>

RefreshTimerDone ==
  /\ "timer" \in listing
  /\ EnsureGroups(listed["timer"] \ active)
  /\ active' = listed["timer"]
  /\ listing' = listing \ {"timer"}
  /\ listed' = [listed EXCEPT !["timer"] = {}]
  /\ UNCHANGED <<tables, live, removal, lock, stream, pel, lateXadds, status, hosts,
                 backoff, relayVars, handler, events>>

-----------------------------------------------------------------------------
(* Reading entries *)

ReadSet == active \ backoff

Idle(h) == pc[h] = "idle" /\ batch[h] = {}
ReaderReady == "loop" \in Handlers /\ Idle("loop") /\ "reader" \notin listing

Fresh(S) == {e \in stream \ pel : ServerOf(e) \in S}

\* XREADGROUP over every active stream that is not backing off.
ProcessStreamEvents ==
  /\ ReaderReady
  /\ ReadSet \subseteq groups
  /\ Fresh(ReadSet) # {}
  /\ pel' = pel \union Fresh(ReadSet)
  /\ batch' = [batch EXCEPT !["loop"] = Fresh(ReadSet)]
  /\ UNCHANGED <<tables, live, removal, lock, stream, groups, lateXadds, status, hosts,
                 refresh, backoff, relayVars, pc, srv, ent, unread, snap, verdict, events>>

\* One missing group fails the read for all: refresh the list ...
ReadNoGroup ==
  /\ ReaderReady
  /\ ~(ReadSet \subseteq groups)
  /\ RefreshQuery("reader")
  /\ UNCHANGED <<tables, live, removal, lock, queue, status, hosts,
                 active, backoff, relayVars, handler, events>>

\* ... and create the group of every active server.
ReadNoGroupDone ==
  /\ "reader" \in listing
  /\ EnsureGroups(listed["reader"])
  /\ active' = listed["reader"]
  /\ listing' = listing \ {"reader"}
  /\ listed' = [listed EXCEPT !["reader"] = {}]
  /\ backoff' = backoff \intersect listed["reader"]
  /\ UNCHANGED <<tables, live, removal, lock, stream, pel, lateXadds, status, hosts,
                 relayVars, handler, events>>

\* XAUTOCLAIM of one server's pending entries.  How long they have been idle
\* is abstracted: any pending entry may be old enough.
ReclaimPendingMessages(s) ==
  LET claimed == {e \in pel : ServerOf(e) = s} IN
  /\ "reclaim" \in Handlers /\ Idle("reclaim")
  /\ s \in ReadSet \intersect groups
  /\ claimed # {}
  /\ batch' = [batch EXCEPT !["reclaim"] = claimed]
  /\ UNCHANGED <<tables, live, removal, lock, queue, status, hosts,
                 refresh, backoff, relayVars, pc, srv, ent, unread, snap, verdict, events>>

BackoffExpires(s) ==
  /\ s \in backoff
  /\ backoff' = backoff \ {s}
  /\ UNCHANGED <<tables, live, removal, lock, queue, status, hosts,
                 refresh, relayVars, handler, events>>

-----------------------------------------------------------------------------
(* Delivery of one entry *)

\* Handler h is done with its entry (if it has one) and with its lock.
Finish(h) ==
  /\ pc' = [pc EXCEPT ![h] = "idle"]
  /\ batch' = [batch EXCEPT ![h] = @ \ {ent[h]}]
  /\ ent' = [ent EXCEPT ![h] = NoEntry]
  /\ unread' = [unread EXCEPT ![h] = {}]
  /\ snap' = [snap EXCEPT ![h] = Stale]
  /\ verdict' = [verdict EXCEPT ![h] = "pending"]
  /\ srv' = [srv EXCEPT ![h] = NoServer]

Release(h) == lock' = [s \in Servers |-> IF lock[s] = h THEN "free" ELSE lock[s]]

\* recordOutcome(serverId, ok)
RecordOutcome(s, ok) ==
  backoff' = IF ok THEN backoff \ {s} ELSE backoff \union {s}

\* Mutant of AcquireForEntry: the handlers do not exclude each other.
AcquireUnlocked(h, e) ==
  /\ h \in Deliverers /\ pc[h] = "idle" /\ e \in batch[h]
  /\ srv' = [srv EXCEPT ![h] = ServerOf(e)]
  /\ ent' = [ent EXCEPT ![h] = e]
  /\ pc' = [pc EXCEPT ![h] = IF Applied(RowOf(e)) THEN "ack" ELSE "snapshot"]
  /\ unread' = [unread EXCEPT ![h] = Parts]
  /\ UNCHANGED <<tables, live, removal, lock, queue, status, hosts,
                 refresh, backoff, relayVars, batch, snap, verdict, events>>

\* The first read under the lock decides: a row already applied is only
\* acknowledged, any other row is synchronised.
AcquireForEntry(h, e) ==
  /\ h \in Deliverers /\ pc[h] = "idle" /\ e \in batch[h]
  /\ lock[ServerOf(e)] = "free"
  /\ srv' = [srv EXCEPT ![h] = ServerOf(e)]
  /\ ent' = [ent EXCEPT ![h] = e]
  /\ IF Applied(RowOf(e))
       THEN /\ pc' = [pc EXCEPT ![h] = "ack"]
            /\ UNCHANGED <<lock, unread, status>>
       ELSE /\ pc' = [pc EXCEPT ![h] = "snapshot"]
            /\ lock' = [lock EXCEPT ![ServerOf(e)] = h]
            /\ unread' = [unread EXCEPT ![h] = Parts]
            /\ status' = [status EXCEPT ![ServerOf(e)] = "syncing"]
  /\ UNCHANGED <<tables, live, removal, queue, hosts,
                 refresh, backoff, relayVars, batch, snap, verdict, events>>

\* The drift sweep synchronises without an entry, in passive mode.
AcquireForDrift(s) ==
  /\ "drift" \in Handlers /\ pc["drift"] = "idle"
  /\ s \in ReadSet
  /\ lock[s] = "free"
  /\ srv' = [srv EXCEPT !["drift"] = s]
  /\ pc' = [pc EXCEPT !["drift"] = "snapshot"]
  /\ lock' = [lock EXCEPT ![s] = "drift"]
  /\ unread' = [unread EXCEPT !["drift"] = Parts]
  /\ status' = [status EXCEPT ![s] = "syncing"]
  /\ UNCHANGED <<tables, live, removal, queue, hosts,
                 refresh, backoff, relayVars, batch, ent, snap, verdict, events>>

\* One query of snapshotRolesAndAdmins: each sees its own committed state.
Snapshot(h, p) ==
  /\ pc[h] = "snapshot" /\ p \in unread[h]
  /\ snap' = [snap EXCEPT ![h][p] = db[p]]
  /\ unread' = [unread EXCEPT ![h] = @ \ {p}]
  /\ UNCHANGED <<tables, live, removal, lock, queue, status, hosts,
                 refresh, backoff, relayVars, batch, pc, srv, ent, verdict, events>>

\* Mutant of Compared: the file is handled before the snapshot is complete.
ComparedEarly(h) == pc[h] = "snapshot" /\ unread[h] # Parts

\* All queries have answered: the file is read, compared, and written or not.
\* Others change it only without the lock, so that reading it is no step apart.
Compared(h) == pc[h] = "snapshot" /\ unread[h] = {}

\* Mutant of NeedsWrite: a segment the sync wrote before is left alone.
NeedsWriteOnce(h) ==
  h # "drift" /\ (RowOf(ent[h]) \in forced \/ file[srv[h]] = Stale)

NeedsWrite(h) ==
  h # "drift" /\ (RowOf(ent[h]) \in forced \/ file[srv[h]] # snap[h])

\* Nothing to write: the segment matches, or the check is passive.
SkipWrite(h) ==
  /\ Compared(h) /\ ~NeedsWrite(h)
  /\ status' = [status EXCEPT ![srv[h]] = IF file[srv[h]] = snap[h] THEN "in_sync" ELSE "drift"]
  /\ IF h = "drift"
       THEN /\ Finish(h) /\ Release(h) /\ RecordOutcome(srv[h], TRUE)
       ELSE /\ pc' = [pc EXCEPT ![h] = "state"]
            /\ UNCHANGED <<lock, backoff, batch, srv, ent, unread, snap, verdict>>
  /\ UNCHANGED <<tables, live, removal, queue, hosts, refresh, relayVars, events>>

FileAtomicWrite(h) ==
  /\ Compared(h) /\ NeedsWrite(h)
  /\ file' = [file EXCEPT ![srv[h]] = snap[h]]
  /\ pc' = [pc EXCEPT ![h] = "wrote"]
  /\ UNCHANGED <<tables, live, removal, lock, queue, status, lateWrites, up, loaded,
                 refresh, backoff, relayVars, batch, srv, ent, unread, snap, verdict, events>>

\* Mutant of PublishInSync: the result's state is published as the status.
PublishWrote(h) ==
  /\ pc[h] = "wrote"
  /\ status' = [status EXCEPT ![srv[h]] = "wrote"]
  /\ pc' = [pc EXCEPT ![h] = "state"]
  /\ UNCHANGED <<tables, live, removal, lock, queue, hosts,
                 refresh, backoff, relayVars, batch, srv, ent, unread, snap, verdict, events>>

PublishInSync(h) ==
  /\ pc[h] = "wrote"
  /\ status' = [status EXCEPT ![srv[h]] = "in_sync"]
  /\ pc' = [pc EXCEPT ![h] = "state"]
  /\ UNCHANGED <<tables, live, removal, lock, queue, hosts,
                 refresh, backoff, relayVars, batch, srv, ent, unread, snap, verdict, events>>

\* markAdminsCfgSyncFailed leaves an applied row alone.
MarkFailed(r) ==
  /\ ~RowLocked(r)
  /\ outcome' = IF Applied(r) THEN outcome ELSE [outcome EXCEPT ![r] = "failed"]

\* The delivery ends without success: the entry stays pending.
Retry(h) ==
  /\ IF h = "drift" THEN UNCHANGED outcome ELSE MarkFailed(RowOf(ent[h]))
  /\ Finish(h) /\ Release(h) /\ RecordOutcome(srv[h], FALSE)
  /\ UNCHANGED <<db, enqueues, need, forced, relayed, live, removal, queue, refresh, relayVars>>

\* The file cannot be read.
FileReadFails(h) ==
  /\ Compared(h) /\ Spend("bridge")
  /\ status' = [status EXCEPT ![srv[h]] = "unreachable"]
  /\ Retry(h)
  /\ UNCHANGED hosts

\* The write fails: the bridge has done it or not ...
FileWriteFails(h) ==
  /\ Compared(h) /\ NeedsWrite(h) /\ Spend("bridge")
  /\ status' = [status EXCEPT ![srv[h]] = "unreachable"]
  /\ file' \in {file, [file EXCEPT ![srv[h]] = snap[h]]}
  /\ Retry(h)
  /\ UNCHANGED <<lateWrites, up, loaded>>

\* ... or its caller times out, and the bridge does it later.
FileWriteTimesOut(h) ==
  /\ Compared(h) /\ NeedsWrite(h) /\ Spend("late_write")
  /\ status' = [status EXCEPT ![srv[h]] = "unreachable"]
  /\ lateWrites' = lateWrites \union {<<srv[h], snap[h]>>}
  /\ Retry(h)
  /\ UNCHANGED <<file, up, loaded>>

LateWriteLands(w) ==
  /\ w \in lateWrites
  /\ file' = [file EXCEPT ![w[1]] = w[2]]
  /\ lateWrites' = lateWrites \ {w}
  /\ UNCHANGED <<tables, live, removal, lock, queue, status, up, loaded,
                 refresh, backoff, relayVars, handler, events>>

\* firstState: a live server must confirm a reload.
ReadFirstState(h) ==
  /\ pc[h] = "state"
  /\ IF Deleted(srv[h])
       THEN /\ pc' = [pc EXCEPT ![h] = "mark"]
            /\ verdict' = [verdict EXCEPT ![h] = "server_removed"]
       ELSE /\ pc' = [pc EXCEPT ![h] = IF srv[h] \in live THEN "reload" ELSE "unconfirmed"]
            /\ UNCHANGED verdict
  /\ UNCHANGED <<tables, live, removal, lock, queue, status, hosts,
                 refresh, backoff, relayVars, batch, srv, ent, unread, snap, events>>

\* AdminReloadServerConfig has run and its result was read in time.
ReloadConfirmed(h) ==
  /\ pc[h] = "reload" /\ srv[h] \in up
  /\ loaded' = [loaded EXCEPT ![srv[h]] = file[srv[h]]]
  /\ pc' = [pc EXCEPT ![h] = "confirmed"]
  /\ UNCHANGED <<tables, live, removal, lock, queue, status, file, lateWrites, up,
                 refresh, backoff, relayVars, batch, srv, ent, unread, snap, verdict, events>>

\* rejected, timeout, invalid_result or unavailable: certain when no process
\* answers.  After a timeout the command may run all the same: GameReloads.
ReloadFails(h) ==
  /\ pc[h] = "reload"
  /\ IF srv[h] \in up THEN Spend("rcon") ELSE UNCHANGED events
  /\ Retry(h)
  /\ UNCHANGED <<hosts, status>>

\* finalState: a server that came up meanwhile must confirm a reload too.
ReadFinalState(h) ==
  /\ pc[h] \in {"confirmed", "unconfirmed"}
  /\ IF pc[h] = "unconfirmed" /\ ~Deleted(srv[h]) /\ srv[h] \in live
       THEN /\ pc' = [pc EXCEPT ![h] = "reload"]
            /\ UNCHANGED verdict
       ELSE /\ pc' = [pc EXCEPT ![h] = "mark"]
            /\ verdict' = [verdict EXCEPT ![h] =
                 IF Deleted(srv[h]) THEN "server_removed"
                 ELSE IF srv[h] \in live THEN "confirmed" ELSE "file_ready_for_restart"]
  /\ UNCHANGED <<tables, live, removal, lock, queue, status, hosts,
                 refresh, backoff, relayVars, batch, srv, ent, unread, snap, events>>

\* Mutant of MarkApplied: the update names the server in place of the row.
MarkAppliedOfServer(h) ==
  /\ pc[h] = "mark" /\ ~RowLocked(RowOf(ent[h]))
  /\ outcome' = [r \in RowIds |-> IF r[1] = srv[h] /\ outcome[r] = "pending"
                                  THEN verdict[h] ELSE outcome[r]]
  /\ pc' = [pc EXCEPT ![h] = "ack"]
  /\ unread' = [unread EXCEPT ![h] = {}]
  /\ snap' = [snap EXCEPT ![h] = Stale]
  /\ verdict' = [verdict EXCEPT ![h] = "pending"]
  /\ Release(h)
  /\ UNCHANGED <<db, enqueues, need, forced, relayed, live, removal, queue, status, hosts,
                 refresh, backoff, relayVars, batch, srv, ent, events>>

\* Mutant of MarkApplied: an outcome stored meanwhile is overwritten.
MarkAppliedAgain(h) ==
  /\ pc[h] = "mark" /\ ~RowLocked(RowOf(ent[h]))
  /\ outcome' = [outcome EXCEPT ![RowOf(ent[h])] = verdict[h]]
  /\ pc' = [pc EXCEPT ![h] = "ack"]
  /\ unread' = [unread EXCEPT ![h] = {}]
  /\ snap' = [snap EXCEPT ![h] = Stale]
  /\ verdict' = [verdict EXCEPT ![h] = "pending"]
  /\ Release(h)
  /\ UNCHANGED <<db, enqueues, need, forced, relayed, live, removal, queue, status, hosts,
                 refresh, backoff, relayVars, batch, srv, ent, events>>

\* markAdminsCfgSyncApplied stores the first outcome; the commit frees the lock.
MarkApplied(h) ==
  /\ pc[h] = "mark" /\ ~RowLocked(RowOf(ent[h]))
  /\ outcome' = IF Applied(RowOf(ent[h])) THEN outcome
                ELSE [outcome EXCEPT ![RowOf(ent[h])] = verdict[h]]
  /\ pc' = [pc EXCEPT ![h] = "ack"]
  /\ unread' = [unread EXCEPT ![h] = {}]
  /\ snap' = [snap EXCEPT ![h] = Stale]
  /\ verdict' = [verdict EXCEPT ![h] = "pending"]
  /\ Release(h)
  /\ UNCHANGED <<db, enqueues, need, forced, relayed, live, removal, queue, status, hosts,
                 refresh, backoff, relayVars, batch, srv, ent, events>>

\* One script does XACK and XDEL.
AcknowledgeAndDelete(h) ==
  /\ pc[h] = "ack"
  /\ stream' = stream \ {ent[h]}
  /\ pel' = pel \ {ent[h]}
  /\ RecordOutcome(srv[h], TRUE)
  /\ Finish(h)
  /\ UNCHANGED <<tables, live, removal, lock, groups, lateXadds, status, hosts,
                 refresh, relayVars, events>>

\* Any awaited call throws: the transaction rolls back, the entry stays pending.
HandlerThrows(h) ==
  /\ pc[h] # "idle" /\ Spend("throw")
  /\ Finish(h) /\ Release(h) /\ RecordOutcome(srv[h], FALSE)
  /\ UNCHANGED <<tables, live, removal, queue, status, hosts, refresh, relayVars>>
=============================================================================
