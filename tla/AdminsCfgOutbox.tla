--------------------------- MODULE AdminsCfgOutbox ---------------------------
(***************************************************************************)
(* The durable side of the Admins.cfg synchronisation: the transactions    *)
(* that change permissions and insert outbox rows, the relay that publishes*)
(* committed rows on the Redis streams, and the deletion of a server.      *)
(***************************************************************************)
EXTENDS AdminsCfgState

-----------------------------------------------------------------------------
(* Producers *)

\* Mutant of Insert: a server that has an open row gets no second one.
InsertCoalesced(T, v) ==
  LET open == {r \in RowIds : outcome[r] \in {"pending", "failed"}}
      new  == {<<s, enqueues + 1>> : s \in {t \in T : \A r \in open : r[1] # t}}
  IN
  /\ enqueues < MaxEnqueues
  /\ enqueues' = enqueues + 1
  /\ need' = [r \in RowIds |-> IF r \in new THEN v ELSE need[r]]
  /\ outcome' = [r \in RowIds |-> IF r \in new THEN "pending" ELSE outcome[r]]
  /\ UNCHANGED relayed

\* The rows that transaction number enqueues + 1 inserts for the servers T,
\* when it leaves the database at version v.
Insert(T, v) ==
  LET new == {<<s, enqueues + 1>> : s \in T} IN
  /\ enqueues < MaxEnqueues
  /\ enqueues' = enqueues + 1
  /\ need' = [r \in RowIds |-> IF r \in new THEN v ELSE need[r]]
  /\ outcome' = [r \in RowIds |-> IF r \in new THEN "pending" ELSE outcome[r]]
  /\ UNCHANGED relayed

\* A role, membership or clan mutation touches the parts P.  Its transaction
\* inserts one row for every server that was not deleted when it looked; the
\* servers in raced were deleted between that SELECT and the commit.
EnqueueForAllServers(P, raced) ==
  LET v == [p \in Parts |-> IF p \in P THEN db[p] + 1 ELSE db[p]]
      T == Present \union raced
  IN
  /\ P # {}
  /\ \A s \in raced : Deleted(s)
  /\ db' = v
  /\ Insert(T, v)
  /\ UNCHANGED <<forced, live, removal, lock, queue, status, hosts,
                 refresh, backoff, relayVars, handler, events>>

\* POST /admins-cfg/sync.  The route looks at deleted_at first, outside of any
\* transaction: the server may have been deleted since.
ForceSync(s) ==
  /\ Spend("force_sync")
  /\ Insert({s}, db)
  /\ forced' = forced \union {<<s, enqueues + 1>>}
  /\ UNCHANGED <<db, live, removal, lock, queue, status, hosts,
                 refresh, backoff, relayVars, handler>>

\* The last transaction of an install: the server is running, and gets a row.
MarkServerRunningAndEnqueue(s) ==
  /\ s \in up /\ s \notin live /\ ~Deleted(s)
  /\ live' = live \union {s}
  /\ Insert({s}, db)
  /\ UNCHANGED <<db, forced, removal, lock, queue, status, hosts,
                 refresh, backoff, relayVars, handler, events>>

-----------------------------------------------------------------------------
(* The relay.  One run at a time; it ends when no row is left to try, or    *)
(* after MaxConsecutiveFailures failures in a row.                          *)

Candidates == {r \in RowIds : outcome[r] # "absent" /\ r \notin relayed /\ r \notin failedIds}

\* The relay takes the row with the least created_at, the time its transaction
\* began.  Transactions commit in any order: that may be any of the candidates.
Oldest(r) == r \in Candidates

\* A run that would find nothing changes nothing, and is left out.
RelayRun ==
  /\ relayPc = "idle" /\ Candidates # {}
  /\ relayPc' = "scan" /\ failedIds' = {} /\ failures' = 0
  /\ UNCHANGED <<tables, live, removal, lock, queue, status, hosts,
                 refresh, backoff, relayRow, xadds, handler, events>>

\* Mutant of RelayDrained: failedIds outlives the run.
RelayDrainedKeepsFailed ==
  /\ relayPc = "scan"
  /\ Candidates = {} \/ failures >= MaxConsecutiveFailures
  /\ relayPc' = "idle" /\ failures' = 0
  /\ UNCHANGED <<tables, live, removal, lock, queue, status, hosts,
                 refresh, backoff, relayRow, failedIds, xadds, handler, events>>

RelayDrained ==
  /\ relayPc = "scan"
  /\ Candidates = {} \/ failures >= MaxConsecutiveFailures
  /\ relayPc' = "idle" /\ failedIds' = {} /\ failures' = 0
  /\ UNCHANGED <<tables, live, removal, lock, queue, status, hosts,
                 refresh, backoff, relayRow, xadds, handler, events>>

\* The row's server has been deleted: close the row, publish nothing.
RelayCancel(r) ==
  /\ relayPc = "scan" /\ failures < MaxConsecutiveFailures
  /\ Oldest(r) /\ Deleted(r[1])
  /\ relayed' = relayed \union {r}
  /\ outcome' = [outcome EXCEPT ![r] = "server_removed"]
  /\ failures' = 0
  /\ UNCHANGED <<db, enqueues, need, forced, live, removal, lock, queue, status, hosts,
                 refresh, backoff, relayPc, relayRow, failedIds, xadds, handler, events>>

\* Mutant of RelayClaim: deleted_at is not looked at.
RelayClaimAnyServer(r) ==
  /\ relayPc = "scan" /\ failures < MaxConsecutiveFailures
  /\ Oldest(r)
  /\ relayPc' = "publish" /\ relayRow' = r
  /\ UNCHANGED <<tables, live, removal, lock, queue, status, hosts,
                 refresh, backoff, failedIds, failures, xadds, handler, events>>

\* SELECT ... FOR UPDATE: the row stays locked until the step's transaction ends.
RelayClaim(r) ==
  /\ relayPc = "scan" /\ failures < MaxConsecutiveFailures
  /\ Oldest(r) /\ ~Deleted(r[1])
  /\ relayPc' = "publish" /\ relayRow' = r
  /\ UNCHANGED <<tables, live, removal, lock, queue, status, hosts,
                 refresh, backoff, failedIds, failures, xadds, handler, events>>

\* The next entry for the locked row.
NextEntry == <<relayRow, xadds[relayRow] + 1>>
CountXadd == xadds' = [xadds EXCEPT ![relayRow] = @ + 1]

RelayXadd ==
  /\ relayPc = "publish"
  /\ stream' = stream \union {NextEntry}
  /\ CountXadd
  /\ relayPc' = "stamp"
  /\ UNCHANGED <<tables, live, removal, lock, pel, groups, lateXadds, status, hosts,
                 refresh, backoff, relayRow, failedIds, failures, handler, events>>

\* Mutant of RelayStamp: the rows of the whole transaction are stamped.
RelayStampTransaction ==
  /\ relayPc = "stamp"
  /\ relayed' = relayed \union {r \in RowIds : r[2] = relayRow[2]}
  /\ failures' = 0
  /\ relayPc' = "scan" /\ relayRow' = NoRow
  /\ UNCHANGED <<db, enqueues, need, forced, outcome, live, removal, lock, queue, status,
                 hosts, refresh, backoff, failedIds, xadds, handler, events>>

RelayStamp ==
  /\ relayPc = "stamp"
  /\ relayed' = relayed \union {relayRow}
  /\ failures' = 0
  /\ relayPc' = "scan" /\ relayRow' = NoRow
  /\ UNCHANGED <<db, enqueues, need, forced, outcome, live, removal, lock, queue, status,
                 hosts, refresh, backoff, failedIds, xadds, handler, events>>

\* The step gives up on the row; the run skips it from here on.
RelayGiveUp ==
  /\ relayPc' = "scan" /\ relayRow' = NoRow
  /\ failedIds' = failedIds \union {relayRow}
  /\ failures' = failures + 1
  /\ UNCHANGED <<tables, live, removal, lock, status, hosts,
                 refresh, backoff, handler>>

\* Mutant of RelayXaddRefused: the row is stamped although nothing was published.
RelayXaddRefusedStamped ==
  /\ relayPc = "publish" /\ Spend("xadd")
  /\ relayed' = relayed \union {relayRow}
  /\ relayPc' = "scan" /\ relayRow' = NoRow
  /\ UNCHANGED <<db, enqueues, need, forced, outcome, live, removal, lock, queue, status,
                 hosts, refresh, backoff, failedIds, failures, xadds, handler>>

\* XADD is refused, or times out before Redis has executed it: then it may
\* still land later.
RelayXaddRefused ==
  /\ relayPc = "publish" /\ Spend("xadd")
  /\ RelayGiveUp
  /\ UNCHANGED <<queue, xadds>>

RelayXaddTimesOut ==
  /\ relayPc = "publish" /\ Spend("late_xadd")
  /\ lateXadds' = lateXadds \union {NextEntry}
  /\ CountXadd
  /\ RelayGiveUp
  /\ UNCHANGED <<stream, pel, groups>>

\* Redis has executed the XADD, and its answer is lost or late.
RelayReplyLost ==
  /\ relayPc = "stamp" /\ Spend("xadd")
  /\ RelayGiveUp
  /\ UNCHANGED <<queue, xadds>>

LateXaddLands(e) ==
  /\ e \in lateXadds
  /\ stream' = stream \union {e}
  /\ lateXadds' = lateXadds \ {e}
  /\ UNCHANGED <<tables, live, removal, lock, pel, groups, status, hosts,
                 refresh, backoff, relayVars, handler, events>>

-----------------------------------------------------------------------------
(* softDeleteServer: the host first, then the database, then Redis. *)

\* Removing the container and the configs directory is best effort: either
\* may fail, and the deletion goes on.
RemoveHost(s) ==
  /\ removal[s] = "none" /\ Spend("removal")
  /\ removal' = [removal EXCEPT ![s] = "host"]
  /\ up' \in {up, up \ {s}}
  /\ file' \in {file, [file EXCEPT ![s] = Stale]}
  /\ UNCHANGED <<tables, live, lock, queue, status, lateWrites, loaded,
                 refresh, backoff, relayVars, handler>>

\* One transaction: deleted_at, and the server's rows closed.
RemoveRow(s) ==
  /\ removal[s] = "host"
  /\ \A r \in RowIds : r[1] = s => ~RowLocked(r)
  /\ removal' = [removal EXCEPT ![s] = "db"]
  /\ outcome' = [r \in RowIds |->
       IF r[1] = s /\ outcome[r] \in {"pending", "failed"} THEN "server_removed" ELSE outcome[r]]
  /\ relayed' = relayed \union {r \in RowIds : r[1] = s /\ outcome[r] # "absent"}
  /\ UNCHANGED <<db, enqueues, need, forced, live, lock, queue, status, hosts,
                 refresh, backoff, relayVars, handler, events>>

\* XGROUP DESTROY, UNLINK and DEL.  Whatever the worker does between them it
\* could as well do before or after the three.
RemoveQueue(s) ==
  /\ removal[s] = "db"
  /\ removal' = [removal EXCEPT ![s] = "done"]
  /\ stream' = {e \in stream : ServerOf(e) # s}
  /\ pel' = {e \in pel : ServerOf(e) # s}
  /\ groups' = groups \ {s}
  /\ status' = [status EXCEPT ![s] = "none"]
  /\ UNCHANGED <<tables, live, lock, lateXadds, hosts,
                 refresh, backoff, relayVars, handler, events>>

\* Each of them is tried whatever became of the others.  Some fail: the fault is
\* recorded, and what they would have removed stays.
RemoveQueueFails(s) ==
  /\ removal[s] = "db" /\ Spend("cleanup")
  /\ removal' = [removal EXCEPT ![s] = "dirty"]
  /\ groups' \in {groups, groups \ {s}}
  /\ stream' \in {stream, {e \in stream : ServerOf(e) # s \/ s \in groups'}}
  /\ pel' = {e \in pel : ServerOf(e) # s \/ s \in groups'}
  /\ status' \in {status, [status EXCEPT ![s] = "none"]}
  /\ UNCHANGED <<tables, live, lock, lateXadds, hosts,
                 refresh, backoff, relayVars, handler>>
=============================================================================
