------------------------ MODULE AdminsCfgSync_proofs ------------------------
(***************************************************************************)
(* What holds of the Admins.cfg synchronisation for any servers, any parts *)
(* and any bounds.  This module: types, what the handlers and the relay    *)
(* work on, and that whatever names an outbox row names an existing one.   *)
(* AdminsCfgQueue_proofs and AdminsCfgFile_proofs build on it.             *)
(***************************************************************************)
EXTENDS AdminsCfgSync, TLAPS

Own(h) == RowOf(ent[h])

\* Handlers and the relay know what they work on, and a handler inside its
\* transaction holds the lock of its server.
Working ==
  /\ \A h \in Handlers :
       /\ pc[h] # "idle" => srv[h] \in Servers
       /\ pc[h] # "idle" /\ h # "drift" => ent[h] \in Entries /\ srv[h] = ServerOf(ent[h])
       /\ h = "drift" => pc[h] \in {"idle", "snapshot"}
       /\ pc[h] \in Locked => lock[srv[h]] = h
  /\ relayPc \in {"publish", "stamp"} => relayRow \in RowIds

\* Rows are numbered by their transactions, and whatever names a row names
\* one that has been inserted.
Known(r) == outcome[r] # "absent"

RowsExist ==
  /\ \A r \in RowIds : Known(r) => r[2] <= enqueues
  /\ \A r \in relayed : Known(r)
  /\ \A e \in stream \union pel \union lateXadds : Known(RowOf(e))
  /\ \A h \in Handlers : /\ \A e \in batch[h] : Known(RowOf(e))
                         /\ pc[h] # "idle" /\ h # "drift" => Known(Own(h))
  /\ relayPc \in {"publish", "stamp"} => Known(relayRow)

-----------------------------------------------------------------------------
(* Types *)

LEMMA RowFacts ==
  ASSUME NEW r \in RowIds
  PROVE  r[1] \in Servers /\ r[2] \in 1..MaxEnqueues /\ r = <<r[1], r[2]>>
BY DEF RowIds

LEMMA EntryFacts ==
  ASSUME NEW e \in Entries
  PROVE  RowOf(e) \in RowIds /\ ServerOf(e) \in Servers /\ ServerOf(e) = RowOf(e)[1]
BY Zenon, RowFacts DEF Entries, RowOf, ServerOf

LEMMA PresentServers == Present \subseteq Servers
BY Zenon DEF Present

LEMMA StaleIsVersion == Stale \in Versions
BY Zenon DEF Stale, Versions

\* What happens to the hosts, to a status or to a game leaves the rows, the
\* streams, the relay and the handlers alone.
LEMMA HostSteps ==
  ASSUME NEW s \in Servers,
         WriteVersion(s) \/ StatusChanges(s) \/ ContainerStarts(s)
           \/ ContainerStops(s) \/ Reconcile(s) \/ GameReloads(s)
  PROVE  UNCHANGED <<tables, removal, lock, queue, relayVars, handler>>
BY Zenon DEF WriteVersion, StatusChanges, ContainerStarts, ContainerStops, Reconcile, GameReloads

\* The types, sorted by where the state lives.
TableTypes ==
  /\ db \in Versions /\ enqueues \in 0..MaxEnqueues
  /\ need \in [RowIds -> Versions] /\ outcome \in [RowIds -> Outcomes]
  /\ forced \subseteq RowIds /\ relayed \subseteq RowIds
ServerTypes ==
  /\ live \subseteq Servers
  /\ removal \in [Servers -> {"none", "host", "db", "done", "dirty"}]
LockTypes == lock \in [Servers -> Handlers \union {"free"}]
QueueTypes ==
  /\ stream \subseteq Entries /\ pel \subseteq Entries /\ lateXadds \subseteq Entries
  /\ groups \subseteq Servers
StatusTypes == status \in [Servers -> {"none", "syncing", "in_sync", "drift", "unreachable"}]
HostTypes ==
  /\ up \subseteq Servers
  /\ file \in [Servers -> Versions] /\ loaded \in [Servers -> Versions]
  /\ lateWrites \subseteq Servers \X Versions
RefreshTypes ==
  /\ active \subseteq Servers
  /\ listing \subseteq Refreshers /\ listed \in [Refreshers -> SUBSET Servers]
BackoffTypes == backoff \subseteq Servers
RelayTypes ==
  /\ relayPc \in {"idle", "scan", "publish", "stamp"}
  /\ relayRow \in RowIds \union {NoRow}
  /\ failedIds \subseteq RowIds /\ failures \in Nat
  /\ xadds \in [RowIds -> Nat]
  /\ relayPc \in {"publish", "stamp"} => relayRow \in RowIds
HandlerTypes ==
  /\ batch \in [Handlers -> SUBSET Entries]
  /\ pc \in [Handlers -> Locked \union {"idle", "ack"}]
  /\ srv \in [Handlers -> Servers \union {NoServer}]
  /\ ent \in [Handlers -> Entries \union {NoEntry}]
  /\ unread \in [Handlers -> SUBSET Parts]
  /\ snap \in [Handlers -> Versions]
  /\ verdict \in [Handlers -> AppliedOutcomes \union {"pending"}]
Busy(h) ==
  /\ pc[h] # "idle" => srv[h] \in Servers
  /\ pc[h] # "idle" /\ h # "drift" => ent[h] \in Entries /\ srv[h] = ServerOf(ent[h])
  /\ h = "drift" => pc[h] \in {"idle", "snapshot"}
  /\ pc[h] \in Locked => lock[srv[h]] = h

Sorted ==
  /\ TableTypes /\ ServerTypes /\ LockTypes /\ QueueTypes /\ StatusTypes /\ HostTypes
  /\ RefreshTypes /\ BackoffTypes /\ RelayTypes /\ HandlerTypes /\ events \in Nat
  /\ \A h \in Handlers : Busy(h)

LEMMA SortTypes == TypeOK /\ Working <=> Sorted
<1>1. ASSUME TypeOK, Working PROVE Sorted
  <2>1. TableTypes /\ ServerTypes /\ LockTypes /\ QueueTypes /\ StatusTypes /\ HostTypes /\ RefreshTypes
        /\ BackoffTypes /\ events \in Nat
    BY ONLY Zenon, <1>1 DEF TypeOK, TableTypes, ServerTypes, LockTypes, QueueTypes, StatusTypes, HostTypes,
                            RefreshTypes, BackoffTypes
  <2>2. RelayTypes /\ HandlerTypes /\ \A h \in Handlers : Busy(h)
    BY ONLY Zenon, <1>1 DEF TypeOK, Working, RelayTypes, HandlerTypes, Busy
  <2> QED BY ONLY Zenon, <2>1, <2>2 DEF Sorted
<1>2. ASSUME Sorted PROVE TypeOK /\ Working
  <2>1. TypeOK
    BY ONLY Zenon, <1>2 DEF Sorted, TypeOK, TableTypes, ServerTypes, LockTypes, QueueTypes, StatusTypes,
                            HostTypes, RefreshTypes, BackoffTypes, RelayTypes, HandlerTypes
  <2>2. Working
    BY ONLY Zenon, <1>2 DEF Sorted, Working, RelayTypes, Busy
  <2> QED BY Zenon, <2>1, <2>2
<1> QED BY Zenon, <1>1, <1>2

\* What a step leaves alone keeps its type.
LEMMA Unchanged ==
  /\ TableTypes /\ UNCHANGED tables => TableTypes'
  /\ ServerTypes /\ UNCHANGED <<live, removal>> => ServerTypes'
  /\ LockTypes /\ UNCHANGED lock => LockTypes'
  /\ QueueTypes /\ UNCHANGED queue => QueueTypes'
  /\ StatusTypes /\ UNCHANGED status => StatusTypes'
  /\ HostTypes /\ UNCHANGED hosts => HostTypes'
  /\ RefreshTypes /\ UNCHANGED refresh => RefreshTypes'
  /\ BackoffTypes /\ UNCHANGED backoff => BackoffTypes'
  /\ RelayTypes /\ UNCHANGED relayVars => RelayTypes'
  /\ HandlerTypes /\ UNCHANGED handler => HandlerTypes'
  /\ events \in Nat /\ UNCHANGED events => events' \in Nat
  /\ (\A h \in Handlers : Busy(h)) /\ UNCHANGED <<lock, handler>> => \A h \in Handlers : Busy(h)'
<1>1. TableTypes /\ UNCHANGED tables => TableTypes'
  BY ONLY Zenon DEF TableTypes, tables
<1>2. /\ ServerTypes /\ UNCHANGED <<live, removal>> => ServerTypes'
      /\ LockTypes /\ UNCHANGED lock => LockTypes'
      /\ StatusTypes /\ UNCHANGED status => StatusTypes'
      /\ BackoffTypes /\ UNCHANGED backoff => BackoffTypes'
      /\ events \in Nat /\ UNCHANGED events => events' \in Nat
  BY ONLY Zenon DEF ServerTypes, LockTypes, StatusTypes, BackoffTypes
<1>3. QueueTypes /\ UNCHANGED queue => QueueTypes'
  BY ONLY Zenon DEF QueueTypes, queue
<1>4. HostTypes /\ UNCHANGED hosts => HostTypes'
  BY ONLY Zenon DEF HostTypes, hosts
<1>5. RefreshTypes /\ UNCHANGED refresh => RefreshTypes'
  BY ONLY Zenon DEF RefreshTypes, refresh
<1>6. RelayTypes /\ UNCHANGED relayVars => RelayTypes'
  BY ONLY Zenon DEF RelayTypes, relayVars
<1>7. HandlerTypes /\ UNCHANGED handler => HandlerTypes'
  BY ONLY Zenon DEF HandlerTypes, handler
<1>8. (\A h \in Handlers : Busy(h)) /\ UNCHANGED <<lock, handler>> => \A h \in Handlers : Busy(h)'
  BY ONLY Zenon DEF Busy, handler
<1> QED BY ONLY Zenon, <1>1, <1>2, <1>3, <1>4, <1>5, <1>6, <1>7, <1>8

LEMMA SpendTypes == ASSUME events \in Nat, NEW k, Spend(k) PROVE events' \in Nat
BY SMT DEF Spend

\* A handler that is in the middle of an entry goes on with it.
LEMMA MoveBusy ==
  ASSUME HandlerTypes, \A g \in Handlers : Busy(g), NEW h \in Handlers, h # "drift", pc[h] \in Locked,
         NEW q \in Locked, pc' = [pc EXCEPT ![h] = q], UNCHANGED <<lock, srv, ent>>
  PROVE  pc' \in [Handlers -> Locked \union {"idle", "ack"}] /\ \A g \in Handlers : Busy(g)'
<1>1. pc \in [Handlers -> Locked \union {"idle", "ack"}] /\ "idle" \notin Locked
  BY Zenon DEF HandlerTypes, Locked
<1>2. pc' \in [Handlers -> Locked \union {"idle", "ack"}]
  BY ONLY Zenon, <1>1, q \in Locked, pc' = [pc EXCEPT ![h] = q]
<1>3. pc'[h] = q /\ \A g \in Handlers : g # h => pc'[g] = pc[g]
  BY ONLY Zenon, <1>1, h \in Handlers, pc' = [pc EXCEPT ![h] = q]
<1>4. Busy(h)'
  <2>1. Busy(h)
    BY Zenon
  <2>2. pc[h] # "idle"
    BY Zenon, <1>1
  <2> QED BY Zenon, <1>3, <2>1, <2>2 DEF Busy
<1>5. ASSUME NEW g \in Handlers, g # h PROVE Busy(g)'
  <2>1. Busy(g) /\ pc'[g] = pc[g]
    BY Zenon, <1>3, <1>5
  <2> QED BY Zenon, <2>1 DEF Busy
<1> QED BY Zenon, <1>2, <1>4, <1>5

\* A handler that ends, or that has recorded its outcome, lets go of its lock; the
\* others hold theirs.
LEMMA LeaveBusy ==
  ASSUME HandlerTypes, LockTypes, \A g \in Handlers : Busy(g), NEW h \in Handlers,
         Release(h) \/ (UNCHANGED lock /\ pc[h] \notin Locked),
         \A g \in Handlers : g # h => pc'[g] = pc[g] /\ srv'[g] = srv[g] /\ ent'[g] = ent[g],
         Busy(h)'
  PROVE  LockTypes' /\ \A g \in Handlers : Busy(g)'
<1>1. LockTypes'
  BY Zenon DEF LockTypes, Release
<1>2. ASSUME NEW g \in Handlers, g # h PROVE Busy(g)'
  <2>1. Busy(g) /\ pc'[g] = pc[g] /\ srv'[g] = srv[g] /\ ent'[g] = ent[g]
    BY Zenon, <1>2
  <2>2. pc[g] \in Locked => srv[g] \in Servers /\ lock[srv[g]] = g
    BY ONLY Zenon, <2>1 DEF Busy, Locked
  <2>3. pc[g] \in Locked => lock'[srv[g]] = g
    BY ONLY SMT, <1>2, <2>2, Release(h) \/ (UNCHANGED lock /\ pc[h] \notin Locked) DEF Release
  <2> QED BY ONLY Zenon, <2>1, <2>3 DEF Busy
<1> QED BY Zenon, <1>1, <1>2

\* A handler that ends.
LEMMA FinishTypes ==
  ASSUME HandlerTypes, LockTypes, \A g \in Handlers : Busy(g), NEW h \in Handlers, Finish(h),
         Release(h) \/ (UNCHANGED lock /\ pc[h] \notin Locked)
  PROVE  HandlerTypes' /\ LockTypes' /\ \A g \in Handlers : Busy(g)'
<1>1. HandlerTypes'
  BY ZenonT(60), StaleIsVersion DEF HandlerTypes, Finish
<1>2. DOMAIN pc = Handlers /\ DOMAIN srv = Handlers /\ DOMAIN ent = Handlers
  BY Zenon DEF HandlerTypes
<1>3. /\ pc'[h] = "idle"
      /\ \A g \in Handlers : g # h => pc'[g] = pc[g] /\ srv'[g] = srv[g] /\ ent'[g] = ent[g]
  BY ONLY Zenon, <1>2, h \in Handlers, Finish(h) DEF Finish
<1>4. Busy(h)'
  BY ONLY Zenon, <1>3 DEF Busy, Locked
<1> QED BY Zenon, <1>1, <1>3, <1>4, LeaveBusy

\* A new row.
LEMMA InsertTypes ==
  ASSUME TableTypes, NEW T, NEW v \in Versions, Insert(T, v), db' \in Versions, forced' \subseteq RowIds
  PROVE  TableTypes'
<1>1. enqueues' \in 0..MaxEnqueues
  <2>1. enqueues \in 0..MaxEnqueues /\ enqueues < MaxEnqueues /\ enqueues' = enqueues + 1
    BY Zenon DEF TableTypes, Insert
  <2> QED BY ONLY SMT, <2>1, BoundsAssumption
<1>2. need' \in [RowIds -> Versions]
  BY Zenon DEF TableTypes, Insert
<1>3. outcome' \in [RowIds -> Outcomes]
  BY Zenon DEF TableTypes, Insert, Outcomes
<1>4. relayed' \subseteq RowIds
  BY Zenon DEF TableTypes, Insert
<1> QED BY ONLY Zenon, <1>1, <1>2, <1>3, <1>4, db' \in Versions, forced' \subseteq RowIds DEF TableTypes

LEMMA NewRow ==
  ASSUME NEW s \in Servers, enqueues \in 0..MaxEnqueues, enqueues < MaxEnqueues
  PROVE  <<s, enqueues + 1>> \in RowIds
BY ONLY SMT, s \in Servers, enqueues \in 0..MaxEnqueues, enqueues < MaxEnqueues, BoundsAssumption DEF RowIds

\* The entry the relay appends.
LEMMA NextEntryFacts ==
  ASSUME RelayTypes, relayPc \in {"publish", "stamp"}
  PROVE  relayRow \in RowIds /\ NextEntry \in Entries /\ [xadds EXCEPT ![relayRow] = @ + 1] \in [RowIds -> Nat]
<1>1. relayRow \in RowIds /\ xadds \in [RowIds -> Nat]
  BY Zenon DEF RelayTypes
<1> QED BY ONLY SMT, <1>1 DEF NextEntry, Entries

LEMMA OutcomeKept ==
  ASSUME TableTypes, NEW r \in RowIds, NEW o \in Outcomes
  PROVE  [outcome EXCEPT ![r] = o] \in [RowIds -> Outcomes]
BY Zenon DEF TableTypes

\* A row that is given up for this run.
LEMMA GiveUpTypes ==
  ASSUME RelayTypes, relayRow \in RowIds, RelayGiveUp, xadds' \in [RowIds -> Nat]
  PROVE  RelayTypes'
<1>1. failures' \in Nat
  <2>1. failures \in Nat /\ failures' = failures + 1
    BY Zenon DEF RelayTypes, RelayGiveUp
  <2> QED BY ONLY SMT, <2>1
<1> QED BY Zenon, <1>1 DEF RelayTypes, RelayGiveUp

\* A failed delivery: the row is marked, the handler ends and its server is put
\* on backoff.
LEMMA RetryTypes ==
  ASSUME Sorted, NEW h \in Handlers, pc[h] \in Locked, Retry(h)
  PROVE  /\ TableTypes' /\ ServerTypes' /\ LockTypes' /\ QueueTypes' /\ RefreshTypes' /\ BackoffTypes'
         /\ RelayTypes' /\ HandlerTypes' /\ \A g \in Handlers : Busy(g)'
<1>1. HandlerTypes' /\ LockTypes' /\ \A g \in Handlers : Busy(g)'
  BY Zenon, FinishTypes DEF Sorted, Retry
<1>2. ServerTypes' /\ QueueTypes' /\ RefreshTypes' /\ RelayTypes'
  BY Zenon, Unchanged DEF Sorted, Retry
<1>3. pc[h] # "idle" /\ Busy(h)
  BY Zenon DEF Sorted, Locked
<1>4. BackoffTypes'
  <2>1. srv[h] \in Servers
    BY ONLY Zenon, <1>3 DEF Busy
  <2> QED BY Zenon, <2>1 DEF Sorted, BackoffTypes, Retry, RecordOutcome
<1>5. TableTypes'
  <2>1. outcome' \in [RowIds -> Outcomes]
    <3>1. CASE h = "drift"
      BY Zenon, <3>1 DEF Retry, Sorted, TableTypes
    <3>2. CASE h # "drift"
      <4>1. RowOf(ent[h]) \in RowIds
        BY Zenon, <1>3, <3>2, EntryFacts DEF Busy
      <4>2. "failed" \in Outcomes
        BY ONLY Zenon DEF Outcomes
      <4>3. outcome \in [RowIds -> Outcomes] /\ [outcome EXCEPT ![RowOf(ent[h])] = "failed"] \in [RowIds -> Outcomes]
        BY Zenon, <4>1, <4>2, OutcomeKept DEF Sorted, TableTypes
      <4> QED BY Zenon, <3>2, <4>3 DEF Retry, MarkFailed
    <3> QED BY ONLY Zenon, <3>1, <3>2
  <2> QED BY Zenon, <2>1 DEF Sorted, TableTypes, Retry
<1> QED BY ONLY Zenon, <1>1, <1>2, <1>4, <1>5

LEMMA StatusSet ==
  ASSUME StatusTypes, NEW s, NEW v \in {"none", "syncing", "in_sync", "drift", "unreachable"},
         status' = [status EXCEPT ![s] = v]
  PROVE  StatusTypes'
BY Zenon DEF StatusTypes

LEMMA SegmentsAreVersions ==
  ASSUME HostTypes, NEW s, NEW v \in Versions
  PROVE  /\ [file EXCEPT ![s] = v] \in [Servers -> Versions]
         /\ [loaded EXCEPT ![s] = v] \in [Servers -> Versions]
BY Zenon DEF HostTypes

LEMMA ZeroIsNat == 0 \in Nat
BY SMT

LEMMA IdleIsUnlocked == "idle" \notin Locked /\ "ack" \notin Locked
BY Zenon DEF Locked

LEMMA StepTypes == Sorted /\ [Next]_vars => Sorted'
<1> SUFFICES ASSUME Sorted, [Next]_vars
             PROVE  Sorted'
  BY Zenon
<1>a. /\ TableTypes /\ ServerTypes /\ LockTypes /\ QueueTypes /\ StatusTypes /\ HostTypes
      /\ RefreshTypes /\ BackoffTypes /\ RelayTypes /\ HandlerTypes /\ events \in Nat
      /\ \A h \in Handlers : Busy(h)
  BY ONLY Zenon, Sorted DEF Sorted
<1>1. ASSUME NEW P \in SUBSET Parts, NEW raced \in SUBSET Servers, EnqueueForAllServers(P, raced)
      PROVE  Sorted'
  <2> DEFINE v == [p \in Parts |-> IF p \in P THEN db[p] + 1 ELSE db[p]]
  <2>2. db \in [Parts -> Nat]
    BY ONLY Zenon, <1>a DEF TableTypes, Versions
  <2>3. v \in Versions
    BY ONLY SMT, <2>2 DEF Versions
  <2>4. Insert(Present \union raced, v) /\ db' = v /\ UNCHANGED forced
    BY ONLY Zenon, <1>1 DEF EnqueueForAllServers
  <2> HIDE DEF v
  <2>5. forced' \subseteq RowIds
    BY ONLY Zenon, <1>a, <2>4 DEF TableTypes
  <2>6. TableTypes'
    BY ONLY Zenon, <1>a, <2>3, <2>4, <2>5, InsertTypes
  <2> QED BY ONLY Zenon, <1>a, <1>1, Unchanged, <2>6 DEF Sorted, EnqueueForAllServers
<1>2. ASSUME NEW s \in Servers, ForceSync(s)
      PROVE  Sorted'
  <2>1. enqueues \in 0..MaxEnqueues /\ db \in Versions /\ forced \subseteq RowIds /\ enqueues < MaxEnqueues
    BY ONLY Zenon, <1>a, <1>2 DEF TableTypes, ForceSync, Insert
  <2>2. forced' \subseteq RowIds
    BY ONLY Zenon, <2>1, <1>2, NewRow DEF ForceSync
  <2>3. TableTypes'
    BY ONLY Zenon, <1>a, <2>1, <2>2, <1>2, InsertTypes DEF ForceSync
  <2>4. events' \in Nat
    BY ONLY Zenon, <1>a, <1>2, SpendTypes DEF ForceSync
  <2> QED BY ONLY Zenon, <1>a, <1>2, Unchanged, <2>3, <2>4 DEF Sorted, ForceSync
<1>3. ASSUME NEW s \in Servers, MarkServerRunningAndEnqueue(s)
      PROVE  Sorted'
  <2>1. db \in Versions /\ forced \subseteq RowIds
    BY ONLY Zenon, <1>a DEF TableTypes
  <2>2. TableTypes'
    BY ONLY Zenon, <1>a, <2>1, <1>3, InsertTypes DEF MarkServerRunningAndEnqueue
  <2>3. ServerTypes'
    BY ONLY Zenon, <1>a, <1>3 DEF MarkServerRunningAndEnqueue, ServerTypes
  <2> QED BY ONLY Zenon, <1>a, <1>3, Unchanged, <2>2, <2>3 DEF Sorted, MarkServerRunningAndEnqueue
<1>4. CASE RelayRun \/ RelayDrained
  <2>1. RelayTypes'
    BY ONLY Zenon, <1>a, <1>4, ZeroIsNat DEF RelayRun, RelayDrained, RelayTypes
  <2> QED BY ONLY Zenon, <1>a, <1>4, Unchanged, <2>1 DEF Sorted, RelayRun, RelayDrained
<1>5. CASE RelayStamp
  <2>1. relayRow \in RowIds
    BY ONLY Zenon, <1>a, <1>5 DEF RelayStamp, RelayTypes
  <2>2. RelayTypes' /\ TableTypes'
    BY ONLY Zenon, <1>a, <1>5, <2>1, ZeroIsNat DEF RelayStamp, RelayTypes, TableTypes
  <2> QED BY ONLY Zenon, <1>a, <1>5, Unchanged, <2>2 DEF Sorted, RelayStamp
<1>6. CASE RelayXadd
  <2>1. relayRow \in RowIds /\ NextEntry \in Entries /\ [xadds EXCEPT ![relayRow] = @ + 1] \in [RowIds -> Nat]
    BY ONLY Zenon, <1>a, <1>6, NextEntryFacts DEF RelayXadd
  <2>2. RelayTypes'
    BY ONLY Zenon, <1>a, <1>6, <2>1 DEF RelayXadd, RelayTypes, CountXadd
  <2>3. QueueTypes'
    BY ONLY Zenon, <1>a, <1>6, <2>1 DEF RelayXadd, QueueTypes
  <2> QED BY ONLY Zenon, <1>a, <1>6, Unchanged, <2>2, <2>3 DEF Sorted, RelayXadd
<1>7. ASSUME NEW r \in RowIds, RelayCancel(r)
      PROVE  Sorted'
  <2>1. RelayTypes'
    BY ONLY Zenon, <1>a, <1>7, ZeroIsNat DEF RelayCancel, RelayTypes
  <2>2. "server_removed" \in Outcomes
    BY ONLY Zenon DEF Outcomes, AppliedOutcomes
  <2>3. TableTypes'
    BY ONLY Zenon, <1>a, <1>7, <2>2, OutcomeKept DEF RelayCancel, TableTypes
  <2> QED BY ONLY Zenon, <1>a, <1>7, Unchanged, <2>1, <2>3 DEF Sorted, RelayCancel
<1>8. ASSUME NEW r \in RowIds, RelayClaim(r)
      PROVE  Sorted'
  <2>1. RelayTypes'
    BY ONLY Zenon, <1>a, <1>8 DEF RelayClaim, RelayTypes
  <2> QED BY ONLY Zenon, <1>a, <1>8, Unchanged, <2>1 DEF Sorted, RelayClaim
<1>9. CASE RelayXaddRefused \/ RelayReplyLost
  <2>1. relayRow \in RowIds /\ xadds \in [RowIds -> Nat]
    BY ONLY Zenon, <1>a, <1>9 DEF RelayXaddRefused, RelayReplyLost, RelayTypes
  <2>2. RelayTypes'
    BY ONLY Zenon, <1>a, <1>9, <2>1, GiveUpTypes DEF RelayXaddRefused, RelayReplyLost
  <2>3. events' \in Nat
    BY ONLY Zenon, <1>a, <1>9, SpendTypes DEF RelayXaddRefused, RelayReplyLost
  <2> QED BY ONLY Zenon, <1>a, <1>9, Unchanged, <2>2, <2>3 DEF Sorted, RelayXaddRefused, RelayReplyLost, RelayGiveUp
<1>10. CASE RelayXaddTimesOut
  <2>1. relayRow \in RowIds /\ NextEntry \in Entries /\ [xadds EXCEPT ![relayRow] = @ + 1] \in [RowIds -> Nat]
    BY ONLY Zenon, <1>a, <1>10, NextEntryFacts DEF RelayXaddTimesOut
  <2>2. RelayTypes'
    BY ONLY Zenon, <1>a, <1>10, <2>1, GiveUpTypes DEF RelayXaddTimesOut, CountXadd
  <2>3. QueueTypes'
    BY ONLY Zenon, <1>a, <1>10, <2>1 DEF RelayXaddTimesOut, QueueTypes
  <2>4. events' \in Nat
    BY ONLY Zenon, <1>a, <1>10, SpendTypes DEF RelayXaddTimesOut
  <2> QED BY ONLY Zenon, <1>a, <1>10, Unchanged, <2>2, <2>3, <2>4 DEF Sorted, RelayXaddTimesOut, RelayGiveUp
<1>11. ASSUME NEW e \in lateXadds, LateXaddLands(e)
      PROVE  Sorted'
  <2>1. QueueTypes'
    BY ONLY Zenon, <1>a, <1>11 DEF LateXaddLands, QueueTypes
  <2> QED BY ONLY Zenon, <1>a, <1>11, Unchanged, <2>1 DEF Sorted, LateXaddLands
<1>12. ASSUME NEW s \in Servers, RemoveHost(s)
      PROVE  Sorted'
  <2>1. ServerTypes'
    BY ONLY Zenon, <1>a, <1>12 DEF RemoveHost, ServerTypes
  <2>2. HostTypes'
    BY ONLY Zenon, <1>a, <1>12, StaleIsVersion DEF RemoveHost, HostTypes
  <2>3. events' \in Nat
    BY ONLY Zenon, <1>a, <1>12, SpendTypes DEF RemoveHost
  <2> QED BY ONLY Zenon, <1>a, <1>12, Unchanged, <2>1, <2>2, <2>3 DEF Sorted, RemoveHost
<1>13. ASSUME NEW s \in Servers, RemoveRow(s)
      PROVE  Sorted'
  <2>1. ServerTypes'
    BY ONLY Zenon, <1>a, <1>13 DEF RemoveRow, ServerTypes
  <2>2. TableTypes'
    BY ONLY Zenon, <1>a, <1>13 DEF RemoveRow, TableTypes, Outcomes, AppliedOutcomes
  <2> QED BY ONLY Zenon, <1>a, <1>13, Unchanged, <2>1, <2>2 DEF Sorted, RemoveRow
<1>14. ASSUME NEW s \in Servers, RemoveQueue(s)
      PROVE  Sorted'
  <2>1. ServerTypes' /\ StatusTypes'
    BY ONLY Zenon, <1>a, <1>14 DEF RemoveQueue, ServerTypes, StatusTypes
  <2>2. QueueTypes'
    BY ONLY Zenon, <1>a, <1>14 DEF RemoveQueue, QueueTypes
  <2> QED BY ONLY Zenon, <1>a, <1>14, Unchanged, <2>1, <2>2 DEF Sorted, RemoveQueue
<1>15. ASSUME NEW s \in Servers, RemoveQueueFails(s)
      PROVE  Sorted'
  <2>1. ServerTypes' /\ StatusTypes'
    BY ONLY Zenon, <1>a, <1>15 DEF RemoveQueueFails, ServerTypes, StatusTypes
  <2>2. QueueTypes'
    BY ONLY Zenon, <1>a, <1>15 DEF RemoveQueueFails, QueueTypes
  <2>3. events' \in Nat
    BY ONLY Zenon, <1>a, <1>15, SpendTypes DEF RemoveQueueFails
  <2> QED BY ONLY Zenon, <1>a, <1>15, Unchanged, <2>1, <2>2, <2>3 DEF Sorted, RemoveQueueFails
<1>16. CASE RefreshTimer
  <2>1. RefreshTypes'
    BY ONLY Zenon, <1>a, <1>16, PresentServers DEF RefreshTimer, RefreshQuery, RefreshTypes, Refreshers
  <2>2. events' \in Nat
    BY ONLY Zenon, <1>a, <1>16, SpendTypes DEF RefreshTimer
  <2> QED BY ONLY Zenon, <1>a, <1>16, Unchanged, <2>1, <2>2 DEF Sorted, RefreshTimer
<1>17. CASE ReadNoGroup
  <2>1. RefreshTypes'
    BY ONLY Zenon, <1>a, <1>17, PresentServers DEF ReadNoGroup, RefreshQuery, RefreshTypes, Refreshers
  <2> QED BY ONLY Zenon, <1>a, <1>17, Unchanged, <2>1 DEF Sorted, ReadNoGroup
<1>18. CASE RefreshTimerDone \/ ReadNoGroupDone
  <2>1. listed["timer"] \subseteq Servers /\ listed["reader"] \subseteq Servers
    BY ONLY Zenon, <1>a DEF RefreshTypes, Refreshers
  <2>2. RefreshTypes'
    BY ONLY Zenon, <1>a, <1>18, <2>1 DEF RefreshTimerDone, ReadNoGroupDone, RefreshTypes
  <2>3. QueueTypes' /\ BackoffTypes'
    BY ONLY Zenon, <1>a, <1>18, <2>1 DEF RefreshTimerDone, ReadNoGroupDone, EnsureGroups, QueueTypes, BackoffTypes
  <2> QED BY ONLY Zenon, <1>a, <1>18, Unchanged, <2>2, <2>3 DEF Sorted, RefreshTimerDone, ReadNoGroupDone
<1>19. CASE ProcessStreamEvents
  <2>1. Fresh(ReadSet) \subseteq Entries
    BY ONLY Zenon, <1>a DEF Fresh, QueueTypes
  <2>2. QueueTypes' /\ HandlerTypes'
    BY ONLY Zenon, <1>a, <1>19, <2>1 DEF ProcessStreamEvents, QueueTypes, HandlerTypes
  <2>9. \A h \in Handlers : Busy(h)'
    BY ONLY Zenon, <1>a, <1>19 DEF Busy, ProcessStreamEvents
  <2> QED BY ONLY Zenon, <1>a, <1>19, Unchanged, <2>2, <2>9 DEF Sorted, ProcessStreamEvents
<1>20. ASSUME NEW s \in Servers, ReclaimPendingMessages(s)
      PROVE  Sorted'
  <2>1. HandlerTypes'
    BY ONLY Zenon, <1>a, <1>20 DEF ReclaimPendingMessages, QueueTypes, HandlerTypes
  <2>9. \A h \in Handlers : Busy(h)'
    BY ONLY Zenon, <1>a, <1>20 DEF Busy, ReclaimPendingMessages
  <2> QED BY ONLY Zenon, <1>a, <1>20, Unchanged, <2>1, <2>9 DEF Sorted, ReclaimPendingMessages, queue
<1>21. ASSUME NEW s \in Servers, BackoffExpires(s)
      PROVE  Sorted'
  <2>1. BackoffTypes'
    BY ONLY Zenon, <1>a, <1>21 DEF BackoffExpires, BackoffTypes
  <2> QED BY ONLY Zenon, <1>a, <1>21, Unchanged, <2>1 DEF Sorted, BackoffExpires
<1>22. ASSUME NEW s \in Servers, AcquireForDrift(s)
      PROVE  Sorted'
  <2>1. /\ DOMAIN pc = Handlers /\ DOMAIN srv = Handlers /\ DOMAIN lock = Servers /\ "drift" \in Handlers
        /\ lock[s] = "free" /\ "free" \notin Handlers
    BY ONLY Zenon, <1>a, <1>22, HandlersAssumption DEF HandlerTypes, LockTypes, AcquireForDrift
  <2>2. /\ pc'["drift"] = "snapshot" /\ srv'["drift"] = s /\ lock'[s] = "drift" /\ UNCHANGED ent
        /\ \A g \in Handlers : g # "drift" => pc'[g] = pc[g] /\ srv'[g] = srv[g]
        /\ \A t \in Servers : t # s => lock'[t] = lock[t]
    BY ONLY Zenon, <2>1, <1>22 DEF AcquireForDrift
  <2>3. \A h \in Handlers : Busy(h)'
    <3>1. Busy("drift")'
      BY ONLY Zenon, <2>2, s \in Servers DEF Busy
    <3>2. ASSUME NEW g \in Handlers, g # "drift" PROVE Busy(g)'
      <4>1. Busy(g) /\ pc'[g] = pc[g] /\ srv'[g] = srv[g] /\ ent'[g] = ent[g]
        BY ONLY Zenon, <1>a, <2>2, <3>2
      <4>2. pc[g] \in Locked => srv[g] \in Servers /\ lock[srv[g]] = g /\ srv[g] # s
        BY ONLY Zenon, <2>1, <3>2, <4>1, IdleIsUnlocked DEF Busy
      <4>3. pc[g] \in Locked => lock'[srv[g]] = g
        BY ONLY Zenon, <2>2, <4>2
      <4> QED BY ONLY Zenon, <4>1, <4>3 DEF Busy
    <3> QED BY ONLY Zenon, <3>1, <3>2
  <2>4. LockTypes' /\ StatusTypes'
    BY ONLY Zenon, <1>a, <2>1, <1>22 DEF LockTypes, StatusTypes, AcquireForDrift
  <2>5. HandlerTypes'
    BY ONLY Zenon, <1>a, <2>1, <1>22 DEF HandlerTypes, AcquireForDrift, Locked
  <2> QED BY ONLY Zenon, <1>a, <1>22, Unchanged, <2>3, <2>4, <2>5 DEF Sorted, AcquireForDrift
<1>23. ASSUME NEW h \in Handlers, NEW e \in batch[h], AcquireForEntry(h, e)
      PROVE  Sorted'
  <2>1. /\ DOMAIN pc = Handlers /\ DOMAIN srv = Handlers /\ DOMAIN ent = Handlers /\ DOMAIN lock = Servers
        /\ h # "drift" /\ lock[ServerOf(e)] = "free" /\ "free" \notin Handlers
    BY ONLY Zenon, <1>a, <1>23, HandlersAssumption DEF HandlerTypes, LockTypes, AcquireForEntry, Deliverers
  <2>2. e \in Entries /\ ServerOf(e) \in Servers
    BY ONLY Zenon, <1>a, <1>23, EntryFacts DEF HandlerTypes
  <2>3. /\ pc'[h] \in {"ack", "snapshot"} /\ srv'[h] = ServerOf(e) /\ ent'[h] = e
        /\ pc'[h] = "snapshot" => lock'[ServerOf(e)] = h
        /\ \A g \in Handlers : g # h => pc'[g] = pc[g] /\ srv'[g] = srv[g] /\ ent'[g] = ent[g]
        /\ \A t \in Servers : t # ServerOf(e) => lock'[t] = lock[t]
    BY ONLY Zenon, <2>1, <2>2, <1>23 DEF AcquireForEntry
  <2>4. \A g \in Handlers : Busy(g)'
    <3>1. Busy(h)'
      BY ONLY Zenon, <2>1, <2>2, <2>3 DEF Busy, Locked
    <3>2. ASSUME NEW g \in Handlers, g # h PROVE Busy(g)'
      <4>1. Busy(g) /\ pc'[g] = pc[g] /\ srv'[g] = srv[g] /\ ent'[g] = ent[g]
        BY ONLY Zenon, <1>a, <2>3, <3>2
      <4>2. pc[g] \in Locked => srv[g] \in Servers /\ lock[srv[g]] = g /\ srv[g] # ServerOf(e)
        BY ONLY Zenon, <2>1, <3>2, <4>1, IdleIsUnlocked DEF Busy
      <4>3. pc[g] \in Locked => lock'[srv[g]] = g
        BY ONLY Zenon, <2>3, <4>2
      <4> QED BY ONLY Zenon, <4>1, <4>3 DEF Busy
    <3> QED BY ONLY Zenon, <3>1, <3>2
  <2>5. LockTypes' /\ StatusTypes' /\ HandlerTypes'
    <3>1. CASE Applied(RowOf(e))
      <4>1. UNCHANGED <<lock, status, unread>> /\ pc' = [pc EXCEPT ![h] = "ack"]
        BY ONLY Zenon, <1>23, <3>1 DEF AcquireForEntry
      <4>2. LockTypes' /\ StatusTypes'
        BY ONLY Zenon, <1>a, <4>1, Unchanged
      <4>3. HandlerTypes'
        BY ONLY Zenon, <1>a, <2>2, <4>1, <1>23 DEF HandlerTypes, AcquireForEntry
      <4> QED BY ONLY Zenon, <4>2, <4>3
    <3>2. CASE ~Applied(RowOf(e))
      <4>1. /\ lock' = [lock EXCEPT ![ServerOf(e)] = h]
            /\ pc' = [pc EXCEPT ![h] = "snapshot"]
            /\ unread' = [unread EXCEPT ![h] = Parts]
            /\ status' = [status EXCEPT ![ServerOf(e)] = "syncing"]
        BY ONLY Zenon, <1>23, <3>2 DEF AcquireForEntry
      <4>2. LockTypes'
        BY ONLY Zenon, <1>a, <4>1, h \in Handlers DEF LockTypes
      <4>3. StatusTypes'
        BY ONLY Zenon, <1>a, <4>1, StatusSet
      <4>4. "snapshot" \in Locked
        BY ONLY Zenon DEF Locked
      <4>5. HandlerTypes'
        BY ONLY Zenon, <1>a, <2>2, <4>1, <4>4, <1>23 DEF HandlerTypes, AcquireForEntry
      <4> QED BY ONLY Zenon, <4>2, <4>3, <4>5
    <3> QED BY ONLY Zenon, <3>1, <3>2
  <2> QED BY ONLY Zenon, <1>a, <1>23, Unchanged, <2>4, <2>5 DEF Sorted, AcquireForEntry
<1>24. ASSUME NEW h \in Handlers, NEW p \in Parts, Snapshot(h, p)
      PROVE  Sorted'
  <2>1. db[p] \in Nat
    BY ONLY Zenon, <1>a DEF TableTypes, Versions
  <2>2. snap' \in [Handlers -> Versions]
    BY ONLY Zenon, <1>a, <2>1, <1>24 DEF HandlerTypes, Versions, Snapshot
  <2>3. HandlerTypes'
    BY ONLY Zenon, <1>a, <2>2, <1>24 DEF HandlerTypes, Snapshot
  <2>9. \A g \in Handlers : Busy(g)'
    BY ONLY Zenon, <1>a, <1>24 DEF Busy, Snapshot
  <2> QED BY ONLY Zenon, <1>a, <1>24, Unchanged, <2>3, <2>9 DEF Sorted, Snapshot
<1>25. ASSUME NEW h \in Handlers, SkipWrite(h)
      PROVE  Sorted'
  <2>1. pc[h] \in Locked /\ srv[h] \in Servers
    BY ONLY Zenon, <1>a, <1>25 DEF Busy, Locked, SkipWrite, Compared
  <2>2. StatusTypes'
    BY ONLY Zenon, <1>a, <1>25, StatusSet DEF SkipWrite
  <2>3. CASE h = "drift"
    <3>1. HandlerTypes' /\ LockTypes' /\ \A g \in Handlers : Busy(g)'
      BY ONLY Zenon, <1>a, <1>25, <2>3, FinishTypes DEF SkipWrite
    <3>2. BackoffTypes'
      BY ONLY Zenon, <1>a, <1>25, <2>1, <2>3 DEF SkipWrite, BackoffTypes, RecordOutcome
    <3> QED BY ONLY Zenon, <3>1, <3>2, <1>a, <2>2, <1>25, Unchanged DEF Sorted, SkipWrite
  <2>4. CASE h # "drift"
    <3>1. pc' = [pc EXCEPT ![h] = "state"] /\ "state" \in Locked /\ UNCHANGED <<lock, srv, ent>>
      BY ONLY Zenon, <1>25, <2>4 DEF SkipWrite, Locked
    <3>2. pc' \in [Handlers -> Locked \union {"idle", "ack"}] /\ \A g \in Handlers : Busy(g)'
      BY ONLY Zenon, <1>a, <1>25, <2>1, <2>4, <3>1, MoveBusy
    <3>3. HandlerTypes'
      BY ONLY Zenon, <1>a, <1>25, <2>4, <3>2 DEF HandlerTypes, SkipWrite
    <3> QED BY ONLY Zenon, <2>4, <3>2, <3>3, <1>a, <2>2, <1>25, Unchanged DEF Sorted, SkipWrite
  <2> QED BY ONLY Zenon, <1>a, <1>25, Unchanged, <2>3, <2>4 DEF Sorted, SkipWrite
<1>26. ASSUME NEW h \in Handlers, FileAtomicWrite(h)
      PROVE  Sorted'
  <2>1. h # "drift" /\ pc[h] \in Locked /\ srv[h] \in Servers
    BY ONLY Zenon, <1>a, <1>26 DEF Busy, Locked, FileAtomicWrite, Compared, NeedsWrite
  <2>2. \E q \in Locked : pc' = [pc EXCEPT ![h] = q]
    BY ONLY Zenon, <1>26 DEF Locked, FileAtomicWrite
  <2>3. UNCHANGED <<lock, srv, ent>>
    BY ONLY Zenon, <1>26 DEF FileAtomicWrite
  <2>4. pc' \in [Handlers -> Locked \union {"idle", "ack"}] /\ \A g \in Handlers : Busy(g)'
    BY ONLY Zenon, <1>a, <1>26, <2>1, <2>2, <2>3, MoveBusy
  <2>5. HandlerTypes'
    BY ONLY Zenon, <1>a, <1>26, <2>4 DEF HandlerTypes, FileAtomicWrite
  <2>6. snap[h] \in Versions
    BY ONLY Zenon, <1>a, <1>26 DEF HandlerTypes
  <2>7. HostTypes'
    BY ONLY Zenon, <1>a, <1>26, <2>6, SegmentsAreVersions DEF HostTypes, FileAtomicWrite
  <2> QED BY ONLY Zenon, <1>a, <1>26, Unchanged, <2>4, <2>5, <2>7 DEF Sorted, FileAtomicWrite
<1>27. ASSUME NEW h \in Handlers, PublishInSync(h)
      PROVE  Sorted'
  <2>1. h # "drift" /\ pc[h] \in Locked /\ srv[h] \in Servers
    BY ONLY Zenon, <1>a, <1>27 DEF Busy, Locked, PublishInSync
  <2>2. \E q \in Locked : pc' = [pc EXCEPT ![h] = q]
    BY ONLY Zenon, <1>27 DEF Locked, PublishInSync
  <2>3. UNCHANGED <<lock, srv, ent>>
    BY ONLY Zenon, <1>27 DEF PublishInSync
  <2>4. pc' \in [Handlers -> Locked \union {"idle", "ack"}] /\ \A g \in Handlers : Busy(g)'
    BY ONLY Zenon, <1>a, <1>27, <2>1, <2>2, <2>3, MoveBusy
  <2>5. HandlerTypes'
    BY ONLY Zenon, <1>a, <1>27, <2>4 DEF HandlerTypes, PublishInSync
  <2>6. StatusTypes'
    BY ONLY Zenon, <1>a, <1>27, StatusSet DEF PublishInSync
  <2> QED BY ONLY Zenon, <1>a, <1>27, Unchanged, <2>4, <2>5, <2>6 DEF Sorted, PublishInSync
<1>28. ASSUME NEW h \in Handlers, ReadFirstState(h)
      PROVE  Sorted'
  <2>1. h # "drift" /\ pc[h] \in Locked /\ srv[h] \in Servers
    BY ONLY Zenon, <1>a, <1>28 DEF Busy, Locked, ReadFirstState
  <2>2. \E q \in Locked : pc' = [pc EXCEPT ![h] = q]
    BY ONLY Zenon, <1>28 DEF Locked, ReadFirstState
  <2>3. UNCHANGED <<lock, srv, ent>>
    BY ONLY Zenon, <1>28 DEF ReadFirstState
  <2>4. pc' \in [Handlers -> Locked \union {"idle", "ack"}] /\ \A g \in Handlers : Busy(g)'
    BY ONLY Zenon, <1>a, <1>28, <2>1, <2>2, <2>3, MoveBusy
  <2>0. verdict' \in [Handlers -> AppliedOutcomes \union {"pending"}]
    BY ONLY Zenon, <1>a, <1>28 DEF HandlerTypes, AppliedOutcomes, ReadFirstState
  <2>5. HandlerTypes'
    BY ONLY Zenon, <1>a, <1>28, <2>4, <2>0 DEF HandlerTypes, ReadFirstState
  <2> QED BY ONLY Zenon, <1>a, <1>28, Unchanged, <2>4, <2>5 DEF Sorted, ReadFirstState
<1>29. ASSUME NEW h \in Handlers, ReloadConfirmed(h)
      PROVE  Sorted'
  <2>1. h # "drift" /\ pc[h] \in Locked /\ srv[h] \in Servers
    BY ONLY Zenon, <1>a, <1>29 DEF Busy, Locked, ReloadConfirmed
  <2>2. \E q \in Locked : pc' = [pc EXCEPT ![h] = q]
    BY ONLY Zenon, <1>29 DEF Locked, ReloadConfirmed
  <2>3. UNCHANGED <<lock, srv, ent>>
    BY ONLY Zenon, <1>29 DEF ReloadConfirmed
  <2>4. pc' \in [Handlers -> Locked \union {"idle", "ack"}] /\ \A g \in Handlers : Busy(g)'
    BY ONLY Zenon, <1>a, <1>29, <2>1, <2>2, <2>3, MoveBusy
  <2>5. HandlerTypes'
    BY ONLY Zenon, <1>a, <1>29, <2>4 DEF HandlerTypes, ReloadConfirmed
  <2>6. file[srv[h]] \in Versions
    BY ONLY Zenon, <1>a, <2>1 DEF HostTypes
  <2>7. HostTypes'
    BY ONLY Zenon, <1>a, <1>29, <2>6, SegmentsAreVersions DEF HostTypes, ReloadConfirmed
  <2> QED BY ONLY Zenon, <1>a, <1>29, Unchanged, <2>4, <2>5, <2>7 DEF Sorted, ReloadConfirmed
<1>30. ASSUME NEW h \in Handlers, ReadFinalState(h)
      PROVE  Sorted'
  <2>1. h # "drift" /\ pc[h] \in Locked /\ srv[h] \in Servers
    BY ONLY Zenon, <1>a, <1>30 DEF Busy, Locked, ReadFinalState
  <2>2. \E q \in Locked : pc' = [pc EXCEPT ![h] = q]
    BY ONLY Zenon, <1>30 DEF Locked, ReadFinalState
  <2>3. UNCHANGED <<lock, srv, ent>>
    BY ONLY Zenon, <1>30 DEF ReadFinalState
  <2>4. pc' \in [Handlers -> Locked \union {"idle", "ack"}] /\ \A g \in Handlers : Busy(g)'
    BY ONLY Zenon, <1>a, <1>30, <2>1, <2>2, <2>3, MoveBusy
  <2>0. verdict' \in [Handlers -> AppliedOutcomes \union {"pending"}]
    BY ONLY Zenon, <1>a, <1>30 DEF HandlerTypes, AppliedOutcomes, ReadFinalState
  <2>5. HandlerTypes'
    BY ONLY Zenon, <1>a, <1>30, <2>4, <2>0 DEF HandlerTypes, ReadFinalState
  <2> QED BY ONLY Zenon, <1>a, <1>30, Unchanged, <2>4, <2>5 DEF Sorted, ReadFinalState
<1>31. ASSUME NEW h \in Handlers, MarkApplied(h)
      PROVE  Sorted'
  <2>1. /\ h # "drift" /\ pc[h] # "idle" /\ ent[h] \in Entries /\ srv[h] \in Servers /\ srv[h] = ServerOf(ent[h])
    BY ONLY Zenon, <1>a, <1>31 DEF Busy, MarkApplied
  <2>2. /\ pc'[h] = "ack" /\ UNCHANGED <<srv, ent>>
        /\ \A g \in Handlers : g # h => pc'[g] = pc[g] /\ srv'[g] = srv[g] /\ ent'[g] = ent[g]
    BY ONLY Zenon, <1>a, <1>31 DEF HandlerTypes, MarkApplied
  <2>3. Busy(h)'
    BY ONLY Zenon, <2>1, <2>2 DEF Busy, Locked
  <2>4. LockTypes' /\ \A g \in Handlers : Busy(g)'
    BY ONLY Zenon, <1>a, <1>31, <2>2, <2>3, LeaveBusy DEF MarkApplied
  <2>5. HandlerTypes'
    BY ONLY Zenon, <1>a, <1>31, StaleIsVersion DEF HandlerTypes, MarkApplied
  <2>6. TableTypes'
    <3>1. RowOf(ent[h]) \in RowIds
      BY ONLY Zenon, <2>1, EntryFacts
    <3>3. verdict[h] \in Outcomes
      BY ONLY Zenon, <1>a, <1>31 DEF HandlerTypes, Outcomes
    <3>4. outcome' \in [RowIds -> Outcomes]
      BY ONLY Zenon, <1>a, <1>31, <3>1, <3>3, OutcomeKept DEF TableTypes, MarkApplied
    <3> QED BY ONLY Zenon, <1>a, <1>31, <3>4 DEF TableTypes, MarkApplied
  <2> QED BY ONLY Zenon, <1>a, <1>31, Unchanged, <2>4, <2>5, <2>6 DEF Sorted, MarkApplied
<1>32. ASSUME NEW h \in Handlers, AcknowledgeAndDelete(h)
      PROVE  Sorted'
  <2>1. pc[h] \notin Locked /\ UNCHANGED lock
    BY ONLY Zenon, <1>32 DEF Locked, AcknowledgeAndDelete
  <2>2. HandlerTypes' /\ LockTypes' /\ \A g \in Handlers : Busy(g)'
    BY ONLY Zenon, <1>a, <1>32, <2>1, FinishTypes DEF AcknowledgeAndDelete
  <2>3. QueueTypes' /\ BackoffTypes'
    BY ONLY Zenon, <1>a, <1>32 DEF AcknowledgeAndDelete, QueueTypes, BackoffTypes, RecordOutcome
  <2> QED BY ONLY Zenon, <1>a, <1>32, Unchanged, <2>2, <2>3 DEF Sorted, AcknowledgeAndDelete
<1>33. ASSUME NEW h \in Handlers, FileReadFails(h)
      PROVE  Sorted'
  <2>1. pc[h] \in Locked
    BY ONLY Zenon, <1>33 DEF Locked, FileReadFails, Compared
  <2>2. /\ TableTypes' /\ ServerTypes' /\ LockTypes' /\ QueueTypes' /\ RefreshTypes' /\ BackoffTypes'
        /\ RelayTypes' /\ HandlerTypes' /\ \A g \in Handlers : Busy(g)'
    BY ONLY Zenon, Sorted, <1>33, <2>1, RetryTypes DEF FileReadFails
  <2>3. events' \in Nat
    BY ONLY Zenon, <1>a, <1>33, SpendTypes DEF FileReadFails
  <2>4. StatusTypes'
    BY ONLY Zenon, <1>a, <1>33, StatusSet DEF FileReadFails
  <2> QED BY ONLY Zenon, <1>a, <1>33, Unchanged, <2>2, <2>3, <2>4 DEF Sorted, FileReadFails
<1>34. ASSUME NEW h \in Handlers, FileWriteFails(h)
      PROVE  Sorted'
  <2>1. pc[h] \in Locked
    BY ONLY Zenon, <1>34 DEF Locked, FileWriteFails, Compared
  <2>2. /\ TableTypes' /\ ServerTypes' /\ LockTypes' /\ QueueTypes' /\ RefreshTypes' /\ BackoffTypes'
        /\ RelayTypes' /\ HandlerTypes' /\ \A g \in Handlers : Busy(g)'
    BY ONLY Zenon, Sorted, <1>34, <2>1, RetryTypes DEF FileWriteFails
  <2>3. events' \in Nat
    BY ONLY Zenon, <1>a, <1>34, SpendTypes DEF FileWriteFails
  <2>4. StatusTypes'
    BY ONLY Zenon, <1>a, <1>34, StatusSet DEF FileWriteFails
  <2>5. snap[h] \in Versions
    BY ONLY Zenon, <1>a, <1>34 DEF HandlerTypes
  <2>6. HostTypes'
    BY ONLY Zenon, <1>a, <1>34, <2>5, SegmentsAreVersions DEF HostTypes, FileWriteFails
  <2> QED BY ONLY Zenon, <1>a, <1>34, Unchanged, <2>2, <2>3, <2>4, <2>6 DEF Sorted, FileWriteFails
<1>35. ASSUME NEW h \in Handlers, FileWriteTimesOut(h)
      PROVE  Sorted'
  <2>1. pc[h] \in Locked
    BY ONLY Zenon, <1>35 DEF Locked, FileWriteTimesOut, Compared
  <2>2. /\ TableTypes' /\ ServerTypes' /\ LockTypes' /\ QueueTypes' /\ RefreshTypes' /\ BackoffTypes'
        /\ RelayTypes' /\ HandlerTypes' /\ \A g \in Handlers : Busy(g)'
    BY ONLY Zenon, Sorted, <1>35, <2>1, RetryTypes DEF FileWriteTimesOut
  <2>3. events' \in Nat
    BY ONLY Zenon, <1>a, <1>35, SpendTypes DEF FileWriteTimesOut
  <2>4. StatusTypes'
    BY ONLY Zenon, <1>a, <1>35, StatusSet DEF FileWriteTimesOut
  <2>5. <<srv[h], snap[h]>> \in Servers \X Versions
    BY ONLY Zenon, <1>a, <1>35 DEF HandlerTypes, Busy, FileWriteTimesOut, Compared
  <2>6. HostTypes'
    BY ONLY Zenon, <1>a, <1>35, <2>5 DEF HostTypes, FileWriteTimesOut
  <2> QED BY ONLY Zenon, <1>a, <1>35, Unchanged, <2>2, <2>3, <2>4, <2>6 DEF Sorted, FileWriteTimesOut
<1>36. ASSUME NEW h \in Handlers, ReloadFails(h)
      PROVE  Sorted'
  <2>1. pc[h] \in Locked
    BY ONLY Zenon, <1>36 DEF Locked, ReloadFails
  <2>2. /\ TableTypes' /\ ServerTypes' /\ LockTypes' /\ QueueTypes' /\ RefreshTypes' /\ BackoffTypes'
        /\ RelayTypes' /\ HandlerTypes' /\ \A g \in Handlers : Busy(g)'
    BY ONLY Zenon, Sorted, <1>36, <2>1, RetryTypes DEF ReloadFails
  <2>3. events' \in Nat
    BY ONLY Zenon, <1>a, <1>36, SpendTypes DEF ReloadFails
  <2> QED BY ONLY Zenon, <1>a, <1>36, Unchanged, <2>2, <2>3 DEF Sorted, ReloadFails
<1>37. ASSUME NEW h \in Handlers, HandlerThrows(h)
      PROVE  Sorted'
  <2>1. HandlerTypes' /\ LockTypes' /\ \A g \in Handlers : Busy(g)'
    BY ONLY Zenon, <1>a, <1>37, FinishTypes DEF HandlerThrows
  <2>2. srv[h] \in Servers
    BY ONLY Zenon, <1>a, <1>37 DEF Busy, HandlerThrows
  <2>3. BackoffTypes'
    BY ONLY Zenon, <1>a, <1>37, <2>2 DEF HandlerThrows, BackoffTypes, RecordOutcome
  <2>4. events' \in Nat
    BY ONLY Zenon, <1>a, <1>37, SpendTypes DEF HandlerThrows
  <2> QED BY ONLY Zenon, <1>a, <1>37, Unchanged, <2>1, <2>3, <2>4 DEF Sorted, HandlerThrows
<1>38. CASE Crash
  <2>1. LockTypes' /\ RefreshTypes' /\ BackoffTypes'
    BY ONLY Zenon, <1>38 DEF Crash, LockTypes, RefreshTypes, BackoffTypes
  <2>2. HandlerTypes'
    BY ONLY Zenon, <1>38, StaleIsVersion DEF Crash, HandlerTypes
  <2>3. \A h \in Handlers : Busy(h)'
    BY ONLY Zenon, <1>38 DEF Crash, Busy, Locked
  <2>4. HostTypes'
    <3>1. WritesInFlight \subseteq Servers \X Versions
      <4>1. ASSUME NEW h \in Handlers, Compared(h) PROVE <<srv[h], snap[h]>> \in Servers \X Versions
        <5>1. srv[h] \in Servers /\ snap[h] \in Versions
          BY ONLY Zenon, <1>a, <4>1 DEF Compared, Busy, HandlerTypes
        <5> QED BY ONLY Zenon, <5>1
      <4> QED BY ONLY Zenon, <4>1 DEF WritesInFlight
    <3> QED BY ONLY Zenon, <1>a, <1>38, <3>1 DEF Crash, HostTypes
  <2>5. XaddsInFlight \subseteq Entries /\ (XaddsInFlight # {} => relayRow \in RowIds)
    BY ONLY Zenon, <1>a, NextEntryFacts DEF XaddsInFlight
  <2>6. QueueTypes'
    BY ONLY Zenon, <1>a, <1>38, <2>5 DEF Crash, QueueTypes
  <2>7. xadds' \in [RowIds -> Nat]
    <3>1. CASE relayRow \in RowIds
      <4>1. xadds \in [RowIds -> Nat]
        BY ONLY Zenon, <1>a DEF RelayTypes
      <4>2. [xadds EXCEPT ![relayRow] = @ + 1] \in [RowIds -> Nat]
        BY ONLY SMT, <3>1, <4>1
      <4> QED BY ONLY Zenon, <1>38, <4>1, <4>2 DEF Crash
    <3>2. CASE relayRow \notin RowIds
      <4>1. XaddsInFlight = {}
        BY ONLY Zenon, <2>5, <3>2
      <4>2. lateXadds' = lateXadds
        BY ONLY Zenon, <1>38, <4>1 DEF Crash
      <4> QED BY ONLY Zenon, <1>a, <1>38, <4>2 DEF Crash, RelayTypes
    <3> QED BY ONLY Zenon, <3>1, <3>2
  <2>8. RelayTypes'
    BY ONLY Zenon, <1>38, <2>7, ZeroIsNat DEF Crash, RelayTypes
  <2>9. events' \in Nat
    BY ONLY Zenon, <1>a, <1>38, SpendTypes DEF Crash
  <2> QED BY ONLY Zenon, <1>a, <1>38, Unchanged, <2>1, <2>2, <2>3, <2>4, <2>6, <2>8, <2>9 DEF Sorted, Crash
<1>39. CASE RedisLosesData
  <2>1. QueueTypes' /\ StatusTypes'
    BY ONLY Zenon, <1>a, <1>39 DEF RedisLosesData, QueueTypes, StatusTypes
  <2>2. events' \in Nat
    BY ONLY Zenon, <1>a, <1>39, SpendTypes DEF RedisLosesData
  <2> QED BY ONLY Zenon, <1>a, <1>39, Unchanged, <2>1, <2>2 DEF Sorted, RedisLosesData
<1>40. ASSUME NEW w \in lateWrites, LateWriteLands(w)
      PROVE  Sorted'
  <2>1. w[2] \in Versions
    BY ONLY Zenon, <1>a, <1>40 DEF HostTypes
  <2>2. HostTypes'
    BY ONLY Zenon, <1>a, <1>40, <2>1, SegmentsAreVersions DEF LateWriteLands, HostTypes
  <2> QED BY ONLY Zenon, <1>a, <1>40, Unchanged, <2>2 DEF Sorted, LateWriteLands
<1>41. ASSUME NEW s \in Servers, WriteVersion(s)
      PROVE  Sorted'
  <2>1. HostTypes'
    BY ONLY Zenon, <1>a, <1>41, StaleIsVersion, SegmentsAreVersions DEF WriteVersion, HostTypes
  <2>2. events' \in Nat
    BY ONLY Zenon, <1>a, <1>41, SpendTypes DEF WriteVersion
  <2> QED BY ONLY Zenon, <1>a, <1>41, Unchanged, <2>1, <2>2 DEF Sorted, WriteVersion
<1>42. ASSUME NEW s \in Servers, StatusChanges(s) \/ Reconcile(s)
      PROVE  Sorted'
  <2>1. ServerTypes'
    BY ONLY Zenon, <1>a, <1>42 DEF StatusChanges, Reconcile, ServerTypes
  <2>2. events' \in Nat
    BY ONLY Zenon, <1>a, <1>42, SpendTypes DEF StatusChanges, Reconcile
  <2> QED BY ONLY Zenon, <1>a, <1>42, Unchanged, <2>1, <2>2 DEF Sorted, StatusChanges, Reconcile
<1>43. ASSUME NEW s \in Servers, ContainerStarts(s) \/ ContainerStops(s) \/ GameReloads(s)
      PROVE  Sorted'
  <2>1. file[s] \in Versions
    BY ONLY Zenon, <1>a DEF HostTypes
  <2>3. HostTypes'
    BY ONLY Zenon, <1>a, <1>43, <2>1, SegmentsAreVersions DEF ContainerStarts, ContainerStops, GameReloads, HostTypes
  <2>2. events' \in Nat
    BY ONLY Zenon, <1>a, <1>43, SpendTypes DEF ContainerStarts, ContainerStops, GameReloads
  <2> QED BY ONLY Zenon, <1>a, <1>43, Unchanged, <2>3, <2>2 DEF Sorted, ContainerStarts, ContainerStops, GameReloads
<1>44. CASE UNCHANGED vars
  <2> QED BY ONLY Zenon, <1>a, <1>44, Unchanged DEF Sorted, vars
<1> QED
  BY ONLY ZenonT(60), [Next]_vars, <1>1, <1>2, <1>3, <1>4, <1>5, <1>6, <1>7, <1>8, <1>9, <1>10, <1>11,
     <1>12, <1>13, <1>14, <1>15, <1>16, <1>17, <1>18, <1>19, <1>20, <1>21, <1>22, <1>23, <1>24, <1>25,
     <1>26, <1>27, <1>28, <1>29, <1>30, <1>31, <1>32, <1>33, <1>34, <1>35, <1>36, <1>37, <1>38, <1>39,
     <1>40, <1>41, <1>42, <1>43, <1>44
     DEF Next, Produce, RelayStep, RelayFault, Remove, Refresh, Read, Acquire, DeliveryStep, DeliveryFault,
         Environment

LEMMA TypeInit == Init => TypeOK /\ Working
<1> SUFFICES ASSUME Init PROVE Sorted
  BY Zenon, SortTypes
<1>1. TableTypes
  <2>1. db \in Versions
    BY SMT DEF Init, Versions
  <2>2. enqueues \in 0..MaxEnqueues
    BY SMT, BoundsAssumption DEF Init
  <2> QED BY Zenon, <2>1, <2>2, StaleIsVersion DEF Init, TableTypes, Outcomes
<1>2. ServerTypes /\ LockTypes /\ StatusTypes /\ BackoffTypes
  BY Zenon DEF Init, ServerTypes, LockTypes, StatusTypes, BackoffTypes
<1>3. QueueTypes
  BY Zenon DEF Init, QueueTypes
<1>4. HostTypes
  BY Zenon, StaleIsVersion DEF Init, HostTypes
<1>5. RefreshTypes
  BY Zenon DEF Init, RefreshTypes
<1>6. RelayTypes
  BY Zenon, ZeroIsNat DEF Init, RelayTypes
<1>7. HandlerTypes
  BY Zenon, StaleIsVersion DEF Init, HandlerTypes
<1>8. \A h \in Handlers : Busy(h)
  BY Zenon DEF Init, Busy, Locked
<1>9. events \in Nat
  BY Zenon, ZeroIsNat DEF Init
<1> QED BY ONLY Zenon, <1>1, <1>2, <1>3, <1>4, <1>5, <1>6, <1>7, <1>8, <1>9 DEF Sorted

LEMMA TypeNext == TypeOK /\ Working /\ [Next]_vars => TypeOK' /\ Working'
<1> SUFFICES ASSUME TypeOK, Working, [Next]_vars PROVE TypeOK' /\ Working'
  BY Zenon
<1>1. Sorted'
  BY ONLY Zenon, TypeOK, Working, [Next]_vars, SortTypes, StepTypes
<1>2. TypeOK' /\ Working' <=> Sorted'
  BY SortTypes, PTL
<1> QED BY Zenon, <1>1, <1>2

\* Every table, stream, file and worker variable has its type, and a handler
\* inside its transaction holds its server's advisory lock.
THEOREM TypeCorrect == Spec => [](TypeOK /\ Working)
BY TypeInit, TypeNext, PTL DEF Spec

-----------------------------------------------------------------------------
(* Which steps write what *)

LEMMA Writers ==
  ASSUME Next
  PROVE  /\ \/ UNCHANGED <<outcome, enqueues>> \/ Produce
            \/ (\E r \in RowIds : RelayCancel(r)) \/ (\E s \in Servers : RemoveRow(s))
            \/ \E h \in Handlers : MarkApplied(h) \/ DeliveryFault(h)
         /\ UNCHANGED removal \/ Remove
         /\ UNCHANGED relayed \/ RelayStep \/ Remove
         /\ \/ UNCHANGED queue \/ RelayStep \/ RelayFault \/ Remove \/ Refresh \/ Read \/ Crash \/ RedisLosesData
            \/ \E h \in Handlers : AcknowledgeAndDelete(h)
         /\ UNCHANGED relayVars \/ RelayStep \/ RelayFault \/ Crash
         /\ \/ UNCHANGED handler \/ Read \/ Crash
            \/ (\E s \in Servers : ReclaimPendingMessages(s) \/ AcquireForDrift(s))
            \/ \E h \in Handlers : Acquire(h) \/ DeliveryStep(h) \/ DeliveryFault(h)
<1>1. CASE Produce
  <2>1. UNCHANGED <<removal, relayed, queue, relayVars, handler>>
    BY ONLY Zenon, <1>1 DEF Produce, EnqueueForAllServers, ForceSync, MarkServerRunningAndEnqueue, Insert
  <2> QED BY ONLY Zenon, <1>1, <2>1
<1>2. CASE RelayStep
  <2>1. /\ UNCHANGED <<removal, handler>>
        /\ UNCHANGED <<outcome, enqueues>> \/ \E r \in RowIds : RelayCancel(r)
    BY ONLY Zenon, <1>2 DEF RelayStep, RelayRun, RelayDrained, RelayXadd, RelayStamp, RelayCancel, RelayClaim, tables
  <2> QED BY ONLY Zenon, <1>2, <2>1
<1>3. CASE RelayFault
  <2>1. UNCHANGED <<tables, removal, handler>>
    BY ONLY Zenon, <1>3 DEF RelayFault, RelayXaddRefused, RelayXaddTimesOut, RelayReplyLost, RelayGiveUp,
                            LateXaddLands
  <2> QED BY ONLY Zenon, <1>3, <2>1 DEF tables
<1>4. CASE Remove
  <2>1. /\ UNCHANGED <<relayVars, handler>>
        /\ UNCHANGED <<outcome, enqueues>> \/ \E s \in Servers : RemoveRow(s)
    BY ONLY Zenon, <1>4 DEF Remove, RemoveHost, RemoveRow, RemoveQueue, RemoveQueueFails, tables
  <2> QED BY ONLY Zenon, <1>4, <2>1
<1>5. CASE Refresh
  <2>1. UNCHANGED <<tables, removal, relayVars, handler>>
    BY ONLY Zenon, <1>5 DEF Refresh, RefreshTimer, RefreshTimerDone
  <2> QED BY ONLY Zenon, <1>5, <2>1 DEF tables
<1>6. CASE Read
  <2>1. UNCHANGED <<tables, removal, relayVars>>
    BY ONLY Zenon, <1>6 DEF Read, ProcessStreamEvents, ReadNoGroup, ReadNoGroupDone
  <2> QED BY ONLY Zenon, <1>6, <2>1 DEF tables
<1>7. CASE \E s \in Servers : ReclaimPendingMessages(s) \/ BackoffExpires(s) \/ AcquireForDrift(s)
  <2>1. /\ UNCHANGED <<tables, removal, queue, relayVars>>
        /\ UNCHANGED handler \/ \E s \in Servers : ReclaimPendingMessages(s) \/ AcquireForDrift(s)
    BY ONLY Zenon, <1>7 DEF ReclaimPendingMessages, BackoffExpires, AcquireForDrift
  <2> QED BY ONLY Zenon, <2>1 DEF tables
<1>8. ASSUME NEW h \in Handlers, Acquire(h)
      PROVE  UNCHANGED <<tables, removal, queue, relayVars>>
  BY ONLY Zenon, <1>8 DEF Acquire, AcquireForEntry
<1>9. ASSUME NEW h \in Handlers, DeliveryStep(h)
      PROVE  /\ UNCHANGED <<enqueues, relayed, removal, relayVars>>
             /\ UNCHANGED outcome \/ MarkApplied(h)
             /\ UNCHANGED queue \/ AcknowledgeAndDelete(h)
  BY ONLY Zenon, <1>9 DEF DeliveryStep, Snapshot, SkipWrite, FileAtomicWrite, PublishInSync, ReadFirstState,
                          ReloadConfirmed, ReadFinalState, MarkApplied, AcknowledgeAndDelete, tables
<1>10. ASSUME NEW h \in Handlers, DeliveryFault(h)
       PROVE  UNCHANGED <<relayed, removal, queue, relayVars>>
  BY ONLY Zenon, <1>10 DEF DeliveryFault, FileReadFails, FileWriteFails, FileWriteTimesOut, ReloadFails,
                           HandlerThrows, Retry, tables
<1>11. CASE Environment
  <2>1. /\ UNCHANGED <<tables, removal>>
        /\ Crash \/ RedisLosesData \/ UNCHANGED queue
        /\ Crash \/ UNCHANGED <<relayVars, handler>>
    BY ONLY Zenon, <1>11, HostSteps DEF Environment, Crash, RedisLosesData, LateWriteLands
  <2> QED BY ONLY Zenon, <2>1 DEF tables
<1>12. CASE \E h \in Handlers : Acquire(h)
  BY ONLY Zenon, <1>8, <1>12 DEF tables
<1>13. CASE \E h \in Handlers : DeliveryStep(h)
  BY ONLY Zenon, <1>9, <1>13
<1>14. CASE \E h \in Handlers : DeliveryFault(h)
  BY ONLY Zenon, <1>10, <1>14
<1> QED
  BY ONLY Zenon, Next, <1>1, <1>2, <1>3, <1>4, <1>5, <1>6, <1>7, <1>11, <1>12, <1>13, <1>14 DEF Next

\* An entry that is new in Redis is the one the relay sends; the late XADDs
\* become stream entries, and stream entries become pending ones.
LEMMA EntryFlow ==
  ASSUME [Next]_vars
  PROVE  /\ stream' \subseteq stream \union lateXadds \union XaddsInFlight
         /\ pel' \subseteq pel \union stream
         /\ lateXadds' \subseteq lateXadds \union XaddsInFlight
<1> DEFINE Goal == /\ stream' \subseteq stream \union lateXadds \union XaddsInFlight
                   /\ pel' \subseteq pel \union stream
                   /\ lateXadds' \subseteq lateXadds \union XaddsInFlight
<1>1. CASE UNCHANGED queue
  BY ONLY Zenon, <1>1 DEF queue
<1>2. CASE RelayXadd \/ RelayXaddTimesOut
  BY ONLY Zenon, <1>2 DEF RelayXadd, RelayXaddTimesOut, XaddsInFlight
<1>3. ASSUME NEW e \in lateXadds, LateXaddLands(e) PROVE Goal
  BY ONLY Zenon, <1>3 DEF LateXaddLands
<1>4. CASE RelayStep \/ RelayFault
  BY ONLY Zenon, <1>1, <1>2, <1>3, <1>4 DEF RelayStep, RelayRun, RelayDrained, RelayStamp, RelayCancel, RelayClaim,
     RelayFault, RelayXaddRefused, RelayReplyLost
<1>5. ASSUME NEW s \in Servers, RemoveQueue(s) \/ RemoveQueueFails(s) PROVE Goal
  BY ONLY Zenon, <1>5 DEF RemoveQueue, RemoveQueueFails
<1>6. CASE Remove
  BY ONLY Zenon, <1>1, <1>5, <1>6 DEF Remove, RemoveHost, RemoveRow
<1>7. CASE Refresh \/ Read
  BY ONLY Zenon, <1>1, <1>7 DEF Refresh, RefreshTimer, RefreshTimerDone, Read, ProcessStreamEvents, ReadNoGroup,
     ReadNoGroupDone, Fresh
<1>8. CASE Crash \/ RedisLosesData
  BY ONLY Zenon, <1>8 DEF Crash, RedisLosesData
<1>9. ASSUME NEW h \in Handlers, AcknowledgeAndDelete(h) PROVE Goal
  BY ONLY Zenon, <1>9 DEF AcknowledgeAndDelete
<1>10. CASE UNCHANGED vars
  BY ONLY Zenon, <1>1, <1>10 DEF vars
<1> QED BY Zenon, <1>1, <1>4, <1>6, <1>7, <1>8, <1>9, <1>10, Writers

\* A handler that ends has nothing in hand, and no other handler notices.
LEMMA FinishFrees ==
  ASSUME DOMAIN batch = Handlers, DOMAIN pc = Handlers, DOMAIN ent = Handlers, NEW h \in Handlers, Finish(h)
  PROVE  \A g \in Handlers : /\ batch'[g] \subseteq batch[g]
                             /\ pc'[g] # "idle" => pc[g] # "idle" /\ ent'[g] = ent[g]
BY Zenon DEF Finish

\* A batch is read from the stream or from the pending entries, and a handler
\* works on an entry of its batch.
Flow(h) ==
  /\ batch'[h] \subseteq batch[h] \union stream \union pel
  /\ pc'[h] # "idle" /\ h # "drift" => (pc[h] # "idle" /\ ent'[h] = ent[h]) \/ ent'[h] \in batch[h]

LEMMA WorkFlow ==
  ASSUME Sorted, [Next]_vars
  PROVE  \A g \in Handlers : Flow(g)
<1>0. DOMAIN batch = Handlers /\ DOMAIN pc = Handlers /\ DOMAIN ent = Handlers
  BY ONLY Zenon, Sorted DEF Sorted, HandlerTypes
<1>1. CASE UNCHANGED handler
  BY ONLY Zenon, <1>1 DEF Flow, handler
<1>2. CASE ProcessStreamEvents
  BY ONLY Zenon, <1>0, <1>2 DEF ProcessStreamEvents, Fresh, Flow
<1>3. CASE Read
  BY ONLY Zenon, <1>1, <1>2, <1>3 DEF Read, ReadNoGroup, ReadNoGroupDone
<1>4. ASSUME NEW s \in Servers, ReclaimPendingMessages(s) PROVE \A g \in Handlers : Flow(g)
  BY ONLY Zenon, <1>0, <1>4 DEF ReclaimPendingMessages, Flow
<1>5. ASSUME NEW s \in Servers, AcquireForDrift(s) PROVE \A g \in Handlers : Flow(g)
  <2>1. \A g \in Handlers : batch'[g] = batch[g] /\ ent'[g] = ent[g] /\ (g # "drift" => pc'[g] = pc[g])
    BY ONLY Zenon, <1>0, <1>5 DEF AcquireForDrift
  <2> QED BY ONLY Zenon, <2>1 DEF Flow
<1>6. ASSUME NEW h \in Handlers, Acquire(h) PROVE \A g \in Handlers : Flow(g)
  <2>1. PICK e \in batch[h] : AcquireForEntry(h, e)
    BY ONLY Zenon, <1>6 DEF Acquire
  <2>2. \A g \in Handlers : /\ batch'[g] = batch[g]
                            /\ (g # h /\ ent'[g] = ent[g] /\ pc'[g] = pc[g]) \/ ent'[g] \in batch[g]
    BY ONLY Zenon, <1>0, <2>1, h \in Handlers DEF AcquireForEntry
  <2> QED BY ONLY Zenon, <2>2 DEF Flow
<1>7. ASSUME NEW h \in Handlers, Finish(h) PROVE \A g \in Handlers : Flow(g)
  BY ONLY Zenon, <1>0, <1>7, FinishFrees DEF Flow
<1>8. ASSUME NEW h \in Handlers, pc[h] # "idle", UNCHANGED <<batch, ent>>, UNCHANGED pc \/ \E q : pc' = [pc EXCEPT ![h] = q]
      PROVE  \A g \in Handlers : Flow(g)
  <2>1. \A g \in Handlers : g # h => pc'[g] = pc[g]
    BY ONLY Zenon, <1>0, <1>8
  <2> QED BY ONLY Zenon, <1>8, <2>1 DEF Flow
<1>9. ASSUME NEW h \in Handlers, DeliveryStep(h) PROVE \A g \in Handlers : Flow(g)
  <2>1. \/ Finish(h)
        \/ pc[h] # "idle" /\ UNCHANGED <<batch, ent>> /\ (UNCHANGED pc \/ \E q : pc' = [pc EXCEPT ![h] = q])
    BY ONLY Zenon, <1>9 DEF DeliveryStep, Snapshot, SkipWrite, FileAtomicWrite, PublishInSync, ReadFirstState,
       ReloadConfirmed, ReadFinalState, MarkApplied, AcknowledgeAndDelete, Compared
  <2> QED BY ONLY Zenon, <1>7, <1>8, <2>1, h \in Handlers
<1>10. ASSUME NEW h \in Handlers, DeliveryFault(h) PROVE \A g \in Handlers : Flow(g)
  BY ONLY Zenon, <1>7, <1>10 DEF DeliveryFault, FileReadFails, FileWriteFails, FileWriteTimesOut, ReloadFails,
     HandlerThrows, Retry
<1>11. CASE Crash
  BY ONLY Zenon, <1>11 DEF Crash, Flow
<1>12. CASE UNCHANGED vars
  BY ONLY Zenon, <1>1, <1>12 DEF vars
<1> QED BY Zenon, <1>1, <1>3, <1>4, <1>5, <1>6, <1>9, <1>10, <1>11, <1>12, Writers

\* The relay holds the row it has claimed until it has stamped it or given up.
LEMMA RelayFlow ==
  ASSUME [Next]_vars, relayPc' \in {"publish", "stamp"}
  PROVE  \/ relayPc \in {"publish", "stamp"} /\ relayRow' = relayRow
         \/ \E r \in RowIds : RelayClaim(r) /\ relayRow' = r
<1>1. CASE UNCHANGED <<relayPc, relayRow>>
  BY Zenon, <1>1
<1>2. CASE RelayStep
  BY Zenon, <1>2 DEF RelayStep, RelayRun, RelayDrained, RelayXadd, RelayStamp, RelayCancel, RelayClaim
<1>3. CASE RelayFault
  BY Zenon, <1>1, <1>3 DEF RelayFault, RelayXaddRefused, RelayXaddTimesOut, RelayReplyLost, RelayGiveUp,
     LateXaddLands, relayVars
<1>4. ~Crash
  BY Zenon DEF Crash
<1> QED BY Zenon, <1>1, <1>2, <1>3, <1>4, Writers DEF vars, relayVars

-----------------------------------------------------------------------------
(* Rows *)

\* The parts of RowsExist.
Numbered == \A r \in RowIds : Known(r) => r[2] <= enqueues
RelayedKnown == \A r \in relayed : Known(r)
QueueKnown ==
  /\ \A e \in stream : Known(RowOf(e))
  /\ \A e \in pel : Known(RowOf(e))
  /\ \A e \in lateXadds : Known(RowOf(e))
WorkKnown(h) ==
  /\ \A e \in batch[h] : Known(RowOf(e))
  /\ pc[h] # "idle" /\ h # "drift" => Known(Own(h))
RelayKnown == relayPc \in {"publish", "stamp"} => Known(relayRow)

LEMMA SortRows ==
  RowsExist <=> Numbered /\ RelayedKnown /\ QueueKnown /\ (\A h \in Handlers : WorkKnown(h)) /\ RelayKnown
<1>1. QueueKnown <=> \A e \in stream \union pel \union lateXadds : Known(RowOf(e))
  BY ONLY Zenon DEF QueueKnown
<1> QED BY ONLY Zenon, <1>1 DEF RowsExist, Numbered, RelayedKnown, WorkKnown, RelayKnown

LEMMA RowsInit == Init => RowsExist
<1> SUFFICES ASSUME Init PROVE RowsExist
  BY Zenon
<1>1. Numbered /\ RelayedKnown /\ QueueKnown /\ RelayKnown
  BY Zenon DEF Init, Numbered, RelayedKnown, QueueKnown, RelayKnown, Known
<1>2. \A h \in Handlers : WorkKnown(h)
  BY Zenon DEF Init, WorkKnown
<1> QED BY ONLY Zenon, <1>1, <1>2, SortRows

\* No row goes away.
Stay == \A r \in RowIds : Known(r) => Known(r)'

\* The rows of a transaction carry its number.
LEMMA InsertRows ==
  ASSUME Numbered, enqueues \in 0..MaxEnqueues, enqueues' = enqueues + 1, NEW T,
         outcome' = [r \in RowIds |-> IF r \in {<<t, enqueues + 1>> : t \in T} THEN "pending" ELSE outcome[r]]
  PROVE  Stay /\ Numbered'
<1>1. Stay
  BY Zenon DEF Stay, Known
<1>2. ASSUME NEW r \in RowIds, Known(r)' PROVE r[2] <= enqueues'
  <2>1. Known(r) \/ \E t \in T : r = <<t, enqueues + 1>>
    BY Zenon, <1>2 DEF Known
  <2>2. CASE Known(r)
    <3>1. r[2] <= enqueues /\ r[2] \in 1..MaxEnqueues
      BY Zenon, <2>2, RowFacts DEF Numbered
    <3> QED BY ONLY SMT, <3>1, enqueues \in 0..MaxEnqueues, enqueues' = enqueues + 1, BoundsAssumption
  <2>3. CASE \E t \in T : r = <<t, enqueues + 1>>
    BY ONLY SMT, <2>3, enqueues \in 0..MaxEnqueues, enqueues' = enqueues + 1
  <2> QED BY ONLY Zenon, <2>1, <2>2, <2>3
<1> QED BY Zenon, <1>1, <1>2 DEF Numbered

\* A transaction inserts rows for some servers.
LEMMA ProduceInserts ==
  ASSUME Produce
  PROVE  \E T \in SUBSET Servers, v \in {db, db'} : Insert(T, v)
<1>1. ASSUME NEW Q \in SUBSET Parts, NEW raced \in SUBSET Servers, EnqueueForAllServers(Q, raced)
      PROVE  \E T \in SUBSET Servers, v \in {db, db'} : Insert(T, v)
  <2>1. Present \union raced \in SUBSET Servers
    BY Zenon, PresentServers
  <2>2. Insert(Present \union raced, db')
    BY Zenon, <1>1 DEF EnqueueForAllServers
  <2> QED
    BY Zenon, <2>1, <2>2
<1>2. ASSUME NEW s \in Servers, ForceSync(s) \/ MarkServerRunningAndEnqueue(s)
      PROVE  \E T \in SUBSET Servers, v \in {db, db'} : Insert(T, v)
  <2>1. Insert({s}, db)
    BY Zenon, <1>2 DEF ForceSync, MarkServerRunningAndEnqueue
  <2> QED
    BY Zenon, <2>1
<1> QED
  BY Zenon, <1>1, <1>2 DEF Produce

\* What a failed delivery does to its row.
LEMMA FaultOutcome ==
  ASSUME NEW h \in Handlers, DeliveryFault(h)
  PROVE  \/ UNCHANGED <<outcome, enqueues>>
         \/ h # "drift" /\ pc[h] # "idle" /\ MarkFailed(Own(h)) /\ UNCHANGED enqueues
BY Zenon DEF DeliveryFault, FileReadFails, FileWriteFails, FileWriteTimesOut, ReloadFails, HandlerThrows, Retry,
   Compared, tables, Own

\* The row of the entry a handler works on.
LEMMA OwnFacts ==
  ASSUME Sorted, RowsExist, NEW h \in Handlers, pc[h] # "idle", h # "drift"
  PROVE  ent[h] \in Entries /\ Own(h) \in RowIds /\ Known(Own(h)) /\ Own(h)[1] = srv[h] /\ srv[h] \in Servers
<1>1. Busy(h) /\ WorkKnown(h)
  BY ONLY Zenon, Sorted, RowsExist, SortRows, h \in Handlers DEF Sorted
<1>2. ent[h] \in Entries /\ srv[h] = ServerOf(ent[h]) /\ srv[h] \in Servers /\ Known(Own(h))
  BY Zenon, <1>1 DEF Busy, WorkKnown
<1> QED BY Zenon, <1>2, EntryFacts DEF Own

LEMMA KnownStay ==
  ASSUME Sorted, RowsExist, [Next]_vars
  PROVE  Stay /\ Numbered'
<1>0. outcome \in [RowIds -> Outcomes] /\ enqueues \in 0..MaxEnqueues /\ Numbered
  BY ONLY Zenon, Sorted, RowsExist, SortRows DEF Sorted, TableTypes
<1>1. ASSUME UNCHANGED enqueues, \A r \in RowIds : Known(r)' <=> Known(r) PROVE Stay /\ Numbered'
  BY ONLY Zenon, <1>0, <1>1 DEF Stay, Numbered
<1>2. CASE UNCHANGED <<outcome, enqueues>>
  BY ONLY Zenon, <1>1, <1>2 DEF Known
<1>3. CASE Produce
  <2>1. PICK T, v : Insert(T, v)
    BY ONLY Zenon, <1>3, ProduceInserts
  <2>2. /\ enqueues' = enqueues + 1
        /\ outcome' = [r \in RowIds |-> IF r \in {<<t, enqueues + 1>> : t \in T} THEN "pending" ELSE outcome[r]]
    BY ONLY Zenon, <2>1 DEF Insert
  <2> QED BY ONLY Zenon, <1>0, <2>2, InsertRows
<1>4. ASSUME NEW q \in RowIds, Known(q), NEW o, o # "absent", UNCHANGED enqueues,
             outcome' = outcome \/ outcome' = [outcome EXCEPT ![q] = o]
      PROVE  Stay /\ Numbered'
  <2>1. \A r \in RowIds : Known(r)' <=> Known(r)
    BY ONLY Zenon, <1>0, <1>4 DEF Known
  <2> QED BY ONLY Zenon, <1>1, <1>4, <2>1
<1>5. ASSUME NEW r \in RowIds, RelayCancel(r) PROVE Stay /\ Numbered'
  <2>1. Known(r) /\ outcome' = [outcome EXCEPT ![r] = "server_removed"] /\ UNCHANGED enqueues
    BY ONLY Zenon, <1>5 DEF RelayCancel, Oldest, Candidates, Known
  <2> QED BY ONLY Zenon, <1>4, <2>1, r \in RowIds
<1>6. ASSUME NEW s \in Servers, RemoveRow(s) PROVE Stay /\ Numbered'
  <2>1. \A r \in RowIds : Known(r)' <=> Known(r)
    BY ONLY Zenon, <1>6 DEF RemoveRow, Known
  <2>2. UNCHANGED enqueues
    BY ONLY Zenon, <1>6 DEF RemoveRow
  <2> QED BY ONLY Zenon, <1>1, <2>1, <2>2
<1>7. ASSUME NEW h \in Handlers, MarkApplied(h) PROVE Stay /\ Numbered'
  <2>1. /\ pc[h] = "mark" /\ UNCHANGED enqueues
        /\ outcome' = outcome \/ outcome' = [outcome EXCEPT ![Own(h)] = verdict[h]]
    BY ONLY Zenon, <1>7 DEF MarkApplied, Own
  <2>2. h # "drift" /\ verdict[h] # "absent"
    BY ONLY Zenon, Sorted, <2>1, h \in Handlers DEF Sorted, Busy, HandlerTypes, AppliedOutcomes
  <2>3. Own(h) \in RowIds /\ Known(Own(h))
    BY ONLY Zenon, Sorted, RowsExist, <2>1, <2>2, h \in Handlers, OwnFacts
  <2> QED BY ONLY Zenon, <1>4, <2>1, <2>2, <2>3
<1>8. ASSUME NEW h \in Handlers, DeliveryFault(h) PROVE Stay /\ Numbered'
  <2>1. CASE h # "drift" /\ pc[h] # "idle" /\ MarkFailed(Own(h)) /\ UNCHANGED enqueues
    <3>1. outcome' = outcome \/ outcome' = [outcome EXCEPT ![Own(h)] = "failed"]
      BY ONLY Zenon, <2>1 DEF MarkFailed
    <3>2. Own(h) \in RowIds /\ Known(Own(h))
      BY ONLY Zenon, Sorted, RowsExist, <2>1, h \in Handlers, OwnFacts
    <3> QED BY ONLY Zenon, <1>4, <2>1, <3>1, <3>2
  <2> QED BY ONLY Zenon, <1>2, <1>8, <2>1, FaultOutcome
<1>9. CASE UNCHANGED vars
  BY ONLY Zenon, <1>2, <1>9 DEF vars, tables
<1> QED BY Zenon, <1>2, <1>3, <1>5, <1>6, <1>7, <1>8, <1>9, Writers

\* Nothing names a row before its transaction has inserted it, and a row never
\* goes away.
LEMMA RowsNext == TypeOK /\ Working /\ RowsExist /\ [Next]_vars => RowsExist'
<1> SUFFICES ASSUME TypeOK, Working, RowsExist, [Next]_vars
             PROVE  RowsExist'
  BY Zenon
<1>0. Sorted /\ Stay /\ Numbered'
  BY Zenon, SortTypes, KnownStay
<1>1. Numbered /\ RelayedKnown /\ QueueKnown /\ (\A h \in Handlers : WorkKnown(h)) /\ RelayKnown
  BY ONLY Zenon, RowsExist, SortRows
\* Entries in Redis, and the one the relay sends.
<1>2. \A e \in stream \union pel \union lateXadds \union XaddsInFlight : Known(RowOf(e))'
  <2>1. ASSUME NEW e \in Entries, Known(RowOf(e)) PROVE Known(RowOf(e))'
    BY ONLY Zenon, <1>0, <2>1, EntryFacts DEF Stay
  <2>2. ASSUME NEW e \in XaddsInFlight PROVE e \in Entries /\ Known(RowOf(e))
    <3>1. relayPc = "publish" /\ e = NextEntry
      BY ONLY Zenon, e \in XaddsInFlight DEF XaddsInFlight
    <3>2. e \in Entries
      BY ONLY Zenon, <1>0, <3>1, NextEntryFacts DEF Sorted
    <3>3. RowOf(NextEntry) = relayRow
      BY ONLY Zenon DEF RowOf, NextEntry
    <3> QED BY ONLY Zenon, <1>1, <3>1, <3>2, <3>3 DEF RelayKnown
  <2>3. \A e \in stream \union pel \union lateXadds : e \in Entries /\ Known(RowOf(e))
    BY ONLY Zenon, <1>0, <1>1 DEF Sorted, QueueTypes, QueueKnown
  <2> QED BY ONLY Zenon, <2>1, <2>2, <2>3
<1>3. QueueKnown'
  BY Zenon, <1>2, EntryFlow DEF QueueKnown
<1>4. ASSUME NEW h \in Handlers PROVE WorkKnown(h)'
  <2>1. Flow(h) /\ WorkKnown(h) /\ batch[h] \subseteq Entries
    BY Zenon, <1>0, <1>1, WorkFlow DEF Sorted, HandlerTypes
  <2>2. \A e \in batch[h] : Known(RowOf(e))'
    BY ONLY Zenon, <1>0, <2>1, EntryFacts DEF Stay, WorkKnown
  <2>3. \A e \in batch'[h] : Known(RowOf(e))'
    BY ONLY Zenon, <1>2, <2>1, <2>2 DEF Flow
  <2>4. ASSUME pc'[h] # "idle", h # "drift" PROVE Known(Own(h))'
    <3>1. CASE pc[h] # "idle" /\ ent'[h] = ent[h]
      <4>1. Own(h) \in RowIds /\ Known(Own(h)) /\ Own(h)' = Own(h)
        BY Zenon, <1>0, <2>4, <3>1, OwnFacts DEF Own
      <4> QED BY ONLY Zenon, <1>0, <4>1 DEF Stay
    <3>2. CASE ent'[h] \in batch[h]
      BY ONLY Zenon, <2>2, <3>2 DEF Own
    <3> QED BY ONLY Zenon, <2>1, <2>4, <3>1, <3>2 DEF Flow
  <2> QED BY Zenon, <2>3, <2>4 DEF WorkKnown
<1>5. RelayKnown'
  <2> SUFFICES ASSUME relayPc' \in {"publish", "stamp"} PROVE Known(relayRow)'
    BY Zenon DEF RelayKnown
  <2>1. relayRow' \in RowIds /\ Known(relayRow')
    <3>1. CASE relayPc \in {"publish", "stamp"} /\ relayRow' = relayRow
      BY ONLY Zenon, <1>0, <1>1, <3>1 DEF RelayKnown, Sorted, RelayTypes
    <3>2. ASSUME NEW r \in RowIds, RelayClaim(r), relayRow' = r PROVE relayRow' \in RowIds /\ Known(relayRow')
      BY ONLY Zenon, <3>2 DEF RelayClaim, Oldest, Candidates, Known
    <3> QED BY Zenon, <3>1, <3>2, RelayFlow
  <2> QED BY ONLY Zenon, <1>0, <2>1 DEF Stay, Known
<1>6. RelayedKnown'
  <2>0. ASSUME NEW r \in RowIds, Known(r) PROVE Known(r)'
    BY ONLY Zenon, <1>0, <2>0 DEF Stay
  <2>1. relayed \subseteq RowIds
    BY ONLY Zenon, <1>0 DEF Sorted, TableTypes
  <2>2. CASE UNCHANGED relayed
    BY ONLY Zenon, <1>1, <2>0, <2>1, <2>2 DEF RelayedKnown
  <2>3. ASSUME NEW q \in RowIds, Known(q), relayed' = relayed \union {q} PROVE RelayedKnown'
    BY ONLY Zenon, <1>1, <2>0, <2>1, <2>3 DEF RelayedKnown
  <2>4. CASE RelayStep
    <3>1. CASE RelayStamp
      <4>1. relayRow \in RowIds /\ Known(relayRow) /\ relayed' = relayed \union {relayRow}
        BY ONLY Zenon, <1>0, <1>1, <3>1 DEF Sorted, RelayTypes, RelayKnown, RelayStamp
      <4> QED BY ONLY Zenon, <2>3, <4>1
    <3>2. ASSUME NEW q \in RowIds, RelayCancel(q) PROVE RelayedKnown'
      BY ONLY Zenon, <2>3, <3>2 DEF RelayCancel, Oldest, Candidates, Known
    <3> QED BY ONLY Zenon, <2>2, <2>4, <3>1, <3>2
            DEF RelayStep, RelayRun, RelayDrained, RelayXadd, RelayClaim, tables
  <2>5. ASSUME NEW s \in Servers, RemoveRow(s) PROVE RelayedKnown'
    <3>1. \A r \in relayed' : r \in RowIds /\ Known(r)
      BY ONLY Zenon, <1>1, <2>1, <2>5 DEF RelayedKnown, RemoveRow, Known
    <3> QED BY ONLY Zenon, <2>0, <3>1 DEF RelayedKnown
  <2>6. CASE Remove
    BY ONLY Zenon, <2>2, <2>5, <2>6 DEF Remove, RemoveHost, RemoveQueue, RemoveQueueFails, tables
  <2>7. CASE UNCHANGED vars
    BY ONLY Zenon, <2>2, <2>7 DEF vars, tables
  <2> QED BY Zenon, <2>2, <2>4, <2>6, <2>7, Writers
<1>7. RowsExist' <=>
        Numbered' /\ RelayedKnown' /\ QueueKnown' /\ (\A h \in Handlers : WorkKnown(h))' /\ RelayKnown'
  BY SortRows, PTL
<1> QED BY ONLY Zenon, <1>0, <1>3, <1>4, <1>5, <1>6, <1>7
=============================================================================
