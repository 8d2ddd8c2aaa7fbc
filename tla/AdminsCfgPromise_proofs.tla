----------------------- MODULE AdminsCfgPromise_proofs -----------------------
(***************************************************************************)
(* What the synchronisation promises: once no row is open the file is      *)
(* current, a confirmed row has been loaded by the game, and the whole     *)
(* system implements AdminsCfgPromise.                                     *)
(***************************************************************************)
EXTENDS AdminsCfgFile_proofs

\* Every version of a part was committed with a row for every server that is
\* not deleted, except the version the database started with.
CurrentInv ==
  \A s \in Servers : ~Deleted(s) =>
    \A p \in Parts : db[p] = 1 \/ \E r \in RowIds : r[1] = s /\ Known(r) /\ need[r][p] = db[p]

-----------------------------------------------------------------------------
(* The file is current *)

\* Rows are never removed or rewritten, and a deletion is final.
LEMMA RowsStay ==
  ASSUME QueueInv, [Next]_vars
  PROVE  /\ \A r \in RowIds : Known(r) => Known(r)' /\ need'[r] = need[r]
         /\ \A s \in Servers : Deleted(s) => Deleted(s)'
         /\ UNCHANGED <<db, need>> \/ Produce
<1>1. UNCHANGED <<db, need>> \/ Produce
  <2>1. ASSUME NEW h \in Handlers, Acquire(h) \/ DeliveryStep(h) \/ DeliveryFault(h)
        PROVE  UNCHANGED <<db, need>>
    BY Zenon, <2>1 DEF Acquire, AcquireForEntry, DeliveryStep, Snapshot, SkipWrite, FileAtomicWrite,
       PublishInSync, ReadFirstState, ReloadConfirmed, ReadFinalState, MarkApplied, AcknowledgeAndDelete,
       DeliveryFault, FileReadFails, FileWriteFails, FileWriteTimesOut, ReloadFails, HandlerThrows, Retry,
       tables
  <2>2. ASSUME NEW s \in Servers, RemoveHost(s) \/ AcquireForDrift(s) \/ WriteVersion(s)
        PROVE  UNCHANGED <<db, need>>
    BY Zenon, <2>2 DEF RemoveHost, AcquireForDrift, WriteVersion, tables
  <2>3. ASSUME NEW w \in lateWrites, LateWriteLands(w)
        PROVE  UNCHANGED <<db, need>>
    BY Zenon, <2>3 DEF LateWriteLands, tables
  <2>4. Crash \/ UNCHANGED vars => UNCHANGED <<db, need>>
    BY Zenon DEF Crash, vars, tables
  <2> QED
    BY Zenon, <2>1, <2>2, <2>3, <2>4, FileWriters
<1>2. Sorted /\ RowsExist
  BY Zenon, Shapes DEF QueueInv
<1>3. ASSUME Produce
      PROVE  \A r \in RowIds : Known(r) => need'[r] = need[r]
  <2>1. PICK T, v : Insert(T, v)
    BY Zenon, <1>3, ProduceInserts
  <2>2. need' = [r \in RowIds |-> IF r \in Unknown(T) THEN v ELSE need[r]]
    BY ONLY Zenon, <2>1 DEF Insert, Unknown
  <2>3. Numbered /\ enqueues \in 0..MaxEnqueues
    BY ONLY Zenon, <1>2, SortRows DEF Sorted, TableTypes
  <2>4. \A r \in RowIds : Known(r) => r \notin Unknown(T)
    BY ONLY Zenon, <2>3, KnownIsOld
  <2> QED
    BY ONLY Zenon, <2>2, <2>4
<1>4. \A r \in RowIds : Known(r) => need'[r] = need[r]
  BY ONLY Zenon, <1>1, <1>3
<1>5. \A r \in RowIds : Known(r) => Known(r)'
  BY Zenon, <1>2, KnownStay DEF Stay
<1>6. \A s \in Servers : Deleted(s) => Deleted(s)'
  BY Zenon, <1>2, DeletedStays
<1> QED
  BY ONLY Zenon, <1>1, <1>4, <1>5, <1>6

LEMMA CurrentInit == Init => CurrentInv
BY DEF Init, CurrentInv

LEMMA CurrentNext == QueueInv /\ CurrentInv /\ [Next]_vars => CurrentInv'
<1> SUFFICES ASSUME QueueInv, CurrentInv, [Next]_vars
             PROVE  CurrentInv'
  BY Zenon
<1>0. /\ \A r \in RowIds : Known(r) => Known(r)' /\ need'[r] = need[r]
      /\ \A s \in Servers : Deleted(s) => Deleted(s)'
      /\ UNCHANGED <<db, need>> \/ Produce
  BY Zenon, RowsStay
<1>1. ASSUME db' = db
      PROVE  CurrentInv'
  <2>1. ASSUME NEW s \in Servers, ~Deleted(s)', NEW p \in Parts, db'[p] # 1
        PROVE  \E r \in RowIds : r[1] = s /\ Known(r)' /\ need'[r][p] = db'[p]
    <3>1. ~Deleted(s) /\ db[p] # 1
      BY ONLY Zenon, <1>0, <1>1, <2>1
    <3>2. PICK r \in RowIds : r[1] = s /\ Known(r) /\ need[r][p] = db[p]
      BY ONLY Zenon, CurrentInv, <3>1, s \in Servers, p \in Parts DEF CurrentInv
    <3>3. Known(r)' /\ need'[r] = need[r]
      BY ONLY Zenon, <1>0, <3>2
    <3> QED
      BY ONLY Zenon, <1>1, <3>2, <3>3
  <2> QED
    BY ONLY Zenon, <2>1 DEF CurrentInv
<1>2. ASSUME NEW P \in SUBSET Parts, NEW raced \in SUBSET Servers, EnqueueForAllServers(P, raced)
      PROVE  CurrentInv'
  <2>0. enqueues < MaxEnqueues /\ enqueues \in 0..MaxEnqueues
    <3>1. Insert(Present \union raced, db')
      BY ONLY Zenon, <1>2 DEF EnqueueForAllServers
    <3>2. enqueues < MaxEnqueues
      BY ONLY Zenon, <3>1 DEF Insert
    <3>3. Sorted
      BY Zenon, Shapes
    <3> QED
      BY ONLY Zenon, <3>2, <3>3 DEF Sorted, TableTypes
  <2>1. ASSUME NEW s \in Servers, ~Deleted(s)
        PROVE  \E r \in RowIds : r[1] = s /\ outcome'[r] # "absent" /\ need'[r] = db'
    <3> DEFINE n == <<s, enqueues + 1>>
               new == {<<t, enqueues + 1>> : t \in Present \union raced}
    <3>1. n \in new /\ n[1] = s
      BY ONLY Zenon, <2>1 DEF Present
    <3>2. n \in RowIds
      <4>1. enqueues + 1 \in 1..MaxEnqueues
        BY ONLY SMT, <2>0, BoundsAssumption
      <4> QED
        BY ONLY Zenon, <4>1, s \in Servers DEF RowIds
    <3>3. /\ need' = [r \in RowIds |-> IF r \in new THEN db' ELSE need[r]]
          /\ outcome' = [r \in RowIds |-> IF r \in new THEN "pending" ELSE outcome[r]]
      BY ONLY Zenon, <1>2 DEF EnqueueForAllServers, Insert
    <3>4. need'[n] = db' /\ outcome'[n] = "pending"
      BY ONLY Zenon, <3>1, <3>2, <3>3
    <3>5. "pending" # "absent"
      BY ONLY Zenon
    <3> QED
      BY ONLY Zenon, <3>1, <3>2, <3>4, <3>5
  <2> QED
    BY ONLY Zenon, <1>0, <2>1 DEF CurrentInv, Known
<1>3. Produce => db' = db \/ \E P \in SUBSET Parts, raced \in SUBSET Servers : EnqueueForAllServers(P, raced)
  BY ONLY Zenon DEF Produce, ForceSync, MarkServerRunningAndEnqueue
<1> QED
  BY ONLY Zenon, <1>0, <1>1, <1>2, <1>3

\* If no write outlives its caller, a file the sync wrote equals the database
\* as soon as no row of its server is open.
THEOREM SettledFilesAreCurrent ==
  ASSUME "late_write" \notin Enabled
  PROVE  Spec => []SettledIsCurrent
<1>1. QueueInv /\ FileInv /\ CurrentInv => SettledIsCurrent
  <2> SUFFICES ASSUME QueueInv, FileInv, CurrentInv, NEW s \in Servers, ~Deleted(s), file[s] # Stale,
                      \A r \in RowIds : r[1] = s => outcome[r] \in AppliedOutcomes \union {"absent"}
               PROVE  file[s] = db
    BY Zenon DEF SettledIsCurrent
  <2>0. \A p \in Parts : file[s][p] \in Nat /\ db[p] \in Nat
    BY Zenon, Numbers
  <2>1. \A r \in RowIds : r[1] = s /\ Known(r) => \A p \in Parts : file[s][p] >= need[r][p]
    <3>1. \A r \in RowIds : r[1] = s /\ Known(r) => Delivered(r)
      <4>1. VerdictInv
        BY Zenon DEF QueueInv
      <4>2. ASSUME NEW r \in RowIds, r[1] = s, Known(r)
            PROVE  Delivered(r)
        <5>1. outcome[r] \in AppliedOutcomes
          BY Zenon, <4>2 DEF Known
        <5>2. outcome[r] # "server_removed"
          BY Zenon, <4>1, <4>2 DEF VerdictInv
        <5> QED
          BY ONLY Zenon, <5>1, <5>2 DEF AppliedOutcomes, Delivered
      <4> QED
        BY ONLY Zenon, <4>2
    <3>2. AppliedIsOnDisk
      BY Zenon DEF FileInv
    <3> QED
      BY ONLY Zenon, <3>1, <3>2, file[s] # Stale DEF AppliedIsOnDisk, Covers, Delivered
  <2>2. ASSUME NEW p \in Parts
        PROVE  file[s][p] = db[p]
    <3>1. /\ file[s][p] >= 1 /\ file[s][p] <= db[p]
          /\ db[p] = 1 \/ \E r \in RowIds : r[1] = s /\ Known(r) /\ need[r][p] = db[p]
      <4>1. Bounded
        BY Zenon DEF FileInv
      <4>2. file[s][p] >= 1 /\ file[s][p] <= db[p]
        BY ONLY Zenon, <4>1, file[s] # Stale, s \in Servers, p \in Parts DEF Bounded
      <4>3. db[p] = 1 \/ \E r \in RowIds : r[1] = s /\ Known(r) /\ need[r][p] = db[p]
        BY Zenon DEF CurrentInv
      <4> QED
        BY ONLY Zenon, <4>2, <4>3
    <3>2. file[s][p] \in Nat /\ db[p] \in Nat
      BY ONLY Zenon, <2>0, p \in Parts
    <3>3. file[s][p] >= db[p]
      BY ONLY Zenon, <2>1, <3>1, p \in Parts
    <3> QED
      BY ONLY SMT, <3>1, <3>2, <3>3
  <2>3. DOMAIN file[s] = Parts /\ DOMAIN db = Parts /\ file[s] = [p \in DOMAIN file[s] |-> file[s][p]]
        /\ db = [p \in DOMAIN db |-> db[p]]
    <3>1. file \in [Servers -> Versions] /\ db \in Versions
      BY Zenon, Shapes DEF Sorted, HostTypes, TableTypes
    <3>2. \A v \in Versions : DOMAIN v = Parts /\ v = [p \in DOMAIN v |-> v[p]]
      BY ONLY Zenon DEF Versions
    <3> QED
      BY ONLY Zenon, <3>1, <3>2, s \in Servers
  <2> QED
    BY ONLY Zenon, <2>2, <2>3
<1> QED
  BY <1>1, CurrentInit, CurrentNext, FileCorrect, PTL DEF Spec

-----------------------------------------------------------------------------
(* The game has loaded what is confirmed *)

\* A reload of this handler's entry has been confirmed.
Reloaded(h) == pc[h] = "confirmed" \/ (pc[h] = "mark" /\ verdict[h] = "confirmed")

ReloadInv ==
  /\ \A h \in Handlers : Reloaded(h) /\ srv[h] \in up => Covers(loaded[srv[h]], Own(h))
  /\ ConfirmedIsLoaded

\* A process only ever loads the file, and a row only becomes confirmed by a
\* handler whose reload was confirmed.
LEMMA LoadedKeepsReloadInv ==
  ASSUME QueueInv, FileInv, ReloadInv,
         \A s \in Servers : s \in up' => (s \in up /\ loaded'[s] = loaded[s]) \/ loaded'[s] = file[s],
         \A r \in RowIds : Known(r) => need'[r] = need[r],
         \A r \in RowIds : outcome'[r] = "confirmed" =>
           outcome[r] = "confirmed" \/ \E h \in Handlers : Reloaded(h) /\ r = Own(h),
         \A h \in Handlers : Reloaded(h)' =>
           /\ srv'[h] = srv[h] /\ ent'[h] = ent[h]
           /\ Reloaded(h) \/ (pc[h] = "reload" /\ loaded'[srv[h]] = file[srv[h]])
  PROVE  ReloadInv'
<1> USE RowFacts, EntryFacts DEF QueueInv, TypeOK
<1>1. ASSUME NEW h \in Handlers, Reloaded(h) \/ pc[h] = "reload"
      PROVE  /\ h # "drift" /\ srv[h] \in Servers /\ Own(h) \in RowIds /\ Own(h)[1] = srv[h]
             /\ Known(Own(h)) /\ Covers(file[srv[h]], Own(h))
  <2>1. pc[h] \in Locked \ {"snapshot"}
    BY Zenon, <1>1 DEF Reloaded, Locked
  <2>2. h # "drift" /\ srv[h] \in Servers /\ Own(h) \in RowIds /\ Own(h)[1] = srv[h] /\ Known(Own(h))
    BY Zenon, <2>1 DEF Working, RowsExist, Own, Locked
  <2>3. Covers(file[srv[h]], Own(h))
    BY ZenonT(60), <2>1, <2>2 DEF FileInv, WrittenIsSnapshot, SnapshotIsNewest, Covers
  <2> QED
    BY Zenon, <2>2, <2>3
<1>2. ASSUME NEW h \in Handlers, Reloaded(h)', srv'[h] \in up'
      PROVE  Covers(loaded[srv[h]], Own(h))'
  <2>1. /\ srv'[h] = srv[h] /\ ent'[h] = ent[h]
        /\ Reloaded(h) \/ (pc[h] = "reload" /\ loaded'[srv[h]] = file[srv[h]])
    BY Zenon, <1>2
  <2>2. /\ srv[h] \in Servers /\ Own(h) \in RowIds /\ need'[Own(h)] = need[Own(h)] /\ Own(h)' = Own(h)
        /\ Covers(file[srv[h]], Own(h))
    BY Zenon, <1>1, <2>1 DEF Own
  <2>3. \/ loaded'[srv[h]] = file[srv[h]]
        \/ Covers(loaded[srv[h]], Own(h)) /\ loaded'[srv[h]] = loaded[srv[h]]
    <3>1. srv[h] \in up' /\ (Reloaded(h) /\ srv[h] \in up => Covers(loaded[srv[h]], Own(h)))
      BY Zenon, <1>2, <2>1 DEF ReloadInv
    <3> QED
      BY Zenon, <2>1, <2>2, <3>1
  <2> QED
    BY ZenonT(60), <2>1, <2>2, <2>3 DEF Covers
<1>3. ASSUME NEW r \in RowIds, outcome'[r] = "confirmed", r[1] \in up'
      PROVE  Covers(loaded[r[1]], r)'
  <2>1. Known(r) /\ Covers(file[r[1]], r) /\ (r[1] \in up => Covers(loaded[r[1]], r))
    <3>1. CASE outcome[r] = "confirmed"
      BY Zenon, <3>1 DEF Known, FileInv, AppliedIsOnDisk, ReloadInv, ConfirmedIsLoaded
    <3>2. ASSUME NEW h \in Handlers, Reloaded(h), r = Own(h)
          PROVE  Known(r) /\ Covers(file[r[1]], r) /\ (r[1] \in up => Covers(loaded[r[1]], r))
      BY Zenon, <1>1, <3>2 DEF ReloadInv
    <3> QED
      BY Zenon, <1>3, <3>1, <3>2
  <2>2. need'[r] = need[r] /\ (loaded'[r[1]] = file[r[1]] \/ Covers(loaded'[r[1]], r))
    BY Zenon, <1>3, <2>1
  <2>3. Covers(loaded'[r[1]], r)
    BY Zenon, <2>1, <2>2
  <2> QED
    BY Zenon, <2>2, <2>3 DEF Covers
<1> QED
  BY Zenon, <1>2, <1>3 DEF ReloadInv, ConfirmedIsLoaded

LEMMA ConfirmedComesFromReload ==
  ASSUME QueueInv, [Next]_vars
  PROVE  \A r \in RowIds : outcome'[r] = "confirmed" =>
           outcome[r] = "confirmed" \/ \E h \in Handlers : Reloaded(h) /\ r = Own(h)
<1> SUFFICES ASSUME NEW r \in RowIds, outcome'[r] = "confirmed", outcome[r] # "confirmed"
             PROVE  \E h \in Handlers : Reloaded(h) /\ r = Own(h)
  BY Zenon
<1> USE DEF QueueInv, TypeOK
<1>1. ASSUME NEW T \in SUBSET Servers, NEW v, Insert(T, v)
      PROVE  FALSE
  BY Zenon, <1>1 DEF Insert
<1>2. ASSUME NEW q \in RowIds, RelayCancel(q)
      PROVE  FALSE
  BY Zenon, <1>2 DEF RelayCancel
<1>3. ASSUME NEW s \in Servers, RemoveRow(s)
      PROVE  FALSE
  BY Zenon, <1>3 DEF RemoveRow
<1>4. ASSUME NEW h \in Handlers, MarkApplied(h)
      PROVE  Reloaded(h) /\ r = Own(h)
  BY Zenon, <1>4 DEF MarkApplied, Reloaded, Own
<1>5. ASSUME NEW h \in Handlers, MarkFailed(RowOf(ent[h]))
      PROVE  FALSE
  BY Zenon, <1>5 DEF MarkFailed
<1> QED
  BY ZenonT(60), <1>1, <1>2, <1>3, <1>4, <1>5, OutcomeWriters DEF vars, tables

\* What a step does to the processes and to the handlers' reloads.
LEMMA ReloadSteps ==
  ASSUME QueueInv, Next
  PROVE  /\ \A s \in Servers : s \in up' => (s \in up /\ loaded'[s] = loaded[s]) \/ loaded'[s] = file[s]
         /\ \A h \in Handlers : Reloaded(h)' =>
              /\ srv'[h] = srv[h] /\ ent'[h] = ent[h]
              /\ Reloaded(h) \/ (pc[h] = "reload" /\ loaded'[srv[h]] = file[srv[h]])
<1> DEFINE Processes ==
             \A s \in Servers : s \in up' => (s \in up /\ loaded'[s] = loaded[s]) \/ loaded'[s] = file[s]
           Reloads ==
             \A h \in Handlers : Reloaded(h)' =>
               /\ srv'[h] = srv[h] /\ ent'[h] = ent[h]
               /\ Reloaded(h) \/ (pc[h] = "reload" /\ loaded'[srv[h]] = file[srv[h]])
<1>0. /\ pc \in [Handlers -> Locked \union {"idle", "ack"}]
      /\ srv \in [Handlers -> Servers \union {NoServer}]
      /\ ent \in [Handlers -> Entries \union {NoEntry}]
      /\ verdict \in [Handlers -> AppliedOutcomes \union {"pending"}]
      /\ up \subseteq Servers /\ loaded \in [Servers -> Versions] /\ file \in [Servers -> Versions]
      /\ \A h \in Handlers : pc[h] # "idle" => srv[h] \in Servers
  BY Zenon DEF QueueInv, TypeOK, Working
<1> USE <1>0 DEF Reloaded
<1>1. UNCHANGED hosts => Processes
  BY Zenon DEF hosts
<1>2. UNCHANGED handler => Reloads
  BY Zenon DEF handler
<1>3. CASE Produce \/ RelayStep \/ RelayFault \/ Refresh
  <2>1. UNCHANGED <<hosts, handler>>
    BY Zenon, <1>3 DEF Produce, EnqueueForAllServers, ForceSync, MarkServerRunningAndEnqueue, RelayStep, RelayRun,
       RelayDrained, RelayXadd, RelayStamp, RelayCancel, RelayClaim, RelayFault, RelayXaddRefused,
       RelayXaddTimesOut, RelayReplyLost, RelayGiveUp, LateXaddLands, Refresh, RefreshTimer, RefreshTimerDone
  <2> QED
    BY Zenon, <1>1, <1>2, <2>1
<1>4. CASE Remove
  <2>1. UNCHANGED handler /\ (UNCHANGED hosts \/ (up' \subseteq up /\ UNCHANGED loaded))
    BY Zenon, <1>4 DEF Remove, RemoveHost, RemoveRow, RemoveQueue, RemoveQueueFails
  <2> QED
    BY Zenon, <1>1, <1>2, <2>1
<1>5. CASE Read \/ \E s \in Servers : ReclaimPendingMessages(s) \/ BackoffExpires(s)
  <2>1. UNCHANGED <<hosts, pc, srv, ent, verdict>>
    BY Zenon, <1>5 DEF Read, ProcessStreamEvents, ReadNoGroup, ReadNoGroupDone, ReclaimPendingMessages,
                BackoffExpires, handler
  <2> QED
    BY Zenon, <1>1, <2>1
<1>6. ASSUME NEW s \in Servers, AcquireForDrift(s)
      PROVE  Processes /\ Reloads
  BY ZenonT(60), <1>1, <1>6 DEF AcquireForDrift
<1>7. ASSUME NEW h \in Handlers, Acquire(h)
      PROVE  Processes /\ Reloads
  <2>1. UNCHANGED hosts
    BY Zenon, <1>7 DEF Acquire, AcquireForEntry
  <2>2. \E e : /\ \E l \in {"ack", "snapshot"} : pc' = [pc EXCEPT ![h] = l]
               /\ srv' = [srv EXCEPT ![h] = ServerOf(e)] /\ ent' = [ent EXCEPT ![h] = e] /\ UNCHANGED verdict
    BY Zenon, <1>7 DEF Acquire, AcquireForEntry
  <2>3. Reloads
    BY ZenonT(60), <2>2
  <2> QED
    BY Zenon, <1>1, <2>1, <2>3
<1>8. ASSUME NEW h \in Handlers, ReloadConfirmed(h)
      PROVE  Processes /\ Reloads
  BY Zenon, <1>8 DEF ReloadConfirmed
<1>9. ASSUME NEW h \in Handlers, ReadFirstState(h) \/ ReadFinalState(h)
      PROVE  Processes /\ Reloads
  <2>1. CASE ReadFirstState(h)
    BY ZenonT(60), <1>1, <2>1 DEF ReadFirstState
  <2>2. CASE ReadFinalState(h)
    BY ZenonT(60), <1>1, <2>2 DEF ReadFinalState
  <2> QED
    BY Zenon, <1>9, <2>1, <2>2
<1>10. ASSUME NEW h \in Handlers, Finish(h), UNCHANGED <<up, loaded>>
       PROVE  Processes /\ Reloads
  BY Zenon, <1>10 DEF Finish
<1>11. ASSUME NEW h \in Handlers, DeliveryStep(h)
       PROVE  Processes /\ Reloads
  <2>1. CASE SkipWrite(h)
    BY ZenonT(30), <1>1, <1>10, <2>1 DEF SkipWrite, hosts
  <2>2. CASE \/ PublishInSync(h) \/ FileAtomicWrite(h) \/ MarkApplied(h)
             \/ \E p \in Parts : Snapshot(h, p)
    BY ZenonT(60), <2>2 DEF PublishInSync, FileAtomicWrite, Snapshot, MarkApplied, hosts
  <2>3. CASE AcknowledgeAndDelete(h)
    BY Zenon, <1>10, <2>3 DEF AcknowledgeAndDelete, hosts
  <2> QED
    BY ZenonT(60), <1>8, <1>9, <1>11, <2>1, <2>2, <2>3 DEF DeliveryStep
<1>12. ASSUME NEW h \in Handlers, DeliveryFault(h)
       PROVE  Processes /\ Reloads
  BY Zenon, <1>10, <1>12 DEF DeliveryFault, FileReadFails, FileWriteFails, FileWriteTimesOut, ReloadFails,
                      HandlerThrows, Retry, hosts
<1>13. CASE Crash
  BY Zenon, <1>13 DEF Crash
<1>14. CASE RedisLosesData \/ \E w \in lateWrites : LateWriteLands(w)
  BY Zenon, <1>2, <1>14 DEF RedisLosesData, LateWriteLands, hosts
<1>15. ASSUME NEW s \in Servers, WriteVersion(s) \/ StatusChanges(s) \/ ContainerStarts(s)
                                 \/ ContainerStops(s) \/ Reconcile(s) \/ GameReloads(s)
       PROVE  Processes /\ Reloads
  <2>1. UNCHANGED handler
    BY Zenon, <1>15, HostSteps
  <2>2. Processes
    BY ZenonT(60), <1>15 DEF WriteVersion, StatusChanges, ContainerStarts, ContainerStops, Reconcile, GameReloads, hosts
  <2> QED
    BY Zenon, <1>2, <2>1, <2>2
<1> QED
  BY ZenonT(60), <1>3, <1>4, <1>5, <1>6, <1>7, <1>11, <1>12, <1>13, <1>14, <1>15 DEF Next, Environment

\* If no write outlives its caller, a running game has loaded every row that is
\* stored as confirmed, even when its status changed during the delivery.
THEOREM ConfirmedRowsAreLoaded ==
  ASSUME "late_write" \notin Enabled
  PROVE  Spec => []ConfirmedIsLoaded
<1>1. Init => ReloadInv
  <2> SUFFICES ASSUME Init PROVE ReloadInv
    BY Zenon
  <2>1. \A h \in Handlers : pc[h] = "idle"
    BY Zenon DEF Init
  <2>2. \A r \in RowIds : outcome[r] = "absent"
    BY Zenon DEF Init
  <2> QED
    BY ONLY Zenon, <2>1, <2>2 DEF ReloadInv, Reloaded, ConfirmedIsLoaded
<1>2. QueueInv /\ FileInv /\ ReloadInv /\ [Next]_vars => ReloadInv'
  <2> SUFFICES ASSUME QueueInv, FileInv, ReloadInv, [Next]_vars
                 PROVE  ReloadInv'
    BY Zenon
  <2>1. \A r \in RowIds : Known(r) => need'[r] = need[r]
    BY Zenon, RowsStay
  <2>2. CASE UNCHANGED vars
    BY Zenon, <2>2 DEF vars, tables, hosts, handler, ReloadInv, Reloaded, ConfirmedIsLoaded, Covers, Own
  <2>3. CASE Next
    BY Zenon, <2>1, <2>3, ReloadSteps, ConfirmedComesFromReload, LoadedKeepsReloadInv
  <2> QED
    BY Zenon, <2>2, <2>3
<1>3. ReloadInv => ConfirmedIsLoaded
  BY Zenon DEF ReloadInv
<1> QED
  BY <1>1, <1>2, <1>3, FileCorrect, PTL DEF Spec

-----------------------------------------------------------------------------
(* The promise *)

\* The task of a row, as AdminsCfgPromise sees it.
Task(r) == IF outcome[r] \in {"pending", "failed"} THEN "open" ELSE outcome[r]
Tasks == [r \in RowIds |-> Task(r)]

LEMMA PromiseInit == Init => Promise!Init
BY SMTT(20) DEF Init, Promise!Init, Stale, Promise!Stale, RowIds, Promise!RowIds

\* A transaction that inserts rows is a commit of the promise.
LEMMA InsertCommits ==
  ASSUME QueueInv, NEW T \in SUBSET Servers, NEW P \in SUBSET Parts, Insert(T, db'),
         db' = [p \in Parts |-> IF p \in P THEN db[p] + 1 ELSE db[p]], UNCHANGED file
  PROVE  Promise!Next
<1> DEFINE n == enqueues + 1
           new == {<<s, n>> : s \in T}
<1>0. RowsExist /\ enqueues \in 0..MaxEnqueues
  BY Zenon, Shapes DEF QueueInv, Sorted, TableTypes
<1>1. n \in 1..MaxEnqueues /\ ~(n <= enqueues)
  <2>1. enqueues < MaxEnqueues
    BY Zenon DEF Insert
  <2> QED
    BY ONLY SMT, <1>0, <2>1, BoundsAssumption
<1>2. /\ need' = [r \in RowIds |-> IF r \in new THEN db' ELSE need[r]]
      /\ outcome' = [r \in RowIds |-> IF r \in new THEN "pending" ELSE outcome[r]]
  BY Zenon DEF Insert
<1>3. ASSUME NEW s \in Servers
      PROVE  Tasks[<<s, n>>] = "absent"
  <2>1. <<s, n>> \in RowIds /\ <<s, n>>[2] = n /\ ~(n <= enqueues)
    BY Zenon, <1>1 DEF RowIds
  <2>2. outcome[<<s, n>>] = "absent"
    BY Zenon, <1>0, <2>1, SortRows DEF Numbered, Known
  <2> QED
    BY ZenonT(60), <2>1, <2>2 DEF Tasks, Task
<1>4. Tasks' = [r \in RowIds |-> IF r \in new THEN "open" ELSE Tasks[r]]
  BY Zenon, <1>2 DEF Tasks, Task
<1>5. Promise!Commit(n, T, P)
  BY Zenon, <1>2, <1>3, <1>4 DEF Promise!Commit, Promise!RowIds, RowIds, Tasks, Task
<1> QED
  BY ZenonT(60), <1>1, <1>5 DEF Promise!Next

\* Closing open rows of a server is a step of the promise.
LEMMA CloseKeepsPromise ==
  ASSUME NEW s \in Servers, NEW R \in SUBSET RowIds, \A r \in R : r[1] = s /\ Task(r) = "open",
         Tasks' = [r \in RowIds |-> IF r \in R THEN "server_removed" ELSE Tasks[r]],
         UNCHANGED <<db, file, need>>
  PROVE  Promise!Next
<1>1. Promise!Close(s, R)
  BY Zenon DEF Promise!Close, Promise!RowIds, RowIds, Tasks, Task
<1> QED
  BY Zenon, <1>1 DEF Promise!Next, Promise!RowIds, RowIds

\* A complete snapshot lies between the file and the database.
LEMMA SnapshotBounds ==
  ASSUME FileInv, NEW h \in Handlers, srv[h] \in Servers, pc[h] \in Locked, unread[h] = {}
  PROVE  \A p \in Parts : /\ snap[h][p] >= 1 /\ snap[h][p] <= db[p] /\ db[p] \in 1..(enqueues + 1)
                          /\ snap[h][p] >= file[srv[h]][p]
<1>1. \A p \in Parts : snap[h][p] <= db[p] /\ db[p] \in 1..(enqueues + 1)
  BY Zenon DEF FileInv, Bounded
<1>2. \A p \in Parts : snap[h][p] >= 1 /\ snap[h][p] >= file[srv[h]][p]
  BY Zenon DEF FileInv, SnapshotIsNewest
<1> QED
  BY Zenon, <1>1, <1>2

\* Every write of the file is a rewrite or a replacement of the promise.
LEMMA FileKeepsPromise ==
  ASSUME "late_write" \notin Enabled, QueueInv, FileInv, [Next]_vars,
         UNCHANGED <<db, need>>, Tasks' = Tasks
  PROVE  [Promise!Next]_(Promise!vars)
<1>0. /\ db \in [Parts -> Nat] /\ file \in [Servers -> [Parts -> Nat]] /\ snap \in [Handlers -> [Parts -> Nat]]
      /\ enqueues \in 0..MaxEnqueues
  BY Zenon DEF QueueInv, TypeOK, Versions
<1>1. CASE file' = file
  BY Zenon, <1>1 DEF Promise!vars, Tasks, Task
<1>2. ASSUME NEW s \in Servers, file' = [file EXCEPT ![s] = Stale]
      PROVE  Promise!Next
  <2>1. Promise!Replace(s)
    BY Zenon, <1>2 DEF Promise!Replace, Promise!Stale, Stale, Tasks, Task
  <2> QED
    BY Zenon, <2>1 DEF Promise!Next
<1>3. ASSUME NEW h \in Handlers, h # "drift", Compared(h), file' = [file EXCEPT ![srv[h]] = snap[h]]
      PROVE  Promise!Next
  <2>1. srv[h] \in Servers /\ pc[h] \in Locked /\ unread[h] = {}
    BY Zenon, <1>3 DEF QueueInv, TypeOK, Working, Compared, Locked
  <2>2. \A p \in Parts : /\ snap[h][p] >= 1 /\ snap[h][p] <= db[p] /\ db[p] \in 1..(enqueues + 1)
                         /\ snap[h][p] >= file[srv[h]][p]
    BY Zenon, <2>1, SnapshotBounds
  <2>3. snap[h] \in [Parts -> 1..(MaxEnqueues + 1)]
    <3>1. \A p \in Parts : snap[h][p] \in 1..(MaxEnqueues + 1)
      <4>1. \A p \in Parts : snap[h][p] \in Nat /\ db[p] \in Nat
        BY Zenon, Numbers
      <4>2. ASSUME NEW p \in Parts
            PROVE  snap[h][p] \in 1..(MaxEnqueues + 1)
        <5>1. /\ snap[h][p] \in Nat /\ db[p] \in 1..(enqueues + 1) /\ enqueues \in 0..MaxEnqueues
              /\ snap[h][p] >= 1 /\ snap[h][p] <= db[p]
          BY ONLY Zenon, <1>0, <2>2, <4>1, <4>2
        <5> QED
          BY ONLY SMT, <5>1, BoundsAssumption
      <4> QED
        BY ONLY Zenon, <4>2
    <3> QED
      BY Zenon, <1>0, <3>1
  <2>4. \A r \in RowIds : r[1] = srv[h] /\ Delivered(r) => \A p \in Parts : snap[h][p] >= need[r][p]
    BY Zenon, <2>1 DEF FileInv, SnapshotIsNewest
  <2>5. \A r \in RowIds : Task(r) \in {"confirmed", "file_ready_for_restart"} => Delivered(r)
    BY Zenon DEF Task, Delivered
  <2>6. \A r \in RowIds : r[1] = srv[h] /\ Tasks[r] \in {"confirmed", "file_ready_for_restart"}
                          => \A p \in Parts : snap[h][p] >= need[r][p]
    BY Zenon, <2>4, <2>5 DEF Tasks
  <2>7. Promise!Rewrite(srv[h])
    <3>1. \A p \in Parts : file[srv[h]][p] <= snap[h][p] /\ snap[h][p] <= db[p]
      BY Zenon, <2>1, <2>2
    <3>2. \A r \in Promise!RowIds : r[1] = srv[h] /\ Promise!Delivered(r) => Promise!Covers(snap[h], r)
      BY Zenon, <2>6 DEF Promise!RowIds, RowIds, Promise!Delivered, Promise!Covers, Tasks, Task
    <3> QED
      BY ZenonT(30), <1>3, <2>3, <3>1, <3>2 DEF Promise!Rewrite, Tasks, Task
  <2> QED
    BY Zenon, <2>1, <2>7 DEF Promise!Next
<1> QED
  BY Zenon, <1>1, <1>2, <1>3, FileStep

LEMMA PromiseNext ==
  ASSUME "late_write" \notin Enabled, QueueInv, FileInv, [Next]_vars
  PROVE  [Promise!Next]_(Promise!vars)
<1> USE RowFacts, EntryFacts
<1>0. Sorted /\ RowsExist /\ VerdictInv /\ RemovalInv /\ (\A h \in Handlers : Busy(h))
  BY Zenon, Shapes DEF QueueInv
<1>1. CASE Produce
  <2>1. ASSUME NEW P \in SUBSET Parts, NEW raced \in SUBSET Servers, EnqueueForAllServers(P, raced)
        PROVE  Promise!Next
    <3>1. /\ Insert(Present \union raced, db') /\ UNCHANGED file
          /\ db' = [p \in Parts |-> IF p \in P THEN db[p] + 1 ELSE db[p]]
      BY Zenon, <2>1 DEF EnqueueForAllServers, hosts
    <3>2. Present \union raced \in SUBSET Servers
      BY Zenon, PresentServers
    <3> QED
      BY ZenonT(30), <3>1, <3>2, InsertCommits
  <2>2. ASSUME NEW s \in Servers, ForceSync(s) \/ MarkServerRunningAndEnqueue(s)
        PROVE  Promise!Next
    <3>1. Insert({s}, db') /\ UNCHANGED <<db, file>>
      <4>1. Insert({s}, db) /\ UNCHANGED <<db, file>>
        BY Zenon, <2>2 DEF ForceSync, MarkServerRunningAndEnqueue, hosts
      <4>2. db' = db
        BY ONLY Zenon, <4>1
      <4> QED
        BY ONLY Zenon, <4>1, <4>2
    <3>2. db' = [p \in Parts |-> IF p \in {} THEN db[p] + 1 ELSE db[p]]
      <4>1. db \in Versions
        BY ONLY Zenon, <1>0 DEF Sorted, TableTypes
      <4> QED
        BY ONLY Zenon, <3>1, <4>1 DEF Versions
    <3>3. {s} \in SUBSET Servers /\ {} \in SUBSET Parts
      BY ONLY Zenon, s \in Servers
    <3> QED
      BY ONLY ZenonT(60), QueueInv, <3>1, <3>2, <3>3, InsertCommits
  <2> QED
    BY ONLY Zenon, <1>1, <2>1, <2>2 DEF Produce
<1>2. CASE UNCHANGED <<db, need>> /\ Next
  <2>1. CASE UNCHANGED outcome
    <3>1. Tasks' = Tasks
      BY ONLY Zenon, <2>1 DEF Tasks, Task
    <3> QED
      BY Zenon, <1>2, <3>1, FileKeepsPromise
  <2>2. ASSUME NEW q \in RowIds, RelayCancel(q)
        PROVE  Promise!Next
    <3>1. Task(q) = "open" /\ UNCHANGED file
      BY Zenon, <1>0, <2>2 DEF RelayCancel, Oldest, Candidates, RemovalInv, Known, Task, hosts
    <3>2. Tasks' = [r \in RowIds |-> IF r \in {q} THEN "server_removed" ELSE Tasks[r]]
      <4>1. DOMAIN outcome = RowIds
        BY ONLY Zenon, <1>0 DEF Sorted, TableTypes
      <4>2. outcome' = [outcome EXCEPT ![q] = "server_removed"]
        BY ONLY Zenon, <2>2 DEF RelayCancel
      <4>3. \A r \in RowIds : outcome'[r] = IF r \in {q} THEN "server_removed" ELSE outcome[r]
        BY ONLY Zenon, <4>1, <4>2
      <4>4. \A r \in RowIds : Task(r)' = IF r \in {q} THEN "server_removed" ELSE Task(r)
        BY ONLY Zenon, <4>3 DEF Task
      <4> QED
        BY ONLY ZenonT(60), <4>4 DEF Tasks
    <3>3. q[1] \in Servers /\ {q} \in SUBSET RowIds /\ \A r \in {q} : r[1] = q[1] /\ Task(r) = "open"
      BY Zenon, <3>1
    <3> QED
      BY ONLY ZenonT(60), <1>2, <3>1, <3>2, <3>3, CloseKeepsPromise
  <2>3. ASSUME NEW s \in Servers, RemoveRow(s)
        PROVE  Promise!Next
    <3> DEFINE R == {r \in RowIds : r[1] = s /\ outcome[r] \in {"pending", "failed"}}
    <3>1. Tasks' = [r \in RowIds |-> IF r \in R THEN "server_removed" ELSE Tasks[r]]
      BY Zenon, <2>3 DEF RemoveRow, Tasks, Task
    <3>2. R \in SUBSET RowIds /\ \A r \in R : r[1] = s /\ Task(r) = "open"
      BY Zenon DEF Task
    <3>3. UNCHANGED file
      BY Zenon, <2>3 DEF RemoveRow, hosts
    <3> QED
      BY ONLY ZenonT(60), s \in Servers, <1>2, <3>1, <3>2, <3>3, CloseKeepsPromise
  <2>4. ASSUME NEW h \in Handlers, MarkApplied(h), ~Applied(Own(h))
        PROVE  Promise!Next
    <3>1. /\ pc[h] \in Locked \ {"snapshot"} /\ h # "drift" /\ srv[h] \in Servers
          /\ Own(h) \in RowIds /\ Own(h)[1] = srv[h] /\ Known(Own(h)) /\ UNCHANGED file
      <4>1. pc[h] = "mark" /\ UNCHANGED file
        BY ONLY Zenon, <2>4 DEF MarkApplied, hosts
      <4>2. Busy(h)
        BY ONLY Zenon, <1>0, h \in Handlers
      <4>3. pc[h] # "idle" /\ h # "drift"
        BY ONLY Zenon, <4>1, <4>2 DEF Busy
      <4>4. pc[h] \in Locked \ {"snapshot"}
        BY ONLY Zenon, <4>1 DEF Locked
      <4> QED
        BY Zenon, <1>0, <4>1, <4>3, <4>4, OwnFacts
    <3>2. verdict[h] \in AppliedOutcomes /\ outcome' = [outcome EXCEPT ![Own(h)] = verdict[h]]
      <4>1. verdict[h] # "pending"
        BY ONLY Zenon, <1>0, <2>4 DEF MarkApplied, VerdictInv
      <4>2. verdict[h] \in AppliedOutcomes \union {"pending"}
        BY ONLY Zenon, <1>0, h \in Handlers DEF Sorted, HandlerTypes
      <4>3. outcome' = [outcome EXCEPT ![Own(h)] = verdict[h]]
        BY ONLY Zenon, <2>4 DEF MarkApplied, Own
      <4> QED
        BY ONLY Zenon, <4>1, <4>2, <4>3
    <3>3. Task(Own(h)) = "open"
      <4>1. outcome[Own(h)] \in Outcomes
        BY ONLY Zenon, <1>0, <3>1 DEF Sorted, TableTypes
      <4> QED
        BY ONLY ZenonT(60), <2>4, <3>1, <4>1 DEF Task, Applied, Known, Outcomes, AppliedOutcomes
    <3>4. Tasks' = [Tasks EXCEPT ![Own(h)] = verdict[h]]
      <4>1. DOMAIN outcome = RowIds
        BY ONLY Zenon, <1>0 DEF Sorted, TableTypes
      <4> QED
        BY ONLY ZenonT(60), <3>1, <3>2, <4>1 DEF Tasks, Task, AppliedOutcomes
    <3>5. CASE verdict[h] = "server_removed"
      <4>1. Tasks' = [r \in RowIds |-> IF r \in {Own(h)} THEN "server_removed" ELSE Tasks[r]]
        BY ZenonT(30), <3>1, <3>4, <3>5 DEF Tasks
      <4>2. /\ {Own(h)} \in SUBSET RowIds
            /\ \A r \in {Own(h)} : r[1] = srv[h] /\ Task(r) = "open"
        BY ONLY Zenon, <3>1, <3>3
      <4> QED
        BY ONLY ZenonT(60), <1>2, <3>1, <4>1, <4>2, CloseKeepsPromise
    <3>6. CASE verdict[h] \in {"confirmed", "file_ready_for_restart"}
      <4>1. Covers(file[srv[h]], Own(h))
        BY Zenon, <3>1 DEF FileInv, WrittenIsSnapshot, SnapshotIsNewest, Covers
      <4>2. PICK r \in RowIds : r = Own(h)
        BY Zenon, <3>1
      <4>3. Promise!Covers(file[r[1]], r)
        BY ZenonT(60), <3>1, <4>1, <4>2 DEF Promise!Covers, Covers, Promise!Stale, Stale
      <4>4. Tasks[r] = "open" /\ Tasks' = [Tasks EXCEPT ![r] = verdict[h]]
        BY ONLY ZenonT(60), <3>3, <3>4, <4>2 DEF Tasks
      <4>5. Promise!Deliver(r)
        BY ONLY ZenonT(60), <1>2, <3>1, <3>6, <4>3, <4>4 DEF Promise!Deliver, Tasks, Task
      <4> QED
        BY ONLY ZenonT(60), <4>2, <4>5 DEF Promise!Next, Promise!RowIds, RowIds
    <3> QED
      BY Zenon, <3>2, <3>5, <3>6 DEF AppliedOutcomes
  <2>5. ASSUME NEW h \in Handlers, MarkApplied(h), Applied(Own(h))
        PROVE  UNCHANGED outcome
    BY ONLY Zenon, <2>5 DEF MarkApplied, Own
  <2>6. ASSUME NEW h \in Handlers, h # "drift", pc[h] # "idle", MarkFailed(RowOf(ent[h]))
        PROVE  Tasks' = Tasks
    <3>1. Own(h) \in RowIds /\ Known(Own(h))
      BY Zenon, <1>0, <2>6, OwnFacts
    <3>2. outcome' = outcome \/ (~Applied(Own(h)) /\ outcome' = [outcome EXCEPT ![Own(h)] = "failed"])
      BY ONLY Zenon, <2>6 DEF MarkFailed, Own
    <3>3. outcome \in [RowIds -> Outcomes]
      BY ONLY Zenon, <1>0 DEF Sorted, TableTypes
    <3>4. ~Applied(Own(h)) => outcome[Own(h)] \in {"pending", "failed"}
      BY ONLY Zenon, <3>1, <3>3 DEF Applied, Known, Outcomes, AppliedOutcomes
    <3>5. \A r \in RowIds : outcome'[r] = outcome[r]
            \/ (outcome[r] \in {"pending", "failed"} /\ outcome'[r] = "failed")
      BY ONLY Zenon, <3>1, <3>2, <3>3, <3>4
    <3>6. \A r \in RowIds : Task(r)' = Task(r)
      BY ONLY Zenon, <3>5 DEF Task
    <3> QED
      BY ONLY Zenon, <3>6 DEF Tasks
  <2> QED
    BY ZenonT(30), <1>1, <1>2, <2>1, <2>2, <2>3, <2>4, <2>5, <2>6, OutcomeWriters, FileKeepsPromise
<1>3. CASE UNCHANGED vars
  <2>1. UNCHANGED <<db, need, outcome>>
    BY ONLY Zenon, <1>3 DEF vars, tables
  <2>2. Tasks' = Tasks
    BY ONLY Zenon, <2>1 DEF Tasks, Task
  <2> QED
    BY Zenon, <2>1, <2>2, FileKeepsPromise
<1>4. UNCHANGED <<db, need>> \/ Produce
  BY Zenon, RowsStay
<1> QED
  BY ONLY Zenon, [Next]_vars, <1>1, <1>2, <1>3, <1>4

\* If no write outlives its caller, the synchronisation with its streams,
\* replays, crashes and deletions implements the promise.
THEOREM SyncKeepsPromise ==
  ASSUME "late_write" \notin Enabled
  PROVE  Spec => KeepsPromise
<1>1. QueueInv /\ FileInv /\ [Next]_vars => [Promise!Next]_(Promise!vars)
  BY Zenon, PromiseNext
<1> QED
  BY <1>1, PromiseInit, FileCorrect, PTL DEF Spec, KeepsPromise, Promise!Spec
=============================================================================
