------------------------- MODULE AdminsCfgFile_proofs -------------------------
(***************************************************************************)
(* The file on the host: an applied row is on disk, the file never goes    *)
(* back, a confirmed row is loaded, and once no row is open the file is    *)
(* current.  All of it rests on the advisory lock around the snapshot and  *)
(* the write, and holds as long as no write outlives its caller.           *)
(***************************************************************************)
EXTENDS AdminsCfgQueue_proofs

Delivered(r) == outcome[r] \in {"confirmed", "file_ready_for_restart"}

\* Every version in use was committed.
Bounded ==
  /\ \A p \in Parts : db[p] \in 1..(enqueues + 1)
  /\ \A s \in Servers, p \in Parts : file[s][p] <= db[p]
  /\ \A s \in Servers : file[s] = Stale \/ \A p \in Parts : file[s][p] >= 1
  /\ \A h \in Handlers, p \in Parts : snap[h][p] <= db[p]
  /\ \A r \in RowIds, p \in Parts : need[r][p] <= db[p]

\* What a lock holder has read is at least as new as the file, as any row
\* delivered to the same server, and as the row it delivers.
SnapshotIsNewest ==
  \A h \in Handlers : pc[h] \in Locked =>
    \A p \in Parts \ unread[h] :
      /\ snap[h][p] >= 1
      /\ snap[h][p] >= file[srv[h]][p]
      /\ \A r \in RowIds : r[1] = srv[h] /\ Delivered(r) => snap[h][p] >= need[r][p]
      /\ h # "drift" => snap[h][p] >= need[Own(h)][p]

\* Until the transaction ends, the file is what the holder wrote or compared,
\* unless the host is being torn down.
WrittenIsSnapshot ==
  \A h \in Handlers : pc[h] \in Locked \ {"snapshot"} =>
    unread[h] = {} /\ file[srv[h]] \in {Stale, snap[h]}

FileInv == lateWrites = {} /\ Bounded /\ SnapshotIsNewest /\ WrittenIsSnapshot /\ AppliedIsOnDisk

-----------------------------------------------------------------------------
(* The file and the snapshots *)

\* The steps that touch the database, the file or a handler; all others only
\* can close rows, which delivers none.
LEMMA FileWriters ==
  ASSUME QueueInv, Next
  PROVE  \/ /\ UNCHANGED <<db, enqueues, need, file, lateWrites, pc, srv, ent, unread, snap>>
            /\ \A r \in RowIds : Delivered(r)' <=> Delivered(r)
         \/ Produce \/ Crash
         \/ \E w \in lateWrites : LateWriteLands(w)
         \/ \E s \in Servers : RemoveHost(s) \/ AcquireForDrift(s) \/ WriteVersion(s)
         \/ \E h \in Handlers : Acquire(h) \/ DeliveryStep(h) \/ DeliveryFault(h)
<1> DEFINE P == /\ UNCHANGED <<db, enqueues, need, file, lateWrites, pc, srv, ent, unread, snap>>
                /\ \A r \in RowIds : Delivered(r)' <=> Delivered(r)
<1> USE RowFacts DEF Delivered
<1>1. ASSUME NEW r \in RowIds, RelayCancel(r)
      PROVE  P
  <2>1. \A q \in RowIds : Applied(q) => outcome'[q] = outcome[q]
    BY Zenon, <1>1, AppliedStep DEF Next, RelayStep
  <2>2. DOMAIN outcome = RowIds
    BY Zenon, SortTypes DEF QueueInv, Sorted, TableTypes
  <2>3. ~Delivered(r)' /\ \A q \in RowIds : q # r => outcome'[q] = outcome[q]
    BY Zenon, <1>1, <2>2 DEF RelayCancel
  <2>4. Delivered(r) => Applied(r)
    BY Zenon DEF Applied, AppliedOutcomes
  <2> QED
    BY Zenon, <1>1, <2>1, <2>3, <2>4 DEF RelayCancel, hosts, handler
<1>2. ASSUME RelayStep \/ RelayFault
      PROVE  P
  BY Zenon, <1>1, <1>2 DEF RelayStep, RelayRun, RelayDrained, RelayXadd, RelayStamp, RelayClaim, RelayFault,
     RelayXaddRefused, RelayXaddTimesOut, RelayReplyLost, RelayGiveUp, LateXaddLands, tables, hosts, handler
<1>3. ASSUME NEW s \in Servers, RemoveRow(s)
      PROVE  P
  BY Zenon, <1>3 DEF RemoveRow, hosts, handler
<1>4. ASSUME NEW s \in Servers, RemoveQueue(s) \/ RemoveQueueFails(s)
      PROVE  P
  BY Zenon, <1>4 DEF RemoveQueue, RemoveQueueFails, tables, hosts, handler
<1>5. ASSUME Refresh \/ Read
      PROVE  P
  BY Zenon, <1>5 DEF Refresh, RefreshTimer, RefreshTimerDone, Read, ProcessStreamEvents, ReadNoGroup,
              ReadNoGroupDone, tables, hosts, handler
<1>6. ASSUME NEW s \in Servers, ReclaimPendingMessages(s) \/ BackoffExpires(s)
      PROVE  P
  BY Zenon, <1>6 DEF ReclaimPendingMessages, BackoffExpires, tables, hosts, handler
<1>7. ASSUME NEW s \in Servers, StatusChanges(s) \/ ContainerStarts(s) \/ ContainerStops(s)
                                \/ Reconcile(s) \/ GameReloads(s)
      PROVE  P
  BY Zenon, <1>7 DEF StatusChanges, ContainerStarts, ContainerStops, Reconcile, GameReloads, tables, hosts, handler
<1>8. ASSUME RedisLosesData
      PROVE  P
  BY Zenon, <1>8 DEF RedisLosesData, tables, hosts, handler
<1> QED
  BY Zenon, <1>2, <1>3, <1>4, <1>5, <1>6, <1>7, <1>8 DEF Next, Remove, Environment

\* The lock holders of two servers are different handlers, so that a handler
\* inside its transaction is the only one that works on its server.
LEMMA OneHolder ==
  ASSUME QueueInv, NEW g \in Handlers, NEW h \in Handlers,
         pc[g] \in Locked, pc[h] \in Locked, srv[g] = srv[h]
  PROVE  g = h
BY Zenon DEF QueueInv, Working

\* The shape of what the file proofs speak of.
LEMMA Shapes ==
  ASSUME QueueInv
  PROVE  /\ Sorted /\ \A h \in Handlers : Busy(h)
         /\ DOMAIN file = Servers /\ DOMAIN outcome = RowIds
         /\ DOMAIN pc = Handlers /\ DOMAIN srv = Handlers /\ DOMAIN ent = Handlers
         /\ DOMAIN unread = Handlers /\ DOMAIN snap = Handlers
<1>1. Sorted
  BY Zenon, SortTypes DEF QueueInv
<1> QED BY ONLY Zenon, <1>1 DEF Sorted, HostTypes, TableTypes, HandlerTypes

LEMMA Numbers ==
  ASSUME QueueInv
  PROVE  /\ enqueues \in Nat
         /\ \A p \in Parts : db[p] \in Nat
         /\ \A s \in Servers, p \in Parts : file[s][p] \in Nat
         /\ \A h \in Handlers, p \in Parts : snap[h][p] \in Nat
         /\ \A r \in RowIds, p \in Parts : need[r][p] \in Nat
<1>1. /\ db \in Versions /\ file \in [Servers -> Versions] /\ snap \in [Handlers -> Versions]
      /\ need \in [RowIds -> Versions] /\ enqueues \in 0..MaxEnqueues
  BY ONLY Zenon, QueueInv, Shapes DEF Sorted, HostTypes, TableTypes, HandlerTypes
<1>2. enqueues \in Nat
  BY ONLY SMT, <1>1, BoundsAssumption
<1>3. \A v \in Versions, p \in Parts : v[p] \in Nat
  BY ONLY Zenon DEF Versions
<1> QED BY ONLY Zenon, <1>1, <1>2, <1>3

\* The version a file has before any sync is below all others.
LEMMA StaleIsLeast ==
  ASSUME NEW p \in Parts
  PROVE  /\ Stale[p] = 0
         /\ \A n \in Nat : Stale[p] <= n /\ n >= Stale[p] /\ n >= n
<1>1. Stale[p] = 0
  BY Zenon DEF Stale
<1> QED BY ONLY SMT, <1>1

LEMMA FileInit == Init => FileInv
<1> SUFFICES ASSUME Init PROVE FileInv
  BY Zenon
<1>1. /\ enqueues = 0 /\ (\A s \in Servers : file[s] = Stale) /\ lateWrites = {}
      /\ \A h \in Handlers : pc[h] = "idle" /\ snap[h] = Stale
      /\ \A r \in RowIds : ~Delivered(r) /\ need[r] = Stale
      /\ \A p \in Parts : db[p] = 1
  BY Zenon DEF Init, Delivered
<1>2. Bounded
  <2>1. \A p \in Parts : db[p] \in 1..(enqueues + 1) /\ Stale[p] <= db[p]
    <3>1. 1 \in 1..(0 + 1) /\ 1 \in Nat
      BY ONLY SMT
    <3> QED BY ONLY Zenon, <1>1, <3>1, StaleIsLeast
  <2> QED BY ONLY Zenon, <1>1, <2>1 DEF Bounded
<1>3. SnapshotIsNewest /\ WrittenIsSnapshot
  BY ONLY Zenon, <1>1 DEF SnapshotIsNewest, WrittenIsSnapshot, Locked
<1>4. AppliedIsOnDisk
  BY ONLY Zenon, <1>1 DEF AppliedIsOnDisk, Delivered
<1> QED BY ONLY Zenon, <1>1, <1>2, <1>3, <1>4 DEF FileInv

\* A step in which no handler reads, and a lock holder writes its complete
\* snapshot.
LEMMA WriteKeepsFileInv ==
  ASSUME QueueInv, FileInv, NEW h \in Handlers, h # "drift", Compared(h),
         file' = [file EXCEPT ![srv[h]] = snap[h]],
         UNCHANGED <<db, need, lateWrites, enqueues>>, \A r \in RowIds : Delivered(r)' <=> Delivered(r),
         \A g \in Handlers \ {h} :
           /\ pc'[g] = pc[g] /\ srv'[g] = srv[g] /\ ent'[g] = ent[g]
           /\ unread'[g] = unread[g] /\ snap'[g] = snap[g],
         \/ pc'[h] \notin Locked /\ snap'[h] = Stale
         \/ UNCHANGED <<srv, ent, unread, snap>>
  PROVE  FileInv'
<1>0. /\ DOMAIN file = Servers /\ (\A g \in Handlers : Busy(g))
      /\ lateWrites = {} /\ Bounded /\ SnapshotIsNewest /\ WrittenIsSnapshot /\ AppliedIsOnDisk
  BY ONLY Zenon, QueueInv, FileInv, Shapes DEF FileInv
<1>1. srv[h] \in Servers /\ pc[h] \in Locked /\ unread[h] = {}
  BY Zenon, <1>0 DEF Busy, Compared, Locked
<1>2. \A s \in Servers : s # srv[h] => file'[s] = file[s]
  BY Zenon, <1>0
<1>3. file'[srv[h]] = snap[h]
  BY Zenon, <1>0, <1>1
<1>4. \A p \in Parts : snap[h][p] >= 1 /\ snap[h][p] >= file[srv[h]][p]
  BY Zenon, <1>0, <1>1 DEF SnapshotIsNewest
<1>5. Bounded'
  <2>1. \A s \in Servers, p \in Parts : file'[s][p] <= db[p]
    BY ONLY Zenon, <1>0, <1>2, <1>3, h \in Handlers DEF Bounded
  <2>2. \A s \in Servers : file'[s] = Stale \/ \A p \in Parts : file'[s][p] >= 1
    BY ONLY Zenon, <1>0, <1>2, <1>3, <1>4 DEF Bounded
  <2>3. \A g \in Handlers, p \in Parts : snap'[g][p] <= db[p]
    <3>1. \A g \in Handlers : snap'[g] = snap[g] \/ snap'[g] = Stale
      BY Zenon
    <3>2. \A p \in Parts : Stale[p] <= db[p]
      BY Zenon, StaleIsLeast, Numbers
    <3> QED BY ONLY Zenon, <1>0, <3>1, <3>2 DEF Bounded
  <2>4. UNCHANGED <<db, need, enqueues>>
    BY Zenon
  <2> QED BY ONLY Zenon, <1>0, <2>1, <2>2, <2>3, <2>4 DEF Bounded
<1>6. ASSUME NEW g \in Handlers, pc'[g] \in Locked, g # h
      PROVE  /\ pc[g] = pc'[g] /\ srv'[g] = srv[g] /\ ent'[g] = ent[g] /\ unread'[g] = unread[g]
             /\ snap'[g] = snap[g] /\ file'[srv[g]] = file[srv[g]]
  <2>1. /\ pc[g] = pc'[g] /\ srv'[g] = srv[g] /\ ent'[g] = ent[g] /\ unread'[g] = unread[g] /\ snap'[g] = snap[g]
    BY Zenon, <1>6
  <2>2. srv[g] \in Servers
    BY ONLY Zenon, <1>0, <1>6, <2>1 DEF Busy, Locked
  <2>3. srv[g] # srv[h]
    BY Zenon, <1>1, <1>6, <2>1, OneHolder
  <2> QED BY ONLY Zenon, <1>2, <2>1, <2>2, <2>3
<1>7. ASSUME pc'[h] \in Locked
      PROVE  srv'[h] = srv[h] /\ ent'[h] = ent[h] /\ unread'[h] = unread[h] /\ snap'[h] = snap[h]
  BY Zenon, <1>7
<1>8. SnapshotIsNewest'
  <2> SUFFICES ASSUME NEW g \in Handlers, pc'[g] \in Locked, NEW p \in Parts \ unread'[g]
               PROVE  /\ snap'[g][p] >= 1
                      /\ snap'[g][p] >= file'[srv'[g]][p]
                      /\ \A r \in RowIds : r[1] = srv'[g] /\ Delivered(r) => snap'[g][p] >= need[r][p]
                      /\ g # "drift" => snap'[g][p] >= need[Own(g)'][p]
    BY Zenon DEF SnapshotIsNewest
  <2>1. CASE g = h
    <3>1. srv'[h] = srv[h] /\ Own(h)' = Own(h) /\ snap'[h] = snap[h]
      BY Zenon, <1>7, <2>1 DEF Own
    <3>2. snap[h][p] >= snap[h][p]
      BY Zenon, StaleIsLeast, Numbers
    <3> QED BY ONLY Zenon, <1>0, <1>1, <1>3, <1>4, <2>1, <3>1, <3>2, p \in Parts \ unread'[g], g \in Handlers
               DEF SnapshotIsNewest
  <2>2. CASE g # h
    <3>1. /\ pc[g] \in Locked /\ srv'[g] = srv[g] /\ snap'[g] = snap[g] /\ p \in Parts \ unread[g]
          /\ Own(g)' = Own(g) /\ file'[srv[g]] = file[srv[g]]
      BY Zenon, <1>6, <2>2 DEF Own
    <3> QED BY ONLY Zenon, <1>0, <3>1, g \in Handlers DEF SnapshotIsNewest
  <2> QED BY ONLY Zenon, <2>1, <2>2
<1>9. WrittenIsSnapshot'
  <2> SUFFICES ASSUME NEW g \in Handlers, pc'[g] \in Locked \ {"snapshot"}
               PROVE  unread'[g] = {} /\ file'[srv'[g]] \in {Stale, snap'[g]}
    BY Zenon DEF WrittenIsSnapshot
  <2>1. CASE g = h
    BY Zenon, <1>1, <1>3, <1>7, <2>1
  <2>2. CASE g # h
    <3>1. /\ pc[g] \in Locked \ {"snapshot"} /\ srv'[g] = srv[g] /\ snap'[g] = snap[g] /\ unread'[g] = unread[g]
          /\ file'[srv[g]] = file[srv[g]]
      BY Zenon, <1>6, <2>2
    <3> QED BY ONLY Zenon, <1>0, <3>1, g \in Handlers DEF WrittenIsSnapshot
  <2> QED BY ONLY Zenon, <2>1, <2>2
<1>10. AppliedIsOnDisk'
  <2> SUFFICES ASSUME NEW r \in RowIds, Delivered(r)
               PROVE  Covers(file[r[1]], r)'
    BY Zenon DEF AppliedIsOnDisk, Delivered
  <2>1. CASE r[1] = srv[h]
    BY Zenon, <1>0, <1>1, <1>3, <2>1 DEF SnapshotIsNewest, Covers
  <2>2. CASE r[1] # srv[h]
    BY Zenon, <1>0, <1>2, <2>2, RowFacts DEF AppliedIsOnDisk, Delivered, Covers
  <2> QED BY ONLY Zenon, <2>1, <2>2
<1>11. lateWrites' = {}
  BY Zenon, <1>0
<1> QED BY ONLY Zenon, <1>5, <1>8, <1>9, <1>10, <1>11 DEF FileInv

\* A step that leaves the files alone, or replaces one with the content Stale.
\* Handlers that change stop, start, or go on after the comparison.
LEMMA QuietKeepsFileInv ==
  ASSUME QueueInv, FileInv,
         file' = file \/ \E s \in Servers : file' = [file EXCEPT ![s] = Stale],
         UNCHANGED <<db, need, lateWrites, enqueues>>, \A r \in RowIds : Delivered(r)' <=> Delivered(r),
         \A g \in Handlers :
           \/ pc'[g] \notin Locked /\ (snap'[g] = Stale \/ snap'[g] = snap[g])
           \/ pc'[g] = "snapshot" /\ unread'[g] = Parts /\ snap'[g] = snap[g]
           \/ /\ pc'[g] = pc[g] \/ {pc[g], pc'[g]} \subseteq Locked \ {"snapshot"}
              /\ srv'[g] = srv[g] /\ ent'[g] = ent[g] /\ unread'[g] = unread[g] /\ snap'[g] = snap[g]
  PROVE  FileInv'
<1>0. /\ DOMAIN file = Servers /\ (\A g \in Handlers : Busy(g))
      /\ lateWrites = {} /\ Bounded /\ SnapshotIsNewest /\ WrittenIsSnapshot /\ AppliedIsOnDisk
  BY ONLY Zenon, QueueInv, FileInv, Shapes DEF FileInv
<1>1. \A s \in Servers : file'[s] = file[s] \/ file'[s] = Stale
  BY Zenon, <1>0
<1>2. \A p \in Parts : Stale[p] <= db[p]
  BY Zenon, StaleIsLeast, Numbers
<1>3. Bounded'
  <2>1. \A s \in Servers, p \in Parts : file'[s][p] <= db[p]
    BY ONLY Zenon, <1>0, <1>1, <1>2 DEF Bounded
  <2>2. \A s \in Servers : file'[s] = Stale \/ \A p \in Parts : file'[s][p] >= 1
    BY ONLY Zenon, <1>0, <1>1 DEF Bounded
  <2>3. \A g \in Handlers : snap'[g] = snap[g] \/ snap'[g] = Stale
    BY Zenon
  <2>4. \A g \in Handlers, p \in Parts : snap'[g][p] <= db[p]
    BY ONLY Zenon, <1>0, <1>2, <2>3 DEF Bounded
  <2>5. UNCHANGED <<db, need, enqueues>>
    BY Zenon
  <2> QED BY ONLY Zenon, <1>0, <2>1, <2>2, <2>4, <2>5 DEF Bounded
<1>4. SnapshotIsNewest'
  <2> SUFFICES ASSUME NEW g \in Handlers, pc'[g] \in Locked, NEW p \in Parts \ unread'[g]
               PROVE  /\ snap'[g][p] >= 1
                      /\ snap'[g][p] >= file'[srv'[g]][p]
                      /\ \A r \in RowIds : r[1] = srv'[g] /\ Delivered(r) => snap'[g][p] >= need[r][p]
                      /\ g # "drift" => snap'[g][p] >= need[Own(g)'][p]
    BY Zenon DEF SnapshotIsNewest
  <2>1. /\ pc[g] \in Locked /\ srv'[g] = srv[g] /\ ent'[g] = ent[g]
        /\ snap'[g] = snap[g] /\ p \in Parts \ unread[g]
    BY Zenon
  <2>2. srv[g] \in Servers /\ Own(g)' = Own(g)
    BY ONLY Zenon, <1>0, <2>1, g \in Handlers DEF Busy, Own, Locked
  <2>3. /\ snap[g][p] >= 1 /\ snap[g][p] >= file[srv[g]][p]
        /\ \A r \in RowIds : r[1] = srv[g] /\ Delivered(r) => snap[g][p] >= need[r][p]
        /\ g # "drift" => snap[g][p] >= need[Own(g)][p]
    BY ONLY Zenon, <1>0, <2>1, g \in Handlers DEF SnapshotIsNewest
  <2>4. snap[g][p] >= Stale[p]
    BY Zenon, StaleIsLeast, Numbers
  <2> QED BY ONLY Zenon, <1>1, <2>1, <2>2, <2>3, <2>4
<1>5. WrittenIsSnapshot'
  <2> SUFFICES ASSUME NEW g \in Handlers, pc'[g] \in Locked \ {"snapshot"}
               PROVE  unread'[g] = {} /\ file'[srv'[g]] \in {Stale, snap'[g]}
    BY Zenon DEF WrittenIsSnapshot
  <2>1. pc[g] \in Locked \ {"snapshot"} /\ srv'[g] = srv[g] /\ snap'[g] = snap[g] /\ unread'[g] = unread[g]
    BY Zenon
  <2>2. srv[g] \in Servers
    BY ONLY Zenon, <1>0, <2>1, g \in Handlers DEF Busy, Locked
  <2> QED BY ONLY Zenon, <1>0, <1>1, <2>1, <2>2, g \in Handlers DEF WrittenIsSnapshot
<1>6. AppliedIsOnDisk'
  <2> SUFFICES ASSUME NEW r \in RowIds, Delivered(r)
               PROVE  Covers(file[r[1]], r)'
    BY Zenon DEF AppliedIsOnDisk, Delivered
  <2>1. Covers(file[r[1]], r) /\ r[1] \in Servers
    BY Zenon, <1>0, RowFacts DEF AppliedIsOnDisk, Delivered
  <2> QED BY Zenon, <1>1, <2>1 DEF Covers
<1>7. lateWrites' = {}
  BY Zenon, <1>0
<1> QED BY ONLY Zenon, <1>3, <1>4, <1>5, <1>6, <1>7 DEF FileInv

\* A new row names no row that a handler works on or that is delivered.
LEMMA InsertKeepsFileInv ==
  ASSUME QueueInv, FileInv, NEW T \in SUBSET Servers, Insert(T, db'),
         db' \in Versions, \A p \in Parts : db'[p] = db[p] \/ db'[p] = db[p] + 1,
         UNCHANGED <<hosts, handler>>
  PROVE  FileInv'
<1>0. /\ Sorted /\ RowsExist /\ Numbered /\ enqueues \in 0..MaxEnqueues
      /\ lateWrites = {} /\ Bounded /\ SnapshotIsNewest /\ WrittenIsSnapshot /\ AppliedIsOnDisk
  <2>1. Sorted /\ RowsExist /\ Numbered
    BY Zenon, Shapes, SortRows DEF QueueInv
  <2> QED BY Zenon, <2>1 DEF FileInv, Sorted, TableTypes
<1>1. \A r \in RowIds : Known(r) => need'[r] = need[r] /\ outcome'[r] = outcome[r]
  <2>1. /\ need' = [r \in RowIds |-> IF r \in Unknown(T) THEN db' ELSE need[r]]
        /\ outcome' = [r \in RowIds |-> IF r \in Unknown(T) THEN "pending" ELSE outcome[r]]
    BY Zenon DEF Insert, Unknown
  <2>2. \A r \in RowIds : Known(r) => r \notin Unknown(T)
    BY ONLY Zenon, <1>0, KnownIsOld
  <2> QED BY ONLY Zenon, <2>1, <2>2
<1>2. \A r \in RowIds : Delivered(r)' => Delivered(r) /\ need'[r] = need[r]
  BY Zenon, <1>1 DEF Insert, Delivered, Known
<1>3. \A r \in RowIds : need'[r] = need[r] \/ need'[r] = db'
  BY Zenon DEF Insert
<1>4. /\ enqueues' = enqueues + 1 /\ enqueues \in Nat
      /\ \A p \in Parts : db[p] \in Nat /\ db'[p] \in Nat /\ (db'[p] = db[p] \/ db'[p] = db[p] + 1)
  BY Zenon, Numbers DEF Insert, Versions
<1>5. UNCHANGED <<file, lateWrites, pc, srv, ent, unread, snap>>
  BY Zenon DEF hosts, handler
<1>6. ASSUME NEW p \in Parts, NEW n \in Nat, n <= db[p] PROVE n <= db'[p]
  <2>1. db[p] \in Nat /\ (db'[p] = db[p] \/ db'[p] = db[p] + 1)
    BY Zenon, <1>4
  <2> QED BY ONLY SMT, <1>6, <2>1
<1>7. Bounded'
  <2>1. ASSUME NEW p \in Parts PROVE db'[p] \in 1..(enqueues' + 1) /\ db'[p] <= db'[p]
    <3>1. db[p] \in 1..(enqueues + 1) /\ (db'[p] = db[p] \/ db'[p] = db[p] + 1)
      BY ONLY Zenon, <1>0, <1>4, p \in Parts DEF Bounded
    <3> QED BY ONLY SMT, <1>4, <3>1
  <2>2. /\ \A s \in Servers, p \in Parts : file[s][p] <= db'[p]
        /\ \A g \in Handlers, p \in Parts : snap[g][p] <= db'[p]
        /\ \A r \in RowIds, p \in Parts : need[r][p] <= db'[p]
    BY Zenon, <1>0, <1>6, Numbers DEF Bounded
  <2>3. \A r \in RowIds, p \in Parts : need'[r][p] <= db'[p]
    BY ONLY Zenon, <1>3, <2>1, <2>2
  <2>4. \A s \in Servers : file[s] = Stale \/ \A p \in Parts : file[s][p] >= 1
    BY ONLY Zenon, <1>0 DEF Bounded
  <2> QED BY ONLY Zenon, <1>5, <2>1, <2>2, <2>3, <2>4 DEF Bounded
<1>8. SnapshotIsNewest'
  <2> SUFFICES ASSUME NEW g \in Handlers, pc[g] \in Locked, NEW p \in Parts \ unread[g]
               PROVE  /\ snap[g][p] >= 1
                      /\ snap[g][p] >= file[srv[g]][p]
                      /\ \A r \in RowIds : r[1] = srv[g] /\ Delivered(r)' => snap[g][p] >= need'[r][p]
                      /\ g # "drift" => snap[g][p] >= need'[Own(g)][p]
    BY Zenon, <1>5 DEF SnapshotIsNewest, Own
  <2>1. pc[g] # "idle"
    BY Zenon DEF Locked
  <2>2. g # "drift" => need'[Own(g)] = need[Own(g)]
    BY Zenon, <1>0, <1>1, <2>1, OwnFacts
  <2>3. /\ snap[g][p] >= 1 /\ snap[g][p] >= file[srv[g]][p]
        /\ \A r \in RowIds : r[1] = srv[g] /\ Delivered(r) => snap[g][p] >= need[r][p]
        /\ g # "drift" => snap[g][p] >= need[Own(g)][p]
    BY Zenon, <1>0 DEF SnapshotIsNewest
  <2> QED BY ONLY Zenon, <1>2, <2>2, <2>3
<1>9. WrittenIsSnapshot'
  BY ONLY Zenon, <1>0, <1>5 DEF WrittenIsSnapshot
<1>10. AppliedIsOnDisk'
  BY ONLY Zenon, <1>0, <1>2, <1>5 DEF AppliedIsOnDisk, Delivered, Covers
<1>11. lateWrites' = {}
  BY ONLY Zenon, <1>0, <1>5
<1> QED BY ONLY Zenon, <1>7, <1>8, <1>9, <1>10, <1>11 DEF FileInv

\* A query reads the newest committed version.
LEMMA SnapshotKeepsFileInv ==
  ASSUME QueueInv, FileInv, NEW h \in Handlers, NEW q \in Parts, Snapshot(h, q)
  PROVE  FileInv'
<1>0. /\ \A g \in Handlers : Busy(g)
      /\ lateWrites = {} /\ Bounded /\ SnapshotIsNewest /\ WrittenIsSnapshot /\ AppliedIsOnDisk
  BY ONLY Zenon, QueueInv, FileInv, Shapes DEF FileInv
<1>1. UNCHANGED <<db, enqueues, need, outcome, file, lateWrites, pc, srv, ent>>
  BY Zenon DEF Snapshot, tables, hosts
<1>2. /\ \A g \in Handlers \ {h} : snap'[g] = snap[g] /\ unread'[g] = unread[g]
      /\ snap'[h][q] = db[q] /\ unread'[h] = unread[h] \ {q}
      /\ \A p \in Parts \ {q} : snap'[h][p] = snap[h][p]
  <2>1. DOMAIN snap = Handlers /\ DOMAIN unread = Handlers /\ DOMAIN snap[h] = Parts
    BY Zenon, Shapes DEF Sorted, HandlerTypes, Versions
  <2>2. /\ snap' = [snap EXCEPT ![h] = [snap[h] EXCEPT ![q] = db[q]]]
        /\ unread' = [unread EXCEPT ![h] = unread[h] \ {q}]
    BY Zenon DEF Snapshot
  <2> QED BY ONLY Zenon, <2>1, <2>2, h \in Handlers, q \in Parts
<1>3. pc[h] = "snapshot" /\ srv[h] \in Servers
  BY Zenon, <1>0 DEF Snapshot, Busy
<1>4. Bounded'
  <2>1. db[q] <= db[q]
    <3>1. db[q] \in Nat
      BY Zenon, Numbers
    <3> QED BY ONLY SMT, <3>1
  <2>2. \A g \in Handlers, p \in Parts : snap'[g][p] = snap[g][p] \/ (p = q /\ snap'[g][p] = db[q])
    BY ONLY Zenon, <1>2
  <2>3. \A g \in Handlers, p \in Parts : snap'[g][p] <= db[p]
    BY ONLY Zenon, <1>0, <2>1, <2>2 DEF Bounded
  <2> QED BY ONLY Zenon, <1>0, <1>1, <2>3 DEF Bounded
<1>5. SnapshotIsNewest'
  <2> SUFFICES ASSUME NEW g \in Handlers, pc[g] \in Locked, NEW p \in Parts \ unread'[g]
               PROVE  /\ snap'[g][p] >= 1
                      /\ snap'[g][p] >= file[srv[g]][p]
                      /\ \A r \in RowIds : r[1] = srv[g] /\ Delivered(r) => snap'[g][p] >= need[r][p]
                      /\ g # "drift" => snap'[g][p] >= need[Own(g)][p]
    BY Zenon, <1>1 DEF SnapshotIsNewest, Own, Delivered
  <2>1. CASE g = h /\ p = q
    <3>1. db[q] >= 1
      <4>1. db[q] \in 1..(enqueues + 1) /\ enqueues \in Nat
        BY Zenon, <1>0, Numbers DEF Bounded
      <4> QED BY ONLY SMT, <4>1
    <3>2. \A n \in Nat : n <= db[q] => db[q] >= n
      <4>1. db[q] \in Nat
        BY Zenon, Numbers
      <4> QED BY ONLY SMT, <4>1
    <3>3. db[q] >= file[srv[h]][q] /\ \A r \in RowIds : db[q] >= need[r][q]
      BY Zenon, <1>0, <1>3, <3>2, Numbers DEF Bounded
    <3>4. g # "drift" => Own(g) \in RowIds
      BY Zenon, <1>0, <1>3, <2>1, EntryFacts DEF Busy, Own
    <3> QED BY ONLY Zenon, <1>2, <2>1, <3>1, <3>3, <3>4
  <2>2. CASE ~(g = h /\ p = q)
    <3>1. p \in Parts \ unread[g] /\ snap'[g][p] = snap[g][p]
      BY Zenon, <1>2, <2>2
    <3> QED BY Zenon, <1>0, <3>1 DEF SnapshotIsNewest
  <2> QED BY ONLY Zenon, <2>1, <2>2
<1>6. WrittenIsSnapshot'
  <2>1. \A g \in Handlers : pc[g] # "snapshot" => snap'[g] = snap[g] /\ unread'[g] = unread[g]
    BY ONLY Zenon, <1>2, <1>3
  <2> QED BY ONLY Zenon, <1>0, <1>1, <2>1 DEF WrittenIsSnapshot
<1>7. AppliedIsOnDisk'
  BY ONLY Zenon, <1>0, <1>1 DEF AppliedIsOnDisk, Covers
<1> QED BY ONLY Zenon, <1>0, <1>1, <1>4, <1>5, <1>6, <1>7 DEF FileInv

\* The row is stored as delivered while the lock is still held.
LEMMA MarkKeepsFileInv ==
  ASSUME QueueInv, FileInv, NEW h \in Handlers, MarkApplied(h)
  PROVE  FileInv'
<1>0. /\ Sorted /\ RowsExist /\ \A g \in Handlers : Busy(g)
      /\ lateWrites = {} /\ Bounded /\ SnapshotIsNewest /\ WrittenIsSnapshot /\ AppliedIsOnDisk
  BY ONLY Zenon, QueueInv, FileInv, Shapes DEF FileInv, QueueInv
<1>1. /\ UNCHANGED <<db, enqueues, need, file, lateWrites, srv, ent>>
      /\ \A g \in Handlers \ {h} : snap'[g] = snap[g] /\ unread'[g] = unread[g] /\ pc'[g] = pc[g]
      /\ snap'[h] = Stale /\ pc'[h] = "ack"
  <2>1. /\ UNCHANGED <<db, enqueues, need, file, lateWrites, srv, ent>>
        /\ snap' = [snap EXCEPT ![h] = Stale] /\ pc' = [pc EXCEPT ![h] = "ack"]
        /\ unread' = [unread EXCEPT ![h] = {}]
    BY Zenon DEF MarkApplied, hosts
  <2> QED BY ONLY Zenon, QueueInv, <2>1, Shapes, h \in Handlers
<1>2. pc[h] = "mark" /\ pc[h] \in Locked /\ h # "drift"
  BY Zenon, <1>0 DEF MarkApplied, Locked, Busy
<1>3. srv[h] \in Servers /\ Own(h) \in RowIds /\ Own(h)[1] = srv[h]
  BY Zenon, <1>0, <1>2, OwnFacts
<1>4. \A r \in RowIds : Delivered(r)' => Delivered(r) \/ r = Own(h)
  <2>1. outcome' = outcome \/ outcome' = [outcome EXCEPT ![Own(h)] = verdict[h]]
    BY Zenon DEF MarkApplied, Own
  <2>2. DOMAIN outcome = RowIds
    BY ONLY Zenon, QueueInv, Shapes
  <2> QED BY ONLY Zenon, <2>1, <2>2 DEF Delivered
<1>5. Covers(file[srv[h]], Own(h))
  BY ONLY Zenon, <1>0, <1>2, h \in Handlers DEF WrittenIsSnapshot, SnapshotIsNewest, Covers, Locked
<1>6. Bounded'
  <2>1. \A p \in Parts : Stale[p] <= db[p]
    BY Zenon, StaleIsLeast, Numbers
  <2>2. \A g \in Handlers : snap'[g] = snap[g] \/ snap'[g] = Stale
    BY ONLY Zenon, <1>1
  <2>3. \A g \in Handlers, p \in Parts : snap'[g][p] <= db[p]
    BY ONLY Zenon, <1>0, <2>1, <2>2 DEF Bounded
  <2> QED BY ONLY Zenon, <1>0, <1>1, <2>3 DEF Bounded
<1>7. ASSUME NEW g \in Handlers, pc'[g] \in Locked
      PROVE  g # h /\ pc[g] = pc'[g] /\ snap'[g] = snap[g] /\ unread'[g] = unread[g]
  <2>1. g # h
    BY ONLY Zenon, <1>1, <1>7 DEF Locked
  <2> QED BY ONLY Zenon, <1>1, <1>7, <2>1
<1>8. SnapshotIsNewest'
  <2> SUFFICES ASSUME NEW g \in Handlers, pc'[g] \in Locked, NEW p \in Parts \ unread'[g]
               PROVE  /\ snap'[g][p] >= 1
                      /\ snap'[g][p] >= file[srv[g]][p]
                      /\ \A r \in RowIds : r[1] = srv[g] /\ Delivered(r)' => snap'[g][p] >= need[r][p]
                      /\ g # "drift" => snap'[g][p] >= need[Own(g)][p]
    BY Zenon, <1>1 DEF SnapshotIsNewest, Own
  <2>1. g # h /\ pc[g] \in Locked /\ snap'[g] = snap[g] /\ p \in Parts \ unread[g]
    BY Zenon, <1>7
  <2>2. srv[g] # srv[h]
    BY Zenon, <1>2, <2>1, OneHolder
  <2> QED BY ONLY Zenon, <1>0, <1>3, <1>4, <2>1, <2>2, g \in Handlers DEF SnapshotIsNewest
<1>9. WrittenIsSnapshot'
  BY ONLY Zenon, <1>0, <1>1, <1>7 DEF WrittenIsSnapshot
<1>10. AppliedIsOnDisk'
  <2> SUFFICES ASSUME NEW r \in RowIds, Delivered(r)'
               PROVE  Covers(file[r[1]], r)
    BY Zenon, <1>1 DEF AppliedIsOnDisk, Delivered, Covers
  <2>1. CASE Delivered(r)
    BY ONLY Zenon, <1>0, <2>1, r \in RowIds DEF AppliedIsOnDisk, Delivered
  <2>2. CASE r = Own(h)
    BY ONLY Zenon, <1>3, <1>5, <2>2
  <2> QED BY Zenon, <1>4, <2>1, <2>2
<1> QED BY ONLY Zenon, <1>0, <1>1, <1>6, <1>8, <1>9, <1>10 DEF FileInv

LEMMA ProduceKeepsFileInv ==
  ASSUME QueueInv, FileInv, Produce
  PROVE  FileInv'
<1>0. db \in Versions
  BY Zenon, Shapes DEF Sorted, TableTypes
<1>1. ASSUME NEW P \in SUBSET Parts, NEW raced \in SUBSET Servers, EnqueueForAllServers(P, raced)
      PROVE  FileInv'
  <2>1. Present \union raced \in SUBSET Servers
    BY Zenon, PresentServers
  <2>2. db' = [p \in Parts |-> IF p \in P THEN db[p] + 1 ELSE db[p]]
    BY Zenon, <1>1 DEF EnqueueForAllServers
  <2>3. db' \in Versions /\ \A p \in Parts : db'[p] = db[p] \/ db'[p] = db[p] + 1
    BY ONLY SMT, <1>0, <2>2 DEF Versions
  <2>4. Insert(Present \union raced, db') /\ UNCHANGED <<hosts, handler>>
    BY Zenon, <1>1 DEF EnqueueForAllServers
  <2> QED BY Zenon, <2>1, <2>3, <2>4, InsertKeepsFileInv
<1>2. ASSUME NEW s \in Servers, ForceSync(s) \/ MarkServerRunningAndEnqueue(s)
      PROVE  FileInv'
  <2>1. Insert({s}, db') /\ db' = db /\ UNCHANGED <<hosts, handler>>
    BY Zenon, <1>2 DEF ForceSync, MarkServerRunningAndEnqueue
  <2>2. {s} \in SUBSET Servers /\ db' \in Versions /\ \A p \in Parts : db'[p] = db[p]
    BY Zenon, <1>0, <2>1
  <2> QED BY Zenon, <2>1, <2>2, InsertKeepsFileInv
<1> QED BY Zenon, <1>1, <1>2 DEF Produce

\* The handlers other than h notice nothing.
Others(h) ==
  \A g \in Handlers \ {h} :
    /\ pc'[g] = pc[g] /\ srv'[g] = srv[g] /\ ent'[g] = ent[g]
    /\ unread'[g] = unread[g] /\ snap'[g] = snap[g]

LEMMA FinishEnds ==
  ASSUME QueueInv, NEW h \in Handlers, Finish(h)
  PROVE  Others(h) /\ pc'[h] \notin Locked /\ snap'[h] = Stale
<1>1. pc'[h] = "idle" /\ snap'[h] = Stale
  BY Zenon, Shapes DEF Finish
<1>2. Others(h)
  BY Zenon, Shapes DEF Finish, Others
<1> QED BY ONLY Zenon, <1>1, <1>2 DEF Locked

\* What the ends of a delivery have in common.
LEMMA RetryKeepsFileInv ==
  ASSUME QueueInv, FileInv, NEW h \in Handlers, pc[h] # "idle", Retry(h), UNCHANGED lateWrites,
         \/ file' = file
         \/ h # "drift" /\ Compared(h) /\ file' = [file EXCEPT ![srv[h]] = snap[h]]
  PROVE  FileInv'
<1>1. UNCHANGED <<db, enqueues, need>> /\ Finish(h)
  BY Zenon DEF Retry
<1>2. \A r \in RowIds : Delivered(r)' <=> Delivered(r)
  <2>1. outcome' = outcome \/ (~Applied(Own(h)) /\ outcome' = [outcome EXCEPT ![Own(h)] = "failed"])
    BY Zenon DEF Retry, MarkFailed, Own
  <2>2. DOMAIN outcome = RowIds
    BY Zenon, Shapes
  <2>3. ~Applied(Own(h)) => ~Delivered(Own(h))
    BY ONLY Zenon DEF Applied, AppliedOutcomes, Delivered
  <2> QED BY ONLY Zenon, <2>1, <2>2, <2>3 DEF Delivered
<1>3. Others(h) /\ pc'[h] \notin Locked /\ snap'[h] = Stale
  BY Zenon, <1>1, FinishEnds
<1>4. CASE file' = file
  BY Zenon, <1>1, <1>2, <1>3, <1>4, QuietKeepsFileInv DEF Others
<1>5. CASE h # "drift" /\ Compared(h) /\ file' = [file EXCEPT ![srv[h]] = snap[h]]
  BY Zenon, <1>1, <1>2, <1>3, <1>5, WriteKeepsFileInv DEF Others
<1> QED BY Zenon, <1>4, <1>5

LEMMA DeliveryKeepsFileInv ==
  ASSUME "late_write" \notin Enabled, QueueInv, FileInv,
         NEW h \in Handlers, DeliveryStep(h) \/ DeliveryFault(h)
  PROVE  FileInv'
<1> DEFINE Tables == UNCHANGED <<db, enqueues, need, outcome, lateWrites>>
<1>0. DOMAIN pc = Handlers /\ DOMAIN file = Servers /\ Busy(h)
  BY Zenon, Shapes
<1>1. Tables => \A r \in RowIds : Delivered(r)' <=> Delivered(r)
  BY ONLY Zenon DEF Delivered
<1>2. ASSUME UNCHANGED <<srv, ent, unread, snap>>, NEW q, pc' = [pc EXCEPT ![h] = q] PROVE Others(h)
  BY ONLY Zenon, <1>0, <1>2 DEF Others
<1>3. ASSUME Tables, file' = file, Finish(h) PROVE FileInv'
  <2>1. Others(h) /\ pc'[h] \notin Locked /\ snap'[h] = Stale
    BY Zenon, <1>3, FinishEnds
  <2> QED BY Zenon, <1>1, <1>3, <2>1, QuietKeepsFileInv DEF Others
<1>4. ASSUME Tables, file' = [file EXCEPT ![srv[h]] = snap[h]], h # "drift", Compared(h),
             UNCHANGED <<srv, ent, unread, snap>>, NEW q, pc' = [pc EXCEPT ![h] = q]
      PROVE  FileInv'
  <2>1. Others(h)
    BY ONLY Zenon, <1>2, <1>4
  <2> QED BY Zenon, <1>1, <1>4, <2>1, WriteKeepsFileInv DEF Others
<1>5. CASE SkipWrite(h)
  <2>1. Tables /\ file' = file
    BY Zenon, <1>5 DEF SkipWrite, tables, hosts
  <2>2. CASE h = "drift"
    BY Zenon, <1>3, <1>5, <2>1, <2>2 DEF SkipWrite
  <2>3. CASE h # "drift"
    <3>1. /\ UNCHANGED <<srv, ent, unread, snap>> /\ Compared(h) /\ file[srv[h]] = snap[h]
          /\ pc' = [pc EXCEPT ![h] = "state"]
      BY Zenon, <1>5, <2>3 DEF SkipWrite, NeedsWrite
    <3>2. file' = [file EXCEPT ![srv[h]] = snap[h]]
      <4>1. file \in [Servers -> Versions]
        BY Zenon, Shapes DEF Sorted, HostTypes
      <4> QED BY ONLY SMT, <2>1, <3>1, <4>1
    <3> QED BY ONLY Zenon, <1>4, <2>1, <2>3, <3>1, <3>2
  <2> QED BY ONLY Zenon, <2>2, <2>3
<1>6. CASE FileAtomicWrite(h)
  <2>1. /\ Tables /\ UNCHANGED <<srv, ent, unread, snap>> /\ Compared(h) /\ h # "drift"
        /\ file' = [file EXCEPT ![srv[h]] = snap[h]] /\ pc' = [pc EXCEPT ![h] = "wrote"]
    BY Zenon, <1>6 DEF FileAtomicWrite, NeedsWrite, tables
  <2> QED BY ONLY Zenon, <1>4, <2>1
<1>7. CASE PublishInSync(h) \/ ReadFirstState(h) \/ ReloadConfirmed(h) \/ ReadFinalState(h)
  <2>1. Tables /\ UNCHANGED <<file, srv, ent, unread, snap>>
    BY Zenon, <1>7 DEF PublishInSync, ReadFirstState, ReloadConfirmed, ReadFinalState, tables, hosts
  <2>2. /\ pc[h] \in Locked \ {"snapshot"}
        /\ \E q \in Locked \ {"snapshot"} : pc' = [pc EXCEPT ![h] = q]
    BY Zenon, <1>7 DEF PublishInSync, ReadFirstState, ReloadConfirmed, ReadFinalState, Locked
  <2>3. Others(h) /\ {pc[h], pc'[h]} \subseteq Locked \ {"snapshot"}
    <3>1. PICK q \in Locked \ {"snapshot"} : pc' = [pc EXCEPT ![h] = q]
      BY ONLY Zenon, <2>2
    <3>2. pc'[h] = q
      BY ONLY Zenon, <1>0, <3>1, h \in Handlers
    <3> QED BY ONLY Zenon, <1>2, <2>1, <2>2, <3>1, <3>2
  <2>4. \A g \in Handlers :
          /\ pc'[g] = pc[g] \/ {pc[g], pc'[g]} \subseteq Locked \ {"snapshot"}
          /\ srv'[g] = srv[g] /\ ent'[g] = ent[g] /\ unread'[g] = unread[g] /\ snap'[g] = snap[g]
    BY ONLY Zenon, <2>1, <2>3 DEF Others
  <2>5. UNCHANGED <<file, db, need, lateWrites, enqueues>> /\ \A r \in RowIds : Delivered(r)' <=> Delivered(r)
    BY ONLY Zenon, <1>1, <2>1
  <2> QED BY ONLY Zenon, QueueInv, FileInv, <2>4, <2>5, QuietKeepsFileInv
<1>8. CASE AcknowledgeAndDelete(h) \/ HandlerThrows(h)
  <2>1. Tables /\ file' = file /\ Finish(h)
    BY Zenon, <1>8 DEF AcknowledgeAndDelete, HandlerThrows, tables, hosts
  <2> QED BY ONLY Zenon, <1>3, <2>1
<1>9. CASE FileReadFails(h) \/ FileWriteFails(h) \/ ReloadFails(h)
  BY Zenon, <1>9, RetryKeepsFileInv
     DEF FileReadFails, FileWriteFails, ReloadFails, Compared, NeedsWrite, hosts
<1>10. ~FileWriteTimesOut(h)
  BY Zenon DEF FileWriteTimesOut, Spend
<1>11. CASE \E p \in Parts : Snapshot(h, p)
  BY Zenon, <1>11, SnapshotKeepsFileInv
<1>12. CASE MarkApplied(h)
  BY Zenon, <1>12, MarkKeepsFileInv
<1> QED BY Zenon, <1>5, <1>6, <1>7, <1>8, <1>9, <1>10, <1>11, <1>12 DEF DeliveryStep, DeliveryFault

\* A handler that takes an entry, or the drift sweep a server, has read nothing yet.
LEMMA AcquireKeepsFileInv ==
  ASSUME QueueInv, FileInv, NEW h \in Handlers,
         UNCHANGED <<db, enqueues, need, outcome, lateWrites, file, snap>>,
         \E s : srv' = [srv EXCEPT ![h] = s],
         ent' = ent \/ \E e : ent' = [ent EXCEPT ![h] = e],
         \/ pc' = [pc EXCEPT ![h] = "ack"] /\ UNCHANGED unread
         \/ pc' = [pc EXCEPT ![h] = "snapshot"] /\ unread' = [unread EXCEPT ![h] = Parts]
  PROVE  FileInv'
<1>0. /\ DOMAIN pc = Handlers /\ DOMAIN srv = Handlers /\ DOMAIN ent = Handlers
      /\ DOMAIN unread = Handlers /\ DOMAIN snap = Handlers
  BY Zenon, Shapes
<1>1. Others(h) /\ snap'[h] = snap[h]
  BY Zenon, <1>0 DEF Others
<1>2. pc'[h] = "ack" \/ (pc'[h] = "snapshot" /\ unread'[h] = Parts)
  BY Zenon, <1>0
<1>3. "ack" \notin Locked
  BY ONLY Zenon DEF Locked
<1>4. \A g \in Handlers :
        \/ pc'[g] \notin Locked /\ (snap'[g] = Stale \/ snap'[g] = snap[g])
        \/ pc'[g] = "snapshot" /\ unread'[g] = Parts /\ snap'[g] = snap[g]
        \/ /\ pc'[g] = pc[g] \/ {pc[g], pc'[g]} \subseteq Locked \ {"snapshot"}
           /\ srv'[g] = srv[g] /\ ent'[g] = ent[g] /\ unread'[g] = unread[g] /\ snap'[g] = snap[g]
  BY ONLY Zenon, <1>1, <1>2, <1>3 DEF Others
<1>5. UNCHANGED <<file, db, need, lateWrites, enqueues>> /\ \A r \in RowIds : Delivered(r)' <=> Delivered(r)
  BY Zenon DEF Delivered
<1> QED BY ONLY Zenon, QueueInv, FileInv, <1>4, <1>5, QuietKeepsFileInv

LEMMA FileNext ==
  ASSUME "late_write" \notin Enabled, QueueInv, FileInv, [Next]_vars
  PROVE  FileInv'
<1> DEFINE Tables == UNCHANGED <<db, enqueues, need, outcome, lateWrites>>
<1>1. Tables => \A r \in RowIds : Delivered(r)' <=> Delivered(r)
  BY ONLY Zenon DEF Delivered
<1>2. CASE Crash
  <2>1. Tables /\ file' = file /\ \A g \in Handlers : pc'[g] \notin Locked /\ snap'[g] = Stale
    BY Zenon, <1>2 DEF Crash, Locked, tables
  <2> QED BY Zenon, <1>1, <2>1, QuietKeepsFileInv
<1>3. ASSUME NEW s \in Servers, RemoveHost(s) \/ WriteVersion(s)
      PROVE  FileInv'
  <2>1. Tables /\ UNCHANGED handler /\ (file' = file \/ file' = [file EXCEPT ![s] = Stale])
    BY Zenon, <1>3 DEF RemoveHost, WriteVersion, tables
  <2> QED BY Zenon, <1>1, <2>1, QuietKeepsFileInv DEF handler
<1>4. ASSUME NEW h \in Handlers, Acquire(h) PROVE FileInv'
  <2>1. PICK e \in batch[h] : AcquireForEntry(h, e)
    BY ONLY Zenon, <1>4 DEF Acquire
  <2>2. UNCHANGED <<db, enqueues, need, outcome, lateWrites, file, snap>>
    BY ONLY Zenon, <2>1 DEF AcquireForEntry, tables, hosts
  <2>3. /\ srv' = [srv EXCEPT ![h] = ServerOf(e)] /\ ent' = [ent EXCEPT ![h] = e]
        /\ \/ pc' = [pc EXCEPT ![h] = "ack"] /\ UNCHANGED unread
           \/ pc' = [pc EXCEPT ![h] = "snapshot"] /\ unread' = [unread EXCEPT ![h] = Parts]
    BY ONLY Zenon, <2>1 DEF AcquireForEntry
  <2> QED BY Zenon, <2>2, <2>3, AcquireKeepsFileInv
<1>5. ASSUME NEW s \in Servers, AcquireForDrift(s) PROVE FileInv'
  <2>1. UNCHANGED <<db, enqueues, need, outcome, lateWrites, file, snap>>
    BY ONLY Zenon, <1>5 DEF AcquireForDrift, tables, hosts
  <2>2. /\ "drift" \in Handlers /\ srv' = [srv EXCEPT !["drift"] = s] /\ ent' = ent
        /\ pc' = [pc EXCEPT !["drift"] = "snapshot"] /\ unread' = [unread EXCEPT !["drift"] = Parts]
    BY ONLY Zenon, <1>5 DEF AcquireForDrift
  <2> QED BY Zenon, <2>1, <2>2, AcquireKeepsFileInv
<1>6. CASE /\ UNCHANGED <<db, enqueues, need, file, lateWrites, pc, srv, ent, unread, snap>>
           /\ \A r \in RowIds : Delivered(r)' <=> Delivered(r)
  BY Zenon, <1>6, QuietKeepsFileInv
<1>7. CASE UNCHANGED vars
  BY Zenon, <1>1, <1>6, <1>7 DEF vars, tables, hosts, handler
<1>8. lateWrites = {}
  BY Zenon DEF FileInv
<1>9. CASE Produce
  BY Zenon, <1>9, ProduceKeepsFileInv
<1>10. ASSUME NEW h \in Handlers, DeliveryStep(h) \/ DeliveryFault(h) PROVE FileInv'
  BY Zenon, <1>10, DeliveryKeepsFileInv
<1> QED BY Zenon, <1>2, <1>3, <1>4, <1>5, <1>6, <1>7, <1>8, <1>9, <1>10, FileWriters

LEMMA FileCorrect ==
  ASSUME "late_write" \notin Enabled
  PROVE  Spec => [](QueueInv /\ FileInv)
<1>1. QueueInv /\ FileInv /\ [Next]_vars => FileInv'
  BY Zenon, FileNext
<1> QED
  BY <1>1, FileInit, QueueCorrect, PTL DEF Spec

\* If no write outlives its caller, a row stored as applied is on disk, or the
\* file is somebody else's: the row is stored under the lock, after the write.
THEOREM AppliedRowsAreOnDisk ==
  ASSUME "late_write" \notin Enabled
  PROVE  Spec => []AppliedIsOnDisk
<1>1. FileInv => AppliedIsOnDisk
  BY Zenon DEF FileInv
<1> QED
  BY <1>1, FileCorrect, PTL

\* Who writes the file, and what.
LEMMA FileStep ==
  ASSUME "late_write" \notin Enabled, QueueInv, FileInv, [Next]_vars
  PROVE  \/ file' = file
         \/ \E s \in Servers : file' = [file EXCEPT ![s] = Stale]
         \/ \E h \in Handlers : h # "drift" /\ Compared(h) /\ file' = [file EXCEPT ![srv[h]] = snap[h]]
<1>1. CASE UNCHANGED vars
  BY Zenon, <1>1 DEF vars, hosts
<1>2. CASE Produce \/ Crash
  BY Zenon, <1>2 DEF Produce, EnqueueForAllServers, ForceSync, MarkServerRunningAndEnqueue, Crash, hosts
<1>3. ASSUME NEW s \in Servers, RemoveHost(s) \/ WriteVersion(s)
      PROVE  file' = file \/ file' = [file EXCEPT ![s] = Stale]
  BY Zenon, <1>3 DEF RemoveHost, WriteVersion
<1>4. ASSUME NEW s \in Servers, AcquireForDrift(s)
      PROVE  file' = file
  BY Zenon, <1>4 DEF AcquireForDrift, hosts
<1>5. ASSUME NEW h \in Handlers, Acquire(h)
      PROVE  file' = file
  BY Zenon, <1>5 DEF Acquire, AcquireForEntry, hosts
<1>6. ASSUME NEW h \in Handlers, DeliveryStep(h) \/ DeliveryFault(h)
      PROVE  file' = file \/ (h # "drift" /\ Compared(h) /\ file' = [file EXCEPT ![srv[h]] = snap[h]])
  BY Zenon, <1>6 DEF DeliveryStep, Snapshot, SkipWrite, FileAtomicWrite, PublishInSync, ReadFirstState,
     ReloadConfirmed, ReadFinalState, MarkApplied, AcknowledgeAndDelete, DeliveryFault, FileReadFails,
     FileWriteFails, FileWriteTimesOut, ReloadFails, HandlerThrows, NeedsWrite, Spend, hosts
<1> QED
  BY ZenonT(60), <1>1, <1>2, <1>3, <1>4, <1>5, <1>6, FileWriters DEF FileInv

\* If no write outlives its caller, the sync never moves a file back, however
\* the reader, the reclaim pass and crashes interleave.
THEOREM FilesNeverGoBack ==
  ASSUME "late_write" \notin Enabled
  PROVE  Spec => FileNeverGoesBack
<1> DEFINE A == \A s \in Servers : file'[s] = Stale \/ \A p \in Parts : file'[s][p] >= file[s][p]
<1>1. QueueInv /\ FileInv /\ [Next]_vars => [A]_vars
  <2> SUFFICES ASSUME QueueInv, FileInv, [Next]_vars, NEW s \in Servers, file'[s] # Stale, NEW p \in Parts
               PROVE  file'[s][p] >= file[s][p]
    BY Zenon
  <2>0. DOMAIN file = Servers /\ (\A h \in Handlers : Busy(h)) /\ SnapshotIsNewest
    BY Zenon, Shapes DEF FileInv
  <2>1. CASE file'[s] = file[s]
    BY Zenon, <2>1, Numbers, StaleIsLeast
  <2>2. ASSUME NEW h \in Handlers, Compared(h), file' = [file EXCEPT ![srv[h]] = snap[h]], s = srv[h]
        PROVE  file'[s][p] >= file[s][p]
    <3>1. pc[h] \in Locked /\ unread[h] = {} /\ file'[s] = snap[h]
      BY Zenon, <2>0, <2>2 DEF Compared, Locked
    <3> QED BY Zenon, <2>0, <2>2, <3>1 DEF SnapshotIsNewest
  <2>3. ASSUME NEW t, NEW v, t # s, file' = [file EXCEPT ![t] = v] PROVE file'[s] = file[s]
    BY Zenon, <2>0, <2>3
  <2>4. ASSUME NEW t \in Servers, file' = [file EXCEPT ![t] = Stale] PROVE file'[s] = file[s]
    BY Zenon, <2>0, <2>3, <2>4
  <2> QED BY Zenon, <2>1, <2>2, <2>3, <2>4, FileStep
<1> QED
  BY <1>1, FileCorrect, PTL DEF Spec, FileNeverGoesBack
=============================================================================
