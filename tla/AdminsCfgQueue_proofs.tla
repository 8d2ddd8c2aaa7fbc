------------------------ MODULE AdminsCfgQueue_proofs ------------------------
(***************************************************************************)
(* The outbox rows and their stream entries: an applied row stays applied, *)
(* a deleted server's rows are closed, nothing is published after its      *)
(* teardown, and no published row is stranded.                             *)
(***************************************************************************)
EXTENDS AdminsCfgSync_proofs

\* A handler has decided on an outcome exactly while it is about to store it,
\* and acknowledges only entries whose row is applied.
VerdictInv ==
  /\ \A h \in Handlers :
       /\ verdict[h] # "pending" <=> pc[h] = "mark"
       /\ verdict[h] = "server_removed" => Deleted(srv[h])
       /\ pc[h] = "ack" => Applied(Own(h))
  /\ \A r \in RowIds : outcome[r] = "server_removed" => Deleted(r[1])

\* The entry's row has been closed if its server is deleted.
Closed(e) == Deleted(ServerOf(e)) => RowOf(e) \in relayed

\* Rows of a deleted server: closed by the deletion, or inserted by a
\* transaction that raced it, and then unknown to Redis.
RemovalInv ==
  /\ \A r \in RowIds : Deleted(r[1]) /\ r \in relayed => Applied(r)
  /\ \A r \in RowIds : Deleted(r[1]) /\ r \notin relayed /\ Known(r) => outcome[r] = "pending"
  /\ \A e \in stream \union pel \union lateXadds : Closed(e)
  /\ \A h \in Handlers : /\ \A e \in batch[h] : Closed(e)
                         /\ pc[h] # "idle" /\ h # "drift" => Closed(ent[h])
  /\ relayPc \in {"publish", "stamp"} => ~Deleted(relayRow[1])

-----------------------------------------------------------------------------
(* Deleted servers and applied rows stay so *)

LEMMA DeletedStays ==
  ASSUME Sorted, [Next]_vars
  PROVE  \A t \in Servers : /\ Deleted(t) => Deleted(t)'
                            /\ Deleted(t)' => Deleted(t) \/ RemoveRow(t)
<1>0. DOMAIN removal = Servers
  BY ONLY Zenon, Sorted DEF Sorted, ServerTypes
<1>1. CASE UNCHANGED removal
  BY ONLY Zenon, <1>1 DEF Deleted
<1>2. ASSUME NEW s \in Servers, RemoveHost(s) \/ RemoveRow(s) \/ RemoveQueue(s) \/ RemoveQueueFails(s),
             NEW t \in Servers
      PROVE  /\ Deleted(t) => Deleted(t)'
             /\ Deleted(t)' => Deleted(t) \/ RemoveRow(t)
  <2>1. CASE t = s
    BY ONLY Zenon, <1>0, <1>2, <2>1 DEF Deleted, RemoveHost, RemoveRow, RemoveQueue, RemoveQueueFails
  <2>2. CASE t # s
    <3>1. removal'[t] = removal[t]
      BY ONLY Zenon, <1>0, <1>2, <2>2 DEF RemoveHost, RemoveRow, RemoveQueue, RemoveQueueFails
    <3> QED BY ONLY Zenon, <3>1 DEF Deleted
  <2> QED BY ONLY Zenon, <2>1, <2>2
<1>3. CASE Remove
  BY ONLY Zenon, <1>2, <1>3 DEF Remove
<1>4. CASE UNCHANGED vars
  BY ONLY Zenon, <1>1, <1>4 DEF vars
<1> QED BY Zenon, <1>1, <1>3, <1>4, Writers

\* What a step may do to the outcomes: insert pending rows, close rows of a
\* deleted server, or store one handler's result.
Unknown(T) == {<<t, enqueues + 1>> : t \in T}
InsertOutcomes(T) ==
  outcome' = [r \in RowIds |-> IF r \in Unknown(T) THEN "pending" ELSE outcome[r]]
SetOutcome(q, o) == outcome' = outcome \/ (~Applied(q) /\ outcome' = [outcome EXCEPT ![q] = o])

LEMMA OutcomeSteps ==
  ASSUME Sorted, RowsExist, [Next]_vars
  PROVE  \/ UNCHANGED outcome
         \/ \E T : InsertOutcomes(T) /\ UNCHANGED <<relayed, removal>>
         \/ \E q \in RowIds : RelayCancel(q)
         \/ \E s \in Servers : RemoveRow(s)
         \/ \E h \in Handlers :
              /\ pc[h] # "idle" /\ h # "drift" /\ UNCHANGED <<relayed, removal>>
              /\ \/ pc[h] = "mark" /\ SetOutcome(Own(h), verdict[h])
                 \/ SetOutcome(Own(h), "failed")
<1>1. CASE UNCHANGED vars
  BY ONLY Zenon, <1>1 DEF vars, tables
<1>2. CASE Produce
  <2>1. PICK T, v : Insert(T, v)
    BY ONLY Zenon, <1>2, ProduceInserts
  <2>2. InsertOutcomes(T) /\ UNCHANGED relayed
    BY ONLY Zenon, <2>1 DEF Insert, InsertOutcomes, Unknown
  <2>3. UNCHANGED removal
    BY ONLY Zenon, <1>2 DEF Produce, EnqueueForAllServers, ForceSync, MarkServerRunningAndEnqueue
  <2> QED BY ONLY Zenon, <2>2, <2>3
<1>3. ASSUME NEW h \in Handlers, MarkApplied(h)
      PROVE  /\ pc[h] = "mark" /\ h # "drift" /\ UNCHANGED <<relayed, removal>>
             /\ SetOutcome(Own(h), verdict[h])
  <2>1. h # "drift"
    BY ONLY Zenon, Sorted, <1>3 DEF Sorted, Busy, MarkApplied
  <2> QED BY ONLY Zenon, <1>3, <2>1 DEF MarkApplied, SetOutcome, Own
<1>4. ASSUME NEW h \in Handlers, DeliveryFault(h)
      PROVE  \/ UNCHANGED outcome
             \/ pc[h] # "idle" /\ h # "drift" /\ UNCHANGED <<relayed, removal>> /\ SetOutcome(Own(h), "failed")
  <2>1. UNCHANGED <<relayed, removal>>
    BY ONLY Zenon, <1>4 DEF DeliveryFault, FileReadFails, FileWriteFails, FileWriteTimesOut, ReloadFails,
                            HandlerThrows, Retry, tables
  <2> QED BY ONLY Zenon, <1>4, <2>1, FaultOutcome DEF MarkFailed, SetOutcome
<1> QED BY Zenon, <1>1, <1>2, <1>3, <1>4, Writers

LEMMA KnownIsOld ==
  ASSUME Numbered, enqueues \in 0..MaxEnqueues, NEW r \in RowIds, Known(r), NEW T
  PROVE  r \notin Unknown(T)
<1>1. r[2] <= enqueues
  BY Zenon DEF Numbered
<1>2. \A t \in T : <<t, enqueues + 1>>[2] = enqueues + 1
  BY ONLY Zenon
<1>3. ASSUME r \in Unknown(T) PROVE r[2] = enqueues + 1
  BY ONLY Zenon, <1>2, <1>3 DEF Unknown
<1> QED BY ONLY SMT, <1>1, <1>3, enqueues \in 0..MaxEnqueues, BoundsAssumption

\* A row that is applied stays applied, whatever its outcome.
LEMMA AppliedStays ==
  ASSUME Sorted, RowsExist, [Next]_vars
  PROVE  \A r \in RowIds : Applied(r) => Applied(r)'
<1>0. outcome \in [RowIds -> Outcomes] /\ enqueues \in 0..MaxEnqueues /\ Numbered
  BY ONLY Zenon, Sorted, RowsExist, SortRows DEF Sorted, TableTypes
<1> SUFFICES ASSUME NEW r \in RowIds, Applied(r) PROVE Applied(r)'
  BY Zenon
<1>1. ASSUME NEW T, InsertOutcomes(T) PROVE Applied(r)'
  <2>1. Known(r)
    BY Zenon DEF Known, Applied, AppliedOutcomes
  <2>2. r \notin Unknown(T)
    BY Zenon, <1>0, <2>1, KnownIsOld
  <2>3. outcome'[r] = outcome[r]
    BY Zenon, <1>1, <2>2 DEF InsertOutcomes
  <2> QED BY Zenon, <2>3 DEF Applied
<1>2. ASSUME NEW q \in RowIds, RelayCancel(q) PROVE Applied(r)'
  BY Zenon, <1>0, <1>2 DEF RelayCancel, Applied, AppliedOutcomes
<1>3. ASSUME NEW s \in Servers, RemoveRow(s) PROVE Applied(r)'
  BY Zenon, <1>3 DEF RemoveRow, Applied, AppliedOutcomes
<1>4. ASSUME NEW q, NEW o, SetOutcome(q, o) PROVE Applied(r)'
  BY Zenon, <1>0, <1>4 DEF SetOutcome, Applied
<1>5. CASE UNCHANGED outcome
  BY Zenon, <1>5 DEF Applied
<1> QED BY Zenon, <1>1, <1>2, <1>3, <1>4, <1>5, OutcomeSteps

-----------------------------------------------------------------------------
(* Verdicts *)

\* The parts of VerdictInv.
Verdict(h) ==
  /\ verdict[h] # "pending" <=> pc[h] = "mark"
  /\ verdict[h] = "server_removed" => Deleted(srv[h])
  /\ pc[h] = "ack" => Applied(Own(h))
RemovedGone == \A r \in RowIds : outcome[r] = "server_removed" => Deleted(r[1])

LEMMA SortVerdicts == VerdictInv <=> (\A h \in Handlers : Verdict(h)) /\ RemovedGone
BY ONLY Zenon DEF VerdictInv, Verdict, RemovedGone

LEMMA VerdictInit == Init => VerdictInv
<1> SUFFICES ASSUME Init PROVE VerdictInv
  BY Zenon
<1>1. RemovedGone
  BY Zenon DEF Init, RemovedGone
<1>2. \A h \in Handlers : Verdict(h)
  BY Zenon DEF Init, Verdict
<1> QED BY ONLY Zenon, <1>1, <1>2, SortVerdicts

\* Only a row of a deleted server is closed without a sync.
LEMMA RemovedStay ==
  ASSUME Sorted, RowsExist, VerdictInv, [Next]_vars
  PROVE  RemovedGone'
<1>0. DOMAIN outcome = RowIds /\ RemovedGone /\ \A h \in Handlers : Verdict(h)
  BY ONLY Zenon, Sorted, VerdictInv, SortVerdicts DEF Sorted, TableTypes
<1> SUFFICES ASSUME NEW r \in RowIds, outcome'[r] = "server_removed" PROVE Deleted(r[1])'
  BY Zenon DEF RemovedGone
<1>1. r[1] \in Servers
  BY ONLY Zenon, r \in RowIds, RowFacts
<1>2. CASE Deleted(r[1])
  BY Zenon, <1>1, <1>2, DeletedStays
<1>3. CASE outcome[r] = "server_removed"
  BY ONLY Zenon, <1>0, <1>2, <1>3, r \in RowIds DEF RemovedGone
<1>4. ASSUME NEW T, InsertOutcomes(T) PROVE outcome[r] = "server_removed"
  BY Zenon, <1>4 DEF InsertOutcomes
<1>5. ASSUME NEW q \in RowIds, RelayCancel(q) PROVE outcome[r] = "server_removed" \/ Deleted(r[1])
  BY Zenon, <1>0, <1>5 DEF RelayCancel
<1>6. ASSUME NEW s \in Servers, RemoveRow(s) PROVE outcome[r] = "server_removed" \/ Deleted(r[1])'
  <2>1. outcome[r] = "server_removed" \/ r[1] = s
    BY Zenon, <1>6 DEF RemoveRow
  <2>2. removal'[s] = "db"
    BY ONLY Zenon, Sorted, <1>6 DEF Sorted, ServerTypes, RemoveRow
  <2> QED BY ONLY Zenon, <2>1, <2>2 DEF Deleted
<1>7. ASSUME NEW h \in Handlers, pc[h] # "idle", h # "drift",
             (pc[h] = "mark" /\ SetOutcome(Own(h), verdict[h])) \/ SetOutcome(Own(h), "failed")
      PROVE  outcome[r] = "server_removed" \/ Deleted(r[1])
  <2>1. outcome[r] = "server_removed" \/ (r = Own(h) /\ verdict[h] = "server_removed")
    BY Zenon, <1>0, <1>7 DEF SetOutcome
  <2>2. Own(h)[1] = srv[h]
    BY Zenon, <1>7, OwnFacts
  <2> QED BY ONLY Zenon, <1>0, <2>1, <2>2, h \in Handlers DEF Verdict
<1>8. CASE UNCHANGED outcome
  BY ONLY Zenon, <1>3, <1>8, outcome'[r] = "server_removed"
<1> QED BY Zenon, <1>2, <1>3, <1>4, <1>5, <1>6, <1>7, <1>8, OutcomeSteps

\* A handler that the step does not touch keeps its verdict, and one that has
\* decided nothing and acknowledges nothing needs none.
Quiet(h) == verdict'[h] = verdict[h] /\ pc'[h] = pc[h] /\ srv'[h] = srv[h] /\ ent'[h] = ent[h]
Undecided(h) == verdict'[h] = "pending" /\ pc'[h] \notin {"mark", "ack"}

LEMMA VerdictKept ==
  ASSUME Sorted, RowsExist, VerdictInv, [Next]_vars, NEW h \in Handlers, Quiet(h) \/ Undecided(h)
  PROVE  Verdict(h)'
<1>1. CASE Undecided(h)
  BY ONLY Zenon, <1>1 DEF Undecided, Verdict
<1>2. CASE Quiet(h)
  <2>1. Verdict(h) /\ \A t \in Servers : Deleted(t) => Deleted(t)'
    BY Zenon, SortVerdicts, DeletedStays
  <2>2. \A r \in RowIds : Applied(r) => Applied(r)'
    BY Zenon, AppliedStays
  <2>3. pc[h] \in {"mark", "ack"} => Own(h) \in RowIds /\ srv[h] \in Servers
    <3>1. pc[h] \in {"mark", "ack"} => h # "drift"
      BY ONLY Zenon, Sorted, h \in Handlers DEF Sorted, Busy
    <3> QED BY Zenon, <3>1, OwnFacts
  <2>4. Own(h)' = Own(h)
    BY ONLY Zenon, <1>2 DEF Own, Quiet
  <2>5. verdict[h] = "server_removed" => Deleted(srv[h])'
    BY ONLY Zenon, <2>1, <2>3, <1>2 DEF Verdict, Deleted, Quiet
  <2>6. pc[h] = "ack" => Applied(Own(h))'
    <3>1. ASSUME pc[h] = "ack" PROVE Applied(Own(h))'
      <4> DEFINE q == Own(h)
      <4>1. q \in RowIds /\ Applied(q)
        BY ONLY Zenon, <2>1, <2>3, <3>1 DEF Verdict
      <4> QED BY ONLY Zenon, <2>2, <2>4, <4>1 DEF Applied
    <3> QED BY ONLY Zenon, <3>1
  <2> QED BY ONLY Zenon, <1>2, <2>1, <2>5, <2>6 DEF Verdict, Quiet
<1> QED BY ONLY Zenon, <1>1, <1>2, Quiet(h) \/ Undecided(h)

\* A delivery decides in ReadFirstState and ReadFinalState, and has stored what
\* it decided when it goes on to acknowledge.
LEMMA StepVerdict ==
  ASSUME Sorted, RowsExist, VerdictInv, [Next]_vars, NEW h \in Handlers, DeliveryStep(h)
  PROVE  \A g \in Handlers : Quiet(g) \/ Undecided(g) \/ Verdict(g)'
<1>0. DOMAIN verdict = Handlers /\ DOMAIN pc = Handlers /\ DOMAIN srv = Handlers /\ DOMAIN ent = Handlers
  BY ONLY Zenon, Sorted DEF Sorted, HandlerTypes
<1>1. verdict[h] # "pending" <=> pc[h] = "mark"
  BY Zenon, SortVerdicts DEF Verdict
<1>2. ASSUME NEW g \in Handlers, g # h PROVE Quiet(g)
  BY Zenon, <1>0, <1>2 DEF DeliveryStep, Snapshot, SkipWrite, FileAtomicWrite, PublishInSync, ReadFirstState,
     ReloadConfirmed, ReadFinalState, MarkApplied, AcknowledgeAndDelete, Finish, Quiet
<1>3. ASSUME Finish(h) PROVE Undecided(h)
  BY ONLY Zenon, <1>0, <1>3, h \in Handlers DEF Finish, Undecided
<1>4. ASSUME UNCHANGED verdict, pc[h] # "mark", NEW q, q \notin {"mark", "ack"}, pc' = [pc EXCEPT ![h] = q]
      PROVE  Undecided(h)
  BY ONLY Zenon, <1>0, <1>1, <1>4, h \in Handlers DEF Undecided
<1>5. ASSUME NEW p \in Parts, Snapshot(h, p) PROVE Quiet(h)
  BY ONLY Zenon, <1>5 DEF Snapshot, Quiet
<1>6. ASSUME SkipWrite(h) \/ FileAtomicWrite(h) \/ PublishInSync(h) \/ ReloadConfirmed(h) \/ AcknowledgeAndDelete(h)
      PROVE  Undecided(h)
  <2>1. CASE SkipWrite(h)
    BY ONLY Zenon, <1>3, <1>4, <2>1 DEF SkipWrite, Compared
  <2>2. CASE FileAtomicWrite(h)
    BY ONLY Zenon, <1>4, <2>2 DEF FileAtomicWrite, Compared
  <2>3. CASE PublishInSync(h) \/ ReloadConfirmed(h)
    BY ONLY Zenon, <1>4, <2>3 DEF PublishInSync, ReloadConfirmed
  <2>4. CASE AcknowledgeAndDelete(h)
    BY ONLY Zenon, <1>3, <2>4 DEF AcknowledgeAndDelete
  <2> QED BY ONLY Zenon, <1>6, <2>1, <2>2, <2>3, <2>4
<1>7. ASSUME NEW v \in AppliedOutcomes, v = "server_removed" => Deleted(srv[h]), UNCHANGED <<srv, removal>>,
             pc' = [pc EXCEPT ![h] = "mark"], verdict' = [verdict EXCEPT ![h] = v]
      PROVE  Verdict(h)'
  <2>1. pc'[h] = "mark" /\ verdict'[h] = v /\ v # "pending"
    BY ONLY Zenon, <1>0, <1>7, h \in Handlers DEF AppliedOutcomes
  <2> QED BY ONLY Zenon, <1>7, <2>1 DEF Verdict, Deleted
<1>8. ASSUME ReadFirstState(h) PROVE Undecided(h) \/ Verdict(h)'
  <2>1. "server_removed" \in AppliedOutcomes
    BY ONLY Zenon DEF AppliedOutcomes
  <2>2. CASE Deleted(srv[h])
    BY ONLY Zenon, <1>7, <1>8, <2>1, <2>2 DEF ReadFirstState
  <2>3. CASE ~Deleted(srv[h])
    BY ONLY Zenon, <1>4, <1>8, <2>3 DEF ReadFirstState
  <2> QED BY ONLY Zenon, <2>2, <2>3
<1>9. ASSUME ReadFinalState(h) PROVE Undecided(h) \/ Verdict(h)'
  <2> DEFINE v == IF Deleted(srv[h]) THEN "server_removed"
                  ELSE IF srv[h] \in live THEN "confirmed" ELSE "file_ready_for_restart"
  <2>1. v \in AppliedOutcomes /\ (v = "server_removed" => Deleted(srv[h]))
    BY ONLY Zenon DEF AppliedOutcomes
  <2>2. /\ pc[h] # "mark" /\ UNCHANGED <<srv, removal>>
        /\ \/ UNCHANGED verdict /\ pc' = [pc EXCEPT ![h] = "reload"]
           \/ pc' = [pc EXCEPT ![h] = "mark"] /\ verdict' = [verdict EXCEPT ![h] = v]
    BY ONLY Zenon, <1>9 DEF ReadFinalState
  <2> HIDE DEF v
  <2> QED BY ONLY Zenon, <1>4, <1>7, <2>1, <2>2
<1>10. ASSUME MarkApplied(h) PROVE Undecided(h) \/ Verdict(h)'
  <2>1. pc'[h] = "ack" /\ verdict'[h] = "pending" /\ Own(h)' = Own(h)
    BY ONLY Zenon, <1>0, <1>10, h \in Handlers DEF MarkApplied, Own
  <2>2. pc[h] = "mark" /\ h # "drift"
    BY ONLY Zenon, Sorted, <1>10, h \in Handlers DEF Sorted, Busy, MarkApplied
  <2>3. Own(h) \in RowIds
    BY Zenon, <2>2, OwnFacts
  <2>4. verdict[h] \in AppliedOutcomes /\ outcome \in [RowIds -> Outcomes]
    BY ONLY Zenon, Sorted, <1>1, <2>2, h \in Handlers DEF Sorted, HandlerTypes, TableTypes
  <2>5. outcome'[Own(h)] \in AppliedOutcomes
    BY ONLY Zenon, <1>10, <2>3, <2>4 DEF MarkApplied, Own, Applied
  <2> QED BY ONLY Zenon, <2>1, <2>5 DEF Verdict, Applied
<1>11. Quiet(h) \/ Undecided(h) \/ Verdict(h)'
  BY Zenon, <1>5, <1>6, <1>8, <1>9, <1>10 DEF DeliveryStep
<1> QED BY ONLY Zenon, <1>2, <1>11

LEMMA VerdictNext == TypeOK /\ Working /\ RowsExist /\ VerdictInv /\ [Next]_vars => VerdictInv'
<1> SUFFICES ASSUME TypeOK, Working, RowsExist, VerdictInv, [Next]_vars
             PROVE  VerdictInv'
  BY Zenon
<1> DEFINE Goal == \A g \in Handlers : Quiet(g) \/ Undecided(g) \/ Verdict(g)'
<1>0. Sorted
  BY Zenon, SortTypes
<1>1. /\ DOMAIN verdict = Handlers /\ DOMAIN pc = Handlers /\ DOMAIN srv = Handlers /\ DOMAIN ent = Handlers
      /\ DOMAIN batch = Handlers
  BY ONLY Zenon, <1>0 DEF Sorted, HandlerTypes
<1>2. \A h \in Handlers : Verdict(h)
  BY Zenon, SortVerdicts
<1>3. ASSUME UNCHANGED handler PROVE Goal
  BY ONLY Zenon, <1>3 DEF Quiet, handler
<1>4. ASSUME Read PROVE Goal
  BY ONLY Zenon, <1>3, <1>4 DEF Read, ProcessStreamEvents, ReadNoGroup, ReadNoGroupDone, Quiet
<1>5. ASSUME NEW s \in Servers, ReclaimPendingMessages(s) PROVE Goal
  BY ONLY Zenon, <1>5 DEF ReclaimPendingMessages, Quiet
<1>6. ASSUME NEW s \in Servers, AcquireForDrift(s) PROVE Goal
  <2>1. \A g \in Handlers : g # "drift" => Quiet(g)
    BY ONLY Zenon, <1>1, <1>6 DEF AcquireForDrift, Quiet
  <2>2. verdict["drift"] = "pending" /\ "drift" \in Handlers
    BY ONLY Zenon, <1>2, <1>6 DEF AcquireForDrift, Verdict
  <2>3. Undecided("drift")
    BY ONLY Zenon, <1>1, <1>6, <2>2 DEF AcquireForDrift, Undecided
  <2> QED BY ONLY Zenon, <2>1, <2>3
<1>7. ASSUME NEW h \in Handlers, NEW e \in batch[h], AcquireForEntry(h, e) PROVE Goal
  <2>1. \A g \in Handlers : g # h => Quiet(g)
    BY ONLY Zenon, <1>1, <1>7 DEF AcquireForEntry, Quiet
  <2>2. verdict'[h] = "pending" /\ ent'[h] = e /\ pc'[h] # "mark"
    BY ONLY Zenon, <1>1, <1>2, <1>7 DEF AcquireForEntry, Verdict
  <2>3. pc'[h] = "ack" => Applied(RowOf(e)) /\ UNCHANGED outcome
    BY ONLY Zenon, <1>1, <1>7 DEF AcquireForEntry, tables
  <2>4. Verdict(h)'
    BY ONLY Zenon, <2>2, <2>3 DEF Verdict, Own, Applied
  <2> QED BY ONLY Zenon, <2>1, <2>4
<1>8. ASSUME NEW h \in Handlers, DeliveryStep(h) PROVE Goal
  BY Zenon, <1>0, <1>8, StepVerdict
<1>9. ASSUME NEW h \in Handlers, DeliveryFault(h) PROVE Goal
  <2>1. Finish(h)
    BY ONLY Zenon, <1>9 DEF DeliveryFault, FileReadFails, FileWriteFails, FileWriteTimesOut, ReloadFails,
       HandlerThrows, Retry
  <2>2. \A g \in Handlers : IF g = h THEN Undecided(g) ELSE Quiet(g)
    BY ONLY Zenon, <1>1, <2>1, h \in Handlers DEF Finish, Quiet, Undecided
  <2> QED BY ONLY Zenon, <2>2
<1>10. ASSUME Crash PROVE Goal
  BY ONLY Zenon, <1>10 DEF Crash, Undecided
<1>11. ASSUME UNCHANGED vars PROVE Goal
  BY ONLY Zenon, <1>3, <1>11 DEF vars
<1>12. Goal
  BY Zenon, <1>3, <1>4, <1>5, <1>6, <1>7, <1>8, <1>9, <1>10, <1>11, Writers DEF Acquire
<1>13. \A h \in Handlers : Verdict(h)'
  BY Zenon, <1>0, <1>12, VerdictKept
<1>14. RemovedGone'
  BY Zenon, <1>0, RemovedStay
<1>15. VerdictInv' <=> (\A h \in Handlers : Verdict(h))' /\ RemovedGone'
  BY SortVerdicts, PTL
<1> QED BY ONLY Zenon, <1>13, <1>14, <1>15

-----------------------------------------------------------------------------
(* Rows of a deleted server *)

\* The parts of RemovalInv.
ClosedApplied == \A r \in RowIds : Deleted(r[1]) /\ r \in relayed => Applied(r)
RacedPending == \A r \in RowIds : Deleted(r[1]) /\ r \notin relayed /\ Known(r) => outcome[r] = "pending"
QueueClosed ==
  /\ \A e \in stream : Closed(e)
  /\ \A e \in pel : Closed(e)
  /\ \A e \in lateXadds : Closed(e)
WorkClosed(h) ==
  /\ \A e \in batch[h] : Closed(e)
  /\ pc[h] # "idle" /\ h # "drift" => Closed(ent[h])
RelayOpen == relayPc \in {"publish", "stamp"} => ~Deleted(relayRow[1])

LEMMA SortRemoval ==
  RemovalInv <=>
    ClosedApplied /\ RacedPending /\ QueueClosed /\ (\A h \in Handlers : WorkClosed(h)) /\ RelayOpen
<1>1. QueueClosed <=> \A e \in stream \union pel \union lateXadds : Closed(e)
  BY ONLY Zenon DEF QueueClosed
<1> QED BY ONLY Zenon, <1>1 DEF RemovalInv, ClosedApplied, RacedPending, WorkClosed, RelayOpen

LEMMA RemovalInit == Init => RemovalInv
<1> SUFFICES ASSUME Init PROVE RemovalInv
  BY Zenon
<1>1. ClosedApplied /\ RacedPending /\ QueueClosed /\ RelayOpen
  BY Zenon DEF Init, ClosedApplied, RacedPending, QueueClosed, RelayOpen, Known
<1>2. \A h \in Handlers : WorkClosed(h)
  BY Zenon DEF Init, WorkClosed
<1> QED BY ONLY Zenon, <1>1, <1>2, SortRemoval

\* A row is stamped by the relay or closed with its server.
LEMMA StampSteps ==
  ASSUME [Next]_vars
  PROVE  \/ UNCHANGED relayed
         \/ RelayStamp
         \/ \E q \in RowIds : RelayCancel(q)
         \/ \E s \in Servers : RemoveRow(s)
<1>1. ASSUME RelayStep PROVE UNCHANGED relayed \/ RelayStamp \/ \E q \in RowIds : RelayCancel(q)
  BY ONLY Zenon, <1>1 DEF RelayStep, RelayRun, RelayDrained, RelayXadd, RelayClaim, tables
<1>2. ASSUME Remove PROVE UNCHANGED relayed \/ \E s \in Servers : RemoveRow(s)
  BY ONLY Zenon, <1>2 DEF Remove, RemoveHost, RemoveQueue, RemoveQueueFails, tables
<1> QED BY Zenon, <1>1, <1>2, Writers DEF vars, tables

LEMMA RelayedStays == ASSUME [Next]_vars PROVE relayed \subseteq relayed'
BY Zenon, StampSteps DEF RelayStamp, RelayCancel, RemoveRow

\* A deletion closes every row there is.
LEMMA DeletionCloses ==
  ASSUME Sorted, [Next]_vars
  PROVE  \A r \in RowIds : Deleted(r[1])' /\ ~Deleted(r[1]) /\ Known(r) => r \in relayed' /\ Applied(r)'
<1> SUFFICES ASSUME NEW r \in RowIds, Deleted(r[1])', ~Deleted(r[1]), Known(r)
             PROVE  r \in relayed' /\ Applied(r)'
  BY Zenon
<1>1. RemoveRow(r[1])
  BY Zenon, DeletedStays, RowFacts
<1>2. outcome[r] \in {"pending", "failed"} \union AppliedOutcomes
  BY ONLY Zenon, Sorted, r \in RowIds, Known(r) DEF Sorted, TableTypes, Outcomes, Known
<1>3. r \in relayed'
  BY Zenon, <1>1 DEF RemoveRow, Known
<1>4. outcome'[r] \in AppliedOutcomes
  BY ONLY Zenon, <1>1, <1>2, r \in RowIds DEF RemoveRow, AppliedOutcomes
<1> QED BY ONLY Zenon, <1>3, <1>4 DEF Applied

LEMMA ClosedStays ==
  ASSUME Sorted, [Next]_vars
  PROVE  \A e \in Entries : Known(RowOf(e)) /\ Closed(e) => Closed(e)'
<1> SUFFICES ASSUME NEW e \in Entries, Known(RowOf(e)), Closed(e), Deleted(ServerOf(e))'
             PROVE  RowOf(e) \in relayed'
  BY Zenon DEF Closed
<1>1. RowOf(e) \in RowIds /\ RowOf(e)[1] = ServerOf(e)
  BY Zenon, EntryFacts
<1>2. CASE Deleted(ServerOf(e))
  BY Zenon, <1>2, RelayedStays DEF Closed
<1>3. CASE ~Deleted(ServerOf(e))
  BY Zenon, <1>1, <1>3, DeletionCloses DEF Deleted
<1> QED BY ONLY Zenon, <1>2, <1>3

LEMMA ClosedApplies ==
  ASSUME Sorted, RowsExist, VerdictInv, RemovalInv, [Next]_vars
  PROVE  ClosedApplied'
<1>0. ClosedApplied /\ RelayOpen /\ RelayedKnown
  BY ONLY Zenon, RemovalInv, RowsExist, SortRemoval, SortRows
<1>1. relayed \subseteq RowIds /\ relayed' \subseteq RowIds
  <2>1. relayed \subseteq RowIds
    BY ONLY Zenon, Sorted DEF Sorted, TableTypes
  <2>2. relayed' \subseteq RowIds
    BY Zenon, <2>1, StampSteps DEF RelayStamp, RelayCancel, RemoveRow, Sorted, RelayTypes
  <2> QED BY ONLY Zenon, <2>1, <2>2
<1> SUFFICES ASSUME NEW r \in RowIds, Deleted(r[1])', r \in relayed' PROVE Applied(r)'
  BY Zenon DEF ClosedApplied
<1>2. ASSUME Known(r), ~Deleted(r[1]) PROVE Applied(r)'
  BY Zenon, <1>2, DeletionCloses
<1>3. CASE r \in relayed
  <2>1. Known(r)
    BY ONLY Zenon, <1>0, <1>3 DEF RelayedKnown
  <2>2. Deleted(r[1]) => Applied(r)
    BY ONLY Zenon, <1>0, <1>3, r \in RowIds DEF ClosedApplied
  <2> QED BY Zenon, <1>2, <2>1, <2>2, AppliedStays
<1>4. CASE RelayStamp /\ r \notin relayed
  <2>1. r = relayRow /\ relayPc = "stamp" /\ UNCHANGED removal
    BY Zenon, <1>4 DEF RelayStamp
  <2>2. ~Deleted(r[1])
    BY ONLY Zenon, <1>0, <2>1 DEF RelayOpen
  <2> QED BY Zenon, <2>1, <2>2 DEF Deleted
<1>5. ASSUME NEW q \in RowIds, RelayCancel(q), r \notin relayed PROVE Applied(r)'
  <2>1. r = q /\ outcome' = [outcome EXCEPT ![q] = "server_removed"]
    BY Zenon, <1>5 DEF RelayCancel
  <2>2. outcome'[r] = "server_removed"
    BY ONLY Zenon, Sorted, <2>1, r \in RowIds DEF Sorted, TableTypes
  <2> QED BY ONLY Zenon, <2>2 DEF Applied, AppliedOutcomes
<1>6. ASSUME NEW s \in Servers, RemoveRow(s), r \notin relayed PROVE Applied(r)'
  <2>1. r[1] = s /\ Known(r) /\ removal[s] = "host"
    BY Zenon, <1>6 DEF RemoveRow, Known
  <2>2. ~Deleted(r[1])
    BY ONLY Zenon, <2>1 DEF Deleted
  <2> QED BY ONLY Zenon, <1>2, <2>1, <2>2
<1> QED BY Zenon, <1>3, <1>4, <1>5, <1>6, StampSteps

\* No handler has an entry of a row that raced a deletion, so nothing but the
\* relay closes it.
LEMMA RacedStays ==
  ASSUME Sorted, RowsExist, VerdictInv, RemovalInv, [Next]_vars
  PROVE  RacedPending'
<1>0. /\ RacedPending /\ \A h \in Handlers : WorkClosed(h)
      /\ DOMAIN outcome = RowIds
  BY ONLY Zenon, Sorted, RemovalInv, SortRemoval DEF Sorted, TableTypes
<1> SUFFICES ASSUME NEW r \in RowIds, Deleted(r[1])', r \notin relayed', Known(r)'
             PROVE  outcome'[r] = "pending"
  BY Zenon DEF RacedPending
<1>1. r \notin relayed
  BY Zenon, RelayedStays
<1>2. Known(r) => Deleted(r[1]) /\ outcome[r] = "pending"
  BY Zenon, <1>0, <1>1, DeletionCloses DEF RacedPending
<1>3. ASSUME outcome'[r] = outcome[r] PROVE outcome'[r] = "pending"
  BY Zenon, <1>2, <1>3 DEF Known
<1>4. ASSUME NEW T, InsertOutcomes(T) PROVE outcome'[r] = "pending"
  BY Zenon, <1>3, <1>4 DEF InsertOutcomes
<1>5. ASSUME NEW q \in RowIds, RelayCancel(q) PROVE outcome'[r] = "pending"
  BY Zenon, <1>0, <1>3, <1>5 DEF RelayCancel
<1>6. ASSUME NEW s \in Servers, RemoveRow(s) PROVE outcome'[r] = "pending"
  BY Zenon, <1>3, <1>6 DEF RemoveRow, Known
<1>7. ASSUME NEW h \in Handlers, pc[h] # "idle", h # "drift", NEW o, SetOutcome(Own(h), o)
      PROVE  outcome'[r] = "pending"
  <2>1. Known(Own(h)) /\ Own(h)[1] = srv[h] /\ ent[h] \in Entries
    BY Zenon, <1>7, OwnFacts
  <2>2. Deleted(Own(h)[1]) => Own(h) \in relayed
    <3>1. Closed(ent[h])
      BY ONLY Zenon, <1>0, <1>7, h \in Handlers DEF WorkClosed
    <3>2. Own(h)[1] = ServerOf(ent[h])
      BY ONLY Zenon, <2>1, EntryFacts DEF Own
    <3> QED BY ONLY Zenon, <3>1, <3>2 DEF Closed, Own
  <2>3. r # Own(h)
    BY ONLY Zenon, <1>1, <1>2, <2>1, <2>2
  <2>4. outcome'[r] = outcome[r]
    BY Zenon, <1>0, <1>7, <2>3 DEF SetOutcome
  <2> QED BY ONLY Zenon, <1>3, <2>4
<1> QED BY Zenon, <1>3, <1>4, <1>5, <1>6, <1>7, OutcomeSteps

\* RemoveRow waits for the relay's row lock and closes every row there is; the
\* relay publishes only rows of servers that are not deleted.
LEMMA RemovalNext == TypeOK /\ Working /\ RowsExist /\ VerdictInv /\ RemovalInv /\ [Next]_vars => RemovalInv'
<1> SUFFICES ASSUME TypeOK, Working, RowsExist, VerdictInv, RemovalInv, [Next]_vars
             PROVE  RemovalInv'
  BY Zenon
<1>0. Sorted
  BY Zenon, SortTypes
<1>1. ClosedApplied /\ RacedPending /\ QueueClosed /\ (\A h \in Handlers : WorkClosed(h)) /\ RelayOpen
  BY ONLY Zenon, RemovalInv, SortRemoval
<1>2. QueueKnown /\ (\A h \in Handlers : WorkKnown(h)) /\ RelayKnown
  BY ONLY Zenon, RowsExist, SortRows
<1>3. ASSUME NEW e \in Entries, Known(RowOf(e)), Closed(e) PROVE Closed(e)'
  BY Zenon, <1>0, <1>3, ClosedStays
<1>4. \A e \in stream \union pel \union lateXadds \union XaddsInFlight : Closed(e)'
  <2>1. ASSUME NEW e \in XaddsInFlight PROVE e \in Entries /\ Known(RowOf(e)) /\ Closed(e)
    <3>1. relayPc = "publish" /\ e = NextEntry
      BY ONLY Zenon, e \in XaddsInFlight DEF XaddsInFlight
    <3>2. e \in Entries
      BY ONLY Zenon, <1>0, <3>1, NextEntryFacts DEF Sorted
    <3>3. RowOf(NextEntry) = relayRow /\ ServerOf(NextEntry) = relayRow[1]
      BY ONLY Zenon DEF RowOf, ServerOf, NextEntry
    <3> QED BY ONLY Zenon, <1>1, <1>2, <3>1, <3>2, <3>3 DEF RelayKnown, RelayOpen, Closed
  <2>2. \A e \in stream \union pel \union lateXadds : e \in Entries /\ Known(RowOf(e)) /\ Closed(e)
    BY ONLY Zenon, <1>0, <1>1, <1>2 DEF Sorted, QueueTypes, QueueKnown, QueueClosed
  <2> QED BY ONLY Zenon, <1>3, <2>1, <2>2
<1>5. QueueClosed'
  BY Zenon, <1>4, EntryFlow DEF QueueClosed
<1>6. ASSUME NEW h \in Handlers PROVE WorkClosed(h)'
  <2>1. Flow(h) /\ WorkKnown(h) /\ WorkClosed(h) /\ batch[h] \subseteq Entries
    BY Zenon, <1>0, <1>1, <1>2, WorkFlow DEF Sorted, HandlerTypes
  <2>2. \A e \in batch[h] : Closed(e)'
    BY ONLY Zenon, <1>3, <2>1 DEF WorkKnown, WorkClosed
  <2>3. \A e \in batch'[h] : Closed(e)'
    BY ONLY Zenon, <1>4, <2>1, <2>2 DEF Flow
  <2>4. ASSUME pc'[h] # "idle", h # "drift" PROVE Closed(ent[h])'
    <3>1. CASE pc[h] # "idle" /\ ent'[h] = ent[h]
      <4>1. ent[h] \in Entries /\ Known(RowOf(ent[h])) /\ Closed(ent[h])
        BY Zenon, <1>0, <2>1, <2>4, <3>1, OwnFacts DEF Own, WorkClosed
      <4>2. PICK e \in Entries : e = ent[h]
        BY ONLY Zenon, <4>1
      <4>3. Closed(e)'
        BY ONLY Zenon, <1>3, <4>1, <4>2
      <4> QED BY ONLY Zenon, <3>1, <4>2, <4>3 DEF Closed
    <3>2. CASE ent'[h] \in batch[h]
      <4>1. PICK e \in batch[h] : e = ent'[h]
        BY ONLY Zenon, <3>2
      <4>2. Closed(e)'
        BY ONLY Zenon, <2>2, <4>1
      <4> QED BY ONLY Zenon, <4>1, <4>2 DEF Closed
    <3> QED BY ONLY Zenon, <2>1, <2>4, <3>1, <3>2 DEF Flow
  <2> QED BY Zenon, <2>3, <2>4 DEF WorkClosed
<1>7. RelayOpen'
  <2> SUFFICES ASSUME relayPc' \in {"publish", "stamp"} PROVE ~Deleted(relayRow[1])'
    BY Zenon DEF RelayOpen
  <2>1. CASE relayPc \in {"publish", "stamp"} /\ relayRow' = relayRow
    <3>1. relayRow \in RowIds /\ relayRow[1] \in Servers /\ ~Deleted(relayRow[1])
      BY ONLY Zenon, <1>0, <1>1, <2>1, RowFacts DEF Sorted, RelayTypes, RelayOpen
    <3>2. ~RemoveRow(relayRow[1])
      BY ONLY Zenon, <2>1, <3>1 DEF RemoveRow, RowLocked
    <3>3. PICK t \in Servers : t = relayRow[1]
      BY ONLY Zenon, <3>1
    <3>4. ~Deleted(t)'
      BY Zenon, <1>0, <3>1, <3>2, <3>3, DeletedStays
    <3> QED BY ONLY Zenon, <2>1, <3>3, <3>4 DEF Deleted
  <2>2. ASSUME NEW r \in RowIds, RelayClaim(r), relayRow' = r PROVE ~Deleted(relayRow[1])'
    BY ONLY Zenon, <2>2 DEF RelayClaim, Deleted
  <2> QED BY Zenon, <2>1, <2>2, RelayFlow
<1>8. ClosedApplied' /\ RacedPending'
  BY Zenon, <1>0, ClosedApplies, RacedStays
<1>9. RemovalInv' <=>
        ClosedApplied' /\ RacedPending' /\ QueueClosed' /\ (\A h \in Handlers : WorkClosed(h))' /\ RelayOpen'
  BY SortRemoval, PTL
<1> QED BY ONLY Zenon, <1>5, <1>6, <1>7, <1>8, <1>9

\* The rows, their entries and the verdicts on them, in every state.
QueueInv == TypeOK /\ Working /\ RowsExist /\ VerdictInv /\ RemovalInv

LEMMA QueueCorrect == Spec => []QueueInv
<1>1. Init => QueueInv
  BY Zenon, TypeInit, RowsInit, VerdictInit, RemovalInit DEF QueueInv
<1>2. QueueInv /\ [Next]_vars => QueueInv'
  BY Zenon, TypeNext, RowsNext, VerdictNext, RemovalNext DEF QueueInv
<1> QED
  BY <1>1, <1>2, PTL DEF Spec

-----------------------------------------------------------------------------
(* An applied row keeps its outcome *)

\* The steps that write outcomes; all others leave them alone.
LEMMA OutcomeWriters ==
  ASSUME Next
  PROVE  \/ UNCHANGED outcome
         \/ Produce /\ \E T \in SUBSET Servers, v \in {db, db'} : Insert(T, v)
         \/ \E r \in RowIds : RelayCancel(r)
         \/ \E s \in Servers : RemoveRow(s)
         \/ \E h \in Handlers :
              \/ MarkApplied(h)
              \/ h # "drift" /\ pc[h] # "idle" /\ MarkFailed(RowOf(ent[h]))
<1>1. ASSUME NEW h \in Handlers, DeliveryFault(h)
      PROVE  UNCHANGED outcome \/ (h # "drift" /\ pc[h] # "idle" /\ MarkFailed(RowOf(ent[h])))
  BY ONLY Zenon, <1>1, FaultOutcome DEF Own
<1> QED BY Zenon, <1>1, Writers, ProduceInserts

\* A step leaves applied rows alone.
LEMMA AppliedStep ==
  ASSUME QueueInv, [Next]_vars
  PROVE  \A r \in RowIds : Applied(r) => outcome'[r] = outcome[r]
<1>0. Sorted /\ RowsExist /\ RacedPending
  BY Zenon, SortTypes, SortRemoval DEF QueueInv
<1>1. DOMAIN outcome = RowIds /\ enqueues \in 0..MaxEnqueues /\ Numbered
  BY ONLY Zenon, <1>0, SortRows DEF Sorted, TableTypes
<1> SUFFICES ASSUME NEW r \in RowIds, Applied(r) PROVE outcome'[r] = outcome[r]
  BY Zenon
<1>2. Known(r) /\ outcome[r] \notin {"pending", "failed"}
  BY Zenon DEF Known, Applied, AppliedOutcomes
<1>3. ASSUME NEW T, InsertOutcomes(T) PROVE outcome'[r] = outcome[r]
  <2>1. r \notin Unknown(T)
    BY Zenon, <1>1, <1>2, KnownIsOld
  <2> QED BY Zenon, <1>3, <2>1 DEF InsertOutcomes
<1>4. ASSUME NEW q \in RowIds, RelayCancel(q) PROVE outcome'[r] = outcome[r]
  <2>1. Deleted(q[1]) /\ q \notin relayed /\ Known(q) /\ outcome' = [outcome EXCEPT ![q] = "server_removed"]
    BY ONLY Zenon, <1>4 DEF RelayCancel, Oldest, Candidates, Known
  <2>2. outcome[q] = "pending"
    BY ONLY Zenon, <1>0, <1>4, <2>1 DEF RacedPending
  <2> QED BY Zenon, <1>1, <1>2, <2>1, <2>2
<1>5. ASSUME NEW s \in Servers, RemoveRow(s) PROVE outcome'[r] = outcome[r]
  BY Zenon, <1>2, <1>5 DEF RemoveRow
<1>6. ASSUME NEW q, NEW o, SetOutcome(q, o) PROVE outcome'[r] = outcome[r]
  BY Zenon, <1>1, <1>6 DEF SetOutcome
<1> QED BY Zenon, <1>0, <1>3, <1>4, <1>5, <1>6, OutcomeSteps

\* An applied row keeps its outcome through replays, late failures, a crash
\* between the commit and the acknowledgement, and the deletion of its server.
THEOREM AppliedStaysApplied == Spec => AppliedIsFinal
<1>1. QueueInv /\ [Next]_vars => [\A r \in RowIds : Applied(r) => outcome'[r] = outcome[r]]_vars
  BY Zenon, AppliedStep
<1> QED
  BY <1>1, QueueCorrect, PTL DEF Spec, AppliedIsFinal

-----------------------------------------------------------------------------
(* The streams *)

\* The steps that publish, delete and stamp; all others leave these alone.
LEMMA StreamWriters ==
  ASSUME Next
  PROVE  \/ UNCHANGED <<stream, lateXadds, removal, relayed, relayPc, relayRow>>
         \/ RelayStep \/ RelayFault \/ Remove \/ RedisLosesData \/ Crash
         \/ \E h \in Handlers : AcknowledgeAndDelete(h)
<1>1. ASSUME Refresh \/ Read PROVE UNCHANGED <<stream, lateXadds>>
  BY ONLY Zenon, <1>1 DEF Refresh, RefreshTimer, RefreshTimerDone, Read, ProcessStreamEvents, ReadNoGroup,
     ReadNoGroupDone, queue
<1>2. \/ UNCHANGED <<removal, relayed, relayVars>> /\ UNCHANGED <<stream, lateXadds>>
      \/ RelayStep \/ RelayFault \/ Remove \/ RedisLosesData \/ Crash
      \/ \E h \in Handlers : AcknowledgeAndDelete(h)
  BY Zenon, <1>1, Writers DEF queue
<1> QED BY ONLY Zenon, <1>2 DEF relayVars

\* If no XADD outlives its caller, a stream that was torn down stays empty: the
\* relay holds the row lock while it publishes, the deletion waits for it.
THEOREM TornDownStaysEmpty ==
  ASSUME "late_xadd" \notin Enabled
  PROVE  Spec => []NothingPublishedAfterTeardown
<1> DEFINE Inv == lateXadds = {} /\ NothingPublishedAfterTeardown
<1>1. Init => Inv
  BY Zenon DEF Init, NothingPublishedAfterTeardown
<1>2. QueueInv /\ Inv /\ [Next]_vars => Inv'
  <2> SUFFICES ASSUME QueueInv, Inv, [Next]_vars
               PROVE  Inv'
    BY Zenon
  <2>0. /\ lateXadds = {} /\ RelayOpen /\ stream \subseteq Entries /\ DOMAIN removal = Servers
        /\ \A e \in stream : ServerOf(e) \in Servers /\ removal[ServerOf(e)] # "done"
    <3>1. Sorted /\ RelayOpen
      BY Zenon, SortTypes, SortRemoval DEF QueueInv
    <3> QED BY Zenon, <3>1, EntryFacts DEF Sorted, QueueTypes, ServerTypes, NothingPublishedAfterTeardown
  <2> HIDE DEF Inv
  <2>a. ASSUME lateXadds' = {}, \A e \in stream' : removal'[ServerOf(e)] # "done" PROVE Inv'
    BY ONLY Zenon, <2>a DEF Inv, NothingPublishedAfterTeardown
  <2>1. ASSUME UNCHANGED lateXadds, UNCHANGED removal, stream' \subseteq stream PROVE Inv'
    BY ONLY Zenon, <2>0, <2>1, <2>a
  <2>2. CASE RelayXadd
    <3>1. relayPc = "publish" /\ stream' = stream \union {NextEntry} /\ UNCHANGED <<lateXadds, removal>>
      BY ONLY Zenon, <2>2 DEF RelayXadd
    <3>2. ServerOf(NextEntry) = relayRow[1] /\ ~Deleted(relayRow[1])
      BY ONLY Zenon, <2>0, <3>1 DEF RelayOpen, ServerOf, NextEntry
    <3>3. removal[ServerOf(NextEntry)] # "done"
      BY ONLY Zenon, <3>2 DEF Deleted
    <3> QED BY ONLY Zenon, <2>0, <2>a, <3>1, <3>3
  <2>3. CASE RelayStep
    BY ONLY Zenon, <2>1, <2>2, <2>3 DEF RelayStep, RelayRun, RelayDrained, RelayStamp, RelayCancel, RelayClaim, queue
  <2>4. CASE RelayFault
    <3>1. ~RelayXaddTimesOut /\ \A e \in lateXadds : ~LateXaddLands(e)
      BY Zenon, <2>0 DEF RelayXaddTimesOut, Spend
    <3>2. UNCHANGED <<queue, removal>>
      BY ONLY Zenon, <2>4, <3>1 DEF RelayFault, RelayXaddRefused, RelayReplyLost, RelayGiveUp
    <3> QED BY ONLY Zenon, <2>1, <3>2 DEF queue
  <2>5. ASSUME NEW s \in Servers, RemoveHost(s) \/ RemoveRow(s) \/ RemoveQueueFails(s) PROVE Inv'
    <3>1. UNCHANGED lateXadds /\ stream' \subseteq stream
      BY ONLY Zenon, <2>5 DEF RemoveHost, RemoveRow, RemoveQueueFails, queue
    <3>2. \A t \in Servers : removal'[t] = "done" => removal[t] = "done"
      BY ONLY Zenon, <2>0, <2>5 DEF RemoveHost, RemoveRow, RemoveQueueFails
    <3> QED BY ONLY Zenon, <2>0, <2>a, <3>1, <3>2
  <2>6. ASSUME NEW s \in Servers, RemoveQueue(s) PROVE Inv'
    <3>1. UNCHANGED lateXadds /\ stream' = {e \in stream : ServerOf(e) # s}
      BY ONLY Zenon, <2>6 DEF RemoveQueue
    <3>2. \A t \in Servers : t # s => removal'[t] = removal[t]
      BY ONLY Zenon, <2>0, <2>6 DEF RemoveQueue
    <3> QED BY ONLY Zenon, <2>0, <2>a, <3>1, <3>2
  <2>7. CASE RedisLosesData \/ Crash
    <3>1. UNCHANGED <<lateXadds, removal>> /\ stream' \subseteq stream
      BY Zenon, <2>7 DEF RedisLosesData, Crash
    <3> QED BY ONLY Zenon, <2>1, <3>1
  <2>8. ASSUME NEW h \in Handlers, AcknowledgeAndDelete(h) PROVE Inv'
    BY ONLY Zenon, <2>1, <2>8 DEF AcknowledgeAndDelete
  <2>9. CASE UNCHANGED <<stream, lateXadds, removal>>
    BY ONLY Zenon, <2>1, <2>9
  <2>10. CASE Remove
    BY ONLY Zenon, <2>5, <2>6, <2>10 DEF Remove
  <2> QED BY Zenon, <2>3, <2>4, <2>7, <2>8, <2>9, <2>10, StreamWriters DEF vars, queue
<1>3. Inv => NothingPublishedAfterTeardown
  OBVIOUS
<1> QED
  BY <1>1, <1>2, <1>3, QueueCorrect, PTL DEF Spec

\* The row has an entry in the stream.
HasEntry(r) == \E e \in stream : RowOf(e) = r

\* What the relay has published is there until it is applied.
PublishedInv ==
  /\ relayPc = "stamp" => Applied(relayRow) \/ HasEntry(relayRow)
  /\ NoStrandedRow

\* If Redis keeps its data, an entry leaves its stream only when its row is
\* applied: an acknowledgement deletes only entries of applied rows, a teardown
\* only entries of rows the deletion has closed.
LEMMA EntriesStay ==
  ASSUME "loss" \notin Enabled, QueueInv, [Next]_vars
  PROVE  \A r \in RowIds : HasEntry(r) => HasEntry(r)' \/ Applied(r)
<1>0. Sorted /\ ClosedApplied /\ QueueClosed /\ \A h \in Handlers : Verdict(h)
  BY Zenon, SortTypes, SortRemoval, SortVerdicts DEF QueueInv
<1> SUFFICES ASSUME NEW e \in stream, ~Applied(RowOf(e)) PROVE e \in stream'
  BY Zenon DEF HasEntry
<1>1. ASSUME stream \subseteq stream' PROVE e \in stream'
  BY Zenon, <1>1
<1>2. CASE RelayStep \/ RelayFault
  BY Zenon, <1>1, <1>2 DEF RelayStep, RelayRun, RelayDrained, RelayXadd, RelayStamp, RelayCancel, RelayClaim,
     RelayFault, RelayXaddRefused, RelayXaddTimesOut, RelayReplyLost, LateXaddLands, queue
<1>3. ASSUME NEW s \in Servers, RemoveQueue(s) \/ RemoveQueueFails(s) PROVE e \in stream'
  <2>1. Deleted(s) /\ (ServerOf(e) # s => e \in stream')
    BY Zenon, <1>3 DEF RemoveQueue, RemoveQueueFails, Deleted
  <2>2. e \in Entries /\ Closed(e)
    BY Zenon, <1>0 DEF Sorted, QueueTypes, QueueClosed
  <2>3. ~Deleted(ServerOf(e))
    BY Zenon, <1>0, <2>2, EntryFacts DEF Closed, ClosedApplied
  <2> QED BY ONLY Zenon, <2>1, <2>3
<1>4. CASE Remove
  BY ONLY Zenon, <1>1, <1>3, <1>4 DEF Remove, RemoveHost, RemoveRow, queue
<1>5. ASSUME NEW h \in Handlers, AcknowledgeAndDelete(h) PROVE e \in stream'
  <2>1. Applied(Own(h)) /\ stream' = stream \ {ent[h]}
    BY ONLY Zenon, <1>0, <1>5 DEF AcknowledgeAndDelete, Verdict
  <2> QED BY Zenon, <2>1 DEF Own
<1>6. CASE Crash
  BY ONLY Zenon, <1>1, <1>6 DEF Crash
<1>7. ~RedisLosesData
  BY Zenon DEF RedisLosesData, Spend
<1>8. CASE UNCHANGED stream
  BY ONLY Zenon, <1>1, <1>8
<1> QED BY Zenon, <1>2, <1>4, <1>5, <1>6, <1>7, <1>8, StreamWriters DEF vars, queue

\* If Redis keeps its data, a published row that is not applied yet has an
\* entry: no failed XADD is stamped, and an entry stays until its row is applied.
THEOREM NoRowIsStranded ==
  ASSUME "loss" \notin Enabled
  PROVE  Spec => []NoStrandedRow
<1>1. Init => PublishedInv
  BY Zenon DEF Init, PublishedInv, NoStrandedRow
<1>2. QueueInv /\ PublishedInv /\ [Next]_vars => PublishedInv'
  <2> SUFFICES ASSUME QueueInv, PublishedInv, [Next]_vars
               PROVE  PublishedInv'
    BY Zenon
  <2>0. Sorted /\ RowsExist /\ RelayedKnown
    BY Zenon, SortTypes, SortRows DEF QueueInv
  <2>1. /\ \A r \in RowIds : Applied(r) => Applied(r)'
        /\ \A r \in RowIds : HasEntry(r) => HasEntry(r)' \/ Applied(r)
    BY Zenon, <2>0, AppliedStays, EntriesStay
  <2>2. \A r \in RowIds : Known(r) /\ ~Applied(r) => outcome[r] \in {"pending", "failed"}
    BY ONLY Zenon, <2>0 DEF Sorted, TableTypes, Outcomes, Known, Applied
  <2>3. relayPc = "stamp" => relayRow \in RowIds /\ (Applied(relayRow) \/ HasEntry(relayRow))
    BY Zenon, <2>0 DEF Sorted, RelayTypes, PublishedInv
  <2>4. ASSUME relayPc' = "stamp" PROVE Applied(relayRow)' \/ HasEntry(relayRow)'
    <3>1. CASE RelayXadd
      <4>1. RowOf(NextEntry) = relayRow
        BY ONLY Zenon DEF NextEntry, RowOf
      <4>2. NextEntry \in stream' /\ relayRow' = relayRow
        BY ONLY Zenon, <3>1 DEF RelayXadd
      <4>3. \E e \in stream' : RowOf(e) = relayRow'
        BY ONLY Zenon, <4>1, <4>2
      <4> QED BY ONLY Zenon, <4>3 DEF HasEntry
    <3>2. CASE relayPc = "stamp" /\ relayRow' = relayRow
      <4>1. PICK r \in RowIds : r = relayRow /\ (Applied(r) \/ HasEntry(r))
        BY ONLY Zenon, <2>3, <3>2
      <4>2. Applied(r)' \/ HasEntry(r)'
        BY ONLY Zenon, <2>1, <4>1
      <4> QED BY ONLY Zenon, <3>2, <4>1, <4>2 DEF Applied, HasEntry
    <3>3. RelayXadd \/ (relayPc = "stamp" /\ relayRow' = relayRow)
      <4>1. ASSUME RelayStep PROVE RelayXadd \/ UNCHANGED <<relayPc, relayRow>>
        BY ONLY Zenon, <2>4, <4>1 DEF RelayStep, RelayRun, RelayDrained, RelayStamp, RelayCancel, RelayClaim
      <4>2. ASSUME RelayFault PROVE UNCHANGED <<relayPc, relayRow>>
        BY ONLY Zenon, <2>4, <4>2 DEF RelayFault, RelayXaddRefused, RelayXaddTimesOut, RelayReplyLost, RelayGiveUp,
           LateXaddLands, relayVars
      <4>3. ~Crash
        BY ONLY Zenon, <2>4 DEF Crash
      <4> QED BY Zenon, <2>4, <4>1, <4>2, <4>3, Writers DEF vars, relayVars
    <3> QED BY ONLY Zenon, <3>1, <3>2, <3>3
  <2>5. ASSUME NEW r \in RowIds, outcome'[r] \in {"pending", "failed"}, r \in relayed' PROVE HasEntry(r)'
    <3>1. ~Applied(r)
      BY Zenon, <2>1, <2>5 DEF Applied, AppliedOutcomes
    <3>2. ASSUME HasEntry(r) PROVE HasEntry(r)'
      BY ONLY Zenon, <2>1, <3>1, <3>2, r \in RowIds
    <3>3. CASE r \in relayed
      <4>1. outcome[r] \in {"pending", "failed"}
        BY ONLY Zenon, <2>0, <2>2, <3>1, <3>3, r \in RowIds DEF RelayedKnown
      <4>2. HasEntry(r)
        BY ONLY Zenon, PublishedInv, <3>3, <4>1, r \in RowIds DEF PublishedInv, NoStrandedRow, HasEntry
      <4> QED BY ONLY Zenon, <3>2, <4>2
    <3>4. ASSUME RelayStamp, r \notin relayed PROVE HasEntry(r)'
      <4>1. r = relayRow /\ relayPc = "stamp"
        BY Zenon, <2>5, <3>4 DEF RelayStamp
      <4> QED BY ONLY Zenon, <2>3, <3>1, <3>2, <4>1
    <3>5. ASSUME NEW q \in RowIds, RelayCancel(q) PROVE r \in relayed
      <4>1. outcome' = [outcome EXCEPT ![q] = "server_removed"] /\ relayed' = relayed \union {q}
        BY ONLY Zenon, <3>5 DEF RelayCancel
      <4>2. outcome'[q] = "server_removed"
        BY ONLY Zenon, <2>0, <4>1, q \in RowIds DEF Sorted, TableTypes
      <4> QED BY Zenon, <2>5, <4>1, <4>2
    <3>6. ASSUME NEW s \in Servers, RemoveRow(s) PROVE r \in relayed
      BY Zenon, <2>5, <3>6 DEF RemoveRow
    <3> QED BY Zenon, <2>5, <3>3, <3>4, <3>5, <3>6, StampSteps
  <2> QED BY Zenon, <2>4, <2>5 DEF PublishedInv, NoStrandedRow, HasEntry
<1>3. PublishedInv => NoStrandedRow
  BY Zenon DEF PublishedInv
<1> QED
  BY <1>1, <1>2, <1>3, QueueCorrect, PTL DEF Spec
=============================================================================
