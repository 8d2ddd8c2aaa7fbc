----------------------- MODULE RconCommandQueue_proofs -----------------------
(***************************************************************************)
(* What holds of the RCON command queue for any number of requests and for *)
(* any times that satisfy TimesAssumption: the types, at-most-once         *)
(* execution, the truth of "ok", that only a first delivery runs, and that *)
(* queue and callers implement RconPromise.                                *)
(*                                                                         *)
(* The invariants rest on the done marker.  It is set before the command   *)
(* runs and never taken away, so a request that has run is always marked,  *)
(* and a marked request never passes ClaimRequest again.                   *)
(***************************************************************************)
EXTENDS RconCommandQueue, TLAPS

\* The queue works on an entry exactly while it is not idle.
CurIsEntry == pc # "idle" => cur \in Entries

\* A command that has run is marked; one about to run is marked and has not run.
ClaimedBeforeRun ==
  /\ \A r \in Requests : runs[r] # 0 => r \in done
  /\ pc = "execute" => Cur \in done /\ runs[Cur] = 0
  /\ AtMostOnce

\* What a step may be about to store, and where an "ok" can come from.
OkComesFromRun ==
  /\ pc \in {"store", "storeDone"} => verdict \in {"ok", "error"}
  /\ pc \in {"refuse", "refuseDone"} => verdict \in {"stale", "expired"}
  /\ pc \in {"store", "storeDone"} /\ verdict = "ok" => runs[Cur] = 1
  /\ \A r \in Requests : result[r] = "ok" => runs[r] = 1
  /\ OkIsTrue

\* An entry is delivered after it was queued, and again only when it is stale.
DeliveredAfterQueued ==
  /\ \A r \in Requests : enqueuedAt[r] # Never => enqueuedAt[r] <= now
  /\ \A e \in fresh : enqueuedAt[Request(e)] # Never
  /\ \A e \in pending : /\ enqueuedAt[Request(e)] # Never
                        /\ deliveredAt[e] # Never
                        /\ enqueuedAt[Request(e)] <= deliveredAt[e]
  /\ \A e \in redelivered : /\ enqueuedAt[Request(e)] # Never
                            /\ Passed(enqueuedAt[Request(e)], MaxCommandAge + 1)
  /\ pc \in {"claim", "execute"} => cur \notin redelivered

-----------------------------------------------------------------------------
LEMMA EntryRequest ==
  ASSUME NEW e \in Entries
  PROVE  Request(e) \in Requests
BY Zenon DEF Entries, Request

LEMMA TypeInit == Init => TypeOK /\ CurIsEntry
BY TimesAssumption DEF Init, TypeOK, CurIsEntry, Queues, Entries, NoEntry, Never, Results

\* A step of the connection or of its queue changes nothing else but the faults.
Quiet == UNCHANGED <<now, enqueuedAt, waits, caller, streamVars, keys, worker, runs>>

LEMMA LinkSteps == Supervisor \/ Disconnect => Quiet
BY Zenon DEF Supervisor, Disconnect, Connect, StartQueue, StartQueueFails, EndConnection, Link, Quiet

LEMMA FaultsCount ==
  ASSUME faults \in 0..MaxFaults, faults' = faults \/ Fault
  PROVE  faults' \in 0..MaxFaults
<1>1. MaxFaults \in Nat
  BY Zenon, TimesAssumption
<1> QED
  BY SMT, <1>1 DEF Fault

LEMMA LinkTypes ==
  ASSUME TypeOK, Supervisor \/ Disconnect
  PROVE  faults' \in 0..MaxFaults /\ connected' \in BOOLEAN /\ queue' \in Queues
<1>1. connected' \in BOOLEAN /\ queue' \in Queues
  BY Zenon DEF TypeOK, Supervisor, Disconnect, Connect, StartQueue, StartQueueFails, EndConnection, Link,
     Queues
<1>2. faults' = faults \/ Fault
  BY Zenon DEF Supervisor, Disconnect, Connect, StartQueue, StartQueueFails, EndConnection
<1>3. faults \in 0..MaxFaults
  BY Zenon DEF TypeOK
<1>4. faults' \in 0..MaxFaults
  BY ONLY Zenon, <1>2, <1>3, FaultsCount
<1> QED
  BY Zenon, <1>1, <1>4

\* The types, and that the queue has an entry at hand whenever it needs one.
LEMMA TypeNext == TypeOK /\ CurIsEntry /\ [Next]_vars => TypeOK' /\ CurIsEntry'
<1> SUFFICES ASSUME TypeOK, CurIsEntry, [Next]_vars
             PROVE  TypeOK' /\ CurIsEntry'
  OBVIOUS
<1> USE TimesAssumption
<1>1. pc # "idle" => Cur \in Requests
  BY Zenon, EntryRequest DEF CurIsEntry, Cur
<1>2. CASE Tick
  BY <1>2 DEF Tick, link, TypeOK, CurIsEntry, streamVars, keys, worker
<1>3. ASSUME NEW r \in Requests, SendRconCommandViaWorker(r)
      PROVE  TypeOK' /\ CurIsEntry'
  BY <1>3 DEF SendRconCommandViaWorker, Xadd, Fault, link, TypeOK, CurIsEntry, keys, worker, Entries
<1>4. ASSUME NEW r \in Requests, SendRconCommandFails(r) \/ EnqueueInBackground(r)
      PROVE  TypeOK' /\ CurIsEntry'
  BY SMTT(20), <1>4 DEF SendRconCommandFails, EnqueueInBackground, Xadd, Fault, link, TypeOK, CurIsEntry, keys,
              worker, Entries
<1>5. ASSUME NEW r \in Requests, PollResult(r)
      PROVE  TypeOK' /\ CurIsEntry'
  BY <1>5 DEF PollResult, Fault, link, TypeOK, CurIsEntry, streamVars, worker, Results
<1>6. ASSUME NEW r \in Requests, PollTimeout(r)
      PROVE  TypeOK' /\ CurIsEntry'
  BY Zenon, <1>6 DEF PollTimeout, link, TypeOK, CurIsEntry, streamVars, keys, worker
<1>7. CASE ProcessOnce
  BY <1>7 DEF ProcessOnce, Deliver, Reading, Idle, link, TypeOK, CurIsEntry, keys
<1>8. CASE ReclaimPendingOnce
  BY <1>8 DEF ReclaimPendingOnce, Deliver, Reading, Idle, link, TypeOK, CurIsEntry, keys
<1>9. ASSUME NEW e \in batch, ProcessEntry(e)
      PROVE  TypeOK' /\ CurIsEntry'
  BY <1>9 DEF ProcessEntry, Outside, link, TypeOK, CurIsEntry, streamVars, keys
<1>10. CASE Lookup \/ LookupFails
  BY <1>10 DEF Lookup, LookupFails, Triage, Goto, Fault, Outside, link, TypeOK, CurIsEntry,
               streamVars, keys, Results
<1>11. CASE ClaimRequest \/ ClaimFails
  BY <1>1, <1>11 DEF ClaimRequest, ClaimFails, Goto, Throw, Abandon, Fault, Outside, link, TypeOK, CurIsEntry,
                     streamVars, Results
<1>12. CASE Execute
  BY <1>1, <1>12 DEF Execute, Goto, Outside, link, TypeOK, CurIsEntry, streamVars, keys, Results
<1>13. CASE WriteResult \/ WriteDone
  BY ZenonT(60), <1>1, <1>13 DEF WriteResult, WriteDone, Goto, Outside, link, TypeOK, CurIsEntry, streamVars, Results
<1>14. CASE WriteFails
  BY <1>1, <1>14 DEF WriteFails, Goto, Throw, Abandon, Fault, Outside, link, TypeOK, CurIsEntry, streamVars, keys,
                     Results
<1>15. CASE Xack \/ XackFails
  BY <1>15 DEF Xack, XackFails, Throw, Abandon, Fault, Outside, link, TypeOK, CurIsEntry, keys, Results
<1>16. CASE Crash
  <2>1. faults \in 0..MaxFaults /\ Fault
    BY Zenon, <1>16 DEF TypeOK, Crash
  <2>2. faults' \in 0..MaxFaults
    BY ONLY Zenon, <2>1, FaultsCount
  <2>3. runs \in [Requests -> Nat]
    BY Zenon DEF TypeOK
  <2>4. runs' = runs \/ (Cur \in Requests /\ runs' = [runs EXCEPT ![Cur] = @ + 1])
    BY Zenon, <1>1, <1>16 DEF Crash
  <2>5. runs' \in [Requests -> Nat]
    BY ONLY SMT, <2>3, <2>4
  <2> QED
    BY ZenonT(60), <1>16, <2>2, <2>5 DEF Crash, Abandon, TypeOK, CurIsEntry, Queues, keys, Results
<1>17. CASE Supervisor \/ Disconnect
  BY Zenon, <1>17, LinkSteps, LinkTypes DEF TypeOK, CurIsEntry, Quiet, streamVars, keys, worker
<1>18. CASE UNCHANGED vars
  BY Zenon, <1>18 DEF vars, link, TypeOK, CurIsEntry, streamVars, keys, worker
<1> QED
  BY Zenon, <1>2, <1>3, <1>4, <1>5, <1>6, <1>7, <1>8, <1>9, <1>10, <1>11, <1>12, <1>13, <1>14, <1>15,
     <1>16, <1>17, <1>18 DEF Next, Callers, Loop, Faults

\* Every state of the queue, its callers and its keys has its type.
THEOREM TypeCorrect == Spec => [](TypeOK /\ CurIsEntry)
BY TypeInit, TypeNext, PTL DEF Spec

-----------------------------------------------------------------------------
(* At most once *)

LEMMA ClaimedInit == Init => ClaimedBeforeRun
BY EntryRequest DEF Init, ClaimedBeforeRun, AtMostOnce

\* Only Execute and Crash change runs, and both need the claim; done only grows.
LEMMA ClaimedNext == TypeOK /\ CurIsEntry /\ ClaimedBeforeRun /\ [Next]_vars => ClaimedBeforeRun'
<1> SUFFICES ASSUME TypeOK, CurIsEntry, ClaimedBeforeRun, [Next]_vars
             PROVE  ClaimedBeforeRun'
  OBVIOUS
<1> USE DEF TypeOK, CurIsEntry, ClaimedBeforeRun, AtMostOnce
<1>1. pc # "idle" => Cur \in Requests
  BY Zenon, EntryRequest DEF Cur
<1>2. ASSUME UNCHANGED <<done, runs, pc, cur>>
      PROVE  ClaimedBeforeRun'
  BY Zenon, <1>2 DEF Cur
<1>3. CASE Tick \/ ProcessOnce \/ ReclaimPendingOnce \/ Supervisor \/ Disconnect
  BY Zenon, <1>2, <1>3, LinkSteps DEF Tick, ProcessOnce, ReclaimPendingOnce, Quiet, Deliver, keys, worker
<1>4. CASE Callers
  BY Zenon, <1>2, <1>4 DEF Callers, SendRconCommandViaWorker, SendRconCommandFails, EnqueueInBackground,
                    Xadd, PollResult, PollTimeout, keys, worker
<1>5. ASSUME NEW e \in batch, ProcessEntry(e)
      PROVE  ClaimedBeforeRun'
  BY Zenon, <1>5 DEF ProcessEntry, keys
<1>6. CASE Lookup \/ LookupFails
  BY Zenon, <1>6 DEF Lookup, LookupFails, Triage, Goto, keys
<1>7. CASE ClaimRequest \/ ClaimFails
  BY Zenon, <1>1, <1>7 DEF ClaimRequest, ClaimFails, Goto, Throw, Abandon, Cur
<1>8. CASE Execute
  BY <1>1, <1>8 DEF Execute, Goto, keys, Cur
<1>9. CASE WriteResult \/ WriteDone \/ WriteFails
  BY Zenon, <1>9 DEF WriteResult, WriteDone, WriteFails, Goto, Throw, Abandon, keys
<1>10. CASE Xack \/ XackFails
  BY Zenon, <1>10 DEF Xack, XackFails, Throw, Abandon, keys
<1>11. CASE Crash
  BY <1>1, <1>11 DEF Crash, Abandon, keys
<1>12. CASE UNCHANGED vars
  BY Zenon, <1>2, <1>12 DEF vars, keys, worker
<1> QED
  BY Zenon, <1>3, <1>4, <1>5, <1>6, <1>7, <1>8, <1>9, <1>10, <1>11, <1>12 DEF Next, Loop, Faults

\* The game runs a command at most once, whatever is delivered again, sent
\* twice, lost or interrupted: claimRequest lets one delivery through.
THEOREM RunsAtMostOnce == Spec => []AtMostOnce
<1>1. ClaimedBeforeRun => AtMostOnce
  BY Zenon DEF ClaimedBeforeRun
<1> QED
  BY <1>1, TypeCorrect, ClaimedInit, ClaimedNext, PTL DEF Spec

-----------------------------------------------------------------------------
(* The truth of "ok" *)

LEMMA OkInit == Init => OkComesFromRun
BY Zenon DEF Init, OkComesFromRun, OkIsTrue

\* "ok" is decided in Execute, with the run it reports; results and callers
\* only pass it on.  AtMostOnce keeps the count at one.
LEMMA OkNext ==
  TypeOK /\ CurIsEntry /\ ClaimedBeforeRun /\ OkComesFromRun /\ [Next]_vars => OkComesFromRun'
<1> SUFFICES ASSUME TypeOK, CurIsEntry, ClaimedBeforeRun, OkComesFromRun, [Next]_vars
             PROVE  OkComesFromRun'
  OBVIOUS
<1> USE DEF TypeOK, OkComesFromRun, OkIsTrue
<1>1. pc # "idle" => Cur \in Requests
  BY Zenon, EntryRequest DEF Cur, CurIsEntry
<1>2. ASSUME UNCHANGED <<result, caller, runs, pc, cur, verdict>>
      PROVE  OkComesFromRun'
  BY Zenon, <1>2 DEF Cur
<1>3. CASE Tick \/ ProcessOnce \/ ReclaimPendingOnce \/ Supervisor \/ Disconnect
  BY Zenon, <1>2, <1>3, LinkSteps DEF Tick, ProcessOnce, ReclaimPendingOnce, Quiet, Deliver, keys, worker
<1>4. ASSUME NEW r \in Requests, SendRconCommandViaWorker(r) \/ SendRconCommandFails(r) \/ EnqueueInBackground(r)
      PROVE  OkComesFromRun'
  BY ZenonT(60), <1>4 DEF SendRconCommandViaWorker, SendRconCommandFails, EnqueueInBackground, Xadd, keys,
              worker, Cur
<1>5. ASSUME NEW r \in Requests, PollResult(r) \/ PollTimeout(r)
      PROVE  OkComesFromRun'
  BY ZenonT(60), <1>5 DEF PollResult, PollTimeout, keys, worker, Cur
<1>6. ASSUME NEW e \in batch, ProcessEntry(e)
      PROVE  OkComesFromRun'
  BY Zenon, <1>6 DEF ProcessEntry, Outside, keys
<1>7. CASE Lookup \/ LookupFails
  BY Zenon, <1>7 DEF Lookup, LookupFails, Triage, Goto, Outside, keys
<1>8. CASE ClaimRequest \/ ClaimFails
  BY Zenon, <1>8 DEF ClaimRequest, ClaimFails, Goto, Throw, Abandon, Outside
<1>9. CASE Execute
  BY <1>1, <1>9 DEF Execute, ClaimedBeforeRun, AtMostOnce, Goto, Outside, keys, Cur
<1>10. CASE WriteResult
  BY Zenon, <1>1, <1>10 DEF WriteResult, Goto, Outside, Cur
<1>11. CASE WriteDone \/ WriteFails
  BY Zenon, <1>11 DEF WriteDone, WriteFails, Goto, Throw, Abandon, Outside, keys
<1>12. CASE Xack \/ XackFails
  BY Zenon, <1>12 DEF Xack, XackFails, Throw, Abandon, Outside, keys
<1>13. CASE Crash
  BY <1>1, <1>13 DEF Crash, ClaimedBeforeRun, AtMostOnce, Throw, Abandon, Outside, keys
<1>14. CASE UNCHANGED vars
  BY Zenon, <1>2, <1>14 DEF vars, keys, worker
<1> QED
  BY Zenon, <1>3, <1>4, <1>5, <1>6, <1>7, <1>8, <1>9, <1>10, <1>11, <1>12, <1>13, <1>14
     DEF Next, Callers, Loop, Faults

\* A caller that is told "ok" is told the truth: sendRconCommandViaWorker never
\* reports a success that a stale, expired or lost result stands for.
THEOREM OkIsAlwaysTrue == Spec => []OkIsTrue
<1>1. OkComesFromRun => OkIsTrue
  BY Zenon DEF OkComesFromRun
<1> QED
  BY <1>1, TypeCorrect, ClaimedInit, ClaimedNext, OkInit, OkNext, PTL DEF Spec

-----------------------------------------------------------------------------
(* Only a first delivery runs *)

LEMMA DeliveredInit == Init => DeliveredAfterQueued
BY SMTT(20) DEF Init, DeliveredAfterQueued, Never

\* A second delivery comes at least ReclaimMinIdle > MaxCommandAge after the
\* entry was queued, so Triage never sends it to "claim".
LEMMA DeliveredNext ==
  TypeOK /\ CurIsEntry /\ DeliveredAfterQueued /\ [Next]_vars => DeliveredAfterQueued'
<1> SUFFICES ASSUME TypeOK, CurIsEntry, DeliveredAfterQueued, [Next]_vars
             PROVE  DeliveredAfterQueued'
  OBVIOUS
<1> USE TimesAssumption, EntryRequest DEF TypeOK, DeliveredAfterQueued, Passed, Never
<1>1. ASSUME UNCHANGED <<now, enqueuedAt, fresh, deliveredAt, redelivered>>, pending' \subseteq pending,
             pc' \in {"claim", "execute"} => pc \in {"claim", "execute"} /\ cur' = cur
      PROVE  DeliveredAfterQueued'
  BY Zenon, <1>1
<1>2. CASE Tick
  BY <1>2 DEF Tick, streamVars, worker
<1>3. ASSUME NEW r \in Requests, SendRconCommandViaWorker(r) \/ SendRconCommandFails(r) \/ EnqueueInBackground(r)
      PROVE  DeliveredAfterQueued'
  <2>1. \A e \in Entries : Request(e) # r => enqueuedAt'[Request(e)] = enqueuedAt[Request(e)]
    BY Zenon, <1>3 DEF SendRconCommandViaWorker, SendRconCommandFails, EnqueueInBackground, Xadd
  <2>2. enqueuedAt'[r] = now /\ enqueuedAt[r] = Never
    BY Zenon, <1>3 DEF SendRconCommandViaWorker, SendRconCommandFails, EnqueueInBackground, Xadd
  <2>3. \A e \in fresh' : e \in fresh \/ e \in {<<r, 1>>, <<r, 2>>}
    BY ZenonT(60), <1>3 DEF SendRconCommandViaWorker, SendRconCommandFails, EnqueueInBackground, Xadd
  <2>4. Request(<<r, 1>>) = r /\ Request(<<r, 2>>) = r
    BY Zenon DEF Request
  <2> QED
    BY <1>3, <2>1, <2>2, <2>3, <2>4
       DEF SendRconCommandViaWorker, SendRconCommandFails, EnqueueInBackground, Xadd, worker
<1>4. ASSUME NEW r \in Requests, PollResult(r) \/ PollTimeout(r)
      PROVE  DeliveredAfterQueued'
  BY Zenon, <1>1, <1>4 DEF PollResult, PollTimeout, streamVars, worker
<1>5. CASE ProcessOnce
  BY <1>5 DEF ProcessOnce, Deliver, Reading, Idle
<1>6. CASE ReclaimPendingOnce
  BY <1>6 DEF ReclaimPendingOnce, Deliver, Reading, Idle
<1>7. CASE Supervisor \/ Disconnect
  BY Zenon, <1>1, <1>7, LinkSteps DEF Quiet, streamVars, worker
<1>8. ASSUME NEW e \in batch, ProcessEntry(e)
      PROVE  DeliveredAfterQueued'
  BY Zenon, <1>1, <1>8 DEF ProcessEntry, Outside, streamVars
<1>9. CASE Lookup \/ LookupFails
  BY ZenonT(60), <1>9 DEF Lookup, LookupFails, Triage, Stale, Goto, Outside, streamVars, Cur, CurIsEntry
<1>10. CASE ClaimRequest \/ ClaimFails
  BY Zenon, <1>1, <1>10 DEF ClaimRequest, ClaimFails, Goto, Throw, Abandon, Outside, streamVars
<1>11. CASE Execute \/ WriteResult \/ WriteDone
  BY Zenon, <1>1, <1>11 DEF Execute, WriteResult, WriteDone, Goto, Outside, streamVars
<1>12. CASE WriteFails \/ Xack \/ XackFails \/ Crash
  BY Zenon, <1>1, <1>12 DEF WriteFails, Xack, XackFails, Crash, Goto, Throw, Abandon, Outside, streamVars
<1>13. CASE UNCHANGED vars
  BY Zenon, <1>1, <1>13 DEF vars, streamVars, worker
<1> QED
  BY Zenon, <1>2, <1>3, <1>4, <1>5, <1>6, <1>7, <1>8, <1>9, <1>10, <1>11, <1>12, <1>13
     DEF Next, Callers, Loop, Faults

\* A command never runs from an entry that was delivered again, whatever the
\* three times are as long as MaxCommandAge stays below ReclaimMinIdle.
THEOREM OnlyFirstDeliveryRuns == Spec => RunsOnFirstDelivery
<1> DEFINE A == \A r \in Requests : runs'[r] # runs[r] => cur \notin redelivered
<1>1. DeliveredAfterQueued /\ [Next]_vars => [A]_vars
  <2> SUFFICES ASSUME DeliveredAfterQueued, Next
               PROVE  A
    BY Zenon
  <2>1. pc = "execute" \/ UNCHANGED runs
    BY Zenon DEF Next, Tick, Callers, SendRconCommandViaWorker, SendRconCommandFails, EnqueueInBackground, Xadd,
           PollResult, PollTimeout, Loop, ProcessOnce, ReclaimPendingOnce, Deliver, ProcessEntry, Lookup,
           ClaimRequest, Execute, WriteResult, WriteDone, Xack, Faults, LookupFails, ClaimFails,
           WriteFails, XackFails, Crash, Supervisor, Connect, StartQueue, StartQueueFails,
           EndConnection, Disconnect, Link
  <2> QED
    BY Zenon, <2>1 DEF DeliveredAfterQueued
<1> QED
  BY <1>1, TypeCorrect, DeliveredInit, DeliveredNext, PTL DEF Spec, RunsOnFirstDelivery
-----------------------------------------------------------------------------
(* The promise *)

\* Whatever the queue has read, marked or run, and whoever waits for or has got
\* an answer, was sent before.
SentInv ==
  /\ \A e \in fresh \union pending \union batch : enqueuedAt[Request(e)] # Never
  /\ pc # "idle" => enqueuedAt[Cur] # Never
  /\ \A r \in Requests : r \in done \/ runs[r] # 0 \/ caller[r] # "idle" => enqueuedAt[r] # Never

LEMMA SentInit == Init => SentInv
BY Zenon DEF Init, SentInv

\* Entries come from Xadd, batches from entries, and marks and runs from batches.
LEMMA SentNext == TypeOK /\ CurIsEntry /\ SentInv /\ [Next]_vars => SentInv'
<1> SUFFICES ASSUME TypeOK, CurIsEntry, SentInv, [Next]_vars
             PROVE  SentInv'
  OBVIOUS
<1> USE DEF SentInv
<1>1. pc # "idle" => Cur \in Requests
  BY Zenon, EntryRequest DEF Cur, CurIsEntry
<1>2. ASSUME UNCHANGED <<enqueuedAt, caller, fresh, pending, done, runs>>, batch' \subseteq fresh \union pending \union batch,
             pc' # "idle" => pc # "idle" /\ cur' = cur
      PROVE  SentInv'
  BY Zenon, <1>2 DEF Cur
<1>3. CASE Tick \/ Supervisor \/ Disconnect
  BY Zenon, <1>2, <1>3, LinkSteps DEF Tick, Quiet, streamVars, keys, worker
<1>4. ASSUME NEW r \in Requests, SendRconCommandViaWorker(r) \/ SendRconCommandFails(r) \/ EnqueueInBackground(r)
      PROVE  SentInv'
  <2>1. now # Never
    BY SMT DEF TypeOK, Never
  <2>2. enqueuedAt' = [enqueuedAt EXCEPT ![r] = now] /\ fresh' \subseteq fresh \union {<<r, 1>>, <<r, 2>>}
    BY ZenonT(60), <1>4 DEF SendRconCommandViaWorker, SendRconCommandFails, EnqueueInBackground, Xadd
  <2>3. UNCHANGED <<pending, batch, pc, cur, done, runs>>
    BY Zenon, <1>4 DEF SendRconCommandViaWorker, SendRconCommandFails, EnqueueInBackground, Xadd, keys, worker
  <2>4. \A q \in Requests : /\ enqueuedAt'[q] = IF q = r THEN now ELSE enqueuedAt[q]
                            /\ q # r => caller'[q] = caller[q]
    BY Zenon, <1>4, <2>2 DEF TypeOK, SendRconCommandViaWorker, SendRconCommandFails, EnqueueInBackground
  <2>5. \A e \in fresh' : e \in fresh \/ Request(e) = r
    <3>1. Request(<<r, 1>>) = r /\ Request(<<r, 2>>) = r
      BY Zenon DEF Request
    <3> QED
      BY Zenon, <2>2, <3>1
  <2>6. \A e \in fresh \union pending \union batch : Request(e) \in Requests
    BY Zenon, EntryRequest DEF TypeOK
  <2> QED
    BY ZenonT(60), <1>1, <2>1, <2>3, <2>4, <2>5, <2>6 DEF Cur
<1>5. ASSUME NEW r \in Requests, PollResult(r) \/ PollTimeout(r)
      PROVE  SentInv'
  <2>1. /\ UNCHANGED <<enqueuedAt, fresh, pending, batch, pc, cur, done, runs>> /\ caller[r] # "idle"
        /\ \A q \in Requests : q # r => caller'[q] = caller[q]
    BY Zenon, <1>5 DEF PollResult, PollTimeout, streamVars, keys, worker, TypeOK
  <2> QED
    BY Zenon, <2>1 DEF Cur
<1>6. CASE ProcessOnce
  BY Zenon, <1>6 DEF ProcessOnce, Deliver, Reading, Idle, keys
<1>7. CASE ReclaimPendingOnce
  BY Zenon, <1>7 DEF ReclaimPendingOnce, Deliver, Reading, Idle, keys
<1>8. ASSUME NEW e \in batch, ProcessEntry(e)
      PROVE  SentInv'
  BY Zenon, <1>8 DEF ProcessEntry, Outside, streamVars, keys, Cur
<1>9. CASE Lookup \/ LookupFails
  BY Zenon, <1>2, <1>9 DEF Lookup, LookupFails, Triage, Goto, Outside, streamVars, keys
<1>10. CASE ClaimRequest \/ ClaimFails
  BY ZenonT(60), <1>1, <1>10 DEF ClaimRequest, ClaimFails, Goto, Throw, Abandon, Outside, streamVars, Cur
<1>11. CASE Execute
  <2>1. /\ UNCHANGED <<enqueuedAt, caller, fresh, pending, batch, cur, done>> /\ pc # "idle"
        /\ \A q \in Requests : q # Cur => runs'[q] = runs[q]
    BY Zenon, <1>11 DEF Execute, Goto, Outside, streamVars, keys, TypeOK
  <2> QED
    BY Zenon, <1>1, <2>1 DEF Cur
<1>12. CASE WriteResult \/ WriteDone
  BY ZenonT(60), <1>1, <1>12 DEF WriteResult, WriteDone, Goto, Outside, streamVars, Cur
<1>13. CASE WriteFails
  BY Zenon, <1>2, <1>13 DEF WriteFails, Goto, Throw, Abandon, Outside, streamVars, keys
<1>14. CASE Xack \/ XackFails
  BY Zenon, <1>14 DEF Xack, XackFails, Throw, Abandon, Outside, keys
<1>15. CASE Crash
  <2>1. UNCHANGED <<enqueuedAt, caller, fresh, pending, done>> /\ batch' = {} /\ pc' = "idle"
    BY Zenon, <1>15 DEF Crash, Abandon, keys
  <2>2. runs' = runs \/ (pc # "idle" /\ \A q \in Requests : q # Cur => runs'[q] = runs[q])
    BY Zenon, <1>15 DEF Crash, TypeOK
  <2> QED
    BY Zenon, <1>1, <2>1, <2>2
<1>16. CASE UNCHANGED vars
  BY Zenon, <1>2, <1>16 DEF vars, streamVars, keys, worker
<1> QED
  BY Zenon, <1>3, <1>4, <1>5, <1>6, <1>7, <1>8, <1>9, <1>10, <1>11, <1>12, <1>13, <1>14, <1>15, <1>16
     DEF Next, Callers, Loop, Faults

LEMMA FatesKept ==
  ASSUME UNCHANGED enqueuedAt, \A r \in Requests : Closed(r)' <=> Closed(r)
  PROVE  UNCHANGED Fates
BY Zenon DEF Fates

LEMMA FatesClose ==
  ASSUME NEW q \in Requests, UNCHANGED enqueuedAt, enqueuedAt[q] # Never, ~Closed(q), Closed(q)',
         \A r \in Requests : r # q => (Closed(r)' <=> Closed(r))
  PROVE  Fates[q] = "open" /\ Fates' = [Fates EXCEPT ![q] = "closed"]
<1>1. Fates[q] = "open"
  BY Zenon DEF Fates
<1>2. ASSUME NEW r \in Requests
      PROVE  Fates'[r] = IF r = q THEN "closed" ELSE Fates[r]
  BY Zenon DEF Fates
<1>3. Fates' = [r \in Requests |-> IF r = q THEN "closed" ELSE Fates[r]]
  BY Zenon, <1>2 DEF Fates
<1>4. [Fates EXCEPT ![q] = "closed"] = [r \in Requests |-> IF r = q THEN "closed" ELSE Fates[r]]
  BY Zenon DEF Fates
<1> QED
  BY Zenon, <1>1, <1>3, <1>4

PromiseInv == TypeOK /\ CurIsEntry /\ ClaimedBeforeRun /\ OkComesFromRun /\ SentInv

\* Steps that callers and the game do not see.
LEMMA HiddenSteps ==
  ASSUME PromiseInv,
         \/ Tick \/ ProcessOnce \/ ReclaimPendingOnce \/ Supervisor \/ Disconnect \/ \E e \in batch : ProcessEntry(e)
         \/ Lookup \/ LookupFails \/ WriteResult \/ WriteFails \/ Xack \/ XackFails \/ UNCHANGED vars
  PROVE  UNCHANGED Promise!vars
<1>1. UNCHANGED <<runs, caller, enqueuedAt, done>>
  BY ZenonT(60), LinkSteps DEF Tick, ProcessOnce, ReclaimPendingOnce, Deliver, Quiet, ProcessEntry, Lookup, LookupFails,
     Triage, WriteResult, WriteFails, Xack, XackFails, Goto, Throw, Abandon, Outside, keys, vars
<1>2. UNCHANGED <<pc, cur>> \/ (pc # "execute" /\ pc' # "execute")
  BY ZenonT(60), LinkSteps DEF Tick, ProcessOnce, ReclaimPendingOnce, Deliver, Quiet, ProcessEntry, Lookup, LookupFails,
     Triage, WriteResult, WriteFails, Xack, XackFails, Goto, Throw, Abandon, Outside, worker, vars
<1>3. \A r \in Requests : Closed(r)' <=> Closed(r)
  BY Zenon, <1>1, <1>2 DEF Closed, Cur
<1> QED
  BY Zenon, <1>1, <1>3, FatesKept DEF Promise!vars

\* A step closes the request q at hand, with or without a run.
LEMMA CurCloses ==
  ASSUME PromiseInv, NEW q \in Requests, q = Cur, UNCHANGED <<enqueuedAt, caller>>, pc # "idle",
         ~Closed(q), Closed(q)', \A r \in Requests : r # q => (Closed(r)' <=> Closed(r)),
         UNCHANGED runs \/ runs' = [runs EXCEPT ![q] = @ + 1]
  PROVE  Promise!Next
<1>1. enqueuedAt[q] # Never
  <2>1. pc # "idle" => enqueuedAt[Cur] # Never
    BY Zenon DEF PromiseInv, SentInv
  <2> QED
    BY ONLY Zenon, <2>1, q = Cur, pc # "idle"
<1>2. Fates[q] = "open" /\ Fates' = [Fates EXCEPT ![q] = "closed"]
  BY Zenon, <1>1, FatesClose
<1>3. Promise!Run(q) \/ Promise!Drop(q)
  BY Zenon, <1>2 DEF Promise!Run, Promise!Drop
<1> QED
  BY Zenon, <1>3 DEF Promise!Next

\* The claim hides nothing when it succeeds, and gives the request up when its
\* answer is lost.
LEMMA ClaimKeepsPromise ==
  ASSUME PromiseInv, ClaimRequest \/ ClaimFails \/ WriteDone
  PROVE  [Promise!Next]_(Promise!vars)
<1>1. PICK c \in Requests : c = Cur
  BY Zenon, EntryRequest DEF PromiseInv, CurIsEntry, Cur, ClaimRequest, ClaimFails, WriteDone
<1>2. /\ UNCHANGED <<runs, caller, enqueuedAt>> /\ pc # "execute" /\ pc # "idle"
      /\ done' \in {done, done \union {c}}
      /\ pc' = "execute" => cur' = cur /\ done' = done \union {c} /\ c \notin done
  BY Zenon, <1>1 DEF ClaimRequest, ClaimFails, WriteDone, Goto, Throw, Abandon, Outside
<1>3. \A r \in Requests : Closed(r) <=> runs[r] # 0 \/ r \in done
  BY Zenon, <1>2 DEF Closed
<1>4. ASSUME pc' # "execute"
      PROVE  \A r \in Requests : Closed(r)' <=> runs[r] # 0 \/ r \in done'
  BY Zenon, <1>2, <1>4 DEF Closed
<1>5. CASE pc' = "execute"
  <2>1. runs[c] = 0
    BY Zenon, <1>2, <1>5 DEF PromiseInv, ClaimedBeforeRun
  <2>2. \A r \in Requests : Closed(r)' <=> runs[r] # 0 \/ (r \in done' /\ r # c)
    BY Zenon, <1>1, <1>2, <1>5 DEF Closed, Cur
  <2>3. \A r \in Requests : Closed(r)' <=> Closed(r)
    BY Zenon, <1>2, <1>3, <1>5, <2>1, <2>2
  <2> QED
    BY Zenon, <1>2, <2>3, FatesKept DEF Promise!vars
<1>6. CASE pc' # "execute" /\ Closed(c)
  <2>1. \A r \in Requests : Closed(r)' <=> Closed(r)
    BY Zenon, <1>2, <1>3, <1>4, <1>6
  <2> QED
    BY Zenon, <1>2, <2>1, FatesKept DEF Promise!vars
<1>7. CASE pc' # "execute" /\ ~Closed(c) /\ done' = done
  <2>1. \A r \in Requests : Closed(r)' <=> Closed(r)
    BY Zenon, <1>3, <1>4, <1>7
  <2> QED
    BY Zenon, <1>2, <2>1, FatesKept DEF Promise!vars
<1>8. CASE pc' # "execute" /\ ~Closed(c) /\ done' = done \union {c}
  <2>1. Closed(c)' /\ \A r \in Requests : r # c => (Closed(r)' <=> Closed(r))
    BY Zenon, <1>3, <1>4, <1>8
  <2> QED
    BY Zenon, <1>1, <1>2, <1>8, <2>1, CurCloses
<1> QED
  BY Zenon, <1>2, <1>5, <1>6, <1>7, <1>8

\* What is run or given up is the request at hand, which was open until then.
LEMMA ExecuteKeepsPromise ==
  ASSUME PromiseInv, Execute \/ Crash
  PROVE  [Promise!Next]_(Promise!vars)
<1>1. UNCHANGED <<caller, enqueuedAt, done>> /\ pc' # "execute"
  BY Zenon DEF Execute, Crash, Goto, Abandon, Outside, keys
<1>2. UNCHANGED runs \/ (pc = "execute" /\ runs' = [runs EXCEPT ![Cur] = @ + 1])
  BY Zenon DEF Execute, Crash
<1>3. CASE pc # "execute"
  <2>1. \A r \in Requests : Closed(r)' <=> Closed(r)
    BY Zenon, <1>1, <1>2, <1>3 DEF Closed
  <2> QED
    BY Zenon, <1>1, <1>2, <1>3, <2>1, FatesKept DEF Promise!vars
<1>4. CASE pc = "execute"
  <2>1. PICK c \in Requests : c = Cur
    BY Zenon, <1>4, EntryRequest DEF PromiseInv, CurIsEntry, Cur
  <2>2. c \in done /\ runs[c] = 0
    BY Zenon, <1>4, <2>1 DEF PromiseInv, ClaimedBeforeRun
  <2>3. \A r \in Requests : r # c => runs'[r] = runs[r]
    BY Zenon, <1>2, <2>1 DEF PromiseInv, TypeOK
  <2>4. ~Closed(c) /\ Closed(c)'
    BY Zenon, <1>1, <1>4, <2>1, <2>2 DEF Closed
  <2>5. \A r \in Requests : r # c => (Closed(r)' <=> Closed(r))
    BY Zenon, <1>1, <2>1, <2>3 DEF Closed
  <2> QED
    BY Zenon, <1>1, <1>2, <1>4, <2>1, <2>4, <2>5, CurCloses
<1> QED
  BY Zenon, <1>3, <1>4

\* Sending opens a request nobody has marked or run.
LEMMA SendKeepsPromise ==
  ASSUME PromiseInv, NEW r \in Requests,
         SendRconCommandViaWorker(r) \/ SendRconCommandFails(r) \/ EnqueueInBackground(r)
  PROVE  Promise!Next
<1>1. /\ enqueuedAt[r] = Never /\ enqueuedAt' = [enqueuedAt EXCEPT ![r] = now]
      /\ UNCHANGED <<runs, done, pc, cur>>
  BY Zenon DEF SendRconCommandViaWorker, SendRconCommandFails, EnqueueInBackground, Xadd, keys, worker
<1>2. now # Never
  BY SMT DEF PromiseInv, TypeOK, Never
<1>3. \A q \in Requests : Closed(q)' <=> Closed(q)
  BY Zenon, <1>1 DEF Closed, Cur
<1>4. ~Closed(r)
  BY Zenon, <1>1 DEF Closed, PromiseInv, SentInv
<1>5. \A q \in Requests : enqueuedAt'[q] = IF q = r THEN now ELSE enqueuedAt[q]
  BY Zenon, <1>1 DEF PromiseInv, TypeOK
<1>6. \A q \in Requests : Fates'[q] = IF q = r THEN "open" ELSE Fates[q]
  BY Zenon, <1>2, <1>3, <1>4, <1>5 DEF Fates
<1>7. Fates' = [Fates EXCEPT ![r] = "open"]
  <2>1. Fates' = [q \in Requests |-> IF q = r THEN "open" ELSE Fates[q]]
    BY Zenon, <1>6 DEF Fates
  <2>2. [Fates EXCEPT ![r] = "open"] = [q \in Requests |-> IF q = r THEN "open" ELSE Fates[q]]
    BY Zenon DEF Fates
  <2> QED
    BY Zenon, <2>1, <2>2
<1>8. Fates[r] = "unsent"
  BY Zenon, <1>1 DEF Fates
<1>9. \E c \in {"idle", "waiting", "worker_unavailable"} : caller' = [caller EXCEPT ![r] = c]
  <2>1. CASE SendRconCommandViaWorker(r) \/ SendRconCommandFails(r)
    BY Zenon, <2>1 DEF SendRconCommandViaWorker, SendRconCommandFails
  <2>2. CASE EnqueueInBackground(r)
    <3>1. caller[r] = "idle"
      BY Zenon, <1>1 DEF PromiseInv, SentInv
    <3>2. caller = [caller EXCEPT ![r] = "idle"]
      BY Zenon, <3>1 DEF PromiseInv, TypeOK
    <3> QED
      BY Zenon, <2>2, <3>2 DEF EnqueueInBackground
  <2> QED
    BY Zenon, <2>1, <2>2
<1>10. \E c \in {"idle", "waiting", "worker_unavailable"} : Promise!Send(r, c)
  BY Zenon, <1>1, <1>7, <1>8, <1>9 DEF Promise!Send
<1> QED
  BY Zenon, <1>10 DEF Promise!Next

\* A poll hands out "ok" only when the stored result comes from a run.
LEMMA PollKeepsPromise ==
  ASSUME PromiseInv, NEW r \in Requests, PollResult(r) \/ PollTimeout(r)
  PROVE  Promise!Next
<1>1. caller[r] = "waiting" /\ UNCHANGED <<runs, enqueuedAt, done, pc, cur>>
  BY Zenon DEF PollResult, PollTimeout, keys, worker
<1>2. UNCHANGED Fates
  BY Zenon, <1>1, FatesKept DEF Closed, Cur
<1>3. \E a \in {"ok", "worker_rejected", "timeout"} :
        caller' = [caller EXCEPT ![r] = a] /\ (a = "ok" => runs[r] = 1)
  BY Zenon DEF PollResult, PollTimeout, PromiseInv, OkComesFromRun
<1>4. \E a \in {"ok", "worker_rejected", "timeout"} : Promise!Answer(r, a)
  BY Zenon, <1>1, <1>2, <1>3 DEF Promise!Answer
<1> QED
  BY Zenon, <1>4 DEF Promise!Next

LEMMA PromiseInit == Init => Promise!Init
<1> SUFFICES ASSUME Init
             PROVE  Promise!Init
  OBVIOUS
<1>1. Fates = [r \in Requests |-> "unsent"]
  BY Zenon DEF Init, Fates
<1> QED
  BY Zenon, <1>1 DEF Init, Promise!Init

LEMMA PromiseNext == PromiseInv /\ [Next]_vars => [Promise!Next]_(Promise!vars)
BY Zenon, HiddenSteps, ClaimKeepsPromise, ExecuteKeepsPromise, SendKeepsPromise, PollKeepsPromise
   DEF Next, Callers, Loop, Faults

\* The command queue implements the promise of RconPromise for any number of
\* requests, faults and time units: at most one run, none before the command was
\* sent or after it was given up, and a final, truthful answer.
THEOREM CommandsKeepPromise == Spec => QueueKeepsPromise
<1>1. PromiseInv <=> TypeOK /\ CurIsEntry /\ ClaimedBeforeRun /\ OkComesFromRun /\ SentInv
  BY Zenon DEF PromiseInv
<1> QED
  BY <1>1, TypeCorrect, ClaimedInit, ClaimedNext, OkInit, OkNext, SentInit, SentNext, PromiseInit, PromiseNext, PTL
     DEF Spec, QueueKeepsPromise, Promise!Spec
=============================================================================
