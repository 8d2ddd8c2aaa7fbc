-------------------------- MODULE AdminsCfgPromise --------------------------
(***************************************************************************)
(* What the Admins.cfg synchronisation promises to the rest of the panel,  *)
(* without streams, locks, workers or crashes:                             *)
(*   - a mutation commits together with one open task per server;          *)
(*   - the file of a server only moves forward, never past the database,   *)
(*     and never to a content that lacks an applied task;                  *)
(*   - a task is applied once, and only when the file carries its change.  *)
(***************************************************************************)
EXTENDS Integers

CONSTANTS Servers, Parts, MaxEnqueues

RowIds == Servers \X (1..MaxEnqueues)
Stale == [p \in Parts |-> 0]
States == {"absent", "open", "confirmed", "file_ready_for_restart", "server_removed"}

VARIABLES
  db,    \* db[p]: the committed version of part p
  file,  \* file[s]: the managed segment on disk
  need,  \* need[r]: the database when task r was committed
  task   \* task[r]: the state of task r

vars == <<db, file, need, task>>

Covers(v, r) == v = Stale \/ \A p \in Parts : v[p] >= need[r][p]
Delivered(r) == task[r] \in {"confirmed", "file_ready_for_restart"}

Init ==
  /\ db = [p \in Parts |-> 1]
  /\ file = [s \in Servers |-> Stale]
  /\ need = [r \in RowIds |-> Stale]
  /\ task = [r \in RowIds |-> "absent"]

\* Transaction n changes the parts P and opens a task for the servers T.
Commit(n, T, P) ==
  LET new == {<<s, n>> : s \in T} IN
  /\ \A s \in Servers : task[<<s, n>>] = "absent"
  /\ db' = [p \in Parts |-> IF p \in P THEN db[p] + 1 ELSE db[p]]
  /\ need' = [r \in RowIds |-> IF r \in new THEN db' ELSE need[r]]
  /\ task' = [r \in RowIds |-> IF r \in new THEN "open" ELSE task[r]]
  /\ UNCHANGED file

\* The sync rewrites the file of server s.
Rewrite(s) ==
  \E v \in [Parts -> 1..(MaxEnqueues + 1)] :
    /\ \A p \in Parts : file[s][p] <= v[p] /\ v[p] <= db[p]
    /\ \A r \in RowIds : r[1] = s /\ Delivered(r) => Covers(v, r)
    /\ file' = [file EXCEPT ![s] = v]
    /\ UNCHANGED <<db, need, task>>

\* Somebody else replaces the file of server s.
Replace(s) ==
  /\ file' = [file EXCEPT ![s] = Stale]
  /\ UNCHANGED <<db, need, task>>

\* An open task is delivered.
Deliver(r) ==
  /\ task[r] = "open" /\ Covers(file[r[1]], r)
  /\ \E o \in {"confirmed", "file_ready_for_restart"} : task' = [task EXCEPT ![r] = o]
  /\ UNCHANGED <<db, file, need>>

\* Open tasks R of a deleted server are closed.
Close(s, R) ==
  /\ \A r \in R : r[1] = s /\ task[r] = "open"
  /\ task' = [r \in RowIds |-> IF r \in R THEN "server_removed" ELSE task[r]]
  /\ UNCHANGED <<db, file, need>>

Next ==
  \/ \E n \in 1..MaxEnqueues, T \in SUBSET Servers, P \in SUBSET Parts : Commit(n, T, P)
  \/ \E s \in Servers : Rewrite(s) \/ Replace(s)
  \/ \E r \in RowIds : Deliver(r)
  \/ \E s \in Servers, R \in SUBSET RowIds : Close(s, R)

Spec == Init /\ [][Next]_vars
=============================================================================
