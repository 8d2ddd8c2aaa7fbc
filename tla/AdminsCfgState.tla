--------------------------- MODULE AdminsCfgState ---------------------------
(***************************************************************************)
(* The state shared by the parts of the Admins.cfg synchronisation: the    *)
(* PostgreSQL tables, the Redis streams, the game hosts, and the memory of *)
(* the config-sync worker.                                                 *)
(*                                                                         *)
(* Data is abstracted to versions.  The managed segment of Admins.cfg is   *)
(* generated from a few independent queries (Parts: roles, admins, clan    *)
(* priority); the content of a part is the number of the last committed    *)
(* mutation that changed it.  Two segments have the same hash exactly when *)
(* all their parts have the same version.                                  *)
(***************************************************************************)
EXTENDS Integers, FiniteSets

CONSTANTS
  Servers,      \* panel-hosted (runtime = 'container') servers
  Parts,        \* the queries a segment is generated from
  Handlers,     \* which of the worker's lock users run
  MaxConsecutiveFailures,  \* a relay run stops after this many in a row
  MaxEnqueues,  \* bound: transactions that insert outbox rows
  Enabled,      \* which kinds of faults and outside events happen
  MaxEvents     \* bound: how many of them happen

Events == {"bridge", "late_write", "rcon", "xadd", "late_xadd", "throw", "crash", "loss",
           "refresh", "force_sync", "edit", "lifecycle", "removal", "cleanup"}

ASSUME HandlersAssumption == Handlers \subseteq {"loop", "reclaim", "drift"}
ASSUME BoundsAssumption == /\ MaxConsecutiveFailures \in Nat \ {0}
                           /\ MaxEnqueues \in Nat
                           /\ MaxEvents \in Nat
ASSUME EventsAssumption == Enabled \subseteq Events

\* An outbox row is named by its server and by the number of the transaction
\* that inserted it, in the order of the commits.
RowIds == Servers \X (1..MaxEnqueues)

\* A stream entry carries one row; a row published twice has two entries.
Entries == RowIds \X Nat
RowOf(e) == e[1]
ServerOf(e) == e[1][1]

\* refreshServerList runs on a timer, and in the reader after NOGROUP.
Refreshers == {"timer", "reader"}

NoRow == <<>>
NoEntry == <<>>
NoServer == "none"

AppliedOutcomes == {"confirmed", "file_ready_for_restart", "server_removed"}
Outcomes == {"absent", "pending", "failed"} \union AppliedOutcomes

Versions == [Parts -> Nat]

\* A file with no segment, or with a segment the sync did not write.  The
\* database starts at version 1, so that no snapshot looks like this.
Stale == [p \in Parts |-> 0]

VARIABLES
  \* PostgreSQL
  db,         \* db[p]: the committed version of part p
  enqueues,   \* number of transactions that inserted outbox rows
  need,       \* need[r]: the database when row r was committed
  forced,     \* rows whose reason is force_sync
  relayed,    \* rows whose relayed_at is set
  outcome,    \* outcome[r]: applied_at and reload_outcome of row r
  live,       \* servers whose status is running or starting
  removal,    \* removal[s]: how far the deletion of s has come
  lock,       \* lock[s]: the holder of the per-server advisory lock
  \* Redis
  stream,     \* entries that exist in events:admins-cfg-sync:<server>
  pel,        \* entries delivered to the group and not acknowledged
  groups,     \* servers whose consumer group (hence stream) exists
  lateXadds,  \* XADDs the relay has given up on and that still may land
  status,     \* admins-cfg:status:<server>
  \* the hosts
  file,       \* file[s]: the managed segment on disk
  lateWrites, \* writes whose caller has given up and that still may land
  up,         \* servers whose game process runs
  loaded,     \* loaded[s]: the segment the game process has read
  \* memory of the config-sync worker
  active,     \* activeServerIds
  listing,    \* refreshes in progress, between their query and its use
  listed,     \* listed[f]: the servers refresh f has read
  backoff,    \* servers skipped until their backoff expires
  relayPc,    \* what the relay run does next
  relayRow,   \* the row it has locked
  failedIds,  \* rows the relay run has failed to publish
  failures,   \* its consecutive failures
  xadds,      \* xadds[r]: how often row r was sent to Redis
  batch,      \* batch[h]: entries read and not handled yet
  pc,         \* pc[h]: what handler h does next
  srv,        \* srv[h]: the server it works on
  ent,        \* ent[h]: the entry it works on
  unread,     \* unread[h]: parts its snapshot still misses
  snap,       \* snap[h]: its snapshot
  verdict,    \* verdict[h]: the outcome it is about to store
  events      \* how many faults and outside events have happened

tables    == <<db, enqueues, need, forced, relayed, outcome>>
queue     == <<stream, pel, groups, lateXadds>>
hosts     == <<file, lateWrites, up, loaded>>
refresh   == <<active, listing, listed>>
relayVars == <<relayPc, relayRow, failedIds, failures, xadds>>
handler   == <<batch, pc, srv, ent, unread, snap, verdict>>
vars == <<tables, live, removal, lock, queue, status, hosts,
          refresh, backoff, relayVars, handler, events>>

\* softDeleteServer marks the row (deleted_at) after the teardown of the host.
Deleted(s) == removal[s] \in {"db", "done", "dirty"}
Present == {s \in Servers : ~Deleted(s)}

Applied(r) == outcome[r] \in AppliedOutcomes

\* The relay's transaction has row r locked (SELECT ... FOR UPDATE); other
\* transactions that update the row wait for it.
RowLocked(r) == relayPc \in {"publish", "stamp"} /\ relayRow = r

\* v carries everything row r was inserted for, or is not the sync's work.
Covers(v, r) == v = Stale \/ \A p \in Parts : v[p] >= need[r][p]

Spend(kind) == kind \in Enabled /\ events < MaxEvents /\ events' = events + 1
=============================================================================
