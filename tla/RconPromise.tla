----------------------------- MODULE RconPromise -----------------------------
(***************************************************************************)
(* What the RCON command queue promises to those who send commands through *)
(* it, without streams, markers, batches, connections or time:             *)
(*   - a command runs only if it was sent, and never twice;                *)
(*   - a command that was given up never runs afterwards;                  *)
(*   - a caller is answered once, and told "ok" only of a command that ran.*)
(***************************************************************************)
EXTENDS Integers

CONSTANT Requests

VARIABLES
  fate,   \* fate[r]: "unsent", "open" or "closed"
  runs,   \* runs[r]: how often the game has run the command
  caller  \* caller[r]: "idle", "waiting", or the answer it got

vars == <<fate, runs, caller>>

Init ==
  /\ fate = [r \in Requests |-> "unsent"]
  /\ runs = [r \in Requests |-> 0]
  /\ caller = [r \in Requests |-> "idle"]

\* The command is sent, by a caller who waits or by one who does not; one
\* whose sending fails is answered at once, and the command may be on its way.
Send(r, c) ==
  /\ fate[r] = "unsent"
  /\ fate' = [fate EXCEPT ![r] = "open"]
  /\ caller' = [caller EXCEPT ![r] = c]
  /\ UNCHANGED runs

\* The game runs an open command ...
Run(r) ==
  /\ fate[r] = "open"
  /\ fate' = [fate EXCEPT ![r] = "closed"]
  /\ runs' = [runs EXCEPT ![r] = @ + 1]
  /\ UNCHANGED caller

\* ... or the command is given up.
Drop(r) ==
  /\ fate[r] = "open"
  /\ fate' = [fate EXCEPT ![r] = "closed"]
  /\ UNCHANGED <<runs, caller>>

\* Whoever waits is answered; only "ok" says what has become of the command.
Answer(r, a) ==
  /\ caller[r] = "waiting"
  /\ a = "ok" => runs[r] = 1
  /\ caller' = [caller EXCEPT ![r] = a]
  /\ UNCHANGED <<fate, runs>>

Next ==
  \E r \in Requests :
    \/ \E c \in {"idle", "waiting", "worker_unavailable"} : Send(r, c)
    \/ Run(r) \/ Drop(r)
    \/ \E a \in {"ok", "worker_rejected", "timeout"} : Answer(r, a)

Spec == Init /\ [][Next]_vars
=============================================================================
