------------------------------ MODULE MediaPromise ------------------------------
(***************************************************************************)
(* What the publication of media promises, without claims, leases, upload  *)
(* sessions, workers or crashes:                                           *)
(*   - the destination is called for an open publication only: never for   *)
(*     one that is published, has failed or was withdrawn;                 *)
(*   - it is called at most MaxAttempts times, quota walls apart;          *)
(*   - "published" is said of what the destination has, and is final, like *)
(*     "failed", until the publication is withdrawn.                       *)
(***************************************************************************)
EXTENDS Integers

CONSTANTS Media, Destinations, MaxAttempts

Pubs == Media \X Destinations

VARIABLES
    phase,   \* phase[p]: "absent", "open", "published" or "failed"
    calls,   \* calls[p]: calls to the destination for p
    videos   \* videos[p]: videos made of it at YouTube

vars == <<phase, calls, videos>>

Init ==
    /\ phase = [p \in Pubs |-> "absent"]
    /\ calls = [p \in Pubs |-> 0]
    /\ videos = [p \in Pubs |-> 0]

\* Publications are opened, all of them or none.
Post(S) ==
    /\ \A p \in S : phase[p] = "absent"
    /\ phase' = [p \in Pubs |-> IF p \in S THEN "open" ELSE phase[p]]
    /\ calls' = [p \in Pubs |-> IF p \in S THEN 0 ELSE calls[p]]
    /\ videos' = [p \in Pubs |-> IF p \in S THEN 0 ELSE videos[p]]

\* The destination is called; YouTube may make a video, whatever it answers.
Call(p) ==
    /\ phase[p] = "open" /\ calls[p] < MaxAttempts
    /\ calls' = [calls EXCEPT ![p] = @ + 1]
    /\ \E n \in {0, 1} : /\ n = 1 => p[2] = "youtube"
                         /\ videos' = [videos EXCEPT ![p] = @ + n]
    /\ UNCHANGED phase

Publish(p) ==
    /\ phase[p] = "open"
    /\ calls[p] >= 1 /\ (p[2] = "youtube" => videos[p] >= 1)
    /\ phase' = [phase EXCEPT ![p] = "published"]
    /\ UNCHANGED <<calls, videos>>

GiveUp(p) ==
    /\ phase[p] = "open"
    /\ phase' = [phase EXCEPT ![p] = "failed"]
    /\ UNCHANGED <<calls, videos>>

Withdraw(p) ==
    /\ phase[p] # "absent"
    /\ phase' = [phase EXCEPT ![p] = "absent"]
    /\ UNCHANGED <<calls, videos>>

Next ==
    \/ \E m \in Media, D \in SUBSET Destinations : Post({m} \X D)
    \/ \E p \in Pubs : Call(p) \/ Publish(p) \/ GiveUp(p) \/ Withdraw(p)

Spec == Init /\ [][Next]_vars
================================================================================
