------------------------------- MODULE VipPromise -------------------------------
(***************************************************************************)
(* What the VIP subscriptions promise to a player, without renewal passes, *)
(* roles, workers or crashes:                                              *)
(*   - only an active subscription is billed, never before its date, and   *)
(*     never for more than the balance holds;                              *)
(*   - a bill moves the date by one period, and what it pays for reaches   *)
(*     the next date;                                                      *)
(*   - a player has one active subscription at most, an ended one stays so,*)
(*     and its end is announced at most once, never if it was cancelled.   *)
(***************************************************************************)
EXTENDS Integers

CONSTANTS Players, Subs, NoPlayer, Price, Days, Lead, Bonuses

VARIABLES
    now,
    balance,        \* balance[p]: the bonuses of player p
    paid,           \* paid[p]: until when the role of p has been paid for
    status,         \* status[s]: "absent", "active", "cancelled" or "expired"
    owner,          \* owner[s]: whose subscription it is
    nextRenewalAt,  \* nextRenewalAt[s]: when it is billed next
    charges,        \* charges[s]: how often it has been billed
    alerts          \* alerts[s]: how often its end has been announced

account == <<owner, nextRenewalAt, charges>>
vars    == <<now, balance, paid, status, account, alerts>>

Init ==
    /\ now = 1
    /\ balance = [p \in Players |-> Bonuses]
    /\ paid = [p \in Players |-> 0]
    /\ status = [s \in Subs |-> "absent"]
    /\ owner = [s \in Subs |-> NoPlayer]
    /\ nextRenewalAt = [s \in Subs |-> 0]
    /\ charges = [s \in Subs |-> 0]
    /\ alerts = [s \in Subs |-> 0]

\* Player p pays for a period that ends at some time, not before least.
Pay(p, least) ==
    /\ balance[p] >= Price
    /\ balance' = [balance EXCEPT ![p] = @ - Price]
    /\ paid' = [paid EXCEPT ![p] = paid'[p]] /\ paid'[p] >= least

Enrol(p, s) ==
    /\ status[s] = "absent"
    /\ \A z \in Subs : owner[z] = p => status[z] # "active"
    /\ Pay(p, now + Days)
    /\ status' = [status EXCEPT ![s] = "active"]
    /\ owner' = [owner EXCEPT ![s] = p]
    /\ nextRenewalAt' = [nextRenewalAt EXCEPT ![s] = paid'[p] - Lead]
    /\ charges' = [charges EXCEPT ![s] = 1]
    /\ UNCHANGED <<now, alerts>>

Bill(s) ==
    /\ status[s] = "active" /\ nextRenewalAt[s] <= now
    /\ Pay(owner[s], nextRenewalAt[s] + Days)
    /\ nextRenewalAt' = [nextRenewalAt EXCEPT ![s] = @ + Days]
    /\ charges' = [charges EXCEPT ![s] = @ + 1]
    /\ UNCHANGED <<now, status, owner, alerts>>

\* The player cancels it, or it cannot be renewed.
End(s) ==
    /\ status[s] = "active"
    /\ \E v \in {"cancelled", "expired"} : status' = [status EXCEPT ![s] = v]
    /\ UNCHANGED <<now, balance, paid, account, alerts>>

Announce(s) ==
    /\ status[s] = "expired" /\ alerts[s] = 0
    /\ alerts' = [alerts EXCEPT ![s] = 1]
    /\ UNCHANGED <<now, balance, paid, status, account>>

\* A period bought without a subscription.
Buy(p) ==
    /\ Pay(p, now + Days)
    /\ UNCHANGED <<now, status, account, alerts>>

\* An administrator adjusts the balance ...
Adjust(p, amount) ==
    /\ balance[p] + amount >= 0
    /\ balance' = [balance EXCEPT ![p] = @ + amount]
    /\ UNCHANGED <<now, paid, status, account, alerts>>

\* ... or decides over the role, whatever has been paid for.
Overrule(p) ==
    /\ paid' = [paid EXCEPT ![p] = 0]
    /\ UNCHANGED <<now, balance, status, account, alerts>>

Tick == now' = now + 1 /\ UNCHANGED <<balance, paid, status, account, alerts>>

Next ==
    \/ \E s \in Subs : Bill(s) \/ End(s) \/ Announce(s) \/ \E p \in Players : Enrol(p, s)
    \/ \E p \in Players : Buy(p) \/ Overrule(p) \/ \E amount \in {-Price, Price} : Adjust(p, amount)
    \/ Tick

Spec == Init /\ [][Next]_vars
================================================================================
