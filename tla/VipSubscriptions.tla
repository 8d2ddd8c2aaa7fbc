--------------------------- MODULE VipSubscriptions ---------------------------
(***************************************************************************)
(* Recurring VIP subscriptions: the routes that create and cancel them,    *)
(* the hourly renewal pass of worker-role-expirer and its pass of every    *)
(* minute that takes away roles whose time is up.  A pass reads what is    *)
(* due once and then works from what it has read, while players,           *)
(* administrators, the other passes and those of a second worker process   *)
(* go on; each of its transactions checks again what it relies on.         *)
(***************************************************************************)
EXTENDS VipGrants

CONSTANTS
    Subs,           \* ids of subscriptions, which grow with time (uuidv7)
    Renewers,       \* renewal loops, one in each role-expirer process
    Expirers,       \* expiry loops, one in each role-expirer process
    NoPlayer,       \* a subscription not created yet
    Lead,           \* VIP_RENEWAL_LEAD_MS
    Grace,          \* SUBSCRIPTION_RENEWAL_GRACE
    MaxFaults       \* bound: failed transactions and crashes

ASSUME SubscriptionAssumption ==
    /\ NoPlayer \notin Players /\ Subs \subseteq Nat
    /\ Lead \in 0..Days /\ Grace \in Nat /\ MaxFaults \in Nat

VARIABLES
    status,         \* vip_subscriptions.status, "absent" before the row exists
    owner,          \* player_id
    nextRenewalAt,  \* next_renewal_at
    passNow,        \* the `now` of a renewal pass
    due,            \* what the pass has read and not yet settled
    stage,          \* "charge", or what is left for its first one: "expire", "notify"
    found,          \* what the expiry pass has read: [player, role, expiresAt]
    firstAt,        \* history: the first next_renewal_at
    charges,        \* history: periods charged to the subscription
    alerts,         \* history: alert_events rows about its end
    faults          \* failures so far

subscription == <<status, owner, nextRenewalAt, firstAt, charges, alerts>>
renewal      == <<passNow, due, stage>>
grants       == <<now, tierRole, panel, balance, role, roleExpiresAt, cart, qualifies, snapshot, edits, paid, steady>>
vars         == <<grants, subscription, renewal, found, faults>>

DueRows     == [sub : Subs, role : TierRoles, dueAt : Nat]
ExpiredRows == [player : Players, role : Roles, expiresAt : Nat]

\* The types of the tables and of the passes.  bonus_balance is a natural
\* number: no charge and no adjustment overdraws it.
TypeOK ==
    /\ GrantTypeOK
    /\ status \in [Subs -> {"absent", "active", "cancelled", "expired"}]
    /\ owner \in [Subs -> Players \cup {NoPlayer}]
    /\ nextRenewalAt \in [Subs -> Nat] /\ firstAt \in [Subs -> Nat]
    /\ charges \in [Subs -> Nat] /\ alerts \in [Subs -> Nat]
    /\ passNow \in [Renewers -> Nat]
    /\ due \in [Renewers -> SUBSET DueRows]
    /\ stage \in [Renewers -> {"charge", "expire", "notify"}]
    /\ found \in [Expirers -> SUBSET ExpiredRows]
    /\ faults \in 0..MaxFaults

Init ==
    /\ GrantInit
    /\ status = [s \in Subs |-> "absent"]
    /\ owner = [s \in Subs |-> NoPlayer]
    /\ nextRenewalAt = [s \in Subs |-> Null]
    /\ firstAt = [s \in Subs |-> Null]
    /\ charges = [s \in Subs |-> 0]
    /\ alerts = [s \in Subs |-> 0]
    /\ passNow = [w \in Renewers |-> Null]
    /\ due = [w \in Renewers |-> {}]
    /\ stage = [w \in Renewers |-> "charge"]
    /\ found = [x \in Expirers |-> {}]
    /\ faults = 0

Fault == faults < MaxFaults /\ faults' = faults + 1

-----------------------------------------------------------------------------
(* The routes *)

Subscribed(p) == \E s \in Subs : owner[s] = p /\ status[s] = "active"

\* createSubscription: the first period is charged and the player enrolled,
\* unless there is an active subscription already or the sale is refused.
CreateSubscription(p, s) ==
    /\ cart[p] # NoRole
    /\ status[s] = "absent" /\ \A z \in Subs : z < s => status[z] # "absent"
    /\ \/ /\ ~ Subscribed(p) /\ Plan(p, cart[p]) = "ok"
          /\ ApplyVipGrant(p, cart[p], now)
          /\ status' = [status EXCEPT ![s] = "active"]
          /\ owner' = [owner EXCEPT ![s] = p]
          /\ nextRenewalAt' = [nextRenewalAt EXCEPT ![s] = Later(p, cart[p], now) - Lead]
          /\ firstAt' = [firstAt EXCEPT ![s] = Later(p, cart[p], now) - Lead]
          /\ charges' = [charges EXCEPT ![s] = 1]
          /\ steady' = IF cart[p] = tierRole THEN steady \cup {p} ELSE steady \ {p}
       \/ /\ Subscribed(p) \/ Plan(p, cart[p]) # "ok"
          /\ UNCHANGED <<player, paid, status, owner, nextRenewalAt, firstAt, charges, steady>>
    /\ cart' = [cart EXCEPT ![p] = NoRole]
    /\ UNCHANGED <<now, catalogue, seeding, edits, alerts, renewal, found, faults>>

\* DELETE /me/subscriptions/:id.
CancelSubscription(s) ==
    /\ status[s] = "active"
    /\ status' = [status EXCEPT ![s] = "cancelled"]
    /\ UNCHANGED <<grants, owner, nextRenewalAt, firstAt, charges, alerts, renewal, found, faults>>

-----------------------------------------------------------------------------
(* The renewal pass *)

\* Mutant of DueAt: a subscription is due only once its time has passed.
PastDue(s) == status[s] = "active" /\ nextRenewalAt[s] < now

\* The condition of findDueSubscriptions.
DueAt(s) == status[s] = "active" /\ nextRenewalAt[s] <= now

\* findDueSubscriptions: the role is read from the tier with the rows.
FindDue(w) ==
    /\ due[w] = {}
    /\ \E s \in Subs : DueAt(s)
    /\ due' = [due EXCEPT ![w] = {[sub |-> s, role |-> tierRole, dueAt |-> nextRenewalAt[s]] :
                                    s \in {x \in Subs : DueAt(x)}}]
    /\ passNow' = [passNow EXCEPT ![w] = now]
    /\ UNCHANGED <<grants, subscription, stage, found, faults>>

\* The pass goes through its rows in the order of next_renewal_at; equal dates
\* are in the order of their ids, one of those the query may return.
First(w, d) ==
    /\ d \in due[w]
    /\ \A e \in due[w] : d.dueAt < e.dueAt \/ (d.dueAt = e.dueAt /\ d.sub <= e.sub)

Settled(w, d) ==
    /\ due' = [due EXCEPT ![w] = @ \ {d}]
    /\ passNow' = IF due[w] = {d} THEN [passNow EXCEPT ![w] = Null] ELSE passNow
    /\ stage' = [stage EXCEPT ![w] = "charge"]

\* Mutant of StillDue: only the status is checked.
StillActive(d) == status[d.sub] = "active"

\* Mutant of StillDue: only the date is checked.
StillUnmoved(d) == nextRenewalAt[d.sub] = d.dueAt

\* The condition of the charge's update, without which it is rolled back.
StillDue(d) == status[d.sub] = "active" /\ nextRenewalAt[d.sub] = d.dueAt

\* chargeRenewal: a period is charged and the billing date moves by one period
\* from the date that was due, or nothing happens, or the row is to be ended.
ChargeRenewal(w, d) ==
    LET p == owner[d.sub]
        refused == d.role \in panel \/ Plan(p, d.role) # "ok"
    IN
    /\ stage[w] = "charge" /\ First(w, d)
    /\ \/ /\ refused
          /\ stage' = [stage EXCEPT ![w] = "expire"]
          /\ UNCHANGED <<player, paid, nextRenewalAt, charges, passNow, due>>
       \/ /\ ~ refused /\ StillDue(d)
          /\ ApplyVipGrant(p, d.role, passNow[w])
          /\ nextRenewalAt' = [nextRenewalAt EXCEPT ![d.sub] = d.dueAt + Days]
          /\ charges' = [charges EXCEPT ![d.sub] = @ + 1]
          /\ Settled(w, d)
       \/ /\ ~ refused /\ ~ StillDue(d)
          /\ Settled(w, d)
          /\ UNCHANGED <<player, paid, nextRenewalAt, charges>>
    /\ UNCHANGED <<now, catalogue, cart, seeding, edits, steady, status, owner, firstAt, alerts, found, faults>>

\* Mutant of ExpireSubscription: what the update returns is not looked at.
ExpireAnyway(w, d) ==
    /\ stage[w] = "expire" /\ First(w, d)
    /\ status' = IF status[d.sub] = "active" THEN [status EXCEPT ![d.sub] = "expired"] ELSE status
    /\ stage' = [stage EXCEPT ![w] = "notify"]
    /\ UNCHANGED <<grants, owner, nextRenewalAt, firstAt, charges, alerts, passNow, due, found, faults>>

\* expireSubscription: an active row is ended; of any other nobody is told.
ExpireSubscription(w, d) ==
    /\ stage[w] = "expire" /\ First(w, d)
    /\ \/ /\ status[d.sub] = "active"
          /\ status' = [status EXCEPT ![d.sub] = "expired"]
          /\ stage' = [stage EXCEPT ![w] = "notify"]
          /\ UNCHANGED <<passNow, due>>
       \/ /\ status[d.sub] # "active"
          /\ Settled(w, d)
          /\ UNCHANGED status
    /\ UNCHANGED <<grants, owner, nextRenewalAt, firstAt, charges, alerts, found, faults>>

\* writeAuditEntry and notifySubscriptionExpired.
NotifyExpired(w, d) ==
    /\ stage[w] = "notify" /\ First(w, d)
    /\ alerts' = [alerts EXCEPT ![d.sub] = @ + 1]
    /\ Settled(w, d)
    /\ UNCHANGED <<grants, status, owner, nextRenewalAt, firstAt, charges, found, faults>>

\* A call for one row throws: it is logged, and the pass goes on with the next.
RowFails(w, d) ==
    /\ First(w, d)
    /\ Fault
    /\ Settled(w, d)
    /\ UNCHANGED <<grants, subscription, found>>

-----------------------------------------------------------------------------
(* The expiry pass *)

\* The tier's active subscription is about to renew the player's role.
AboutToRenew(p) ==
    /\ role[p] = tierRole
    /\ \E s \in Subs : /\ owner[s] = p /\ status[s] = "active"
                       /\ nextRenewalAt[s] <= roleExpiresAt[p] + Grace

\* Mutant of Expired: a role is taken whoever is about to renew it.
ExpiredUnprotected(p) == role[p] # NoRole /\ roleExpiresAt[p] # Null /\ roleExpiresAt[p] <= now

\* Mutant of Expired: only the catalogue's role ever runs out.
ExpiredTierRole(p) ==
    /\ role[p] = tierRole /\ roleExpiresAt[p] # Null /\ roleExpiresAt[p] <= now
    /\ ~ AboutToRenew(p)

\* The condition of findExpiredAssignments.
Expired(p) ==
    /\ role[p] # NoRole /\ roleExpiresAt[p] # Null /\ roleExpiresAt[p] <= now
    /\ ~ AboutToRenew(p)

FindExpired(x) ==
    /\ found[x] = {}
    /\ \E p \in Players : Expired(p)
    /\ found' = [found EXCEPT ![x] = {[player |-> p, role |-> role[p], expiresAt |-> roleExpiresAt[p]] :
                                        p \in {y \in Players : Expired(y)}}]
    /\ UNCHANGED <<grants, subscription, renewal, faults>>

\* Mutant of AsFound: the role alone is compared.
SameRole(x, p) == \E e \in found[x] : e.player = p /\ e.role = role[p]

\* The condition of clearExpiredAssignments: the row is as it was read.
AsFound(x, p) ==
    \E e \in found[x] : e.player = p /\ e.role = role[p] /\ e.expiresAt = roleExpiresAt[p]

ClearExpired(x) ==
    /\ found[x] # {}
    /\ role' = [p \in Players |-> IF AsFound(x, p) THEN NoRole ELSE role[p]]
    /\ roleExpiresAt' = [p \in Players |-> IF AsFound(x, p) THEN Null ELSE roleExpiresAt[p]]
    /\ found' = [found EXCEPT ![x] = {}]
    /\ UNCHANGED <<now, catalogue, balance, cart, seeding, edits, history, subscription, renewal, faults>>

-----------------------------------------------------------------------------

\* A worker process dies in the middle of a pass.
WorkerCrash ==
    /\ Fault
    /\ \/ \E w \in Renewers :
             /\ due[w] # {}
             /\ due' = [due EXCEPT ![w] = {}]
             /\ passNow' = [passNow EXCEPT ![w] = Null]
             /\ stage' = [stage EXCEPT ![w] = "charge"]
             /\ UNCHANGED found
       \/ \E x \in Expirers :
             /\ found[x] # {}
             /\ found' = [found EXCEPT ![x] = {}]
             /\ UNCHANGED renewal
    /\ UNCHANGED <<grants, subscription>>

RenewalStep(w) ==
    \/ FindDue(w)
    \/ \E d \in due[w] : ChargeRenewal(w, d) \/ ExpireSubscription(w, d) \/ NotifyExpired(w, d)

ExpiryStep(x) == FindExpired(x) \/ ClearExpired(x)

Next ==
    \/ GrantNext /\ UNCHANGED <<subscription, renewal, found, faults>>
    \/ \E s \in Subs : CancelSubscription(s) \/ \E p \in Players : CreateSubscription(p, s)
    \/ \E w \in Renewers : RenewalStep(w) \/ \E d \in due[w] : RowFails(w, d)
    \/ \E x \in Expirers : ExpiryStep(x)
    \/ WorkerCrash

Spec == Init /\ [][Next]_vars

\* A worker's passes come round again and again and run to their end.
FairSpec ==
    /\ Spec
    /\ \A w \in Renewers : WF_vars(RenewalStep(w))
    /\ \A x \in Expirers : WF_vars(ExpiryStep(x))

-----------------------------------------------------------------------------
(* Properties *)

\* However the passes of two workers overlap, and whatever fails, every charge
\* of a subscription stands for one period: the billing date has moved by a
\* period for every charge after the first (chargeRenewalTx's dueAt).
ChargedOncePerPeriod ==
    \A s \in Subs : status[s] # "absent" =>
        nextRenewalAt[s] = firstAt[s] + (charges[s] - 1) * Days

\* A role that has been paid for is held until the time it was paid for, unless
\* an administrator has changed it: neither an expiry pass that read the
\* player before the payment nor the seed reward takes it away.
PaidRoleKept ==
    \A p \in Players : now < paid[p] => role[p] # NoRole /\ roleExpiresAt[p] = paid[p]

\* An active subscription does not lapse between two periods: its player has the
\* tier's role even if renewals are late, because the expiry pass leaves a role
\* alone that is about to be renewed (findExpiredAssignments), and is billed
\* Lead ahead of the expiry.  Administrators may take the role away.
ActiveHoldsRole ==
    \A s \in Subs : (status[s] = "active" /\ owner[s] \in steady) =>
        /\ role[owner[s]] = tierRole
        /\ nextRenewalAt[s] + Lead <= roleExpiresAt[owner[s]]

\* The end of a subscription is announced at most once, and only of one that a
\* renewal pass has ended: never of one cancelled while the pass went on.
AnnouncedOnce ==
    \A s \in Subs : alerts[s] <= 1 /\ (alerts[s] = 1 => status[s] = "expired")

\* To the player, all this is what VipPromise says, step by step: however long
\* ago a pass has read its rows, it bills only a subscription that is active and
\* due, the player can pay, and is covered until the next bill (chargeRenewal,
\* expireSubscription, createSubscription).
Promise == INSTANCE VipPromise
BillingKeepsPromise == Promise!Spec

\* A subscription that has come due is renewed, ended or cancelled in the end.
ToBill(s) == status[s] = "active" /\ nextRenewalAt[s] <= now
DueIsSettled ==
    \A s \in Subs : ToBill(s) ~> ~ ToBill(s)

\* A role whose time has been up for longer than Grace is taken away or renewed
\* in the end: a subscription that cannot renew it does not protect it for ever.
Overdue(p) == role[p] # NoRole /\ roleExpiresAt[p] # Null /\ roleExpiresAt[p] + Grace <= now
ExpiredRoleIsTaken ==
    \A p \in Players : Overdue(p) ~> ~ Overdue(p)
===============================================================================
